----------------------------- MODULE LogFormat -----------------------------
(***************************************************************************)
(* leveldb's log files (db/log_writer.cc, db/log_reader.cc): the write-    *)
(* ahead log and the MANIFEST. log::Writer cuts a record into fragments    *)
(* that never cross a block, log::Reader puts them together again. Between *)
(* the two the file may lose its tail in a crash, keep preallocated zeros  *)
(* behind its end, or be damaged in one place; the writer may also fail to *)
(* append.                                                                 *)
(*                                                                         *)
(* A file is a sequence of cells. The first cell of a header stands for    *)
(* its checksum, length and type; the checksum is ideal: it matches the    *)
(* type and the payload it was computed for and nothing else.              *)
(***************************************************************************)
EXTENDS Naturals, Sequences
LOCAL INSTANCE SequencesExt

CONSTANTS
  kBlockSize,
  kHeaderSize,
  RecordSize,    \* sizes of the records that are added
  MaxRecords,    \* bound on the records
  InitialOffset  \* offsets at which a Reader may be started

ASSUME LogAssumption ==
  /\ kHeaderSize \in Nat \ {0}
  /\ kBlockSize \in Nat /\ kBlockSize > kHeaderSize
  /\ RecordSize \subseteq Nat
  /\ MaxRecords \in Nat
  /\ InitialOffset \subseteq Nat

VARIABLES
  logFile,  \* the cells of the file
  added,    \* the records: size, first and last offset + 1, "open", "ok" or "failed"
  writer,   \* block_offset_, and what is left of the record being added
  fault,    \* what happened to the file
  reader,   \* log::Reader, and the locals of ReadRecord
  yielded,  \* the records ReadRecord returned
  drops     \* the reasons reported to Reporter::Corruption

logVars == <<logFile, added, writer, fault, reader, yielded, drops>>

-----------------------------------------------------------------------------
kZeroType == 0
kFullType == 1
kFirstType == 2
kMiddleType == 3
kLastType == 4
kEof == 5
kBadRecord == 6

Zero == [cell |-> "zero"]
Damaged == [cell |-> "damaged"]
Data(k, i) == [cell |-> "data", record |-> k, at |-> i]
Header(t, payload) ==
  [cell |-> "header", type |-> t, length |-> Len(payload), crc |-> <<t, payload>>]
IsHeader(c) == c.cell = "header"

Zeros(n) == [i \in 1..n |-> Zero]
Payload(k, n) == [i \in 1..n |-> Data(k, i)]
PhysicalRecord(t, payload) ==
  <<Header(t, payload)>> \o [i \in 1..(kHeaderSize - 1) |-> [cell |-> "rest"]] \o payload

Fault(kind, block) == [kind |-> kind, block |-> block]

NoReader == [file_pos |-> 0, buffer |-> <<>>, eof |-> FALSE,
             end_of_buffer_offset |-> 0, last_record_offset |-> 0,
             initial_offset |-> 0, in_fragmented |-> FALSE,
             scratch |-> <<>>, prospective |-> 0, phase |-> "none"]

LogInit ==
  /\ logFile = <<>>
  /\ added = <<>>
  /\ writer = [block_offset |-> 0, left |-> 0, begin |-> FALSE]
  /\ fault = Fault("none", 0)
  /\ reader = NoReader
  /\ yielded = <<>>
  /\ drops = <<>>

-----------------------------------------------------------------------------
(* Writer. *)
WriterAlive == reader.phase = "none" /\ fault.kind \in {"none", "append"}
Writing == WriterAlive /\ added # <<>> /\ Last(added).status = "open"

\* AddRecord is called.
AddRecord ==
  /\ WriterAlive /\ ~Writing
  /\ Len(added) < MaxRecords
  /\ \E n \in RecordSize :
       /\ added' = Append(added, [size |-> n, offset |-> 0, end |-> 0,
                                   status |-> "open"])
       /\ writer' = [writer EXCEPT !.left = n, !.begin = TRUE]
  /\ UNCHANGED <<logFile, fault, reader, yielded, drops>>

\* Cells of the trailer that are filled with zeros before the next fragment.
Trailer(offset) ==
  LET leftover == kBlockSize - offset
  IN IF leftover < kHeaderSize THEN leftover ELSE 0

BlockStart(offset) == IF kBlockSize - offset < kHeaderSize THEN 0 ELSE offset

Avail(start) == kBlockSize - start - kHeaderSize

RecordType(begin, end) ==
  CASE begin /\ end -> kFullType
    [] begin /\ ~end -> kFirstType
    [] ~begin /\ end -> kLastType
    [] OTHER -> kMiddleType

\* One round of AddRecord's loop and EmitPhysicalRecord. Without a failure the
\* header and the payload are appended and flushed; otherwise one of the three
\* fails, and with it the record, and block_offset_ advances all the same.
EmitPhysicalRecord ==
  LET trailer == Trailer(writer.block_offset)
      start == BlockStart(writer.block_offset)
      n == IF writer.left < Avail(start) THEN writer.left ELSE Avail(start)
      k == Len(added)
      size == added[k].size
      t == RecordType(writer.begin, writer.left = n)
      fragment == SubSeq(Payload(k, size), size - writer.left + 1, size - writer.left + n)
      cells == PhysicalRecord(t, fragment)
      offset == IF writer.begin THEN Len(logFile) + trailer ELSE added[k].offset
      Goes(status) == added' = [added EXCEPT ![k].status = status, ![k].offset = offset,
                                             ![k].end = Len(logFile')]
  IN /\ Writing
     /\ writer' = [block_offset |-> start + kHeaderSize + n,
                   left |-> writer.left - n, begin |-> FALSE]
     /\ \/ /\ logFile' = logFile \o Zeros(trailer) \o cells
           /\ Goes(IF writer.left = n THEN "ok" ELSE "open")
           /\ UNCHANGED fault
        \/ /\ \E some \in {0, kHeaderSize, Len(cells)} :
                logFile' = logFile \o Zeros(trailer) \o SubSeq(cells, 1, some)
           /\ Goes("failed")
           /\ fault.kind = "none"
           /\ fault' = Fault("append", 0)
     /\ UNCHANGED <<reader, yielded, drops>>

-----------------------------------------------------------------------------
(* The file between the writer and the reader. *)

\* The process or the machine stops: only a prefix of the file is left.
LogCrash ==
  /\ reader.phase = "none" /\ fault.kind = "none"
  /\ \E n \in 0..Len(logFile) : logFile' = SubSeq(logFile, 1, n)
  /\ fault' = Fault("crash", 0)
  /\ UNCHANGED <<added, writer, reader, yielded, drops>>

\* The file had a region preallocated that was never written.
Preallocated ==
  /\ reader.phase = "none" /\ fault.kind = "none" /\ ~Writing
  /\ \E n \in 1..kBlockSize : logFile' = logFile \o Zeros(n)
  /\ fault' = Fault("zeros", 0)
  /\ UNCHANGED <<added, writer, reader, yielded, drops>>

\* One cell is damaged: a payload cell, or the type, the length or the
\* checksum of a header.
Damage ==
  /\ reader.phase = "none" /\ fault.kind = "none" /\ ~Writing
  /\ \E i \in DOMAIN logFile :
       LET c == logFile[i] IN
       /\ c.cell \in {"data", "header"}
       /\ \E d \in IF IsHeader(c)
                     THEN {[c EXCEPT !.type = t] : t \in kZeroType..(kLastType + 1)}
                            \cup {[c EXCEPT !.length = n] : n \in 0..kBlockSize}
                            \cup {[c EXCEPT !.crc = <<0, <<Damaged>>>>]}
                     ELSE {Damaged} :
            /\ d # c
            /\ logFile' = [logFile EXCEPT ![i] = d]
       /\ fault' = Fault("damage", (i - 1) \div kBlockSize)
  /\ UNCHANGED <<added, writer, reader, yielded, drops>>

-----------------------------------------------------------------------------
(* Reader. *)

\* SkipToInitialBlock: start of the first block that can hold a record at or
\* after offset.
SkipToInitialBlock(offset) ==
  LET start == offset - (offset % kBlockSize)
  IN IF offset % kBlockSize > kBlockSize - (kHeaderSize - 1)
       THEN start + kBlockSize
       ELSE start

\* A Reader is made, and the first ReadRecord skips to its initial block.
\* Skip is lseek: it succeeds behind the end of the file too.
OpenReader ==
  /\ reader.phase = "none" /\ ~Writing
  /\ \E o \in InitialOffset :
       LET start == SkipToInitialBlock(o) IN
       reader' = [NoReader EXCEPT !.initial_offset = o, !.file_pos = start,
                                  !.end_of_buffer_offset = start, !.phase = "reading"]
  /\ UNCHANGED <<logFile, added, writer, fault, yielded, drops>>

\* A drop of some bytes with its reason, and ReportDrop: it is reported if it
\* lies behind initial_offset_.
NoDrop == <<>>
Drop(bytes, reason) == <<[bytes |-> bytes, reason |-> reason]>>

ReportDrop(r, dropped) ==
  SelectSeq(dropped, LAMBDA d : r.end_of_buffer_offset - Len(r.buffer)
                                  >= d.bytes + r.initial_offset)

\* Read the next block when the buffer holds no header any more.
FillBuffer(r) ==
  LET end == r.file_pos + kBlockSize
      block == SubSeq(logFile, r.file_pos + 1, IF end < Len(logFile) THEN end ELSE Len(logFile))
  IN IF Len(r.buffer) >= kHeaderSize THEN r
     ELSE IF r.eof THEN [r EXCEPT !.buffer = <<>>]
     ELSE [r EXCEPT !.buffer = block, !.file_pos = @ + Len(block),
                    !.end_of_buffer_offset = @ + Len(block),
                    !.eof = Len(block) < kBlockSize]

\* The buffer is cleared, and dropped if there is a reason.
NoRecord(t, r, reason) ==
  [type |-> t, fragment |-> <<>>, reader |-> [r EXCEPT !.buffer = <<>>],
   dropped |-> IF reason = "" THEN NoDrop ELSE Drop(Len(r.buffer), reason)]

ChecksumMatches(header, payload) == header.crc = <<header.type, payload>>

\* A length beyond the buffer: corruption, or the writer died in the record.
\* ReportCorruption comes after the buffer is cleared.
TruncatedRecord(r) ==
  IF r.eof THEN NoRecord(kEof, r, "")
           ELSE NoRecord(kBadRecord, r, "bad record length")

\* ReadPhysicalRecord: the possible results. A cell that is not the start of
\* a header is read as one all the same, with any length and type.
ReadPhysicalRecord(r0) ==
  LET r == FillBuffer(r0)
      h == r.buffer[1]
      payload == SubSeq(r.buffer, kHeaderSize + 1, kHeaderSize + h.length)
      rest == SubSeq(r.buffer, kHeaderSize + h.length + 1, Len(r.buffer))
      after == [r EXCEPT !.buffer = rest]
      begin == r.end_of_buffer_offset - Len(r.buffer)
  IN IF Len(r.buffer) < kHeaderSize THEN {NoRecord(kEof, r, "")}
     ELSE IF h = Zero THEN {NoRecord(kBadRecord, r, "")}
     ELSE IF ~IsHeader(h)
       THEN {TruncatedRecord(r), NoRecord(kBadRecord, r, ""),
             NoRecord(kBadRecord, r, "checksum mismatch")}
     ELSE IF kHeaderSize + h.length > Len(r.buffer) THEN {TruncatedRecord(r)}
     ELSE IF h.type = kZeroType /\ h.length = 0 THEN {NoRecord(kBadRecord, r, "")}
     ELSE IF ~ChecksumMatches(h, payload)
       THEN {NoRecord(kBadRecord, r, "checksum mismatch")}
     ELSE IF begin < r.initial_offset
       THEN {[type |-> kBadRecord, fragment |-> <<>>, reader |-> after, dropped |-> NoDrop]}
     ELSE {[type |-> h.type, fragment |-> payload, reader |-> after, dropped |-> NoDrop]}

DropFragments(r) == [r EXCEPT !.in_fragmented = FALSE, !.scratch = <<>>]

\* Mutant: what a fragmented record had before a bad record is kept.
KeepAfterBad(r) == r

AfterBadRecord(r) == DropFragments(r)

\* The case of ReadRecord's switch for physical record p, which starts at
\* offset: the reader, what is returned (a sequence of at most one record)
\* and what is dropped.
Switch(p, offset) ==
  LET r == p.reader
      f == p.fragment
      held == Len(r.scratch)
      partial == IF r.in_fragmented /\ held > 0
                   THEN Drop(held, "partial record without end") ELSE NoDrop
      Result(nr, out, dropped) == [reader |-> nr, out |-> out, dropped |-> dropped]
      Return(nr, rec, dropped) ==
        Result([DropFragments(nr) EXCEPT !.last_record_offset = nr.prospective],
               <<rec>>, dropped)
  IN CASE p.type = kFullType -> Return([r EXCEPT !.prospective = offset], f, partial)
       [] p.type = kFirstType ->
            Result([r EXCEPT !.prospective = offset, !.scratch = f, !.in_fragmented = TRUE],
                   <<>>, partial)
       [] p.type = kMiddleType /\ r.in_fragmented ->
            Result([r EXCEPT !.scratch = @ \o f], <<>>, NoDrop)
       [] p.type = kLastType /\ r.in_fragmented -> Return(r, r.scratch \o f, NoDrop)
       [] p.type \in {kMiddleType, kLastType} /\ ~r.in_fragmented ->
            Result(r, <<>>, Drop(Len(f), "missing start of fragmented record"))
       [] p.type = kEof -> Result([DropFragments(r) EXCEPT !.phase = "done"], <<>>, NoDrop)
       [] p.type = kBadRecord ->
            Result(AfterBadRecord(r), <<>>,
                   IF r.in_fragmented THEN Drop(held, "error in middle of record") ELSE NoDrop)
       [] OTHER -> Result(DropFragments(r), <<>>, Drop(Len(f) + held, "unknown record type"))

\* One round of the loop of ReadRecord, which the caller repeats until the end
\* of the file. The offset of the physical record is taken before the buffer
\* is filled: at a block boundary it is that of the trailer.
ReadRecord ==
  /\ reader.phase = "reading"
  /\ \E p \in ReadPhysicalRecord(reader) :
       LET offset == reader.end_of_buffer_offset - Len(reader.buffer)
           s == Switch(p, offset)
       IN /\ reader' = s.reader
          /\ yielded' = yielded \o s.out
          /\ drops' = drops \o ReportDrop(p.reader, p.dropped \o s.dropped)
  /\ UNCHANGED <<logFile, added, writer, fault>>

LogNext ==
  \/ AddRecord \/ EmitPhysicalRecord
  \/ LogCrash \/ Preallocated \/ Damage
  \/ OpenReader \/ ReadRecord

\* The end of the log's life: it has been read to its end.
LogDone == reader.phase = "done" /\ UNCHANGED logVars

LogSpec == LogInit /\ [][LogNext \/ LogDone]_logVars

-----------------------------------------------------------------------------
(* Properties. *)

\* Type invariant of the log file, its writer and its reader.
LogTypeOK ==
  /\ writer.block_offset \in 0..kBlockSize
  /\ \A k \in DOMAIN added : added[k].size \in RecordSize /\ added[k].end \in Nat
  /\ \A i \in DOMAIN logFile : logFile[i].cell \in {"zero", "damaged", "data", "header", "rest"}
  /\ Len(reader.buffer) <= kBlockSize
  /\ reader.phase \in {"none", "reading", "done"}

\* s is t without some of its elements.
IsSubsequence(s, t) ==
  \E keep \in SUBSET DOMAIN t :
    LET at == SelectSeq([i \in DOMAIN t |-> i], LAMBDA i : i \in keep)
    IN s = [i \in DOMAIN at |-> t[at[i]]]

\* Records that lie behind the reader's initial offset, in order.
Expected(Kept(_)) ==
  LET ks == SelectSeq([k \in DOMAIN added |-> k],
                      LAMBDA k : /\ added[k].offset >= reader.initial_offset
                                 /\ Kept(added[k]))
  IN [i \in DOMAIN ks |-> Payload(ks[i], added[ks[i]].size)]

\* Whatever happened to the file (a crash, damage, a failed append), the
\* reader never returns a record that was not added: no mix of two records,
\* no part of one, none twice and none out of order. (A record that failed
\* may be in the file.)
OnlyWhatWasAdded ==
  IsSubsequence(yielded, Expected(LAMBDA r : r.status # "open"))

\* After a crash, or in a file with a preallocated tail, the reader returns
\* every complete record that was left of the file, from any initial offset.
CompleteRecordsAreRead ==
  reader.phase = "done" /\ fault.kind \in {"none", "crash", "zeros"} =>
    yielded = Expected(LAMBDA r : r.status = "ok" /\ r.end <= Len(logFile))

\* Damage in one block costs only records with a part in that block: the
\* reader finds the next record at the next block.
DamageIsLocal ==
  reader.phase = "done" /\ fault.kind = "damage" =>
    LET Apart(r) == fault.block \notin (r.offset \div kBlockSize)..((r.end - 1) \div kBlockSize)
    IN IsSubsequence(Expected(Apart), yielded)

\* A crash of the writer and a preallocated tail are not corruptions: nothing
\* is reported for a log that is read from its start.
CrashIsNotCorruption ==
  reader.initial_offset = 0 /\ fault.kind \in {"none", "crash", "zeros"} => drops = <<>>

\* ReadRecord skips to the initial block as long as the last record returned
\* lies before the initial offset; after a first record it never does again.
LogSkipsOnce ==
  yielded # <<>> => reader.last_record_offset >= reader.initial_offset

\* What was written to a log is read back, or its loss is reported.
LogReadsBack ==
  /\ LogTypeOK
  /\ OnlyWhatWasAdded
  /\ CompleteRecordsAreRead
  /\ DamageIsLocal
  /\ CrashIsNotCorruption
  /\ LogSkipsOnce
=============================================================================
