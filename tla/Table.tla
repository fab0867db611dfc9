------------------------------- MODULE Table -------------------------------
(***************************************************************************)
(* leveldb's tables: BlockBuilder, TableBuilder and FilterBlockBuilder     *)
(* write one (table/block_builder.cc, table_builder.cc, filter_block.cc),  *)
(* Table, Block::Iter and FilterBlockReader read it (table.cc, block.cc,   *)
(* format.cc, filter_block.cc). Appends may fail; one block of a finished  *)
(* file may be damaged.                                                    *)
(*                                                                         *)
(* Offsets inside a block count entries, offsets in the file count units:  *)
(* an entry takes one and one per byte of its key delta. A value stands    *)
(* for its key, or is a block handle.                                      *)
(***************************************************************************)
EXTENDS InternalKeys

CONSTANTS
  TableKeys,      \* the internal keys that may be added
  MaxEntries,     \* bound on the entries of a table
  MaxChanges,     \* bound on the calls of ChangeOptions
  BlockSizes,     \* values of block_size
  Intervals,      \* values of block_restart_interval
  FilterBase,     \* kFilterBase
  DamageKinds     \* what may happen to a block: see Spoil and ReadBlock

ASSUME TableAssumption ==
  /\ {MaxEntries, MaxChanges} \subseteq Nat
  /\ BlockSizes \cup Intervals \cup {FilterBase} \subseteq Nat \ {0}
  /\ DamageKinds \subseteq {"structure", "key", "value", "type", "crc"}

VARIABLES
  builder,  \* TableBuilder::Rep, with its file
  addedKeys, \* history: the keys that were added
  damage,   \* the damaged block (0: none), the kind, and the checksums that
            \* are verified: options.paranoid_checks for the index, metaindex
            \* and filter blocks, ReadOptions::verify_checksums for the data
  cursor,   \* a Block::Iter over the data block number cursor.block
  place     \* reference: where the cursor should be, 0 for not valid

tableVars == <<builder, addedKeys, damage, cursor, place>>

-----------------------------------------------------------------------------
(* BlockBuilder *)
NewBlock == [entries |-> <<>>, restarts |-> <<0>>, counter |-> 0, last |-> <<>>]

BlockAppend(b, key, value, restart, shared) ==
  [entries |-> Append(b.entries, [shared |-> shared, value |-> value,
                                  delta |-> SubSeq(key, shared + 1, Len(key))]),
   restarts |-> IF restart THEN Append(b.restarts, Len(b.entries)) ELSE b.restarts,
   counter |-> IF restart THEN 1 ELSE b.counter + 1,
   last |-> key]
BlockAdd(b, key, value, interval) ==
  IF b.counter >= interval THEN BlockAppend(b, key, value, TRUE, 0)
  ELSE BlockAppend(b, key, value, FALSE, SharedLength(b.last, key))

CurrentSizeEstimate(b) ==
  LET size[i \in 0..Len(b.entries)] == IF i = 0 THEN 0 ELSE size[i - 1] + 1 + Len(b.entries[i].delta)
  IN size[Len(b.entries)] + Len(b.restarts) + 1

-----------------------------------------------------------------------------
(* FilterBlockBuilder: the filters so far and the keys of the next one. *)
GenerateFilter(f) ==
  [filters |-> Append(f.filters, IF f.keys = <<>> THEN EmptyFilter ELSE CreateFilter(f.keys)),
   keys |-> <<>>]

\* Mutant: the filter of the block's own offset is already closed.
StartBlockEager(f, offset) ==
  LET n == Len(f.filters)
      index == offset \div FilterBase
  IN IF index < n THEN f
     ELSE [filters |-> GenerateFilter(f).filters \o [i \in 1..(index - n) |-> EmptyFilter],
           keys |-> <<>>]

StartBlock(f, offset) ==
  LET n == Len(f.filters)
      index == offset \div FilterBase
  IN IF index <= n THEN f
     ELSE [filters |-> GenerateFilter(f).filters \o [i \in 1..(index - n - 1) |-> EmptyFilter],
           keys |-> <<>>]

FilterFinish(f) == IF f.keys = <<>> THEN f.filters ELSE GenerateFilter(f).filters

-----------------------------------------------------------------------------
(* TableBuilder. opt is the options: block size, restart interval, filter. *)
NewBuilder(opt) ==
  [opt |-> opt, file |-> <<>>, offset |-> 0, status |-> "ok", data |-> NewBlock, index |-> NewBlock,
   lastKey |-> <<>>, closed |-> FALSE, filter |-> [filters |-> <<>>, keys |-> <<>>],
   pending |-> FALSE, handle |-> 0, changes |-> 0]

Ok(r) == r.status = "ok"

\* WriteRawBlock. A handle is the block's place in the file; the block keeps
\* its offset.
WriteRawBlock(r, kind, contents, size, fails) ==
  IF fails THEN [r EXCEPT !.status = "IOError"]
  ELSE [r EXCEPT !.file = Append(@, [kind |-> kind, contents |-> contents, offset |-> r.offset]),
                 !.offset = @ + size + 1]

\* WriteBlock, without snappy. The builder b is reset by the caller.
WriteBlock(r, kind, b, fails) == WriteRawBlock(r, kind, b, CurrentSizeEstimate(b), fails)

\* io: the append or the flush of the file fails.
FilterStart(r) == IF r.opt.filter THEN [r EXCEPT !.filter = StartBlock(@, r.offset)] ELSE r
BlockWritten(r, io) ==
  IF Ok(r) THEN [r EXCEPT !.pending = TRUE, !.handle = Len(r.file),
                          !.status = IF io = "flush" THEN "IOError" ELSE "ok"]
  ELSE r
FlushBlock(r, io) ==
  IF ~Ok(r) \/ r.data.entries = <<>> THEN r
  ELSE FilterStart(BlockWritten([WriteBlock(r, "data", r.data, io = "append")
                                   EXCEPT !.data = NewBlock], io))

AddIndexEntry(r, key) ==
  [r EXCEPT !.index = BlockAdd(@, key, r.handle, 1), !.pending = FALSE]

IndexKey(r, key) == FindShortestSeparator(r.lastKey, key)

FlushIfFull(r, io) ==
  IF CurrentSizeEstimate(r.data) >= r.opt.blockSize THEN FlushBlock(r, io) ELSE r
AddToData(r, key) ==
  [r EXCEPT !.lastKey = key, !.data = BlockAdd(@, key, key, r.opt.interval),
            !.filter.keys = IF r.opt.filter THEN Append(@, key) ELSE @]
AddEntry(r, key, io) ==
  FlushIfFull(AddToData(IF r.pending THEN AddIndexEntry(r, IndexKey(r, key)) ELSE r, key), io)

\* A part of Finish that is left out after an error.
IfOk(r, step) == IF Ok(r) THEN step ELSE r

\* Finish: bad is the part that fails, 0 for none. The metaindex block holds
\* the handle of the filter, or nothing (0).
FinishFooter(r, metaindex, bad) ==
  IfOk(r, WriteRawBlock(r, "footer", [metaindex |-> metaindex, index |-> Len(r.file)], 0, bad = 4))
FinishIndex(r, metaindex, bad) ==
  FinishFooter(IfOk(r, WriteBlock(r, "index", r.index, bad = 3)), metaindex, bad)
FinishLastKey(r, bad) ==
  FinishIndex(IF r.pending THEN IfOk(r, AddIndexEntry(r, FindShortSuccessor(r.lastKey))) ELSE r,
              Len(r.file), bad)
FinishMetaindex(r, bad) ==
  FinishLastKey(IfOk(r, WriteRawBlock(r, "metaindex", IF r.opt.filter THEN Len(r.file) ELSE 0, 3,
                                      bad = 2)), bad)
WriteFilters(r, filters, bad) ==
  IfOk(r, WriteRawBlock(r, "filter", filters, Len(filters) + 1, bad = 1))
FinishFilter(r, bad) ==
  FinishMetaindex(IF r.opt.filter THEN WriteFilters(r, FilterFinish(r.filter), bad) ELSE r, bad)
FinishTable(r, bad, io) == FinishFilter([FlushBlock(r, io) EXCEPT !.closed = TRUE], bad)

-----------------------------------------------------------------------------
(* Block::Iter over block b: current_, the end of value_, restart_index_.   *)
EndOf(b) == Len(b.entries)
NewIter(b) == [cur |-> EndOf(b), next |-> 0, ri |-> Len(b.restarts), key |-> <<>>, status |-> "ok"]
IterValid(b, it) == it.cur < EndOf(b)
ToEnd(b, it) == [it EXCEPT !.cur = EndOf(b), !.ri = Len(b.restarts)]
CorruptionError(b, it) == [ToEnd(b, it) EXCEPT !.key = <<>>, !.status = "Corruption"]
GetRestartPoint(b, i) == b.restarts[i + 1]
SeekToRestartPoint(b, it, i) == [it EXCEPT !.key = <<>>, !.ri = i, !.next = GetRestartPoint(b, i)]

\* restart_index_ goes on while the next restart point is before current_.
AdvanceRestart(b, ri, cur) ==
  CHOOSE r \in ri..Len(b.restarts) :
    /\ \A i \in (ri + 1)..r : GetRestartPoint(b, i) < cur
    /\ r + 1 < Len(b.restarts) => GetRestartPoint(b, r + 1) >= cur

\* ParseNextKey; it returned true iff the result is valid.
ParseNextKey(b, it) ==
  IF it.next >= EndOf(b) THEN ToEnd(b, it)
  ELSE LET e == b.entries[it.next + 1] IN
       IF Len(it.key) < e.shared THEN CorruptionError(b, it)
       ELSE [it EXCEPT !.cur = it.next, !.next = it.next + 1,
                       !.key = SubSeq(@, 1, e.shared) \o e.delta,
                       !.ri = AdvanceRestart(b, @, it.next)]

\* The loops around ParseNextKey: until the end, or Stop holds.
ParseUntil(b, it, Stop(_)) ==
  LET run[i \in 0..(EndOf(b) + 1)] == IF i = 0 THEN it ELSE ParseNextKey(b, run[i - 1])
      stops == {i \in 1..(EndOf(b) + 1) : ~IterValid(b, run[i]) \/ Stop(run[i])}
  IN run[CHOOSE i \in stops : \A j \in stops : i <= j]

\* Seek to the last restart point with a key before the target.
BinarySearch(b, it, target) ==
  LET n == Len(b.restarts)
      search[left \in 0..(n - 1), right \in 0..(n - 1)] ==
        IF left >= right THEN SeekToRestartPoint(b, it, left)
        ELSE LET mid == (left + right + 1) \div 2
                 e == b.entries[GetRestartPoint(b, mid) + 1]
             IN IF e.shared # 0 THEN CorruptionError(b, it)
                ELSE IF InternalLess(e.delta, target) THEN search[mid, right]
                ELSE search[left, mid - 1]
  IN search[0, n - 1]

ScanFrom(b, it, target) ==
  IF it.ri = Len(b.restarts) THEN it
  ELSE ParseUntil(b, it, LAMBDA n : ~InternalLess(n.key, target))
BlockSeek(b, it, target) == ScanFrom(b, BinarySearch(b, it, target), target)

BlockFirst(b, it) == ParseNextKey(b, SeekToRestartPoint(b, it, 0))
BlockLast(b, it) ==
  ParseUntil(b, SeekToRestartPoint(b, it, Len(b.restarts) - 1), LAMBDA n : n.next >= EndOf(b))
BlockNext(b, it) == ParseNextKey(b, it)

\* The restart points before the current entry, from restart_index_ down.
RestartsBefore(b, it) == {i \in 0..it.ri : GetRestartPoint(b, i) < it.cur}

BlockPrev(b, it) ==
  LET before == RestartsBefore(b, it)
  IN IF before = {} THEN ToEnd(b, it)
     ELSE ParseUntil(b, SeekToRestartPoint(b, it, CHOOSE i \in before : \A j \in before : j <= i),
                     LAMBDA n : n.next >= it.cur)

-----------------------------------------------------------------------------
(* Table *)
Finished == builder.closed /\ Ok(builder) /\ builder.file # <<>>
FooterPlace == Len(builder.file)
Footer == builder.file[FooterPlace].contents

Error == [status |-> "error"]

\* The entry in the middle of a block gets a shared length that is too large
\* ("structure"), or a wrong byte in its key or in its value; in the index the
\* value is a handle, here of the next block. A filter loses its bits, or the
\* offset of its array is too large; the metaindex loses the filter's name.
FlipEntry(e, kind, handles) ==
  CASE kind = "structure" -> [e EXCEPT !.shared = 9]
    [] kind = "key" -> [e EXCEPT !.delta[1] = (@ + 1) % (MaxByte + 1)]
    [] OTHER -> [e EXCEPT !.value = IF handles = 0 THEN <<MaxByte>> ELSE (@ % handles) + 1]
SpoilEntries(b, kind, handles) ==
  IF b.entries = <<>> THEN b
  ELSE [b EXCEPT !.entries[(Len(b.entries) + 1) \div 2] = FlipEntry(@, kind, handles)]
Spoil(blk, kind) ==
  CASE blk.kind = "data" -> SpoilEntries(blk.contents, kind, 0)
    [] blk.kind = "index" -> SpoilEntries(blk.contents, kind, Len(blk.contents.entries))
    [] blk.kind = "filter" /\ kind = "structure" -> <<>>
    [] blk.kind = "filter" -> [i \in DOMAIN blk.contents |-> [blk.contents[i] EXCEPT !.set = {}]]
    [] OTHER -> 0

\* ReadBlock: a wrong checksum, a wrong type (or a short read). What is not
\* verified is used as it is.
ReadBlock(handle, verify) ==
  LET hit == damage.block = handle
  IN IF hit /\ (damage.kind = "type" \/ verify) THEN Error
     ELSE [status |-> "ok",
           contents |-> IF hit /\ damage.kind # "crc" THEN Spoil(builder.file[handle], damage.kind)
                        ELSE builder.file[handle].contents]

\* Table::Open: the footer and the index block must be readable.
Open ==
  IF damage.block = FooterPlace THEN Error ELSE ReadBlock(Footer.index, damage.paranoid)

\* ReadMeta and ReadFilter: errors leave the table without a filter.
ReadFilter ==
  LET meta == ReadBlock(Footer.metaindex, damage.paranoid)
      f == IF meta.status = "ok" /\ meta.contents # 0 THEN ReadBlock(meta.contents, damage.paranoid)
           ELSE Error
  IN IF f.status = "ok" THEN f.contents ELSE <<>>

\* FilterBlockReader::KeyMayMatch: what it does not know may match.
KeyMayMatch(filters, offset, ikey) ==
  LET index == offset \div FilterBase
  IN index < Len(filters) => FilterMayMatch(ikey, filters[index + 1])

Nothing == <<>>

\* InternalGet: the status, and the key and value given to the saver, from the
\* index block, the position in it, the data block and the position in that.
Answer(ii, status, k) ==
  [status |-> IF status = "ok" /\ ii.status = "ok" THEN "ok" ELSE "error", saw |-> k]
InBlock(ii, b, bi) ==
  Answer(ii, bi.status, IF IterValid(b, bi) THEN <<bi.key, b.entries[bi.cur + 1].value>> ELSE Nothing)
ReadAndSeek(ii, blk, ikey) ==
  IF blk = Error THEN Answer(ii, "error", Nothing)
  ELSE InBlock(ii, blk.contents, BlockSeek(blk.contents, NewIter(blk.contents), ikey))
AtHandle(ii, handle, ikey) ==
  IF ~KeyMayMatch(ReadFilter, builder.file[handle].offset, ikey) THEN Answer(ii, "ok", Nothing)
  ELSE ReadAndSeek(ii, ReadBlock(handle, damage.verify), ikey)
InIndex(index, ii, ikey) ==
  IF ~IterValid(index, ii) THEN Answer(ii, "ok", Nothing)
  ELSE AtHandle(ii, index.entries[ii.cur + 1].value, ikey)
WithIndex(open, ikey) ==
  IF open = Error THEN [status |-> "error", saw |-> Nothing]
  ELSE InIndex(open.contents, BlockSeek(open.contents, NewIter(open.contents), ikey), ikey)
InternalGet(ikey) == WithIndex(Open, ikey)

\* The offset for a key past the last one.
MetaindexOffset == builder.file[Footer.metaindex].offset

OffsetAt(index, ii) ==
  IF IterValid(index, ii) THEN builder.file[index.entries[ii.cur + 1].value].offset
  ELSE MetaindexOffset
ApproximateOffsetOf(ikey) ==
  OffsetAt(Open.contents, BlockSeek(Open.contents, NewIter(Open.contents), ikey))

-----------------------------------------------------------------------------
NoDamage == [block |-> 0, kind |-> "none", paranoid |-> FALSE, verify |-> FALSE]
NoCursor == [block |-> 0, it |-> NewIter(NewBlock)]

TableInit ==
  /\ \E bs \in BlockSizes, i \in Intervals, f \in BOOLEAN :
       builder = [NewBuilder([blockSize |-> bs, interval |-> i, filter |-> f])
                    EXCEPT !.filter = StartBlock(@, 0)]
  /\ addedKeys = <<>> /\ damage = NoDamage /\ cursor = NoCursor /\ place = 0

Building == ~builder.closed
IO == {"ok", "append", "flush"}

TableAdd ==
  /\ Building /\ Ok(builder) /\ Len(addedKeys) < MaxEntries
  /\ \E key \in TableKeys, io \in IO :
       /\ IF addedKeys = <<>> THEN TRUE ELSE InternalLess(addedKeys[Len(addedKeys)], key)
       /\ builder' = AddEntry(builder, key, io)
       /\ addedKeys' = Append(addedKeys, key)
  /\ UNCHANGED <<damage, cursor, place>>

TableFlush ==
  /\ Building /\ builder.data.entries # <<>>
  /\ \E io \in IO : builder' = FlushBlock(builder, io)
  /\ UNCHANGED <<addedKeys, damage, cursor, place>>

\* The block size and the restart interval may change while a table is built.
ChangeOptions ==
  /\ Building /\ Ok(builder) /\ builder.changes < MaxChanges
  /\ \E bs \in BlockSizes, i \in Intervals :
       builder' = [builder EXCEPT !.opt.blockSize = bs, !.opt.interval = i, !.changes = @ + 1]
  /\ UNCHANGED <<addedKeys, damage, cursor, place>>

TableFinish ==
  /\ Building
  /\ \E bad \in 0..4, io \in IO : builder' = FinishTable(builder, bad, io)
  /\ UNCHANGED <<addedKeys, damage, cursor, place>>

Abandon ==
  /\ Building
  /\ builder' = [builder EXCEPT !.closed = TRUE, !.status = "abandoned"]
  /\ UNCHANGED <<addedKeys, damage, cursor, place>>

DataBlocks == {i \in DOMAIN builder.file : builder.file[i].kind = "data"}

\* A block of the finished file is damaged before the table is opened. (Of
\* the footer it is the magic number: a wrong handle in it is as a wrong index.
\* The option that decides nothing about the block is left off.)
DamageBlock ==
  /\ Finished /\ damage = NoDamage /\ cursor = NoCursor
  /\ \E i \in 1..FooterPlace, kind \in DamageKinds, paranoid, verify \in BOOLEAN :
       /\ ~(IF i \in DataBlocks THEN paranoid ELSE verify)
       /\ damage' = [block |-> i, kind |-> kind, paranoid |-> paranoid, verify |-> verify]
  /\ UNCHANGED <<builder, addedKeys, cursor, place>>

CursorBlock == ReadBlock(cursor.block, damage.verify).contents

\* (A cursor sees of the damage what changes the keys of its block.)
OpenCursor ==
  /\ Finished /\ cursor.block = 0
  /\ \E i \in DataBlocks :
       /\ damage = NoDamage \/ (damage.block = i /\ damage.kind \in {"structure", "key"})
       /\ ReadBlock(i, damage.verify).status = "ok"
       /\ cursor' = [block |-> i, it |-> NewIter(ReadBlock(i, damage.verify).contents)]
  /\ place' = 0
  /\ UNCHANGED <<builder, addedKeys, damage>>

\* The keys of a data block: it holds a run of what was added.
KeysOf(i) ==
  LET n(j) == Len(builder.file[j].contents.entries)
      before[j \in 0..(i - 1)] == IF j = 0 THEN 0 ELSE before[j - 1] + n(j)
  IN SubSeq(addedKeys, before[i - 1] + 1, before[i - 1] + n(i))

MoveCursor(it, to) ==
  /\ cursor' = [cursor EXCEPT !.it = it]
  /\ place' = to
  /\ UNCHANGED <<builder, addedKeys, damage>>

FirstFrom(keys, target) ==
  LET is == {i \in DOMAIN keys : ~InternalLess(keys[i], target)}
  IN IF is = {} THEN 0 ELSE CHOOSE i \in is : \A j \in is : i <= j

CursorValid == cursor.block # 0 /\ IterValid(CursorBlock, cursor.it)
CursorSeek ==
  /\ cursor.block # 0
  /\ \E k \in TableKeys : MoveCursor(BlockSeek(CursorBlock, cursor.it, k), FirstFrom(KeysOf(cursor.block), k))
CursorFirst == cursor.block # 0 /\ MoveCursor(BlockFirst(CursorBlock, cursor.it), 1)
CursorLast ==
  cursor.block # 0 /\ MoveCursor(BlockLast(CursorBlock, cursor.it), Len(KeysOf(cursor.block)))
CursorNext ==
  /\ CursorValid
  /\ MoveCursor(BlockNext(CursorBlock, cursor.it), (place + 1) % (Len(KeysOf(cursor.block)) + 1))
CursorPrev == CursorValid /\ MoveCursor(BlockPrev(CursorBlock, cursor.it), place - 1)

TableNext ==
  \/ TableAdd \/ TableFlush \/ ChangeOptions \/ TableFinish \/ Abandon
  \/ DamageBlock \/ OpenCursor
  \/ CursorSeek \/ CursorFirst \/ CursorLast \/ CursorNext \/ CursorPrev

TableSpec == TableInit /\ [][TableNext]_tableVars

-----------------------------------------------------------------------------
(* Properties. *)

\* The right answer to a lookup of k: the newest entry of its user key not
\* after it, with its value, or no entry of its user key.
HasEntry(k) ==
  LET i == FirstFrom(addedKeys, k)
  IN i # 0 /\ ExtractUserKey(addedKeys[i]) = ExtractUserKey(k)
EntryFor(k) == addedKeys[FirstFrom(addedKeys, k)]
IsRight(r, k) ==
  IF HasEntry(k) THEN r.saw = <<EntryFor(k), EntryFor(k)>>
  ELSE r.saw = Nothing \/ ExtractUserKey(r.saw[1]) # ExtractUserKey(k)

\* A table whose Finish said ok holds every entry: a lookup with any key is
\* right, through the index's shortened keys, the filter and the restart
\* points.
GetFindsWhatWasAdded ==
  Finished /\ damage = NoDamage /\ cursor = NoCursor => \A k \in TableKeys :
    LET r == InternalGet(k) IN r.status = "ok" /\ IsRight(r, k)

\* Reads of the damaged block are verified: by paranoid_checks or by the
\* caller's verify_checksums, as the block is one of the table's or of its data.
DamageIsVerified == IF damage.block \in DataBlocks THEN damage.verify ELSE damage.paranoid

\* What a lookup in a damaged file may say. With the checksum of the damaged
\* block verified, the right answer or an error, and an error if the entry was
\* in that block. Without, a wrong byte of a key, a value, a handle or a filter
\* is not noticed (format.cc:91); other damage gives the right answer or an
\* error, and a wrong byte in a data block leaves the entries of other blocks
\* right.
DamageIsNotAnAnswer ==
  Finished /\ damage # NoDamage /\ cursor = NoCursor => \A k \in TableKeys :
    LET r == InternalGet(k)
        inData == damage.block \in DataBlocks
        hit == inData /\ HasEntry(k) /\ EntryFor(k) \in {KeysOf(damage.block)[j] : j \in DOMAIN KeysOf(damage.block)}
    IN r.status = "ok" =>
         /\ DamageIsVerified \/ damage.kind \in {"structure", "type", "crc"} => IsRight(r, k)
         /\ DamageIsVerified => ~hit
         /\ inData /\ HasEntry(k) /\ ~hit => IsRight(r, k)

\* Every sequence of moves of a block's iterator leaves it where it should be,
\* or at an error it keeps, unless a key is wrong and not verified.
BlockIteratorAgrees ==
  cursor.block # 0 =>
    \/ damage.kind = "key"
    \/ cursor.it.status = "Corruption" /\ damage.block = cursor.block
    \/ IF place = 0 THEN ~CursorValid
       ELSE CursorValid /\ cursor.it.key = KeysOf(cursor.block)[place]

\* The index key of a block is at or after its keys and before those of the
\* next, also while the table is built, and only whole blocks await one.
IndexSeparates ==
  /\ builder.pending => builder.data.entries = <<>>
  /\ LET index == builder.index
         Key(i) == index.entries[i].delta
         KeySet(i) == LET ks == KeysOf(index.entries[i].value) IN {ks[j] : j \in DOMAIN ks}
     IN \A i, j \in DOMAIN index.entries : \A k \in KeySet(i) :
          IF i <= j THEN ~InternalLess(Key(j), k) ELSE InternalLess(Key(j), k)

\* Approximate offsets grow with the keys and stay in the file.
OffsetsAreMonotone ==
  Finished /\ damage = NoDamage /\ cursor = NoCursor => \A k, l \in TableKeys :
    InternalLess(k, l) =>
      ApproximateOffsetOf(k) <= ApproximateOffsetOf(l) /\ ApproximateOffsetOf(l) < builder.offset

\* A table gives back the entries it was built from, or an error.
TableIsRight ==
  /\ IndexSeparates
  /\ DamageIsNotAnAnswer
  /\ GetFindsWhatWasAdded
  /\ BlockIteratorAgrees
  /\ OffsetsAreMonotone
=============================================================================
