--------------------------- MODULE DBSerial_proofs ---------------------------
(***************************************************************************)
(* Proofs about DBImpl: concurrent writers are put in one order, a reader  *)
(* sees exactly its snapshot, and the database implements AtomicStore.     *)
(*                                                                         *)
(* All writes that are anywhere, in the directory, in a memtable or in the *)
(* group at hand, are numbered in the order of arrival. Those that are not *)
(* of the group have a number up to last_sequence, and those of the group  *)
(* one above it: so what a reader sees, which has a number up to           *)
(* last_sequence, is what was promised, until the group is answered.       *)
(***************************************************************************)
EXTENDS DBDurable_proofs

-----------------------------------------------------------------------------
(* The inductive invariant. *)

\* A write is in one of the tables T; in memtable n; in these tables and two
\* memtables; anywhere.
InTables(f, T, k) == \E n \in T \cap DOMAIN f.tables : k \in f.tables[n]
InMem(m, n, k) == n \in DOMAIN m /\ k \in m[n]
Has(f, m, mem, imm, T, k) == InMem(m, mem, k) \/ InMem(m, imm, k) \/ InTables(f, T, k)
InLogs(f, k) == \E n \in DOMAIN f.logs : \E i \in 1..Len(f.logs[n].recs) : k \in f.logs[n].recs[i]
Holds(f, m, k) ==
  (\E n \in DOMAIN m : k \in m[n]) \/ InTables(f, DOMAIN f.tables, k) \/ InLogs(f, k)

Running == leader.pc \in {"append", "insert", "finish"}

\* The queue is in the order of arrival, and holds the calls that wait.
QueueOrder ==
  /\ \A i, j \in 1..Len(writers) : i < j => writers[i] < writers[j]
  /\ \A i \in 1..Len(writers) : calls[writers[i]].status = "waiting"
  /\ \A k \in DOMAIN calls : calls[k].status = "waiting" => \E i \in 1..Len(writers) : writers[i] = k
  /\ \A k \in DOMAIN calls : calls[k].status \in {"ok", "error"} =>
       \A i \in 1..Len(writers) : k < writers[i]

\* The group is of the writers up to leader.last; all of them, if all is well.
GroupOK ==
  /\ ~Running => leader.group = {}
  /\ \A k \in leader.group :
       /\ ~calls[k].null /\ k <= leader.last
       /\ \E i \in 1..Len(writers) : writers[i] = k
  /\ Running /\ leader.status = "ok" =>
       \A i \in 1..Len(writers) :
         ~calls[writers[i]].null /\ writers[i] <= leader.last => writers[i] \in leader.group
  /\ leader.pc \in {"append", "insert"} => leader.status = "ok"
  /\ leader.pc = "finish" /\ leader.status # "ok" => leader.left = leader.group

\* The group is nowhere but in the memtable, and there as far as inserted.
GroupPlaced ==
  /\ Running => \A k \in leader.left : ~InMem(mems, db.mem, k)
  /\ \A k \in leader.group :
       /\ ~InTables(files, DOMAIN files.tables, k)
       /\ \A n \in DOMAIN mems : n # db.mem => k \notin mems[n]

\* Sequence numbers are numbers, and finitely many.
NumberedOK ==
  /\ db.last_sequence \in Nat
  /\ \A k \in DOMAIN calls : calls[k].seq \in Nat
  /\ \E B \in Nat : \A k \in DOMAIN calls : calls[k].seq <= B

\* They are in the order of arrival, wherever the writes are.
Live(k) == Holds(files, mems, k) \/ k \in leader.group
Monotone == \A j, k \in DOMAIN calls : Live(j) /\ Live(k) /\ j < k => calls[j].seq < calls[k].seq

\* Those of the group are the next ones; what is not of the group came before.
Counted ==
  Open => \A k \in DOMAIN calls :
    /\ Holds(files, mems, k) /\ k \notin leader.group =>
         calls[k].seq <= db.last_sequence /\ \A i \in 1..Len(writers) : k < writers[i]
    /\ k \in leader.group =>
         /\ db.last_sequence < calls[k].seq
         /\ calls[k].seq <= db.last_sequence + Cardinality(leader.group)

\* No write in the tables T has a number above n.
Bounded(f, c, T, n) ==
  n \in Nat /\ \A t \in T \cap DOMAIN f.tables : \A k \in f.tables[t] : c[k].seq <= n

\* A restart finds a last_sequence that no write it finds in a table exceeds.
RecordsSeq ==
  /\ files.current # 0 =>
       \A i \in Latest(Current) :
         Bounded(files, calls, Tables(Current.recs[i]), Current.recs[i].last_sequence)
  /\ bg.pc = "logging" => Bounded(files, calls, Tables(bg.edit), bg.edit.last_sequence)
  /\ opening.pc = "logs" =>
       /\ Bounded(files, calls, Tables(db), db.last_sequence)
       /\ Bounded(files, calls, opening.l0, opening.max_sequence)
  /\ opening.pc = "install" =>
       /\ Bounded(files, calls, Tables(db) \cup opening.l0, db.last_sequence)
       /\ files.manifests[db.manifest].recs[1].last_sequence = db.last_sequence

\* Open starts afresh: what it does not take over is deleted.
OpenOK ==
  /\ opening.pc # "none" => db.pending_outputs = {} /\ db.bg_error = FALSE
  /\ opening.pc = "install" => db.next = opening.log + 1 /\ files.logs[opening.log].recs = <<>>

\* What is about to be installed holds nothing new.
JobContents ==
  LET flush == bg.job \in {"mem", "both"} IN
  /\ bg.pc = "idle" => bg.in0 = {} /\ bg.in1 = {}
  /\ bg.pc # "logging" \/ flush => bg.in0 \cup bg.in1 \subseteq Tables(db)
  /\ bg.pc = "logging" =>
       /\ \A k : InTables(files, Tables(bg.edit), k) =>
            InTables(files, Tables(db), k) \/ (flush /\ k \in mems[db.imm])
       /\ flush => Tables(db) \subseteq Tables(bg.edit)

\* What is promised is what is there, but for the group.
ContentsOK ==
  Open => \A k : k \in must <=>
            Has(files, mems, db.mem, db.imm, Tables(db), k) /\ k \notin leader.group

\* What a reader refers to is there and stays as it is.
PinnedOK ==
  /\ Open => \A n \in DOMAIN mems : n \in Nat /\ n < db.next
  /\ iter.on =>
       /\ iter.mem \in DOMAIN mems /\ (iter.imm # 0 => iter.imm \in DOMAIN mems)
       /\ iter.snapshot \in Nat /\ iter.snapshot <= db.last_sequence
       /\ \A n \in iter.tables : /\ n \in Nat /\ n < db.next
                                 /\ bg.pc = "building" => n # bg.table
                                 /\ bg.out # 0 => n # bg.out

\* A reader sees what was promised when it started.
SnapshotOK ==
  iter.on => \A k : k \in iter.expected <=>
               /\ Has(files, mems, iter.mem, iter.imm, iter.tables, k)
               /\ calls[k].seq <= iter.snapshot

SerialInv ==
  /\ QueueOrder /\ GroupOK /\ GroupPlaced /\ NumberedOK /\ Monotone /\ Counted
  /\ RecordsSeq /\ OpenOK /\ JobContents /\ ContentsOK /\ PinnedOK /\ SnapshotOK

-----------------------------------------------------------------------------
(* Steps that write nothing new. *)

\* Calls are unchanged but for what is not said here.
SameQueue == UNCHANGED <<calls, writers, leader>>

\* Tables, memtables and logs hold what they held, or what was in the
\* immutable memtable.
NothingNew ==
  /\ \A n \in DOMAIN files'.tables : \A k \in files'.tables[n] :
       InTables(files, DOMAIN files.tables, k) \/ (db.imm # 0 /\ k \in mems[db.imm])
  /\ \A n \in DOMAIN mems' : n \in DOMAIN mems /\ mems'[n] = mems[n]
  /\ \A n \in DOMAIN files'.logs : n \in DOMAIN files.logs /\ files'.logs[n] = files.logs[n]

\* What is anywhere was somewhere before.
LEMMA HoldsBefore ==
  ASSUME AckInv, Open, NothingNew, NEW k, Holds(files', mems', k)
  PROVE  Holds(files, mems, k)
<1>1. CASE \E n \in DOMAIN mems' : k \in mems'[n]
  BY <1>1 DEF NothingNew, Holds
<1>2. CASE InTables(files', DOMAIN files'.tables, k)
  <2>1. InTables(files, DOMAIN files.tables, k) \/ (db.imm # 0 /\ k \in mems[db.imm])
    BY <1>2 DEF NothingNew, InTables
  <2>2. db.imm # 0 => db.imm \in DOMAIN mems
    BY DEF AckInv, OrderOK
  <2> QED
    BY <2>1, <2>2 DEF Holds
<1>3. CASE InLogs(files', k)
  BY <1>3 DEF NothingNew, InLogs, Holds
<1> QED
  BY <1>1, <1>2, <1>3 DEF Holds

\* A step of a thread that does not write keeps the order of the writes.
LEMMA NothingNewOrder ==
  ASSUME Inv, AckInv, SerialInv, Open, Open', SameQueue, NothingNew,
         db'.last_sequence = db.last_sequence, db'.mem = db.mem
  PROVE  QueueOrder' /\ GroupOK' /\ GroupPlaced' /\ NumberedOK' /\ Monotone' /\ Counted'
<1>1. calls' = calls /\ writers' = writers /\ leader' = leader
  BY DEF SameQueue
<1>2. QueueOrder'
  BY <1>1 DEF SerialInv, QueueOrder
<1>3. GroupOK'
  BY <1>1 DEF SerialInv, GroupOK, Running
<1>4. NumberedOK'
  BY <1>1 DEF SerialInv, NumberedOK
<1>5. GroupPlaced'
  <2>1. db.imm # 0 => db.imm # db.mem /\ db.imm \in DOMAIN mems
    BY DEF AckInv, OrderOK
  <2>2. ASSUME NEW k \in leader.group PROVE ~InTables(files', DOMAIN files'.tables, k)
    BY <2>1, <2>2 DEF SerialInv, GroupPlaced, NothingNew, InTables
  <2>3. ASSUME NEW k \in leader.group, NEW n \in DOMAIN mems', n # db.mem PROVE k \notin mems'[n]
    BY <2>3 DEF SerialInv, GroupPlaced, NothingNew
  <2>4. ASSUME NEW k, ~InMem(mems, db.mem, k) PROVE ~InMem(mems', db.mem, k)
    BY <2>4 DEF NothingNew, InMem
  <2> QED
    BY <1>1, <2>2, <2>3, <2>4 DEF SerialInv, GroupPlaced, Running, InMem, InTables
<1>6. ASSUME NEW k, Holds(files', mems', k) PROVE Holds(files, mems, k)
  BY <1>6, HoldsBefore
<1>7. Monotone'
  BY <1>1, <1>6 DEF SerialInv, Monotone, Live, Holds, InTables, InLogs
<1>8. Counted'
  BY <1>1, <1>6 DEF SerialInv, Counted, Holds, InTables, InLogs
<1> QED
  BY <1>2, <1>3, <1>4, <1>5, <1>7, <1>8

\* Memtable n is as it was.
MemKept(n) == n \in DOMAIN mems => n \in DOMAIN mems' /\ mems'[n] = mems[n]

\* What was in memtables and tables that are kept is there, and nothing else.
LEMMA HasKept ==
  ASSUME NothingNew, NEW mem, NEW imm, NEW T, MemKept(mem), MemKept(imm),
         TablesKept(T), T \subseteq DOMAIN files.tables, NEW k
  PROVE  Has(files', mems', mem, imm, T, k) <=> Has(files, mems, mem, imm, T, k)
<1>1. InMem(mems', mem, k) <=> InMem(mems, mem, k)
  BY DEF NothingNew, InMem, MemKept
<1>2. InMem(mems', imm, k) <=> InMem(mems, imm, k)
  BY DEF NothingNew, InMem, MemKept
<1>3. InTables(files', T, k) <=> InTables(files, T, k)
  BY DEF TablesKept, InTables
<1> QED
  BY <1>1, <1>2, <1>3 DEF Has

\* The version and the memtables are the same.
LEMMA ContentsKept ==
  ASSUME Inv, AckInv, SerialInv, Open, NothingNew, Same(db, db'), must' = must, leader' = leader,
         MemKept(db.mem), MemKept(db.imm), TablesKept(Tables(db))
  PROVE  ContentsOK'
<1>1. Tables(db') = Tables(db) /\ db'.mem = db.mem /\ db'.imm = db.imm
  BY DEF Same, Tables
<1>2. Tables(db) \subseteq DOMAIN files.tables
  BY DEF Inv, TablesOK, Tables, Open
<1> DEFINE T == Tables(db)
           mem == db.mem
           imm == db.imm
<1> HIDE DEF T, mem, imm
<1>3. ASSUME NEW k
      PROVE  Has(files', mems', mem, imm, T, k) <=> Has(files, mems, mem, imm, T, k)
  BY <1>2, HasKept DEF T, mem, imm
<1>4. \A k : k \in must <=> Has(files, mems, mem, imm, T, k) /\ k \notin leader.group
  BY DEF SerialInv, ContentsOK, T, mem, imm
<1>5. Tables(db)' = T /\ db'.mem = mem /\ db'.imm = imm
  BY <1>1 DEF Tables, T, mem, imm
<1>6. \A k : k \in must' <=> Has(files', mems', mem, imm, T, k) /\ k \notin leader'.group
  BY <1>3, <1>4
<1> QED
  BY <1>5, <1>6 DEF ContentsOK, Has, InMem, InTables

\* The files the background thread writes are new.
JobNumbers ==
  /\ bg'.pc = "building" => bg'.table = db.next \/ (bg.pc = "building" /\ bg'.table = bg.table)
  /\ bg'.out # 0 => bg'.out = db.next \/ bg'.out = bg.out

\* A reader is not disturbed.
LEMMA ReaderKept ==
  ASSUME Inv, Inv', AckInv, SerialInv, NothingNew, SameQueue, iter' = iter,
         db'.state = db.state, db.next <= db'.next, db'.last_sequence = db.last_sequence, JobNumbers,
         iter.on => MemKept(iter.mem) /\ MemKept(iter.imm) /\ TablesKept(iter.tables)
  PROVE  PinnedOK' /\ SnapshotOK'
<1>1. db.next \in Nat /\ db'.next \in Nat
  BY DEF Inv, NumbersOK
<1>2. ASSUME Open', NEW n \in DOMAIN mems' PROVE n \in Nat /\ n < db'.next
  <2>1. n \in Nat /\ n < db.next
    BY <1>2 DEF SerialInv, PinnedOK, NothingNew, Open
  <2> QED
    BY <1>1, <2>1
<1>3. CASE ~iter.on
  BY <1>2, <1>3 DEF PinnedOK, SnapshotOK
<1>4. CASE iter.on
  <2>1. /\ iter.mem \in DOMAIN mems /\ (iter.imm # 0 => iter.imm \in DOMAIN mems)
        /\ iter.snapshot \in Nat /\ iter.snapshot <= db.last_sequence
        /\ \A n \in iter.tables : /\ n \in Nat /\ n < db.next
                                  /\ bg.pc = "building" => n # bg.table
                                  /\ bg.out # 0 => n # bg.out
    BY <1>4 DEF SerialInv, PinnedOK
  <2>2. ASSUME NEW n \in iter.tables
        PROVE  /\ n \in Nat /\ n < db'.next
               /\ bg'.pc = "building" => n # bg'.table
               /\ bg'.out # 0 => n # bg'.out
    <3>1. n \in Nat /\ n < db.next
      BY <2>1
    <3>2. n < db'.next /\ n # db.next
      BY <1>1, <3>1
    <3> QED
      BY <2>1, <3>1, <3>2 DEF JobNumbers
  <2>3. PinnedOK'
    BY <1>2, <1>4, <2>1, <2>2 DEF PinnedOK, MemKept
  <2>4. iter.tables \subseteq DOMAIN files.tables
    BY DEF Inv, TablesOK
  <2> DEFINE T == iter.tables
             mem == iter.mem
             imm == iter.imm
  <2> HIDE DEF T, mem, imm
  <2>5. ASSUME NEW k
        PROVE  Has(files', mems', mem, imm, T, k) <=> Has(files, mems, mem, imm, T, k)
    BY <1>4, <2>4, HasKept DEF T, mem, imm
  <2>6. \A k : k \in iter.expected <=> Has(files, mems, mem, imm, T, k) /\ calls[k].seq <= iter.snapshot
    BY <1>4 DEF SerialInv, SnapshotOK, T, mem, imm
  <2>7. \A k : k \in iter.expected <=> Has(files', mems', mem, imm, T, k) /\ calls'[k].seq <= iter.snapshot
    BY <2>5, <2>6 DEF SameQueue
  <2>8. SnapshotOK'
    BY <2>7 DEF SnapshotOK, Has, InMem, InTables, T, mem, imm
  <2> QED
    BY <2>3, <2>8
<1> QED
  BY <1>3, <1>4

\* Bounds stay while tables and calls do.
LEMMA BoundedKept ==
  ASSUME NEW T, NEW n, TablesKept(T), T \subseteq DOMAIN files.tables, calls' = calls,
         Bounded(files, calls, T, n)
  PROVE  Bounded(files', calls', T, n)
BY DEF Bounded, TablesKept

\* The records stay fit for a restart.
LEMMA RecordsKept ==
  ASSUME Inv, Inv', SerialInv, calls' = calls, Open, Open', TablesKept(InUse),
         files'.current = files.current,
         files'.manifests[files.current] = files.manifests[files.current],
         bg'.pc = "logging" => Bounded(files', calls', Tables(bg'.edit), bg'.edit.last_sequence)
  PROVE  RecordsSeq'
<1>1. opening'.pc = "none"
  BY DEF Inv, ControlOK, Open
<1>2. Current' = Current /\ files.current # 0
  BY OpenFacts DEF Current
<1> DEFINE m == Current
<1>3. ASSUME NEW i \in Latest(m)
      PROVE  Bounded(files', calls', Tables(m.recs[i]), m.recs[i].last_sequence)
  <2>1. Bounded(files, calls, Tables(m.recs[i]), m.recs[i].last_sequence)
    BY <1>2 DEF SerialInv, RecordsSeq
  <2>2. TablesKept(Tables(m.recs[i]))
    BY DEF TablesKept, InUse
  <2>3. Tables(m.recs[i]) \subseteq DOMAIN files.tables
    BY <1>2 DEF Inv, CurrentOK, ManifestOK, Latest, Tables, Current
  <2> QED
    BY <2>1, <2>2, <2>3, BoundedKept
<1> HIDE DEF m
<1>4. Current' = m
  BY <1>2 DEF m
<1> QED
  BY <1>1, <1>3, <1>4 DEF RecordsSeq, Latest, Tables, Bounded

\* db keeps its numbers too.
SameNumbered(d, e) == Same(d, e) /\ e.last_sequence = d.last_sequence

\* A step of a thread that writes nothing: readers, CompactRange, rounds that
\* start or end.
LEMMA QuietSerial ==
  ASSUME Inv, Inv', AckInv, SerialInv, Quiet, SameQueue, SameNumbered(db, db'), JobNumbers,
         UNCHANGED bg \/ (/\ bg'.pc = "logging" => Bounded(files, calls, Tables(bg'.edit), bg'.edit.last_sequence)
                          /\ JobContents'),
         iter' = iter => (iter.on => MemKept(iter.mem) /\ MemKept(iter.imm)),
         iter' = iter \/ (PinnedOK' /\ SnapshotOK')
  PROVE  SerialInv'
<1>1. /\ files' = files /\ must' = must /\ Open /\ Open' /\ NothingNew
      /\ calls' = calls /\ leader' = leader /\ db'.mem = db.mem /\ db'.imm = db.imm
      /\ db'.last_sequence = db.last_sequence /\ db'.state = db.state /\ db.next <= db'.next
  BY DEF Quiet, NothingNew, SameQueue, SameNumbered, Same, InTables, Open
<1>2. QueueOrder' /\ GroupOK' /\ GroupPlaced' /\ NumberedOK' /\ Monotone' /\ Counted'
  BY <1>1, NothingNewOrder
<1>3. \A S : TablesKept(S)
  BY <1>1 DEF TablesKept
<1>4. ContentsOK'
  <2>1. MemKept(db.mem) /\ MemKept(db.imm)
    BY DEF Quiet, MemKept
  <2> QED
    BY <1>1, <1>3, <2>1, ContentsKept DEF SameNumbered
<1>5. PinnedOK' /\ SnapshotOK'
  BY <1>1, <1>3, ReaderKept
<1>6. RecordsSeq'
  <2>1. bg'.pc = "logging" => Bounded(files', calls', Tables(bg'.edit), bg'.edit.last_sequence)
    BY <1>1 DEF SerialInv, RecordsSeq
  <2> QED
    BY <1>1, <1>3, <2>1, RecordsKept
<1>7. OpenOK'
  <2>1. opening'.pc = "none"
    BY <1>1 DEF Inv, ControlOK, Open
  <2> QED
    BY <2>1 DEF OpenOK
<1>8. JobContents'
  <2>1. CASE UNCHANGED bg
    <3>1. Tables(db') = Tables(db)
      BY DEF SameNumbered, Same, Tables
    <3>2. bg.pc = "logging" /\ bg.job \in {"mem", "both"} => mems'[db.imm] = mems[db.imm]
      <4>1. bg.pc = "logging" /\ bg.job \in {"mem", "both"} => db.imm # 0 /\ db.imm \in DOMAIN mems
        BY <1>1 DEF AckInv, JobOK, OrderOK
      <4> QED
        BY <4>1 DEF Quiet
    <3> QED
      BY <1>1, <2>1, <3>1, <3>2 DEF SerialInv, JobContents, InTables, Tables
  <2> QED
    BY <2>1
<1> QED
  BY <1>2, <1>4, <1>5, <1>6, <1>7, <1>8 DEF SerialInv

-----------------------------------------------------------------------------
(* Quiet steps. *)

\* MaybeScheduleCompaction keeps the numbers.
LEMMA ScheduleNumbered ==
  ASSUME NEW d, DOMAIN d = DBFields
  PROVE  LET e == MaybeScheduleCompaction(d)
         IN SameNumbered(d, e) /\ e.next = d.next
BY ScheduleSame DEF SameNumbered

\* Readers.
LEMMA ReaderSerial ==
  ASSUME Inv, Inv', AckInv, SerialInv, NewIterator \/ ReleaseIterator
  PROVE  SerialInv'
<1>1. UNCHANGED <<files, must, unsure, writers, leader, bg, calls>> /\ Open /\ SameQueue
  BY DEF NewIterator, ReleaseIterator, Inv, ControlOK, SameQueue
<1>2. db.next \in Nat /\ DOMAIN db = DBFields /\ JobNumbers
  BY <1>1 DEF Inv, NumbersOK, RecordsOK, JobNumbers
<1>3. CASE NewIterator
  <2>1. /\ db' = db /\ mems' = mems
        /\ iter' = [on |-> TRUE, mem |-> db.mem, imm |-> db.imm, tables |-> db.l0 \cup db.deep,
                    snapshot |-> db.last_sequence, expected |-> must]
    BY <1>3 DEF NewIterator, PinnedImm
  <2>2. Quiet /\ SameNumbered(db, db')
    BY <1>1, <2>1, UnchangedQuiet DEF SameNumbered, Same
  <2>3. /\ iter'.on /\ iter'.mem = db.mem /\ iter'.imm = db.imm /\ iter'.tables = Tables(db)
        /\ iter'.snapshot = db.last_sequence /\ iter'.expected = must
    BY <2>1 DEF Tables
  <2>4. PinnedOK'
    <3>1. /\ db.mem \in DOMAIN mems /\ (db.imm # 0 => db.imm \in DOMAIN mems)
          /\ \A n \in Tables(db) : n \in Nat /\ n < db.next
      BY <1>1 DEF AckInv, OrderOK, Tables, Open
    <3>2. \A n \in Tables(db) : (bg.pc = "building" => n # bg.table) /\ (bg.out # 0 => n # bg.out)
      BY <1>1 DEF AckInv, JobOK, InUse, Tables
    <3>3. db.last_sequence \in Nat /\ db.last_sequence <= db.last_sequence
      BY DEF SerialInv, NumberedOK
    <3>4. \A n \in DOMAIN mems : n \in Nat /\ n < db.next
      BY <1>1 DEF SerialInv, PinnedOK
    <3> QED
      BY <1>1, <2>1, <2>3, <3>1, <3>2, <3>3, <3>4 DEF PinnedOK
  <2>5. SnapshotOK'
    <3>1. \A k : k \in must <=> Has(files, mems, db.mem, db.imm, Tables(db), k) /\ k \notin leader.group
      BY <1>1 DEF SerialInv, ContentsOK
    <3>2. ASSUME NEW k, Has(files, mems, db.mem, db.imm, Tables(db), k)
          PROVE  k \notin leader.group <=> calls[k].seq <= db.last_sequence
      <4>1. Holds(files, mems, k) /\ k \in DOMAIN calls
        BY <3>2 DEF Has, Holds, InMem, InTables, AckInv, EntriesOK
      <4>2. calls[k].seq \in Nat /\ db.last_sequence \in Nat
        BY <4>1 DEF SerialInv, NumberedOK
      <4>3. k \in leader.group => db.last_sequence < calls[k].seq
        BY <1>1, <4>1 DEF SerialInv, Counted
      <4>4. k \notin leader.group => calls[k].seq <= db.last_sequence
        BY <1>1, <4>1 DEF SerialInv, Counted
      <4> QED
        BY <4>2, <4>3, <4>4
    <3>3. \A k : k \in must <=> Has(files, mems, db.mem, db.imm, Tables(db), k) /\ calls[k].seq <= db.last_sequence
      BY <3>1, <3>2
    <3> QED
      BY <1>1, <2>1, <2>3, <3>3 DEF SnapshotOK, Has, InMem, InTables
  <2>6. iter' # iter
    BY <1>3, <2>3 DEF NewIterator
  <2> QED
    BY <1>1, <1>2, <2>2, <2>4, <2>5, <2>6, QuietSerial
<1>4. CASE ReleaseIterator
  <2>1. PICK seek : db' = MaybeScheduleCompaction([db EXCEPT !.seek = seek])
    BY <1>4 DEF ReleaseIterator
  <2> DEFINE d == [db EXCEPT !.seek = seek]
  <2>2. DOMAIN d = DBFields /\ SameNumbered(db, d) /\ d.next = db.next
    BY <1>2 DEF DBFields, SameNumbered, Same
  <2> HIDE DEF d
  <2>3. SameNumbered(d, db') /\ db'.next = d.next
    BY <2>1, <2>2, ScheduleNumbered DEF d
  <2>4. SameNumbered(db, db') /\ db.next <= db'.next
    BY <1>2, <2>2, <2>3 DEF SameNumbered, Same
  <2>5. mems' = Only(mems, Referenced(db, NoIter)) /\ iter.on /\ iter' = NoIter
    BY <1>4 DEF ReleaseIterator
  <2>6. /\ DOMAIN mems \cap {db.mem, db.imm} \subseteq DOMAIN mems'
        /\ \A n \in DOMAIN mems' : n \in DOMAIN mems /\ mems'[n] = mems[n]
    BY <2>5 DEF Only, Referenced
  <2>7. Quiet
    BY <1>1, <2>4, <2>6 DEF Quiet, SameNumbered
  <2>8. iter'.on = FALSE /\ iter' # iter
    BY <2>5 DEF NoIter
  <2>9. PinnedOK'
    <3>1. db'.next = db.next
      BY <2>2, <2>3
    <3>2. \A n \in DOMAIN mems' : n \in Nat /\ n < db'.next
      BY <1>1, <2>6, <3>1 DEF SerialInv, PinnedOK
    <3> QED
      BY <2>8, <3>2 DEF PinnedOK
  <2>10. SnapshotOK'
    BY <2>8 DEF SnapshotOK
  <2> QED
    BY <1>1, <1>2, <2>4, <2>7, <2>8, <2>9, <2>10, QuietSerial
<1> QED
  BY <1>3, <1>4

\* CompactRange's thread, and the start of a shutdown.
LEMMA ManualSerial ==
  ASSUME Inv, Inv', AckInv, SerialInv, ManualStep \/ Shutdown
  PROVE  SerialInv'
<1>1. /\ UNCHANGED <<files, mems, must, unsure, writers, leader, bg, calls, iter>> /\ Open
  <2>1. CASE ManualStep
    BY <2>1 DEF ManualStep, CompactRangeWaits, CompactRangeStarts, TEST_CompactRange, ManualUnchanged,
                ManualRuns, Inv, ControlOK
  <2>2. CASE Shutdown
    BY <2>2 DEF Shutdown, OpenUnchanged
  <2> QED
    BY <2>1, <2>2
<1>2. DOMAIN db = DBFields /\ db.next \in Nat
  BY DEF Inv, RecordsOK, NumbersOK
<1>3. SameNumbered(db, db') /\ db'.next = db.next
  <2>1. CASE UNCHANGED db
    BY <2>1 DEF SameNumbered, Same
  <2>2. CASE db' = [db EXCEPT !.manual = FALSE] \/ db' = [db EXCEPT !.shutting_down = TRUE]
    BY <1>2, <2>2 DEF SameNumbered, Same, DBFields
  <2>3. CASE db' = MaybeScheduleCompaction([db EXCEPT !.manual = TRUE])
    <3> DEFINE d == [db EXCEPT !.manual = TRUE]
    <3>1. DOMAIN d = DBFields /\ SameNumbered(db, d) /\ d.next = db.next
      BY <1>2 DEF DBFields, SameNumbered, Same
    <3> HIDE DEF d
    <3>2. SameNumbered(d, db') /\ db'.next = d.next
      BY <2>3, <3>1, ScheduleNumbered DEF d
    <3> QED
      BY <3>1, <3>2 DEF SameNumbered, Same
  <2> QED
    BY <2>1, <2>2, <2>3 DEF ManualStep, CompactRangeWaits, CompactRangeStarts, TEST_CompactRange, Shutdown
<1>4. Quiet /\ SameQueue /\ JobNumbers
  BY <1>1, <1>2, <1>3 DEF Quiet, SameNumbered, SameQueue, JobNumbers
<1>5. \A n : MemKept(n)
  BY <1>1 DEF MemKept
<1>6. iter' = iter
  BY <1>1
<1> QED
  BY <1>1, <1>3, <1>4, <1>5, <1>6, QuietSerial

-----------------------------------------------------------------------------
(* The background thread. *)

\* A step of the background thread that installs nothing.
LEMMA BackKept ==
  ASSUME Inv, Inv', AckInv, SerialInv, Open, BGUnchanged, mems' = mems, NothingNew,
         SameNumbered(db, db'), db.next <= db'.next, JobNumbers,
         TablesKept(InUse), iter.on => TablesKept(iter.tables), RecordsSeq', JobContents'
  PROVE  SerialInv'
<1>1. /\ calls' = calls /\ leader' = leader /\ iter' = iter /\ must' = must /\ SameQueue
      /\ Same(db, db') /\ db'.last_sequence = db.last_sequence /\ db'.state = db.state
      /\ Open' /\ db'.mem = db.mem /\ \A n : MemKept(n)
  BY DEF BGUnchanged, SameQueue, SameNumbered, Same, Open, MemKept
<1>2. QueueOrder' /\ GroupOK' /\ GroupPlaced' /\ NumberedOK' /\ Monotone' /\ Counted'
  BY <1>1, NothingNewOrder
<1>3. ContentsOK'
  <2>1. TablesKept(Tables(db))
    BY DEF TablesKept, Tables, InUse
  <2> QED
    BY <1>1, <2>1, ContentsKept
<1>4. PinnedOK' /\ SnapshotOK'
  BY <1>1, ReaderKept
<1>5. OpenOK'
  <2>1. opening'.pc = "none"
    BY <1>1 DEF Inv, ControlOK, Open
  <2> QED
    BY <2>1 DEF OpenOK
<1> QED
  BY <1>2, <1>3, <1>4, <1>5 DEF SerialInv

\* And that writes no record.
LEMMA BackSerial ==
  ASSUME Inv, Inv', AckInv, SerialInv, Open, BGUnchanged, mems' = mems, NothingNew,
         SameNumbered(db, db'), db.next <= db'.next, JobNumbers,
         TablesKept(InUse), iter.on => TablesKept(iter.tables),
         files'.current = files.current,
         files'.manifests[files.current] = files.manifests[files.current],
         bg'.pc = "logging" => Bounded(files', calls, Tables(bg'.edit), bg'.edit.last_sequence),
         JobContents'
  PROVE  SerialInv'
<1>1. calls' = calls /\ Open'
  BY DEF BGUnchanged, SameNumbered, Same, Open
<1>2. RecordsSeq'
  BY <1>1, RecordsKept
<1> QED
  BY <1>2, BackKept

\* A background thread that is done is about to install nothing.
LEMMA IdleSerial ==
  ASSUME Ended(bg')
  PROVE  JobNumbers /\ JobContents' /\ bg'.pc # "logging"
BY DEF JobNumbers, JobContents, IdleBG, Ended

\* A compaction goes on with the inputs it had.
LEMMA WorkingSerial ==
  ASSUME SerialInv, SameNumbered(db, db'), bg'.pc = "working", bg'.job = "compact",
         bg'.out = bg.out \/ bg'.out = db.next, bg'.in0 = bg.in0, bg'.in1 = bg.in1,
         bg.in0 \cup bg.in1 \subseteq Tables(db)
  PROVE  JobNumbers /\ JobContents' /\ bg'.pc # "logging"
<1>1. Tables(db)' = Tables(db)
  BY DEF SameNumbered, Same, Tables
<1>2. JobNumbers
  BY DEF JobNumbers
<1>3. JobContents'
  BY <1>1 DEF JobContents
<1> QED
  BY <1>2, <1>3

\* The end of a round keeps the numbers.
LEMMA DoneNumbered ==
  ASSUME NEW d, DOMAIN d = DBFields, NEW is_manual, NEW done,
         BackgroundDone(d, is_manual, done)
  PROVE  SameNumbered(d, db') /\ db'.next = d.next /\ Ended(bg')
BY BackgroundDoneSame DEF SameNumbered

\* So does that of CompactMemTable.
LEMMA MemTableNumbered ==
  ASSUME NEW d, DOMAIN d = DBFields, DOMAIN bg = BGFields, MemTableDone(d)
  PROVE  SameNumbered(d, db') /\ db'.next = d.next /\ (Ended(bg') \/ GoesOn)
BY MemTableDoneSame DEF SameNumbered

\* RecordBackgroundError too.
LEMMA ErrorNumbered ==
  ASSUME NEW d, DOMAIN d = DBFields
  PROVE  LET e == RecordBackgroundError(d)
         IN SameNumbered(d, e) /\ e.next = d.next /\ DOMAIN e = DBFields
BY ErrorSame DEF SameNumbered

\* The end of a compaction that failed.
LEMMA EndsNumbered ==
  ASSUME NEW f, NEW d, DOMAIN d = DBFields, CompactionEnds(f, d, FALSE)
  PROVE  SameNumbered(d, db') /\ db'.next = d.next /\ Ended(bg') /\ files' = f
BY EndsSame DEF SameNumbered

\* A round ends without a file, or a compaction goes on.
LEMMA RoundSerial ==
  ASSUME Inv, Inv', AckInv, SerialInv, BGUnchanged, Open, UNCHANGED <<files, mems>>,
         SameNumbered(db, db'), db.next <= db'.next, JobNumbers, JobContents', bg'.pc # "logging"
  PROVE  SerialInv'
<1>1. NothingNew /\ \A S : TablesKept(S)
  BY DEF NothingNew, InTables, TablesKept
<1> QED
  BY <1>1, BackSerial

\* BackgroundCall has nothing to do.
LEMMA NothingSerial ==
  ASSUME Inv, Inv', AckInv, SerialInv, BackgroundNothing
  PROVE  SerialInv'
<1>1. Open /\ DOMAIN db = DBFields /\ db.next \in Nat /\ BGUnchanged /\ UNCHANGED <<files, mems>>
  BY DEF BackgroundNothing, Called, Inv, ControlOK, RecordsOK, NumbersOK
<1>2. SameNumbered(db, db') /\ db'.next = db.next /\ (bg' = bg \/ Ended(bg')) /\ bg.pc = "idle"
  <2>1. CASE BackgroundDone(db, db.manual, TRUE)
    BY <1>1, <2>1, DoneNumbered DEF BackgroundNothing, Called
  <2>2. CASE db' = MaybeScheduleCompaction([db EXCEPT !.scheduled = FALSE]) /\ bg' = bg
    <3> DEFINE d == [db EXCEPT !.scheduled = FALSE]
    <3>1. DOMAIN d = DBFields /\ SameNumbered(db, d) /\ d.next = db.next
      BY <1>1 DEF DBFields, Same, SameNumbered
    <3> HIDE DEF d
    <3>2. SameNumbered(d, db') /\ db'.next = d.next
      BY <2>2, <3>1, ScheduleNumbered DEF d
    <3>3. bg.pc = "idle"
      BY DEF BackgroundNothing, Called
    <3> QED
      BY <2>2, <3>1, <3>2, <3>3 DEF Same, SameNumbered
  <2> QED
    BY <2>1, <2>2 DEF BackgroundNothing
<1>3. db.next <= db'.next
  BY <1>1, <1>2
<1>4. JobNumbers /\ JobContents' /\ bg'.pc # "logging"
  <2>1. CASE bg' = bg
    <3>1. bg.out = 0 /\ bg.in0 = {} /\ bg.in1 = {}
      BY <1>2 DEF Inv, ControlOK, SerialInv, JobContents
    <3>2. Tables(db)' = Tables(db)
      BY <1>2 DEF SameNumbered, Same, Tables
    <3> QED
      BY <1>2, <2>1, <3>1, <3>2 DEF JobNumbers, JobContents
  <2> QED
    BY <1>2, <2>1, IdleSerial
<1> QED
  BY <1>1, <1>2, <1>3, <1>4, RoundSerial

\* CompactMemTable takes a number for its table.
LEMMA CompactMemSerial ==
  ASSUME Inv, Inv', AckInv, SerialInv, CompactMemTable
  PROVE  SerialInv'
<1>1. /\ Open /\ DOMAIN db = DBFields /\ DOMAIN bg = BGFields /\ db.next \in Nat
      /\ BGUnchanged /\ UNCHANGED <<files, mems>> /\ bg.pc # "logging"
  BY DEF CompactMemTable, Works, Called, Inv, ControlOK, RecordsOK, NumbersOK
<1>2. SameNumbered(db, db') /\ db'.next = db.next + 1
  BY <1>1 DEF CompactMemTable, Same, SameNumbered, DBFields, NewFileNumber
<1>3. /\ bg'.pc = "building" /\ bg'.table = db.next /\ bg'.out = bg.out
      /\ bg'.in0 = bg.in0 /\ bg'.in1 = bg.in1
  BY <1>1 DEF CompactMemTable, BGFields
<1>4. JobNumbers
  BY <1>3 DEF JobNumbers
<1>5. JobContents'
  <2>1. bg.in0 \cup bg.in1 \subseteq Tables(db)
    BY <1>1 DEF SerialInv, JobContents
  <2>2. Tables(db)' = Tables(db)
    BY <1>2 DEF SameNumbered, Same, Tables
  <2> QED
    BY <1>3, <2>1, <2>2 DEF JobContents
<1>6. db.next <= db'.next
  BY <1>1, <1>2
<1> QED
  BY <1>1, <1>2, <1>3, <1>4, <1>5, <1>6, RoundSerial

\* What is in the tables of the version, or in the immutable memtable, has been
\* answered or belongs to an earlier run.
LEMMA VersionBounded ==
  ASSUME Inv, AckInv, SerialInv, Open
  PROVE  /\ Bounded(files, calls, Tables(db), db.last_sequence)
         /\ db.imm # 0 => \A k \in mems[db.imm] : calls[k].seq <= db.last_sequence
<1>1. db.last_sequence \in Nat
  BY DEF SerialInv, NumberedOK
<1>2. ASSUME NEW k, InTables(files, DOMAIN files.tables, k) \/ (db.imm # 0 /\ k \in mems[db.imm])
      PROVE  calls[k].seq <= db.last_sequence
  <2>1. db.imm # 0 => db.imm # db.mem /\ db.imm \in DOMAIN mems
    BY DEF AckInv, OrderOK
  <2>2. k \notin leader.group
    BY <1>2, <2>1 DEF SerialInv, GroupPlaced
  <2>3. Holds(files, mems, k) /\ k \in DOMAIN calls
    BY <1>2, <2>1 DEF Holds, InTables, AckInv, EntriesOK
  <2> QED
    BY <2>2, <2>3 DEF SerialInv, Counted
<1> QED
  BY <1>1, <1>2 DEF Bounded, InTables

\* A compaction picks its inputs, or moves a file.
LEMMA StartSerial ==
  ASSUME Inv, Inv', AckInv, SerialInv, StartCompaction
  PROVE  SerialInv'
<1> DEFINE seek == ~db.manual /\ Cardinality(db.l0) < kL0_CompactionTrigger
           in0 == IF seek THEN {} ELSE db.l0
<1>1. /\ Open /\ DOMAIN bg = BGFields /\ bg.pc = "idle" /\ bg.out = 0 /\ db.next \in Nat
      /\ BGUnchanged /\ UNCHANGED <<files, mems, db>>
  BY DEF StartCompaction, Works, Called, Inv, ControlOK, RecordsOK, NumbersOK
<1>2. \/ bg' = [bg EXCEPT !.pc = "logging", !.job = "move", !.base = db.l0 \cup db.deep,
                          !.edit = State({}, db.deep \cup in0, db.log_number, db.next,
                                         db.last_sequence)]
      \/ \E in1 \in SUBSET db.deep :
           bg' = [bg EXCEPT !.pc = "working", !.job = "compact",
                            !.base = db.l0 \cup db.deep, !.in0 = in0, !.in1 = in1,
                            !.is_manual = db.manual]
  <2> DEFINE S == IF seek THEN {{n} : n \in db.deep} ELSE {{}, db.deep}
  <2>1. \E in1 \in S :
          bg' = IF ~db.manual /\ Cardinality(in0) = 1 /\ in1 = {}
                  THEN [bg EXCEPT !.pc = "logging", !.job = "move", !.base = db.l0 \cup db.deep,
                                  !.edit = State({}, db.deep \cup in0, db.log_number, db.next,
                                                 db.last_sequence)]
                  ELSE [bg EXCEPT !.pc = "working", !.job = "compact",
                                  !.base = db.l0 \cup db.deep, !.in0 = in0, !.in1 = in1,
                                  !.is_manual = db.manual]
    BY DEF StartCompaction
  <2>2. S \subseteq SUBSET db.deep
    OBVIOUS
  <2> HIDE DEF in0, S
  <2> QED
    BY <2>1, <2>2
<1>3. in0 \subseteq db.l0
  OBVIOUS
<1> HIDE DEF in0
<1>4. SameNumbered(db, db') /\ db.next <= db'.next /\ Tables(db)' = Tables(db)
      /\ NothingNew /\ \A S : TablesKept(S)
  BY <1>1 DEF SameNumbered, Same, Tables, NothingNew, InTables, TablesKept
<1>5. CASE \E in1 \in SUBSET db.deep :
             bg' = [bg EXCEPT !.pc = "working", !.job = "compact",
                              !.base = db.l0 \cup db.deep, !.in0 = in0, !.in1 = in1,
                              !.is_manual = db.manual]
  <2>1. bg'.pc = "working" /\ bg'.job = "compact" /\ bg'.out = 0 /\ bg'.in0 \cup bg'.in1 \subseteq Tables(db)
    BY <1>1, <1>3, <1>5 DEF BGFields, Tables
  <2>2. JobContents' /\ JobNumbers
    BY <1>4, <2>1 DEF JobContents, JobNumbers
  <2> QED
    BY <1>1, <1>4, <2>1, <2>2, RoundSerial
<1>6. CASE bg' = [bg EXCEPT !.pc = "logging", !.job = "move", !.base = db.l0 \cup db.deep,
                            !.edit = State({}, db.deep \cup in0, db.log_number, db.next,
                                           db.last_sequence)]
  <2> DEFINE edit == State({}, db.deep \cup in0, db.log_number, db.next, db.last_sequence)
  <2>1. bg'.pc = "logging" /\ bg'.job = "move" /\ bg'.out = 0 /\ bg'.edit = edit
    BY <1>1, <1>6 DEF BGFields
  <2>2. Tables(edit) \subseteq Tables(db) /\ edit.last_sequence = db.last_sequence
    BY <1>3 DEF Tables, State
  <2> HIDE DEF edit
  <2>3. Bounded(files', calls, Tables(bg'.edit), bg'.edit.last_sequence)
    BY <1>1, <2>1, <2>2, VersionBounded DEF Bounded
  <2>4. JobContents' /\ JobNumbers
    <3>1. Tables(bg.edit)' \subseteq Tables(db)'
      BY <1>1, <2>1, <2>2 DEF Tables
    <3> QED
      BY <2>1, <3>1 DEF JobContents, JobNumbers, InTables
  <2>5. mems' = mems /\ files' = files
    BY <1>1
  <2> QED
    BY <1>1, <1>4, <2>3, <2>4, <2>5, BackSerial
<1> QED
  BY <1>2, <1>5, <1>6

\* The memtable is written to a table.
LEMMA WriteTableSerial ==
  ASSUME Inv, Inv', AckInv, SerialInv, WriteLevel0Table
  PROVE  SerialInv'
<1> DEFINE d == [db EXCEPT !.pending_outputs = @ \ {bg.table}]
           e == RecordBackgroundError(d)
           t == bg.table
           n == IF mems[db.imm] = {} THEN {} ELSE {t}
           Files == files' = IF n = {} THEN files ELSE [files EXCEPT !.tables = With(@, t, mems[db.imm])]
<1>1. bg.pc = "building" /\ BGUnchanged /\ UNCHANGED mems
  BY DEF WriteLevel0Table
<1>2. /\ Open /\ DOMAIN db = DBFields /\ DOMAIN bg = BGFields /\ DOMAIN files = FileFields
      /\ db.next \in Nat
  BY <1>1 DEF Inv, ControlOK, RecordsOK, NumbersOK
<1>3. /\ bg.job \in {"mem", "both"} /\ db.imm # 0 /\ t \notin InUse /\ db.imm \in DOMAIN mems
  BY <1>1, <1>2 DEF AckInv, JobOK, OrderOK
<1>4. DOMAIN d = DBFields /\ SameNumbered(db, d) /\ d.next = db.next /\ Tables(d) = Tables(db)
  BY <1>2 DEF DBFields, Same, SameNumbered, Tables
<1>5. SameNumbered(db, e) /\ e.next = db.next /\ DOMAIN e = DBFields
  <2> HIDE DEF d
  <2> QED
    BY <1>4, ErrorNumbered DEF Same, SameNumbered
<1>6. \/ /\ Files
         /\ \/ MemTableDone(e)
            \/ /\ db' = d
               /\ \E l0, deep :
                    /\ bg' = [bg EXCEPT !.pc = "logging",
                                        !.edit = State(l0, deep, db.mem, d.next, d.last_sequence)]
                    /\ l0 \cup deep = Tables(db) \cup n
      \/ MemTableDone(e) /\ UNCHANGED files
  <2> DEFINE Edit(deep) ==
               bg' = [bg EXCEPT !.pc = "logging",
                        !.edit = State(IF deep THEN d.l0 ELSE d.l0 \cup n,
                                       IF deep THEN d.deep \cup n ELSE d.deep,
                                       db.mem, d.next, d.last_sequence)]
  <2>1. \/ /\ Files
           /\ MemTableDone(e) \/ (db' = d /\ \E deep \in {FALSE, db.l0 = {}} : Edit(deep))
        \/ MemTableDone(e) /\ UNCHANGED files
    BY Zenon DEF WriteLevel0Table
  <2>2. ASSUME NEW deep, Edit(deep)
        PROVE  \E l0, dp :
                  /\ bg' = [bg EXCEPT !.pc = "logging",
                                      !.edit = State(l0, dp, db.mem, d.next, d.last_sequence)]
                  /\ l0 \cup dp = Tables(db) \cup n
    <3> DEFINE l0 == IF deep THEN d.l0 ELSE d.l0 \cup n
               dp == IF deep THEN d.deep \cup n ELSE d.deep
    <3>1. bg' = [bg EXCEPT !.pc = "logging",
                           !.edit = State(l0, dp, db.mem, d.next, d.last_sequence)]
      BY <2>2
    <3>2. l0 \cup dp = Tables(db) \cup n
      <4> HIDE DEF n, d
      <4> QED
        BY <1>4 DEF Tables
    <3> HIDE DEF l0, dp, n, d
    <3> QED
      BY <3>1, <3>2
  <2> HIDE DEF Edit, Files, n, d, e
  <2> QED
    BY <2>1, <2>2
<1>7. n \subseteq {t}
  OBVIOUS
<1>8. Files => files' = files \/ files' = [files EXCEPT !.tables = With(@, t, mems[db.imm])]
  OBVIOUS
<1> HIDE DEF d, e, n, Files
<1>9. /\ files'.logs = files.logs /\ files'.current = files.current /\ files'.manifests = files.manifests
      /\ \A m \in DOMAIN files.tables : m \in DOMAIN files'.tables /\ (m # t => files'.tables[m] = files.tables[m])
      /\ \A m \in DOMAIN files'.tables :
           \/ m \in DOMAIN files.tables /\ files'.tables[m] = files.tables[m]
           \/ m = t /\ files'.tables[m] = mems[db.imm]
  <2>1. files' = files \/ files' = [files EXCEPT !.tables = With(@, t, mems[db.imm])]
    BY <1>6, <1>8
  <2>2. CASE files' = files
    BY <2>2
  <2>3. CASE files' = [files EXCEPT !.tables = With(@, t, mems[db.imm])]
    <3>1. /\ files'.logs = files.logs /\ files'.current = files.current /\ files'.manifests = files.manifests
          /\ files'.tables = With(files.tables, t, mems[db.imm])
      BY <1>2, <2>3 DEF FileFields
    <3> QED
      BY <3>1 DEF With
  <2> QED
    BY <2>1, <2>2, <2>3
<1>10. TablesKept(InUse) /\ (iter.on => TablesKept(iter.tables))
  <2>1. iter.on => t \notin iter.tables
    BY <1>1 DEF SerialInv, PinnedOK
  <2> QED
    BY <1>3, <1>9, <2>1 DEF TablesKept
<1>11. NothingNew
  <2>1. \A m \in DOMAIN mems' : m \in DOMAIN mems /\ mems'[m] = mems[m]
    BY <1>1
  <2>2. \A m \in DOMAIN files'.tables : \A k \in files'.tables[m] :
          InTables(files, DOMAIN files.tables, k) \/ (db.imm # 0 /\ k \in mems[db.imm])
    BY <1>3, <1>9 DEF InTables
  <2> QED
    BY <1>9, <2>1, <2>2 DEF NothingNew
<1>12. bg.in0 \cup bg.in1 \subseteq Tables(db)
  BY <1>1 DEF SerialInv, JobContents
<1>13. files'.manifests[files.current] = files.manifests[files.current] /\ mems' = mems
  BY <1>1, <1>9
<1>14. CASE MemTableDone(e)
  <2>1. SameNumbered(e, db') /\ db'.next = e.next /\ (Ended(bg') \/ GoesOn)
    BY <1>2, <1>5, <1>14, MemTableNumbered
  <2>2. SameNumbered(db, db') /\ db.next <= db'.next
    BY <1>2, <1>5, <2>1 DEF Same, SameNumbered
  <2>3. JobNumbers /\ JobContents' /\ bg'.pc # "logging"
    BY <1>12, <2>1, <2>2, IdleSerial, WorkingSerial DEF GoesOn
  <2> QED
    BY <1>1, <1>2, <1>9, <1>10, <1>11, <1>13, <2>2, <2>3, BackSerial
<1>15. CASE /\ Files /\ db' = d
            /\ \E l0, deep :
                 /\ bg' = [bg EXCEPT !.pc = "logging",
                                     !.edit = State(l0, deep, db.mem, d.next, d.last_sequence)]
                 /\ l0 \cup deep = Tables(db) \cup n
  <2>1. PICK l0, deep :
          /\ bg' = [bg EXCEPT !.pc = "logging",
                              !.edit = State(l0, deep, db.mem, d.next, d.last_sequence)]
          /\ l0 \cup deep = Tables(db) \cup n
    BY <1>15
  <2> DEFINE edit == State(l0, deep, db.mem, d.next, d.last_sequence)
  <2>2. /\ bg'.pc = "logging" /\ bg'.job = bg.job /\ bg'.out = bg.out /\ bg'.edit = edit
        /\ bg'.in0 = bg.in0 /\ bg'.in1 = bg.in1
    BY <1>2, <2>1 DEF BGFields
  <2>3. Tables(edit) = Tables(db) \cup n /\ edit.last_sequence = d.last_sequence
    BY <2>1 DEF Tables, State
  <2>4. d.last_sequence = db.last_sequence
    BY <1>4 DEF SameNumbered
  <2> HIDE DEF edit
  <2>5. SameNumbered(db, db') /\ db.next <= db'.next
    BY <1>2, <1>4, <1>15 DEF SameNumbered
  <2>6. JobNumbers
    BY <2>2 DEF JobNumbers
  <2>7. ASSUME NEW m \in Tables(edit) \cap DOMAIN files'.tables, NEW k \in files'.tables[m]
        PROVE  \/ m \in Tables(db) \cap DOMAIN files.tables /\ files'.tables[m] = files.tables[m]
               \/ k \in mems[db.imm]
    <3>1. CASE m = t /\ files'.tables[m] = mems[db.imm]
      BY <2>7, <3>1
    <3>2. CASE m \in DOMAIN files.tables /\ files'.tables[m] = files.tables[m]
      <4>1. CASE m \in Tables(db)
        BY <3>2, <4>1
      <4>2. CASE m \notin Tables(db)
        <5>1. m = t /\ n # {}
          BY <1>7, <2>3, <2>7, <4>2
        <5>2. Files
          BY <1>15
        <5>3. files' = [files EXCEPT !.tables = With(@, t, mems[db.imm])]
          BY <5>1, <5>2 DEF Files
        <5>4. files'.tables = With(files.tables, t, mems[db.imm])
          BY <1>2, <5>3 DEF FileFields
        <5>5. files'.tables[t] = mems[db.imm]
          BY <5>4 DEF With
        <5> QED
          BY <2>7, <5>1, <5>5
      <4> QED
        BY <4>1, <4>2
    <3> QED
      BY <1>9, <2>7, <3>1, <3>2
  <2>8. Bounded(files', calls, Tables(bg'.edit), bg'.edit.last_sequence)
    <3>1. /\ Bounded(files, calls, Tables(db), db.last_sequence)
          /\ \A k \in mems[db.imm] : calls[k].seq <= db.last_sequence
      BY <1>2, <1>3, VersionBounded
    <3> QED
      BY <2>2, <2>3, <2>4, <2>7, <3>1 DEF Bounded
  <2>9. JobContents'
    <3> DEFINE imm == db.imm
               T == Tables(db)
    <3>1. db'.imm = imm /\ Tables(db)' = T /\ Tables(bg.edit)' = Tables(edit)
      BY <2>2, <2>5 DEF SameNumbered, Same, Tables, imm, T
    <3>2. \A k : InTables(files', Tables(edit), k) => InTables(files', T, k) \/ k \in mems'[imm]
      BY <1>13, <2>7 DEF InTables
    <3>3. bg'.job \in {"mem", "both"} /\ T \subseteq Tables(edit) /\ bg'.in0 \cup bg'.in1 \subseteq T
      BY <1>3, <1>12, <2>2, <2>3
    <3> HIDE DEF imm, T
    <3> QED
      BY <2>2, <3>1, <3>2, <3>3 DEF JobContents, InTables
  <2> QED
    BY <1>1, <1>2, <1>9, <1>10, <1>11, <1>13, <2>5, <2>6, <2>8, <2>9, BackSerial
<1> QED
  BY <1>6, <1>14, <1>15

\* A number that was not given out yet is of no table in use.
LEMMA NextIsNew ==
  ASSUME Inv, AckInv, SerialInv, Open
  PROVE  db.next \notin InUse /\ (iter.on => db.next \notin iter.tables)
<1>1. db.next \in Nat
  BY DEF Inv, NumbersOK
<1>2. CASE db.next \in db.l0 \cup db.deep
  <2>1. db.next < db.next
    BY <1>2 DEF AckInv, OrderOK, Open
  <2> QED
    BY <1>1, <2>1
<1>3. ASSUME NEW i \in Latest(Current), db.next \in Tables(Current.recs[i]) PROVE FALSE
  <2> DEFINE r == Current.recs[i]
  <2>1. VersionOK(r, Current.recs[Len(Current.recs)].next) /\ r.next <= db.next
    <3>1. files.current # 0
      BY OpenFacts
    <3> QED
      BY <3>1 DEF AckInv, LatestOK, Open
  <2>2. db.next < r.next /\ r.next \in Nat
    BY <1>3, <2>1 DEF VersionOK
  <2> QED
    BY <1>1, <2>1, <2>2
<1>4. iter.on /\ db.next \in iter.tables => db.next < db.next
  BY DEF SerialInv, PinnedOK
<1> QED
  BY <1>1, <1>2, <1>3, <1>4 DEF InUse

\* The output of a compaction is opened, and finished.
LEMMA OutputSerial ==
  ASSUME Inv, Inv', AckInv, SerialInv, OpenCompactionOutputFile \/ FinishCompactionOutputFile
  PROVE  SerialInv'
<1>1. bg.pc = "working" /\ BGUnchanged /\ UNCHANGED mems /\ mems' = mems
  BY DEF OpenCompactionOutputFile, FinishCompactionOutputFile
<1>2. /\ Open /\ DOMAIN db = DBFields /\ DOMAIN bg = BGFields /\ DOMAIN files = FileFields
      /\ db.next \in Nat /\ (bg.out # 0 => bg.out \in DOMAIN files.tables)
  BY <1>1 DEF Inv, ControlOK, RecordsOK, NumbersOK, TablesOK
<1>3. /\ bg.job = "compact" /\ (bg.out # 0 => bg.out \notin InUse)
      /\ bg.in0 \cup bg.in1 \subseteq Tables(db)
      /\ bg.out # 0 /\ iter.on => bg.out \notin iter.tables
  BY <1>1 DEF AckInv, JobOK, SerialInv, JobContents, PinnedOK
<1>4. ASSUME NEW d, DOMAIN d = DBFields, SameNumbered(db, d), d.next \in Nat, db.next <= d.next,
             CompactionEnds(files, d, FALSE)
      PROVE  SerialInv'
  <2>1. SameNumbered(d, db') /\ db'.next = d.next /\ Ended(bg') /\ files' = files
    BY <1>4, EndsNumbered
  <2>2. SameNumbered(db, db') /\ db.next <= db'.next
    BY <1>4, <2>1 DEF Same, SameNumbered
  <2>3. JobNumbers /\ JobContents' /\ bg'.pc # "logging"
    BY <2>1, IdleSerial
  <2> QED
    BY <1>1, <1>2, <2>1, <2>2, <2>3, RoundSerial
<1>5. CASE OpenCompactionOutputFile
  <2> DEFINE n == db.next
             d == [db EXCEPT !.next = NewFileNumber(@), !.pending_outputs = @ \cup {n}]
             e == [d EXCEPT !.pending_outputs = @ \ {n}]
  <2>1. /\ DOMAIN d = DBFields /\ SameNumbered(db, d) /\ d.next = db.next + 1
    BY <1>2 DEF DBFields, Same, SameNumbered, NewFileNumber
  <2>2. DOMAIN e = DBFields /\ SameNumbered(db, e) /\ e.next = db.next + 1
    <3> HIDE DEF d
    <3> QED
      BY <2>1 DEF DBFields, Same, SameNumbered
  <2>3. db.next <= db.next + 1 /\ db.next + 1 \in Nat
    BY <1>2
  <2>4. \/ /\ db' = d /\ bg' = [bg EXCEPT !.out = n]
           /\ files' = [files EXCEPT !.tables = With(@, n, {})]
        \/ CompactionEnds(files, e, FALSE)
    BY <1>5, Zenon DEF OpenCompactionOutputFile
  <2> HIDE DEF d, e
  <2>5. CASE CompactionEnds(files, e, FALSE)
    BY <1>4, <2>2, <2>3, <2>5
  <2>6. CASE /\ db' = d /\ bg' = [bg EXCEPT !.out = n]
             /\ files' = [files EXCEPT !.tables = With(@, n, {})]
    <3>1. /\ files'.logs = files.logs /\ files'.current = files.current /\ files'.manifests = files.manifests
          /\ files'.tables = With(files.tables, n, {})
          /\ files'.manifests[files.current] = files.manifests[files.current]
      BY <1>2, <2>6 DEF FileFields
    <3>2. /\ bg'.pc = "working" /\ bg'.job = "compact" /\ bg'.out = n
          /\ bg'.in0 = bg.in0 /\ bg'.in1 = bg.in1
      BY <1>1, <1>2, <1>3, <2>6 DEF BGFields
    <3>3. n \notin InUse /\ (iter.on => n \notin iter.tables)
      BY <1>2, NextIsNew
    <3>4. TablesKept(InUse) /\ (iter.on => TablesKept(iter.tables))
      BY <3>1, <3>3 DEF TablesKept, With
    <3>5. NothingNew
      BY <1>1, <3>1 DEF With, NothingNew, InTables
    <3>6. SameNumbered(db, db') /\ db.next <= db'.next
      BY <2>1, <2>3, <2>6
    <3>7. JobNumbers /\ JobContents' /\ bg'.pc # "logging"
      BY <1>3, <3>2, <3>6, WorkingSerial
    <3> QED
      BY <1>1, <1>2, <3>1, <3>4, <3>5, <3>6, <3>7, BackSerial
  <2> QED
    BY <2>4, <2>5, <2>6
<1>6. CASE FinishCompactionOutputFile
  <2> DEFINE out == bg.out
             S == Stored(bg.in0 \cup bg.in1)
             edit == State(db.l0 \ bg.in0, (db.deep \ bg.in1) \cup {out},
                           db.log_number, db.next, db.last_sequence)
  <2>1. \/ /\ out # 0 /\ files' = [files EXCEPT !.tables[out] = S]
           /\ bg' = [bg EXCEPT !.pc = "logging", !.edit = edit]
           /\ UNCHANGED db
        \/ CompactionEnds(files, db, FALSE)
    BY <1>6, Zenon DEF FinishCompactionOutputFile
  <2>2. CASE CompactionEnds(files, db, FALSE)
    <3>1. SameNumbered(db, db) /\ db.next <= db.next
      BY <1>2 DEF Same, SameNumbered
    <3> QED
      BY <1>2, <1>4, <2>2, <3>1
  <2>3. Tables(edit) \subseteq Tables(db) \cup {out} /\ edit.last_sequence = db.last_sequence
    BY DEF Tables, State
  <2> HIDE DEF edit
  <2>4. CASE /\ out # 0 /\ files' = [files EXCEPT !.tables[out] = S]
             /\ bg' = [bg EXCEPT !.pc = "logging", !.edit = edit]
             /\ UNCHANGED db
    <3>1. /\ files'.logs = files.logs /\ files'.current = files.current /\ files'.manifests = files.manifests
          /\ files'.tables = [files.tables EXCEPT ![out] = S]
          /\ files'.manifests[files.current] = files.manifests[files.current]
      BY <1>2, <2>4 DEF FileFields
    <3>2. bg'.pc = "logging" /\ bg'.job = "compact" /\ bg'.out = out /\ bg'.edit = edit
      BY <1>2, <1>3, <2>4 DEF BGFields
    <3>3. out \notin InUse /\ out \in DOMAIN files.tables /\ (iter.on => out \notin iter.tables)
      BY <1>2, <1>3, <2>4
    <3>4. \A k \in S : InTables(files, Tables(db), k)
      BY <1>3 DEF Stored, InTables
    <3> HIDE DEF S
    <3>5. TablesKept(InUse) /\ (iter.on => TablesKept(iter.tables)) /\ out \notin Tables(db)
      BY <3>1, <3>3 DEF TablesKept, InUse, Tables
    <3>6. NothingNew
      <4>1. \A m \in DOMAIN files'.tables : \A k \in files'.tables[m] :
              InTables(files, DOMAIN files.tables, k)
        BY <3>1, <3>4 DEF InTables
      <4> QED
        BY <1>1, <3>1, <4>1 DEF NothingNew
    <3>7. SameNumbered(db, db') /\ db.next <= db'.next
      BY <1>2, <2>4 DEF Same, SameNumbered
    <3>8. ASSUME NEW m \in Tables(edit) \cap DOMAIN files'.tables, NEW k \in files'.tables[m]
          PROVE  InTables(files, Tables(db), k)
      <4>1. CASE m = out
        BY <3>1, <3>3, <3>4, <3>8, <4>1
      <4>2. CASE m # out
        BY <2>3, <3>1, <3>8, <4>2 DEF InTables
      <4> QED
        BY <4>1, <4>2
    <3>9. Bounded(files', calls, Tables(bg'.edit), bg'.edit.last_sequence)
      <4>1. Bounded(files, calls, Tables(db), db.last_sequence)
        BY <1>2, VersionBounded
      <4> QED
        BY <2>3, <3>2, <3>8, <4>1 DEF Bounded, InTables
    <3>10. JobContents'
      <4> DEFINE T == Tables(db)
      <4>1. Tables(db)' = T /\ Tables(bg.edit)' = Tables(edit)
        BY <2>4, <3>2 DEF Tables, T
      <4>2. \A k : InTables(files', Tables(edit), k) => InTables(files', T, k)
        BY <3>1, <3>5, <3>8 DEF InTables
      <4> HIDE DEF T
      <4> QED
        BY <3>2, <4>1, <4>2 DEF JobContents, InTables
    <3>11. JobNumbers
      BY <3>2 DEF JobNumbers
    <3> QED
      BY <1>1, <1>2, <3>1, <3>5, <3>6, <3>7, <3>9, <3>10, <3>11, BackSerial
  <2> QED
    BY <2>1, <2>2, <2>4
<1> QED
  BY <1>5, <1>6

\* A record that may not have been written is as good as the others.
LEMMA NotInstalledSerial ==
  ASSUME Inv, Inv', AckInv, SerialInv, Open, bg.pc = "logging", BGUnchanged, NotInstalledOK
  PROVE  SerialInv'
<1> DEFINE e == bg.edit
           m == files.manifests[files.current]
           longer == Append(m.recs, e)
<1>1. /\ files'.tables = files.tables /\ files'.logs = files.logs /\ mems' = mems
      /\ files'.current = files.current /\ calls' = calls /\ db.next \in Nat
  BY DEF BGUnchanged, NotInstalledOK, Inv, NumbersOK
<1>2. SameNumbered(db, db') /\ db.next <= db'.next
  BY <1>1 DEF NotInstalledOK, SameNumbered
<1>3. NothingNew /\ \A S : TablesKept(S)
  BY <1>1 DEF NothingNew, InTables, TablesKept
<1>4. JobNumbers /\ JobContents' /\ bg'.pc # "logging"
  <2>1. CASE bg.job \in {"mem", "both"} /\ GoesOn
    <3>1. bg.in0 \cup bg.in1 \subseteq Tables(db)
      BY <2>1 DEF SerialInv, JobContents
    <3> QED
      BY <1>2, <2>1, <3>1, WorkingSerial DEF GoesOn
  <2> QED
    BY <2>1, IdleSerial DEF NotInstalledOK
<1>5. IsSeq(m.recs) /\ files.current # 0
  BY OpenFacts DEF ManifestOK
<1>6. PICK recs \in {m.recs, longer} : Current' = NewManifest(recs, m.synced)
  BY DEF NotInstalledOK, Current
<1>7. Current'.recs = recs /\ Current'.synced = m.synced /\ Current = m
  BY <1>6 DEF NewManifest, Current
<1>8. /\ \A i \in Latest(m) : Bounded(files, calls, Tables(m.recs[i]), m.recs[i].last_sequence)
      /\ Bounded(files, calls, Tables(e), e.last_sequence)
  BY <1>5, <1>7 DEF SerialInv, RecordsSeq
<1> HIDE DEF m, e
<1>9. Len(m.recs) \in Nat /\ Len(longer) = Len(m.recs) + 1 /\ longer[Len(m.recs) + 1] = e
       /\ \A i \in 1..Len(m.recs) : longer[i] = m.recs[i]
  BY <1>5, AppendIs
<1> HIDE DEF longer
<1>10. ASSUME NEW i \in Latest(Current)'
       PROVE  (i \in Latest(m) /\ recs[i] = m.recs[i]) \/ recs[i] = e
  <2>1. i \in 1..Len(recs) /\ i >= m.synced
    BY <1>7, <1>10 DEF Latest
  <2>2. CASE recs = m.recs
    BY <2>1, <2>2 DEF Latest
  <2>3. CASE recs = longer
    <3>1. i \in 1..Len(m.recs) \/ i = Len(m.recs) + 1
      BY <1>9, <2>1, <2>3
    <3> QED
      BY <1>9, <2>1, <2>3, <3>1 DEF Latest
  <2> QED
    BY <1>6, <2>2, <2>3
<1>11. RecordsSeq'
  <2>1. ASSUME NEW i \in Latest(Current)'
        PROVE  Bounded(files', calls', Tables(recs[i]), recs[i].last_sequence)
    <3>1. Bounded(files, calls, Tables(recs[i]), recs[i].last_sequence)
      BY <1>8, <1>10, <2>1
    <3> QED
      BY <1>1, <3>1 DEF Bounded
  <2>2. opening'.pc = "none"
    BY <1>2 DEF Inv, ControlOK, SameNumbered, Same, Open
  <2> QED
    BY <1>4, <1>7, <2>1, <2>2 DEF RecordsSeq, Bounded, Tables
<1> QED
  BY <1>1, <1>2, <1>3, <1>4, <1>11, BackKept

\* A version that is installed has what the last one had, and the memtable that
\* was written.
LEMMA InstalledSerial ==
  ASSUME Inv, Inv', AckInv, SerialInv, Open, bg.pc = "logging", BGUnchanged, InstalledOK
  PROVE  SerialInv'
<1> DEFINE e == bg.edit
           T == Tables(e)
           U == Tables(db)
           mem == db.mem
           imm == db.imm
           flush == bg.job \in {"mem", "both"}
<1>1. /\ db'.state = db.state /\ db'.mem = mem /\ db'.next = db.next
      /\ db'.last_sequence = db.last_sequence
      /\ Tables(db)' = T
      /\ db'.imm = IF flush THEN 0 ELSE imm
      /\ \A n \in DOMAIN files'.logs : n \in DOMAIN files.logs /\ files'.logs[n] = files.logs[n]
      /\ \A n \in DOMAIN files'.tables : n \in DOMAIN files.tables /\ files'.tables[n] = files.tables[n]
      /\ DOMAIN files.tables \cap (T \cup iter.tables) \subseteq DOMAIN files'.tables
      /\ \A n \in DOMAIN mems' : n \in DOMAIN mems /\ mems'[n] = mems[n]
      /\ DOMAIN mems \cap {db'.mem, db'.imm, iter.mem, iter.imm} \subseteq DOMAIN mems'
      /\ Ended(bg') \/ (flush /\ GoesOn)
  BY DEF InstalledOK, Tables
<1>2. Open' /\ SameQueue /\ iter' = iter /\ must' = must /\ calls' = calls /\ leader' = leader
  BY <1>1 DEF BGUnchanged, SameQueue, Open
<1>3. NothingNew
  BY <1>1 DEF NothingNew, InTables
<1>4. QueueOrder' /\ GroupOK' /\ GroupPlaced' /\ NumberedOK' /\ Monotone' /\ Counted'
  BY <1>1, <1>2, <1>3, NothingNewOrder DEF mem
<1>5. /\ \A k : InTables(files, T, k) => InTables(files, U, k) \/ (flush /\ k \in mems[imm])
      /\ flush => U \subseteq T /\ bg.in0 \cup bg.in1 \subseteq U
  BY DEF SerialInv, JobContents
<1>6. /\ \A k : InTables(files, U, k) => InTables(files, T, k)
      /\ flush => imm # 0 /\ \A k \in mems[imm] : InTables(files, T, k)
  BY DEF AckInv, JobOK, Stored, InTables, Tables
<1>7. 0 \notin DOMAIN mems /\ mem \in DOMAIN mems /\ (imm # 0 => imm \in DOMAIN mems)
  BY DEF AckInv, OrderOK
<1>8. bg'.pc # "logging" /\ JobNumbers
  BY <1>1, IdleSerial DEF GoesOn, JobNumbers
<1>9. db.next \in Nat /\ db.next <= db'.next
  BY <1>1 DEF Inv, NumbersOK
<1>10. PinnedOK' /\ SnapshotOK'
  <2>1. iter.on => MemKept(iter.mem) /\ MemKept(iter.imm) /\ TablesKept(iter.tables)
    BY <1>1 DEF MemKept, TablesKept
  <2> QED
    BY <1>1, <1>2, <1>3, <1>8, <1>9, <2>1, ReaderKept
<1>11. JobContents'
  BY <1>1, <1>5, IdleSerial DEF JobContents, GoesOn
<1>12. RecordsSeq'
  <2> DEFINE recs == files.manifests[files.current].recs
             longer == Append(recs, e)
  <2>1. IsSeq(recs)
    BY OpenFacts DEF ManifestOK
  <2>2. Current' = NewManifest(longer, Len(longer))
    BY DEF InstalledOK, Current
  <2>3. Bounded(files, calls, T, e.last_sequence)
    BY DEF SerialInv, RecordsSeq
  <2> HIDE DEF recs, e
  <2>4. Len(longer) = Len(recs) + 1 /\ Len(recs) \in Nat /\ longer[Len(recs) + 1] = e
    BY <2>1, AppendIs
  <2> HIDE DEF longer
  <2>5. Current'.recs = longer /\ Current'.synced = Len(longer)
    BY <2>2 DEF NewManifest
  <2>6. ASSUME NEW i \in 1..Len(longer), i >= Len(longer) PROVE i = Len(recs) + 1
    BY <2>4, <2>6
  <2>7. \A i \in Latest(Current)' : Current'.recs[i] = e
    BY <2>4, <2>5, <2>6 DEF Latest
  <2>8. Bounded(files', calls', T, e.last_sequence)
    BY <1>1, <1>2, <2>3 DEF Bounded
  <2>9. opening'.pc = "none"
    BY <1>2 DEF Inv, ControlOK, Open
  <2> QED
    BY <1>8, <2>7, <2>8, <2>9 DEF RecordsSeq, Bounded, Tables
<1>13. OpenOK'
  <2>1. opening'.pc = "none"
    BY <1>2 DEF Inv, ControlOK, Open
  <2> QED
    BY <2>1 DEF OpenOK
<1>14. ContentsOK'
  <2> HIDE DEF T, U, mem, imm, e
  <2>1. \A k : InTables(files', T, k) <=> InTables(files, T, k)
    BY <1>1 DEF InTables
  <2>2. \A k : InMem(mems', mem, k) <=> InMem(mems, mem, k)
    BY <1>1 DEF InMem
  <2>3. \A k : k \in must <=> Has(files, mems, mem, imm, U, k) /\ k \notin leader.group
    BY DEF SerialInv, ContentsOK, mem, imm, U
  <2>4. ASSUME NEW k, NEW i, i = IF flush THEN 0 ELSE imm
        PROVE  Has(files', mems', mem, i, T, k) <=> Has(files, mems, mem, imm, U, k)
    <3>1. CASE flush
      <4>1. ~InMem(mems', 0, k)
        BY <1>1, <1>7 DEF InMem
      <4>2. InMem(mems, imm, k) <=> k \in mems[imm]
        BY <1>6, <1>7, <3>1 DEF InMem
      <4> QED
        BY <1>5, <1>6, <2>1, <2>2, <2>4, <3>1, <4>1, <4>2 DEF Has
    <3>2. CASE ~flush
      <4>1. InMem(mems', imm, k) <=> InMem(mems, imm, k)
        BY <1>1, <3>2 DEF InMem
      <4> QED
        BY <1>5, <1>6, <2>1, <2>2, <2>4, <3>2, <4>1 DEF Has
    <3> QED
      BY <3>1, <3>2
  <2>5. \A k : k \in must' <=> Has(files', mems', db'.mem, db'.imm, T, k) /\ k \notin leader'.group
    BY <1>1, <1>2, <2>3, <2>4
  <2> QED
    BY <1>1, <2>5 DEF ContentsOK, Has, InMem, InTables
<1> QED
  BY <1>4, <1>10, <1>11, <1>12, <1>13, <1>14 DEF SerialInv

\* LogAndApply and what follows it.
LEMMA LogSerial ==
  ASSUME Inv, Inv', AckInv, SerialInv, LogAndApply
  PROVE  SerialInv'
BY LogIs, InstalledSerial, NotInstalledSerial

-----------------------------------------------------------------------------
(* The writers. *)

\* What is anywhere is of a call.
LEMMA HoldsCall ==
  ASSUME AckInv, NEW k, Holds(files, mems, k)
  PROVE  k \in DOMAIN calls
<1>1. CASE \E n \in DOMAIN mems : k \in mems[n]
  BY <1>1 DEF AckInv, EntriesOK
<1>2. CASE InTables(files, DOMAIN files.tables, k)
  BY <1>2 DEF AckInv, EntriesOK, InTables
<1>3. CASE InLogs(files, k)
  BY <1>3 DEF AckInv, LogsOK, LogOK, InLogs
<1> QED
  BY <1>1, <1>2, <1>3 DEF Holds

\* A step of the queue leaves the store alone, if it renumbers nothing that is
\* there and its group is new.
LEMMA QueueKeepsStore ==
  ASSUME Inv, Inv', AckInv, SerialInv, Open, UNCHANGED <<files, db, mems, bg, iter, must>>,
         \A k : Holds(files, mems, k) =>
           calls'[k].seq = calls[k].seq /\ (k \in leader'.group <=> k \in leader.group)
  PROVE  RecordsSeq' /\ OpenOK' /\ JobContents' /\ ContentsOK' /\ PinnedOK' /\ SnapshotOK'
<1>1. opening'.pc = "none" /\ Open'
  BY DEF Inv, ControlOK, Open
<1>2. OpenOK' /\ JobContents' /\ PinnedOK'
  BY <1>1 DEF SerialInv, OpenOK, JobContents, PinnedOK, Open, InTables, Tables
<1>3. RecordsSeq'
  <2>1. ASSUME NEW T, NEW n, Bounded(files, calls, T, n) PROVE Bounded(files', calls', T, n)
    BY <2>1 DEF Bounded, Holds, InTables
  <2>2. /\ \A i \in Latest(Current) : Bounded(files', calls', Tables(Current.recs[i]), Current.recs[i].last_sequence)
        /\ bg.pc = "logging" => Bounded(files', calls', Tables(bg.edit), bg.edit.last_sequence)
    <3>1. files.current # 0
      BY OpenFacts
    <3> QED
      BY <2>1, <3>1 DEF SerialInv, RecordsSeq
  <2>3. Current' = Current /\ bg' = bg
    BY DEF Current
  <2> DEFINE m == Current
             e == bg.edit
  <2> HIDE DEF m, e
  <2>4. Current' = m /\ bg'.edit = e
    BY <2>3 DEF m, e
  <2>5. /\ \A i \in Latest(m) : Bounded(files', calls', Tables(m.recs[i]), m.recs[i].last_sequence)
        /\ bg.pc = "logging" => Bounded(files', calls', Tables(e), e.last_sequence)
    BY <2>2 DEF m, e
  <2> QED
    BY <1>1, <2>4, <2>5 DEF RecordsSeq, Bounded, Tables, Latest
<1>4. ContentsOK'
  <2>1. ASSUME NEW k, Has(files, mems, db.mem, db.imm, Tables(db), k) PROVE Holds(files, mems, k)
    BY <2>1 DEF Has, Holds, InMem, InTables
  <2>2. \A k : k \in must <=> Has(files, mems, db.mem, db.imm, Tables(db), k) /\ k \notin leader'.group
    BY <2>1 DEF SerialInv, ContentsOK
  <2> QED
    BY <2>2 DEF ContentsOK, Has, InMem, InTables, Tables
<1>5. SnapshotOK'
  <2>1. ASSUME NEW k, Has(files, mems, iter.mem, iter.imm, iter.tables, k) PROVE Holds(files, mems, k)
    BY <2>1 DEF Has, Holds, InMem, InTables
  <2>2. iter.on => \A k : k \in iter.expected <=>
                      Has(files, mems, iter.mem, iter.imm, iter.tables, k) /\ calls'[k].seq <= iter.snapshot
    BY <2>1 DEF SerialInv, SnapshotOK
  <2> QED
    BY <2>2 DEF SnapshotOK, Has, InMem, InTables
<1> QED
  BY <1>2, <1>3, <1>4, <1>5

\* The calls and the queue are sequences of numbers.
LEMMA QueueFacts ==
  ASSUME Inv, AckInv
  PROVE  /\ Len(calls) \in Nat /\ DOMAIN calls = 1..Len(calls)
         /\ writers \in Seq(Nat) /\ Len(writers) \in Nat /\ DOMAIN writers = 1..Len(writers)
         /\ \A i \in 1..Len(writers) : writers[i] \in Nat /\ writers[i] <= Len(calls)
<1>1. IsSeq(calls) /\ writers \in Seq(Nat)
  BY DEF Inv, CallsOK, QueueOK
<1>2. Len(calls) \in Nat /\ DOMAIN calls = 1..Len(calls)
  BY <1>1, AppendIs
<1>3. Len(writers) \in Nat /\ DOMAIN writers = 1..Len(writers)
  BY <1>1, LenProperties
<1>4. \A i \in 1..Len(writers) : writers[i] \in 1..Len(calls)
  BY <1>2 DEF AckInv, EntriesOK
<1> QED
  BY <1>1, <1>2, <1>3, <1>4

\* A call arrives.
LEMMA EnqueueSerial ==
  ASSUME Inv, Inv', AckInv, SerialInv, NEW sync, NEW null, Enqueue(sync, null)
  PROVE  SerialInv'
<1> DEFINE k == Len(calls) + 1
           call == [sync |-> sync, null |-> null, seq |-> 0, status |-> "waiting"]
<1>1. /\ Open /\ writers' = Append(writers, k) /\ calls' = Append(calls, call)
      /\ leader' = IF writers = <<>> THEN Lead(k, null) ELSE leader
      /\ UNCHANGED <<files, db, mems, bg, iter, must>>
  BY DEF Enqueue
<1>2. /\ Len(calls) \in Nat /\ DOMAIN calls = 1..Len(calls) /\ k \in Nat
      /\ writers \in Seq(Nat) /\ Len(writers) \in Nat
      /\ \A i \in 1..Len(writers) : writers[i] \in Nat /\ writers[i] < k
  BY QueueFacts
<1>3. call.seq = 0 /\ call.status = "waiting"
  OBVIOUS
<1> HIDE DEF call
<1>4. /\ DOMAIN calls' = DOMAIN calls \cup {k}
      /\ calls'[k] = call /\ \A j \in DOMAIN calls : calls'[j] = calls[j]
  <2>1. /\ Len(calls') = Len(calls) + 1 /\ DOMAIN calls' = 1..Len(calls')
        /\ calls'[Len(calls) + 1] = call /\ \A j \in 1..Len(calls) : calls'[j] = calls[j]
    <3>1. IsSeq(calls)
      BY DEF Inv, CallsOK
    <3> QED
      BY <1>1, <3>1, AppendIs
  <2> QED
    BY <1>2, <2>1
<1>5. \A j \in DOMAIN calls : j \in Nat /\ j < k
  BY <1>2
<1> HIDE DEF k
<1>6. /\ Len(writers') = Len(writers) + 1
      /\ writers'[Len(writers) + 1] = k /\ \A i \in 1..Len(writers) : writers'[i] = writers[i]
  BY <1>1, <1>2, AppendProperties, LenProperties
<1>7. /\ \A i \in 1..Len(writers') : \/ i \in 1..Len(writers) /\ writers'[i] = writers[i]
                                     \/ i = Len(writers) + 1 /\ writers'[i] = k
      /\ \A i \in 1..Len(writers) : i \in 1..Len(writers') /\ i < Len(writers) + 1
      /\ Len(writers) + 1 \in 1..Len(writers')
  BY <1>2, <1>6
<1>8. leader'.group = leader.group
      /\ \/ leader' = leader
         \/ leader'.pc = "room" /\ leader'.group = {} /\ leader.group = {} /\ leader'.left = {}
  <2>1. CASE writers = <<>>
    <3>1. leader.pc = "none"
      BY <2>1 DEF Inv, QueueOK
    <3>2. leader.group = {}
      BY <3>1 DEF SerialInv, GroupOK, Running
    <3> QED
      BY <1>1, <2>1, <3>2 DEF Lead, NoLeader
  <2> QED
    BY <1>1, <2>1
<1>9. ASSUME NEW j, Holds(files, mems, j) PROVE j \in DOMAIN calls /\ calls'[j] = calls[j]
  BY <1>4, <1>9, HoldsCall
<1>10. RecordsSeq' /\ OpenOK' /\ JobContents' /\ ContentsOK' /\ PinnedOK' /\ SnapshotOK'
  BY <1>1, <1>8, <1>9, QueueKeepsStore
<1>11. \A j \in leader.group : j \in DOMAIN calls /\ calls'[j] = calls[j]
  BY <1>4 DEF AckInv, EntriesOK
<1>12. QueueOrder'
  <2>1. ASSUME NEW i \in 1..Len(writers'), NEW j \in 1..Len(writers'), i < j
        PROVE  writers'[i] < writers'[j]
    <3>1. CASE j \in 1..Len(writers)
      <4>1. i \in 1..Len(writers)
        BY <1>2, <2>1, <3>1
      <4> QED
        BY <1>6, <2>1, <3>1, <4>1 DEF SerialInv, QueueOrder
    <3>2. CASE j = Len(writers) + 1
      <4>1. i \in 1..Len(writers)
        BY <1>2, <2>1, <3>2
      <4> QED
        BY <1>2, <1>6, <3>2, <4>1
    <3> QED
      BY <1>7, <3>1, <3>2
  <2>2. ASSUME NEW i \in 1..Len(writers') PROVE calls'[writers'[i]].status = "waiting"
    <3>1. CASE i \in 1..Len(writers) /\ writers'[i] = writers[i]
      BY <1>4, <3>1 DEF SerialInv, QueueOrder, AckInv, EntriesOK
    <3> QED
      BY <1>3, <1>4, <1>7, <3>1
  <2>3. ASSUME NEW j \in DOMAIN calls', calls'[j].status = "waiting"
        PROVE  \E i \in 1..Len(writers') : writers'[i] = j
    <3>1. CASE j \in DOMAIN calls
      BY <1>4, <1>6, <1>7, <2>3, <3>1 DEF SerialInv, QueueOrder
    <3> QED
      BY <1>4, <1>6, <1>7, <3>1
  <2>4. ASSUME NEW j \in DOMAIN calls', calls'[j].status \in {"ok", "error"}, NEW i \in 1..Len(writers')
        PROVE  j < writers'[i]
    <3>1. j \in DOMAIN calls /\ calls[j].status \in {"ok", "error"}
      BY <1>3, <1>4, <2>4
    <3> QED
      BY <1>5, <1>7, <3>1 DEF SerialInv, QueueOrder
  <2> QED
    BY <2>1, <2>2, <2>3, <2>4 DEF QueueOrder
<1>13. GroupOK'
  <2>1. CASE leader'.pc = "room" /\ leader'.group = {}
    BY <2>1 DEF GroupOK, Running
  <2>2. CASE leader' = leader
    <3>1. ASSUME NEW j \in leader.group
          PROVE  ~calls'[j].null /\ j <= leader.last /\ \E i \in 1..Len(writers') : writers'[i] = j
      BY <1>6, <1>7, <1>11, <3>1 DEF SerialInv, GroupOK
    <3>2. ASSUME Running, leader.status = "ok", NEW i \in 1..Len(writers'),
                 ~calls'[writers'[i]].null, writers'[i] <= leader.last
          PROVE  writers'[i] \in leader.group
      <4>1. CASE i \in 1..Len(writers) /\ writers'[i] = writers[i]
        <5>1. calls'[writers[i]] = calls[writers[i]]
          BY <1>4, <4>1 DEF AckInv, EntriesOK
        <5> QED
          BY <3>2, <4>1, <5>1 DEF SerialInv, GroupOK
      <4>2. CASE writers'[i] = k
        <5>1. leader.last \in Nat /\ leader.last < k
          BY <1>2, <3>2 DEF Running, Inv, QueueOK
        <5> QED
          BY <1>2, <3>2, <4>2, <5>1
      <4> QED
        BY <1>7, <4>1, <4>2
    <3> QED
      BY <2>2, <3>1, <3>2 DEF SerialInv, GroupOK, Running
  <2> QED
    BY <1>8, <2>1, <2>2
<1>14. GroupPlaced'
  BY <1>1, <1>8 DEF SerialInv, GroupPlaced, Running, InMem, InTables
<1>15. NumberedOK'
  <2>1. PICK B \in Nat : \A j \in DOMAIN calls : calls[j].seq <= B
    BY DEF SerialInv, NumberedOK
  <2>2. \A j \in DOMAIN calls' : calls'[j].seq \in Nat /\ calls'[j].seq <= B
    BY <1>3, <1>4, <2>1 DEF SerialInv, NumberedOK
  <2> QED
    BY <1>1, <2>2 DEF SerialInv, NumberedOK
<1>16. ASSUME NEW j PROVE Holds(files', mems', j) <=> Holds(files, mems, j)
  BY <1>1 DEF Holds
<1>17. Monotone'
  <2>1. ASSUME NEW j, Live(j)' PROVE Live(j) /\ j \in DOMAIN calls /\ calls'[j] = calls[j]
    BY <1>1, <1>8, <1>9, <1>11, <1>16, <2>1 DEF Live, Holds, InLogs, InTables
  <2> QED
    BY <2>1 DEF SerialInv, Monotone
<1>18. Counted'
  <2>1. ASSUME NEW j \in DOMAIN calls', Holds(files, mems, j), j \notin leader.group
        PROVE  calls'[j].seq <= db.last_sequence /\ \A i \in 1..Len(writers') : j < writers'[i]
    BY <1>1, <1>5, <1>7, <1>9, <2>1 DEF SerialInv, Counted
  <2>2. ASSUME NEW j \in leader.group
        PROVE  /\ db.last_sequence < calls'[j].seq
               /\ calls'[j].seq <= db.last_sequence + Cardinality(leader.group)
    BY <1>1, <1>11, <2>2 DEF SerialInv, Counted
  <2> QED
    BY <1>1, <1>8, <1>16, <2>1, <2>2 DEF Counted, Holds, InLogs, InTables
<1> QED
  BY <1>10, <1>12, <1>13, <1>14, <1>15, <1>17, <1>18 DEF SerialInv

\* MakeRoomForWrite, when no new memtable is made and no group is built.
LEMMA RoomSerial ==
  ASSUME Inv, Inv', AckInv, SerialInv,
         RoomError \/ RoomDelay \/ RoomWait \/ (RoomFound /\ calls[leader.call].null)
  PROVE  SerialInv'
<1>1. Room /\ UNCHANGED <<files, db, mems, writers, must, unsure, bg, iter, calls>>
  BY DEF RoomError, RoomDelay, RoomFound, RoomWait, RoomUnchanged, NoRoom
<1>2. /\ DOMAIN leader = LeaderFields /\ leader.pc = "room" /\ writers # <<>>
      /\ leader.call = writers[1] /\ Open
  BY <1>1 DEF Inv, RecordsOK, QueueOK, Room
<1>3. leader.group = {} /\ leader.left = {} /\ leader.status = "ok"
  BY <1>2 DEF AckInv, LeaderOK
<1>4. /\ leader'.group = {} /\ leader'.left = {}
      /\ \/ leader'.pc = "room"
         \/ leader'.pc = "finish" /\ leader'.status # "ok"
         \/ leader'.pc = "finish" /\ leader'.last = leader.call /\ calls[leader.call].null
  <2>1. CASE RoomError
    BY <1>2, <1>3, <2>1 DEF RoomError, LeaderFields
  <2>2. CASE RoomDelay
    BY <1>2, <1>3, <2>2 DEF RoomDelay, LeaderFields
  <2>3. CASE RoomWait
    BY <1>2, <1>3, <2>3 DEF RoomWait
  <2>4. CASE RoomFound /\ calls[leader.call].null
    BY <1>2, <1>3, <2>4 DEF RoomFound, LeaderFields
  <2> QED
    BY <2>1, <2>2, <2>3, <2>4
<1>5. RecordsSeq' /\ OpenOK' /\ JobContents' /\ ContentsOK' /\ PinnedOK' /\ SnapshotOK'
  BY <1>1, <1>2, <1>3, <1>4, QueueKeepsStore
<1>6. GroupOK'
  <2>1. ASSUME leader'.pc = "finish", leader'.last = leader.call, calls[leader.call].null,
               NEW i \in 1..Len(writers), writers[i] <= leader'.last
        PROVE  calls[writers[i]].null
    <3>1. Len(writers) \in Nat /\ \A j \in 1..Len(writers) : writers[j] \in Nat
      BY QueueFacts
    <3>2. 1 \in 1..Len(writers) /\ (i = 1 \/ 1 < i)
      BY <3>1
    <3>3. 1 < i => writers[1] < writers[i]
      BY <3>2 DEF SerialInv, QueueOrder
    <3> QED
      BY <1>2, <2>1, <3>1, <3>2, <3>3
  <2> QED
    BY <1>1, <1>4, <2>1 DEF GroupOK, Running
<1>7. QueueOrder' /\ NumberedOK'
  BY <1>1 DEF SerialInv, QueueOrder, NumberedOK
<1>8. GroupPlaced'
  BY <1>4 DEF GroupPlaced
<1>9. Monotone' /\ Counted'
  <2>1. ASSUME NEW k PROVE Holds(files', mems', k) <=> Holds(files, mems, k)
    BY <1>1 DEF Holds
  <2>2. Monotone'
    BY <1>1, <1>3, <1>4, <2>1 DEF SerialInv, Monotone, Live, Holds, InTables, InLogs
  <2>3. Counted'
    BY <1>1, <1>2, <1>3, <1>4, <2>1 DEF SerialInv, Counted, Holds, InTables, InLogs
  <2> QED
    BY <2>2, <2>3
<1> QED
  BY <1>5, <1>6, <1>7, <1>8, <1>9 DEF SerialInv

\* How many of a set of numbers are not above one of them.
Rank(G, k) == Cardinality({j \in G : j <= k})

\* Ranks are in the order of the numbers, from 1 on.
LEMMA Ranks ==
  ASSUME NEW n \in Nat, NEW G \in SUBSET (1..n)
  PROVE  /\ Cardinality(G) \in Nat
         /\ \A k \in G : Rank(G, k) \in Nat /\ 1 <= Rank(G, k) /\ Rank(G, k) <= Cardinality(G)
         /\ \A j, k \in G : j < k => Rank(G, j) < Rank(G, k)
<1>1. IsFiniteSet(G)
  <2>1. IsFiniteSet(1..n)
    BY FS_Interval
  <2> QED
    BY <2>1, FS_Subset
<1>2. Cardinality(G) \in Nat
  BY <1>1, FS_CardinalityType
<1> DEFINE R(k) == {j \in G : j <= k}
<1>3. ASSUME NEW k \in G
      PROVE  IsFiniteSet(R(k)) /\ Cardinality(R(k)) \in Nat /\ Cardinality(R(k)) <= Cardinality(G)
             /\ 1 <= Cardinality(R(k))
  <2>1. IsFiniteSet(R(k)) /\ Cardinality(R(k)) <= Cardinality(G)
    <3>1. R(k) \in SUBSET G
      OBVIOUS
    <3> QED
      BY <1>1, <3>1, FS_Subset
  <2>2. Cardinality(R(k)) \in Nat
    BY <2>1, FS_CardinalityType
  <2>3. k \in R(k)
    OBVIOUS
  <2>4. Cardinality(R(k)) # 0
    BY <2>1, <2>3, FS_EmptySet
  <2> QED
    BY <2>1, <2>2, <2>4
<1>4. ASSUME NEW j \in G, NEW k \in G, j < k PROVE Cardinality(R(j)) < Cardinality(R(k))
  <2>1. R(j) \in SUBSET R(k) /\ k \in R(k) /\ k \notin R(j)
    <3>1. \A i \in G : i \in Nat
      OBVIOUS
    <3>2. \A i \in G : i <= j => i <= k
      BY <1>4, <3>1
    <3>3. k <= k /\ ~(k <= j)
      BY <1>4, <3>1
    <3> QED
      BY <3>2, <3>3
  <2>2. Cardinality(R(j)) <= Cardinality(R(k)) /\ (Cardinality(R(j)) = Cardinality(R(k)) => R(j) = R(k))
    BY <1>3, <2>1, FS_Subset
  <2> QED
    BY <1>3, <2>1, <2>2
<1> QED
  BY <1>2, <1>3, <1>4 DEF Rank

\* The group is built and numbered.
LEMMA FoundSerial ==
  ASSUME Inv, Inv', AckInv, SerialInv, RoomFound, ~calls[leader.call].null
  PROVE  SerialInv'
<1> DEFINE first == leader.call
           all == BuildBatchGroup(first)
           G == Entries(all)
           last == all[Len(all)]
           L == db.last_sequence
<1>1. /\ Room /\ UNCHANGED <<files, db, mems, writers, must, bg, iter>>
      /\ leader' = [leader EXCEPT !.pc = "append", !.group = G, !.left = G, !.last = last]
      /\ calls' = [k \in DOMAIN calls |->
                     IF k \in G THEN [calls[k] EXCEPT !.seq = L + Rank(G, k)] ELSE calls[k]]
  BY DEF RoomFound, RoomUnchanged, Rank
<1>2. /\ DOMAIN leader = LeaderFields /\ leader.pc = "room" /\ writers # <<>> /\ writers \in Seq(Nat)
      /\ leader.call = writers[1] /\ Open
  BY <1>1 DEF Inv, RecordsOK, QueueOK, Room
<1>3. leader.group = {} /\ leader.status = "ok"
  BY <1>2 DEF AckInv, LeaderOK
<1>4. PICK m \in 1..Len(writers) :
        /\ last = writers[m]
        /\ \A k : k \in G <=> (\E i \in 1..m : k = writers[i]) /\ ~calls[k].null
  BY <1>2, GroupUpTo
<1> HIDE DEF first, all, G, last, L
<1>5. /\ leader'.pc = "append" /\ leader'.group = G /\ leader'.left = G /\ leader'.last = last
      /\ leader'.status = "ok"
  BY <1>1, <1>2, <1>3 DEF LeaderFields
<1>6. /\ Len(calls) \in Nat /\ DOMAIN calls = 1..Len(calls) /\ Len(writers) \in Nat
      /\ \A i \in 1..Len(writers) : writers[i] \in Nat /\ writers[i] <= Len(calls)
      /\ L \in Nat
  BY QueueFacts DEF SerialInv, NumberedOK, L
<1>7. /\ 1..m \subseteq 1..Len(writers)
      /\ \A k \in G : k \in DOMAIN calls /\ \E i \in 1..Len(writers) : writers[i] = k
  BY <1>4, <1>6 DEF AckInv, EntriesOK
<1>8. G \in SUBSET (1..Len(calls))
  BY <1>6, <1>7
<1>9. /\ Cardinality(G) \in Nat
      /\ \A k \in G : Rank(G, k) \in Nat /\ 1 <= Rank(G, k) /\ Rank(G, k) <= Cardinality(G)
      /\ \A j, k \in G : j < k => Rank(G, j) < Rank(G, k)
  BY <1>6, <1>8, Ranks
<1>10. /\ DOMAIN calls' = DOMAIN calls
       /\ \A k \in DOMAIN calls :
            /\ calls'[k].null = calls[k].null /\ calls'[k].status = calls[k].status
            /\ calls'[k].seq = IF k \in G THEN L + Rank(G, k) ELSE calls[k].seq
  <2>1. DOMAIN calls' = DOMAIN calls
    BY <1>1
  <2>2. ASSUME NEW k \in DOMAIN calls
        PROVE  /\ calls'[k].null = calls[k].null /\ calls'[k].status = calls[k].status
               /\ calls'[k].seq = IF k \in G THEN L + Rank(G, k) ELSE calls[k].seq
    <3>1. DOMAIN calls[k] = CallFields
      BY DEF Inv, CallsOK
    <3>2. calls'[k] = IF k \in G THEN [calls[k] EXCEPT !.seq = L + Rank(G, k)] ELSE calls[k]
      BY <1>1
    <3> DEFINE c == calls[k]
               v == L + Rank(G, k)
    <3> HIDE DEF c, v
    <3>3. LET d == [c EXCEPT !.seq = v] IN d.null = c.null /\ d.status = c.status /\ d.seq = v
      BY <3>1 DEF c, CallFields
    <3> QED
      BY <3>2, <3>3 DEF c, v
  <2> QED
    BY <2>1, <2>2
\* What is there is older than the whole queue.
<1>11. ASSUME NEW k, Holds(files, mems, k)
       PROVE  /\ k \in DOMAIN calls /\ k \in Nat /\ calls[k].seq <= L /\ k \notin G
              /\ \A i \in 1..Len(writers) : k < writers[i]
  <2>1. k \in DOMAIN calls
    BY <1>11, HoldsCall
  <2>2. calls[k].seq <= L /\ \A i \in 1..Len(writers) : k < writers[i]
    BY <1>2, <1>3, <1>11, <2>1 DEF SerialInv, Counted, L
  <2>3. k \in Nat
    BY <1>6, <2>1
  <2> QED
    BY <1>7, <2>1, <2>2, <2>3
<1>12. RecordsSeq' /\ OpenOK' /\ JobContents' /\ ContentsOK' /\ PinnedOK' /\ SnapshotOK'
  BY <1>1, <1>2, <1>3, <1>5, <1>10, <1>11, QueueKeepsStore
<1>13. QueueOrder'
  BY <1>1, <1>10 DEF SerialInv, QueueOrder, AckInv, EntriesOK
<1>14. GroupOK'
  <2>1. ASSUME NEW i \in 1..Len(writers), NEW j \in 1..Len(writers), writers[i] <= writers[j]
        PROVE  i <= j
    <3>1. j < i => writers[j] < writers[i]
      BY DEF SerialInv, QueueOrder
    <3> QED
      BY <1>6, <2>1, <3>1
  <2>2. ASSUME NEW k \in G
        PROVE  ~calls'[k].null /\ k <= last /\ \E i \in 1..Len(writers') : writers'[i] = k
    <3>1. PICK i \in 1..m : k = writers[i]
      BY <1>4, <2>2
    <3>2. i \in 1..Len(writers) /\ (i = m \/ i < m)
      BY <1>6, <3>1
    <3>3. writers[i] <= writers[m]
      <4>1. i < m => writers[i] < writers[m]
        BY <3>2 DEF SerialInv, QueueOrder
      <4> QED
        BY <1>6, <3>2, <4>1
    <3> QED
      BY <1>1, <1>4, <1>7, <1>10, <3>1, <3>2, <3>3
  <2>3. ASSUME NEW i \in 1..Len(writers), ~calls'[writers[i]].null, writers[i] <= last
        PROVE  writers[i] \in G
    <3>1. i <= m
      BY <1>4, <2>1, <2>3
    <3>2. i \in 1..m
      BY <1>6, <3>1
    <3>3. ~calls[writers[i]].null
      BY <1>10, <2>3 DEF AckInv, EntriesOK
    <3> QED
      BY <1>4, <3>2, <3>3
  <2> QED
    BY <1>1, <1>5, <2>2, <2>3 DEF GroupOK, Running
<1>15. GroupPlaced'
  <2>1. ASSUME NEW k \in G
        PROVE  ~InTables(files, DOMAIN files.tables, k) /\ \A n \in DOMAIN mems : k \notin mems[n]
    BY <1>11, <2>1 DEF Holds
  <2> QED
    BY <1>1, <1>5, <2>1 DEF GroupPlaced, InMem, InTables
<1>16. NumberedOK'
  <2>1. PICK B \in Nat : \A k \in DOMAIN calls : calls[k].seq <= B
    BY DEF SerialInv, NumberedOK
  <2>2. ASSUME NEW k \in DOMAIN calls PROVE calls'[k].seq \in Nat /\ calls'[k].seq <= B + L + Cardinality(G)
    <3>1. calls[k].seq \in Nat /\ calls[k].seq <= B
      BY <2>1 DEF SerialInv, NumberedOK
    <3> QED
      <4>1. B \in Nat /\ L \in Nat /\ Cardinality(G) \in Nat
        BY <1>6, <1>9
      <4>2. CASE k \in G
        <5>1. calls'[k].seq = L + Rank(G, k) /\ Rank(G, k) \in Nat /\ Rank(G, k) <= Cardinality(G)
          BY <1>9, <1>10, <4>2
        <5> QED
          BY <4>1, <5>1
      <4>3. CASE k \notin G
        <5>1. calls'[k].seq = calls[k].seq
          BY <1>10, <4>3
        <5> QED
          BY <3>1, <4>1, <5>1
      <4> QED
        BY <4>2, <4>3
  <2>3. B + L + Cardinality(G) \in Nat
    BY <1>6, <1>9
  <2>4. db'.last_sequence \in Nat
    BY <1>1, <1>6 DEF L
  <2> QED
    BY <1>10, <2>2, <2>3, <2>4 DEF NumberedOK
<1>17. ASSUME NEW k PROVE Holds(files', mems', k) <=> Holds(files, mems, k)
  BY <1>1 DEF Holds
<1>18. Monotone'
  <2>1. ASSUME NEW j, NEW k, Holds(files, mems, j) \/ j \in G, Holds(files, mems, k) \/ k \in G, j < k
        PROVE  calls'[j].seq < calls'[k].seq
    <3>1. j \in DOMAIN calls /\ k \in DOMAIN calls /\ calls[j].seq \in Nat /\ calls[k].seq \in Nat
          /\ j \in Nat /\ k \in Nat
      BY <1>6, <1>7, <1>11, <2>1 DEF SerialInv, NumberedOK
    <3>2. CASE j \in G /\ k \in G
      BY <1>6, <1>9, <1>10, <2>1, <3>1, <3>2
    <3>3. CASE j \notin G /\ k \notin G
      BY <1>10, <2>1, <3>1, <3>3 DEF SerialInv, Monotone, Live
    <3>4. CASE j \notin G /\ k \in G
      <4>1. calls'[j].seq <= L
        BY <1>10, <1>11, <2>1, <3>1, <3>4
      <4>2. L < calls'[k].seq
        BY <1>6, <1>9, <1>10, <3>1, <3>4
      <4> QED
        BY <1>6, <1>9, <1>10, <3>1, <3>4, <4>1, <4>2
    <3>5. CASE j \in G /\ k \notin G
      <4>1. k < j
        BY <1>7, <1>11, <2>1, <3>5
      <4> QED
        BY <2>1, <3>1, <4>1
    <3> QED
      BY <3>2, <3>3, <3>4, <3>5
  <2> QED
    BY <1>5, <1>10, <1>17, <2>1 DEF Monotone, Live, Holds, InTables, InLogs
<1>19. Counted'
  <2>1. ASSUME NEW k \in DOMAIN calls, Holds(files, mems, k)
        PROVE  calls'[k].seq <= L /\ \A i \in 1..Len(writers) : k < writers[i]
    BY <1>10, <1>11, <2>1
  <2>2. ASSUME NEW k \in G PROVE L < calls'[k].seq /\ calls'[k].seq <= L + Cardinality(G)
    BY <1>6, <1>7, <1>9, <1>10, <2>2
  <2>3. db'.last_sequence = L
    BY <1>1 DEF L
  <2> QED
    BY <1>1, <1>5, <1>10, <1>17, <2>1, <2>2, <2>3 DEF Counted, Holds, InTables, InLogs
<1> QED
  BY <1>12, <1>13, <1>14, <1>15, <1>16, <1>18, <1>19 DEF SerialInv

\* A writer's step keeps what is not its own, if the tables stay.
LEMMA WriterRest ==
  ASSUME Inv, Inv', AckInv, SerialInv, Open, Open', calls' = calls, bg' = bg,
         files'.tables = files.tables, files'.manifests = files.manifests,
         files'.current = files.current, db'.l0 = db.l0, db'.deep = db.deep,
         db.imm # 0 => db'.imm = db.imm /\ mems'[db.imm] = mems[db.imm]
  PROVE  RecordsSeq' /\ OpenOK' /\ JobContents'
<1>1. opening'.pc = "none"
  BY DEF Inv, ControlOK, Open
<1>2. OpenOK'
  BY <1>1 DEF OpenOK
<1>3. RecordsSeq'
  <2>1. TablesKept(InUse)
    BY DEF TablesKept
  <2>2. bg'.pc = "logging" => Bounded(files', calls', Tables(bg'.edit), bg'.edit.last_sequence)
    BY DEF SerialInv, RecordsSeq, Bounded
  <2> QED
    BY <2>1, <2>2, RecordsKept
<1>4. JobContents'
  <2>1. bg.pc = "logging" /\ bg.job \in {"mem", "both"} => db.imm # 0
    BY DEF AckInv, JobOK
  <2> QED
    BY <2>1 DEF SerialInv, JobContents, InTables, Tables
<1> QED
  BY <1>2, <1>3, <1>4

\* A new memtable and its log.
LEMMA SwitchSerial ==
  ASSUME Inv, Inv', AckInv, SerialInv, RoomSwitch
  PROVE  SerialInv'
<1>1. /\ leader.pc = "room" /\ db.imm = 0 /\ UNCHANGED <<calls, writers, bg, iter, must, unsure>>
  BY DEF RoomSwitch, NoRoom, Room, MustWait, RoomUnchanged
<1>2. Open /\ DOMAIN db = DBFields /\ DOMAIN leader = LeaderFields /\ DOMAIN files = FileFields
      /\ db.next \in Nat /\ db.mem \in Nat /\ db.mem < db.next
  BY <1>1 DEF Inv, QueueOK, RecordsOK, NumbersOK, Open
<1>3. leader.group = {} /\ leader.left = {} /\ leader.status = "ok"
  BY <1>1 DEF AckInv, LeaderOK
<1>4. QueueOrder'
  BY <1>1 DEF SerialInv, QueueOrder
<1>5. ASSUME leader'.group = {}, leader'.left = {}, db'.last_sequence = db.last_sequence,
             \/ leader'.pc = "room"
             \/ leader'.pc = "finish" /\ leader'.status = "error",
             \A k : Holds(files', mems', k) => Holds(files, mems, k)
      PROVE  GroupOK' /\ GroupPlaced' /\ NumberedOK' /\ Monotone' /\ Counted'
  <2>1. GroupOK' /\ GroupPlaced'
    BY <1>5 DEF GroupOK, GroupPlaced, Running
  <2>2. NumberedOK'
    BY <1>1, <1>5 DEF SerialInv, NumberedOK
  <2>3. Monotone'
    BY <1>1, <1>3, <1>5 DEF SerialInv, Monotone, Live, Holds, InTables, InLogs
  <2>4. Counted'
    BY <1>1, <1>2, <1>3, <1>5 DEF SerialInv, Counted, Holds, InTables, InLogs
  <2> QED
    BY <2>1, <2>2, <2>3, <2>4
<1>6. CASE /\ leader' = [leader EXCEPT !.pc = "finish", !.status = "error", !.last = leader.call]
           /\ UNCHANGED <<files, mems, db>>
  <2>1. leader'.pc = "finish" /\ leader'.group = {} /\ leader'.left = {} /\ leader'.status = "error"
    BY <1>2, <1>3, <1>6 DEF LeaderFields
  <2>2. RecordsSeq' /\ OpenOK' /\ JobContents' /\ ContentsOK' /\ PinnedOK' /\ SnapshotOK'
    BY <1>1, <1>2, <1>3, <1>6, <2>1, QueueKeepsStore
  <2>3. \A k : Holds(files', mems', k) => Holds(files, mems, k)
    BY <1>6
  <2>4. GroupOK' /\ GroupPlaced' /\ NumberedOK' /\ Monotone' /\ Counted'
    BY <1>5, <1>6, <2>1, <2>3
  <2> QED
    BY <1>4, <2>2, <2>4 DEF SerialInv
<1>7. CASE /\ files' = [files EXCEPT !.logs = With(@, db.next, NewLog)]
           /\ mems' = With(mems, db.next, {})
           /\ db' = MaybeScheduleCompaction([db EXCEPT !.next = NewFileNumber(@), !.mem = db.next, !.imm = db.mem])
           /\ leader' = [leader EXCEPT !.force = FALSE]
  <2> DEFINE d == [db EXCEPT !.next = NewFileNumber(@), !.mem = db.next, !.imm = db.mem]
             new == db.next
             old == db.mem
  <2>1. /\ DOMAIN d = DBFields /\ d.next = db.next + 1 /\ d.mem = db.next /\ d.imm = db.mem
        /\ d.l0 = db.l0 /\ d.deep = db.deep /\ d.state = db.state
        /\ d.last_sequence = db.last_sequence
    BY <1>2 DEF DBFields, NewFileNumber
  <2>2. db' = MaybeScheduleCompaction(d)
    BY <1>7
  <2> HIDE DEF d
  <2>3. Same(d, db') /\ db'.next = d.next /\ db'.last_sequence = d.last_sequence
    BY <2>1, <2>2, ScheduleSame
  <2>4. /\ db'.next = new + 1 /\ db'.mem = new /\ db'.imm = old
        /\ db'.l0 = db.l0 /\ db'.deep = db.deep
        /\ db'.state = db.state /\ db'.last_sequence = db.last_sequence
    BY <2>1, <2>3 DEF Same
  <2>5. Open'
    BY <1>2, <2>4 DEF Open
  <2>6. /\ files'.current = files.current /\ files'.manifests = files.manifests
        /\ files'.tables = files.tables
        /\ files'.logs = With(files.logs, new, NewLog)
    BY <1>2, <1>7 DEF FileFields
  <2>7. /\ leader'.pc = "room" /\ leader'.group = {} /\ leader'.left = {}
    BY <1>1, <1>2, <1>3, <1>7 DEF LeaderFields
  <2>8. /\ old \in DOMAIN mems /\ old # new /\ new # 0 /\ new \in Nat /\ 0 \notin DOMAIN mems
        /\ \A n \in DOMAIN mems : n \in Nat /\ n < new
    BY <1>2 DEF AckInv, OrderOK, SerialInv, PinnedOK
  <2> HIDE DEF old, new
  <2>9. new \notin DOMAIN mems
    BY <2>8
  <2>10. DOMAIN mems' = DOMAIN mems \cup {new} /\ mems'[new] = {}
         /\ \A n \in DOMAIN mems : mems'[n] = mems[n]
    BY <1>7, <2>9 DEF With, new
  <2>11. ASSUME NEW k, NEW n, n # new PROVE InMem(mems', n, k) <=> InMem(mems, n, k)
    BY <2>10, <2>11 DEF InMem
  <2>12. ASSUME NEW k PROVE ~InMem(mems', new, k) /\ ~InMem(mems, 0, k)
    BY <2>8, <2>10 DEF InMem
  <2>13. ASSUME NEW k, Holds(files', mems', k) PROVE Holds(files, mems, k)
    <3>1. CASE \E n \in DOMAIN mems' : k \in mems'[n]
      BY <2>10, <3>1 DEF Holds
    <3>2. CASE InTables(files', DOMAIN files'.tables, k)
      BY <2>6, <3>2 DEF Holds, InTables
    <3>3. CASE InLogs(files', k)
      <4>1. PICK n \in DOMAIN files'.logs : \E i \in 1..Len(files'.logs[n].recs) : k \in files'.logs[n].recs[i]
        BY <3>3 DEF InLogs
      <4>2. files'.logs[n] # NewLog
        <5>1. Len(NewLog.recs) = 0
          BY DEF NewLog
        <5> QED
          BY <4>1, <5>1
      <4>3. n \in DOMAIN files.logs /\ files'.logs[n] = files.logs[n]
        BY <2>6, <4>1, <4>2 DEF With
      <4> QED
        BY <4>1, <4>3 DEF Holds, InLogs
    <3> QED
      BY <2>13, <3>1, <3>2, <3>3 DEF Holds
  <2>14. GroupOK' /\ GroupPlaced' /\ NumberedOK' /\ Monotone' /\ Counted'
    BY <1>5, <2>4, <2>7, <2>13
  <2>15. RecordsSeq' /\ OpenOK' /\ JobContents'
    BY <1>1, <1>2, <2>4, <2>5, <2>6, WriterRest
  <2>16. ContentsOK'
    <3> DEFINE T == Tables(db)
    <3> HIDE DEF T
    <3>1. \A k : k \in must <=> Has(files, mems, old, 0, T, k)
      BY <1>1, <1>2, <1>3 DEF SerialInv, ContentsOK, old, T
    <3>2. ASSUME NEW k PROVE Has(files', mems', new, old, T, k) <=> Has(files, mems, old, 0, T, k)
      BY <2>6, <2>8, <2>11, <2>12 DEF Has, InTables
    <3>3. \A k : k \in must' <=> Has(files', mems', new, old, T, k) /\ k \notin leader'.group
      BY <1>1, <2>7, <3>1, <3>2
    <3>4. Tables(db)' = T
      BY <2>4 DEF Tables, T
    <3> QED
      BY <2>4, <3>3, <3>4 DEF ContentsOK, Has, InMem, InTables
  <2>17. PinnedOK' /\ SnapshotOK'
    <3>1. \A n \in DOMAIN mems' : n \in Nat /\ n < db'.next
      BY <2>4, <2>8, <2>10
    <3>2. CASE ~iter.on
      BY <1>1, <3>1, <3>2 DEF PinnedOK, SnapshotOK
    <3>3. CASE iter.on
      <4> DEFINE mem == iter.mem
                 imm == iter.imm
                 T == iter.tables
      <4>1. /\ mem \in DOMAIN mems /\ (imm # 0 => imm \in DOMAIN mems)
            /\ iter.snapshot \in Nat /\ iter.snapshot <= db.last_sequence
            /\ \A n \in T : /\ n \in Nat /\ n < new
                            /\ bg.pc = "building" => n # bg.table
                            /\ bg.out # 0 => n # bg.out
        BY <3>3 DEF SerialInv, PinnedOK, new
      <4>2. \A n \in T : n \in Nat /\ n < db'.next
        BY <2>4, <2>8, <4>1
      <4>3. PinnedOK'
        BY <1>1, <2>4, <2>10, <3>1, <4>1, <4>2 DEF PinnedOK
      <4>4. mem # new /\ imm # new
        BY <2>8, <2>9, <4>1
      <4>5. \A k : k \in iter.expected <=> Has(files, mems, mem, imm, T, k) /\ calls[k].seq <= iter.snapshot
        BY <3>3 DEF SerialInv, SnapshotOK
      <4> HIDE DEF mem, imm, T
      <4>6. ASSUME NEW k PROVE Has(files', mems', mem, imm, T, k) <=> Has(files, mems, mem, imm, T, k)
        BY <2>6, <2>11, <4>4 DEF Has, InTables
      <4>7. \A k : k \in iter.expected <=> Has(files', mems', mem, imm, T, k) /\ calls'[k].seq <= iter.snapshot
        BY <1>1, <4>5, <4>6
      <4>8. SnapshotOK'
        BY <1>1, <4>7 DEF SnapshotOK, Has, InMem, InTables, mem, imm, T
      <4> QED
        BY <4>3, <4>8
    <3> QED
      BY <3>2, <3>3
  <2> QED
    BY <1>4, <2>14, <2>15, <2>16, <2>17 DEF SerialInv
<1> QED
  BY <1>6, <1>7 DEF RoomSwitch

\* AddRecord and Sync.
LEMMA AppendSerial ==
  ASSUME Inv, Inv', AckInv, SerialInv, AppendToLog
  PROVE  SerialInv'
<1> DEFINE l == files.logs[db.mem]
           g == leader.group
           longer == [l EXCEPT !.recs = Append(@, g)]
           synced == [longer EXCEPT !.synced = Len(longer.recs)]
           Bad(m) == [m EXCEPT !.bad = IF @ = 0 THEN Len(l.recs) + 1 ELSE @]
           sync == calls[leader.call].sync
           SetLog(m) == files' = [files EXCEPT !.logs[db.mem] = m]
           Next_(pc, status) == leader' = [leader EXCEPT !.pc = pc, !.status = status]
<1>1. /\ leader.pc = "append"
      /\ \/ Next_("insert", "ok") /\ SetLog(IF sync THEN synced ELSE longer)
         \/ Next_("finish", "error") /\ (SetLog(Bad(l)) \/ SetLog(Bad(longer)))
         \/ Next_("finish", "sync_error") /\ SetLog(longer)
      /\ UNCHANGED <<calls, writers, db, mems, bg, iter, must>>
  <2>1. leader.pc = "append" /\ UNCHANGED <<calls, writers, db, mems, bg, iter, must>>
    BY DEF AppendToLog
  <2>2. \/ Next_("insert", "ok") /\ SetLog(IF sync THEN synced ELSE longer)
        \/ Next_("finish", "error") /\ \E x \in {l, longer} : SetLog(Bad(x))
        \/ Next_("finish", "sync_error") /\ SetLog(longer)
    BY Zenon DEF AppendToLog, AfterSyncError
  <2> HIDE DEF SetLog, Next_, Bad, longer, l, synced
  <2> QED
    BY <2>1, <2>2
<1>2. /\ Open /\ Open' /\ DOMAIN leader = LeaderFields /\ DOMAIN files = FileFields
      /\ db.mem \in DOMAIN files.logs /\ LogOK(l, DOMAIN calls) /\ leader.left = g /\ leader.status = "ok"
  <2>1. Open /\ DOMAIN leader = LeaderFields /\ DOMAIN files = FileFields
    BY <1>1 DEF Inv, RecordsOK, QueueOK
  <2>2. leader.status = "ok"
    BY <1>1 DEF SerialInv, GroupOK
  <2>3. db.mem \in DOMAIN files.logs /\ leader.left = g
    BY <1>1, <2>1 DEF AckInv, OrderOK, LeaderOK
  <2>4. LogOK(l, DOMAIN calls)
    BY <2>3 DEF AckInv, LogsOK
  <2>5. Open'
    BY <1>1, <2>1 DEF Open
  <2> QED
    BY <2>1, <2>2, <2>3, <2>4, <2>5
<1>3. /\ longer.recs = Append(l.recs, g) /\ synced.recs = Append(l.recs, g)
      /\ Bad(l).recs = l.recs /\ Bad(longer).recs = Append(l.recs, g)
  <2>1. DOMAIN l = {"recs", "synced", "bad"}
    BY <1>2 DEF LogOK
  <2>2. DOMAIN longer = {"recs", "synced", "bad"} /\ longer.recs = Append(l.recs, g)
    BY <2>1
  <2> HIDE DEF longer, l
  <2> QED
    BY <2>1, <2>2
<1> HIDE DEF l, longer, synced, Bad, sync, g
<1>4. PICK m : /\ SetLog(m) /\ m.recs \in {l.recs, Append(l.recs, g)}
               /\ Next_("insert", "ok") \/ Next_("finish", "error") \/ Next_("finish", "sync_error")
  <2> HIDE DEF SetLog, Next_
  <2> QED
    BY <1>1, <1>3
<1>5. /\ files'.current = files.current /\ files'.manifests = files.manifests
      /\ files'.tables = files.tables /\ DOMAIN files'.logs = DOMAIN files.logs
      /\ files'.logs[db.mem] = m /\ \A n \in DOMAIN files.logs : n # db.mem => files'.logs[n] = files.logs[n]
  BY <1>2, <1>4 DEF FileFields
<1>6. /\ leader'.group = g /\ leader'.left = g /\ leader'.last = leader.last
      /\ \/ leader'.pc = "insert" /\ leader'.status = "ok"
         \/ leader'.pc = "finish" /\ leader'.status # "ok"
  BY <1>2, <1>4 DEF LeaderFields, g
<1> HIDE DEF SetLog, Next_
\* The new record is of the group.
<1>7. ASSUME NEW k, Holds(files', mems', k) PROVE Holds(files, mems, k) \/ k \in g
  <2>1. CASE \E n \in DOMAIN mems' : k \in mems'[n]
    BY <1>1, <2>1 DEF Holds
  <2>2. CASE InTables(files', DOMAIN files'.tables, k)
    BY <1>5, <2>2 DEF Holds, InTables
  <2>3. CASE InLogs(files', k)
    <3>1. PICK n \in DOMAIN files'.logs : \E i \in 1..Len(files'.logs[n].recs) : k \in files'.logs[n].recs[i]
      BY <2>3 DEF InLogs
    <3>2. CASE n # db.mem \/ m.recs = l.recs
      <4>1. n \in DOMAIN files.logs /\ files'.logs[n].recs = files.logs[n].recs
        BY <1>5, <3>1, <3>2 DEF l
      <4> QED
        BY <3>1, <4>1 DEF Holds, InLogs
    <3>3. CASE n = db.mem /\ m.recs = Append(l.recs, g)
      <4> DEFINE recs == Append(l.recs, g)
      <4>1. IsSeq(l.recs)
        BY <1>2 DEF LogOK
      <4>2. /\ Len(l.recs) \in Nat /\ Len(recs) = Len(l.recs) + 1
            /\ recs[Len(l.recs) + 1] = g /\ \A i \in 1..Len(l.recs) : recs[i] = l.recs[i]
        BY <4>1, AppendIs
      <4> HIDE DEF recs
      <4>3. PICK i \in 1..Len(recs) : k \in recs[i]
        BY <1>5, <3>1, <3>3 DEF recs
      <4>4. i \in 1..Len(l.recs) \/ i = Len(l.recs) + 1
        BY <4>2, <4>3
      <4>5. CASE i \in 1..Len(l.recs)
        BY <1>2, <4>2, <4>3, <4>5 DEF Holds, InLogs, l
      <4> QED
        BY <4>2, <4>3, <4>4, <4>5
    <3> QED
      BY <1>4, <3>2, <3>3
  <2> QED
    BY <1>7, <2>1, <2>2, <2>3 DEF Holds
<1>8. QueueOrder' /\ NumberedOK'
  BY <1>1 DEF SerialInv, QueueOrder, NumberedOK
<1>9. GroupOK'
  BY <1>1, <1>2, <1>6 DEF SerialInv, GroupOK, Running, g
<1>10. GroupPlaced'
  BY <1>1, <1>2, <1>5, <1>6 DEF SerialInv, GroupPlaced, Running, g, InMem, InTables
<1>11. Monotone'
  BY <1>1, <1>6, <1>7 DEF SerialInv, Monotone, Live, g, Holds, InTables, InLogs
<1>12. Counted'
  BY <1>1, <1>2, <1>6, <1>7 DEF SerialInv, Counted, g, Holds, InTables, InLogs
<1>13. RecordsSeq' /\ OpenOK' /\ JobContents'
  BY <1>1, <1>2, <1>5, WriterRest
<1>14. ContentsOK'
  BY <1>1, <1>2, <1>5, <1>6 DEF SerialInv, ContentsOK, g, Has, InMem, InTables, Tables
<1>15. PinnedOK' /\ SnapshotOK'
  BY <1>1, <1>2, <1>5 DEF SerialInv, PinnedOK, SnapshotOK, Has, InMem, InTables
<1> QED
  BY <1>8, <1>9, <1>10, <1>11, <1>12, <1>13, <1>14, <1>15 DEF SerialInv

\* InsertInto puts an entry of the group into the memtable.
LEMMA InsertSerial ==
  ASSUME Inv, Inv', AckInv, SerialInv, InsertInto
  PROVE  SerialInv'
<1> DEFINE k == Min(leader.left)
<1>1. /\ leader.pc = "insert"
      /\ mems' = [mems EXCEPT ![db.mem] = @ \cup {k}]
      /\ leader' = [leader EXCEPT !.left = @ \ {k}, !.pc = IF leader.left = {k} THEN "finish" ELSE "insert"]
      /\ UNCHANGED <<files, calls, writers, db, bg, iter, must>>
  BY DEF InsertInto
<1>2. /\ Open /\ Open' /\ DOMAIN leader = LeaderFields /\ DOMAIN calls \subseteq Nat
  BY <1>1, QueueFacts DEF Inv, RecordsOK, QueueOK, Open
<1>3. /\ leader.left \subseteq leader.group /\ leader.group \subseteq DOMAIN calls /\ leader.left # {}
      /\ db.mem \in DOMAIN mems /\ (db.imm # 0 => db.imm \in DOMAIN mems /\ db.imm # db.mem)
      /\ leader.status = "ok"
  BY <1>1, <1>2 DEF AckInv, OrderOK, EntriesOK, LeaderOK, SerialInv, GroupOK
<1>4. k \in leader.left
  BY <1>2, <1>3, MinIs
<1> HIDE DEF k
<1>5. /\ DOMAIN mems' = DOMAIN mems /\ mems'[db.mem] = mems[db.mem] \cup {k}
      /\ \A n \in DOMAIN mems : n # db.mem => mems'[n] = mems[n]
  BY <1>1, <1>3
<1>6. /\ leader'.left = leader.left \ {k} /\ leader'.group = leader.group
      /\ leader'.pc \in {"insert", "finish"} /\ leader'.last = leader.last /\ leader'.status = "ok"
  BY <1>1, <1>2, <1>3 DEF LeaderFields
<1>7. ASSUME NEW j, j # k, NEW n PROVE InMem(mems', n, j) <=> InMem(mems, n, j)
  BY <1>5, <1>7 DEF InMem
<1>8. ASSUME NEW j, Holds(files', mems', j) PROVE Holds(files, mems, j) \/ j \in leader.group
  <2>1. CASE \E n \in DOMAIN mems' : j \in mems'[n]
    BY <1>3, <1>4, <1>7, <2>1 DEF Holds, InMem
  <2> QED
    BY <1>1, <1>8, <2>1 DEF Holds, InTables, InLogs
<1>9. QueueOrder' /\ NumberedOK'
  BY <1>1 DEF SerialInv, QueueOrder, NumberedOK
<1>10. GroupOK'
  BY <1>1, <1>3, <1>6 DEF SerialInv, GroupOK, Running
<1>11. GroupPlaced'
  <2>1. ASSUME NEW j \in leader'.left PROVE ~InMem(mems', db.mem, j)
    <3>1. j # k /\ j \in leader.left
      BY <1>6, <2>1
    <3> QED
      BY <1>1, <1>7, <3>1 DEF SerialInv, GroupPlaced, Running
  <2>2. ASSUME NEW j \in leader.group
        PROVE  /\ ~InTables(files, DOMAIN files.tables, j)
               /\ \A n \in DOMAIN mems' : n # db.mem => j \notin mems'[n]
    BY <1>5, <2>2 DEF SerialInv, GroupPlaced
  <2> QED
    BY <1>1, <1>6, <2>1, <2>2 DEF GroupPlaced, InMem, InTables
<1>12. Monotone'
  BY <1>1, <1>6, <1>8 DEF SerialInv, Monotone, Live, Holds, InTables, InLogs
<1>13. Counted'
  BY <1>1, <1>2, <1>6, <1>8 DEF SerialInv, Counted, Holds, InTables, InLogs
<1>14. RecordsSeq' /\ OpenOK' /\ JobContents'
  BY <1>1, <1>2, <1>3, <1>5, WriterRest
<1>15. ContentsOK'
  <2> DEFINE mem == db.mem
             imm == db.imm
             T == Tables(db)
  <2>1. \A j : j \in must <=> Has(files, mems, mem, imm, T, j) /\ j \notin leader.group
    BY <1>2 DEF SerialInv, ContentsOK
  <2> HIDE DEF mem, imm, T
  <2>2. ASSUME NEW j, j # k PROVE Has(files', mems', mem, imm, T, j) <=> Has(files, mems, mem, imm, T, j)
    BY <1>1, <1>7, <2>2 DEF Has, InTables
  <2>3. \A j : j \in must' <=> Has(files', mems', mem, imm, T, j) /\ j \notin leader'.group
    BY <1>1, <1>3, <1>4, <1>6, <2>1, <2>2
  <2>4. db'.mem = mem /\ db'.imm = imm /\ Tables(db)' = T
    BY <1>1 DEF mem, imm, T, Tables
  <2> QED
    BY <2>3, <2>4 DEF ContentsOK, Has, InMem, InTables
<1>16. PinnedOK'
  BY <1>1, <1>2, <1>5 DEF SerialInv, PinnedOK
\* A reader does not see what is above its snapshot.
<1>17. SnapshotOK'
  <2> SUFFICES ASSUME iter.on PROVE SnapshotOK'
    BY <1>1 DEF SnapshotOK
  <2> DEFINE mem == iter.mem
             imm == iter.imm
             T == iter.tables
             s == iter.snapshot
  <2>1. \A j : j \in iter.expected <=> Has(files, mems, mem, imm, T, j) /\ calls[j].seq <= s
    BY DEF SerialInv, SnapshotOK
  <2>2. ~(calls[k].seq <= s)
    <3>1. k \in DOMAIN calls /\ db.last_sequence < calls[k].seq
      BY <1>2, <1>3, <1>4 DEF SerialInv, Counted
    <3>2. db.last_sequence \in Nat /\ calls[k].seq \in Nat /\ s \in Nat /\ s <= db.last_sequence
      BY <3>1 DEF SerialInv, NumberedOK, PinnedOK
    <3> QED
      BY <3>1, <3>2
  <2> HIDE DEF mem, imm, T, s
  <2>3. ASSUME NEW j, j # k PROVE Has(files', mems', mem, imm, T, j) <=> Has(files, mems, mem, imm, T, j)
    BY <1>1, <1>7, <2>3 DEF Has, InTables
  <2>4. \A j : j \in iter.expected <=> Has(files', mems', mem, imm, T, j) /\ calls'[j].seq <= s
    BY <1>1, <2>1, <2>2, <2>3
  <2> QED
    BY <1>1, <2>4 DEF SnapshotOK, Has, InMem, InTables, mem, imm, T, s
<1> QED
  BY <1>9, <1>10, <1>11, <1>12, <1>13, <1>14, <1>15, <1>16, <1>17 DEF SerialInv

\* The group is answered: readers to come see it, or none of it.
LEMMA FinishSerial ==
  ASSUME Inv, Inv', AckInv, SerialInv, FinishWrite
  PROVE  SerialInv'
<1> DEFINE n == CHOOSE i \in DOMAIN writers : writers[i] = leader.last
           done == {writers[i] : i \in 1..n}
           rest == SubSeq(writers, n + 1, Len(writers))
           answer == IF leader.status = "ok" THEN "ok" ELSE "error"
           G == leader.group
           L == db.last_sequence
           d == [db EXCEPT !.last_sequence = AdvanceSequence(Cardinality(leader.group))]
<1>1. /\ leader.pc = "finish"
      /\ db' = IF leader.status = "sync_error" THEN RecordBackgroundError(d) ELSE d
      /\ calls' = [k \in DOMAIN calls |-> IF k \in done THEN [calls[k] EXCEPT !.status = answer]
                                                        ELSE calls[k]]
      /\ writers' = rest
      /\ leader' = IF rest = <<>> THEN NoLeader ELSE Lead(rest[1], calls[rest[1]].null)
      /\ must' = IF answer = "ok" THEN must \cup G ELSE must
      /\ UNCHANGED <<files, mems, bg, iter>>
  BY DEF FinishWrite
<1>2. /\ Len(calls) \in Nat /\ DOMAIN calls = 1..Len(calls)
      /\ writers \in Seq(Nat) /\ Len(writers) \in Nat /\ DOMAIN writers = 1..Len(writers)
      /\ \A i \in 1..Len(writers) : writers[i] \in Nat /\ writers[i] \in DOMAIN calls
      /\ L \in Nat /\ G \subseteq DOMAIN calls
  BY QueueFacts DEF SerialInv, NumberedOK, AckInv, EntriesOK
<1>3. n \in 1..Len(writers) /\ writers[n] = leader.last
  BY <1>1, <1>2 DEF Inv, QueueOK
<1>4. done \subseteq DOMAIN calls /\ answer \in {"ok", "error"} /\ (answer = "ok" <=> leader.status = "ok")
  <2> HIDE DEF n
  <2> QED
    BY <1>2, <1>3
<1> HIDE DEF n
<1>5. /\ Len(rest) \in Nat /\ \A i \in 1..Len(rest) : n + i \in 1..Len(writers) /\ rest[i] = writers[n + i]
      /\ \A j \in 1..Len(writers) : n < j => j - n \in 1..Len(rest) /\ rest[j - n] = writers[j]
  <2>1. \A j \in (n + 1)..Len(writers) : writers[j] \in Nat
    BY <1>2, <1>3, ElementOfSeq
  <2>2. /\ Len(rest) = IF n + 1 <= Len(writers) THEN Len(writers) - (n + 1) + 1 ELSE 0
        /\ \A j \in 1..(Len(writers) - (n + 1) + 1) : rest[j] = writers[(n + 1) + j - 1]
    BY <1>2, <1>3, <2>1, SubSeqProperties
  <2> DEFINE len == Len(writers)
             r == Len(rest)
  <2>3. len \in Nat /\ n \in Nat /\ 1 <= n /\ n <= len
    BY <1>2, <1>3
  <2>4. r = IF n + 1 <= len THEN len - (n + 1) + 1 ELSE 0
    BY <2>2
  <2> HIDE DEF rest, len, r
  <2>5. r \in Nat /\ r = len - n
    BY <2>3, <2>4
  <2>6. \A j \in 1..r : j \in 1..(len - (n + 1) + 1) /\ (n + 1) + j - 1 = n + j /\ n + j \in 1..len
    BY <2>3, <2>5
  <2>7. \A j \in 1..r : rest[j] = writers[n + j]
    BY <2>2, <2>6 DEF len
  <2>8. \A j \in 1..len : n < j => j - n \in 1..r /\ n + (j - n) = j
    BY <2>3, <2>5
  <2>9. \A j \in 1..len : n < j => rest[j - n] = writers[j]
    BY <2>7, <2>8
  <2> QED
    BY <2>5, <2>6, <2>7, <2>8, <2>9 DEF len, r
<1>6. /\ leader'.group = {} /\ leader'.left = {} /\ leader'.pc \in {"none", "room"}
  BY <1>1 DEF NoLeader, Lead
<1>7. \A k : k \in done <=> \E i \in 1..n : k = writers[i]
  OBVIOUS
<1> HIDE DEF rest, done, answer
<1>8. Open /\ DOMAIN db = DBFields
  BY <1>1 DEF Inv, QueueOK, RecordsOK
<1>9. Cardinality(G) \in Nat
  BY <1>2, Ranks
<1>10. /\ Same(db, db') /\ db'.next = db.next /\ db'.last_sequence = L + Cardinality(G)
  <2>1. Same(db, d) /\ d.next = db.next /\ DOMAIN d = DBFields /\ d.last_sequence = L + Cardinality(G)
    BY <1>8 DEF Same, DBFields, AdvanceSequence
  <2> HIDE DEF d
  <2>2. Same(d, RecordBackgroundError(d)) /\ RecordBackgroundError(d).next = d.next
        /\ RecordBackgroundError(d).last_sequence = d.last_sequence
    BY <2>1, ErrorSame
  <2> HIDE DEF L, G
  <2> QED
    BY <1>1, <2>1, <2>2 DEF Same
<1> HIDE DEF d, L, G
<1>11. Open' /\ Tables(db') = Tables(db) /\ db'.mem = db.mem /\ db'.imm = db.imm
       /\ db'.l0 = db.l0 /\ db'.deep = db.deep
  BY <1>8, <1>10 DEF Same, Open, Tables
<1>12. /\ DOMAIN calls' = DOMAIN calls
       /\ \A k \in DOMAIN calls :
            /\ calls'[k].null = calls[k].null /\ calls'[k].seq = calls[k].seq
            /\ calls'[k].status = IF k \in done THEN answer ELSE calls[k].status
  <2>1. DOMAIN calls' = DOMAIN calls
    BY <1>1
  <2>2. ASSUME NEW k \in DOMAIN calls
        PROVE  /\ calls'[k].null = calls[k].null /\ calls'[k].seq = calls[k].seq
               /\ calls'[k].status = IF k \in done THEN answer ELSE calls[k].status
    <3>1. DOMAIN calls[k] = CallFields
      BY DEF Inv, CallsOK
    <3>2. calls'[k] = IF k \in done THEN [calls[k] EXCEPT !.status = answer] ELSE calls[k]
      BY <1>1
    <3> DEFINE c == calls[k]
    <3> HIDE DEF c
    <3>3. LET e == [c EXCEPT !.status = answer] IN e.null = c.null /\ e.seq = c.seq /\ e.status = answer
      BY <3>1 DEF c, CallFields
    <3> QED
      BY <3>2, <3>3 DEF c
  <2> QED
    BY <2>1, <2>2
\* Those that are answered come before the rest.
<1>13. ASSUME NEW k \in done, NEW i \in 1..Len(rest) PROVE k < rest[i]
  <2>1. PICK j \in 1..n : k = writers[j]
    BY <1>7, <1>13
  <2>2. j \in 1..Len(writers) /\ j < n + i
    BY <1>2, <1>3, <1>5, <1>13, <2>1
  <2> QED
    BY <1>5, <2>1, <2>2 DEF SerialInv, QueueOrder
<1>14. \A i \in 1..Len(rest) : rest[i] \in Nat /\ rest[i] \in DOMAIN calls /\ rest[i] \notin done
  BY <1>2, <1>5, <1>13
<1>15. QueueOrder'
  <2>1. ASSUME NEW i \in 1..Len(rest), NEW j \in 1..Len(rest), i < j PROVE rest[i] < rest[j]
    <3>1. n + i < n + j
      BY <1>3, <1>5, <2>1
    <3> QED
      BY <1>5, <3>1 DEF SerialInv, QueueOrder
  <2>2. ASSUME NEW i \in 1..Len(rest) PROVE calls'[rest[i]].status = "waiting"
    BY <1>5, <1>12, <1>14 DEF SerialInv, QueueOrder
  <2>3. ASSUME NEW k \in DOMAIN calls, calls'[k].status = "waiting"
        PROVE  \E i \in 1..Len(rest) : rest[i] = k
    <3>1. k \notin done /\ calls[k].status = "waiting"
      BY <1>4, <1>12, <2>3
    <3>2. PICK j \in 1..Len(writers) : writers[j] = k
      BY <3>1 DEF SerialInv, QueueOrder
    <3>3. j \notin 1..n
      BY <1>7, <3>1, <3>2
    <3>4. n < j
      BY <1>2, <1>3, <3>2, <3>3
    <3> QED
      BY <1>5, <3>2, <3>4
  <2>4. ASSUME NEW k \in DOMAIN calls, calls'[k].status \in {"ok", "error"}, NEW i \in 1..Len(rest)
        PROVE  k < rest[i]
    <3>1. CASE k \in done
      BY <1>13, <3>1
    <3>2. CASE k \notin done
      BY <1>5, <1>12, <2>4, <3>2 DEF SerialInv, QueueOrder
    <3> QED
      BY <3>1, <3>2
  <2> QED
    BY <1>1, <1>12, <2>1, <2>2, <2>3, <2>4 DEF QueueOrder
<1>16. GroupOK' /\ GroupPlaced'
  BY <1>6 DEF GroupOK, GroupPlaced, Running
<1>17. NumberedOK'
  <2>1. db'.last_sequence \in Nat
    BY <1>2, <1>9, <1>10 DEF L
  <2> QED
    BY <1>12, <2>1 DEF SerialInv, NumberedOK
<1>18. ASSUME NEW k PROVE Holds(files', mems', k) <=> Holds(files, mems, k)
  BY <1>1 DEF Holds
<1>19. Monotone'
  BY <1>6, <1>12, <1>18 DEF SerialInv, Monotone, Live, Holds, InTables, InLogs
<1>20. Counted'
  <2>1. ASSUME NEW k \in DOMAIN calls, Holds(files, mems, k)
        PROVE  calls'[k].seq <= L + Cardinality(G) /\ \A i \in 1..Len(rest) : k < rest[i]
    <3>1. CASE k \notin G
      <4>1. calls[k].seq <= L /\ calls[k].seq \in Nat /\ \A i \in 1..Len(writers) : k < writers[i]
        BY <1>8, <2>1, <3>1 DEF SerialInv, Counted, NumberedOK, L, G
      <4>2. calls'[k].seq <= L + Cardinality(G)
        BY <1>2, <1>9, <1>12, <4>1 DEF L
      <4> QED
        BY <1>5, <4>1, <4>2
    <3>2. CASE k \in G
      <4>1. calls'[k].seq <= L + Cardinality(G)
        BY <1>8, <1>12, <3>2 DEF SerialInv, Counted, L, G
      <4>2. k <= leader.last /\ k \in Nat
        BY <1>2, <3>2 DEF SerialInv, GroupOK, G
      <4>3. ASSUME NEW i \in 1..Len(rest) PROVE k < rest[i]
        <5>1. n \in 1..n
          BY <1>2, <1>3
        <5>2. leader.last \in done /\ leader.last \in Nat
          BY <1>2, <1>3, <1>7, <5>1
        <5> QED
          BY <1>13, <1>14, <4>2, <5>2
      <4> QED
        BY <4>1, <4>3
    <3> QED
      BY <3>1, <3>2
  <2> QED
    BY <1>1, <1>6, <1>10, <1>12, <1>18, <2>1 DEF Counted, Holds, InTables, InLogs
<1>21. opening'.pc = "none"
  BY <1>11 DEF Inv, ControlOK, Open
<1>22. RecordsSeq'
  <2>1. ASSUME NEW T, NEW b, Bounded(files, calls, T, b) PROVE Bounded(files', calls', T, b)
    BY <1>1, <1>12, <2>1 DEF Bounded, AckInv, EntriesOK
  <2>2. /\ \A i \in Latest(Current) : Bounded(files', calls', Tables(Current.recs[i]), Current.recs[i].last_sequence)
        /\ bg.pc = "logging" => Bounded(files', calls', Tables(bg.edit), bg.edit.last_sequence)
    <3>1. files.current # 0
      BY <1>8, OpenFacts
    <3> QED
      BY <2>1, <3>1 DEF SerialInv, RecordsSeq
  <2>3. Current' = Current /\ bg' = bg
    BY <1>1 DEF Current
  <2> DEFINE m == Current
             e == bg.edit
  <2> HIDE DEF m, e
  <2>4. Current' = m /\ bg'.edit = e
    BY <2>3 DEF m, e
  <2>5. /\ \A i \in Latest(m) : Bounded(files', calls', Tables(m.recs[i]), m.recs[i].last_sequence)
        /\ bg.pc = "logging" => Bounded(files', calls', Tables(e), e.last_sequence)
    BY <2>2 DEF m, e
  <2> QED
    BY <1>21, <2>3, <2>4, <2>5 DEF RecordsSeq, Bounded, Tables, Latest
<1>23. OpenOK' /\ JobContents'
  BY <1>1, <1>11, <1>21 DEF SerialInv, OpenOK, JobContents, InTables, Tables
<1>24. ContentsOK'
  <2> DEFINE mem == db.mem
             imm == db.imm
             T == Tables(db)
  <2>1. \A k : k \in must <=> Has(files, mems, mem, imm, T, k) /\ k \notin G
    BY <1>8 DEF SerialInv, ContentsOK, G
  <2>2. mem \in DOMAIN mems /\ 0 \notin DOMAIN mems /\ (imm # 0 => imm # mem)
    BY <1>8 DEF AckInv, OrderOK
  <2>3. leader.status = "ok" => G \subseteq mems[mem]
    BY <1>1 DEF AckInv, LeaderOK, G
  <2>4. leader.status # "ok" => \A k \in G : ~InMem(mems, mem, k)
    BY <1>1 DEF SerialInv, GroupOK, GroupPlaced, Running, G
  <2>5. \A k \in G : /\ ~InTables(files, DOMAIN files.tables, k)
                     /\ \A i \in DOMAIN mems : i # mem => k \notin mems[i]
    BY DEF SerialInv, GroupPlaced, G
  <2> HIDE DEF mem, imm, T
  <2>6. ASSUME leader.status # "ok", NEW k \in G PROVE ~Has(files, mems, mem, imm, T, k)
    BY <2>2, <2>4, <2>5, <2>6 DEF Has, InMem, InTables
  <2>7. ASSUME leader.status = "ok", NEW k \in G PROVE Has(files, mems, mem, imm, T, k)
    BY <2>2, <2>3, <2>7 DEF Has, InMem
  <2>8. \A k : k \in must' <=> Has(files, mems, mem, imm, T, k)
    BY <1>1, <1>4, <2>1, <2>6, <2>7
  <2>9. db'.mem = mem /\ db'.imm = imm /\ Tables(db)' = T
    BY <1>11 DEF mem, imm, T, Tables
  <2>10. \A k : k \in must' <=> Has(files', mems', mem, imm, T, k) /\ k \notin leader'.group
    BY <1>1, <1>6, <2>8
  <2> QED
    BY <2>9, <2>10 DEF ContentsOK, Has, InMem, InTables
<1>25. PinnedOK'
  <2>1. iter.on => iter.snapshot \in Nat /\ iter.snapshot <= db'.last_sequence
    <3>1. iter.on => iter.snapshot \in Nat /\ iter.snapshot <= L
      BY DEF SerialInv, PinnedOK, L
    <3> QED
      BY <1>2, <1>9, <1>10, <3>1 DEF L
  <2> QED
    BY <1>1, <1>8, <1>10, <2>1 DEF SerialInv, PinnedOK
<1>26. SnapshotOK'
  <2> SUFFICES ASSUME iter.on PROVE SnapshotOK'
    BY <1>1 DEF SnapshotOK
  <2>1. \A k : k \in iter.expected <=>
                 Has(files, mems, iter.mem, iter.imm, iter.tables, k) /\ calls[k].seq <= iter.snapshot
    BY DEF SerialInv, SnapshotOK
  <2>2. ASSUME NEW k, Has(files, mems, iter.mem, iter.imm, iter.tables, k) PROVE calls'[k].seq = calls[k].seq
    <3>1. Holds(files, mems, k)
      BY <2>2 DEF Has, Holds, InMem, InTables
    <3> QED
      BY <1>12, <3>1, HoldsCall
  <2>3. \A k : k \in iter.expected <=>
                 Has(files, mems, iter.mem, iter.imm, iter.tables, k) /\ calls'[k].seq <= iter.snapshot
    BY <2>1, <2>2
  <2> QED
    BY <1>1, <2>3 DEF SnapshotOK, Has, InMem, InTables
<1> QED
  BY <1>15, <1>16, <1>17, <1>19, <1>20, <1>22, <1>23, <1>24, <1>25, <1>26 DEF SerialInv

-----------------------------------------------------------------------------
(* Open, recovery and shutdown. *)

\* While the database is not open, no thread runs.
LEMMA ClosedSerial ==
  ASSUME Inv, SerialInv, Inv', ~Open', leader'.group = {}, bg' = IdleBG \/ UNCHANGED bg,
         QueueOrder', NumberedOK', Monotone', RecordsSeq', OpenOK'
  PROVE  SerialInv'
<1>1. leader'.pc = "none" /\ bg'.pc = "idle" /\ ~iter'.on
  BY DEF Inv, QueueOK, ControlOK
<1>2. GroupOK' /\ GroupPlaced'
  BY <1>1 DEF GroupOK, GroupPlaced, Running
<1>3. Counted' /\ ContentsOK' /\ PinnedOK' /\ SnapshotOK'
  BY <1>1 DEF Counted, ContentsOK, PinnedOK, SnapshotOK
<1>4. JobContents'
  BY <1>1 DEF SerialInv, JobContents, IdleBG
<1> QED
  BY <1>2, <1>3, <1>4 DEF SerialInv

\* A step of Open and the like adds no write.
LEMMA OpenSerial ==
  ASSUME Inv, Inv', SerialInv, leader.pc = "none", OpenUnchanged, ~Open',
         db'.last_sequence \in Nat,
         \A k : Holds(files', mems', k) => Holds(files, mems, k), RecordsSeq', OpenOK'
  PROVE  SerialInv'
<1>1. UNCHANGED <<calls, writers, leader, bg>>
  BY DEF OpenUnchanged
<1>2. leader'.group = {}
  BY <1>1 DEF SerialInv, GroupOK, Running
<1>3. QueueOrder' /\ NumberedOK'
  BY <1>1 DEF SerialInv, QueueOrder, NumberedOK
<1>4. Monotone'
  BY <1>1 DEF SerialInv, Monotone, Live, Holds, InTables, InLogs
<1> QED
  BY <1>1, <1>2, <1>3, <1>4, ClosedSerial

\* The last_sequence of the records a restart may find.
CurrentSeq(f, c) ==
  f.current # 0 =>
    \A i \in Latest(f.manifests[f.current]) :
      LET r == f.manifests[f.current].recs[i] IN Bounded(f, c, Tables(r), r.last_sequence)

\* The records stay as they are.
LEMMA CurrentSeqKept ==
  ASSUME Inv, SerialInv, calls' = calls, TablesKept(InUse), files'.current = files.current,
         files.current # 0 => files'.manifests[files.current] = files.manifests[files.current]
  PROVE  CurrentSeq(files', calls')
<1> SUFFICES ASSUME files.current # 0 PROVE CurrentSeq(files', calls')
  BY DEF CurrentSeq
<1> DEFINE m == Current
<1>1. ASSUME NEW i \in Latest(m)
      PROVE  Bounded(files', calls', Tables(m.recs[i]), m.recs[i].last_sequence)
  <2>1. Bounded(files, calls, Tables(m.recs[i]), m.recs[i].last_sequence)
    BY DEF SerialInv, RecordsSeq
  <2>2. TablesKept(Tables(m.recs[i]))
    BY DEF TablesKept, InUse
  <2>3. Tables(m.recs[i]) \subseteq DOMAIN files.tables
    BY DEF Inv, CurrentOK, ManifestOK, Latest, Tables, Current
  <2> QED
    BY <2>1, <2>2, <2>3, BoundedKept
<1>2. files'.manifests[files'.current] = m
  BY DEF Current
<1> HIDE DEF m
<1> QED
  BY <1>1, <1>2 DEF CurrentSeq

\* That is all there is to it while no Open runs.
LEMMA ClosedSeq ==
  ASSUME Inv', ~Open', opening'.pc = "none", CurrentSeq(files', calls')
  PROVE  RecordsSeq' /\ OpenOK'
<1>1. bg'.pc = "idle"
  BY DEF Inv, ControlOK
<1>2. files'.current # 0 => Current' = files'.manifests[files'.current]
  BY DEF Current
<1>3. RecordsSeq'
  BY <1>1, <1>2 DEF RecordsSeq, CurrentSeq, Bounded, Tables, Latest
<1> QED
  BY <1>3 DEF OpenOK

\* NewDB.
LEMMA NewDBSerial ==
  ASSUME Inv, Inv', SerialInv, NewDB
  PROVE  SerialInv'
<1> DEFINE s == State({}, {}, 0, 2, 0)
           m == NewManifest(<<s>>, 0)
<1>1. /\ db.state = "closed" /\ files.current = 0 /\ OpenUnchanged
      /\ UNCHANGED <<db, mems, opening>>
      /\ files' = [files EXCEPT !.manifests = With(@, 1, m), !.current = 1]
  BY DEF NewDB
<1>2. s.l0 = {} /\ s.deep = {} /\ s.last_sequence = 0
  BY DEF State
<1> HIDE DEF s
<1>3. m.recs = <<s>>
  BY DEF NewManifest
<1> HIDE DEF m
<1>4. DOMAIN files = FileFields /\ ~Open /\ ~Open' /\ opening.pc = "none" /\ leader.pc = "none"
  BY <1>1 DEF Inv, RecordsOK, ControlOK, QueueOK, Open
<1>5. /\ files'.current = 1 /\ files'.tables = files.tables
      /\ files'.logs = files.logs /\ files'.manifests[1] = m
  <2>1. /\ files'.current = 1 /\ files'.tables = files.tables
        /\ files'.logs = files.logs /\ files'.manifests = With(files.manifests, 1, m)
    BY <1>1, <1>4 DEF FileFields
  <2> QED
    BY <2>1 DEF With
<1>6. CurrentSeq(files', calls')
  <2>1. Len(m.recs) = 1 /\ m.recs[1] = s
    BY <1>3
  <2>2. \A i \in Latest(m) : i = 1
    BY <2>1 DEF Latest
  <2>3. Bounded(files', calls', Tables(s), s.last_sequence)
    BY <1>2 DEF Bounded, Tables
  <2> QED
    BY <1>5, <2>1, <2>2, <2>3 DEF CurrentSeq
<1>7. RecordsSeq' /\ OpenOK'
  BY <1>1, <1>4, <1>6, ClosedSeq
<1>8. ASSUME NEW k, Holds(files', mems', k) PROVE Holds(files, mems, k)
  BY <1>1, <1>5, <1>8 DEF Holds, InTables, InLogs
<1>9. db'.last_sequence \in Nat
  BY <1>1 DEF SerialInv, NumberedOK
<1> QED
  BY <1>1, <1>4, <1>7, <1>8, <1>9, OpenSerial

\* Open fails, the database is closed, or DestroyDB is called.
LEMMA CloseSerial ==
  ASSUME Inv, Inv', SerialInv, OpenFails \/ Close \/ DestroyDB
  PROVE  SerialInv'
<1>1. /\ OpenUnchanged /\ leader.pc = "none"
      /\ \/ db' = ClosedDB
         \/ UNCHANGED db /\ ~Open
  <2>1. CASE OpenFails
    <3>1. ~Open
      BY <2>1 DEF OpenFails, Recovered, Inv, ControlOK, Open
    <3> QED
      BY <2>1, <3>1, ClosedFacts DEF OpenFails
  <2>2. CASE Close
    BY <2>2 DEF Close, Inv, QueueOK
  <2>3. CASE DestroyDB
    <3>1. ~Open
      BY <2>3 DEF DestroyDB, Open
    <3> QED
      BY <2>3, <3>1, ClosedFacts DEF DestroyDB
  <2> QED
    BY <2>1, <2>2, <2>3
<1>2. ~Open' /\ db'.last_sequence \in Nat
  <2>1. ClosedDB.last_sequence = 0
    BY DEF ClosedDB
  <2> QED
    BY <1>1, <2>1, ClosedDBIs DEF Open, SerialInv, NumberedOK
<1>3. opening'.pc = "none"
  <2>1. db'.state = "closed"
    <3>1. DestroyDB => db.state = "closed" /\ UNCHANGED db
      BY DEF DestroyDB
    <3>2. OpenFails \/ Close => db' = ClosedDB
      BY DEF OpenFails, Close
    <3> QED
      BY <3>1, <3>2, ClosedDBIs
  <2> QED
    BY <2>1 DEF Inv, ControlOK
<1>4. /\ CurrentSeq(files', calls')
      /\ \A k : Holds(files', mems', k) => Holds(files, mems, k)
  <2>1. CASE OpenFails \/ Close
    <3>1. files' = files /\ (mems' = mems \/ mems' = NoFcn)
      BY <2>1 DEF OpenFails, Close
    <3>2. TablesKept(InUse) /\ calls' = calls
      BY <1>1, <3>1 DEF TablesKept, OpenUnchanged
    <3>3. ASSUME NEW k, Holds(files', mems', k) PROVE Holds(files, mems, k)
      BY <3>1, <3>3 DEF Holds, NoFcn
    <3> QED
      BY <3>1, <3>2, <3>3, CurrentSeqKept
  <2>2. CASE DestroyDB
    <3>1. files' = [logs |-> NoFcn, tables |-> NoFcn, manifests |-> NoFcn, current |-> 0] /\ mems' = mems
      BY <2>2 DEF DestroyDB
    <3>2. files'.current = 0 /\ DOMAIN files'.logs = {} /\ DOMAIN files'.tables = {}
      BY <3>1 DEF NoFcn
    <3> QED
      BY <3>1, <3>2 DEF CurrentSeq, Holds, InTables, InLogs
  <2> QED
    BY <2>1, <2>2
<1>5. RecordsSeq' /\ OpenOK'
  BY <1>2, <1>3, <1>4, ClosedSeq
<1> QED
  BY <1>1, <1>2, <1>4, <1>5, OpenSerial

\* Recover finds a last_sequence that bounds what is in the tables.
LEMMA RecoverSerial ==
  ASSUME Inv, Inv', SerialInv, Recover
  PROVE  SerialInv'
<1> DEFINE m == files.manifests[files.current]
           recs == m.recs
           s == recs[Len(recs)]
           todo == {n \in DOMAIN files.logs : n >= s.log_number}
<1>1. /\ db.state = "closed" /\ files.current # 0 /\ recs # <<>>
      /\ db' = [ClosedDB EXCEPT !.state = "opening", !.manifest = s.next,
                  !.next = s.next + 1, !.last_sequence = s.last_sequence,
                  !.log_number = s.log_number, !.l0 = s.l0, !.deep = s.deep]
      /\ opening' = [NoOpening EXCEPT !.pc = "logs", !.todo = todo]
      /\ OpenUnchanged /\ UNCHANGED <<files, mems>>
  BY DEF Recover
<1>2. Len(recs) \in Latest(m)
  <2>1. ManifestOK(m, files.current, DOMAIN files.tables)
    BY <1>1 DEF Inv, CurrentOK
  <2>2. IsSeq(recs) /\ m.synced \in 0..Len(recs)
    BY <2>1 DEF ManifestOK
  <2>3. Len(recs) \in Nat \ {0}
    BY <1>1, <2>2, EmptySeq, LenProperties DEF IsSeq
  <2> QED
    BY <2>2, <2>3 DEF Latest
<1>3. Bounded(files, calls, Tables(s), s.last_sequence)
  BY <1>1, <1>2 DEF SerialInv, RecordsSeq, Current
<1> HIDE DEF m, recs, s, todo
<1>4. /\ db'.state = "opening" /\ db'.last_sequence = s.last_sequence /\ db'.l0 = s.l0 /\ db'.deep = s.deep
      /\ db'.pending_outputs = {} /\ db'.bg_error = FALSE
  <2>1. ClosedDB.pending_outputs = {} /\ ClosedDB.bg_error = FALSE
    BY DEF ClosedDB
  <2> QED
    BY <1>1, <2>1, ClosedDBIs DEF DBFields
<1>5. opening'.pc = "logs" /\ opening'.l0 = {} /\ opening'.max_sequence = 0
  BY <1>1 DEF NoOpening
<1>6. leader.pc = "none" /\ ~Open' /\ calls' = calls /\ bg'.pc = "idle"
  <2>1. ~Open /\ ~Open'
    BY <1>1, <1>4 DEF Open
  <2> QED
    BY <1>1, <2>1, ClosedFacts DEF OpenUnchanged
<1>7. CurrentSeq(files', calls')
  BY <1>1, <1>6, CurrentSeqKept DEF TablesKept
<1>8. OpenOK'
  BY <1>4, <1>5 DEF OpenOK
<1>9. RecordsSeq'
  <2>1. Bounded(files', calls', Tables(db'), db'.last_sequence)
    BY <1>1, <1>3, <1>4, <1>6 DEF Bounded, Tables
  <2>2. Bounded(files', calls', opening'.l0, opening'.max_sequence)
    BY <1>5 DEF Bounded
  <2>3. files'.current # 0 => Current' = files'.manifests[files'.current]
    BY DEF Current
  <2> QED
    BY <1>5, <1>6, <1>7, <2>1, <2>2, <2>3 DEF RecordsSeq, CurrentSeq, Bounded, Tables, Latest
<1>10. db'.last_sequence \in Nat
  BY <1>3, <1>4 DEF Bounded
<1>11. \A k : Holds(files', mems', k) => Holds(files, mems, k)
  BY <1>1
<1> QED
  BY <1>1, <1>6, <1>8, <1>9, <1>10, <1>11, OpenSerial

\* A log becomes a table of writes up to max_sequence.
LEMMA RecoverLogSerial ==
  ASSUME ~SilentFaults, Inv, Inv', AckInv, SerialInv, RecoverLogFile
  PROVE  SerialInv'
<1> DEFINE n == Min(opening.todo)
<1>1. opening.pc = "logs" /\ opening.todo # {} /\ OpenUnchanged /\ UNCHANGED mems
  BY DEF RecoverLogFile
<1>2. /\ db.state = "opening" /\ ~Open /\ DOMAIN files = FileFields /\ DOMAIN db = DBFields
      /\ DOMAIN opening = OpeningFields /\ db.next \in Nat /\ opening.todo \subseteq Nat
      /\ leader.pc = "none" /\ calls' = calls
  <2>1. ~Open
    BY <1>1 DEF Inv, ControlOK, Open
  <2> QED
    BY <1>1, <2>1, ClosedFacts DEF Inv, RecordsOK, ControlOK, NumbersOK, OpenUnchanged
<1>3. n \in DOMAIN files.logs /\ LogOK(files.logs[n], DOMAIN calls)
  <2>1. n \in opening.todo
    BY <1>1, <1>2, MinIs
  <2> QED
    BY <1>1, <1>2, <2>1 DEF AckInv, OrderOK, LogsOK
<1>4. \E ws, next, seq, s, l0 : LogTaken(n, ws, next, seq, s, l0)
  BY LogTakenIs
<1> HIDE DEF n
<1> PICK ws, next, seq, s, l0 : LogTaken(n, ws, next, seq, s, l0)
  BY <1>4
<1>5. \A k \in ws : InLogs(files, k) /\ k \in DOMAIN calls
  <2> DEFINE l == files.logs[n]
             C == {k \in DOMAIN calls : \E i \in 1..Len(l.recs) : k \in l.recs[i]}
  <2>1. ws \in ReadInPart(l)
    BY DEF LogTaken
  <2>2. LogOK(l, C)
    BY <1>3 DEF LogOK
  <2> HIDE DEF C
  <2>3. ws \subseteq C
    BY <2>1, <2>2, InPartIs
  <2> QED
    BY <1>3, <2>3 DEF C, InLogs
<1>6. /\ seq \in Nat /\ opening.max_sequence \in Nat /\ opening.max_sequence <= seq
      /\ \A k \in ws : calls[k].seq \in Nat /\ calls[k].seq <= seq
  <2> DEFINE M == opening.max_sequence
             S == {calls[k].seq : k \in ws} \cup {M}
  <2>1. M \in Nat
    BY <1>1 DEF SerialInv, RecordsSeq, Bounded
  <2>2. PICK B \in Nat : \A k \in DOMAIN calls : calls[k].seq <= B
    BY DEF SerialInv, NumberedOK
  <2>3. \A k \in ws : calls[k].seq \in Nat /\ calls[k].seq <= B
    BY <1>5, <2>2 DEF SerialInv, NumberedOK
  <2>4. seq = Max(S)
    BY DEF LogTaken
  <2> HIDE DEF M
  <2>5. \A x \in S : x \in 0..(B + M)
    BY <2>1, <2>3
  <2>6. M \in S /\ \A k \in ws : calls[k].seq \in S
    OBVIOUS
  <2> HIDE DEF S
  <2>7. B + M \in Nat /\ S \in SUBSET (0..(B + M)) /\ S # {}
    BY <2>1, <2>5, <2>6
  <2>8. Max(S) \in S /\ \A y \in S : Max(S) >= y
    BY <2>7, MaxIs
  <2>9. seq \in Nat /\ \A y \in S : y \in Nat /\ y <= seq
    BY <2>1, <2>4, <2>5, <2>8
  <2> QED
    BY <2>1, <2>6, <2>9 DEF M
<1>7. /\ db'.state = "opening" /\ db'.l0 = db.l0 /\ db'.deep = db.deep
      /\ db'.last_sequence = db.last_sequence
      /\ db'.pending_outputs = db.pending_outputs /\ db'.bg_error = db.bg_error
  <2> DEFINE e == MarkFileNumberUsed(next, n)
  <2>1. db' = [db EXCEPT !.next = e]
    BY DEF LogTaken
  <2> HIDE DEF e
  <2> QED
    BY <1>2, <2>1 DEF DBFields
<1>8. opening'.pc = "logs" /\ opening'.l0 = l0 /\ opening'.max_sequence = seq
  <2>1. opening' = [opening EXCEPT !.todo = @ \ {n}, !.s = s, !.l0 = l0, !.max_sequence = seq]
    BY DEF LogTaken
  <2> QED
    BY <1>1, <1>2, <2>1 DEF OpeningFields
<1>9. \/ files' = files /\ l0 = opening.l0
      \/ /\ l0 = opening.l0 \cup {db.next}
         /\ files'.current = files.current /\ files'.manifests = files.manifests
         /\ files'.logs = files.logs /\ DOMAIN files'.tables = DOMAIN files.tables \cup {db.next}
         /\ files'.tables[db.next] = ws
         /\ \A t \in DOMAIN files.tables : t # db.next => files'.tables[t] = files.tables[t]
  <2>1. ASSUME files' = [files EXCEPT !.tables = With(@, db.next, ws)]
        PROVE  /\ files'.current = files.current /\ files'.manifests = files.manifests
               /\ files'.logs = files.logs /\ DOMAIN files'.tables = DOMAIN files.tables \cup {db.next}
               /\ files'.tables[db.next] = ws
               /\ \A t \in DOMAIN files.tables : t # db.next => files'.tables[t] = files.tables[t]
    <3>1. /\ files'.current = files.current /\ files'.manifests = files.manifests
          /\ files'.logs = files.logs /\ files'.tables = With(files.tables, db.next, ws)
      BY <1>2, <2>1 DEF FileFields
    <3> QED
      BY <3>1 DEF With
  <2> QED
    BY <2>1 DEF LogTaken
<1>10. /\ files'.current = files.current /\ files'.manifests = files.manifests /\ files'.logs = files.logs
  BY <1>9
<1>11. \A t \in DOMAIN files.tables : t # db.next =>
         t \in DOMAIN files'.tables /\ files'.tables[t] = files.tables[t]
  BY <1>9
<1>12. ASSUME NEW k, Holds(files', mems', k) PROVE Holds(files, mems, k)
  <2>1. CASE InTables(files', DOMAIN files'.tables, k)
    <3>1. PICK t \in DOMAIN files'.tables : k \in files'.tables[t]
      BY <2>1 DEF InTables
    <3>2. (t \in DOMAIN files.tables /\ k \in files.tables[t]) \/ k \in ws
      BY <1>9, <3>1
    <3> QED
      BY <1>5, <3>2 DEF Holds, InTables
  <2> QED
    BY <1>1, <1>10, <1>12, <2>1 DEF Holds, InLogs
<1>13. CurrentSeq(files', calls')
  <2>1. TablesKept(InUse)
    <3>1. db.next \notin InUse
      BY <1>2, NextUnused
    <3> QED
      BY <1>11, <3>1 DEF TablesKept
  <2> QED
    BY <1>2, <1>10, <2>1, CurrentSeqKept
<1>14. ~Open' /\ bg'.pc = "idle"
  <2>1. ~Open'
    BY <1>7 DEF Open
  <2> QED
    BY <2>1, ClosedFacts DEF Inv, ControlOK
<1>15. RecordsSeq'
  <2>1. \A t \in Tables(db) \cup opening.l0 : t # db.next
    <3>1. \A t \in db.l0 \cup db.deep \cup opening.l0 : t \in Nat /\ t < db.next
      BY <1>1, <1>2 DEF AckInv, OrderOK
    <3> QED
      BY <1>2, <3>1 DEF Tables
  <2>2. Bounded(files, calls, Tables(db), db.last_sequence) /\ Bounded(files, calls, opening.l0, opening.max_sequence)
    BY <1>1 DEF SerialInv, RecordsSeq
  <2>3. Tables(db) \subseteq DOMAIN files.tables /\ opening.l0 \subseteq DOMAIN files.tables
    BY <1>1, <1>2 DEF Inv, TablesOK, Tables
  <2>4. Bounded(files', calls', Tables(db), db.last_sequence)
    BY <1>2, <1>11, <2>1, <2>2, <2>3 DEF Bounded
  <2>5. Bounded(files', calls', l0, seq)
    <3>1. ASSUME NEW t \in l0 \cap DOMAIN files'.tables, NEW k \in files'.tables[t] PROVE calls[k].seq <= seq
      <4>1. CASE t = db.next
        <5>1. k \in ws
          BY <1>9, <2>1, <3>1, <4>1
        <5> QED
          BY <1>6, <5>1
      <4>2. CASE t # db.next
        <5>1. t \in opening.l0
          BY <1>9, <3>1, <4>2
        <5>2. k \in files.tables[t] /\ t \in DOMAIN files.tables
          BY <1>11, <2>3, <3>1, <4>2, <5>1
        <5>3. calls[k].seq <= opening.max_sequence /\ calls[k].seq \in Nat
          BY <2>2, <5>1, <5>2 DEF Bounded, SerialInv, NumberedOK, AckInv, EntriesOK
        <5> QED
          BY <1>6, <5>3
      <4> QED
        BY <4>1, <4>2
    <3> QED
      BY <1>2, <1>6, <3>1 DEF Bounded
  <2>6. files'.current # 0 => Current' = files'.manifests[files'.current]
    BY DEF Current
  <2>7. Bounded(files', calls', Tables(db'), db'.last_sequence) /\ Bounded(files', calls', opening'.l0, opening'.max_sequence)
    BY <1>7, <1>8, <2>4, <2>5 DEF Tables
  <2> QED
    BY <1>8, <1>13, <1>14, <2>6, <2>7 DEF RecordsSeq, CurrentSeq, Bounded, Tables, Latest
<1>16. OpenOK'
  BY <1>1, <1>7, <1>8 DEF SerialInv, OpenOK
<1>17. db'.last_sequence \in Nat
  BY <1>7 DEF SerialInv, NumberedOK
<1> QED
  BY <1>1, <1>2, <1>12, <1>14, <1>15, <1>16, <1>17, OpenSerial

\* The new record has the greater of the two numbers.
LEMMA OpenLogSerial ==
  ASSUME Inv, Inv', AckInv, SerialInv, OpenLog
  PROVE  SerialInv'
<1> DEFINE seq == Max({db.last_sequence, opening.max_sequence})
           s == State(db.l0 \cup opening.l0, db.deep, db.next, db.next + 1, seq)
           m == NewManifest(<<s>>, 1)
<1>1. /\ opening.pc = "logs" /\ OpenUnchanged /\ UNCHANGED mems
      /\ files' = [files EXCEPT !.logs = With(@, db.next, NewLog),
                                !.manifests = With(@, db.manifest, m)]
      /\ db' = [db EXCEPT !.next = NewFileNumber(@), !.last_sequence = seq]
      /\ opening' = [opening EXCEPT !.pc = "install", !.log = db.next]
  BY DEF OpenLog, Recovered
<1>2. s.last_sequence = seq
  BY DEF State
<1>3. /\ seq \in Nat /\ db.last_sequence \in Nat /\ opening.max_sequence \in Nat
      /\ db.last_sequence <= seq /\ opening.max_sequence <= seq
  <2> DEFINE a == db.last_sequence
             b == opening.max_sequence
             S == {a, b}
  <2>1. a \in Nat /\ b \in Nat
    BY <1>1 DEF SerialInv, RecordsSeq, Bounded
  <2> HIDE DEF a, b
  <2>2. a + b \in Nat /\ S \in SUBSET (0..(a + b)) /\ S # {} /\ a \in S /\ b \in S
    BY <2>1
  <2>3. \A x \in S : x \in Nat
    BY <2>1
  <2> HIDE DEF S
  <2> DEFINE M == Max(S)
  <2>4. M \in S /\ \A y \in S : M >= y
    BY <2>2, MaxIs
  <2>5. seq = M
    BY DEF a, b, S
  <2> HIDE DEF M
  <2>6. M \in Nat /\ M >= a /\ M >= b
    BY <2>2, <2>3, <2>4
  <2>7. a <= M /\ b <= M
    BY <2>1, <2>6
  <2> HIDE DEF seq
  <2> QED
    BY <2>1, <2>5, <2>6, <2>7 DEF a, b
<1> HIDE DEF seq, s
<1>4. m.recs[1] = s
  BY DEF NewManifest
<1> HIDE DEF m
<1>5. /\ ~Open /\ leader.pc = "none" /\ DOMAIN files = FileFields /\ DOMAIN db = DBFields
      /\ DOMAIN opening = OpeningFields /\ db.state = "opening"
      /\ db.manifest \in Nat /\ files.current \in Nat /\ files.current < db.manifest
      /\ files.current \in DOMAIN files.manifests /\ calls' = calls
  <2>1. db.state = "opening" /\ ~Open
    BY <1>1 DEF Inv, ControlOK, Open
  <2> QED
    BY <1>1, <2>1, ClosedFacts DEF Inv, RecordsOK, NumbersOK, CurrentOK, OpenUnchanged
<1>6. /\ db'.state = "opening" /\ db'.manifest = db.manifest
      /\ db'.l0 = db.l0 /\ db'.deep = db.deep /\ db'.next = db.next + 1 /\ db'.last_sequence = seq
      /\ db'.pending_outputs = db.pending_outputs /\ db'.bg_error = db.bg_error
  BY <1>1, <1>5 DEF DBFields, NewFileNumber
<1>7. /\ opening'.pc = "install" /\ opening'.l0 = opening.l0 /\ opening'.log = db.next
  BY <1>1, <1>5 DEF OpeningFields
<1>8. /\ files'.current = files.current /\ files'.tables = files.tables
      /\ files'.logs[db.next] = NewLog
      /\ \A n \in DOMAIN files'.logs : n = db.next \/ (n \in DOMAIN files.logs /\ files'.logs[n] = files.logs[n])
      /\ files'.manifests[db.manifest] = m
      /\ files'.manifests[files.current] = files.manifests[files.current]
  <2>1. /\ files'.current = files.current /\ files'.tables = files.tables
        /\ files'.logs = With(files.logs, db.next, NewLog)
        /\ files'.manifests = With(files.manifests, db.manifest, m)
    BY <1>1, <1>5 DEF FileFields
  <2>2. /\ files'.logs[db.next] = NewLog
        /\ \A n \in DOMAIN files'.logs : n = db.next \/ (n \in DOMAIN files.logs /\ files'.logs[n] = files.logs[n])
    BY <2>1 DEF With
  <2>3. files.current # db.manifest
    BY <1>5
  <2>4. /\ files'.manifests[db.manifest] = m
        /\ files'.manifests[files.current] = files.manifests[files.current]
    BY <1>5, <2>1, <2>3 DEF With
  <2> QED
    BY <2>1, <2>2, <2>4
<1>9. NewLog.recs = <<>> /\ Len(NewLog.recs) = 0
  BY DEF NewLog
<1>10. ASSUME NEW k, Holds(files', mems', k) PROVE Holds(files, mems, k)
  <2>1. CASE InLogs(files', k)
    <3>1. PICK n \in DOMAIN files'.logs : \E i \in 1..Len(files'.logs[n].recs) : k \in files'.logs[n].recs[i]
      BY <2>1 DEF InLogs
    <3>2. n # db.next
      BY <1>8, <1>9, <3>1
    <3> QED
      BY <1>8, <3>1, <3>2 DEF Holds, InLogs
  <2> QED
    BY <1>1, <1>8, <1>10, <2>1 DEF Holds, InTables
<1>11. CurrentSeq(files', calls')
  <2>1. TablesKept(InUse)
    BY <1>8 DEF TablesKept
  <2> QED
    BY <1>5, <1>8, <2>1, CurrentSeqKept
<1>12. ~Open' /\ bg'.pc = "idle"
  <2>1. ~Open'
    BY <1>6 DEF Open
  <2> QED
    BY <2>1, ClosedFacts DEF Inv, ControlOK
<1>13. OpenOK'
  BY <1>1, <1>6, <1>7, <1>8, <1>9 DEF SerialInv, OpenOK
<1>14. RecordsSeq'
  <2>1. Bounded(files, calls, Tables(db), db.last_sequence) /\ Bounded(files, calls, opening.l0, opening.max_sequence)
    BY <1>1 DEF SerialInv, RecordsSeq
  <2>2. ASSUME NEW t \in (Tables(db) \cup opening.l0) \cap DOMAIN files.tables, NEW k \in files.tables[t]
        PROVE  calls[k].seq <= seq
    <3>1. calls[k].seq \in Nat
      BY <2>2 DEF SerialInv, NumberedOK, AckInv, EntriesOK
    <3>2. calls[k].seq <= db.last_sequence \/ calls[k].seq <= opening.max_sequence
      BY <2>1, <2>2 DEF Bounded
    <3> QED
      BY <1>3, <3>1, <3>2
  <2>3. Bounded(files', calls', Tables(db) \cup opening.l0, seq)
    BY <1>3, <1>5, <1>8, <2>2 DEF Bounded
  <2>4. Bounded(files', calls', Tables(db') \cup opening'.l0, db'.last_sequence)
    BY <1>6, <1>7, <2>3 DEF Tables
  <2>5. files'.manifests[db'.manifest].recs[1].last_sequence = db'.last_sequence
    BY <1>2, <1>4, <1>6, <1>8
  <2>6. files'.current # 0 => Current' = files'.manifests[files'.current]
    BY DEF Current
  <2> QED
    BY <1>7, <1>11, <1>12, <2>4, <2>5, <2>6 DEF RecordsSeq, CurrentSeq, Bounded, Tables, Latest
<1>15. db'.last_sequence \in Nat
  BY <1>3, <1>6
<1> QED
  BY <1>1, <1>5, <1>10, <1>12, <1>13, <1>14, <1>15, OpenSerial

\* DeleteObsoleteFiles, if no background error keeps it from it.
LEMMA DeleteExactly ==
  ASSUME NEW f, NEW d, NEW b, DOMAIN f = FileFields, d.bg_error = FALSE, d.pending_outputs = {}
  PROVE  LET g == DeleteObsoleteFiles(f, d, b)
         IN /\ \A n \in DOMAIN g.logs : n >= d.log_number
            /\ \A n \in DOMAIN g.tables : n \in LiveTables(d, b)
<1> DEFINE g == DeleteObsoleteFiles(f, d, b)
           logs == Only(f.logs, {n \in DOMAIN f.logs : n >= d.log_number})
           manifests == Only(f.manifests, {n \in DOMAIN f.manifests : n >= d.manifest})
           tables == Only(f.tables, LiveTables(d, b) \cup d.pending_outputs)
<1>1. g = [f EXCEPT !.logs = logs, !.manifests = manifests, !.tables = tables]
  BY DEF DeleteObsoleteFiles
<1>2. /\ \A n \in DOMAIN logs : n >= d.log_number
      /\ \A n \in DOMAIN tables : n \in LiveTables(d, b)
  BY DEF Only
<1> HIDE DEF logs, manifests, tables, g
<1>3. g.logs = logs /\ g.tables = tables
  BY <1>1 DEF FileFields
<1>4. /\ \A n \in DOMAIN g.logs : n >= d.log_number
      /\ \A n \in DOMAIN g.tables : n \in LiveTables(d, b)
  BY <1>2, <1>3
<1> QED
  BY <1>4 DEF g

\* Open ends with what the tables hold, and an empty memtable and log.
LEMMA OpenInstallSerial ==
  ASSUME Inv, Inv', AckInv, SerialInv, OpenInstall
  PROVE  SerialInv'
<1> DEFINE d == [db EXCEPT !.state = "open", !.l0 = @ \cup opening.l0, !.log_number = opening.log,
                           !.mem = opening.log]
           f == [files EXCEPT !.current = db.manifest]
           m == files.manifests[db.manifest]
           r == m.recs[1]
           T == db.l0 \cup db.deep \cup opening.l0
<1>1. /\ opening.pc = "install" /\ opening' = NoOpening /\ OpenUnchanged
      /\ \/ /\ db' = MaybeScheduleCompaction(d) /\ files' = DeleteObsoleteFiles(f, d, IdleBG)
            /\ mems' = With(NoFcn, opening.log, {})
            /\ must' = (must \ unsure) \cup Stored(d.l0 \cup d.deep)
         \/ /\ db' = ClosedDB /\ UNCHANGED <<mems, must>>
            /\ files' = [files EXCEPT !.manifests = Only(@, DOMAIN @ \ {db.manifest})]
  BY DEF OpenInstall
<1>2. /\ db.state = "opening" /\ ~Open /\ DOMAIN files = FileFields /\ DOMAIN db = DBFields
      /\ db.next \in Nat /\ opening.log \in Nat
      /\ db.manifest \in Nat /\ files.current \in Nat /\ files.current < db.manifest
      /\ DOMAIN files.logs \subseteq Nat
  <2>1. db.state = "opening"
    BY <1>1 DEF Inv, ControlOK
  <2> QED
    BY <1>1, <2>1 DEF Inv, RecordsOK, NumbersOK, CurrentOK, Open
<1>3. /\ opening'.pc = "none" /\ UNCHANGED <<unsure, calls, writers, bg, leader, iter>>
      /\ leader.pc = "none" /\ writers = <<>> /\ bg.pc = "idle" /\ ~iter.on /\ iter.tables = {}
      /\ bg.out = 0
  BY <1>1, <1>2, ClosedDBIs, ClosedFacts DEF OpenUnchanged
<1>4. CASE /\ db' = ClosedDB /\ UNCHANGED <<mems, must>>
           /\ files' = [files EXCEPT !.manifests = Only(@, DOMAIN @ \ {db.manifest})]
  <2>1. db'.state = "closed" /\ ~Open' /\ db'.last_sequence \in Nat
    BY <1>4, ClosedDBIs DEF Open, ClosedDB
  <2>2. files.current # db.manifest /\ files.current \in DOMAIN files.manifests
    BY <1>2 DEF Inv, CurrentOK
  <2>3. /\ files'.current = files.current /\ files'.tables = files.tables /\ files'.logs = files.logs
        /\ files'.manifests[files.current] = files.manifests[files.current]
    <3>1. /\ files'.current = files.current /\ files'.tables = files.tables /\ files'.logs = files.logs
          /\ files'.manifests = Only(files.manifests, DOMAIN files.manifests \ {db.manifest})
      BY <1>2, <1>4 DEF FileFields
    <3> QED
      BY <2>2, <3>1 DEF Only
  <2>4. TablesKept(InUse)
    BY <2>3 DEF TablesKept
  <2>5. CurrentSeq(files', calls')
    BY <1>3, <2>3, <2>4, CurrentSeqKept
  <2>6. RecordsSeq' /\ OpenOK'
    BY <1>3, <2>1, <2>5, ClosedSeq
  <2>7. \A k : Holds(files', mems', k) => Holds(files, mems, k)
    BY <1>4, <2>3 DEF Holds, InTables, InLogs
  <2> QED
    BY <1>1, <1>3, <2>1, <2>6, <2>7, OpenSerial
<1>5. CASE /\ db' = MaybeScheduleCompaction(d) /\ files' = DeleteObsoleteFiles(f, d, IdleBG)
           /\ mems' = With(NoFcn, opening.log, {})
           /\ must' = (must \ unsure) \cup Stored(d.l0 \cup d.deep)
  <2>1. /\ DOMAIN d = DBFields /\ d.state = "open" /\ d.mem = opening.log /\ d.imm = db.imm
        /\ d.manifest = db.manifest /\ d.log_number = opening.log
        /\ d.next = db.next /\ d.l0 = db.l0 \cup opening.l0 /\ d.deep = db.deep
        /\ d.last_sequence = db.last_sequence /\ d.bg_error = db.bg_error
        /\ d.pending_outputs = db.pending_outputs
    BY <1>2 DEF DBFields
  <2>2. /\ DOMAIN f = FileFields /\ f.tables = files.tables /\ f.logs = files.logs
        /\ f.manifests = files.manifests /\ f.current = db.manifest
    BY <1>2 DEF FileFields
  <2> HIDE DEF d, f
  <2>3. /\ db'.state = "open" /\ db'.mem = opening.log /\ db'.imm = db.imm
        /\ db'.next = db.next /\ db'.l0 = db.l0 \cup opening.l0 /\ db'.deep = db.deep
        /\ db'.last_sequence = db.last_sequence
    BY <1>5, <2>1 DEF MaybeScheduleCompaction, DBFields
  <2>4. /\ files'.current = db.manifest
        /\ \A n \in DOMAIN files.manifests : n >= db.manifest =>
             n \in DOMAIN files'.manifests /\ files'.manifests[n] = files.manifests[n]
    BY <1>5, <2>1, <2>2, DeleteKeeps
  <2>5. db.bg_error = FALSE /\ db.pending_outputs = {} /\ db.next = opening.log + 1
        /\ files.logs[opening.log].recs = <<>>
    BY <1>1 DEF SerialInv, OpenOK
  <2>6. T = d.l0 \cup d.deep /\ T = db'.l0 \cup db'.deep /\ T = LiveTables(d, IdleBG)
    BY <1>3, <2>1, <2>3 DEF LiveTables, IdleBG
  <2> HIDE DEF T
  <2>7. /\ \A n \in DOMAIN files'.logs : n \in DOMAIN files.logs /\ files'.logs[n] = files.logs[n]
        /\ \A n \in DOMAIN files'.tables : n \in DOMAIN files.tables /\ files'.tables[n] = files.tables[n]
        /\ DOMAIN files.tables \cap T \subseteq DOMAIN files'.tables
    BY <1>5, <2>1, <2>2, <2>6, DeleteSame
  <2>8. (\A n \in DOMAIN files'.logs : n >= opening.log) /\ DOMAIN files'.tables \subseteq T
    BY <1>5, <2>1, <2>2, <2>5, <2>6, DeleteExactly
  <2>9. must' = (must \ unsure) \cup Stored(T)
    BY <1>5, <2>6
  <2>10. DOMAIN mems' = {opening.log} /\ mems'[opening.log] = {}
    BY <1>5 DEF With, NoFcn
  <2>11. /\ db.manifest \in DOMAIN files.manifests /\ Len(m.recs) = 1 /\ m.synced = 1
         /\ r.l0 = db.l0 \cup opening.l0 /\ r.deep = db.deep
    BY <1>1 DEF Inv, CurrentOK
  <2>12. Due \subseteq Stored(T) /\ db.imm = 0
    BY <1>1 DEF AckInv, RecoveryOK, T
  <2>13. (\A n \in DOMAIN files.logs : n < db.next) /\ opening.log # 0
    BY <1>1, <1>2 DEF AckInv, OrderOK
  <2>14. files'.manifests[db.manifest] = m /\ db.manifest # 0
    <3>1. db.manifest >= db.manifest /\ db.manifest # 0
      BY <1>2
    <3> QED
      BY <2>4, <2>11, <3>1
  <2>15. Tables(r) = T /\ Tables(db) \cup opening.l0 = T /\ Tables(db') = T
    BY <2>3, <2>11 DEF Tables, T
  <2>16. /\ Bounded(files, calls, T, db.last_sequence) /\ r.last_sequence = db.last_sequence
    BY <1>1, <2>15 DEF SerialInv, RecordsSeq
  <2>17. Latest(m) \subseteq {1}
    BY <2>11 DEF Latest
  <2> HIDE DEF m, r
  <2>18. \A n \in DOMAIN files'.logs : n = opening.log
    <3> SUFFICES ASSUME NEW n \in DOMAIN files'.logs PROVE n = opening.log
      OBVIOUS
    <3>1. n \in Nat /\ n < db.next /\ n >= opening.log
      BY <1>2, <2>7, <2>8, <2>13
    <3> QED
      BY <1>2, <2>5, <3>1
  <2>19. ASSUME NEW k, Holds(files', mems', k)
         PROVE  InTables(files, T, k) /\ Holds(files, mems, k)
    <3>1. \A n \in DOMAIN files'.logs : Len(files'.logs[n].recs) = 0
      BY <2>5, <2>7, <2>18
    <3>2. ~InLogs(files', k)
      BY <3>1 DEF InLogs
    <3>3. ~\E n \in DOMAIN mems' : k \in mems'[n]
      BY <2>10
    <3>4. InTables(files', DOMAIN files'.tables, k)
      BY <2>19, <3>2, <3>3 DEF Holds
    <3> QED
      BY <2>7, <2>8, <3>4 DEF Holds, InTables
  <2>20. Open' /\ leader'.group = {} /\ Len(writers') = 0 /\ leader'.pc = "none"
    BY <1>3, <2>3 DEF Open, SerialInv, GroupOK, Running
  <2>21. QueueOrder' /\ NumberedOK'
    BY <1>3, <2>3 DEF SerialInv, QueueOrder, NumberedOK
  <2>22. GroupOK' /\ GroupPlaced'
    BY <2>20 DEF GroupOK, GroupPlaced, Running
  <2>23. Monotone'
    BY <1>3, <2>19, <2>20 DEF SerialInv, Monotone, Live, Holds, InTables, InLogs
  <2>24. Counted'
    <3>1. ASSUME NEW k \in DOMAIN calls, Holds(files', mems', k) PROVE calls[k].seq <= db.last_sequence
      BY <2>16, <2>19, <3>1 DEF Bounded, InTables
    <3> QED
      BY <1>3, <2>3, <2>20, <3>1 DEF Counted, Holds, InTables, InLogs
  <2>25. RecordsSeq'
    <3>1. Bounded(files', calls', T, db.last_sequence)
      BY <1>3, <2>7, <2>16 DEF Bounded
    <3>2. Current' = m
      BY <2>4, <2>14 DEF Current
    <3>3. ASSUME NEW i \in Latest(m) PROVE m.recs[i] = r
      BY <2>17 DEF r
    <3> QED
      BY <1>3, <2>15, <2>16, <3>1, <3>2, <3>3 DEF RecordsSeq, Bounded, Tables, Latest
  <2>26. OpenOK'
    BY <1>3 DEF OpenOK
  <2>27. JobContents'
    <3>1. bg'.in0 = {} /\ bg'.in1 = {} /\ bg'.pc = "idle"
      BY <1>3 DEF SerialInv, JobContents
    <3> QED
      BY <3>1 DEF JobContents
  <2>28. ContentsOK'
    <3>1. \A k : k \in must' <=> k \in Stored(T)
      BY <2>9, <2>12 DEF Due
    <3>2. \A k : k \in Stored(T) <=> InTables(files', T, k)
      BY <2>7 DEF Stored, InTables
    <3>3. \A k, n : ~InMem(mems', n, k)
      BY <2>10 DEF InMem
    <3> QED
      BY <2>15, <2>20, <3>1, <3>2, <3>3 DEF ContentsOK, Has, InTables, InMem, Tables
  <2>29. PinnedOK' /\ SnapshotOK'
    <3>1. opening.log < db'.next
      BY <1>2, <2>3, <2>5
    <3> QED
      BY <1>2, <1>3, <2>10, <3>1 DEF PinnedOK, SnapshotOK
  <2> QED
    BY <2>21, <2>22, <2>23, <2>24, <2>25, <2>26, <2>27, <2>28, <2>29 DEF SerialInv
<1> QED
  BY <1>1, <1>4, <1>5

\* A crash leaves of every log what was kept of it, and no writer or reader.
LEMMA CrashSerial ==
  ASSUME Inv, Inv', AckInv, SerialInv, NEW machine \in BOOLEAN, Died(machine)
  PROVE  SerialInv'
<1> DEFINE Cut(f, c) == [n \in DOMAIN f |-> [f[n] EXCEPT !.recs = SubSeq(f[n].recs, 1, c[n])]]
           Manifest(kept, n) == files.manifests[n].synced
                       + kept[n] * (Len(files.manifests[n].recs) - files.manifests[n].synced)
           Keep(keep) == \A n \in DOMAIN files.logs :
               IF machine THEN files.logs[n].synced <= keep[n] /\ keep[n] <= Len(files.logs[n].recs)
                          ELSE keep[n] = Len(files.logs[n].recs)
<1>1. /\ writers' = <<>> /\ leader' = NoLeader /\ db' = ClosedDB /\ mems' = NoFcn
      /\ opening' = NoOpening /\ bg' = IdleBG
      /\ calls' = [k \in DOMAIN calls |-> IF calls[k].status = "waiting"
                                            THEN [calls[k] EXCEPT !.status = "lost"] ELSE calls[k]]
  BY Zenon DEF Died
<1> PICK keep \in [DOMAIN files.logs -> 0..Len(calls)], kept \in [DOMAIN files.manifests -> {0, 1}] :
           /\ Keep(keep)
           /\ files' = [files EXCEPT !.logs = Cut(@, keep),
                          !.manifests = Cut(@, [n \in DOMAIN files.manifests |-> Manifest(kept, n)])]
  BY Zenon DEF Died
<1> DEFINE at == [n \in DOMAIN files.manifests |-> Manifest(kept, n)]
<1>2. /\ files'.current = files.current /\ files'.tables = files.tables
      /\ files'.logs = Cut(files.logs, keep) /\ files'.manifests = Cut(files.manifests, at)
  <2> DEFINE logs == Cut(files.logs, keep)
             manifests == Cut(files.manifests, at)
  <2>1. files' = [files EXCEPT !.logs = logs, !.manifests = manifests]
    OBVIOUS
  <2> HIDE DEF logs, manifests
  <2>2. DOMAIN files = FileFields
    BY DEF Inv, RecordsOK
  <2>3. /\ files'.current = files.current /\ files'.tables = files.tables
        /\ files'.logs = logs /\ files'.manifests = manifests
    BY <2>1, <2>2 DEF FileFields
  <2> QED
    BY <2>3 DEF logs, manifests
<1>3. ~Open' /\ opening'.pc = "none" /\ leader'.group = {} /\ Len(writers') = 0 /\ DOMAIN mems' = {}
      /\ db'.last_sequence = 0
  BY <1>1, ClosedDBIs DEF Open, NoLeader, NoFcn, ClosedDB
<1>4. DOMAIN calls' = DOMAIN calls
  BY <1>1
<1>5. ASSUME NEW k \in DOMAIN calls
      PROVE  calls'[k].seq = calls[k].seq /\ calls'[k].status # "waiting"
  <2>1. DOMAIN calls[k] = CallFields
    BY DEF Inv, CallsOK
  <2>2. calls'[k] = IF calls[k].status = "waiting" THEN [calls[k] EXCEPT !.status = "lost"] ELSE calls[k]
    BY <1>1
  <2> QED
    BY <2>1, <2>2 DEF CallFields
<1>6. ASSUME NEW n \in DOMAIN files.logs, NEW i \in 1..Len(files'.logs[n].recs)
      PROVE  i \in 1..Len(files.logs[n].recs) /\ files'.logs[n].recs[i] = files.logs[n].recs[i]
  <2> DEFINE l == files.logs[n]
             c == keep[n]
             cut == SubSeq(l.recs, 1, c)
  <2>1. LogOK(l, DOMAIN calls) /\ files'.logs[n] = [l EXCEPT !.recs = cut]
    BY <1>2 DEF AckInv, LogsOK
  <2>2. IF machine THEN l.synced <= c /\ c <= Len(l.recs) ELSE c = Len(l.recs)
    OBVIOUS
  <2>3. c \in Nat
    OBVIOUS
  <2> HIDE DEF l, c, Keep
  <2>4. Len(l.recs) \in Nat /\ l.synced \in 0..Len(l.recs) /\ DOMAIN l = {"recs", "synced", "bad"} /\ IsSeq(l.recs)
    BY <2>1, LogFacts DEF LogOK
  <2>5. c \in 0..Len(l.recs)
    BY <2>2, <2>3, <2>4
  <2>6. Len(cut) = c /\ \A j \in 1..c : cut[j] = l.recs[j]
    BY <2>4, <2>5, CutIs
  <2> HIDE DEF cut
  <2>7. files'.logs[n].recs = cut
    BY <2>1, <2>4
  <2>8. i \in 1..c /\ files'.logs[n].recs[i] = l.recs[i]
    BY <2>6, <2>7
  <2>9. i \in 1..Len(l.recs)
    BY <2>4, <2>5, <2>8
  <2> QED
    BY <2>8, <2>9 DEF l
<1> HIDE DEF Keep
<1>7. ASSUME NEW k, Holds(files', mems', k) PROVE Holds(files, mems, k)
  <2>1. DOMAIN files'.logs = DOMAIN files.logs
    BY <1>2
  <2>2. CASE InLogs(files', k)
    <3>1. PICK n \in DOMAIN files'.logs : \E i \in 1..Len(files'.logs[n].recs) : k \in files'.logs[n].recs[i]
      BY <2>2 DEF InLogs
    <3>2. PICK i \in 1..Len(files'.logs[n].recs) : k \in files'.logs[n].recs[i]
      BY <3>1
    <3>3. n \in DOMAIN files.logs
      BY <2>1
    <3>4. i \in 1..Len(files.logs[n].recs) /\ k \in files.logs[n].recs[i]
      BY <1>6, <3>2, <3>3
    <3> QED
      BY <3>3, <3>4 DEF Holds, InLogs
  <2> QED
    BY <1>2, <1>3, <1>7, <2>2 DEF Holds, InTables
<1>8. ASSUME NEW T, NEW n, Bounded(files, calls, T, n) PROVE Bounded(files', calls', T, n)
  <2>1. \A t \in DOMAIN files.tables : files.tables[t] \subseteq DOMAIN calls
    BY DEF AckInv, EntriesOK
  <2> QED
    BY <1>2, <1>5, <1>8, <2>1 DEF Bounded
<1>9. CurrentSeq(files', calls')
  <2> SUFFICES ASSUME files.current # 0 PROVE CurrentSeq(files', calls')
    BY <1>2 DEF CurrentSeq
  <2> DEFINE c == files.current
             m == files.manifests[c]
             k == [m EXCEPT !.recs = SubSeq(m.recs, 1, at[c])]
  <2>1. c \in DOMAIN files.manifests /\ ManifestOK(m, c, DOMAIN files.tables)
    BY DEF Inv, CurrentOK
  <2>2. at[c] \in {m.synced, Len(m.recs)}
    <3>1. Len(m.recs) \in Nat /\ m.synced \in Nat
      <4>1. PICK S : m.recs \in Seq(S)
        BY <2>1 DEF ManifestOK, IsSeq
      <4>2. Len(m.recs) \in Nat
        BY <4>1, LenProperties
      <4> QED
        <5>1. m.synced \in 0..Len(m.recs)
          BY <2>1 DEF ManifestOK
        <5> QED
          BY <4>2, <5>1
    <3>2. at[c] = m.synced + kept[c] * (Len(m.recs) - m.synced) /\ kept[c] \in {0, 1}
      BY <2>1
    <3> HIDE DEF at
    <3>3. CASE kept[c] = 0
      <4>1. kept[c] * (Len(m.recs) - m.synced) = 0
        BY <3>1, <3>3
      <4> QED
        BY <3>1, <3>2, <4>1
    <3>4. CASE kept[c] = 1
      BY <3>1, <3>2, <3>4
    <3> QED
      BY <3>2, <3>3, <3>4
  <2>3. files'.manifests[files'.current] = k
    BY <1>2, <2>1
  <2>4. \A i \in Latest(m) : Bounded(files, calls, Tables(m.recs[i]), m.recs[i].last_sequence)
    BY DEF SerialInv, RecordsSeq, Current
  <2> HIDE DEF at
  <2>5. \A i \in Latest(k) : i \in Latest(m) /\ k.recs[i] = m.recs[i]
    <3>1. PICK a, h : a = at[c] /\ h = m
      OBVIOUS
    <3>2. ManifestOK(h, c, DOMAIN files.tables) /\ a \in {h.synced, Len(h.recs)}
      BY <2>1, <2>2, <3>1
    <3>3. LET j == [h EXCEPT !.recs = SubSeq(h.recs, 1, a)]
          IN \A i \in Latest(j) : i \in Latest(h) /\ j.recs[i] = h.recs[i]
      BY <3>2, CutLatest
    <3> QED
      BY <3>1, <3>3
  <2> HIDE DEF k, m
  <2>6. ASSUME NEW i \in Latest(k)
        PROVE  Bounded(files', calls', Tables(k.recs[i]), k.recs[i].last_sequence)
    BY <1>8, <2>4, <2>5
  <2> QED
    BY <2>3, <2>6 DEF CurrentSeq
<1>10. RecordsSeq' /\ OpenOK'
  BY <1>3, <1>9, ClosedSeq
<1>11. QueueOrder'
  BY <1>3, <1>4, <1>5 DEF QueueOrder
<1>12. NumberedOK'
  BY <1>3, <1>4, <1>5 DEF SerialInv, NumberedOK
<1>13. Monotone'
  BY <1>3, <1>4, <1>5, <1>7 DEF SerialInv, Monotone, Live, Holds, InTables, InLogs
<1> QED
  BY <1>1, <1>3, <1>10, <1>11, <1>12, <1>13, ClosedSerial

-----------------------------------------------------------------------------
(* The theorems on the order of the writes and on readers. *)

LEMMA InitSerial == DBInit => SerialInv
<1> SUFFICES ASSUME DBInit PROVE SerialInv
  OBVIOUS
<1>1. /\ files = [logs |-> NoFcn, tables |-> NoFcn, manifests |-> NoFcn, current |-> 0]
      /\ calls = <<>> /\ writers = <<>> /\ db = ClosedDB /\ mems = NoFcn
      /\ leader = NoLeader /\ bg = IdleBG /\ opening = NoOpening /\ iter = NoIter
  BY DEF DBInit
<1>2. files.current = 0 /\ DOMAIN files.logs = {} /\ DOMAIN files.tables = {} /\ DOMAIN mems = {}
  BY <1>1 DEF NoFcn
<1>3. ~Open /\ opening.pc = "none" /\ db.last_sequence = 0
  BY <1>1 DEF Open, ClosedDB, NoOpening
<1>4. /\ leader.pc = "none" /\ leader.left = {} /\ leader.group = {} /\ bg.pc = "idle"
      /\ bg.in0 = {} /\ bg.in1 = {} /\ iter.on = FALSE
  BY <1>1 DEF NoLeader, IdleBG, NoIter
<1>5. Len(writers) = 0 /\ DOMAIN calls = {}
  BY <1>1
<1>6. QueueOrder /\ NumberedOK /\ Monotone /\ Counted
  BY <1>3, <1>5 DEF QueueOrder, NumberedOK, Monotone, Counted
<1>7. GroupOK /\ GroupPlaced
  BY <1>4 DEF GroupOK, GroupPlaced, Running
<1>8. RecordsSeq /\ OpenOK
  BY <1>2, <1>3, <1>4 DEF RecordsSeq, OpenOK
<1>9. JobContents /\ ContentsOK /\ PinnedOK /\ SnapshotOK
  BY <1>3, <1>4 DEF JobContents, ContentsOK, PinnedOK, SnapshotOK
<1> QED
  BY <1>6, <1>7, <1>8, <1>9 DEF SerialInv

\* Every step keeps the invariant.
LEMMA NextSerial ==
  ASSUME ~SilentFaults
  PROVE  Inv /\ AckInv /\ SerialInv /\ [DBNext]_dbVars => SerialInv'
<1> SUFFICES ASSUME Inv, AckInv, SerialInv, [DBNext]_dbVars PROVE SerialInv'
  OBVIOUS
<1>1. Inv'
  BY NextInv
<1>2. CASE Write \/ CompactRange
  <2>1. PICK sync, null : Enqueue(sync, null)
    BY <1>2 DEF Write, CompactRange
  <2> QED
    BY <1>1, <2>1, EnqueueSerial
<1>3. CASE WriterStep
  BY <1>1, <1>3, RoomSerial, FoundSerial, SwitchSerial, AppendSerial, InsertSerial, FinishSerial
     DEF WriterStep
<1>4. CASE NewIterator \/ ReleaseIterator
  BY <1>1, <1>4, ReaderSerial
<1>5. CASE BackgroundStep
  BY <1>1, <1>5, NothingSerial, CompactMemSerial, WriteTableSerial, StartSerial, OutputSerial, LogSerial
     DEF BackgroundStep
<1>6. CASE ManualStep \/ Shutdown
  BY <1>1, <1>6, ManualSerial
<1>7. CASE OpenStep
  BY <1>1, <1>7, NewDBSerial, RecoverSerial, RecoverLogSerial, CloseSerial, OpenLogSerial,
     OpenInstallSerial DEF OpenStep
<1>8. CASE Close \/ DestroyDB
  BY <1>1, <1>8, CloseSerial
<1>9. CASE ProcessCrash \/ MachineCrash \/ NullDereference
  BY <1>1, <1>9, CrashSerial DEF ProcessCrash, MachineCrash, NullDereference
<1>10. CASE UNCHANGED dbVars
  <2>1. UNCHANGED <<files, calls, writers, db, mems, leader, bg, opening, iter, must>>
    BY <1>10 DEF dbVars
  <2>2. QueueOrder' /\ NumberedOK'
    BY <2>1 DEF SerialInv, QueueOrder, NumberedOK
  <2>3. GroupOK' /\ GroupPlaced'
    BY <2>1 DEF SerialInv, GroupOK, GroupPlaced, Running, InMem, InTables
  <2>4. Monotone' /\ Counted'
    BY <2>1 DEF SerialInv, Monotone, Counted, Live, Holds, InTables, InLogs, Open
  <2>5. RecordsSeq' /\ OpenOK'
    BY <2>1 DEF SerialInv, RecordsSeq, OpenOK, Bounded, Tables, Latest, Current
  <2>6. JobContents'
    BY <2>1 DEF SerialInv, JobContents, InTables, Tables
  <2>7. ContentsOK' /\ PinnedOK' /\ SnapshotOK'
    BY <2>1 DEF SerialInv, ContentsOK, PinnedOK, SnapshotOK, Has, InMem, InTables, Tables, Open
  <2> QED
    BY <2>2, <2>3, <2>4, <2>5, <2>6, <2>7 DEF SerialInv
<1> QED
  BY <1>2, <1>3, <1>4, <1>5, <1>6, <1>7, <1>8, <1>9, <1>10 DEF DBNext

\* What is in the database.
LEMMA ContentsHas ==
  ASSUME AckInv, NEW k
  PROVE  /\ k \in Contents <=> Has(files, mems, db.mem, db.imm, Tables(db), k)
         /\ k \in Contents => Holds(files, mems, k) /\ k \in DOMAIN calls
<1>1. k \in Stored(db.l0 \cup db.deep) <=> InTables(files, Tables(db), k)
  BY DEF Stored, InTables, Tables
<1>2. \A n : k \in Mem(n) <=> InMem(mems, n, k)
  BY DEF Mem, InMem
<1>3. k \in Contents <=> Has(files, mems, db.mem, db.imm, Tables(db), k)
  BY <1>1, <1>2 DEF Contents, Has
<1>4. k \in Contents => Holds(files, mems, k)
  BY <1>3 DEF Has, Holds, InMem, InTables
<1>5. k \in Contents => k \in DOMAIN calls
  BY <1>3 DEF AckInv, EntriesOK, Has, InMem, InTables
<1> QED
  BY <1>3, <1>4, <1>5

\* In these states the writes are in one order.
LEMMA SerialWrites == Inv /\ AckInv /\ SerialInv => WritesAreSerial
<1> SUFFICES ASSUME Inv, AckInv, SerialInv PROVE WritesAreSerial
  OBVIOUS
<1>1. ASSUME NEW j \in DOMAIN calls, NEW k \in DOMAIN calls, j < k, j \in Contents, k \in Contents
      PROVE  calls[j].seq < calls[k].seq /\ calls[j].seq # calls[k].seq
  <2>1. Holds(files, mems, j) /\ Holds(files, mems, k)
    BY <1>1, ContentsHas
  <2>2. calls[j].seq < calls[k].seq
    BY <1>1, <2>1 DEF SerialInv, Monotone, Live
  <2>3. calls[j].seq \in Nat /\ calls[k].seq \in Nat
    BY DEF SerialInv, NumberedOK
  <2> QED
    BY <2>2, <2>3
<1>2. \A k \in DOMAIN calls : k \in Nat
  <2>1. PICK S : calls \in Seq(S)
    BY DEF Inv, CallsOK, IsSeq
  <2> QED
    BY <2>1, LenProperties
<1>3. SequenceNumbersUnique
  <2> SUFFICES ASSUME NEW j \in Contents, NEW k \in Contents, calls[j].seq = calls[k].seq PROVE j = k
    BY DEF SequenceNumbersUnique
  <2>1. j \in DOMAIN calls /\ k \in DOMAIN calls
    BY ContentsHas
  <2>2. ~(j < k) /\ ~(k < j)
    BY <1>1, <2>1
  <2> QED
    BY <1>2, <2>1, <2>2
<1>4. ASSUME NEW j \in DOMAIN calls, NEW k \in DOMAIN calls, j < k, calls[k].status \in {"ok", "error"}
      PROVE  calls[j].status # "waiting"
  <2> SUFFICES ASSUME calls[j].status = "waiting" PROVE FALSE
    OBVIOUS
  <2>1. PICK i \in 1..Len(writers) : writers[i] = j
    BY DEF SerialInv, QueueOrder
  <2>2. k < writers[i]
    BY <1>4 DEF SerialInv, QueueOrder
  <2>3. k < j /\ j \in Nat /\ k \in Nat
    BY <1>2, <2>1, <2>2
  <2> QED
    BY <1>4, <2>3
<1>5. AnsweredInOrder
  BY <1>1, <1>4 DEF AnsweredInOrder
<1> QED
  BY <1>3, <1>5 DEF WritesAreSerial

\* In these states a reader sees its snapshot.
LEMMA SerialReaders == SerialInv => ReaderSeesItsSnapshot
<1> SUFFICES ASSUME SerialInv, iter.on PROVE ReaderSeesItsSnapshot
  BY DEF ReaderSeesItsSnapshot
<1> DEFINE S == Mem(iter.mem) \cup Mem(iter.imm) \cup Stored(iter.tables)
<1>1. \A k : k \in S <=> Has(files, mems, iter.mem, iter.imm, iter.tables, k)
  BY DEF Mem, Stored, Has, InMem, InTables
<1>2. \A k : k \in iter.expected <=> k \in S /\ calls[k].seq <= iter.snapshot
  BY <1>1 DEF SerialInv, SnapshotOK
<1> HIDE DEF S
<1>3. {k \in S : calls[k].seq <= iter.snapshot} = iter.expected
  BY <1>2
<1> QED
  BY <1>3 DEF S, ReaderSeesItsSnapshot

\* The invariant holds in every reachable state.
THEOREM DBSerialInv ==
  ASSUME ~SilentFaults
  PROVE  DBSpec => [](Inv /\ AckInv /\ SerialInv)
<1>1. DBInit => Inv /\ AckInv /\ SerialInv
  BY InitInv, InitAck, InitSerial
<1>2. (Inv /\ AckInv /\ SerialInv) /\ [DBNext]_dbVars => (Inv /\ AckInv /\ SerialInv)'
  BY NextInv, NextAck, NextSerial
<1> QED
  BY <1>1, <1>2, PTL DEF DBSpec

\* Concurrent writers are put in one order: their sequence numbers follow the
\* order of arrival, also after failed writes, crashes and recoveries, and no
\* call is answered before one that arrived earlier (DBImpl::Write,
\* BuildBatchGroup). Assumed is what DBDurable assumes.
THEOREM DBWritesSerial ==
  ASSUME ~SilentFaults
  PROVE  DBSpec => []WritesAreSerial
<1>1. Inv /\ AckInv /\ SerialInv => WritesAreSerial
  BY SerialWrites
<1> QED
  BY <1>1, DBSerialInv, PTL

\* A reader sees exactly the writes that were acknowledged when it started,
\* whatever is written, switched, flushed, compacted or deleted while it reads
\* (DBImpl::NewInternalIterator, Get). Assumed is what DBDurable assumes.
THEOREM DBReaders ==
  ASSUME ~SilentFaults
  PROVE  DBSpec => []ReaderSeesItsSnapshot
<1>1. Inv /\ AckInv /\ SerialInv => ReaderSeesItsSnapshot
  BY SerialReaders
<1> QED
  BY <1>1, DBSerialInv, PTL

-----------------------------------------------------------------------------
(* Refinement: the database implements AtomicStore. *)

\* The state of the abstract store.
Store == (IF Open THEN Visible ELSE must) \ unsure
Done(c, u) == {k \in DOMAIN c : c[k].status = "ok" /\ ~c[k].null} \ u
Synced(c) == {k \in DOMAIN c : c[k].sync}

\* What a reader sees is what is promised, whatever the leader is at.
LEMMA StoreIs == AckInv /\ SerialInv => Store = Due
<1> SUFFICES ASSUME AckInv, SerialInv PROVE Store = Due
  OBVIOUS
<1>1. CASE ~Open
  BY <1>1 DEF Store, Due
<1>2. CASE Open
  <2>1. ASSUME NEW k \in must PROVE k \in Visible
    <3>1. k \in Contents /\ k \notin leader.group
      BY <1>2, ContentsHas DEF SerialInv, ContentsOK
    <3>2. Holds(files, mems, k) /\ k \in DOMAIN calls
      BY <3>1, ContentsHas
    <3> QED
      BY <1>2, <3>1, <3>2 DEF SerialInv, Counted, Visible
  <2>2. ASSUME NEW k \in Visible PROVE k \in must
    <3>1. k \in Contents /\ k \in DOMAIN calls /\ calls[k].seq <= db.last_sequence
      BY ContentsHas DEF Visible
    <3>2. Has(files, mems, db.mem, db.imm, Tables(db), k)
      BY <3>1, ContentsHas
    <3>3. calls[k].seq \in Nat /\ db.last_sequence \in Nat
      BY <3>1 DEF SerialInv, NumberedOK
    <3>4. k \in leader.group => db.last_sequence < calls[k].seq
      BY <1>2, <3>1 DEF SerialInv, Counted
    <3>5. k \notin leader.group
      BY <3>1, <3>3, <3>4
    <3> QED
      BY <1>2, <3>2, <3>5 DEF SerialInv, ContentsOK
  <2>3. Visible = must
    BY <2>1, <2>2
  <2> QED
    BY <1>2, <2>3 DEF Store, Due
<1> QED
  BY <1>1, <1>2

\* A step that is none of the abstract store.
LEMMA NoStoreStep ==
  ASSUME Store = Due, (Store = Due)', Open' = Open, must' \ unsure' = must \ unsure,
         Done(calls', unsure') = Done(calls, unsure), Synced(calls') = Synced(calls)
  PROVE  UNCHANGED Abstract!storeVars
<1>1. Store = must \ unsure /\ Store' = must' \ unsure'
  BY DEF Due
<1> QED
  BY <1>1 DEF Abstract!storeVars, Store, Done, Synced

\* Most steps leave the promised writes and the calls alone.
Idle ==
  /\ Open' = Open /\ must' = must /\ unsure' = unsure
  /\ DOMAIN calls' = DOMAIN calls
  /\ \A k \in DOMAIN calls : /\ calls'[k].status = calls[k].status
                            /\ calls'[k].null = calls[k].null /\ calls'[k].sync = calls[k].sync

LEMMA IdleStep ==
  ASSUME Store = Due, (Store = Due)', Idle
  PROVE  UNCHANGED Abstract!storeVars
<1>1. Done(calls', unsure') = Done(calls, unsure) /\ Synced(calls') = Synced(calls)
  BY DEF Idle, Done, Synced
<1> QED
  BY <1>1, NoStoreStep DEF Idle

\* Those of the writers before the group is answered.
LEMMA RoomIdle ==
  ASSUME Inv, RoomError \/ RoomDelay \/ RoomFound \/ RoomWait \/ RoomSwitch \/ InsertInto
  PROVE  Idle
<1>1. must' = must /\ unsure' = unsure
  BY DEF RoomError, RoomDelay, RoomFound, RoomWait, RoomSwitch, InsertInto, RoomUnchanged
<1>2. db'.state = db.state
  <2>1. CASE RoomSwitch
    <3> DEFINE d == [db EXCEPT !.next = NewFileNumber(@), !.mem = db.next, !.imm = db.mem]
    <3>1. db' = MaybeScheduleCompaction(d) \/ db' = db
      BY <2>1 DEF RoomSwitch
    <3>2. DOMAIN d = DBFields /\ d.state = db.state
      BY DEF Inv, RecordsOK, DBFields
    <3> HIDE DEF d
    <3> QED
      BY <3>1, <3>2, ScheduleSame DEF Same
  <2> QED
    BY <2>1 DEF RoomError, RoomDelay, RoomFound, RoomWait, InsertInto
<1>3. /\ DOMAIN calls' = DOMAIN calls
      /\ \A k \in DOMAIN calls : /\ calls'[k].status = calls[k].status
                                /\ calls'[k].null = calls[k].null /\ calls'[k].sync = calls[k].sync
  <2>1. CASE UNCHANGED calls
    BY <2>1
  <2>2. CASE RoomFound /\ ~calls[leader.call].null
    <3> DEFINE group == Entries(BuildBatchGroup(leader.call))
               seq(k) == db.last_sequence + Cardinality({j \in group : j <= k})
    <3>1. calls' = [k \in DOMAIN calls |->
                     IF k \in group THEN [calls[k] EXCEPT !.seq = seq(k)] ELSE calls[k]]
      BY <2>2 DEF RoomFound
    <3> HIDE DEF group, seq
    <3>2. DOMAIN calls' = DOMAIN calls
      BY <3>1
    <3>3. ASSUME NEW k \in DOMAIN calls
          PROVE  /\ calls'[k].status = calls[k].status
                 /\ calls'[k].null = calls[k].null /\ calls'[k].sync = calls[k].sync
      <4>1. DOMAIN calls[k] = CallFields
        BY DEF Inv, CallsOK
      <4>2. calls'[k] = [calls[k] EXCEPT !.seq = seq(k)] \/ calls'[k] = calls[k]
        BY <3>1
      <4> QED
        BY <4>1, <4>2 DEF CallFields
    <3> QED
      BY <3>2, <3>3
  <2>3. RoomFound /\ calls[leader.call].null => UNCHANGED calls
    BY DEF RoomFound
  <2> QED
    BY <2>1, <2>2, <2>3 DEF RoomError, RoomDelay, RoomWait, RoomSwitch, InsertInto
<1> QED
  BY <1>1, <1>2, <1>3 DEF Idle, Open

\* Those of the background thread.
LEMMA BackIdle ==
  ASSUME Inv, AckInv, BackgroundStep
  PROVE  Idle
<1>1. BGUnchanged
  BY DEF BackgroundStep, BackgroundNothing, CompactMemTable, WriteLevel0Table, StartCompaction,
         OpenCompactionOutputFile, FinishCompactionOutputFile, LogAndApply
<1>2. DOMAIN db = DBFields /\ DOMAIN bg = BGFields
  BY DEF Inv, RecordsOK
<1>3. db'.state = db.state
  <2>1. CASE BackgroundNothing
    <3> DEFINE d == [db EXCEPT !.scheduled = FALSE]
    <3>1. db' = MaybeScheduleCompaction(d) \/ BackgroundDone(db, db.manual, TRUE)
      BY <2>1 DEF BackgroundNothing
    <3>2. DOMAIN d = DBFields /\ d.state = db.state
      BY <1>2 DEF DBFields
    <3> HIDE DEF d
    <3>3. CASE db' = MaybeScheduleCompaction(d)
      BY <3>2, <3>3, ScheduleSame DEF Same
    <3>4. CASE BackgroundDone(db, db.manual, TRUE)
      BY <1>2, <3>4, BackgroundDoneSame DEF Same
    <3> QED
      BY <3>1, <3>3, <3>4
  <2>2. CASE CompactMemTable \/ StartCompaction
    BY <1>2, <2>2 DEF CompactMemTable, StartCompaction, DBFields
  <2>3. CASE WriteLevel0Table
    <3> DEFINE d == [db EXCEPT !.pending_outputs = @ \ {bg.table}]
    <3>1. db' = d \/ MemTableDone(RecordBackgroundError(d))
      BY <2>3 DEF WriteLevel0Table
    <3>2. DOMAIN d = DBFields /\ d.state = db.state
      BY <1>2 DEF DBFields
    <3> HIDE DEF d
    <3>3. /\ DOMAIN RecordBackgroundError(d) = DBFields
          /\ RecordBackgroundError(d).state = d.state
      BY <3>2, ErrorSame DEF Same
    <3>4. MemTableDone(RecordBackgroundError(d)) => db'.state = d.state
      BY <1>2, <3>3, MemTableDoneSame DEF Same
    <3> QED
      BY <3>1, <3>2, <3>4
  <2>4. CASE OpenCompactionOutputFile
    <3> DEFINE n == db.next
               d == [db EXCEPT !.next = NewFileNumber(@), !.pending_outputs = @ \cup {n}]
               e == [d EXCEPT !.pending_outputs = @ \ {n}]
    <3>1. db' = d \/ CompactionEnds(files, e, FALSE)
      BY <2>4 DEF OpenCompactionOutputFile
    <3>2. DOMAIN d = DBFields /\ d.state = db.state /\ DOMAIN e = DBFields /\ e.state = db.state
      BY <1>2 DEF DBFields
    <3> HIDE DEF d, e
    <3>3. CompactionEnds(files, e, FALSE) => db'.state = e.state
      BY <3>2, EndsSame DEF Same
    <3> QED
      BY <3>1, <3>2, <3>3
  <2>5. CASE FinishCompactionOutputFile
    <3>1. db' = db \/ CompactionEnds(files, db, FALSE)
      BY <2>5 DEF FinishCompactionOutputFile
    <3>2. CompactionEnds(files, db, FALSE) => db'.state = db.state
      BY <1>2, EndsSame DEF Same
    <3> QED
      BY <3>1, <3>2
  <2>6. CASE LogAndApply
    BY <2>6, LogIs DEF InstalledOK, NotInstalledOK, Same
  <2> QED
    BY <2>1, <2>2, <2>3, <2>4, <2>5, <2>6 DEF BackgroundStep
<1> QED
  BY <1>1, <1>3 DEF Idle, Open, BGUnchanged

\* Those of readers, of CompactRange and of Open.
LEMMA OtherIdle ==
  ASSUME Inv, \/ NewIterator \/ ReleaseIterator \/ ManualStep \/ Shutdown
              \/ NewDB \/ Recover \/ RecoverLogFile \/ OpenFails \/ OpenLog
  PROVE  Idle
<1>1. DOMAIN db = DBFields
  BY DEF Inv, RecordsOK
<1>2. UNCHANGED <<calls, must, unsure>>
  <2>1. CASE NewIterator \/ ReleaseIterator
    BY <2>1 DEF NewIterator, ReleaseIterator
  <2>2. CASE ManualStep
    BY <2>2 DEF ManualStep, CompactRangeWaits, CompactRangeStarts, TEST_CompactRange, ManualUnchanged
  <2>3. CASE Shutdown \/ NewDB \/ Recover \/ OpenFails \/ OpenLog
    BY <2>3 DEF Shutdown, NewDB, Recover, OpenFails, OpenLog, OpenUnchanged
  <2>4. CASE RecoverLogFile
    BY <2>4, Zenon DEF RecoverLogFile, OpenUnchanged
  <2> QED
    BY <2>1, <2>2, <2>3, <2>4
<1>3. Open' = Open
  <2>1. CASE NewIterator \/ NewDB
    BY <2>1 DEF NewIterator, NewDB, Open
  <2>2. CASE ReleaseIterator
    <3>1. PICK seek : db' = MaybeScheduleCompaction([db EXCEPT !.seek = seek])
      BY <2>2 DEF ReleaseIterator
    <3> DEFINE d == [db EXCEPT !.seek = seek]
    <3>2. DOMAIN d = DBFields /\ d.state = db.state
      BY <1>1 DEF DBFields
    <3> HIDE DEF d
    <3>3. db' = MaybeScheduleCompaction(d)
      BY <3>1 DEF d
    <3> QED
      BY <3>2, <3>3, ScheduleSame DEF Same, Open
  <2>3. CASE ManualStep
    <3> DEFINE d == [db EXCEPT !.manual = TRUE]
               e == [db EXCEPT !.manual = FALSE]
    <3>1. db' = db \/ db' = e \/ db' = MaybeScheduleCompaction(d)
      BY <2>3 DEF ManualStep, CompactRangeWaits, CompactRangeStarts, TEST_CompactRange
    <3>2. DOMAIN d = DBFields /\ d.state = db.state /\ e.state = db.state
      BY <1>1 DEF DBFields
    <3> HIDE DEF d, e
    <3>3. MaybeScheduleCompaction(d).state = d.state
      BY <3>2, ScheduleSame DEF Same
    <3> QED
      BY <3>1, <3>2, <3>3 DEF Open
  <2>4. CASE Shutdown
    BY <1>1, <2>4 DEF Shutdown, Open, DBFields
  <2>5. CASE Recover
    <3>1. db.state = "closed" /\ db'.state = "opening"
      BY <2>5, ClosedDBIs DEF Recover, DBFields
    <3> QED
      BY <3>1 DEF Open
  <2>6. CASE RecoverLogFile
    <3>1. \E x : db' = [db EXCEPT !.next = x]
      BY <2>6, Zenon DEF RecoverLogFile, LogRecovered
    <3> QED
      BY <1>1, <3>1 DEF DBFields, Open
  <2>7. CASE OpenFails
    <3>1. db.state = "opening" /\ db'.state = "closed"
      BY <2>7, ClosedDBIs DEF OpenFails, Recovered, Inv, ControlOK
    <3> QED
      BY <3>1 DEF Open
  <2>8. CASE OpenLog
    <3>1. \E x, y : db' = [db EXCEPT !.next = x, !.last_sequence = y]
      BY <2>8, Zenon DEF OpenLog
    <3> QED
      BY <1>1, <3>1 DEF DBFields, Open
  <2> QED
    BY <2>1, <2>2, <2>3, <2>4, <2>5, <2>6, <2>7, <2>8
<1> QED
  BY <1>2, <1>3 DEF Idle

\* The group may be given up on, but none of it was promised or answered.
LEMMA AppendStore ==
  ASSUME Inv, SerialInv, Store = Due, (Store = Due)', AppendToLog
  PROVE  UNCHANGED Abstract!storeVars
<1>1. /\ leader.pc = "append" /\ UNCHANGED <<calls, db, must>>
      /\ unsure' = unsure \/ unsure' = unsure \cup leader.group
  BY DEF AppendToLog
<1>2. Open
  BY <1>1 DEF Inv, QueueOK
<1>3. \A k \in leader.group : k \notin must /\ calls[k].status = "waiting"
  BY <1>2 DEF SerialInv, ContentsOK, GroupOK, QueueOrder
<1>4. must' \ unsure' = must \ unsure
  BY <1>1, <1>3
<1>5. Done(calls', unsure') = Done(calls, unsure) /\ Synced(calls') = Synced(calls)
  BY <1>1, <1>3 DEF Done, Synced
<1>6. Open' = Open
  BY <1>1 DEF Open
<1> QED
  BY <1>4, <1>5, <1>6, NoStoreStep

\* A call arrives.
LEMMA EnqueueStore ==
  ASSUME Inv, Store = Due, (Store = Due)', NEW sync, NEW null, Enqueue(sync, null)
  PROVE  Abstract!Issue
<1> DEFINE c == [sync |-> sync, null |-> null, seq |-> 0, status |-> "waiting"]
           n == Len(calls) + 1
<1>1. calls' = Append(calls, c) /\ UNCHANGED <<db, must, unsure>>
  BY DEF Enqueue
<1>2. c.status = "waiting"
  OBVIOUS
<1> HIDE DEF c
<1>3. PICK S : calls \in Seq(S)
  BY DEF Inv, CallsOK, IsSeq
<1>4. /\ Len(calls) \in Nat /\ DOMAIN calls = 1..Len(calls)
      /\ DOMAIN calls' = 1..n /\ calls'[n] = c
      /\ \A k \in 1..Len(calls) : calls'[k] = calls[k]
  <2>1. calls \in Seq(S \cup {c}) /\ c \in S \cup {c}
    BY <1>3
  <2> QED
    BY <1>1, <2>1, AppendProperties, LenProperties
<1>5. DOMAIN calls \subseteq DOMAIN calls' /\ \A k \in DOMAIN calls' : k \in DOMAIN calls \/ k = n
  BY <1>4
<1>6. Done(calls', unsure') = Done(calls, unsure)
  BY <1>1, <1>2, <1>4, <1>5 DEF Done
<1>7. Synced(calls) \subseteq Synced(calls')
  BY <1>4, <1>5 DEF Synced
<1>8. Store' = Store /\ Open' = Open
  BY <1>1 DEF Due, Open
<1> QED
  BY <1>6, <1>7, <1>8 DEF Abstract!Issue, Store, Done, Synced

\* Open succeeds or fails.
LEMMA InstallStore ==
  ASSUME Inv, Store = Due, (Store = Due)', OpenInstall
  PROVE  Abstract!Start \/ UNCHANGED Abstract!storeVars
<1>1. /\ opening.pc = "install" /\ OpenUnchanged
      /\ \/ db'.state = "open" /\ must \ unsure \subseteq must'
         \/ db' = ClosedDB /\ must' = must
  <2> DEFINE d == [db EXCEPT !.state = "open", !.l0 = @ \cup opening.l0, !.log_number = opening.log,
                             !.mem = opening.log]
  <2>1. DOMAIN d = DBFields /\ d.state = "open"
    BY DEF Inv, RecordsOK, DBFields
  <2>2. /\ opening.pc = "install" /\ OpenUnchanged
        /\ \/ db' = MaybeScheduleCompaction(d) /\ must \ unsure \subseteq must'
           \/ db' = ClosedDB /\ must' = must
    BY DEF OpenInstall
  <2> HIDE DEF d
  <2> QED
    BY <2>1, <2>2, ScheduleSame DEF Same
<1>2. ~Open
  BY <1>1 DEF Inv, ControlOK, Open
<1>3. calls' = calls /\ unsure' = unsure
  BY <1>1 DEF OpenUnchanged
<1>4. CASE db'.state = "open" /\ must \ unsure \subseteq must'
  <2>1. Open' /\ Store \subseteq Store'
    BY <1>3, <1>4 DEF Open, Due
  <2> QED
    BY <1>2, <1>3, <2>1 DEF Abstract!Start, Store
<1>5. CASE db' = ClosedDB /\ must' = must
  <2>1. Idle
    BY <1>2, <1>3, <1>5, ClosedDBIs DEF Idle, Open
  <2> QED
    BY <2>1, IdleStep
<1> QED
  BY <1>1, <1>4, <1>5

\* Close, and DestroyDB.
LEMMA CloseStore ==
  ASSUME Inv, Store = Due, (Store = Due)', Close \/ DestroyDB
  PROVE  Abstract!Stop \/ Abstract!Destroy
<1>1. UNCHANGED <<calls, unsure>>
  BY DEF Close, DestroyDB, OpenUnchanged
<1>2. CASE Close
  <2>1. ~Open' /\ Store' = Store
    BY <1>1, <1>2, ClosedDBIs DEF Close, Open, Due
  <2> QED
    BY <1>1, <2>1 DEF Abstract!Stop, Store
<1>3. CASE DestroyDB
  <2>1. ~Open /\ Open' = Open /\ Store' = {}
    BY <1>1, <1>3 DEF DestroyDB, Open, Due
  <2> QED
    BY <1>1, <2>1 DEF Abstract!Destroy, Store
<1> QED
  BY <1>2, <1>3

\* A crash takes at most writes that were not synced.
LEMMA CrashStore ==
  ASSUME Inv, AckInv, Store = Due, (Store = Due)', NEW machine \in BOOLEAN, Died(machine)
  PROVE  Abstract!Stop
<1>1. /\ db' = ClosedDB /\ unsure' = unsure
      /\ calls' = [k \in DOMAIN calls |-> IF calls[k].status = "waiting"
                                            THEN [calls[k] EXCEPT !.status = "lost"] ELSE calls[k]]
  BY Zenon DEF Died
<1>2. must' = IF machine THEN {k \in must : calls[k].sync} ELSE must
  BY Zenon DEF Died
<1>3. DOMAIN calls' = DOMAIN calls
  BY <1>1
<1>4. ASSUME NEW k \in DOMAIN calls
      PROVE  /\ calls'[k].status = "ok" <=> calls[k].status = "ok"
             /\ calls'[k].null = calls[k].null /\ calls'[k].sync = calls[k].sync
  <2>1. DOMAIN calls[k] = CallFields
    BY DEF Inv, CallsOK
  <2>2. calls'[k] = IF calls[k].status = "waiting" THEN [calls[k] EXCEPT !.status = "lost"] ELSE calls[k]
    BY <1>1
  <2> QED
    BY <2>1, <2>2 DEF CallFields
<1>5. Done(calls', unsure') = Done(calls, unsure) /\ Synced(calls') = Synced(calls)
  BY <1>1, <1>3, <1>4 DEF Done, Synced
<1>6. ~Open'
  BY <1>1, ClosedDBIs DEF Open
<1>7. Store' \subseteq Store /\ \A k \in Store \ Store' : k \in must /\ ~calls[k].sync
  BY <1>1, <1>2 DEF Due
<1>8. \A k \in must : k \in Nat
  <2>1. PICK S : calls \in Seq(S)
    BY DEF Inv, CallsOK, IsSeq
  <2>2. DOMAIN calls \subseteq Nat
    BY <2>1, LenProperties
  <2> QED
    BY <2>2 DEF AckInv, EntriesOK
<1>9. Store \ Store' \subseteq Nat \ Synced(calls)
  BY <1>7, <1>8 DEF Synced
<1> QED
  BY <1>5, <1>6, <1>7, <1>9 DEF Abstract!Stop, Store, Done, Synced

\* The group appears at once when it is answered, if all went well.
LEMMA FinishStore ==
  ASSUME Inv, AckInv, SerialInv, Store = Due, (Store = Due)', FinishWrite
  PROVE  Abstract!Commit \/ UNCHANGED Abstract!storeVars
<1> DEFINE n == CHOOSE i \in DOMAIN writers : writers[i] = leader.last
           done == {writers[i] : i \in 1..n}
           answer == IF leader.status = "ok" THEN "ok" ELSE "error"
           d == [db EXCEPT !.last_sequence = AdvanceSequence(Cardinality(leader.group))]
<1>1. /\ leader.pc = "finish" /\ unsure' = unsure
      /\ db' = IF leader.status = "sync_error" THEN RecordBackgroundError(d) ELSE d
      /\ calls' = [k \in DOMAIN calls |-> IF k \in done THEN [calls[k] EXCEPT !.status = answer]
                                                        ELSE calls[k]]
      /\ must' = IF answer = "ok" THEN must \cup leader.group ELSE must
  BY DEF FinishWrite
<1>2. /\ writers \in Seq(Nat) /\ Len(writers) \in Nat /\ DOMAIN writers = 1..Len(writers)
      /\ \A i \in 1..Len(writers) : writers[i] \in Nat /\ writers[i] \in DOMAIN calls
      /\ leader.group \subseteq DOMAIN calls
  BY QueueFacts DEF AckInv, EntriesOK
<1>3. n \in 1..Len(writers) /\ writers[n] = leader.last
  BY <1>1, <1>2 DEF Inv, QueueOK
<1>4. answer = "ok" <=> leader.status = "ok"
  OBVIOUS
<1> HIDE DEF n, answer
<1>5. Open /\ Open' = Open
  <2>1. Open /\ DOMAIN db = DBFields
    BY <1>1 DEF Inv, QueueOK, RecordsOK
  <2>2. DOMAIN d = DBFields /\ d.state = db.state
    BY <2>1 DEF DBFields
  <2> HIDE DEF d
  <2>3. RecordBackgroundError(d).state = d.state
    BY <2>2, ErrorSame DEF Same
  <2> QED
    BY <1>1, <2>1, <2>2, <2>3 DEF Open
<1> HIDE DEF d
<1>6. \A k \in done : k \in DOMAIN calls /\ calls[k].status = "waiting"
  BY <1>2, <1>3 DEF SerialInv, QueueOrder
<1>7. /\ DOMAIN calls' = DOMAIN calls
      /\ \A k \in DOMAIN calls :
           /\ calls'[k].null = calls[k].null /\ calls'[k].sync = calls[k].sync
           /\ calls'[k].status = IF k \in done THEN answer ELSE calls[k].status
  <2> HIDE DEF done
  <2>1. DOMAIN calls' = DOMAIN calls
    BY <1>1
  <2>2. ASSUME NEW k \in DOMAIN calls
        PROVE  /\ calls'[k].null = calls[k].null /\ calls'[k].sync = calls[k].sync
               /\ calls'[k].status = IF k \in done THEN answer ELSE calls[k].status
    <3>1. DOMAIN calls[k] = CallFields
      BY DEF Inv, CallsOK
    <3>2. calls'[k] = IF k \in done THEN [calls[k] EXCEPT !.status = answer] ELSE calls[k]
      BY <1>1
    <3> QED
      BY <3>1, <3>2 DEF CallFields
  <2> QED
    BY <2>1, <2>2
<1>8. Synced(calls') = Synced(calls)
  BY <1>7 DEF Synced
<1>9. \A k \in leader.group : k \notin must /\ calls[k].status = "waiting"
  BY <1>5 DEF SerialInv, ContentsOK, GroupOK, QueueOrder
<1>10. CASE leader.status # "ok"
  <2>1. answer # "ok" /\ must' = must
    BY <1>1, <1>4, <1>10
  <2> HIDE DEF done
  <2>2. Done(calls', unsure') = Done(calls, unsure)
    BY <1>1, <1>6, <1>7, <2>1 DEF Done
  <2> QED
    BY <1>1, <1>5, <1>8, <2>1, <2>2, NoStoreStep
<1>11. CASE leader.status = "ok"
  <2>1. \A i \in 1..Len(writers) : i <= n <=> writers[i] <= leader.last
    <3> SUFFICES ASSUME NEW i \in 1..Len(writers) PROVE i <= n <=> writers[i] <= leader.last
      OBVIOUS
    <3>1. i \in Nat /\ n \in Nat /\ writers[i] \in Nat /\ writers[n] \in Nat
      BY <1>2, <1>3
    <3>2. /\ i < n => writers[i] < writers[n]
          /\ n < i => writers[n] < writers[i]
      BY <1>3 DEF SerialInv, QueueOrder
    <3>3. CASE i < n
      BY <1>3, <3>1, <3>2, <3>3
    <3>4. CASE i = n
      BY <1>3, <3>1, <3>4
    <3>5. CASE n < i
      BY <1>3, <3>1, <3>2, <3>5
    <3> QED
      BY <3>1, <3>3, <3>4, <3>5
  <2>2. 1..n \subseteq 1..Len(writers) /\ \A i \in 1..Len(writers) : i <= n => i \in 1..n
    BY <1>2, <1>3
  <2>3. ASSUME NEW k \in done, ~calls[k].null PROVE k \in leader.group
    <3>1. PICK i \in 1..n : k = writers[i]
      OBVIOUS
    <3>2. i \in 1..Len(writers) /\ writers[i] <= leader.last
      <4>1. i <= n /\ i \in 1..Len(writers)
        BY <1>3, <2>2, <3>1
      <4> QED
        BY <2>1, <4>1
    <3> QED
      BY <1>1, <1>11, <2>3, <3>1, <3>2 DEF SerialInv, GroupOK, Running
  <2>4. ASSUME NEW k \in leader.group PROVE k \in done /\ ~calls[k].null
    <3>1. ~calls[k].null /\ k <= leader.last
      BY DEF SerialInv, GroupOK
    <3>2. PICK i \in 1..Len(writers) : writers[i] = k
      BY DEF SerialInv, GroupOK
    <3>3. i \in 1..n
      BY <2>1, <2>2, <3>1, <3>2
    <3> QED
      BY <3>1, <3>2, <3>3
  <2> HIDE DEF done
  <2>5. must' = must \cup leader.group /\ answer = "ok"
    BY <1>1, <1>4, <1>11
  <2>6. \A k : k \in Done(calls', unsure') <=>
                 k \in Done(calls, unsure) \/ (k \in leader.group /\ k \notin unsure)
    BY <1>1, <1>2, <1>6, <1>7, <2>3, <2>4, <2>5 DEF Done
  <2>7. \A k \in leader.group : k \notin Done(calls, unsure)
    BY <1>9 DEF Done
  <2>8. Done(calls, unsure) \subseteq Done(calls', unsure')
        /\ Done(calls', unsure') \ Done(calls, unsure) = leader.group \ unsure
    BY <2>6, <2>7
  <2>9. Store \subseteq Store' /\ Store' \ Store = leader.group \ unsure
    BY <1>1, <1>9, <2>5 DEF Due
  <2> QED
    BY <1>5, <1>8, <2>8, <2>9 DEF Abstract!Commit, Store, Done, Synced
<1> QED
  BY <1>10, <1>11

\* Every step is one of the abstract store, or none.
LEMMA NextStore ==
  Inv /\ AckInv /\ SerialInv /\ Store = Due /\ (Store = Due)' /\ [DBNext]_dbVars
    => [Abstract!StoreNext]_(Abstract!storeVars)
<1> SUFFICES ASSUME Inv, AckInv, SerialInv, Store = Due, (Store = Due)', [DBNext]_dbVars
             PROVE  [Abstract!StoreNext]_(Abstract!storeVars)
  OBVIOUS
<1>1. CASE Write \/ CompactRange
  <2>1. PICK sync, null : Enqueue(sync, null)
    BY <1>1 DEF Write, CompactRange
  <2>2. Abstract!Issue
    BY <2>1, EnqueueStore
  <2> QED
    BY <2>2 DEF Abstract!StoreNext
<1>2. CASE WriterStep
  <2>1. CASE AppendToLog
    BY <2>1, AppendStore
  <2>2. CASE FinishWrite
    BY <2>2, FinishStore DEF Abstract!StoreNext
  <2>3. CASE RoomError \/ RoomDelay \/ RoomFound \/ RoomWait \/ RoomSwitch \/ InsertInto
    BY <2>3, RoomIdle, IdleStep
  <2> QED
    BY <1>2, <2>1, <2>2, <2>3 DEF WriterStep
<1>3. CASE BackgroundStep
  BY <1>3, BackIdle, IdleStep
<1>4. CASE OpenInstall
  BY <1>4, InstallStore DEF Abstract!StoreNext
<1>5. CASE \/ NewIterator \/ ReleaseIterator \/ ManualStep \/ Shutdown
           \/ NewDB \/ Recover \/ RecoverLogFile \/ OpenFails \/ OpenLog
  BY <1>5, OtherIdle, IdleStep
<1>6. CASE Close \/ DestroyDB
  BY <1>6, CloseStore DEF Abstract!StoreNext
<1>7. CASE ProcessCrash \/ MachineCrash \/ NullDereference
  <2>1. Abstract!Stop
    BY <1>7, CrashStore DEF ProcessCrash, MachineCrash, NullDereference
  <2> QED
    BY <2>1 DEF Abstract!StoreNext
<1>8. CASE UNCHANGED dbVars
  <2>1. Idle
    BY <1>8 DEF dbVars, Idle, Open
  <2> QED
    BY <2>1, IdleStep
<1> QED
  BY <1>1, <1>2, <1>3, <1>4, <1>5, <1>6, <1>7, <1>8 DEF DBNext, OpenStep

\* Group commit, memtables, logs, flushes, compactions, recovery and the
\* deletion of files implement a set of writes to which acknowledged writes are
\* added atomically, and which loses at most unsynced writes in a crash.
\* Assumed is what DBDurable assumes.
THEOREM DBRefines ==
  ASSUME ~SilentFaults
  PROVE  DBSpec => RefinesAtomicStore
<1>1. DBInit => Abstract!StoreInit
  <2> SUFFICES ASSUME DBInit PROVE Abstract!StoreInit
    OBVIOUS
  <2>1. must = {} /\ DOMAIN calls = {} /\ ~Open
    BY DEF DBInit, Open, ClosedDB
  <2> QED
    BY <2>1 DEF Abstract!StoreInit
<1>2. Inv /\ AckInv /\ SerialInv => Store = Due
  BY StoreIs
<1>3. Inv /\ AckInv /\ SerialInv /\ Store = Due /\ (Store = Due)' /\ [DBNext]_dbVars
        => [Abstract!StoreNext]_(Abstract!storeVars)
  BY NextStore
<1>4. DBSpec => [](Inv /\ AckInv /\ SerialInv)
  BY DBSerialInv
<1> QED
  BY <1>1, <1>2, <1>3, <1>4, PTL DEF DBSpec, RefinesAtomicStore, Abstract!StoreSpec
=============================================================================
