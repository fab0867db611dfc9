---------------------------- MODULE DBImpl_proofs ----------------------------
(***************************************************************************)
(* Proofs about DBImpl: for any number of writes, crashes, I/O errors and  *)
(* readers and any limits, no file that is needed is deleted, and every    *)
(* state a crash may leave can be opened.                                  *)
(***************************************************************************)
EXTENDS DBImpl, SequenceTheorems, WellFoundedInduction,
        NaturalsInduction, TLAPS

-----------------------------------------------------------------------------
(* Records are known by their fields; values need no types. *)
DBFields == {"state", "mem", "imm", "bg_error", "scheduled", "shutting_down", "manual",
             "pending_outputs", "next", "last_sequence", "log_number", "manifest",
             "l0", "deep", "seek"}
FileFields == {"logs", "tables", "manifests", "current"}
BGFields == {"pc", "job", "base", "in0", "in1", "out", "table", "edit", "is_manual"}
LeaderFields == {"pc", "call", "force", "allow_delay", "group", "left", "last", "status"}
ManualFields == {"pc", "done", "call"}
OpeningFields == {"pc", "todo", "s", "l0", "max_sequence", "log"}
IterFields == {"on", "mem", "imm", "tables", "snapshot", "expected"}
CallFields == {"sync", "null", "seq", "status"}

IsSeq(s) == \E S : s \in Seq(S)

RecordsOK ==
  /\ DOMAIN db = DBFields /\ DOMAIN files = FileFields /\ DOMAIN bg = BGFields
  /\ DOMAIN leader = LeaderFields /\ DOMAIN manual = ManualFields
  /\ DOMAIN opening = OpeningFields /\ DOMAIN iter = IterFields

CallsOK ==
  /\ IsSeq(calls)
  /\ \A k \in DOMAIN calls :
       DOMAIN calls[k] = CallFields /\ calls[k].status \in {"waiting", "ok", "error", "lost"}
-----------------------------------------------------------------------------
(* The inductive invariant, in four parts. *)

\* The threads: who runs when, and the queue of writers.
QueueOK ==
  /\ writers \in Seq(Nat)
  /\ leader.pc \in {"none", "room", "append", "insert", "finish"}
  /\ (writers = <<>>) <=> (leader.pc = "none")
  /\ leader.pc # "none" => leader.call = writers[1] /\ Open /\ ~db.shutting_down
  /\ leader.pc \in {"append", "insert", "finish"} =>
       \E i \in 1..Len(writers) : writers[i] = leader.last

ControlOK ==
  /\ db.state \in {"closed", "opening", "open"}
  /\ bg.pc \in {"idle", "building", "working", "logging", "null"}
  /\ manual.pc \in {"none", "imm", "range"}
  /\ opening.pc \in {"none", "logs", "install"}
  /\ db.shutting_down \/ db.scheduled => Open
  /\ bg.pc # "idle" => Open /\ (db.scheduled \/ bg.pc = "null")
  /\ bg.pc = "idle" => bg.base = {} /\ bg.out = 0
  /\ iter.on \/ manual.pc # "none" => Open /\ ~db.shutting_down
  /\ ~iter.on => iter.tables = {}
  /\ opening.pc # "none" => db.state = "opening"

\* The numbers of files.
NumbersOK ==
  /\ db.next \in Nat /\ db.manifest \in Nat
  /\ DOMAIN files.logs \subseteq Nat /\ opening.todo \subseteq Nat
  /\ db.state # "closed" => db.manifest < db.next
  /\ Open => db.mem \in Nat /\ db.mem < db.next
  /\ opening.pc = "install" => opening.log \in Nat /\ opening.log < db.next
  /\ bg.out \in Nat /\ (bg.out # 0 => bg.out < db.next)
  /\ bg.pc = "building" => bg.table # bg.out
  /\ bg.pc = "logging" => bg.edit.next \in Nat /\ db.manifest < bg.edit.next

\* The tables that are needed.
TablesOK ==
  LET T == DOMAIN files.tables IN
  /\ db.state # "closed" => db.l0 \cup db.deep \subseteq T
  /\ iter.tables \cup bg.base \subseteq T
  /\ bg.out # 0 => bg.out \in db.pending_outputs \cap T
  /\ bg.pc = "logging" => bg.edit.l0 \cup bg.edit.deep \subseteq T
  /\ opening.pc # "none" => opening.l0 \subseteq T

\* The records of a MANIFEST m, and those a restart may find.
ManifestOK(m, n, T) ==
  /\ DOMAIN m = {"recs", "synced"} /\ IsSeq(m.recs)
  /\ m.synced \in 0..Len(m.recs)
  /\ \A i \in 1..Len(m.recs) :
       /\ m.recs[i].next \in Nat /\ n < m.recs[i].next
       /\ i >= m.synced => m.recs[i].l0 \cup m.recs[i].deep \subseteq T

CurrentOK ==
  /\ files.current \in Nat
  /\ files.current = 0 => must = {} /\ db.state = "closed"
  /\ files.current # 0 =>
       /\ files.current \in DOMAIN files.manifests
       /\ ManifestOK(files.manifests[files.current], files.current, DOMAIN files.tables)
       /\ files.manifests[files.current].synced = 0 => must = {}
  /\ Open => db.manifest = files.current /\ files.manifests[files.current].synced # 0
  /\ db.state = "opening" => files.current < db.manifest
  /\ opening.pc = "install" =>
       LET m == files.manifests[db.manifest] IN
       /\ db.manifest \in DOMAIN files.manifests
       /\ ManifestOK(m, db.manifest, DOMAIN files.tables)
       /\ Len(m.recs) = 1 /\ m.synced = 1
       /\ m.recs[1].l0 = db.l0 \cup opening.l0 /\ m.recs[1].deep = db.deep

Inv == RecordsOK /\ CallsOK /\ QueueOK /\ ControlOK /\ NumbersOK /\ TablesOK /\ CurrentOK

-----------------------------------------------------------------------------
(* Lemmas about the operators of DBImpl. *)

\* What the invariant says of db depends on these fields.
Keeps(d, e) ==
  /\ DOMAIN e = DBFields /\ e.state = d.state /\ e.mem = d.mem
  /\ e.shutting_down = d.shutting_down /\ e.pending_outputs = d.pending_outputs
  /\ e.next = d.next /\ e.manifest = d.manifest /\ e.l0 = d.l0 /\ e.deep = d.deep

\* MaybeScheduleCompaction only ever sets bg_compaction_scheduled_.
LEMMA ScheduleKeeps ==
  ASSUME NEW d, DOMAIN d = DBFields
  PROVE  LET e == MaybeScheduleCompaction(d)
         IN Keeps(d, e) /\ e.bg_error = d.bg_error /\ (d.scheduled => e.scheduled)
BY DEF MaybeScheduleCompaction, DBFields, Keeps

\* RecordBackgroundError sets the error and leaves the rest.
LEMMA ErrorKeeps ==
  ASSUME NEW d, DOMAIN d = DBFields
  PROVE  LET e == RecordBackgroundError(d)
         IN Keeps(d, e) /\ e.bg_error = TRUE /\ e.scheduled = d.scheduled
BY DEF RecordBackgroundError, DBFields, Keeps

\* With adds or replaces one element.
LEMMA WithDomain ==
  ASSUME NEW f, NEW n, NEW v
  PROVE  /\ DOMAIN With(f, n, v) = DOMAIN f \cup {n}
         /\ With(f, n, v)[n] = v
         /\ \A m \in DOMAIN f : m # n => With(f, n, v)[m] = f[m]
BY DEF With

\* DeleteObsoleteFiles keeps the tables that are live or being written, and
\* the MANIFEST in use.
LEMMA DeleteKeeps ==
  ASSUME NEW f, NEW d, NEW b, DOMAIN f = FileFields
  PROVE  LET g == DeleteObsoleteFiles(f, d, b)
         IN /\ DOMAIN g = FileFields /\ g.current = f.current
            /\ DOMAIN g.logs \subseteq DOMAIN f.logs
            /\ DOMAIN f.tables \cap (LiveTables(d, b) \cup d.pending_outputs) \subseteq DOMAIN g.tables
            /\ \A n \in DOMAIN f.manifests : n >= d.manifest =>
                 n \in DOMAIN g.manifests /\ g.manifests[n] = f.manifests[n]
<1> DEFINE g == DeleteObsoleteFiles(f, d, b)
           logs == Only(f.logs, {n \in DOMAIN f.logs : n >= d.log_number})
           manifests == Only(f.manifests, {n \in DOMAIN f.manifests : n >= d.manifest})
           tables == Only(f.tables, LiveTables(d, b) \cup d.pending_outputs)
<1>1. CASE d.bg_error
  BY <1>1 DEF DeleteObsoleteFiles
<1>2. CASE ~d.bg_error
  <2>1. g = [f EXCEPT !.logs = logs, !.manifests = manifests, !.tables = tables]
    BY <1>2 DEF DeleteObsoleteFiles
  <2>2. /\ DOMAIN logs \subseteq DOMAIN f.logs
        /\ DOMAIN tables = DOMAIN f.tables \cap (LiveTables(d, b) \cup d.pending_outputs)
        /\ \A n \in DOMAIN f.manifests : n >= d.manifest =>
             n \in DOMAIN manifests /\ manifests[n] = f.manifests[n]
    BY DEF Only
  <2> HIDE DEF g, logs, manifests, tables
  <2>3. /\ DOMAIN g = FileFields /\ g.current = f.current
        /\ g.logs = logs /\ g.tables = tables /\ g.manifests = manifests
    BY <2>1 DEF FileFields
  <2> QED
    BY <2>2, <2>3 DEF g
<1> QED
  BY <1>1, <1>2

-----------------------------------------------------------------------------
(* Steps that leave the files and the version alone. *)

\* A step that changes neither files nor version keeps what is said of them.
LEMMA QuietStep ==
  ASSUME Inv, Keeps(db, db'), db.scheduled => db'.scheduled,
         UNCHANGED <<bg, opening>>,
         UNCHANGED iter \/ (iter'.on = FALSE /\ iter'.tables = {}),
         manual'.pc \in {"none", "imm", "range"},
         files'.current = files.current, files'.manifests = files.manifests,
         DOMAIN files'.tables = DOMAIN files.tables, DOMAIN files'.logs = DOMAIN files.logs,
         UNCHANGED must \/ Open,
         Open \/ db'.scheduled = db.scheduled,
         manual'.pc = manual.pc \/ (Open /\ ~db.shutting_down)
  PROVE  ControlOK' /\ NumbersOK' /\ TablesOK' /\ CurrentOK'
<1>1. ControlOK'
  BY DEF Inv, ControlOK, Keeps, Open
<1>2. NumbersOK'
  BY DEF Inv, NumbersOK, Keeps, Open
<1>3. TablesOK'
  BY DEF Inv, TablesOK, Keeps
<1>4. CurrentOK'
  <2>1. files.current = 0 => must' = {}
    BY DEF Inv, CurrentOK, Open
  <2>2. files.current # 0 /\ files.manifests[files.current].synced = 0 => must' = {}
    BY DEF Inv, CurrentOK, Open
  <2> QED
    BY <2>1, <2>2 DEF Inv, CurrentOK, Keeps, Open
<1> QED
  BY <1>1, <1>2, <1>3, <1>4

-----------------------------------------------------------------------------
(* Naturals and sequences. *)

\* The order of the naturals is well founded.
LEMMA LeastNat ==
  ASSUME NEW T \in SUBSET Nat, T # {}
  PROVE  \E x \in T : \A y \in T : x <= y
<1> DEFINE R == {ss \in Nat \X Nat : ss[1] < ss[2]}
<1>1. R = OpToRel(<, Nat)
  BY Zenon DEF OpToRel
<1>2. IsWellFoundedOn(R, Nat)
  BY <1>1, NatLessThanWellFounded, Zenon
<1>3. ASSUME NEW x \in Nat, NEW y \in Nat, y < x PROVE <<y, x>> \in R
  <2>1. <<y, x>>[1] < <<y, x>>[2]
    BY <1>3, Zenon
  <2>2. <<y, x>> \in Nat \X Nat
    OBVIOUS
  <2> QED
    BY <2>1, <2>2, Zenon
<1> HIDE DEF R
<1>4. PICK x \in T : \A y \in T : ~(<<y, x>> \in R)
  BY <1>2, WFMin
<1>5. ASSUME NEW y \in T PROVE x <= y
  <2>1. x \in Nat /\ y \in Nat
    OBVIOUS
  <2>2. ~(y < x)
    BY <1>3, <1>4, <2>1, Zenon
  <2> QED
    BY <2>1, <2>2
<1> QED
  BY <1>5

\* A set of positions that is not empty has a last one.
LEMMA MaxIs ==
  ASSUME NEW n \in Nat, NEW T \in SUBSET (0..n), T # {}
  PROVE  Max(T) \in T /\ \A y \in T : Max(T) >= y
<1> DEFINE U == {n - m : m \in T}
<1>1. U \in SUBSET Nat /\ U # {}
  <2>1. \A m \in T : m \in Nat /\ n - m \in Nat
    OBVIOUS
  <2>2. PICK m \in T : TRUE
    OBVIOUS
  <2>3. n - m \in U
    OBVIOUS
  <2> QED
    BY <2>1, <2>3
<1>2. PICK u \in U : \A v \in U : u <= v
  BY <1>1, LeastNat
<1>3. PICK x \in T : u = n - x
  OBVIOUS
<1>4. ASSUME NEW y \in T PROVE x >= y
  <2>1. n - y \in U
    OBVIOUS
  <2>2. n - x <= n - y
    BY <1>2, <1>3, <2>1
  <2>3. x \in Int /\ y \in Int
    OBVIOUS
  <2> QED
    BY <2>2, <2>3
<1>5. \E z \in T : \A y \in T : z >= y
  BY <1>4
<1> QED
  BY <1>5, Zenon DEF Max

\* A function on the positions of a sequence is a sequence.
LEMMA IsSeqOf ==
  ASSUME NEW s, IsSeq(s), NEW f, f = [k \in DOMAIN s |-> f[k]]
  PROVE  IsSeq(f)
<1>1. PICK S : s \in Seq(S)
  BY DEF IsSeq
<1>2. Len(s) \in Nat /\ DOMAIN s = 1..Len(s)
  BY <1>1, LenProperties
<1>3. f \in Seq({f[k] : k \in 1..Len(s)})
  BY <1>2
<1> QED
  BY <1>3 DEF IsSeq

\* What Append does to a sequence whose elements are not known.
LEMMA AppendIs ==
  ASSUME NEW s, IsSeq(s), NEW x
  PROVE  LET t == Append(s, x)
         IN /\ IsSeq(t) /\ Len(s) \in Nat /\ Len(t) = Len(s) + 1
            /\ DOMAIN s = 1..Len(s) /\ DOMAIN t = 1..Len(t)
            /\ t[Len(s) + 1] = x /\ \A i \in 1..Len(s) : t[i] = s[i]
<1> DEFINE t == Append(s, x)
<1>1. PICK S : s \in Seq(S)
  BY DEF IsSeq
<1>2. s \in Seq(S \cup {x})
  BY <1>1, SeqMonotonic
<1>3. /\ t \in Seq(S \cup {x}) /\ Len(t) = Len(s) + 1
      /\ t[Len(s) + 1] = x /\ \A i \in 1..Len(s) : t[i] = s[i]
  BY <1>2, AppendProperties
<1>4. Len(s) \in Nat /\ DOMAIN s = 1..Len(s) /\ DOMAIN t = 1..Len(t)
  BY <1>1, <1>3, LenProperties
<1> HIDE DEF t
<1> QED
  BY <1>3, <1>4 DEF t, IsSeq

-----------------------------------------------------------------------------
(* Write. *)

\* A step of the queue's first writer keeps everything else.
LEMMA WriterQuiet ==
  ASSUME Inv, RoomUnchanged \/ UNCHANGED <<bg, manual, opening, iter>>,
         UNCHANGED files, UNCHANGED db, UNCHANGED must \/ Open
  PROVE  ControlOK' /\ NumbersOK' /\ TablesOK' /\ CurrentOK'
<1>1. Keeps(db, db')
  BY DEF Inv, RecordsOK, Keeps
<1>2. UNCHANGED <<bg, manual, opening, iter>>
  BY DEF RoomUnchanged
<1>3. manual'.pc \in {"none", "imm", "range"}
  BY <1>2 DEF Inv, ControlOK
<1> QED
  BY <1>1, <1>2, <1>3, QuietStep

\* A new call is put at the end of the queue.
LEMMA EnqueueStep ==
  ASSUME Inv, NEW sync \in BOOLEAN, NEW null \in BOOLEAN, Enqueue(sync, null),
         DOMAIN manual' = ManualFields, manual'.pc \in {"none", "imm", "range"}
  PROVE  Inv'
<1> DEFINE k == Len(calls) + 1
           call == [sync |-> sync, null |-> null, seq |-> 0, status |-> "waiting"]
<1>1. /\ Open /\ ~db.shutting_down
      /\ calls' = Append(calls, call) /\ writers' = Append(writers, k)
      /\ leader' = IF writers = <<>> THEN Lead(k, null) ELSE leader
      /\ UNCHANGED <<files, db, mems, bg, asleep, opening, iter, must, unsure>>
  BY DEF Enqueue
<1>2. /\ IsSeq(calls') /\ Len(calls) \in Nat /\ DOMAIN calls = 1..Len(calls)
      /\ DOMAIN calls' = 1..(Len(calls) + 1)
      /\ calls'[k] = call /\ \A i \in 1..Len(calls) : calls'[i] = calls[i]
  <2>1. IsSeq(calls)
    BY DEF Inv, CallsOK
  <2> HIDE DEF call
  <2> QED
    BY <1>1, <2>1, AppendIs
<1>3. CallsOK'
  <2>1. ASSUME NEW i \in DOMAIN calls'
        PROVE  DOMAIN calls'[i] = CallFields /\ calls'[i].status \in {"waiting", "ok", "error", "lost"}
    <3>1. i \in 1..Len(calls) \/ i = k
      BY <1>2
    <3>2. CASE i = k
      BY <1>2, <3>2 DEF CallFields
    <3>3. CASE i \in 1..Len(calls)
      BY <1>2, <3>3 DEF Inv, CallsOK
    <3> QED
      BY <3>1, <3>2, <3>3
  <2> QED
    BY <1>2, <2>1 DEF CallsOK
<1>4. writers \in Seq(Nat) /\ k \in Nat
  BY <1>2 DEF Inv, QueueOK
<1>5. /\ writers' \in Seq(Nat) /\ Len(writers') = Len(writers) + 1 /\ Len(writers) \in Nat
      /\ writers'[Len(writers) + 1] = k /\ \A i \in 1..Len(writers) : writers'[i] = writers[i]
  BY <1>1, <1>4, AppendProperties, LenProperties
<1> HIDE DEF k
<1>6. writers' # <<>>
  <2>1. Len(<<>>) = 0
    BY EmptySeq
  <2> QED
    BY <1>5, <2>1
<1>7. DOMAIN leader' = LeaderFields /\ QueueOK'
  <2>1. CASE writers = <<>>
    <3>1. Len(writers) = 0
      BY <2>1, EmptySeq
    <3>2. leader' = Lead(k, null) /\ writers'[1] = k
      BY <1>1, <1>5, <2>1, <3>1
    <3>3. DOMAIN leader' = LeaderFields /\ leader'.pc = "room" /\ leader'.call = k
      BY <3>2 DEF Lead, NoLeader, LeaderFields
    <3> QED
      BY <1>1, <1>5, <1>6, <3>2, <3>3 DEF QueueOK, Open
  <2>2. CASE writers # <<>>
    <3>1. Len(writers) # 0
      BY <1>4, <2>2, EmptySeq
    <3>2. leader' = leader /\ 1 \in 1..Len(writers) /\ 1..Len(writers) \subseteq 1..Len(writers')
      BY <1>1, <1>5, <2>2, <3>1
    <3> QED
      BY <1>1, <1>5, <1>6, <2>2, <3>2 DEF Inv, RecordsOK, QueueOK, Open
  <2> QED
    BY <2>1, <2>2
<1>8. Keeps(db, db')
  BY <1>1 DEF Inv, RecordsOK, Keeps
<1>9. ControlOK' /\ NumbersOK' /\ TablesOK' /\ CurrentOK'
  BY <1>1, <1>8, QuietStep
<1>10. RecordsOK'
  BY <1>1, <1>7 DEF Inv, RecordsOK
<1> QED
  BY <1>3, <1>7, <1>9, <1>10 DEF Inv

\* The group a writer writes for ends in the queue.
LEMMA GroupIs ==
  ASSUME writers \in Seq(Nat), writers # <<>>, NEW first
  PROVE  LET all == BuildBatchGroup(first)
         IN \E i \in 1..Len(writers) : writers[i] = all[Len(all)]
<1> DEFINE Joins(m) == /\ ~(calls[writers[m]].sync /\ ~calls[first].sync)
                       /\ \/ calls[writers[m]].null
                          \/ Cardinality(Entries(SubSeq(writers, 1, m))) <= MaxGroup
           M == {m \in DOMAIN writers : \A i \in 2..m : Joins(i)}
           all == SubSeq(writers, 1, Max(M))
<1>1. Len(writers) \in Nat \ {0} /\ DOMAIN writers = 1..Len(writers)
  BY EmptySeq, LenProperties
<1>2. M # {} /\ M \in SUBSET (0..Len(writers))
  <2>1. 1 \in M
    BY <1>1
  <2> QED
    BY <1>1, <2>1
<1> HIDE DEF Joins
<1>3. Max(M) \in 1..Len(writers)
  BY <1>1, <1>2, MaxIs
<1> DEFINE m == Max(M)
<1> HIDE DEF M
<1>4. BuildBatchGroup(first) = SubSeq(writers, 1, m)
  BY Zenon DEF BuildBatchGroup, M, Joins, m
<1> HIDE DEF m
<1>5. m \in 1..Len(writers)
  BY <1>3 DEF m
<1>6. \A i \in 1..m : writers[i] \in Nat
  BY <1>1, <1>5, ElementOfSeq
<1>7. /\ Len(SubSeq(writers, 1, m)) = IF 1 <= m THEN m - 1 + 1 ELSE 0
      /\ \A i \in 1..(m - 1 + 1) : SubSeq(writers, 1, m)[i] = writers[1 + i - 1]
  BY <1>1, <1>5, <1>6, SubSeqProperties
<1>8. Len(SubSeq(writers, 1, m)) = m /\ SubSeq(writers, 1, m)[m] = writers[m]
  BY <1>1, <1>5, <1>7
<1> QED
  BY <1>4, <1>5, <1>8

\* MakeRoomForWrite and BuildBatchGroup, when no new memtable is made.
LEMMA RoomStep == Inv /\ (RoomError \/ RoomDelay \/ RoomFound \/ RoomWait) => Inv'
<1> SUFFICES ASSUME Inv, RoomError \/ RoomDelay \/ RoomFound \/ RoomWait PROVE Inv'
  OBVIOUS
<1>1. /\ Room /\ RoomUnchanged /\ UNCHANGED <<files, db>>
      /\ UNCHANGED <<writers, must, bg, manual, opening, iter>>
  BY DEF RoomError, RoomDelay, RoomFound, RoomWait, RoomUnchanged, NoRoom
<1>2. ControlOK' /\ NumbersOK' /\ TablesOK' /\ CurrentOK'
  BY <1>1, WriterQuiet
<1>3. /\ DOMAIN leader = LeaderFields /\ leader.pc = "room" /\ writers \in Seq(Nat) /\ writers # <<>>
      /\ leader.call = writers[1]
  BY <1>1 DEF Inv, RecordsOK, QueueOK, Room
<1>4. 1 \in 1..Len(writers)
  <2>1. Len(writers) \in Nat \ {0}
    BY <1>3, EmptySeq
  <2> QED
    BY <2>1
<1>5. DOMAIN leader' = LeaderFields /\ leader'.call = leader.call
      /\ leader'.pc \in {"room", "append", "finish"}
      /\ (leader'.pc # "room" => \E i \in 1..Len(writers) : writers[i] = leader'.last)
  <2>1. CASE RoomError
    BY <1>3, <1>4, <2>1 DEF RoomError, LeaderFields
  <2>2. CASE RoomDelay
    BY <1>3, <2>2 DEF RoomDelay, LeaderFields
  <2>3. CASE RoomFound
    <3>1. CASE calls[leader.call].null
      BY <1>3, <1>4, <2>3, <3>1 DEF RoomFound, LeaderFields
    <3>2. CASE ~calls[leader.call].null
      <4> DEFINE all == BuildBatchGroup(leader.call)
                 group == Entries(all)
      <4>1. leader' = [leader EXCEPT !.pc = "append", !.group = group, !.left = group,
                                    !.last = all[Len(all)]]
        BY <2>3, <3>2 DEF RoomFound
      <4>2. \E i \in 1..Len(writers) : writers[i] = all[Len(all)]
        BY <1>3, GroupIs
      <4> HIDE DEF all, group
      <4>3. DOMAIN leader' = LeaderFields /\ leader'.call = leader.call /\ leader'.pc = "append"
            /\ leader'.last = all[Len(all)]
        BY <1>3, <4>1 DEF LeaderFields
      <4> QED
        BY <4>2, <4>3
    <3> QED
      BY <3>1, <3>2
  <2>4. CASE RoomWait
    BY <1>3, <2>4 DEF RoomWait
  <2> QED
    BY <2>1, <2>2, <2>3, <2>4
<1>6. QueueOK'
  <2>1. Open' = Open /\ db'.shutting_down = db.shutting_down
    BY <1>1 DEF Open
  <2> QED
    BY <1>1, <1>3, <1>5, <2>1 DEF Inv, QueueOK
<1>7. RecordsOK'
  BY <1>1, <1>5 DEF Inv, RecordsOK
<1>8. CallsOK'
  <2>1. CASE UNCHANGED calls
    BY <2>1 DEF Inv, CallsOK
  <2>2. CASE RoomFound /\ ~calls[leader.call].null
    <3> DEFINE group == Entries(BuildBatchGroup(leader.call))
    <3>1. calls' = [k \in DOMAIN calls |->
                     IF k \in group
                       THEN [calls[k] EXCEPT !.seq =
                              db.last_sequence + Cardinality({j \in group : j <= k})]
                       ELSE calls[k]]
      BY <2>2 DEF RoomFound
    <3> HIDE DEF group
    <3>2. IsSeq(calls')
      <4>1. calls' = [k \in DOMAIN calls |-> calls'[k]]
        BY <3>1
      <4> QED
        BY <4>1, IsSeqOf DEF Inv, CallsOK
    <3>3. ASSUME NEW k \in DOMAIN calls'
          PROVE  DOMAIN calls'[k] = CallFields /\ calls'[k].status \in {"waiting", "ok", "error", "lost"}
      <4>1. k \in DOMAIN calls /\ DOMAIN calls[k] = CallFields
            /\ calls[k].status \in {"waiting", "ok", "error", "lost"}
        BY <3>1 DEF Inv, CallsOK
      <4>2. calls'[k] = calls[k] \/ \E s : calls'[k] = [calls[k] EXCEPT !.seq = s]
        BY <3>1, <4>1
      <4> QED
        BY <4>1, <4>2 DEF CallFields
    <3> QED
      BY <3>2, <3>3 DEF CallsOK
  <2> QED
    BY <2>1, <2>2 DEF RoomError, RoomDelay, RoomFound, RoomWait
<1> QED
  BY <1>2, <1>6, <1>7, <1>8 DEF Inv

\* A new memtable and a new log, with the next file number.
LEMMA SwitchStep == Inv /\ RoomSwitch => Inv'
<1> SUFFICES ASSUME Inv, RoomSwitch PROVE Inv'
  OBVIOUS
<1>1. /\ Room /\ RoomUnchanged /\ UNCHANGED <<calls, writers, must, bg, manual, opening, iter>>
  BY DEF RoomSwitch, RoomUnchanged, NoRoom
<1>2. /\ DOMAIN leader = LeaderFields /\ leader.pc = "room" /\ writers \in Seq(Nat) /\ writers # <<>>
      /\ leader.call = writers[1] /\ Open /\ ~db.shutting_down /\ DOMAIN db = DBFields
      /\ DOMAIN files = FileFields /\ db.next \in Nat
  BY <1>1 DEF Inv, RecordsOK, QueueOK, NumbersOK, Room
<1>3. CallsOK'
  BY <1>1 DEF Inv, CallsOK
<1>4. CASE /\ files' = [files EXCEPT !.logs = With(@, db.next, NewLog)]
           /\ db' = MaybeScheduleCompaction([db EXCEPT !.next = NewFileNumber(@), !.mem = db.next, !.imm = db.mem])
           /\ leader' = [leader EXCEPT !.force = FALSE]
  <2> DEFINE d == [db EXCEPT !.next = NewFileNumber(@), !.mem = db.next, !.imm = db.mem]
  <2>1. /\ DOMAIN d = DBFields /\ d.state = db.state /\ d.mem = db.next /\ d.next = db.next + 1
        /\ d.shutting_down = db.shutting_down /\ d.pending_outputs = db.pending_outputs
        /\ d.manifest = db.manifest /\ d.l0 = db.l0 /\ d.deep = db.deep /\ d.scheduled = db.scheduled
    BY <1>2 DEF DBFields, NewFileNumber
  <2> HIDE DEF d
  <2>2. Keeps(d, db') /\ (d.scheduled => db'.scheduled)
    BY <1>4, <2>1, ScheduleKeeps DEF d
  <2>3. /\ DOMAIN db' = DBFields /\ db'.state = db.state /\ db'.mem = db.next /\ db'.next = db.next + 1
        /\ db'.shutting_down = db.shutting_down /\ db'.pending_outputs = db.pending_outputs
        /\ db'.manifest = db.manifest /\ db'.l0 = db.l0 /\ db'.deep = db.deep
        /\ (db.scheduled => db'.scheduled)
    BY <2>1, <2>2 DEF Keeps
  <2>4. /\ DOMAIN files' = FileFields /\ files'.current = files.current
        /\ files'.manifests = files.manifests /\ files'.tables = files.tables
        /\ DOMAIN files'.logs = DOMAIN files.logs \cup {db.next}
    <3>1. /\ DOMAIN files' = FileFields /\ files'.current = files.current
          /\ files'.manifests = files.manifests /\ files'.tables = files.tables
          /\ files'.logs = With(files.logs, db.next, NewLog)
      BY <1>2, <1>4 DEF FileFields
    <3>2. DOMAIN With(files.logs, db.next, NewLog) = DOMAIN files.logs \cup {db.next}
      BY DEF With
    <3> QED
      BY <3>1, <3>2
  <2>5. DOMAIN leader' = LeaderFields /\ leader'.pc = "room" /\ leader'.call = leader.call
    BY <1>2, <1>4 DEF LeaderFields
  <2>6. RecordsOK' /\ QueueOK'
    BY <1>1, <1>2, <2>3, <2>4, <2>5 DEF Inv, RecordsOK, QueueOK, Open
  <2>7. ControlOK'
    BY <1>1, <1>2, <2>3 DEF Inv, ControlOK, Open
  <2>8. NumbersOK'
    BY <1>1, <1>2, <2>3, <2>4 DEF Inv, NumbersOK, Open
  <2>9. TablesOK'
    BY <1>1, <2>3, <2>4 DEF Inv, TablesOK
  <2>10. CurrentOK'
    BY <1>1, <2>3, <2>4 DEF Inv, CurrentOK, Open
  <2> QED
    BY <1>3, <2>6, <2>7, <2>8, <2>9, <2>10 DEF Inv
<1>5. CASE /\ leader' = [leader EXCEPT !.pc = "finish", !.status = "error", !.last = leader.call]
           /\ UNCHANGED <<files, mems, db>>
  <2>1. DOMAIN leader' = LeaderFields /\ leader'.pc = "finish" /\ leader'.call = leader.call
        /\ leader'.last = writers[1]
    BY <1>2, <1>5 DEF LeaderFields
  <2>2. 1 \in 1..Len(writers)
    <3>1. Len(writers) \in Nat \ {0}
      BY <1>2, EmptySeq
    <3> QED
      BY <3>1
  <2>3. RecordsOK' /\ QueueOK'
    BY <1>1, <1>2, <1>5, <2>1, <2>2 DEF Inv, RecordsOK, QueueOK, Open
  <2>4. ControlOK' /\ NumbersOK' /\ TablesOK' /\ CurrentOK'
    BY <1>1, <1>5, WriterQuiet
  <2> QED
    BY <1>3, <2>3, <2>4 DEF Inv
<1> QED
  BY <1>4, <1>5 DEF RoomSwitch

\* AddRecord and InsertInto.
LEMMA AppendStep == Inv /\ (AppendToLog \/ InsertInto) => Inv'
<1> SUFFICES ASSUME Inv, AppendToLog \/ InsertInto PROVE Inv'
  OBVIOUS
<1>1. UNCHANGED <<calls, writers, db, bg, manual, opening, iter, must>>
  BY DEF AppendToLog, InsertInto
<1>2. /\ DOMAIN leader = LeaderFields /\ leader.pc \in {"append", "insert"} /\ writers # <<>>
      /\ Open /\ DOMAIN db = DBFields /\ DOMAIN files = FileFields
  BY DEF Inv, RecordsOK, QueueOK, AppendToLog, InsertInto
<1>3. DOMAIN leader' = LeaderFields /\ leader'.call = leader.call /\ leader'.last = leader.last
      /\ leader'.pc \in {"insert", "finish"}
  <2>1. CASE InsertInto
    BY <1>2, <2>1 DEF InsertInto, LeaderFields
  <2>2. CASE AppendToLog
    <3>1. \E pc \in {"insert", "finish"} : \E status : leader' = [leader EXCEPT !.pc = pc, !.status = status]
      BY <2>2 DEF AppendToLog, AfterSyncError
    <3> QED
      BY <1>2, <3>1 DEF LeaderFields
  <2> QED
    BY <2>1, <2>2
<1>4. /\ DOMAIN files' = FileFields /\ files'.current = files.current
      /\ files'.manifests = files.manifests /\ files'.tables = files.tables
      /\ DOMAIN files'.logs = DOMAIN files.logs
  <2>1. CASE InsertInto
    BY <1>2, <2>1 DEF InsertInto
  <2>2. CASE AppendToLog
    <3>1. \E l : files' = [files EXCEPT !.logs[db.mem] = l]
      BY <2>2 DEF AppendToLog
    <3> QED
      BY <1>2, <3>1 DEF FileFields
  <2> QED
    BY <2>1, <2>2
<1>5. RecordsOK' /\ QueueOK' /\ CallsOK'
  BY <1>1, <1>2, <1>3, <1>4 DEF Inv, RecordsOK, QueueOK, CallsOK, Open
<1>6. Keeps(db, db') /\ manual'.pc \in {"none", "imm", "range"}
  BY <1>1, <1>2 DEF Inv, ControlOK, Keeps
<1>7. ControlOK' /\ NumbersOK' /\ TablesOK' /\ CurrentOK'
  BY <1>1, <1>4, <1>6, QuietStep
<1> QED
  BY <1>5, <1>7 DEF Inv

\* The group is answered; the next writer leads.
LEMMA FinishStep == Inv /\ FinishWrite => Inv'
<1> SUFFICES ASSUME Inv, FinishWrite PROVE Inv'
  OBVIOUS
<1> DEFINE n == CHOOSE i \in DOMAIN writers : writers[i] = leader.last
           group == {writers[i] : i \in 1..n}
           rest == SubSeq(writers, n + 1, Len(writers))
           answer == IF leader.status = "ok" THEN "ok" ELSE "error"
           d == [db EXCEPT !.last_sequence = AdvanceSequence(Cardinality(leader.group))]
<1>1. /\ leader.pc = "finish"
      /\ db' = IF leader.status = "sync_error" THEN RecordBackgroundError(d) ELSE d
      /\ calls' = [k \in DOMAIN calls |-> IF k \in group THEN [calls[k] EXCEPT !.status = answer]
                                                         ELSE calls[k]]
      /\ writers' = rest
      /\ leader' = IF rest = <<>> THEN NoLeader ELSE Lead(rest[1], calls[rest[1]].null)
      /\ UNCHANGED <<files, mems, bg, manual, opening, iter, unsure, budget>>
  BY DEF FinishWrite
<1>2. answer \in {"ok", "error"}
  OBVIOUS
<1>3. n \in 1..Len(writers) /\ writers \in Seq(Nat) /\ Len(writers) \in Nat
  <2>1. writers \in Seq(Nat) /\ \E i \in 1..Len(writers) : writers[i] = leader.last
    BY <1>1 DEF Inv, QueueOK
  <2>2. DOMAIN writers = 1..Len(writers) /\ Len(writers) \in Nat
    BY <2>1, LenProperties
  <2> QED
    BY <2>1, <2>2
<1> HIDE DEF n
<1>4. rest \in Seq(Nat)
  <2>1. \A i \in (n + 1)..Len(writers) : writers[i] \in Nat
    BY <1>3, ElementOfSeq
  <2> QED
    BY <1>3, <2>1, SubSeqProperties
<1> HIDE DEF rest, group, answer
<1>5. Open /\ ~db.shutting_down /\ DOMAIN db = DBFields
  BY <1>1 DEF Inv, QueueOK, RecordsOK
<1>6. Keeps(db, db') /\ db'.scheduled = db.scheduled
  <2>1. Keeps(db, d) /\ d.scheduled = db.scheduled /\ DOMAIN d = DBFields
    BY <1>5 DEF Keeps, DBFields
  <2> HIDE DEF d
  <2>2. Keeps(d, RecordBackgroundError(d)) /\ RecordBackgroundError(d).scheduled = d.scheduled
    BY <2>1, ErrorKeeps
  <2> QED
    BY <1>1, <2>1, <2>2 DEF Keeps
<1>7. ControlOK' /\ NumbersOK' /\ TablesOK' /\ CurrentOK'
  BY <1>1, <1>5, <1>6, QuietStep DEF Inv, ControlOK
<1>8. DOMAIN leader' = LeaderFields /\ QueueOK'
  <2>1. CASE rest = <<>>
    <3>1. DOMAIN leader' = LeaderFields /\ leader'.pc = "none"
      BY <1>1, <2>1 DEF NoLeader, LeaderFields
    <3> QED
      BY <1>1, <1>4, <2>1, <3>1 DEF QueueOK
  <2>2. CASE rest # <<>>
    <3>1. DOMAIN leader' = LeaderFields /\ leader'.pc = "room" /\ leader'.call = rest[1]
      BY <1>1, <2>2 DEF Lead, NoLeader, LeaderFields
    <3>2. Open' /\ ~db'.shutting_down
      BY <1>5, <1>6 DEF Keeps, Open
    <3> QED
      BY <1>1, <1>4, <2>2, <3>1, <3>2 DEF QueueOK
  <2> QED
    BY <2>1, <2>2
<1>9. CallsOK'
  <2>1. calls' = [k \in DOMAIN calls |-> calls'[k]]
    BY <1>1
  <2>2. IsSeq(calls')
    BY <2>1, IsSeqOf DEF Inv, CallsOK
  <2>3. ASSUME NEW k \in DOMAIN calls'
        PROVE  DOMAIN calls'[k] = CallFields /\ calls'[k].status \in {"waiting", "ok", "error", "lost"}
    <3>1. k \in DOMAIN calls /\ DOMAIN calls[k] = CallFields
          /\ calls[k].status \in {"waiting", "ok", "error", "lost"}
      BY <1>1 DEF Inv, CallsOK
    <3>2. calls'[k] = calls[k] \/ calls'[k] = [calls[k] EXCEPT !.status = answer]
      BY <1>1, <3>1
    <3> QED
      BY <1>2, <3>1, <3>2 DEF CallFields
  <2> QED
    BY <2>2, <2>3 DEF CallsOK
<1>10. RecordsOK'
  BY <1>1, <1>6, <1>8 DEF Inv, RecordsOK, Keeps
<1> QED
  BY <1>7, <1>8, <1>9, <1>10 DEF Inv

-----------------------------------------------------------------------------
(* The background thread. *)

\* What the invariant says of the background thread's locals b, when the
\* fields of db are d and the tables in the directory T.
BGOK(b, d, T) ==
  /\ DOMAIN b = BGFields
  /\ b.pc \in {"idle", "building", "working", "logging", "null"}
  /\ b.pc # "idle" => d.scheduled \/ b.pc = "null"
  /\ b.pc = "idle" => b.base = {} /\ b.out = 0
  /\ b.out \in Nat /\ (b.out # 0 => b.out < d.next)
  /\ b.pc = "building" => b.table # b.out
  /\ b.pc = "logging" => b.edit.next \in Nat /\ d.manifest < b.edit.next
  /\ b.base \subseteq T
  /\ b.out # 0 => b.out \in d.pending_outputs \cap T
  /\ b.pc = "logging" => b.edit.l0 \cup b.edit.deep \subseteq T

\* What holds while the database is open.
LEMMA OpenFacts ==
  ASSUME Inv, Open
  PROVE  /\ BGOK(bg, db, DOMAIN files.tables)
         /\ DOMAIN db = DBFields /\ DOMAIN files = FileFields /\ DOMAIN manual = ManualFields
         /\ manual.pc \in {"none", "imm", "range"} /\ opening.pc = "none"
         /\ db.next \in Nat /\ db.manifest \in Nat /\ db.mem \in Nat /\ db.mem < db.next
         /\ db.manifest < db.next /\ db.manifest = files.current
         /\ DOMAIN files.logs \subseteq Nat
         /\ db.l0 \cup db.deep \cup iter.tables \subseteq DOMAIN files.tables
         /\ files.current # 0 /\ files.current \in DOMAIN files.manifests
         /\ ManifestOK(files.manifests[files.current], files.current, DOMAIN files.tables)
         /\ files.manifests[files.current].synced # 0
<1>1. BGOK(bg, db, DOMAIN files.tables)
  BY DEF Inv, RecordsOK, ControlOK, NumbersOK, TablesOK, BGOK
<1>2. /\ DOMAIN db = DBFields /\ DOMAIN files = FileFields /\ DOMAIN manual = ManualFields
      /\ manual.pc \in {"none", "imm", "range"} /\ opening.pc = "none"
  BY DEF Inv, RecordsOK, ControlOK, Open
<1>3. /\ db.next \in Nat /\ db.manifest \in Nat /\ db.mem \in Nat /\ db.mem < db.next
      /\ db.manifest < db.next /\ DOMAIN files.logs \subseteq Nat
  BY DEF Inv, NumbersOK, Open
<1>4. db.l0 \cup db.deep \cup iter.tables \subseteq DOMAIN files.tables
  BY DEF Inv, TablesOK, Open
<1>5. /\ db.manifest = files.current /\ files.current # 0 /\ files.current \in DOMAIN files.manifests
      /\ ManifestOK(files.manifests[files.current], files.current, DOMAIN files.tables)
      /\ files.manifests[files.current].synced # 0
  BY DEF Inv, CurrentOK, Open
<1> QED
  BY <1>1, <1>2, <1>3, <1>4, <1>5

\* More tables do no harm.
LEMMA MoreTables ==
  ASSUME NEW T, NEW U, T \subseteq U
  PROVE  /\ \A m, n : ManifestOK(m, n, T) => ManifestOK(m, n, U)
         /\ \A b, d : BGOK(b, d, T) => BGOK(b, d, U)
<1>1. \A m, n : ManifestOK(m, n, T) => ManifestOK(m, n, U)
  BY DEF ManifestOK
<1>2. \A b, d : BGOK(b, d, T) => BGOK(b, d, U)
  BY DEF BGOK
<1> QED
  BY <1>1, <1>2

\* A step of the background thread, or of a reader, keeps the invariant if
\* it keeps the tables that are needed.
LEMMA BackgroundKeeps ==
  ASSUME Inv, Open, BGUnchanged, DOMAIN manual' = ManualFields,
         manual'.pc = manual.pc,
         DOMAIN db' = DBFields, db'.state = db.state, db'.mem = db.mem,
         db'.shutting_down = db.shutting_down, db'.manifest = db.manifest,
         db'.next \in Nat, db.next <= db'.next,
         DOMAIN files' = FileFields, files'.current = files.current,
         DOMAIN files'.logs \subseteq DOMAIN files.logs,
         db'.l0 \cup db'.deep \cup iter.tables \subseteq DOMAIN files'.tables,
         BGOK(bg', db', DOMAIN files'.tables),
         files.current \in DOMAIN files'.manifests,
         ManifestOK(files'.manifests[files.current], files.current, DOMAIN files'.tables),
         files'.manifests[files.current].synced # 0
  PROVE  Inv'
<1>1. UNCHANGED <<calls, writers, leader, opening, iter, must>>
  BY DEF BGUnchanged
<1>2. Open'
  BY DEF Open
<1>3. /\ opening.pc = "none" /\ db.next \in Nat /\ db.manifest \in Nat /\ db.mem \in Nat
      /\ db.mem < db.next /\ db.manifest < db.next /\ db.manifest = files.current
      /\ DOMAIN files.logs \subseteq Nat /\ files.current # 0
  BY OpenFacts
<1>4. db.mem < db'.next /\ db.manifest < db'.next
  BY <1>3
<1>5. RecordsOK' /\ CallsOK' /\ QueueOK'
  BY <1>1, <1>2 DEF Inv, RecordsOK, CallsOK, QueueOK, BGOK
<1>6. ControlOK'
  BY <1>1, <1>2, <1>3 DEF Inv, ControlOK, BGOK, Open
<1>7. NumbersOK'
  BY <1>1, <1>2, <1>3, <1>4 DEF Inv, NumbersOK, BGOK
<1>8. TablesOK'
  BY <1>1, <1>3 DEF Inv, TablesOK, BGOK
<1>9. CurrentOK'
  BY <1>1, <1>2, <1>3 DEF Inv, CurrentOK, Open
<1> QED
  BY <1>5, <1>6, <1>7, <1>8, <1>9 DEF Inv

\* A reader pins the version that is current.
LEMMA ReaderStep == Inv /\ (NewIterator \/ ReleaseIterator) => Inv'
<1> SUFFICES ASSUME Inv, NewIterator \/ ReleaseIterator PROVE Inv'
  OBVIOUS
<1>1. UNCHANGED <<files, calls, writers, leader, bg, manual, opening, must>>
  BY DEF NewIterator, ReleaseIterator
<1>2. Open /\ ~db.shutting_down /\ DOMAIN db = DBFields
  BY DEF Inv, RecordsOK, ControlOK, NewIterator, ReleaseIterator
<1>3. Keeps(db, db') /\ (db.scheduled => db'.scheduled)
  <2>1. CASE NewIterator
    BY <1>2, <2>1 DEF NewIterator, Keeps
  <2>2. CASE ReleaseIterator
    <3>1. PICK seek : db' = MaybeScheduleCompaction([db EXCEPT !.seek = seek])
      BY <2>2 DEF ReleaseIterator
    <3> DEFINE d == [db EXCEPT !.seek = seek]
    <3>2. DOMAIN d = DBFields /\ Keeps(db, d) /\ d.scheduled = db.scheduled
      BY <1>2 DEF DBFields, Keeps
    <3> HIDE DEF d
    <3>3. Keeps(d, db') /\ (d.scheduled => db'.scheduled)
      BY <3>1, <3>2, ScheduleKeeps DEF d
    <3> QED
      BY <3>2, <3>3 DEF Keeps
  <2> QED
    BY <2>1, <2>2
<1>4. DOMAIN iter' = IterFields
  BY DEF NewIterator, ReleaseIterator, NoIter, IterFields
<1>5. RecordsOK' /\ CallsOK' /\ QueueOK'
  BY <1>1, <1>2, <1>3, <1>4 DEF Inv, RecordsOK, CallsOK, QueueOK, Keeps, Open
<1>6. CASE ReleaseIterator
  <2>1. iter'.on = FALSE /\ iter'.tables = {}
    BY <1>6 DEF ReleaseIterator, NoIter
  <2>2. manual'.pc \in {"none", "imm", "range"}
    BY <1>1 DEF Inv, ControlOK
  <2>3. ControlOK' /\ NumbersOK' /\ TablesOK' /\ CurrentOK'
    BY <1>1, <1>2, <1>3, <2>1, <2>2, QuietStep
  <2> QED
    BY <1>5, <2>3 DEF Inv
<1>7. CASE NewIterator
  <2>1. iter'.on = TRUE /\ iter'.tables = db.l0 \cup db.deep
    BY <1>7 DEF NewIterator
  <2>2. UNCHANGED db
    BY <1>7 DEF NewIterator
  <2>3. ControlOK'
    BY <1>1, <1>2, <2>1, <2>2 DEF Inv, ControlOK, Open
  <2>4. NumbersOK' /\ CurrentOK'
    BY <1>1, <2>2 DEF Inv, NumbersOK, CurrentOK, Open
  <2>5. TablesOK'
    BY <1>1, <1>2, <2>1, <2>2 DEF Inv, TablesOK, Open
  <2> QED
    BY <1>5, <2>3, <2>4, <2>5 DEF Inv
<1> QED
  BY <1>6, <1>7

\* The end of a round of the background thread.
LEMMA BackgroundDoneIs ==
  ASSUME NEW d, DOMAIN d = DBFields, d.next \in Nat, NEW is_manual, NEW done,
         BackgroundDone(d, is_manual, done), DOMAIN manual = ManualFields
  PROVE  /\ Keeps(d, db') /\ DOMAIN manual' = ManualFields /\ manual'.pc = manual.pc
         /\ \A T : BGOK(bg', db', T)
<1>1. CASE is_manual /\ ~d.manual
  <2>1. db' = d /\ bg' = [IdleBG EXCEPT !.pc = "null"] /\ UNCHANGED manual
    BY <1>1 DEF BackgroundDone
  <2>2. ASSUME NEW T PROVE BGOK(bg', db', T)
    BY <2>1 DEF BGOK, IdleBG, BGFields, State
  <2> QED
    BY <2>1, <2>2 DEF Keeps
<1>2. CASE ~(is_manual /\ ~d.manual)
  <2> DEFINE e == [d EXCEPT !.scheduled = FALSE, !.manual = @ /\ ~is_manual]
  <2>1. DOMAIN e = DBFields /\ Keeps(d, e)
    BY DEF DBFields, Keeps
  <2>2. db' = MaybeScheduleCompaction(e) /\ bg' = IdleBG
    BY <1>2 DEF BackgroundDone
  <2> HIDE DEF e
  <2>3. Keeps(e, db')
    BY <2>1, <2>2, ScheduleKeeps
  <2>4. Keeps(d, db')
    BY <2>1, <2>3 DEF Keeps
  <2>5. DOMAIN manual' = ManualFields /\ manual'.pc = manual.pc
    BY <1>2 DEF BackgroundDone, ManualFields
  <2>6. ASSUME NEW T PROVE BGOK(bg', db', T)
    BY <2>2 DEF BGOK, IdleBG, BGFields, State
  <2> QED
    BY <2>4, <2>5, <2>6
<1> QED
  BY <1>1, <1>2

\* The end of CompactMemTable.
LEMMA MemTableDoneIs ==
  ASSUME NEW d, DOMAIN d = DBFields, d.scheduled, MemTableDone(d), NEW T,
         BGOK(bg, d, T)
  PROVE  Keeps(d, db') /\ UNCHANGED manual /\ BGOK(bg', db', T)
<1>1. CASE bg.job = "both"
  <2>1. db' = d /\ bg' = [bg EXCEPT !.pc = "working", !.table = 0, !.job = "compact"]
        /\ UNCHANGED manual
    BY <1>1 DEF MemTableDone
  <2>2. Keeps(d, db')
    BY <2>1 DEF Keeps
  <2>3. DOMAIN bg' = BGFields /\ bg'.pc = "working" /\ bg'.base = bg.base /\ bg'.out = bg.out
    BY <2>1 DEF BGOK, BGFields
  <2>4. BGOK(bg', db', T)
    BY <2>1, <2>3 DEF BGOK
  <2> QED
    BY <2>1, <2>2, <2>4
<1>2. CASE bg.job # "both"
  <2> DEFINE e == [d EXCEPT !.scheduled = FALSE]
  <2>1. DOMAIN e = DBFields /\ Keeps(d, e)
    BY DEF DBFields, Keeps
  <2>2. db' = MaybeScheduleCompaction(e) /\ bg' = IdleBG /\ UNCHANGED manual
    BY <1>2 DEF MemTableDone
  <2> HIDE DEF e
  <2>3. Keeps(e, db')
    BY <2>1, <2>2, ScheduleKeeps
  <2>4. Keeps(d, db')
    BY <2>1, <2>3 DEF Keeps
  <2>5. BGOK(bg', db', T)
    BY <2>2 DEF BGOK, IdleBG, BGFields, State
  <2> QED
    BY <2>2, <2>4, <2>5
<1> QED
  BY <1>1, <1>2

\* CompactionEnds: after an error no file is deleted; otherwise the tables of
\* the version and those of readers stay.
LEMMA CompactionEndsIs ==
  ASSUME NEW f, NEW d, NEW ok \in BOOLEAN, CompactionEnds(f, d, ok), BGOK(bg, db, DOMAIN f.tables),
         DOMAIN d = DBFields, d.next \in Nat, DOMAIN f = FileFields, DOMAIN manual = ManualFields,
         d.manifest = f.current, f.current \in Nat, f.current \in DOMAIN f.manifests,
         d.l0 \cup d.deep \cup iter.tables \subseteq DOMAIN f.tables
  PROVE  /\ DOMAIN db' = DBFields /\ db'.state = d.state /\ db'.mem = d.mem
         /\ db'.shutting_down = d.shutting_down /\ db'.manifest = d.manifest
         /\ db'.next = d.next /\ db'.l0 = d.l0 /\ db'.deep = d.deep
         /\ DOMAIN manual' = ManualFields /\ manual'.pc = manual.pc
         /\ BGOK(bg', db', DOMAIN files'.tables)
         /\ DOMAIN files' = FileFields /\ files'.current = f.current
         /\ DOMAIN files'.logs \subseteq DOMAIN f.logs
         /\ d.l0 \cup d.deep \cup iter.tables \subseteq DOMAIN files'.tables
         /\ f.current \in DOMAIN files'.manifests
         /\ files'.manifests[f.current] = f.manifests[f.current]
         /\ ~ok => files' = f
<1> DEFINE e == [d EXCEPT !.pending_outputs = @ \ {bg.out}, !.bg_error = @ \/ ~ok]
<1>1. /\ DOMAIN e = DBFields /\ e.state = d.state /\ e.mem = d.mem
      /\ e.shutting_down = d.shutting_down /\ e.manifest = d.manifest
      /\ e.next = d.next /\ e.l0 = d.l0 /\ e.deep = d.deep
  BY DEF DBFields
<1>2. ~ok => e.bg_error
  BY DEF DBFields
<1>3. BackgroundDone(e, bg.is_manual, ~ok) /\ files' = DeleteObsoleteFiles(f, e, IdleBG)
  BY DEF CompactionEnds
<1> HIDE DEF e
<1>4. Keeps(e, db') /\ DOMAIN manual' = ManualFields /\ manual'.pc = manual.pc
      /\ \A T : BGOK(bg', db', T)
  BY <1>1, <1>3, BackgroundDoneIs
<1>5. /\ DOMAIN db' = DBFields /\ db'.state = d.state /\ db'.mem = d.mem
      /\ db'.shutting_down = d.shutting_down /\ db'.manifest = d.manifest
      /\ db'.next = d.next /\ db'.l0 = d.l0 /\ db'.deep = d.deep
  BY <1>1, <1>4 DEF Keeps
<1>6. /\ DOMAIN files' = FileFields /\ files'.current = f.current
      /\ DOMAIN files'.logs \subseteq DOMAIN f.logs
      /\ DOMAIN f.tables \cap (LiveTables(e, IdleBG) \cup e.pending_outputs) \subseteq DOMAIN files'.tables
      /\ \A n \in DOMAIN f.manifests : n >= e.manifest =>
           n \in DOMAIN files'.manifests /\ files'.manifests[n] = f.manifests[n]
  BY <1>3, DeleteKeeps
<1>7. d.l0 \cup d.deep \cup iter.tables \subseteq DOMAIN files'.tables
  BY <1>1, <1>6 DEF LiveTables
<1>8. f.current >= e.manifest
  BY <1>1
<1>9. f.current \in DOMAIN files'.manifests /\ files'.manifests[f.current] = f.manifests[f.current]
  BY <1>6, <1>8
<1>10. ~ok => files' = f
  BY <1>2, <1>3 DEF DeleteObsoleteFiles
<1> QED
  BY <1>4, <1>5, <1>6, <1>7, <1>9, <1>10

\* Steps that change neither the version nor the files: nothing to do, a
\* memtable is about to be written, a compaction picks its inputs.
LEMMA BackgroundStarts == Inv /\ (BackgroundNothing \/ CompactMemTable \/ StartCompaction) => Inv'
<1> SUFFICES ASSUME Inv, BackgroundNothing \/ CompactMemTable \/ StartCompaction PROVE Inv'
  OBVIOUS
<1>1. Open
  BY DEF Inv, ControlOK, BackgroundNothing, CompactMemTable, StartCompaction, Works, Called, Open
<1>2. BGUnchanged /\ files' = files
  BY DEF BackgroundNothing, CompactMemTable, StartCompaction
<1> DEFINE T == DOMAIN files.tables
<1>3. /\ BGOK(bg, db, T)
      /\ DOMAIN db = DBFields /\ DOMAIN files = FileFields /\ DOMAIN manual = ManualFields
      /\ manual.pc \in {"none", "imm", "range"} /\ db.next \in Nat /\ db.manifest < db.next
      /\ db.manifest \in Nat /\ db.l0 \cup db.deep \cup iter.tables \subseteq T
      /\ files.current \in DOMAIN files.manifests
      /\ ManifestOK(files.manifests[files.current], files.current, T)
      /\ files.manifests[files.current].synced # 0
  BY <1>1, OpenFacts
<1>4. SUFFICES /\ DOMAIN db' = DBFields /\ db'.state = db.state /\ db'.mem = db.mem
               /\ db'.shutting_down = db.shutting_down /\ db'.manifest = db.manifest
               /\ db'.next \in Nat /\ db.next <= db'.next
               /\ db'.l0 = db.l0 /\ db'.deep = db.deep
               /\ DOMAIN manual' = ManualFields /\ manual'.pc = manual.pc
               /\ BGOK(bg', db', T)
  BY <1>1, <1>2, <1>3, BackgroundKeeps
<1>5. CASE BackgroundNothing
  <2>1. CASE db.shutting_down \/ db.bg_error
    <3> DEFINE e == [db EXCEPT !.scheduled = FALSE]
    <3>1. DOMAIN e = DBFields /\ Keeps(db, e)
      BY <1>3 DEF DBFields, Keeps
    <3>2. db' = MaybeScheduleCompaction(e) /\ UNCHANGED <<manual, bg>>
      BY <1>5, <2>1 DEF BackgroundNothing
    <3> HIDE DEF e
    <3>3. Keeps(e, db')
      BY <3>1, <3>2, ScheduleKeeps
    <3>4. bg.pc = "idle"
      BY <1>5 DEF BackgroundNothing, Called
    <3>5. BGOK(bg', db', T)
      BY <1>3, <3>2, <3>4 DEF BGOK
    <3> QED
      BY <1>3, <3>1, <3>2, <3>3, <3>5 DEF Keeps
  <2>2. CASE ~(db.shutting_down \/ db.bg_error)
    <3>1. BackgroundDone(db, db.manual, TRUE)
      BY <1>5, <2>2 DEF BackgroundNothing
    <3>2. /\ Keeps(db, db') /\ DOMAIN manual' = ManualFields /\ manual'.pc = manual.pc
          /\ BGOK(bg', db', T)
      BY <1>3, <3>1, BackgroundDoneIs
    <3> QED
      BY <1>3, <3>2 DEF Keeps
  <2> QED
    BY <2>1, <2>2
<1>6. CASE CompactMemTable
  <2> DEFINE job == IF bg.pc = "working" THEN "both" ELSE "mem"
  <2>1. /\ db' = [db EXCEPT !.next = NewFileNumber(@), !.pending_outputs = @ \cup {db.next}]
        /\ bg' = [bg EXCEPT !.pc = "building", !.table = db.next, !.job = job]
        /\ UNCHANGED manual /\ db.scheduled
    BY <1>1, <1>3, <1>6 DEF CompactMemTable, Works, Called, BGOK
  <2> HIDE DEF job
  <2>2. /\ DOMAIN db' = DBFields /\ db'.state = db.state /\ db'.mem = db.mem
        /\ db'.shutting_down = db.shutting_down /\ db'.manifest = db.manifest
        /\ db'.next = db.next + 1 /\ db'.l0 = db.l0 /\ db'.deep = db.deep
        /\ db'.scheduled = db.scheduled
        /\ db'.pending_outputs = db.pending_outputs \cup {db.next}
    BY <1>3, <2>1 DEF DBFields, NewFileNumber
  <2>3. /\ DOMAIN bg' = BGFields /\ bg'.pc = "building" /\ bg'.table = db.next
        /\ bg'.out = bg.out /\ bg'.base = bg.base
    BY <1>3, <2>1 DEF BGOK, BGFields
  <2>4. bg.out \in Nat /\ (bg.out # 0 => bg.out < db.next)
    BY <1>3 DEF BGOK
  <2>5. (bg.out # 0 => bg.out < db.next + 1) /\ (db.next # bg.out)
    BY <1>3, <2>4
  <2>6. BGOK(bg', db', T)
    BY <1>3, <2>1, <2>2, <2>3, <2>5 DEF BGOK
  <2> QED
    BY <1>3, <2>1, <2>2, <2>6
<1>7. CASE StartCompaction
  <2>1. /\ bg.pc = "idle" /\ db.scheduled /\ UNCHANGED <<db, manual>>
    BY <1>7 DEF StartCompaction, Works, Called
  <2>2. \/ \E in0, in1, m : bg' = [bg EXCEPT !.pc = "working", !.job = "compact",
                                          !.base = db.l0 \cup db.deep, !.in0 = in0, !.in1 = in1,
                                          !.is_manual = m]
        \/ \E in0, e : /\ bg' = [bg EXCEPT !.pc = "logging", !.job = "move",
                                           !.base = db.l0 \cup db.deep, !.edit = e]
                       /\ e = State({}, db.deep \cup in0, db.log_number, db.next, db.last_sequence)
                       /\ in0 \subseteq db.l0
    <3> DEFINE seek == ~db.manual /\ Cardinality(db.l0) < kL0_CompactionTrigger
               in0 == IF seek THEN {} ELSE db.l0
    <3>1. in0 \subseteq db.l0
      OBVIOUS
    <3> QED
      BY <1>7, <3>1 DEF StartCompaction
  <2>3. bg.out = 0
    BY <1>3, <2>1 DEF BGOK
  <2>4. BGOK(bg', db', T)
    <3>1. CASE \E in0, in1, m : bg' = [bg EXCEPT !.pc = "working", !.job = "compact",
                                          !.base = db.l0 \cup db.deep, !.in0 = in0, !.in1 = in1,
                                          !.is_manual = m]
      <4>1. DOMAIN bg' = BGFields /\ bg'.pc = "working" /\ bg'.out = 0 /\ bg'.base = db.l0 \cup db.deep
        BY <1>3, <2>3, <3>1 DEF BGOK, BGFields
      <4> QED
        BY <1>3, <2>1, <4>1 DEF BGOK
    <3>2. CASE \E in0, e : /\ bg' = [bg EXCEPT !.pc = "logging", !.job = "move",
                                           !.base = db.l0 \cup db.deep, !.edit = e]
                       /\ e = State({}, db.deep \cup in0, db.log_number, db.next, db.last_sequence)
                       /\ in0 \subseteq db.l0
      <4>1. PICK in0, e : /\ bg' = [bg EXCEPT !.pc = "logging", !.job = "move",
                                              !.base = db.l0 \cup db.deep, !.edit = e]
                       /\ e = State({}, db.deep \cup in0, db.log_number, db.next, db.last_sequence)
                       /\ in0 \subseteq db.l0
        BY <3>2
      <4>2. e.next = db.next /\ e.l0 = {} /\ e.deep = db.deep \cup in0
        BY <4>1 DEF State
      <4>3. /\ DOMAIN bg' = BGFields /\ bg'.pc = "logging" /\ bg'.out = 0
            /\ bg'.base = db.l0 \cup db.deep /\ bg'.edit = e
        BY <1>3, <2>3, <4>1 DEF BGOK, BGFields
      <4> QED
        BY <1>3, <2>1, <4>1, <4>2, <4>3 DEF BGOK
    <3> QED
      BY <2>2, <3>1, <3>2
  <2> QED
    BY <1>3, <2>1, <2>4
<1> QED
  BY <1>5, <1>6, <1>7

\* The table of a memtable has been written, or could not be.
LEMMA TableWritten == Inv /\ WriteLevel0Table => Inv'
<1> SUFFICES ASSUME Inv, WriteLevel0Table PROVE Inv'
  OBVIOUS
<1> DEFINE d == [db EXCEPT !.pending_outputs = @ \ {bg.table}]
           n == IF mems[db.imm] = {} THEN {} ELSE {bg.table}
           T == DOMAIN files.tables
           U == DOMAIN files'.tables
<1>1. Open /\ bg.pc = "building" /\ BGUnchanged /\ db.scheduled
  BY DEF Inv, ControlOK, WriteLevel0Table
<1>2. /\ BGOK(bg, db, T)
      /\ DOMAIN db = DBFields /\ DOMAIN files = FileFields /\ DOMAIN manual = ManualFields
      /\ manual.pc \in {"none", "imm", "range"} /\ db.next \in Nat /\ db.manifest < db.next
      /\ db.manifest \in Nat /\ db.l0 \cup db.deep \cup iter.tables \subseteq T
      /\ files.current \in DOMAIN files.manifests
      /\ ManifestOK(files.manifests[files.current], files.current, T)
      /\ files.manifests[files.current].synced # 0
  BY <1>1, OpenFacts
<1>3. /\ DOMAIN d = DBFields /\ d.state = db.state /\ d.mem = db.mem
      /\ d.shutting_down = db.shutting_down /\ d.manifest = db.manifest
      /\ d.next = db.next /\ d.l0 = db.l0 /\ d.deep = db.deep /\ d.scheduled = db.scheduled
      /\ d.pending_outputs = db.pending_outputs \ {bg.table}
  BY <1>2 DEF DBFields
<1>4. BGOK(bg, d, T)
  BY <1>1, <1>2, <1>3 DEF BGOK
<1>5. \/ files' = files
      \/ files' = [files EXCEPT !.tables = With(@, bg.table, mems[db.imm])]
  BY DEF WriteLevel0Table
<1> HIDE DEF d
<1>6. /\ DOMAIN files' = FileFields /\ files'.current = files.current
      /\ files'.manifests = files.manifests /\ files'.logs = files.logs
      /\ T \subseteq U
  <2>1. CASE files' = files
    BY <1>2, <2>1
  <2>2. CASE files' = [files EXCEPT !.tables = With(@, bg.table, mems[db.imm])]
    <3>1. /\ DOMAIN files' = FileFields /\ files'.current = files.current
          /\ files'.manifests = files.manifests /\ files'.logs = files.logs
          /\ files'.tables = With(files.tables, bg.table, mems[db.imm])
      BY <1>2, <2>2 DEF FileFields
    <3>2. DOMAIN With(files.tables, bg.table, mems[db.imm]) = T \cup {bg.table}
      BY DEF With
    <3> QED
      BY <3>1, <3>2
  <2> QED
    BY <1>5, <2>1, <2>2
<1>7. \A m, k : ManifestOK(m, k, T) => ManifestOK(m, k, U)
  BY <1>6, MoreTables
<1>8. BGOK(bg, d, U)
  BY <1>4, <1>6, MoreTables
<1>9. SUFFICES /\ Keeps(d, db') /\ UNCHANGED manual /\ BGOK(bg', db', U)
  <2>1. SUFFICES ASSUME Keeps(d, db'), UNCHANGED manual, BGOK(bg', db', U) PROVE Inv'
    OBVIOUS
  <2>2. /\ DOMAIN db' = DBFields /\ db'.state = db.state /\ db'.mem = db.mem
        /\ db'.shutting_down = db.shutting_down /\ db'.manifest = db.manifest
        /\ db'.next = db.next /\ db'.l0 = db.l0 /\ db'.deep = db.deep
    BY <1>3, <2>1 DEF Keeps
  <2>3. db'.next \in Nat /\ db.next <= db'.next
    BY <1>2, <2>2
  <2>4. db'.l0 \cup db'.deep \cup iter.tables \subseteq U
    BY <1>2, <1>6, <2>2
  <2>5. /\ files.current \in DOMAIN files'.manifests
        /\ ManifestOK(files'.manifests[files.current], files.current, U)
        /\ files'.manifests[files.current].synced # 0
    BY <1>2, <1>6, <1>7
  <2> HIDE DEF U
  <2>6. DOMAIN files'.logs \subseteq DOMAIN files.logs
    BY <1>6
  <2> QED
    BY <1>1, <1>2, <1>6, <2>1, <2>2, <2>3, <2>4, <2>5, <2>6, BackgroundKeeps DEF U
<1>10. CASE MemTableDone(RecordBackgroundError(d))
  <2> DEFINE e == RecordBackgroundError(d)
  <2>1. Keeps(d, e) /\ e.scheduled = d.scheduled
    BY <1>3, ErrorKeeps
  <2> HIDE DEF e
  <2>2. BGOK(bg, e, U)
    BY <1>8, <2>1 DEF BGOK, Keeps
  <2>3. DOMAIN e = DBFields /\ e.scheduled
    BY <1>1, <1>3, <2>1 DEF Keeps
  <2>4. Keeps(e, db') /\ UNCHANGED manual /\ BGOK(bg', db', U)
    <3>1. MemTableDone(e)
      BY <1>10 DEF e
    <3> HIDE DEF U
    <3> QED
      BY <2>2, <2>3, <3>1, MemTableDoneIs
  <2> QED
    BY <2>1, <2>4 DEF Keeps
<1>11. CASE /\ files' = IF n = {} THEN files
                        ELSE [files EXCEPT !.tables = With(@, bg.table, mems[db.imm])]
            /\ db' = d
            /\ \E deep \in {FALSE, db.l0 = {}} :
                          bg' = [bg EXCEPT !.pc = "logging",
                                   !.edit = State(IF deep THEN d.l0 ELSE d.l0 \cup n,
                                                  IF deep THEN d.deep \cup n ELSE d.deep,
                                                  db.mem, d.next, d.last_sequence)]
            /\ UNCHANGED manual
  <2>1. n \subseteq U
    <3>1. CASE n # {}
      <4>1. files' = [files EXCEPT !.tables = With(@, bg.table, mems[db.imm])] /\ n = {bg.table}
        BY <1>11, <3>1
      <4>2. files'.tables = With(files.tables, bg.table, mems[db.imm])
        BY <1>2, <4>1 DEF FileFields
      <4>3. DOMAIN With(files.tables, bg.table, mems[db.imm]) = T \cup {bg.table}
        BY DEF With
      <4> QED
        BY <4>1, <4>2, <4>3
    <3> QED
      BY <3>1
  <2> HIDE DEF n
  <2>2. PICK e : /\ bg' = [bg EXCEPT !.pc = "logging", !.edit = e]
                 /\ e.next = d.next /\ e.l0 \cup e.deep \subseteq d.l0 \cup d.deep \cup n
    <3>1. PICK deep \in {FALSE, db.l0 = {}} :
                          bg' = [bg EXCEPT !.pc = "logging",
                                   !.edit = State(IF deep THEN d.l0 ELSE d.l0 \cup n,
                                                  IF deep THEN d.deep \cup n ELSE d.deep,
                                                  db.mem, d.next, d.last_sequence)]
      BY <1>11
    <3> DEFINE e == State(IF deep THEN d.l0 ELSE d.l0 \cup n,
                          IF deep THEN d.deep \cup n ELSE d.deep,
                          db.mem, d.next, d.last_sequence)
    <3>2. e.next = d.next /\ e.l0 \cup e.deep \subseteq d.l0 \cup d.deep \cup n
      BY DEF State
    <3> QED
      BY <3>1, <3>2
  <2>3. /\ DOMAIN bg' = BGFields /\ bg'.pc = "logging" /\ bg'.out = bg.out
        /\ bg'.base = bg.base /\ bg'.edit = e
    BY <1>8, <2>2 DEF BGOK, BGFields
  <2>4. d.l0 \cup d.deep \cup n \subseteq U
    BY <1>2, <1>3, <1>6, <2>1
  <2> HIDE DEF U
  <2>5. BGOK(bg', d, U)
    <3>1. d.next \in Nat /\ d.manifest < d.next /\ d.scheduled
      BY <1>1, <1>2, <1>3
    <3> QED
      BY <1>8, <2>2, <2>3, <2>4, <3>1 DEF BGOK
  <2>6. Keeps(d, db')
    BY <1>3, <1>11 DEF Keeps
  <2> QED
    BY <1>11, <2>5, <2>6
<1> QED
  BY <1>10, <1>11 DEF WriteLevel0Table, d

\* A compaction that ends in an error deletes nothing.
LEMMA CompactionFails ==
  ASSUME Inv, Open, BGUnchanged, NEW d, CompactionEnds(files, d, FALSE),
         DOMAIN d = DBFields, d.state = db.state, d.mem = db.mem,
         d.shutting_down = db.shutting_down, d.manifest = db.manifest,
         d.next \in Nat, db.next <= d.next, d.l0 = db.l0, d.deep = db.deep
  PROVE  Inv'
<1>1. /\ BGOK(bg, db, DOMAIN files.tables)
      /\ DOMAIN files = FileFields /\ DOMAIN manual = ManualFields
      /\ manual.pc \in {"none", "imm", "range"} /\ db.manifest \in Nat
      /\ db.manifest = files.current
      /\ db.l0 \cup db.deep \cup iter.tables \subseteq DOMAIN files.tables
      /\ files.current \in DOMAIN files.manifests
      /\ ManifestOK(files.manifests[files.current], files.current, DOMAIN files.tables)
      /\ files.manifests[files.current].synced # 0
  BY OpenFacts
<1>2. /\ DOMAIN db' = DBFields /\ db'.state = d.state /\ db'.mem = d.mem
      /\ db'.shutting_down = d.shutting_down /\ db'.manifest = d.manifest
      /\ db'.next = d.next /\ db'.l0 = d.l0 /\ db'.deep = d.deep
      /\ DOMAIN manual' = ManualFields /\ manual'.pc = manual.pc
      /\ BGOK(bg', db', DOMAIN files'.tables) /\ files' = files
  <2>1. d.l0 \cup d.deep \cup iter.tables \subseteq DOMAIN files.tables
    BY <1>1
  <2> QED
    BY <1>1, <2>1, CompactionEndsIs
<1> QED
  BY <1>1, <1>2, BackgroundKeeps

\* An output file is opened, filled and put into an edit.
LEMMA OutputStep == Inv /\ (OpenCompactionOutputFile \/ FinishCompactionOutputFile) => Inv'
<1> SUFFICES ASSUME Inv, OpenCompactionOutputFile \/ FinishCompactionOutputFile PROVE Inv'
  OBVIOUS
<1> DEFINE T == DOMAIN files.tables
<1>1. Open /\ BGUnchanged /\ bg.pc = "working" /\ db.scheduled
  BY DEF Inv, ControlOK, OpenCompactionOutputFile, FinishCompactionOutputFile
<1>2. /\ BGOK(bg, db, T)
      /\ DOMAIN db = DBFields /\ DOMAIN files = FileFields /\ DOMAIN manual = ManualFields
      /\ manual.pc \in {"none", "imm", "range"} /\ db.next \in Nat /\ db.manifest < db.next
      /\ db.manifest \in Nat /\ db.manifest = files.current
      /\ db.l0 \cup db.deep \cup iter.tables \subseteq T
      /\ files.current # 0 /\ files.current \in DOMAIN files.manifests
      /\ ManifestOK(files.manifests[files.current], files.current, T)
      /\ files.manifests[files.current].synced # 0
  BY <1>1, OpenFacts
<1>3. CASE CompactionEnds(files, db, FALSE)
  <2>1. db.next <= db.next
    BY <1>2
  <2> QED
    BY <1>1, <1>2, <1>3, <2>1, CompactionFails
<1>4. CASE OpenCompactionOutputFile
  <2> DEFINE n == db.next
             d == [db EXCEPT !.next = NewFileNumber(@), !.pending_outputs = @ \cup {n}]
             e == [d EXCEPT !.pending_outputs = @ \ {n}]
  <2>1. /\ DOMAIN d = DBFields /\ d.state = db.state /\ d.mem = db.mem
        /\ d.shutting_down = db.shutting_down /\ d.manifest = db.manifest
        /\ d.next = db.next + 1 /\ d.l0 = db.l0 /\ d.deep = db.deep /\ d.scheduled = db.scheduled
        /\ d.pending_outputs = db.pending_outputs \cup {n}
    BY <1>2 DEF DBFields, NewFileNumber
  <2>2. \/ /\ db' = d /\ bg' = [bg EXCEPT !.out = n] /\ UNCHANGED manual
           /\ files' = [files EXCEPT !.tables = With(@, n, {})]
        \/ CompactionEnds(files, e, FALSE)
    BY <1>4 DEF OpenCompactionOutputFile
  <2> HIDE DEF d
  <2>3. CASE CompactionEnds(files, e, FALSE)
    <3>1. /\ DOMAIN e = DBFields /\ e.state = db.state /\ e.mem = db.mem
          /\ e.shutting_down = db.shutting_down /\ e.manifest = db.manifest
          /\ e.next = db.next + 1 /\ e.l0 = db.l0 /\ e.deep = db.deep
      BY <2>1 DEF DBFields
    <3> HIDE DEF e
    <3>2. e.next \in Nat /\ db.next <= e.next
      BY <1>2, <3>1
    <3> QED
      BY <1>1, <2>3, <3>1, <3>2, CompactionFails
  <2>4. CASE /\ db' = d /\ bg' = [bg EXCEPT !.out = n] /\ UNCHANGED manual
             /\ files' = [files EXCEPT !.tables = With(@, n, {})]
    <3> DEFINE U == DOMAIN files'.tables
    <3>1. /\ DOMAIN files' = FileFields /\ files'.current = files.current
          /\ files'.manifests = files.manifests /\ files'.logs = files.logs
          /\ files'.tables = With(files.tables, n, {})
      BY <1>2, <2>4 DEF FileFields
    <3>2. DOMAIN With(files.tables, n, {}) = T \cup {n}
      BY DEF With
    <3>3. U = T \cup {n}
      BY <3>1, <3>2
    <3>4. db'.next \in Nat /\ db.next <= db'.next /\ n < db'.next /\ n \in Nat
      BY <1>2, <2>1, <2>4
    <3>5. DOMAIN bg' = BGFields /\ bg'.pc = "working" /\ bg'.out = n /\ bg'.base = bg.base
      BY <1>1, <1>2, <2>4 DEF BGOK, BGFields
    <3> HIDE DEF U
    <3>6. BGOK(bg', db', U)
      <4>1. db'.scheduled /\ n \in db'.pending_outputs \cap U
        BY <1>1, <2>1, <2>4, <3>3
      <4>2. bg.base \subseteq U
        BY <1>2, <3>3 DEF BGOK
      <4> QED
        BY <3>4, <3>5, <4>1, <4>2 DEF BGOK
    <3>7. ManifestOK(files.manifests[files.current], files.current, U)
      BY <1>2, <3>3, MoreTables
    <3>8. db'.l0 \cup db'.deep \cup iter.tables \subseteq U
      BY <1>2, <2>1, <2>4, <3>3
    <3> QED
      BY <1>1, <1>2, <2>1, <2>4, <3>1, <3>4, <3>6, <3>7, <3>8, BackgroundKeeps DEF U
  <2> QED
    BY <2>2, <2>3, <2>4
<1>5. CASE /\ bg.out # 0 /\ UNCHANGED <<db, manual>>
           /\ files' = [files EXCEPT !.tables[bg.out] = Stored(bg.in0 \cup bg.in1)]
           /\ bg' = [bg EXCEPT !.pc = "logging",
                            !.edit = State(db.l0 \ bg.in0, (db.deep \ bg.in1) \cup {bg.out},
                                           db.log_number, db.next, db.last_sequence)]
  <2> DEFINE e == State(db.l0 \ bg.in0, (db.deep \ bg.in1) \cup {bg.out},
                        db.log_number, db.next, db.last_sequence)
             v == Stored(bg.in0 \cup bg.in1)
  <2>1. e.next = db.next /\ e.l0 = db.l0 \ bg.in0 /\ e.deep = (db.deep \ bg.in1) \cup {bg.out}
    BY DEF State
  <2> HIDE DEF e, v
  <2>2. /\ DOMAIN bg' = BGFields /\ bg'.pc = "logging" /\ bg'.out = bg.out
        /\ bg'.base = bg.base /\ bg'.edit = e
    <3>1. bg' = [bg EXCEPT !.pc = "logging", !.edit = e]
      BY <1>5 DEF e
    <3> QED
      BY <1>2, <3>1 DEF BGOK, BGFields
  <2>3. /\ DOMAIN files' = FileFields /\ files'.current = files.current
        /\ files'.manifests = files.manifests /\ files'.logs = files.logs
        /\ DOMAIN files'.tables = T
    <3>1. files' = [files EXCEPT !.tables[bg.out] = v]
      BY <1>5 DEF v
    <3> QED
      BY <1>2, <3>1 DEF FileFields
  <2>4. bg.out \in T
    BY <1>2, <1>5 DEF BGOK
  <2>5. BGOK(bg', db', T)
    BY <1>1, <1>2, <1>5, <2>1, <2>2, <2>4 DEF BGOK
  <2>6. db.next <= db.next
    BY <1>2
  <2> QED
    BY <1>1, <1>2, <1>5, <2>3, <2>5, <2>6, BackgroundKeeps
<1> QED
  BY <1>3, <1>4, <1>5 DEF FinishCompactionOutputFile

\* A record appended to a MANIFEST, synced or not, is fit for a restart.
LEMMA LongerManifest ==
  ASSUME NEW m, NEW n, NEW T, ManifestOK(m, n, T), NEW e, e.next \in Nat, n < e.next,
         e.l0 \cup e.deep \subseteq T
  PROVE  LET longer == Append(m.recs, e)
         IN /\ ManifestOK(NewManifest(longer, m.synced), n, T)
            /\ ManifestOK(NewManifest(m.recs, m.synced), n, T)
            /\ Len(longer) \in Nat \ {0}
            /\ \A U : e.l0 \cup e.deep \subseteq U =>
                 ManifestOK(NewManifest(longer, Len(longer)), n, U)
<1> DEFINE longer == Append(m.recs, e)
<1>1. /\ IsSeq(longer) /\ Len(m.recs) \in Nat /\ Len(longer) = Len(m.recs) + 1
      /\ longer[Len(m.recs) + 1] = e /\ \A i \in 1..Len(m.recs) : longer[i] = m.recs[i]
  <2>1. IsSeq(m.recs)
    BY DEF ManifestOK
  <2> QED
    BY <2>1, AppendIs
<1> HIDE DEF longer
<1>2. /\ IsSeq(m.recs) /\ m.synced \in 0..Len(m.recs)
      /\ \A i \in 1..Len(m.recs) :
           /\ m.recs[i].next \in Nat /\ n < m.recs[i].next
           /\ i >= m.synced => m.recs[i].l0 \cup m.recs[i].deep \subseteq T
  BY DEF ManifestOK
<1>3. ASSUME NEW i \in 1..Len(longer)
      PROVE  /\ longer[i].next \in Nat /\ n < longer[i].next
             /\ i >= m.synced => longer[i].l0 \cup longer[i].deep \subseteq T
  <2>1. i \in 1..Len(m.recs) \/ i = Len(m.recs) + 1
    BY <1>1
  <2>2. CASE i = Len(m.recs) + 1
    BY <1>1, <2>2
  <2>3. CASE i \in 1..Len(m.recs)
    BY <1>1, <1>2, <2>3
  <2> QED
    BY <2>1, <2>2, <2>3
<1>4. m.synced \in 0..Len(longer)
  BY <1>1, <1>2
<1>5. ASSUME NEW r, NEW s PROVE /\ DOMAIN NewManifest(r, s) = {"recs", "synced"}
                                /\ NewManifest(r, s).recs = r /\ NewManifest(r, s).synced = s
  BY DEF NewManifest
<1>6. ManifestOK(NewManifest(longer, m.synced), n, T)
  BY <1>1, <1>3, <1>4, <1>5 DEF ManifestOK
<1>7. ManifestOK(NewManifest(m.recs, m.synced), n, T)
  BY <1>2, <1>5 DEF ManifestOK
<1>8. ASSUME NEW U, e.l0 \cup e.deep \subseteq U
      PROVE  ManifestOK(NewManifest(longer, Len(longer)), n, U)
  <2>1. Len(longer) \in 0..Len(longer)
    BY <1>1
  <2>2. ASSUME NEW i \in 1..Len(longer), i >= Len(longer)
        PROVE  longer[i].l0 \cup longer[i].deep \subseteq U
    <3>1. i = Len(m.recs) + 1
      BY <1>1, <2>2
    <3> QED
      BY <1>1, <1>8, <3>1
  <2> QED
    BY <1>1, <1>3, <1>5, <2>1, <2>2 DEF ManifestOK
<1>9. Len(longer) \in Nat \ {0}
  BY <1>1
<1> QED
  BY <1>6, <1>7, <1>8, <1>9 DEF longer

\* What follows LogAndApply in its callers, when f are the files with the new
\* MANIFEST and d is the database with or without the new version.
LEMMA AfterLogAndApplyIs ==
  ASSUME NEW f, NEW d, NEW ok \in BOOLEAN, AfterLogAndApply(f, d, ok), NEW T, T = DOMAIN f.tables,
         BGOK(bg, d, T), bg.pc = "logging", BGOK(bg, db, T),
         DOMAIN d = DBFields, d.next \in Nat, d.scheduled, DOMAIN f = FileFields,
         DOMAIN manual = ManualFields, d.manifest = f.current, f.current \in Nat,
         f.current \in DOMAIN f.manifests, d.l0 \cup d.deep \cup iter.tables \subseteq T
  PROVE  /\ DOMAIN db' = DBFields /\ db'.state = d.state /\ db'.mem = d.mem
         /\ db'.shutting_down = d.shutting_down /\ db'.manifest = d.manifest
         /\ db'.next = d.next /\ db'.l0 = d.l0 /\ db'.deep = d.deep
         /\ DOMAIN manual' = ManualFields /\ manual'.pc = manual.pc
         /\ BGOK(bg', db', DOMAIN files'.tables)
         /\ DOMAIN files' = FileFields /\ files'.current = f.current
         /\ DOMAIN files'.logs \subseteq DOMAIN f.logs
         /\ d.l0 \cup d.deep \cup iter.tables \subseteq DOMAIN files'.tables
         /\ f.current \in DOMAIN files'.manifests
         /\ files'.manifests[f.current] = f.manifests[f.current]
         /\ ~ok => files' = f
<1>1. CASE bg.job \in {"mem", "both"} /\ ok
  <2> DEFINE e == [d EXCEPT !.imm = 0]
             g == DeleteObsoleteFiles(f, e, bg)
             U == DOMAIN g.tables
  <2>1. DOMAIN e = DBFields /\ Keeps(d, e) /\ e.scheduled = d.scheduled
    BY DEF DBFields, Keeps
  <2>2. MemTableDone(e) /\ files' = g
    BY <1>1 DEF AfterLogAndApply
  <2> HIDE DEF e
  <2>3. /\ DOMAIN g = FileFields /\ g.current = f.current
        /\ DOMAIN g.logs \subseteq DOMAIN f.logs
        /\ DOMAIN f.tables \cap (LiveTables(e, bg) \cup e.pending_outputs) \subseteq U
        /\ \A n \in DOMAIN f.manifests : n >= e.manifest =>
             n \in DOMAIN g.manifests /\ g.manifests[n] = f.manifests[n]
    BY DeleteKeeps
  <2> HIDE DEF g
  <2>4. f.current >= e.manifest
    BY <2>1 DEF Keeps
  <2>5. f.current \in DOMAIN g.manifests /\ g.manifests[f.current] = f.manifests[f.current]
    BY <2>3, <2>4
  <2>6. d.l0 \cup d.deep \cup iter.tables \cup bg.base \subseteq U
        /\ T \cap d.pending_outputs \subseteq U
    BY <2>1, <2>3 DEF LiveTables, Keeps, BGOK
  <2>7. BGOK([bg EXCEPT !.pc = "working"], e, U) /\ bg.out \in Nat
    <3> DEFINE b == [bg EXCEPT !.pc = "working"]
    <3>1. DOMAIN b = BGFields /\ b.pc = "working" /\ b.out = bg.out /\ b.base = bg.base
      BY DEF BGOK, BGFields
    <3> HIDE DEF b, U
    <3>2. bg.out # 0 => bg.out \in U /\ bg.out \in e.pending_outputs /\ bg.out < e.next
      BY <2>1, <2>6 DEF BGOK, Keeps
    <3>3. BGOK(b, e, U)
      BY <2>1, <2>6, <3>1, <3>2 DEF BGOK
    <3> QED
      BY <3>3 DEF BGOK, b
  <2> HIDE DEF U
  <2>8. CASE bg.job = "both"
    <3>1. db' = e /\ bg' = [bg EXCEPT !.pc = "working", !.table = 0, !.job = "compact"]
          /\ UNCHANGED manual
      BY <2>2, <2>8 DEF MemTableDone
    <3>2. /\ DOMAIN bg' = BGFields /\ bg'.pc = "working" /\ bg'.out = bg.out /\ bg'.base = bg.base
      BY <3>1 DEF BGOK, BGFields
    <3>3. bg.out # 0 => bg.out \in U /\ bg.out \in e.pending_outputs /\ bg.out < e.next
      BY <2>1, <2>6 DEF BGOK, Keeps
    <3>4. BGOK(bg', e, U)
      BY <2>1, <2>6, <2>7, <3>2, <3>3 DEF BGOK
    <3> QED
      BY <1>1, <2>1, <2>2, <2>3, <2>5, <2>6, <3>1, <3>4 DEF Keeps, U
  <2>9. CASE bg.job # "both"
    <3> DEFINE h == [e EXCEPT !.scheduled = FALSE]
    <3>1. DOMAIN h = DBFields /\ Keeps(e, h)
      BY <2>1 DEF DBFields, Keeps
    <3>2. db' = MaybeScheduleCompaction(h) /\ bg' = IdleBG /\ UNCHANGED manual
      BY <2>2, <2>9 DEF MemTableDone
    <3> HIDE DEF h
    <3>3. Keeps(h, db')
      BY <3>1, <3>2, ScheduleKeeps
    <3>4. Keeps(d, db')
      BY <2>1, <3>1, <3>3 DEF Keeps
    <3>5. BGOK(bg', db', U)
      BY <3>2 DEF BGOK, IdleBG, BGFields, State
    <3> QED
      BY <1>1, <2>2, <2>3, <2>5, <2>6, <3>2, <3>4, <3>5 DEF Keeps, U
  <2> QED
    BY <2>8, <2>9
<1>2. CASE bg.job \in {"mem", "both"} /\ ~ok
  <2> DEFINE e == RecordBackgroundError(d)
  <2>1. Keeps(d, e) /\ e.scheduled = d.scheduled
    BY ErrorKeeps
  <2>2. MemTableDone(e) /\ files' = f
    BY <1>2 DEF AfterLogAndApply
  <2> HIDE DEF e
  <2>3. BGOK(bg, e, T) /\ DOMAIN e = DBFields
    BY <2>1 DEF BGOK, Keeps
  <2>4. Keeps(e, db') /\ UNCHANGED manual /\ BGOK(bg', db', T)
    BY <2>1, <2>2, <2>3, MemTableDoneIs
  <2>5. Keeps(d, db')
    BY <2>1, <2>4 DEF Keeps
  <2> QED
    BY <2>2, <2>4, <2>5 DEF Keeps
<1>3. CASE bg.job = "move"
  <2> DEFINE e == [d EXCEPT !.bg_error = @ \/ ~ok]
  <2>1. DOMAIN e = DBFields /\ Keeps(d, e)
    BY DEF DBFields, Keeps
  <2>2. BackgroundDone(e, bg.is_manual, ~ok) /\ files' = f
    BY <1>3 DEF AfterLogAndApply
  <2> HIDE DEF e
  <2>3. /\ Keeps(e, db') /\ DOMAIN manual' = ManualFields /\ manual'.pc = manual.pc
        /\ BGOK(bg', db', T)
    <3>1. e.next \in Nat
      BY <2>1 DEF Keeps
    <3> QED
      BY <2>1, <2>2, <3>1, BackgroundDoneIs
  <2>4. Keeps(d, db')
    BY <2>1, <2>3 DEF Keeps
  <2> QED
    BY <2>2, <2>3, <2>4 DEF Keeps
<1>4. CASE bg.job \notin {"mem", "both", "move"}
  <2>1. CompactionEnds(f, d, ok)
    BY <1>4 DEF AfterLogAndApply
  <2> QED
    BY <2>1, CompactionEndsIs
<1> QED
  BY <1>1, <1>2, <1>3, <1>4

\* The new version is logged and installed, or it could not be.
LEMMA LogStep == Inv /\ LogAndApply => Inv'
<1> SUFFICES ASSUME Inv, LogAndApply PROVE Inv'
  OBVIOUS
<1> DEFINE T == DOMAIN files.tables
           c == files.current
           m == files.manifests[c]
           longer == Append(m.recs, bg.edit)
           F(recs, synced) == [files EXCEPT !.manifests[db.manifest] = NewManifest(recs, synced)]
           d == Installed(db)
<1>1. Open /\ BGUnchanged /\ bg.pc = "logging" /\ db.scheduled
  BY DEF Inv, ControlOK, LogAndApply
<1>2. /\ BGOK(bg, db, T)
      /\ DOMAIN db = DBFields /\ DOMAIN files = FileFields /\ DOMAIN manual = ManualFields
      /\ manual.pc \in {"none", "imm", "range"} /\ db.next \in Nat
      /\ db.manifest \in Nat /\ db.manifest = c
      /\ db.l0 \cup db.deep \cup iter.tables \subseteq T
      /\ c \in DOMAIN files.manifests /\ ManifestOK(m, c, T) /\ m.synced # 0
  BY <1>1, OpenFacts
<1>3. /\ bg.edit.next \in Nat /\ c < bg.edit.next
      /\ bg.edit.l0 \cup bg.edit.deep \subseteq T
  BY <1>1, <1>2 DEF BGOK
<1>4. /\ DOMAIN d = DBFields /\ d.state = db.state /\ d.mem = db.mem
      /\ d.shutting_down = db.shutting_down /\ d.manifest = db.manifest
      /\ d.next = db.next /\ d.l0 = bg.edit.l0 /\ d.deep = bg.edit.deep
      /\ d.scheduled = db.scheduled /\ d.pending_outputs = db.pending_outputs
  BY <1>2 DEF DBFields, Installed
<1>5. /\ ManifestOK(NewManifest(longer, m.synced), c, T)
      /\ ManifestOK(NewManifest(m.recs, m.synced), c, T)
      /\ Len(longer) \in Nat \ {0}
      /\ \A U : bg.edit.l0 \cup bg.edit.deep \subseteq U =>
           ManifestOK(NewManifest(longer, Len(longer)), c, U)
  BY <1>2, <1>3, LongerManifest
<1>6. \/ AfterLogAndApply(F(longer, Len(longer)), d, TRUE)
      \/ \E recs \in {m.recs, longer} : AfterLogAndApply(F(recs, m.synced), db, FALSE)
  BY <1>2 DEF LogAndApply
<1>7. BGOK(bg, d, T)
  BY <1>2, <1>4 DEF BGOK
<1> HIDE DEF longer, d, m
<1>8. ASSUME NEW recs, NEW synced
      PROVE  LET f == F(recs, synced)
             IN /\ DOMAIN f = FileFields /\ f.tables = files.tables /\ f.current = c
                /\ f.logs = files.logs /\ c \in DOMAIN f.manifests
                /\ f.manifests[c] = NewManifest(recs, synced)
  <2> DEFINE v == NewManifest(recs, synced)
  <2> HIDE DEF v
  <2>1. LET f == [files EXCEPT !.manifests[c] = v]
        IN /\ DOMAIN f = FileFields /\ f.tables = files.tables /\ f.current = c
           /\ f.logs = files.logs /\ c \in DOMAIN f.manifests /\ f.manifests[c] = v
    BY <1>2 DEF FileFields
  <2> QED
    BY <1>2, <2>1 DEF v
<1>9. ASSUME NEW r, NEW s PROVE NewManifest(r, s).synced = s
  BY DEF NewManifest
<1>10. CASE AfterLogAndApply(F(longer, Len(longer)), d, TRUE)
  <2> DEFINE f == F(longer, Len(longer))
  <2>1. /\ DOMAIN f = FileFields /\ DOMAIN f.tables = T /\ f.current = c
        /\ f.logs = files.logs /\ c \in DOMAIN f.manifests
        /\ f.manifests[c] = NewManifest(longer, Len(longer))
    BY <1>8
  <2>2. AfterLogAndApply(f, d, TRUE)
    BY <1>10
  <2> HIDE DEF f, F
  <2>3. d.next \in Nat /\ d.scheduled /\ d.manifest = f.current /\ f.current \in Nat
        /\ f.current \in DOMAIN f.manifests /\ d.l0 \cup d.deep \cup iter.tables \subseteq T
    BY <1>1, <1>2, <1>3, <1>4, <2>1
  <2>4. /\ DOMAIN db' = DBFields /\ db'.state = d.state /\ db'.mem = d.mem
        /\ db'.shutting_down = d.shutting_down /\ db'.manifest = d.manifest
        /\ db'.next = d.next /\ db'.l0 = d.l0 /\ db'.deep = d.deep
        /\ DOMAIN manual' = ManualFields /\ manual'.pc = manual.pc
        /\ BGOK(bg', db', DOMAIN files'.tables)
        /\ DOMAIN files' = FileFields /\ files'.current = f.current
        /\ DOMAIN files'.logs \subseteq DOMAIN f.logs
        /\ d.l0 \cup d.deep \cup iter.tables \subseteq DOMAIN files'.tables
        /\ f.current \in DOMAIN files'.manifests
        /\ files'.manifests[f.current] = f.manifests[f.current]
    <3>1. PICK U : U = DOMAIN f.tables
      OBVIOUS
    <3>2. /\ U = T /\ BGOK(bg, d, U) /\ bg.pc = "logging" /\ BGOK(bg, db, U)
          /\ DOMAIN manual = ManualFields
      BY <1>1, <1>2, <1>7, <2>1, <3>1
    <3>3. d.l0 \cup d.deep \cup iter.tables \subseteq U
      BY <2>3, <3>2
    <3> HIDE DEF T
    <3>4. /\ AfterLogAndApply(f, d, TRUE) /\ U = DOMAIN f.tables
          /\ BGOK(bg, d, U) /\ bg.pc = "logging" /\ BGOK(bg, db, U)
          /\ DOMAIN d = DBFields /\ d.next \in Nat /\ d.scheduled /\ DOMAIN f = FileFields
          /\ DOMAIN manual = ManualFields /\ d.manifest = f.current /\ f.current \in Nat
          /\ f.current \in DOMAIN f.manifests /\ d.l0 \cup d.deep \cup iter.tables \subseteq U
      BY <1>4, <2>1, <2>2, <2>3, <3>1, <3>2, <3>3
    <3> QED
      BY <3>4, AfterLogAndApplyIs
  <2>5. /\ ManifestOK(files'.manifests[c], c, DOMAIN files'.tables)
        /\ files'.manifests[c].synced # 0 /\ c \in DOMAIN files'.manifests
    BY <1>4, <1>5, <1>9, <2>1, <2>4
  <2>6. db.next <= d.next
    BY <1>2, <1>4
  <2> QED
    BY <1>1, <1>2, <1>4, <2>1, <2>3, <2>4, <2>5, <2>6, BackgroundKeeps
<1>11. ASSUME NEW recs \in {m.recs, longer}, AfterLogAndApply(F(recs, m.synced), db, FALSE)
       PROVE  Inv'
  <2> DEFINE f == F(recs, m.synced)
  <2>1. /\ DOMAIN f = FileFields /\ DOMAIN f.tables = T /\ f.current = c
        /\ f.logs = files.logs /\ c \in DOMAIN f.manifests
        /\ f.manifests[c] = NewManifest(recs, m.synced)
    BY <1>8
  <2>2. AfterLogAndApply(f, db, FALSE)
    BY <1>11
  <2> HIDE DEF f, F
  <2>3. db.manifest = f.current /\ f.current \in Nat /\ f.current \in DOMAIN f.manifests
    BY <1>2, <2>1
  <2>4. /\ DOMAIN db' = DBFields /\ db'.state = db.state /\ db'.mem = db.mem
        /\ db'.shutting_down = db.shutting_down /\ db'.manifest = db.manifest
        /\ db'.next = db.next /\ db'.l0 = db.l0 /\ db'.deep = db.deep
        /\ DOMAIN manual' = ManualFields /\ manual'.pc = manual.pc
        /\ BGOK(bg', db', DOMAIN files'.tables) /\ files' = f
    BY <1>1, <1>2, <2>1, <2>2, <2>3, AfterLogAndApplyIs
  <2>5. ManifestOK(f.manifests[c], c, T) /\ f.manifests[c].synced # 0
    BY <1>2, <1>5, <1>9, <2>1
  <2>6. db.next <= db.next
    BY <1>2
  <2> QED
    BY <1>1, <1>2, <2>1, <2>4, <2>5, <2>6, BackgroundKeeps
<1> QED
  BY <1>6, <1>10, <1>11

\* Waiting for, asking for and ending a manual compaction.
LEMMA ManualStepKeeps == Inv /\ ManualStep => Inv'
<1> SUFFICES ASSUME Inv, ManualStep PROVE Inv'
  OBVIOUS
<1>1. ManualUnchanged /\ UNCHANGED <<calls, writers, leader>> /\ manual.pc # "none"
  BY DEF ManualStep, CompactRangeWaits, CompactRangeStarts, TEST_CompactRange, ManualRuns
<1>2. UNCHANGED <<files, bg, opening, iter, must, calls, writers, leader>>
  BY <1>1 DEF ManualUnchanged
<1>3. Open /\ ~db.shutting_down /\ DOMAIN db = DBFields /\ DOMAIN manual = ManualFields
      /\ manual.pc \in {"none", "imm", "range"}
  BY <1>1 DEF Inv, RecordsOK, ControlOK
<1>4. DOMAIN manual' = ManualFields /\ manual'.pc \in {"none", "imm", "range"}
  <2>1. \/ manual' = manual \/ manual' = [manual EXCEPT !.pc = "range"]
        \/ manual' = [manual EXCEPT !.pc = "none"]
    BY DEF ManualStep, CompactRangeWaits, CompactRangeStarts, TEST_CompactRange
  <2> QED
    BY <1>3, <2>1 DEF ManualFields
<1>5. Keeps(db, db') /\ (db.scheduled => db'.scheduled)
  <2>1. CASE UNCHANGED db
    BY <1>3, <2>1 DEF Keeps
  <2>2. CASE db' = [db EXCEPT !.manual = FALSE]
    BY <1>3, <2>2 DEF Keeps, DBFields
  <2>3. CASE db' = MaybeScheduleCompaction([db EXCEPT !.manual = TRUE])
    <3> DEFINE e == [db EXCEPT !.manual = TRUE]
    <3>1. DOMAIN e = DBFields /\ Keeps(db, e) /\ e.scheduled = db.scheduled
      BY <1>3 DEF Keeps, DBFields
    <3> HIDE DEF e
    <3>2. Keeps(e, db') /\ (e.scheduled => db'.scheduled)
      BY <2>3, <3>1, ScheduleKeeps DEF e
    <3> QED
      BY <3>1, <3>2 DEF Keeps
  <2> QED
    BY <2>1, <2>2, <2>3 DEF ManualStep, CompactRangeWaits, CompactRangeStarts, TEST_CompactRange
<1>6. ControlOK' /\ NumbersOK' /\ TablesOK' /\ CurrentOK'
  BY <1>2, <1>3, <1>4, <1>5, QuietStep
<1>7. RecordsOK' /\ CallsOK' /\ QueueOK'
  BY <1>2, <1>3, <1>4, <1>5 DEF Inv, RecordsOK, CallsOK, QueueOK, Keeps, Open
<1> QED
  BY <1>6, <1>7 DEF Inv

-----------------------------------------------------------------------------
(* Open, recovery and shutdown. *)

\* What holds while the database is closed or being opened: no thread runs.
LEMMA ClosedFacts ==
  ASSUME Inv, ~Open
  PROVE  /\ writers = <<>> /\ leader.pc = "none" /\ bg.pc = "idle" /\ bg.base = {} /\ bg.out = 0
         /\ manual.pc = "none" /\ ~iter.on /\ iter.tables = {} /\ ~db.shutting_down
         /\ ~db.scheduled /\ db.state \in {"closed", "opening"}
<1>1. /\ bg.pc = "idle" /\ manual.pc = "none" /\ ~iter.on /\ ~db.shutting_down /\ ~db.scheduled
      /\ bg.base = {} /\ bg.out = 0 /\ iter.tables = {} /\ db.state \in {"closed", "opening"}
  BY DEF Inv, ControlOK, Open
<1>2. writers = <<>> /\ leader.pc = "none"
  BY DEF Inv, QueueOK
<1> QED
  BY <1>1, <1>2

\* A step of Open, Close or DestroyDB keeps the threads idle.
LEMMA OpenKeeps ==
  ASSUME Inv, OpenUnchanged,
         writers = <<>>, bg.pc = "idle", manual.pc = "none", ~iter.on,
         DOMAIN db' = DBFields, DOMAIN files' = FileFields, DOMAIN opening' = OpeningFields,
         db'.state \in {"closed", "opening", "open"},
         opening'.pc \in {"none", "logs", "install"}, opening'.pc # "none" => db'.state = "opening",
         db'.shutting_down \/ db'.scheduled => db'.state = "open",
         NumbersOK', TablesOK', CurrentOK'
  PROVE  Inv'
<1>1. UNCHANGED <<calls, writers, leader, bg, manual, iter>>
  BY DEF OpenUnchanged
<1>2. leader.pc = "none"
  BY DEF Inv, QueueOK
<1>3. RecordsOK' /\ CallsOK'
  BY <1>1 DEF Inv, RecordsOK, CallsOK
<1>4. QueueOK'
  BY <1>1, <1>2 DEF Inv, QueueOK
<1>5. ControlOK'
  BY <1>1 DEF Inv, ControlOK, Open
<1> QED
  BY <1>3, <1>4, <1>5 DEF Inv

\* The fields of a closed database.
LEMMA ClosedDBIs ==
  /\ DOMAIN ClosedDB = DBFields /\ ClosedDB.state = "closed" /\ ClosedDB.next = 0
  /\ ClosedDB.manifest = 0 /\ ~ClosedDB.scheduled /\ ~ClosedDB.shutting_down
  /\ DOMAIN NoOpening = OpeningFields /\ NoOpening.pc = "none" /\ NoOpening.todo = {}
<1>1. /\ DOMAIN ClosedDB = DBFields /\ ClosedDB.state = "closed" /\ ClosedDB.next = 0
      /\ ClosedDB.manifest = 0 /\ ~ClosedDB.scheduled /\ ~ClosedDB.shutting_down
  BY DEF ClosedDB, DBFields
<1>2. DOMAIN NoOpening = OpeningFields /\ NoOpening.pc = "none" /\ NoOpening.todo = {}
  BY DEF NoOpening, OpeningFields
<1> QED
  BY <1>1, <1>2

\* NewDB.
LEMMA NewDBStep == Inv /\ NewDB => Inv'
<1> SUFFICES ASSUME Inv, NewDB PROVE Inv'
  OBVIOUS
<1> DEFINE s == State({}, {}, 0, 2, 0)
           m == NewManifest(<<s>>, 0)
<1>1. /\ db.state = "closed" /\ files.current = 0 /\ UNCHANGED <<db, opening, must>> /\ OpenUnchanged
      /\ files' = [files EXCEPT !.manifests = With(@, 1, m), !.current = 1]
  BY DEF NewDB
<1>2. UNCHANGED <<bg, iter>>
  BY <1>1 DEF OpenUnchanged
<1>3. ~Open /\ must = {} /\ DOMAIN files = FileFields /\ DOMAIN db = DBFields
      /\ DOMAIN opening = OpeningFields /\ opening.pc = "none"
  BY <1>1 DEF Inv, RecordsOK, ControlOK, CurrentOK, Open
<1>4. s.next = 2 /\ s.l0 = {} /\ s.deep = {}
  BY DEF State
<1> HIDE DEF s
<1>5. \A T : ManifestOK(m, 1, T)
  <2>1. DOMAIN m = {"recs", "synced"} /\ m.recs = <<s>> /\ m.synced = 0
    BY DEF NewManifest
  <2>2. <<s>> \in Seq({s}) /\ Len(<<s>>) = 1 /\ <<s>>[1] = s
    OBVIOUS
  <2>3. IsSeq(<<s>>)
    BY <2>2 DEF IsSeq
  <2> QED
    BY <1>4, <2>1, <2>2, <2>3 DEF ManifestOK
<1>6. m.synced = 0
  BY DEF NewManifest
<1> HIDE DEF m
<1>7. /\ DOMAIN files' = FileFields /\ files'.current = 1 /\ files'.tables = files.tables
      /\ files'.logs = files.logs /\ 1 \in DOMAIN files'.manifests /\ files'.manifests[1] = m
  <2>1. /\ DOMAIN files' = FileFields /\ files'.current = 1 /\ files'.tables = files.tables
        /\ files'.logs = files.logs /\ files'.manifests = With(files.manifests, 1, m)
    BY <1>1, <1>3 DEF FileFields
  <2> QED
    BY <2>1 DEF With
<1>8. NumbersOK'
  BY <1>1, <1>2, <1>7 DEF Inv, NumbersOK, Open
<1>9. TablesOK'
  BY <1>1, <1>2, <1>7 DEF Inv, TablesOK
<1>10. CurrentOK'
  BY <1>1, <1>3, <1>5, <1>6, <1>7 DEF CurrentOK, Open
<1> QED
  BY <1>1, <1>3, <1>7, <1>8, <1>9, <1>10, ClosedFacts, OpenKeeps

\* The last record of a MANIFEST is read.
LEMMA RecoverStep == Inv /\ Recover => Inv'
<1> SUFFICES ASSUME Inv, Recover PROVE Inv'
  OBVIOUS
<1> DEFINE m == files.manifests[files.current]
           recs == m.recs
           s == recs[Len(recs)]
<1>1. /\ db.state = "closed" /\ files.current # 0 /\ recs # <<>>
      /\ s.l0 \cup s.deep \subseteq DOMAIN files.tables
      /\ db' = [ClosedDB EXCEPT !.state = "opening", !.manifest = s.next,
                  !.next = s.next + 1, !.last_sequence = s.last_sequence,
                  !.log_number = s.log_number, !.l0 = s.l0, !.deep = s.deep]
      /\ opening' = [NoOpening EXCEPT !.pc = "logs",
                       !.todo = {n \in DOMAIN files.logs : n >= s.log_number}]
      /\ OpenUnchanged /\ UNCHANGED <<files, must>>
  BY DEF Recover
<1>2. UNCHANGED <<bg, iter>>
  BY <1>1 DEF OpenUnchanged
<1>3. ~Open /\ DOMAIN files = FileFields
  BY <1>1 DEF Inv, RecordsOK, Open
<1>4. /\ bg.pc = "idle" /\ bg.base = {} /\ bg.out = 0 /\ iter.tables = {}
      /\ writers = <<>> /\ manual.pc = "none" /\ ~iter.on
  BY <1>3, ClosedFacts
<1>5. files.current \in Nat /\ files.current \in DOMAIN files.manifests
      /\ ManifestOK(m, files.current, DOMAIN files.tables) /\ (m.synced = 0 => must = {})
  BY <1>1 DEF Inv, CurrentOK
<1>6. s.next \in Nat /\ files.current < s.next
  <2>1. IsSeq(recs) /\ \A i \in 1..Len(recs) : recs[i].next \in Nat /\ files.current < recs[i].next
    BY <1>5 DEF ManifestOK
  <2>2. Len(recs) \in Nat \ {0}
    BY <1>1, <2>1, EmptySeq, LenProperties DEF IsSeq
  <2>3. Len(recs) \in 1..Len(recs)
    BY <2>2
  <2> QED
    BY <2>1, <2>3
<1> DEFINE todo == {n \in DOMAIN files.logs : n >= s.log_number}
<1>7. todo \subseteq DOMAIN files.logs
  OBVIOUS
<1> HIDE DEF s, recs, m, todo
<1>8. /\ DOMAIN db' = DBFields /\ db'.state = "opening" /\ db'.manifest = s.next
      /\ db'.next = s.next + 1 /\ db'.l0 = s.l0 /\ db'.deep = s.deep
      /\ ~db'.scheduled /\ ~db'.shutting_down
  <2>1. db' = [ClosedDB EXCEPT !.state = "opening", !.manifest = s.next,
                 !.next = s.next + 1, !.last_sequence = s.last_sequence,
                 !.log_number = s.log_number, !.l0 = s.l0, !.deep = s.deep]
    BY <1>1
  <2> QED
    BY <2>1, ClosedDBIs DEF DBFields
<1>9. /\ DOMAIN opening' = OpeningFields /\ opening'.pc = "logs" /\ opening'.todo = todo
      /\ opening'.l0 = {}
  <2>1. opening' = [NoOpening EXCEPT !.pc = "logs", !.todo = todo]
    BY <1>1 DEF todo
  <2> QED
    BY <2>1 DEF NoOpening, OpeningFields
<1>10. NumbersOK'
  <2>1. s.next + 1 \in Nat /\ s.next < s.next + 1
    BY <1>6
  <2> QED
    BY <1>1, <1>2, <1>4, <1>6, <1>7, <1>8, <1>9, <2>1 DEF Inv, NumbersOK, Open
<1>11. TablesOK'
  BY <1>1, <1>2, <1>4, <1>8, <1>9 DEF Inv, TablesOK
<1>12. CurrentOK'
  BY <1>1, <1>5, <1>6, <1>8, <1>9 DEF CurrentOK, Open, m
<1> QED
  BY <1>1, <1>3, <1>4, <1>8, <1>9, <1>10, <1>11, <1>12, OpenKeeps

\* The version an Open that failed leaves is the one it found.
LEMMA OpenFailsStep == Inv /\ OpenFails => Inv'
<1> SUFFICES ASSUME Inv, OpenFails PROVE Inv'
  OBVIOUS
<1>1. opening.pc = "logs" /\ db' = ClosedDB /\ opening' = NoOpening /\ OpenUnchanged
      /\ UNCHANGED <<files, must>>
  BY DEF OpenFails, Recovered
<1>2. db.state = "opening" /\ ~Open /\ DOMAIN files = FileFields
  BY <1>1 DEF Inv, RecordsOK, ControlOK, Open
<1>3. /\ bg.pc = "idle" /\ bg.base = {} /\ bg.out = 0 /\ iter.tables = {}
      /\ writers = <<>> /\ manual.pc = "none" /\ ~iter.on
  BY <1>2, ClosedFacts
<1>4. UNCHANGED <<bg, iter>>
  BY <1>1 DEF OpenUnchanged
<1>5. /\ DOMAIN db' = DBFields /\ db'.state = "closed" /\ db'.next = 0
      /\ db'.manifest = 0 /\ ~db'.scheduled /\ ~db'.shutting_down
      /\ DOMAIN opening' = OpeningFields /\ opening'.pc = "none" /\ opening'.todo = {}
  BY <1>1, ClosedDBIs
<1>6. NumbersOK'
  BY <1>1, <1>3, <1>4, <1>5 DEF Inv, NumbersOK, Open
<1>7. TablesOK'
  BY <1>1, <1>3, <1>4, <1>5 DEF Inv, TablesOK
<1>8. CurrentOK'
  BY <1>1, <1>2, <1>5 DEF Inv, CurrentOK, Open
<1> QED
  BY <1>1, <1>2, <1>3, <1>5, <1>6, <1>7, <1>8, OpenKeeps

\* A log that is recovered becomes a table with a new number.
LEMMA RecoverLogStep == Inv /\ RecoverLogFile => Inv'
<1> SUFFICES ASSUME Inv, RecoverLogFile PROVE Inv'
  OBVIOUS
<1> DEFINE n == Min(opening.todo)
           T == DOMAIN files.tables
           U == DOMAIN files'.tables
<1>1. opening.pc = "logs" /\ opening.todo # {} /\ OpenUnchanged /\ UNCHANGED must
  BY DEF RecoverLogFile
<1>2. /\ db.state = "opening" /\ ~Open /\ DOMAIN files = FileFields /\ DOMAIN db = DBFields
      /\ DOMAIN opening = OpeningFields /\ db.next \in Nat /\ db.manifest < db.next
      /\ db.manifest \in Nat
  BY <1>1 DEF Inv, RecordsOK, ControlOK, NumbersOK, Open
<1>3. /\ bg.pc = "idle" /\ bg.base = {} /\ bg.out = 0 /\ iter.tables = {}
      /\ writers = <<>> /\ manual.pc = "none" /\ ~iter.on /\ ~db.scheduled /\ ~db.shutting_down
  BY <1>2, ClosedFacts
<1>4. UNCHANGED <<bg, iter>>
  BY <1>1 DEF OpenUnchanged
<1>5. n \in Nat
  <2>1. opening.todo \subseteq Nat
    BY DEF Inv, NumbersOK
  <2>2. \E x \in opening.todo : \A y \in opening.todo : x <= y
    BY <1>1, <2>1, LeastNat
  <2>3. n \in opening.todo
    BY <2>2, Zenon DEF Min
  <2> QED
    BY <2>1, <2>3
<1> DEFINE Step(ws, next, seq, s, l0) ==
        /\ next \in {db.next, db.next + 1}
        /\ db' = [db EXCEPT !.next = MarkFileNumberUsed(next, n)]
        /\ opening' = [opening EXCEPT !.todo = @ \ {n}, !.s = s, !.l0 = l0, !.max_sequence = seq]
        /\ \/ files' = files /\ l0 = opening.l0
           \/ /\ files' = [files EXCEPT !.tables = With(@, db.next, ws)]
              /\ l0 = opening.l0 \cup {db.next}
<1>6. \E ws, next, seq, s, l0 : Step(ws, next, seq, s, l0)
  <2>1. PICK ws, build, s : LogRecovered(n, ws, build, s)
    BY Zenon DEF RecoverLogFile
  <2> DEFINE seq == Max({calls[k].seq : k \in ws} \cup {opening.max_sequence})
             table == IF build /\ s = "ok" THEN {db.next} ELSE {}
             next == IF build THEN NewFileNumber(db.next) ELSE db.next
             l0 == opening.l0 \cup table
  <2>2. next \in {db.next, db.next + 1}
    BY DEF NewFileNumber
  <2> HIDE DEF n, seq
  <2>3. opening' = [opening EXCEPT !.todo = @ \ {n}, !.s = s, !.l0 = @ \cup table,
                                   !.max_sequence = seq]
    BY <2>1, Zenon DEF LogRecovered, seq
  <2>4. db' = [db EXCEPT !.next = MarkFileNumberUsed(next, n)]
    BY <2>1, Zenon DEF LogRecovered
  <2>5. files' = IF table = {} THEN files ELSE [files EXCEPT !.tables = With(@, db.next, ws)]
    BY <2>1, Zenon DEF LogRecovered
  <2>6. opening' = [opening EXCEPT !.todo = @ \ {n}, !.s = s, !.l0 = l0, !.max_sequence = seq]
    BY <1>2, <2>3
  <2> HIDE DEF next
  <2>7. Step(ws, next, seq, s, l0)
    BY <2>2, <2>4, <2>5, <2>6
  <2> HIDE DEF Step
  <2> QED
    BY <2>7, Zenon
<1> HIDE DEF Step
<1> PICK ws, next, seq, s, l0 : Step(ws, next, seq, s, l0)
  BY <1>6
<1> USE DEF Step
<1> HIDE DEF n
<1>7. next \in Nat /\ db.next <= next
  BY <1>2, <1>6
<1>8. /\ DOMAIN db' = DBFields /\ db'.state = "opening" /\ db'.manifest = db.manifest
      /\ db'.l0 = db.l0 /\ db'.deep = db.deep /\ ~db'.scheduled /\ ~db'.shutting_down
      /\ db'.next \in Nat /\ db.next <= db'.next
  <2>1. MarkFileNumberUsed(next, n) \in Nat /\ db.next <= MarkFileNumberUsed(next, n)
    BY <1>2, <1>5, <1>7 DEF MarkFileNumberUsed
  <2> DEFINE e == MarkFileNumberUsed(next, n)
  <2> HIDE DEF e
  <2>2. db' = [db EXCEPT !.next = e]
    BY <1>6 DEF e
  <2>3. /\ DOMAIN db' = DBFields /\ db'.state = "opening" /\ db'.manifest = db.manifest
        /\ db'.l0 = db.l0 /\ db'.deep = db.deep /\ ~db'.scheduled /\ ~db'.shutting_down
        /\ db'.next = e
    BY <1>2, <1>3, <2>2 DEF DBFields
  <2> QED
    BY <2>1, <2>3 DEF e
<1>9. /\ DOMAIN opening' = OpeningFields /\ opening'.pc = "logs" /\ opening'.l0 = l0
      /\ opening'.todo \subseteq opening.todo
  <2>1. opening' = [opening EXCEPT !.todo = @ \ {n}, !.s = s, !.l0 = l0, !.max_sequence = seq]
    BY <1>6
  <2> QED
    BY <1>1, <1>2, <2>1 DEF OpeningFields
<1>10. opening.l0 \subseteq T
  BY <1>1 DEF Inv, TablesOK
<1>11. /\ DOMAIN files' = FileFields /\ files'.current = files.current
       /\ files'.manifests = files.manifests /\ files'.logs = files.logs
       /\ T \subseteq U /\ l0 \subseteq U
  <2>1. CASE files' = files /\ l0 = opening.l0
    BY <1>2, <1>10, <2>1
  <2>2. CASE files' = [files EXCEPT !.tables = With(@, db.next, ws)] /\ l0 = opening.l0 \cup {db.next}
    <3>1. /\ DOMAIN files' = FileFields /\ files'.current = files.current
          /\ files'.manifests = files.manifests /\ files'.logs = files.logs
          /\ files'.tables = With(files.tables, db.next, ws)
      BY <1>2, <2>2 DEF FileFields
    <3>2. DOMAIN With(files.tables, db.next, ws) = T \cup {db.next}
      BY DEF With
    <3> QED
      BY <1>10, <2>2, <3>1, <3>2
  <2> QED
    BY <1>6, <2>1, <2>2
<1>12. NumbersOK'
  <2>1. db.manifest < db'.next
    BY <1>2, <1>8
  <2> QED
    BY <1>3, <1>4, <1>8, <1>9, <1>11, <2>1 DEF Inv, NumbersOK, Open
<1>13. TablesOK'
  BY <1>2, <1>3, <1>4, <1>8, <1>9, <1>11 DEF Inv, TablesOK
<1>14. CurrentOK'
  <2>1. \A m, k : ManifestOK(m, k, T) => ManifestOK(m, k, U)
    BY <1>11, MoreTables
  <2> QED
    BY <1>1, <1>2, <1>8, <1>9, <1>11, <2>1 DEF Inv, CurrentOK, Open
<1> QED
  BY <1>1, <1>3, <1>8, <1>9, <1>11, <1>12, <1>13, <1>14, OpenKeeps

\* The new MANIFEST is written next to the one that is current.
LEMMA OpenLogStep == Inv /\ OpenLog => Inv'
<1> SUFFICES ASSUME Inv, OpenLog PROVE Inv'
  OBVIOUS
<1> DEFINE seq == Max({db.last_sequence, opening.max_sequence})
           s == State(db.l0 \cup opening.l0, db.deep, db.next, db.next + 1, seq)
           m == NewManifest(<<s>>, 1)
           T == DOMAIN files.tables
<1>1. /\ opening.pc = "logs" /\ OpenUnchanged /\ UNCHANGED must
      /\ files' = [files EXCEPT !.logs = With(@, db.next, NewLog),
                                !.manifests = With(@, db.manifest, m)]
      /\ db' = [db EXCEPT !.next = NewFileNumber(@), !.last_sequence = seq]
      /\ opening' = [opening EXCEPT !.pc = "install", !.log = db.next]
  BY DEF OpenLog, Recovered
<1>2. s.l0 = db.l0 \cup opening.l0 /\ s.deep = db.deep /\ s.next = db.next + 1
  BY DEF State
<1> HIDE DEF seq, s
<1>3. /\ DOMAIN m = {"recs", "synced"} /\ m.recs = <<s>> /\ m.synced = 1
  BY DEF NewManifest
<1> HIDE DEF m
<1>4. /\ db.state = "opening" /\ ~Open /\ DOMAIN files = FileFields /\ DOMAIN db = DBFields
      /\ DOMAIN opening = OpeningFields /\ db.next \in Nat /\ db.manifest < db.next
      /\ db.manifest \in Nat /\ files.current \in Nat /\ files.current < db.manifest
      /\ opening.l0 \subseteq T /\ db.l0 \cup db.deep \subseteq T /\ opening.todo \subseteq Nat
      /\ DOMAIN files.logs \subseteq Nat
  <2>1. db.state = "opening"
    BY <1>1 DEF Inv, ControlOK
  <2> QED
    BY <1>1, <2>1 DEF Inv, RecordsOK, NumbersOK, TablesOK, CurrentOK, Open
<1>5. /\ bg.pc = "idle" /\ bg.base = {} /\ bg.out = 0 /\ iter.tables = {}
      /\ writers = <<>> /\ manual.pc = "none" /\ ~iter.on /\ ~db.scheduled /\ ~db.shutting_down
  BY <1>4, ClosedFacts
<1>6. UNCHANGED <<bg, iter>>
  BY <1>1 DEF OpenUnchanged
<1>7. /\ DOMAIN db' = DBFields /\ db'.state = "opening" /\ db'.manifest = db.manifest
      /\ db'.l0 = db.l0 /\ db'.deep = db.deep /\ ~db'.scheduled /\ ~db'.shutting_down
      /\ db'.next = db.next + 1
  BY <1>1, <1>4, <1>5 DEF DBFields, NewFileNumber
<1>8. /\ DOMAIN opening' = OpeningFields /\ opening'.pc = "install" /\ opening'.l0 = opening.l0
      /\ opening'.todo = opening.todo /\ opening'.log = db.next
  BY <1>1, <1>4 DEF OpeningFields
<1>9. /\ DOMAIN files' = FileFields /\ files'.current = files.current /\ files'.tables = files.tables
      /\ DOMAIN files'.logs = DOMAIN files.logs \cup {db.next}
      /\ DOMAIN files'.manifests = DOMAIN files.manifests \cup {db.manifest}
      /\ files'.manifests[db.manifest] = m
      /\ \A k \in DOMAIN files.manifests : k # db.manifest => files'.manifests[k] = files.manifests[k]
  <2>1. /\ DOMAIN files' = FileFields /\ files'.current = files.current /\ files'.tables = files.tables
        /\ files'.logs = With(files.logs, db.next, NewLog)
        /\ files'.manifests = With(files.manifests, db.manifest, m)
    BY <1>1, <1>4 DEF FileFields
  <2>2. DOMAIN files'.logs = DOMAIN files.logs \cup {db.next}
    BY <2>1 DEF With
  <2>3. /\ DOMAIN files'.manifests = DOMAIN files.manifests \cup {db.manifest}
        /\ files'.manifests[db.manifest] = m
        /\ \A k \in DOMAIN files.manifests : k # db.manifest => files'.manifests[k] = files.manifests[k]
    BY <2>1 DEF With
  <2> QED
    BY <2>1, <2>2, <2>3
<1>10. ManifestOK(m, db.manifest, T) /\ Len(m.recs) = 1 /\ m.recs[1] = s
  <2>1. <<s>> \in Seq({s}) /\ Len(<<s>>) = 1 /\ <<s>>[1] = s
    OBVIOUS
  <2>2. IsSeq(<<s>>)
    BY <2>1 DEF IsSeq
  <2>3. s.next \in Nat /\ db.manifest < s.next /\ s.l0 \cup s.deep \subseteq T
    BY <1>2, <1>4
  <2> QED
    BY <1>3, <2>1, <2>2, <2>3 DEF ManifestOK
<1>11. NumbersOK'
  <2>1. db.next + 1 \in Nat /\ db.manifest < db.next + 1 /\ db.next < db.next + 1
    BY <1>4
  <2> QED
    BY <1>4, <1>5, <1>6, <1>7, <1>8, <1>9, <2>1 DEF NumbersOK, Open
<1>12. TablesOK'
  BY <1>4, <1>5, <1>6, <1>7, <1>8, <1>9 DEF TablesOK
<1>13. CurrentOK'
  <2>1. files.current # db.manifest
    BY <1>4
  <2>2. /\ files.current # 0 /\ files.current \in DOMAIN files.manifests
        /\ ManifestOK(files.manifests[files.current], files.current, T)
        /\ (files.manifests[files.current].synced = 0 => must = {})
    BY <1>4 DEF Inv, CurrentOK
  <2>3. files'.manifests[files.current] = files.manifests[files.current]
    BY <1>9, <2>1, <2>2
  <2>4. UNCHANGED must
    BY <1>1
  <2> DEFINE c == files.current
             r == files'.manifests[db.manifest]
  <2>5. /\ db'.manifest \in DOMAIN files'.manifests /\ ManifestOK(r, db.manifest, T)
        /\ Len(r.recs) = 1 /\ r.synced = 1
        /\ r.recs[1].l0 = db'.l0 \cup opening'.l0 /\ r.recs[1].deep = db'.deep
    BY <1>2, <1>3, <1>7, <1>8, <1>9, <1>10
  <2>6. /\ files'.current \in Nat /\ files'.current # 0 /\ files'.current \in DOMAIN files'.manifests
        /\ ManifestOK(files'.manifests[files'.current], files'.current, T)
        /\ (files'.manifests[files'.current].synced = 0 => must' = {})
        /\ files'.current < db'.manifest
    BY <1>4, <1>7, <1>9, <2>2, <2>3, <2>4
  <2>7. DOMAIN files'.tables = T /\ db'.state = "opening" /\ db'.manifest = db.manifest
    BY <1>7, <1>9
  <2> HIDE DEF r, T
  <2> QED
    BY <2>5, <2>6, <2>7 DEF CurrentOK, Open, r
<1> QED
  BY <1>1, <1>4, <1>5, <1>7, <1>8, <1>9, <1>11, <1>12, <1>13, OpenKeeps

\* The new MANIFEST becomes the current one and obsolete files go, or it is
\* removed again.
LEMMA OpenInstallStep == Inv /\ OpenInstall => Inv'
<1> SUFFICES ASSUME Inv, OpenInstall PROVE Inv'
  OBVIOUS
<1> DEFINE d == [db EXCEPT !.state = "open", !.l0 = @ \cup opening.l0, !.log_number = opening.log,
                           !.mem = opening.log]
           f == [files EXCEPT !.current = db.manifest]
           T == DOMAIN files.tables
           m == files.manifests[db.manifest]
<1>1. /\ opening.pc = "install" /\ opening' = NoOpening /\ OpenUnchanged
      /\ \/ db' = MaybeScheduleCompaction(d) /\ files' = DeleteObsoleteFiles(f, d, IdleBG)
         \/ /\ db' = ClosedDB /\ UNCHANGED must
            /\ files' = [files EXCEPT !.manifests = Only(@, DOMAIN @ \ {db.manifest})]
  BY DEF OpenInstall
<1>2. /\ db.state = "opening" /\ ~Open /\ DOMAIN files = FileFields /\ DOMAIN db = DBFields
      /\ db.next \in Nat /\ db.manifest < db.next /\ opening.log \in Nat /\ opening.log < db.next
      /\ db.manifest \in Nat /\ files.current \in Nat /\ files.current < db.manifest
      /\ opening.l0 \subseteq T /\ db.l0 \cup db.deep \subseteq T
      /\ DOMAIN files.logs \subseteq Nat
  <2>1. db.state = "opening"
    BY <1>1 DEF Inv, ControlOK
  <2> QED
    BY <1>1, <2>1 DEF Inv, RecordsOK, NumbersOK, TablesOK, CurrentOK, Open
<1>3. /\ bg.pc = "idle" /\ bg.base = {} /\ bg.out = 0 /\ iter.tables = {}
      /\ writers = <<>> /\ manual.pc = "none" /\ ~iter.on /\ ~db.scheduled /\ ~db.shutting_down
  BY <1>2, ClosedFacts
<1>4. UNCHANGED <<bg, iter>>
  BY <1>1 DEF OpenUnchanged
<1>5. DOMAIN opening' = OpeningFields /\ opening'.pc = "none" /\ opening'.todo = {}
  BY <1>1, ClosedDBIs
<1>6. CASE /\ db' = ClosedDB /\ UNCHANGED must
           /\ files' = [files EXCEPT !.manifests = Only(@, DOMAIN @ \ {db.manifest})]
  <2>1. /\ DOMAIN db' = DBFields /\ db'.state = "closed" /\ db'.next = 0
        /\ db'.manifest = 0 /\ ~db'.scheduled /\ ~db'.shutting_down
    BY <1>6, ClosedDBIs
  <2>2. files.current # db.manifest
    BY <1>2
  <2>3. /\ files.current # 0 /\ files.current \in DOMAIN files.manifests
        /\ ManifestOK(files.manifests[files.current], files.current, T)
        /\ (files.manifests[files.current].synced = 0 => must = {})
    BY <1>2 DEF Inv, CurrentOK
  <2>4. /\ DOMAIN files' = FileFields /\ files'.current = files.current
        /\ files'.tables = files.tables /\ files'.logs = files.logs
        /\ files'.manifests = Only(files.manifests, DOMAIN files.manifests \ {db.manifest})
    BY <1>2, <1>6 DEF FileFields
  <2>5. files.current \in DOMAIN files'.manifests
        /\ files'.manifests[files.current] = files.manifests[files.current]
    BY <2>2, <2>3, <2>4 DEF Only
  <2>6. NumbersOK'
    BY <1>2, <1>3, <1>4, <1>5, <2>1, <2>4 DEF NumbersOK, Open
  <2>7. TablesOK'
    BY <1>3, <1>4, <1>5, <2>1, <2>4 DEF TablesOK
  <2>8. CurrentOK'
    BY <1>2, <1>5, <1>6, <2>1, <2>3, <2>4, <2>5 DEF CurrentOK, Open
  <2> QED
    BY <1>1, <1>3, <1>5, <2>1, <2>4, <2>6, <2>7, <2>8, OpenKeeps
<1>7. CASE db' = MaybeScheduleCompaction(d) /\ files' = DeleteObsoleteFiles(f, d, IdleBG)
  <2> DEFINE U == DOMAIN files'.tables
  <2>1. /\ DOMAIN d = DBFields /\ d.state = "open" /\ d.mem = opening.log
        /\ d.shutting_down = db.shutting_down /\ d.manifest = db.manifest
        /\ d.next = db.next /\ d.l0 = db.l0 \cup opening.l0 /\ d.deep = db.deep
    BY <1>2 DEF DBFields
  <2>2. /\ DOMAIN f = FileFields /\ f.tables = files.tables /\ f.logs = files.logs
        /\ f.manifests = files.manifests /\ f.current = db.manifest
    BY <1>2 DEF FileFields
  <2> HIDE DEF d, f
  <2>3. Keeps(d, db')
    BY <1>7, <2>1, ScheduleKeeps
  <2>4. /\ DOMAIN db' = DBFields /\ db'.state = "open" /\ db'.mem = opening.log
        /\ ~db'.shutting_down /\ db'.manifest = db.manifest
        /\ db'.next = db.next /\ db'.l0 = db.l0 \cup opening.l0 /\ db'.deep = db.deep
    BY <1>3, <2>1, <2>3 DEF Keeps
  <2>5. /\ DOMAIN files' = FileFields /\ files'.current = f.current
        /\ DOMAIN files'.logs \subseteq DOMAIN f.logs
        /\ DOMAIN f.tables \cap (LiveTables(d, IdleBG) \cup d.pending_outputs) \subseteq U
        /\ \A n \in DOMAIN f.manifests : n >= d.manifest =>
             n \in DOMAIN files'.manifests /\ files'.manifests[n] = f.manifests[n]
    BY <1>7, <2>2, DeleteKeeps
  <2>6. db.l0 \cup opening.l0 \cup db.deep \subseteq U
    BY <1>2, <2>1, <2>2, <2>5 DEF LiveTables
  <2>7. /\ db.manifest \in DOMAIN files.manifests /\ ManifestOK(m, db.manifest, T)
        /\ Len(m.recs) = 1 /\ m.synced = 1
        /\ m.recs[1].l0 = db.l0 \cup opening.l0 /\ m.recs[1].deep = db.deep
    BY <1>1 DEF Inv, CurrentOK
  <2>8. db.manifest \in DOMAIN files'.manifests /\ files'.manifests[db.manifest] = m
    <3>1. db.manifest >= d.manifest
      BY <1>2, <2>1
    <3> QED
      BY <2>2, <2>5, <2>7, <3>1
  <2> HIDE DEF U, m
  <2>9. ManifestOK(m, db.manifest, U)
    <3>1. \A i \in 1..Len(m.recs) : i = 1
      BY <2>7
    <3> QED
      BY <2>6, <2>7, <3>1 DEF ManifestOK
  <2>10. NumbersOK'
    BY <1>2, <1>3, <1>4, <1>5, <2>2, <2>4, <2>5 DEF NumbersOK, Open
  <2>11. TablesOK'
    BY <1>3, <1>4, <1>5, <2>4, <2>6 DEF TablesOK, U
  <2>12. CurrentOK'
    <3>1. db.manifest # 0
      BY <1>2
    <3> QED
      BY <1>2, <1>5, <2>2, <2>4, <2>5, <2>7, <2>8, <2>9, <3>1 DEF CurrentOK, Open, U
  <2> QED
    BY <1>1, <1>3, <1>5, <2>4, <2>5, <2>10, <2>11, <2>12, OpenKeeps
<1> QED
  BY <1>1, <1>6, <1>7

\* ~DBImpl starts, and ends when the background thread has.
LEMMA ShutdownStep == Inv /\ (Shutdown \/ Close) => Inv'
<1> SUFFICES ASSUME Inv, Shutdown \/ Close PROVE Inv'
  OBVIOUS
<1>1. Open /\ OpenUnchanged /\ UNCHANGED <<files, opening, must>>
  BY DEF Inv, ControlOK, Shutdown, Close
<1>2. UNCHANGED <<bg, iter>>
  BY <1>1 DEF OpenUnchanged
<1>3. /\ DOMAIN files = FileFields /\ DOMAIN opening = OpeningFields /\ DOMAIN db = DBFields
      /\ opening.pc = "none"
  BY <1>1 DEF Inv, RecordsOK, ControlOK, Open
<1>4. CASE Shutdown
  <2>1. /\ DOMAIN db' = DBFields /\ db'.state = db.state /\ db'.mem = db.mem
        /\ db'.manifest = db.manifest /\ db'.next = db.next /\ db'.l0 = db.l0 /\ db'.deep = db.deep
        /\ db'.scheduled = db.scheduled /\ db'.pending_outputs = db.pending_outputs
    BY <1>3, <1>4 DEF Shutdown, DBFields
  <2>2. writers = <<>> /\ ~iter.on /\ manual.pc = "none"
    BY <1>4 DEF Shutdown
  <2>3. RecordsOK' /\ CallsOK'
    BY <1>1, <2>1 DEF Inv, RecordsOK, CallsOK, OpenUnchanged
  <2>4. QueueOK'
    BY <1>1, <2>2 DEF Inv, QueueOK, OpenUnchanged
  <2>5. ControlOK'
    BY <1>1, <2>1, <2>2 DEF Inv, ControlOK, OpenUnchanged, Open
  <2>6. NumbersOK' /\ TablesOK'
    BY <1>1, <1>2, <2>1 DEF Inv, NumbersOK, TablesOK, Open
  <2>7. CurrentOK'
    BY <1>1, <2>1 DEF Inv, CurrentOK, Open
  <2> QED
    BY <2>3, <2>4, <2>5, <2>6, <2>7 DEF Inv
<1>5. CASE Close
  <2>1. db' = ClosedDB /\ db.shutting_down /\ ~db.scheduled /\ bg.pc # "null"
    BY <1>5 DEF Close, CanLock
  <2>2. /\ writers = <<>> /\ bg.pc = "idle" /\ bg.base = {} /\ bg.out = 0 /\ manual.pc = "none"
        /\ ~iter.on /\ iter.tables = {}
    BY <2>1 DEF Inv, QueueOK, ControlOK
  <2>3. /\ DOMAIN db' = DBFields /\ db'.state = "closed" /\ db'.next = 0
        /\ db'.manifest = 0 /\ ~db'.scheduled /\ ~db'.shutting_down
    BY <2>1, ClosedDBIs
  <2>4. NumbersOK'
    BY <1>1, <1>2, <1>3, <2>2, <2>3 DEF Inv, NumbersOK, Open
  <2>5. TablesOK'
    BY <1>1, <1>2, <1>3, <2>2, <2>3 DEF TablesOK
  <2>6. CurrentOK'
    BY <1>1, <1>3, <2>3 DEF Inv, CurrentOK, Open
  <2> QED
    BY <1>1, <1>3, <2>2, <2>3, <2>4, <2>5, <2>6, OpenKeeps
<1> QED
  BY <1>4, <1>5

\* DestroyDB.
LEMMA DestroyStep == Inv /\ DestroyDB => Inv'
<1> SUFFICES ASSUME Inv, DestroyDB PROVE Inv'
  OBVIOUS
<1>1. /\ db.state = "closed" /\ OpenUnchanged /\ UNCHANGED <<db, opening>> /\ must' = {}
      /\ files' = [logs |-> NoFcn, tables |-> NoFcn, manifests |-> NoFcn, current |-> 0]
  BY DEF DestroyDB
<1>2. UNCHANGED <<bg, iter>>
  BY <1>1 DEF OpenUnchanged
<1>3. DOMAIN db = DBFields /\ DOMAIN opening = OpeningFields /\ opening.pc = "none" /\ ~Open
  BY <1>1 DEF Inv, RecordsOK, ControlOK, Open
<1>4. /\ bg.pc = "idle" /\ bg.base = {} /\ bg.out = 0 /\ iter.tables = {}
      /\ writers = <<>> /\ manual.pc = "none" /\ ~iter.on /\ ~db.scheduled /\ ~db.shutting_down
  BY <1>3, ClosedFacts
<1>5. DOMAIN files' = FileFields /\ files'.current = 0 /\ DOMAIN files'.logs = {}
  BY <1>1 DEF FileFields, NoFcn
<1>6. NumbersOK'
  BY <1>1, <1>2, <1>5 DEF Inv, NumbersOK, Open
<1>7. TablesOK'
  BY <1>1, <1>2, <1>3, <1>4 DEF TablesOK
<1>8. CurrentOK'
  BY <1>1, <1>3, <1>5 DEF CurrentOK, Open
<1> QED
  BY <1>1, <1>3, <1>4, <1>5, <1>6, <1>7, <1>8, OpenKeeps

-----------------------------------------------------------------------------
(* Crashes. *)

\* A MANIFEST that loses records that were not synced is fit for a restart.
LEMMA CutManifest ==
  ASSUME NEW m, NEW n, NEW T, ManifestOK(m, n, T), NEW c \in {m.synced, Len(m.recs)}
  PROVE  ManifestOK([m EXCEPT !.recs = SubSeq(m.recs, 1, c)], n, T)
<1> DEFINE cut == SubSeq(m.recs, 1, c)
           k == [m EXCEPT !.recs = cut]
<1>1. /\ DOMAIN m = {"recs", "synced"} /\ IsSeq(m.recs)
      /\ m.synced \in 0..Len(m.recs)
      /\ \A i \in 1..Len(m.recs) :
           /\ m.recs[i].next \in Nat /\ n < m.recs[i].next
           /\ i >= m.synced => m.recs[i].l0 \cup m.recs[i].deep \subseteq T
  BY DEF ManifestOK
<1>2. PICK S : m.recs \in Seq(S)
  BY <1>1 DEF IsSeq
<1>3. Len(m.recs) \in Nat
  BY <1>2, LenProperties
<1>4. c \in 0..Len(m.recs) /\ m.synced <= c /\ m.synced \in Nat
  BY <1>1, <1>3
<1>5. \A i \in 1..c : m.recs[i] \in S
  BY <1>2, <1>3, <1>4, ElementOfSeq
<1>6. /\ cut \in Seq(S)
      /\ Len(cut) = IF 1 <= c THEN c - 1 + 1 ELSE 0
      /\ \A i \in 1..(c - 1 + 1) : cut[i] = m.recs[1 + i - 1]
  BY <1>3, <1>4, <1>5, SubSeqProperties
<1>7. Len(cut) = c /\ \A i \in 1..c : cut[i] = m.recs[i]
  <2>1. Len(cut) = c /\ c - 1 + 1 = c
    BY <1>3, <1>4, <1>6
  <2>2. ASSUME NEW i \in 1..c PROVE cut[i] = m.recs[i]
    <3>1. 1 + i - 1 = i
      BY <1>4
    <3> QED
      BY <1>6, <2>1, <3>1
  <2> QED
    BY <2>1, <2>2
<1> HIDE DEF cut
<1>8. DOMAIN k = {"recs", "synced"} /\ k.recs = cut /\ k.synced = m.synced
  BY <1>1
<1> HIDE DEF k
<1>9. ASSUME NEW i \in 1..c
      PROVE  /\ cut[i].next \in Nat /\ n < cut[i].next
             /\ i >= m.synced => cut[i].l0 \cup cut[i].deep \subseteq T
  <2>1. i \in 1..Len(m.recs) /\ cut[i] = m.recs[i]
    BY <1>3, <1>4, <1>7
  <2> QED
    BY <1>1, <2>1
<1>10. IsSeq(cut) /\ m.synced \in 0..c
  BY <1>4, <1>6 DEF IsSeq
<1>11. ManifestOK(k, n, T)
  BY <1>7, <1>8, <1>9, <1>10 DEF ManifestOK
<1> QED
  BY <1>11 DEF k, cut

\* A crash of the process or of the machine.
LEMMA CrashStep == ASSUME Inv, NEW machine \in BOOLEAN, Died(machine) PROVE Inv'
<1> DEFINE Cut(f, c) == [n \in DOMAIN f |-> [f[n] EXCEPT !.recs = SubSeq(f[n].recs, 1, c[n])]]
           Manifest(kept, n) == files.manifests[n].synced
                       + kept[n] * (Len(files.manifests[n].recs) - files.manifests[n].synced)
<1>1. /\ must' \subseteq must
      /\ calls' = [k \in DOMAIN calls |-> IF calls[k].status = "waiting"
                                            THEN [calls[k] EXCEPT !.status = "lost"] ELSE calls[k]]
      /\ writers' = <<>> /\ leader' = NoLeader /\ db' = ClosedDB /\ bg' = IdleBG
      /\ manual' = [manual EXCEPT !.pc = "none"] /\ opening' = NoOpening /\ iter' = NoIter
  <2>1. must' = IF machine THEN {k \in must : calls[k].sync} ELSE must
    BY Zenon DEF Died
  <2>2. /\ calls' = [k \in DOMAIN calls |-> IF calls[k].status = "waiting"
                                            THEN [calls[k] EXCEPT !.status = "lost"] ELSE calls[k]]
        /\ writers' = <<>> /\ leader' = NoLeader /\ db' = ClosedDB /\ bg' = IdleBG
        /\ manual' = [manual EXCEPT !.pc = "none"] /\ opening' = NoOpening /\ iter' = NoIter
    BY Zenon DEF Died
  <2> QED
    BY <2>1, <2>2
<1> PICK keep \in [DOMAIN files.logs -> 0..Len(calls)], kept \in [DOMAIN files.manifests -> {0, 1}] :
           files' = [files EXCEPT !.logs = Cut(@, keep),
                          !.manifests = Cut(@, [n \in DOMAIN files.manifests |-> Manifest(kept, n)])]
  BY Zenon DEF Died
<1> DEFINE at == [n \in DOMAIN files.manifests |-> Manifest(kept, n)]
           c == files.current
           T == DOMAIN files.tables
<1>2. DOMAIN files = FileFields /\ DOMAIN manual = ManualFields
      /\ DOMAIN files.logs \subseteq Nat
  BY DEF Inv, RecordsOK, NumbersOK
<1>3. /\ DOMAIN files' = FileFields /\ files'.current = c /\ files'.tables = files.tables
      /\ DOMAIN files'.logs = DOMAIN files.logs /\ files'.manifests = Cut(files.manifests, at)
  <2> DEFINE logs == Cut(files.logs, keep)
             manifests == Cut(files.manifests, at)
  <2>1. DOMAIN logs = DOMAIN files.logs
    OBVIOUS
  <2>2. files' = [files EXCEPT !.logs = logs, !.manifests = manifests]
    OBVIOUS
  <2> HIDE DEF logs, manifests
  <2>3. /\ DOMAIN files' = FileFields /\ files'.current = c /\ files'.tables = files.tables
        /\ files'.logs = logs /\ files'.manifests = manifests
    BY <1>2, <2>2 DEF FileFields
  <2> QED
    BY <2>1, <2>3 DEF manifests
<1>4. /\ DOMAIN db' = DBFields /\ db'.state = "closed" /\ db'.next = 0
      /\ db'.manifest = 0 /\ ~db'.scheduled /\ ~db'.shutting_down
      /\ DOMAIN opening' = OpeningFields /\ opening'.pc = "none" /\ opening'.todo = {}
  BY <1>1, ClosedDBIs
<1>5. DOMAIN leader' = LeaderFields /\ leader'.pc = "none"
  BY <1>1 DEF NoLeader, LeaderFields
<1>6. DOMAIN bg' = BGFields /\ bg'.pc = "idle" /\ bg'.base = {} /\ bg'.out = 0
  BY <1>1 DEF IdleBG, BGFields
<1>7. DOMAIN iter' = IterFields /\ ~iter'.on /\ iter'.tables = {}
  BY <1>1 DEF NoIter, IterFields
<1>8. DOMAIN manual' = ManualFields /\ manual'.pc = "none"
  BY <1>1, <1>2 DEF ManualFields
<1>9. RecordsOK'
  BY <1>3, <1>4, <1>5, <1>6, <1>7, <1>8 DEF RecordsOK
<1>10. CallsOK'
  <2>1. calls' = [k \in DOMAIN calls |-> calls'[k]]
    BY <1>1
  <2>2. IsSeq(calls')
    BY <2>1, IsSeqOf DEF Inv, CallsOK
  <2>3. ASSUME NEW k \in DOMAIN calls'
        PROVE  DOMAIN calls'[k] = CallFields /\ calls'[k].status \in {"waiting", "ok", "error", "lost"}
    <3>1. k \in DOMAIN calls /\ DOMAIN calls[k] = CallFields
          /\ calls[k].status \in {"waiting", "ok", "error", "lost"}
      BY <1>1 DEF Inv, CallsOK
    <3>2. calls'[k] = calls[k] \/ calls'[k] = [calls[k] EXCEPT !.status = "lost"]
      BY <1>1, <3>1
    <3> QED
      BY <3>1, <3>2 DEF CallFields
  <2> QED
    BY <2>2, <2>3 DEF CallsOK
<1>11. QueueOK'
  <2>1. writers' = <<>> /\ <<>> \in Seq(Nat)
    BY <1>1
  <2> QED
    BY <1>5, <2>1 DEF QueueOK
<1>12. ControlOK'
  BY <1>4, <1>6, <1>7, <1>8 DEF ControlOK, Open
<1>13. NumbersOK'
  BY <1>2, <1>3, <1>4, <1>6 DEF NumbersOK, Open
<1>14. TablesOK'
  BY <1>4, <1>6, <1>7 DEF TablesOK
<1>15. CurrentOK'
  <2>1. c \in Nat /\ (c = 0 => must' = {})
    BY <1>1 DEF Inv, CurrentOK
  <2>2. ASSUME c # 0
        PROVE  /\ c \in DOMAIN files'.manifests
               /\ ManifestOK(files'.manifests[c], c, T)
               /\ files'.manifests[c].synced = 0 => must' = {}
    <3> DEFINE m == files.manifests[c]
    <3>1. c \in DOMAIN files.manifests /\ ManifestOK(m, c, T) /\ (m.synced = 0 => must = {})
      BY <2>2 DEF Inv, CurrentOK
    <3>2. at[c] \in {m.synced, Len(m.recs)}
      <4>1. Len(m.recs) \in Nat /\ m.synced \in Nat
        <5>1. PICK S : m.recs \in Seq(S)
          BY <3>1 DEF ManifestOK, IsSeq
        <5>2. Len(m.recs) \in Nat
          BY <5>1, LenProperties
        <5> QED
          <6>1. m.synced \in 0..Len(m.recs)
            BY <3>1 DEF ManifestOK
          <6> QED
            BY <5>2, <6>1
      <4>2. at[c] = m.synced + kept[c] * (Len(m.recs) - m.synced) /\ kept[c] \in {0, 1}
        BY <3>1
      <4> HIDE DEF at
      <4>3. CASE kept[c] = 0
        BY <4>1, <4>2, <4>3
      <4>4. CASE kept[c] = 1
        BY <4>1, <4>2, <4>4
      <4> QED
        BY <4>2, <4>3, <4>4
    <3> DEFINE k == [m EXCEPT !.recs = SubSeq(m.recs, 1, at[c])]
    <3>3. c \in DOMAIN files'.manifests /\ files'.manifests[c] = k
      BY <1>3, <3>1
    <3> HIDE DEF at
    <3>4. ManifestOK(k, c, T)
      BY <3>1, <3>2, CutManifest
    <3>5. k.synced = m.synced
      BY <3>1 DEF ManifestOK
    <3> QED
      BY <1>1, <3>1, <3>3, <3>4, <3>5
  <2>3. files'.current = c /\ DOMAIN files'.tables = T
    BY <1>3
  <2> HIDE DEF T
  <2> QED
    BY <1>4, <2>1, <2>2, <2>3 DEF CurrentOK, Open
<1> QED
  BY <1>9, <1>10, <1>11, <1>12, <1>13, <1>14, <1>15 DEF Inv

-----------------------------------------------------------------------------
(* The theorems. *)

\* Nothing is needed, and nothing runs, in the initial states.
LEMMA InitInv == DBInit => Inv
<1> SUFFICES ASSUME DBInit PROVE Inv
  OBVIOUS
<1>1. /\ files = [logs |-> NoFcn, tables |-> NoFcn, manifests |-> NoFcn, current |-> 0]
      /\ calls = <<>> /\ writers = <<>> /\ db = ClosedDB /\ must = {}
      /\ leader = NoLeader /\ bg = IdleBG /\ manual = NoManual
      /\ opening = NoOpening /\ iter = NoIter
  BY DEF DBInit
<1>2. /\ DOMAIN files = FileFields /\ files.current = 0 /\ DOMAIN files.logs = {}
  BY <1>1 DEF FileFields, NoFcn
<1>3. /\ DOMAIN db = DBFields /\ db.state = "closed" /\ db.next = 0
      /\ db.manifest = 0 /\ ~db.scheduled /\ ~db.shutting_down
      /\ DOMAIN opening = OpeningFields /\ opening.pc = "none" /\ opening.todo = {}
  BY <1>1, ClosedDBIs
<1>4. DOMAIN leader = LeaderFields /\ leader.pc = "none"
  BY <1>1 DEF NoLeader, LeaderFields
<1>5. DOMAIN bg = BGFields /\ bg.pc = "idle" /\ bg.base = {} /\ bg.out = 0
  BY <1>1 DEF IdleBG, BGFields
<1>6. DOMAIN iter = IterFields /\ ~iter.on /\ iter.tables = {}
  BY <1>1 DEF NoIter, IterFields
<1>7. DOMAIN manual = ManualFields /\ manual.pc = "none"
  BY <1>1 DEF NoManual, ManualFields
<1>8. RecordsOK
  BY <1>2, <1>3, <1>4, <1>5, <1>6, <1>7 DEF RecordsOK
<1>9. CallsOK
  <2>1. calls \in Seq({}) /\ DOMAIN calls = {}
    BY <1>1
  <2> QED
    BY <2>1 DEF CallsOK, IsSeq
<1>10. QueueOK
  <2>1. <<>> \in Seq(Nat)
    OBVIOUS
  <2> QED
    BY <1>1, <1>4, <2>1 DEF QueueOK
<1>11. ControlOK
  BY <1>3, <1>5, <1>6, <1>7 DEF ControlOK, Open
<1>12. NumbersOK
  BY <1>2, <1>3, <1>5 DEF NumbersOK, Open
<1>13. TablesOK
  BY <1>3, <1>5, <1>6 DEF TablesOK
<1>14. CurrentOK
  BY <1>1, <1>2, <1>3 DEF CurrentOK, Open
<1> QED
  BY <1>8, <1>9, <1>10, <1>11, <1>12, <1>13, <1>14 DEF Inv

\* Every step of DBImpl keeps the invariant.
LEMMA NextInv == Inv /\ [DBNext]_dbVars => Inv'
<1> SUFFICES ASSUME Inv, [DBNext]_dbVars PROVE Inv'
  OBVIOUS
<1>1. CASE Write
  <2>1. PICK sync \in BOOLEAN : Enqueue(sync, FALSE) /\ UNCHANGED manual
    BY <1>1 DEF Write
  <2>2. DOMAIN manual' = ManualFields /\ manual'.pc \in {"none", "imm", "range"}
    BY <2>1 DEF Inv, RecordsOK, ControlOK
  <2> QED
    BY <2>1, <2>2, EnqueueStep
<1>2. CASE WriterStep
  BY <1>2, RoomStep, SwitchStep, AppendStep, FinishStep DEF WriterStep
<1>3. CASE NewIterator \/ ReleaseIterator
  BY <1>3, ReaderStep
<1>4. CASE BackgroundStep
  BY <1>4, BackgroundStarts, TableWritten, OutputStep, LogStep DEF BackgroundStep
<1>5. CASE CompactRange
  <2>1. Enqueue(FALSE, TRUE) /\ manual' = [pc |-> "imm", done |-> FALSE, call |-> Len(calls) + 1]
    BY <1>5 DEF CompactRange
  <2>2. DOMAIN manual' = ManualFields /\ manual'.pc \in {"none", "imm", "range"}
    BY <2>1 DEF ManualFields
  <2> QED
    BY <2>1, <2>2, EnqueueStep
<1>6. CASE ManualStep
  BY <1>6, ManualStepKeeps
<1>7. CASE OpenStep
  BY <1>7, NewDBStep, RecoverStep, RecoverLogStep, OpenFailsStep, OpenLogStep, OpenInstallStep
     DEF OpenStep
<1>8. CASE Shutdown \/ Close
  BY <1>8, ShutdownStep
<1>9. CASE DestroyDB
  BY <1>9, DestroyStep
<1>10. CASE ProcessCrash \/ MachineCrash \/ NullDereference
  BY <1>10, CrashStep DEF ProcessCrash, MachineCrash, NullDereference
<1>11. CASE UNCHANGED dbVars
  <2>1. UNCHANGED <<files, calls, writers, db, leader, bg, manual, opening, iter, must>>
    BY <1>11 DEF dbVars
  <2>2. RecordsOK' /\ CallsOK' /\ QueueOK' /\ ControlOK'
    BY <2>1 DEF Inv, RecordsOK, CallsOK, QueueOK, ControlOK, Open
  <2>3. NumbersOK' /\ TablesOK'
    BY <2>1 DEF Inv, NumbersOK, TablesOK, Open
  <2>4. CurrentOK'
    BY <2>1 DEF Inv, CurrentOK, Open
  <2> QED
    BY <2>2, <2>3, <2>4 DEF Inv
<1> QED
  BY <1>1, <1>2, <1>3, <1>4, <1>5, <1>6, <1>7, <1>8, <1>9, <1>10, <1>11 DEF DBNext

\* The invariant holds in every state of every behaviour of DBImpl.
THEOREM DBInv == DBSpec => []Inv
BY InitInv, NextInv, PTL DEF DBSpec

\* DeleteObsoleteFiles never removes a table that the current version, an
\* iterator or the running compaction still refers to.
THEOREM DBFilesExist == DBSpec => []NeededFilesExist
<1>1. ASSUME Inv PROVE NeededFilesExist
  <2>1. DBTypeOK
    <3>1. /\ db.state \in {"closed", "opening", "open"}
          /\ bg.pc \in {"idle", "building", "working", "logging", "null"}
          /\ manual.pc \in {"none", "imm", "range"} /\ opening.pc \in {"none", "logs", "install"}
      BY <1>1 DEF Inv, ControlOK
    <3>2. /\ leader.pc \in {"none", "room", "append", "insert", "finish"}
          /\ \A k \in DOMAIN calls : calls[k].status \in {"waiting", "ok", "error", "lost"}
          /\ db.mem < db.next \/ db.state # "open"
      BY <1>1 DEF Inv, QueueOK, CallsOK, NumbersOK, Open
    <3> QED
      BY <3>1, <3>2 DEF DBTypeOK
  <2>2. db.state # "closed" => LiveTables(db, bg) \subseteq DOMAIN files.tables
    BY <1>1 DEF Inv, TablesOK, LiveTables
  <2> QED
    BY <2>1, <2>2 DEF NeededFilesExist
<1> QED
  BY <1>1, DBInv, PTL

\* Whatever a crash leaves, the MANIFEST that CURRENT names describes only
\* versions whose tables exist.
THEOREM DBRecoverable == DBSpec => []AlwaysRecoverable
<1>1. ASSUME Inv PROVE AlwaysRecoverable
  <2> SUFFICES ASSUME files.current # 0
               PROVE  LET m == files.manifests[files.current] IN
                      /\ files.current \in DOMAIN files.manifests
                      /\ m.synced = 0 => must = {}
                      /\ \A i \in DOMAIN m.recs : i >= m.synced =>
                           m.recs[i].l0 \cup m.recs[i].deep \subseteq DOMAIN files.tables
    BY DEF AlwaysRecoverable
  <2> DEFINE m == files.manifests[files.current]
  <2>1. /\ files.current \in DOMAIN files.manifests /\ (m.synced = 0 => must = {})
        /\ ManifestOK(m, files.current, DOMAIN files.tables)
    BY <1>1 DEF Inv, CurrentOK
  <2>2. DOMAIN m.recs = 1..Len(m.recs)
    <3>1. PICK S : m.recs \in Seq(S)
      BY <2>1 DEF ManifestOK, IsSeq
    <3> QED
      BY <3>1, LenProperties
  <2> QED
    BY <2>1, <2>2 DEF ManifestOK
<1> QED
  BY <1>1, DBInv, PTL
=============================================================================
