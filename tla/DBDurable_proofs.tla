-------------------------- MODULE DBDurable_proofs --------------------------
(***************************************************************************)
(* Proofs about DBImpl: no acknowledged write is lost, for any number of   *)
(* writes, crashes, I/O errors and readers and any limits.                 *)
(*                                                                         *)
(* A write is in a memtable and its log, or in a table of the version. The *)
(* log goes when the table is part of a version that a restart finds. The  *)
(* records a restart may find last are those from the last synced one on:  *)
(* each of them, with the logs from its log number on, has all writes that *)
(* are due.                                                                *)
(***************************************************************************)
EXTENDS DBImpl_proofs, FiniteSetTheorems

-----------------------------------------------------------------------------
(* The inductive invariant. *)

Tables(r) == r.l0 \cup r.deep

\* The writes that have to be found again.
Due == must \ unsure

\* The records of a MANIFEST that a restart may find last.
Latest(m) == {i \in 1..Len(m.recs) : i >= m.synced}
Current == files.manifests[files.current]

\* Tables of the version and of those a restart may find.
InUse == db.l0 \cup db.deep \cup UNION {Tables(Current.recs[i]) : i \in Latest(Current)}

\* A log has the write, in front of any failed append, and synced if asked.
Keeping(l, k, sync) == \E i \in Sound(l) : k \in l.recs[i] /\ (sync => i <= l.synced)
Kept(n, k) == Keeping(files.logs[n], k, calls[k].sync)

\* A database of these tables and the logs from this number on has the write.
Found(k, T, log, f, c) ==
  \/ \E n \in T \cap DOMAIN f.tables : k \in f.tables[n]
  \/ \E n \in DOMAIN f.logs : n >= log /\ Keeping(f.logs[n], k, c[k].sync)

\* Every entry anywhere is one of a call.
EntriesOK ==
  /\ \A i \in 1..Len(writers) : writers[i] \in DOMAIN calls
  /\ leader.left \subseteq leader.group /\ leader.group \subseteq DOMAIN calls
  /\ must \subseteq DOMAIN calls
  /\ \A n \in DOMAIN mems : mems[n] \subseteq DOMAIN calls
  /\ \A n \in DOMAIN files.tables : files.tables[n] \subseteq DOMAIN calls

LogOK(l, C) ==
  /\ DOMAIN l = {"recs", "synced", "bad"} /\ IsSeq(l.recs)
  /\ l.synced \in 0..Len(l.recs) /\ l.bad \in Nat
  /\ \A i \in 1..Len(l.recs) : l.recs[i] \subseteq C
LogsOK == \A n \in DOMAIN files.logs : LogOK(files.logs[n], DOMAIN calls)

\* Numbers grow: those of memtables, logs and tables in use are below the next.
OrderOK ==
  /\ 0 \notin DOMAIN mems
  /\ Open =>
       /\ db.log_number \in Nat /\ db.log_number <= db.mem /\ db.mem # 0
       /\ db.mem \in DOMAIN mems \cap DOMAIN files.logs
       /\ db.imm # 0 => /\ db.imm \in DOMAIN mems \cap DOMAIN files.logs
                        /\ db.log_number <= db.imm /\ db.imm # db.mem
  /\ db.state # "closed" => \A n \in db.l0 \cup db.deep : n \in Nat /\ n < db.next
  /\ opening.pc # "none" => \A n \in opening.l0 : n \in Nat /\ n < db.next
  /\ Open \/ opening.pc = "install" => \A n \in DOMAIN files.logs : n < db.next
  /\ opening.pc = "logs" => /\ opening.todo \subseteq DOMAIN files.logs
                            /\ \A n \in DOMAIN files.logs : n < db.next \/ n \in opening.todo
  /\ opening.pc = "install" => opening.log \in DOMAIN files.logs /\ opening.log # 0

\* A version in a record or an edit, made when the next file number was at most n.
VersionOK(r, n) ==
  /\ r.next \in Nat /\ r.next <= n
  /\ r.log_number \in Nat /\ r.log_number <= r.next
  /\ \A t \in Tables(r) : t \in Nat /\ t < r.next

\* The records a restart may find.
LatestOK ==
  files.current # 0 =>
    \A i \in Latest(Current) :
      LET r == Current.recs[i] IN
      /\ VersionOK(r, Current.recs[Len(Current.recs)].next)
      /\ db.state # "closed" => r.next <= db.next
      /\ Open => r.log_number <= db.mem
      /\ bg.pc = "logging" => r.next <= bg.edit.next
      /\ \A k \in Due : Found(k, Tables(r), r.log_number, files, calls)

\* What the background thread is about to install.
JobOK ==
  LET flush == bg.job \in {"mem", "both"} IN
  /\ bg.pc = "building" =>
       /\ flush /\ db.imm # 0
       /\ bg.table \in Nat /\ bg.table < db.next /\ bg.table \notin InUse
  /\ bg.out # 0 => bg.out \notin InUse
  /\ bg.pc = "working" => bg.job = "compact"
  /\ bg.pc = "logging" =>
       /\ VersionOK(bg.edit, db.next)
       /\ Stored(db.l0 \cup db.deep) \subseteq Stored(Tables(bg.edit))
       /\ flush => /\ db.imm # 0 /\ bg.edit.log_number = db.mem
                   /\ mems[db.imm] \subseteq Stored(Tables(bg.edit))
                   /\ bg.out # 0 => bg.out \notin Tables(bg.edit)
       /\ ~flush => bg.edit.log_number = db.log_number

\* What the leader has done.
LeaderOK ==
  /\ leader.pc = "room" => leader.group = {} /\ leader.left = {} /\ leader.status = "ok"
  /\ leader.pc = "append" =>
       /\ leader.left = leader.group /\ leader.group # {}
       /\ \A k \in leader.group : calls[k].sync => calls[leader.call].sync
  /\ leader.pc = "insert" => leader.left # {}
  /\ leader.pc = "insert" \/ (leader.pc = "finish" /\ leader.status = "ok") =>
       /\ leader.group \ leader.left \subseteq mems[db.mem]
       /\ leader.pc = "finish" => leader.left = {}
       /\ \A k \in leader.group \ unsure : Kept(db.mem, k)

\* Nothing is in a memtable and not in its log.
MemsKept ==
  Open => \A n \in {db.mem, db.imm} \ {0} : \A k \in mems[n] \ unsure : Kept(n, k)

\* A recovery finds all that is due.
RecoveryOK ==
  /\ opening.pc # "none" => db.imm = 0
  /\ opening.pc = "logs" =>
       \/ opening.s # "ok" /\ opening.todo = {}
       \/ /\ opening.s = "ok"
          /\ \A k \in Due :
               \/ k \in Stored(db.l0 \cup db.deep \cup opening.l0)
               \/ \E n \in opening.todo : \E i \in Sound(files.logs[n]) : k \in files.logs[n].recs[i]
  /\ opening.pc = "install" =>
       LET r == files.manifests[db.manifest].recs[1] IN
       /\ Due \subseteq Stored(db.l0 \cup db.deep \cup opening.l0)
       /\ VersionOK(r, db.next) /\ r.log_number = opening.log

AckInv ==
  /\ EntriesOK /\ LogsOK /\ OrderOK /\ LatestOK /\ JobOK /\ LeaderOK /\ MemsKept
  /\ AcknowledgedSurvives /\ RecoveryOK

-----------------------------------------------------------------------------
(* Calls and logs. *)

\* Calls stay, and so does what they asked for.
CallsKept ==
  /\ DOMAIN calls \subseteq DOMAIN calls'
  /\ \A k \in DOMAIN calls : calls'[k].sync = calls[k].sync

\* Append keeps the calls there are.
LEMMA EnqueueCalls ==
  ASSUME Inv, NEW sync, NEW null, Enqueue(sync, null)
  PROVE  CallsKept /\ Len(calls) + 1 \in DOMAIN calls'
<1> DEFINE call == [sync |-> sync, null |-> null, seq |-> 0, status |-> "waiting"]
<1>1. calls' = Append(calls, call)
  BY DEF Enqueue
<1> HIDE DEF call
<1>2. IsSeq(calls)
  BY DEF Inv, CallsOK
<1>3. /\ Len(calls) \in Nat /\ DOMAIN calls = 1..Len(calls) /\ Len(calls') = Len(calls) + 1
      /\ DOMAIN calls' = 1..Len(calls') /\ \A i \in 1..Len(calls) : calls'[i] = calls[i]
  BY <1>1, <1>2, AppendIs
<1>4. 1..Len(calls) \subseteq 1..Len(calls') /\ Len(calls) + 1 \in 1..Len(calls')
  BY <1>3
<1> QED
  BY <1>3, <1>4 DEF CallsKept

\* An update of other fields keeps the calls.
LEMMA UpdateCalls ==
  ASSUME Inv, DOMAIN calls' = DOMAIN calls,
         \A k \in DOMAIN calls : \/ calls'[k] = calls[k]
                                 \/ \E v : calls'[k] = [calls[k] EXCEPT !.seq = v]
                                 \/ \E v : calls'[k] = [calls[k] EXCEPT !.status = v]
  PROVE  CallsKept
<1>1. ASSUME NEW k \in DOMAIN calls PROVE calls'[k].sync = calls[k].sync
  <2>1. DOMAIN calls[k] = CallFields
    BY DEF Inv, CallsOK
  <2> QED
    BY <2>1 DEF CallFields
<1> QED
  BY <1>1 DEF CallsKept

\* No step takes back a call.
LEMMA CallsGrow == Inv /\ [DBNext]_dbVars => CallsKept
<1> SUFFICES ASSUME Inv, [DBNext]_dbVars PROVE CallsKept
  OBVIOUS
<1>1. CASE UNCHANGED calls
  BY <1>1 DEF CallsKept
<1>2. CASE \E sync, null : Enqueue(sync, null)
  BY <1>2, EnqueueCalls
<1>3. CASE RoomFound /\ ~calls[leader.call].null
  <2> DEFINE group == Entries(BuildBatchGroup(leader.call))
             seq(k) == db.last_sequence + Cardinality({j \in group : j <= k})
  <2>1. calls' = [k \in DOMAIN calls |->
                   IF k \in group THEN [calls[k] EXCEPT !.seq = seq(k)] ELSE calls[k]]
    BY <1>3 DEF RoomFound
  <2> HIDE DEF group, seq
  <2>2. DOMAIN calls' = DOMAIN calls
    BY <2>1
  <2>3. ASSUME NEW k \in DOMAIN calls
        PROVE  calls'[k] = calls[k] \/ \E v : calls'[k] = [calls[k] EXCEPT !.seq = v]
    BY <2>1
  <2> QED
    BY <2>2, <2>3, UpdateCalls
<1>4. CASE FinishWrite
  <2> DEFINE n == CHOOSE i \in DOMAIN writers : writers[i] = leader.last
             group == {writers[i] : i \in 1..n}
             answer == IF leader.status = "ok" THEN "ok" ELSE "error"
  <2>1. calls' = [k \in DOMAIN calls |-> IF k \in group THEN [calls[k] EXCEPT !.status = answer]
                                                        ELSE calls[k]]
    BY <1>4 DEF FinishWrite
  <2> HIDE DEF group, answer
  <2>2. DOMAIN calls' = DOMAIN calls
    BY <2>1
  <2>3. ASSUME NEW k \in DOMAIN calls
        PROVE  calls'[k] = calls[k] \/ \E v : calls'[k] = [calls[k] EXCEPT !.status = v]
    BY <2>1
  <2> QED
    BY <2>2, <2>3, UpdateCalls
<1>5. CASE \E machine \in BOOLEAN : Died(machine)
  <2>1. calls' = [k \in DOMAIN calls |-> IF calls[k].status = "waiting"
                                           THEN [calls[k] EXCEPT !.status = "lost"] ELSE calls[k]]
    BY <1>5, Zenon DEF Died
  <2>2. DOMAIN calls' = DOMAIN calls
    BY <2>1
  <2>3. ASSUME NEW k \in DOMAIN calls
        PROVE  calls'[k] = calls[k] \/ \E v : calls'[k] = [calls[k] EXCEPT !.status = v]
    BY <2>1
  <2> QED
    BY <2>2, <2>3, UpdateCalls
<1>6. CASE Write \/ CompactRange
  BY <1>2, <1>6 DEF Write, CompactRange
<1>7. CASE WriterStep
  <2>1. \/ UNCHANGED calls \/ FinishWrite \/ RoomFound
    BY <1>7, Zenon DEF WriterStep, RoomError, RoomDelay, RoomWait, RoomSwitch, AppendToLog, InsertInto
  <2>2. CASE RoomFound /\ calls[leader.call].null
    BY <1>1, <2>2 DEF RoomFound
  <2> QED
    BY <1>1, <1>3, <1>4, <2>1, <2>2
<1>8. CASE NewIterator \/ ReleaseIterator \/ ManualStep
  BY <1>1, <1>8 DEF NewIterator, ReleaseIterator, ManualStep, CompactRangeWaits,
                    CompactRangeStarts, TEST_CompactRange
<1>9. CASE BackgroundStep
  <2>1. BGUnchanged
    BY <1>9, Zenon DEF BackgroundStep, BackgroundNothing, CompactMemTable, WriteLevel0Table, StartCompaction,
                       OpenCompactionOutputFile, FinishCompactionOutputFile, LogAndApply
  <2> QED
    BY <1>1, <2>1 DEF BGUnchanged
<1>10. CASE OpenStep \/ Shutdown \/ Close \/ DestroyDB
  <2>1. OpenUnchanged
    BY <1>10, Zenon DEF OpenStep, NewDB, Recover, RecoverLogFile, OpenFails, OpenLog, OpenInstall,
                        Shutdown, Close, DestroyDB
  <2> QED
    BY <1>1, <2>1 DEF OpenUnchanged
<1>11. CASE ProcessCrash \/ MachineCrash \/ NullDereference
  BY <1>5, <1>11 DEF ProcessCrash, MachineCrash, NullDereference
<1>12. CASE UNCHANGED dbVars
  BY <1>1, <1>12 DEF dbVars
<1> QED
  BY <1>6, <1>7, <1>8, <1>9, <1>10, <1>11, <1>12 DEF DBNext

\* A log that only got longer, at its end.
Grown(l, m) ==
  /\ \A i \in Sound(l) : i \in Sound(m) /\ m.recs[i] = l.recs[i]
  /\ l.synced \in Nat /\ m.synced \in Nat /\ l.synced <= m.synced

\* What is kept in a log stays kept when it grows.
LEMMA KeepingGrown ==
  ASSUME NEW l, NEW m, Grown(l, m), Sound(l) \subseteq Nat, NEW k, NEW sync, Keeping(l, k, sync)
  PROVE  Keeping(m, k, sync)
<1>1. PICK i \in Sound(l) : k \in l.recs[i] /\ (sync => i <= l.synced)
  BY DEF Keeping
<1>2. i \in Sound(m) /\ k \in m.recs[i]
  BY <1>1 DEF Grown
<1>3. i \in Nat /\ l.synced \in Nat /\ m.synced \in Nat /\ l.synced <= m.synced
  BY <1>1 DEF Grown
<1>4. i <= l.synced => i <= m.synced
  BY <1>3
<1> QED
  BY <1>1, <1>2, <1>4 DEF Keeping

\* The positions of a log.
LEMMA LogFacts ==
  ASSUME NEW l, NEW C, LogOK(l, C)
  PROVE  /\ Len(l.recs) \in Nat /\ DOMAIN l.recs = 1..Len(l.recs) /\ Sound(l) \subseteq 1..Len(l.recs)
         /\ Sound(l) \subseteq Nat /\ Grown(l, l) /\ l.synced \in Nat
<1>1. PICK S : l.recs \in Seq(S)
  BY DEF LogOK, IsSeq
<1>2. Len(l.recs) \in Nat /\ DOMAIN l.recs = 1..Len(l.recs)
  BY <1>1, LenProperties
<1>3. Sound(l) \subseteq 1..Len(l.recs)
  BY <1>2 DEF Sound
<1>4. l.synced \in Nat
  BY <1>2 DEF LogOK
<1>5. Grown(l, l)
  BY <1>4 DEF Grown
<1> QED
  BY <1>2, <1>3, <1>4, <1>5

\* What a log keeps is of a call.
LEMMA KeepingOfCall ==
  ASSUME NEW l, NEW C, LogOK(l, C), NEW k, NEW sync, Keeping(l, k, sync)
  PROVE  k \in C
BY LogFacts DEF Keeping, LogOK

-----------------------------------------------------------------------------
(* Steps of an open database that keep the version and the logs. *)

\* Fields of db that the invariant is about.
Same(d, e) ==
  /\ e.state = d.state /\ e.mem = d.mem /\ e.imm = d.imm /\ e.l0 = d.l0 /\ e.deep = d.deep
  /\ e.log_number = d.log_number /\ e.manifest = d.manifest

\* Tables that keep their contents.
TablesKept(S) ==
  \A n \in S \cap DOMAIN files.tables :
    n \in DOMAIN files'.tables /\ files'.tables[n] = files.tables[n]

\* Logs are kept, or grow.
LogsKept ==
  /\ DOMAIN files.logs \subseteq DOMAIN files'.logs
  /\ \A n \in DOMAIN files.logs : Grown(files.logs[n], files'.logs[n])

\* What is stored in tables that are kept stays.
LEMMA StoredKept ==
  ASSUME NEW S, TablesKept(S)
  PROVE  Stored(S) \subseteq Stored(S)'
BY DEF TablesKept, Stored

\* Logs that grow keep what they keep.
LEMMA LogsGrow ==
  ASSUME LogsOK, LogsKept, CallsKept, NEW n \in DOMAIN files.logs, NEW k, Kept(n, k)
  PROVE  Kept(n, k)'
<1> DEFINE l == files.logs[n]
           m == files'.logs[n]
           sync == calls[k].sync
<1>1. LogOK(l, DOMAIN calls) /\ Grown(l, m) /\ Keeping(l, k, sync)
  BY DEF LogsOK, LogsKept, Kept
<1> HIDE DEF l, m, sync
<1>2. k \in DOMAIN calls /\ Sound(l) \subseteq Nat
  BY <1>1, KeepingOfCall, LogFacts
<1>3. Keeping(m, k, sync)
  BY <1>1, <1>2, KeepingGrown
<1>4. calls'[k].sync = sync
  BY <1>2 DEF CallsKept, sync
<1> QED
  BY <1>3, <1>4 DEF Kept, Keeping, Sound, m

\* A write that can be found stays so.
LEMMA FoundKept ==
  ASSUME LogsOK, LogsKept, CallsKept, NEW S, TablesKept(S), NEW log, NEW k,
         Found(k, S, log, files, calls)
  PROVE  Found(k, S, log, files', calls')
<1>1. CASE \E n \in S \cap DOMAIN files.tables : k \in files.tables[n]
  BY <1>1 DEF Found, TablesKept
<1>2. CASE \E n \in DOMAIN files.logs : n >= log /\ Kept(n, k)
  <2>1. PICK n \in DOMAIN files.logs : n >= log /\ Kept(n, k)
    BY <1>2
  <2>2. n \in DOMAIN files'.logs /\ Kept(n, k)'
    BY <2>1, LogsGrow DEF LogsKept
  <2> QED
    BY <2>1, <2>2 DEF Found, Kept
<1> QED
  BY <1>1, <1>2 DEF Found, Kept

\* Logs that did not change have grown by nothing.
LEMMA LogsSame ==
  ASSUME LogsOK, files'.logs = files.logs, CallsKept
  PROVE  LogsKept /\ LogsOK'
<1>1. ASSUME NEW n \in DOMAIN files.logs
      PROVE  Grown(files.logs[n], files.logs[n]) /\ LogOK(files.logs[n], DOMAIN calls')
  <2>1. LogOK(files.logs[n], DOMAIN calls)
    BY DEF LogsOK
  <2>2. LogOK(files.logs[n], DOMAIN calls')
    BY <2>1 DEF LogOK, CallsKept
  <2> QED
    BY <2>1, <2>2, LogFacts
<1> QED
  BY <1>1 DEF LogsKept, LogsOK

\* A step that keeps the version: memtables, logs and promises only grow, and
\* what is new in a memtable, or promised, is in the log.
MemoryKept ==
  /\ Same(db, db') /\ db.next <= db'.next /\ LogsKept
  /\ DOMAIN files'.logs = DOMAIN files.logs
  /\ TablesKept(InUse)
  /\ unsure \subseteq unsure' /\ 0 \notin DOMAIN mems'
  /\ \A n \in {db.mem, db.imm} \ {0} :
       /\ n \in DOMAIN mems' /\ mems[n] \subseteq mems'[n]
       /\ \A k \in mems'[n] \ unsure' : k \in mems[n] \/ Kept(n, k)'
  /\ \A k \in must' \ unsure' :
       k \in must \/ (k \in mems'[db'.mem] /\ Kept(db.mem, k)')

\* The MANIFEST stays too.
StoreKept ==
  MemoryKept /\ files'.current = files.current /\ files'.manifests = files.manifests

\* The numbers stay in order.
LEMMA StoreOrder ==
  ASSUME Inv, Inv', AckInv, Open, MemoryKept
  PROVE  OrderOK' /\ Open' /\ opening'.pc = "none"
<1>1. Open' /\ opening'.pc = "none"
  <2>1. Open'
    BY DEF MemoryKept, Same, Open
  <2> QED
    BY <2>1, OpenFacts DEF Inv, ControlOK, Open
<1>2. db.next \in Nat /\ db'.next \in Nat /\ DOMAIN files.logs \subseteq Nat
  BY DEF Inv, NumbersOK
<1>3. /\ \A n \in db.l0 \cup db.deep : n \in Nat /\ n < db.next
      /\ \A n \in DOMAIN files.logs : n < db.next
      /\ db.log_number \in Nat /\ db.log_number <= db.mem /\ db.mem # 0
      /\ db.mem \in DOMAIN mems \cap DOMAIN files.logs
      /\ db.imm # 0 => /\ db.imm \in DOMAIN mems \cap DOMAIN files.logs
                       /\ db.log_number <= db.imm /\ db.imm # db.mem
  BY DEF AckInv, OrderOK, Open
<1>4. \A n \in Nat : n < db.next => n < db'.next
  BY <1>2 DEF MemoryKept
<1>5. db.mem \in DOMAIN mems' /\ (db.imm # 0 => db.imm \in DOMAIN mems')
  BY <1>3 DEF MemoryKept
<1> QED
  BY <1>1, <1>2, <1>3, <1>4, <1>5 DEF OrderOK, MemoryKept, Same, LogsKept

\* Nothing is lost from memory.
LEMMA StoreMemory ==
  ASSUME Inv, Inv', AckInv, Open, MemoryKept, CallsKept
  PROVE  MemsKept' /\ AcknowledgedSurvives' /\ RecoveryOK'
<1>1. Open' /\ opening'.pc = "none" /\ OrderOK'
  BY StoreOrder
<1>2. /\ db'.mem = db.mem /\ db'.imm = db.imm /\ db'.l0 = db.l0 /\ db'.deep = db.deep
  BY DEF MemoryKept, Same
<1>3. LogsOK /\ LogsKept /\ unsure \subseteq unsure'
  BY DEF AckInv, MemoryKept
<1>4. /\ db.mem # 0 /\ db.mem \in DOMAIN mems /\ db.mem \in DOMAIN files.logs
      /\ (db.imm # 0 => db.imm \in DOMAIN mems /\ db.imm \in DOMAIN files.logs)
      /\ 0 \notin DOMAIN mems /\ 0 \notin DOMAIN mems'
  BY DEF AckInv, OrderOK, MemoryKept
<1>5. MemsKept'
  <2>1. ASSUME NEW n \in {db.mem, db.imm} \ {0}, NEW k \in mems'[n] \ unsure'
        PROVE  Kept(n, k)'
    <3>1. k \in mems[n] \/ Kept(n, k)'
      BY <2>1 DEF MemoryKept
    <3>2. CASE k \in mems[n]
      <4>1. Kept(n, k)
        BY <1>3, <2>1, <3>2 DEF AckInv, MemsKept
      <4>2. n \in DOMAIN files.logs
        BY <1>4, <2>1
      <4> QED
        BY <1>3, <4>1, <4>2, LogsGrow
    <3> QED
      BY <3>1, <3>2
  <2> QED
    BY <1>2, <2>1 DEF MemsKept
<1>6. AcknowledgedSurvives'
  <2>1. ASSUME NEW k \in must' \ unsure' PROVE k \in Contents'
    <3>1. CASE k \in must
      <4>1. k \in Contents
        BY <1>3, <2>1, <3>1 DEF AckInv, AcknowledgedSurvives
      <4>2. CASE k \in Mem(db.mem)
        <5>1. k \in mems[db.mem]
          BY <1>4, <4>2 DEF Mem
        <5>2. db.mem \in DOMAIN mems' /\ k \in mems'[db.mem]
          BY <1>4, <5>1 DEF MemoryKept
        <5> QED
          BY <1>2, <5>2 DEF Contents, Mem
      <4>3. CASE k \in Mem(db.imm)
        <5>1. db.imm # 0 /\ k \in mems[db.imm]
          BY <1>4, <4>3 DEF Mem
        <5>2. db.imm \in DOMAIN mems' /\ k \in mems'[db.imm]
          BY <5>1 DEF MemoryKept
        <5> QED
          BY <1>2, <5>2 DEF Contents, Mem
      <4>4. CASE k \in Stored(db.l0 \cup db.deep)
        <5>1. TablesKept(db.l0 \cup db.deep)
          BY DEF MemoryKept, TablesKept, InUse
        <5>2. k \in Stored(db.l0 \cup db.deep)'
          <6> DEFINE S == db.l0 \cup db.deep
          <6>1. Stored(S) \subseteq UNION {files'.tables[n] : n \in S \cap DOMAIN files'.tables}
            <7> HIDE DEF S
            <7> QED
              BY <5>1 DEF S, Stored, TablesKept
          <6>2. db'.l0 \cup db'.deep = S
            BY <1>2
          <6> QED
            BY <4>4, <6>1, <6>2 DEF Stored
        <5> QED
          BY <5>2 DEF Contents
      <4> QED
        BY <4>1, <4>2, <4>3, <4>4 DEF Contents
    <3>2. CASE k \in mems'[db'.mem]
      <4>1. db.mem \in DOMAIN mems'
        BY <1>4 DEF MemoryKept
      <4> QED
        BY <1>2, <3>2, <4>1 DEF Contents, Mem
    <3> QED
      BY <2>1, <3>1, <3>2 DEF MemoryKept
  <2> QED
    BY <2>1 DEF AcknowledgedSurvives
<1>7. RecoveryOK'
  BY <1>1 DEF RecoveryOK
<1> QED
  BY <1>5, <1>6, <1>7

\* The records that were fit for a restart still are.
LEMMA StoreLatest ==
  ASSUME Inv, Inv', AckInv, Open, StoreKept, CallsKept,
         bg'.pc = "logging" => \/ bg.pc = "logging" /\ bg'.edit.next = bg.edit.next
                               \/ bg'.edit.next = db.next
  PROVE  LatestOK'
<1> DEFINE m == Current
<1>1. Open' /\ OrderOK'
  BY StoreOrder DEF StoreKept
<1>2. /\ files.current # 0 /\ files'.current = files.current /\ Current' = m
      /\ db'.mem = db.mem
  BY OpenFacts DEF StoreKept, MemoryKept, Current, Same
<1>3. LogsOK /\ LogsKept /\ unsure \subseteq unsure' /\ db.next \in Nat /\ db'.next \in Nat
      /\ db.next <= db'.next
  BY DEF AckInv, StoreKept, MemoryKept, Inv, NumbersOK
<1> SUFFICES ASSUME NEW i \in Latest(m)
             PROVE  LET r == m.recs[i] IN
                    /\ VersionOK(r, m.recs[Len(m.recs)].next)
                    /\ r.next <= db'.next
                    /\ r.log_number <= db'.mem
                    /\ bg'.pc = "logging" => r.next <= bg'.edit.next
                    /\ \A k \in must' \ unsure' : Found(k, Tables(r), r.log_number, files', calls')
  <2> HIDE DEF m
  <2> QED
    BY <1>1, <1>2 DEF LatestOK, Latest, VersionOK, Tables, Due
<1> DEFINE r == m.recs[i]
<1>4. /\ VersionOK(r, m.recs[Len(m.recs)].next)
      /\ r.next <= db.next
      /\ r.log_number <= db.mem
      /\ bg.pc = "logging" => r.next <= bg.edit.next
      /\ \A k \in Due : Found(k, Tables(r), r.log_number, files, calls)
  BY <1>2 DEF AckInv, LatestOK, Open
<1>5. TablesKept(Tables(r))
  BY DEF StoreKept, MemoryKept, TablesKept, InUse
<1> HIDE DEF m, r
<1>6. r.next \in Nat /\ r.next <= db'.next
  BY <1>3, <1>4 DEF VersionOK
<1>7. bg'.pc = "logging" => r.next <= bg'.edit.next
  BY <1>4
<1>8. ASSUME NEW k \in must' \ unsure' PROVE Found(k, Tables(r), r.log_number, files', calls')
  <2>1. CASE k \in must
    <3>1. k \in Due
      BY <1>3, <1>8, <2>1 DEF Due
    <3> QED
      BY <1>3, <1>4, <1>5, <3>1, FoundKept
  <2>2. CASE k \notin must
    <3>1. Kept(db.mem, k)'
      BY <1>8, <2>2 DEF StoreKept, MemoryKept
    <3>2. db'.mem \in DOMAIN files'.logs
      BY <1>1 DEF OrderOK
    <3>3. db'.mem >= r.log_number
      <4>1. db.mem \in Nat /\ r.log_number \in Nat
        BY <1>4 DEF VersionOK, Inv, NumbersOK
      <4> QED
        BY <1>2, <1>4, <4>1
    <3> QED
      BY <1>2, <3>1, <3>2, <3>3 DEF Found, Kept
  <2> QED
    BY <2>1, <2>2
<1> QED
  BY <1>2, <1>4, <1>6, <1>7, <1>8 DEF r

\* The tables in use are the same, and below the next file number.
LEMMA StoreInUse ==
  ASSUME Inv, Inv', AckInv, Open, StoreKept
  PROVE  InUse' = InUse /\ (\A n \in InUse : n \in Nat /\ n < db.next) /\ db.next \notin InUse
<1>1. InUse' = InUse
  <2>1. /\ db'.l0 = db.l0 /\ db'.deep = db.deep
        /\ files'.current = files.current /\ files'.manifests = files.manifests
    BY DEF StoreKept, MemoryKept, Same
  <2>2. Current' = Current
    BY <2>1 DEF Current
  <2> QED
    BY <2>1, <2>2 DEF InUse
<1>2. ASSUME NEW n \in InUse PROVE n \in Nat /\ n < db.next
  <2>1. CASE n \in db.l0 \cup db.deep
    BY <2>1 DEF AckInv, OrderOK, Open
  <2>2. CASE n \notin db.l0 \cup db.deep
    <3>1. PICK i \in Latest(Current) : n \in Tables(Current.recs[i])
      BY <1>2, <2>2 DEF InUse
    <3> DEFINE r == Current.recs[i]
    <3>2. VersionOK(r, Current.recs[Len(Current.recs)].next) /\ r.next <= db.next
      <4>1. files.current # 0
        BY OpenFacts
      <4> QED
        BY <3>1, <4>1 DEF AckInv, LatestOK, Open
    <3>3. n \in Nat /\ n < r.next /\ r.next \in Nat /\ db.next \in Nat
      BY <3>1, <3>2 DEF VersionOK, Inv, NumbersOK
    <3> QED
      BY <3>2, <3>3
  <2> QED
    BY <2>1, <2>2
<1>3. db.next \in Nat
  BY DEF Inv, NumbersOK
<1>4. db.next \notin InUse
  BY <1>2, <1>3
<1> QED
  BY <1>1, <1>2, <1>4

\* What the background thread does stays right while it waits.
LEMMA StoreJob ==
  ASSUME Inv, Inv', AckInv, Open, StoreKept, UNCHANGED bg, files'.tables = files.tables,
         db.imm # 0 => mems'[db.imm] = mems[db.imm]
  PROVE  JobOK'
<1>1. InUse' = InUse
  BY StoreInUse
<1>2. db'.imm = db.imm /\ db'.mem = db.mem /\ db'.l0 = db.l0 /\ db'.deep = db.deep
      /\ db'.log_number = db.log_number
  BY DEF StoreKept, MemoryKept, Same
<1>3. db.next \in Nat /\ db'.next \in Nat /\ db.next <= db'.next
  BY DEF StoreKept, MemoryKept, Inv, NumbersOK
<1>4. /\ bg.pc = "building" =>
           /\ bg.job \in {"mem", "both"} /\ db.imm # 0
           /\ bg.table \in Nat /\ bg.table < db.next /\ bg.table \notin InUse
      /\ bg.out # 0 => bg.out \notin InUse
      /\ bg.pc = "working" => bg.job = "compact"
  BY DEF AckInv, JobOK
<1>5. bg.pc = "building" => bg.table < db'.next
  BY <1>3, <1>4
<1>6. CASE bg.pc # "logging"
  BY <1>1, <1>2, <1>4, <1>5, <1>6 DEF JobOK
<1>7. CASE bg.pc = "logging"
  <2>1. /\ VersionOK(bg.edit, db.next)
        /\ Stored(db.l0 \cup db.deep) \subseteq Stored(Tables(bg.edit))
        /\ bg.job \in {"mem", "both"} =>
             /\ db.imm # 0 /\ bg.edit.log_number = db.mem
             /\ mems[db.imm] \subseteq Stored(Tables(bg.edit))
             /\ bg.out # 0 => bg.out \notin Tables(bg.edit)
        /\ bg.job \notin {"mem", "both"} => bg.edit.log_number = db.log_number
    BY <1>7 DEF AckInv, JobOK
  <2>2. VersionOK(bg.edit, db'.next)
    <3>1. bg.edit.next \in Nat /\ bg.edit.next <= db.next
      BY <2>1 DEF VersionOK
    <3>2. bg.edit.next <= db'.next
      BY <1>3, <3>1
    <3> QED
      BY <2>1, <3>2 DEF VersionOK
  <2>3. Stored(Tables(bg.edit))' = Stored(Tables(bg.edit))
        /\ Stored(db.l0 \cup db.deep)' = Stored(db.l0 \cup db.deep)
    BY <1>2 DEF Stored, Tables
  <2>4. VersionOK(bg.edit, db.next)'
    BY <2>2 DEF VersionOK, Tables
  <2> QED
    BY <1>1, <1>2, <1>4, <1>7, <2>1, <2>3, <2>4 DEF JobOK, Tables
<1> QED
  BY <1>6, <1>7

\* What the leader has done stays so.
LEMMA StoreLeader ==
  ASSUME Inv, Inv', AckInv, Open, MemoryKept, CallsKept, UNCHANGED leader
  PROVE  LeaderOK'
<1>1. db'.mem = db.mem /\ LogsOK /\ LogsKept /\ unsure \subseteq unsure'
  BY DEF MemoryKept, Same, AckInv
<1>2. /\ db.mem # 0 /\ db.mem \in DOMAIN files.logs
      /\ leader.group \subseteq DOMAIN calls
  BY DEF AckInv, OrderOK, EntriesOK
<1>3. mems[db.mem] \subseteq mems'[db.mem]
  BY <1>2 DEF MemoryKept
<1>4. ASSUME NEW k, Kept(db.mem, k) PROVE Kept(db.mem, k)'
  <2> DEFINE n == db.mem
  <2> HIDE DEF n
  <2>1. Kept(n, k)'
    BY <1>1, <1>2, <1>4, LogsGrow DEF n
  <2> QED
    BY <1>1, <2>1 DEF n, Kept
<1>5. leader.pc \in {"append"} => leader.call \in DOMAIN calls
  <2>1. leader.pc = "append" => leader.call = writers[1] /\ writers # <<>> /\ writers \in Seq(Nat)
    BY DEF Inv, QueueOK
  <2>2. ASSUME writers # <<>>, writers \in Seq(Nat) PROVE 1 \in 1..Len(writers)
    <3>1. Len(writers) \in Nat \ {0}
      BY <2>2, EmptySeq
    <3> QED
      BY <3>1
  <2> QED
    BY <2>1, <2>2 DEF AckInv, EntriesOK
<1> QED
  BY <1>1, <1>2, <1>3, <1>4, <1>5 DEF AckInv, LeaderOK, CallsKept

\* The entries of memtables, logs and tables that are kept are of calls.
LEMMA StoreEntries ==
  ASSUME Inv, AckInv, CallsKept, files'.tables = files.tables,
         \A n \in DOMAIN mems' : n \in DOMAIN mems /\ mems'[n] = mems[n],
         must' \subseteq DOMAIN calls', UNCHANGED leader, UNCHANGED writers
  PROVE  EntriesOK'
<1>1. DOMAIN calls \subseteq DOMAIN calls'
  BY DEF CallsKept
<1>2. EntriesOK
  BY DEF AckInv
<1>3. /\ \A i \in 1..Len(writers') : writers'[i] \in DOMAIN calls'
      /\ leader'.left \subseteq leader'.group /\ leader'.group \subseteq DOMAIN calls'
  BY <1>1, <1>2 DEF EntriesOK
<1>4. \A n \in DOMAIN mems' : mems'[n] \subseteq DOMAIN calls'
  BY <1>1, <1>2 DEF EntriesOK
<1>5. \A n \in DOMAIN files'.tables : files'.tables[n] \subseteq DOMAIN calls'
  BY <1>1, <1>2 DEF EntriesOK
<1> QED
  BY <1>3, <1>4, <1>5 DEF EntriesOK

\* A step that keeps the version keeps the invariant, if its locals are right.
LEMMA StoreAck ==
  ASSUME Inv, Inv', AckInv, Open, StoreKept, CallsKept, EntriesOK', LogsOK', JobOK', LeaderOK',
         bg'.pc = "logging" => \/ bg.pc = "logging" /\ bg'.edit.next = bg.edit.next
                               \/ bg'.edit.next = db.next
  PROVE  AckInv'
<1>1. OrderOK'
  BY StoreOrder DEF StoreKept
<1>2. LatestOK'
  BY StoreLatest
<1>3. MemsKept' /\ AcknowledgedSurvives' /\ RecoveryOK'
  BY StoreMemory DEF StoreKept
<1> QED
  BY <1>1, <1>2, <1>3 DEF AckInv

\* A step that changes no file: memtables may be given up, but not those in use.
Quiet ==
  /\ Open /\ UNCHANGED <<files, must, unsure>> /\ Same(db, db') /\ db.next <= db'.next
  /\ DOMAIN mems \cap {db.mem, db.imm} \subseteq DOMAIN mems'
  /\ \A n \in DOMAIN mems' : n \in DOMAIN mems /\ mems'[n] = mems[n]

\* A quiet step keeps the version.
LEMMA QuietIs ==
  ASSUME Inv, AckInv, CallsKept, Quiet
  PROVE  StoreKept /\ LogsOK'
<1>1. LogsKept /\ LogsOK'
  BY LogsSame DEF AckInv, Quiet
<1>2. TablesKept(InUse)
  BY DEF TablesKept, Quiet
<1>3. /\ 0 \notin DOMAIN mems /\ db.mem \in DOMAIN mems /\ (db.imm # 0 => db.imm \in DOMAIN mems)
  BY DEF AckInv, OrderOK, Quiet
<1>4. 0 \notin DOMAIN mems'
  BY <1>3 DEF Quiet
<1>5. ASSUME NEW n \in {db.mem, db.imm} \ {0}
      PROVE  n \in DOMAIN mems' /\ mems'[n] = mems[n]
  BY <1>3 DEF Quiet
<1> QED
  BY <1>1, <1>2, <1>4, <1>5 DEF StoreKept, MemoryKept, Quiet

\* A quiet step keeps the invariant, if the background thread and the leader
\* do nothing, or what they do is right.
LEMMA QuietAck ==
  ASSUME Inv, Inv', AckInv, CallsKept, Quiet,
         JobOK' \/ UNCHANGED bg, LeaderOK' \/ UNCHANGED leader,
         EntriesOK' \/ UNCHANGED <<leader, writers>>,
         bg'.pc = "logging" => \/ bg.pc = "logging" /\ bg'.edit.next = bg.edit.next
                               \/ bg'.edit.next = db.next
  PROVE  AckInv'
<1>1. StoreKept /\ LogsOK' /\ Open
  BY QuietIs DEF Quiet
<1>2. JobOK'
  <2>1. db.imm # 0 => mems'[db.imm] = mems[db.imm]
    BY <1>1 DEF Quiet, AckInv, OrderOK
  <2>2. files'.tables = files.tables
    BY DEF Quiet
  <2> QED
    BY <1>1, <2>1, <2>2, StoreJob
<1>3. LeaderOK'
  BY <1>1, StoreLeader DEF StoreKept
<1>4. EntriesOK'
  <2>1. must' \subseteq DOMAIN calls'
    BY DEF Quiet, AckInv, EntriesOK, CallsKept
  <2>2. files'.tables = files.tables
    BY DEF Quiet
  <2> QED
    BY <2>1, <2>2, StoreEntries DEF Quiet
<1> QED
  BY <1>1, <1>2, <1>3, <1>4, StoreAck

-----------------------------------------------------------------------------
(* The ends of rounds. *)

\* MaybeScheduleCompaction leaves the version alone.
LEMMA ScheduleSame ==
  ASSUME NEW d, DOMAIN d = DBFields
  PROVE  LET e == MaybeScheduleCompaction(d)
         IN Same(d, e) /\ e.next = d.next /\ e.last_sequence = d.last_sequence
BY DEF MaybeScheduleCompaction, DBFields, Same

\* So does RecordBackgroundError.
LEMMA ErrorSame ==
  ASSUME NEW d, DOMAIN d = DBFields
  PROVE  LET e == RecordBackgroundError(d)
         IN /\ Same(d, e) /\ e.next = d.next /\ DOMAIN e = DBFields
            /\ e.last_sequence = d.last_sequence
BY DEF RecordBackgroundError, DBFields, Same

\* The background thread is done with its round, or has met a NULL pointer.
Ended(b) == b = IdleBG \/ b = [IdleBG EXCEPT !.pc = "null"]

\* The end of a round leaves the version alone too.
LEMMA BackgroundDoneSame ==
  ASSUME NEW d, DOMAIN d = DBFields, NEW is_manual, NEW done, BackgroundDone(d, is_manual, done)
  PROVE  /\ Same(d, db') /\ db'.next = d.next /\ Ended(bg')
         /\ db'.last_sequence = d.last_sequence
<1>1. CASE is_manual /\ ~d.manual
  BY <1>1 DEF BackgroundDone, Ended, Same
<1>2. CASE ~(is_manual /\ ~d.manual)
  <2> DEFINE e == [d EXCEPT !.scheduled = FALSE, !.manual = @ /\ ~is_manual]
  <2>1. DOMAIN e = DBFields /\ Same(d, e) /\ e.next = d.next /\ e.last_sequence = d.last_sequence
    BY DEF DBFields, Same
  <2>2. db' = MaybeScheduleCompaction(e) /\ Ended(bg')
    BY <1>2 DEF BackgroundDone, Ended
  <2> HIDE DEF e
  <2>3. Same(e, db') /\ db'.next = e.next /\ db'.last_sequence = e.last_sequence
    BY <2>1, <2>2, ScheduleSame
  <2> QED
    BY <2>1, <2>2, <2>3 DEF Same
<1> QED
  BY <1>1, <1>2

\* The compaction that was interrupted goes on.
GoesOn ==
  /\ bg'.pc = "working" /\ bg'.job = "compact" /\ bg'.out = bg.out
  /\ bg'.in0 = bg.in0 /\ bg'.in1 = bg.in1

\* So does the end of CompactMemTable.
LEMMA MemTableDoneSame ==
  ASSUME NEW d, DOMAIN d = DBFields, DOMAIN bg = BGFields, MemTableDone(d)
  PROVE  /\ Same(d, db') /\ db'.next = d.next /\ db'.last_sequence = d.last_sequence
         /\ Ended(bg') \/ GoesOn
<1>1. CASE bg.job = "both"
  <2>1. db' = d /\ bg' = [bg EXCEPT !.pc = "working", !.table = 0, !.job = "compact"]
    BY <1>1 DEF MemTableDone
  <2>2. Same(d, db') /\ db'.next = d.next /\ db'.last_sequence = d.last_sequence
    BY <2>1 DEF Same
  <2>3. GoesOn
    BY <2>1 DEF BGFields, GoesOn
  <2> QED
    BY <2>2, <2>3
<1>2. CASE bg.job # "both"
  <2> DEFINE e == [d EXCEPT !.scheduled = FALSE]
  <2>1. DOMAIN e = DBFields /\ Same(d, e) /\ e.next = d.next /\ e.last_sequence = d.last_sequence
    BY DEF DBFields, Same
  <2>2. db' = MaybeScheduleCompaction(e) /\ bg' = IdleBG
    BY <1>2 DEF MemTableDone
  <2> HIDE DEF e
  <2>3. Same(e, db') /\ db'.next = e.next /\ db'.last_sequence = e.last_sequence
    BY <2>1, <2>2, ScheduleSame
  <2> QED
    BY <2>1, <2>2, <2>3 DEF Same, Ended
<1> QED
  BY <1>1, <1>2

\* A background thread that is done is about to install nothing.
LEMMA IdleJob == ASSUME Ended(bg') PROVE JobOK' /\ bg'.pc # "logging"
BY DEF JobOK, IdleBG, Ended

-----------------------------------------------------------------------------
(* Quiet steps. *)

\* db as it is keeps the version.
LEMMA UnchangedQuiet ==
  ASSUME Inv, Open, UNCHANGED <<files, must, unsure, db, mems>>
  PROVE  Quiet
<1>1. db.next \in Nat
  BY DEF Inv, NumbersOK
<1> QED
  BY <1>1 DEF Quiet, Same

\* Readers.
LEMMA ReaderAck == Inv /\ Inv' /\ AckInv /\ CallsKept /\ (NewIterator \/ ReleaseIterator) => AckInv'
<1> SUFFICES ASSUME Inv, Inv', AckInv, CallsKept, NewIterator \/ ReleaseIterator PROVE AckInv'
  OBVIOUS
<1>1. UNCHANGED <<files, must, unsure, writers, leader, bg>> /\ Open
  BY DEF NewIterator, ReleaseIterator, Inv, ControlOK
<1>2. CASE NewIterator
  <2>1. Quiet
    BY <1>1, <1>2, UnchangedQuiet DEF NewIterator
  <2> QED
    BY <1>1, <2>1, QuietAck
<1>3. CASE ReleaseIterator
  <2>1. PICK seek : db' = MaybeScheduleCompaction([db EXCEPT !.seek = seek])
    BY <1>3 DEF ReleaseIterator
  <2> DEFINE d == [db EXCEPT !.seek = seek]
  <2>2. DOMAIN d = DBFields /\ Same(db, d) /\ d.next = db.next /\ db.next \in Nat
    BY DEF Inv, RecordsOK, NumbersOK, DBFields, Same
  <2> HIDE DEF d
  <2>3. Same(d, db') /\ db'.next = d.next
    BY <2>1, <2>2, ScheduleSame DEF d
  <2>4. Same(db, db') /\ db.next <= db'.next
    BY <2>2, <2>3 DEF Same
  <2>5. mems' = Only(mems, Referenced(db, NoIter))
    BY <1>3 DEF ReleaseIterator
  <2>6. /\ DOMAIN mems \cap {db.mem, db.imm} \subseteq DOMAIN mems'
        /\ \A n \in DOMAIN mems' : n \in DOMAIN mems /\ mems'[n] = mems[n]
    BY <2>5 DEF Only, Referenced
  <2>7. Quiet
    BY <1>1, <2>4, <2>6 DEF Quiet
  <2> QED
    BY <1>1, <2>7, QuietAck
<1> QED
  BY <1>2, <1>3

\* CompactRange's thread.
LEMMA ManualAck == Inv /\ Inv' /\ AckInv /\ CallsKept /\ ManualStep => AckInv'
<1> SUFFICES ASSUME Inv, Inv', AckInv, CallsKept, ManualStep PROVE AckInv'
  OBVIOUS
<1>1. UNCHANGED <<files, mems, must, unsure, writers, leader, bg>> /\ ManualRuns
  BY DEF ManualStep, CompactRangeWaits, CompactRangeStarts, TEST_CompactRange, ManualUnchanged
<1>2. Open /\ DOMAIN db = DBFields /\ db.next \in Nat
  BY <1>1 DEF ManualRuns, Inv, ControlOK, RecordsOK, NumbersOK
<1>3. Same(db, db') /\ db'.next = db.next
  <2>1. CASE UNCHANGED db
    BY <2>1 DEF Same
  <2>2. CASE db' = [db EXCEPT !.manual = FALSE]
    BY <1>2, <2>2 DEF Same, DBFields
  <2>3. CASE db' = MaybeScheduleCompaction([db EXCEPT !.manual = TRUE])
    <3> DEFINE d == [db EXCEPT !.manual = TRUE]
    <3>1. DOMAIN d = DBFields /\ Same(db, d) /\ d.next = db.next
      BY <1>2 DEF DBFields, Same
    <3> HIDE DEF d
    <3>2. Same(d, db') /\ db'.next = d.next
      BY <2>3, <3>1, ScheduleSame DEF d
    <3> QED
      BY <3>1, <3>2 DEF Same
  <2> QED
    BY <2>1, <2>2, <2>3 DEF ManualStep, CompactRangeWaits, CompactRangeStarts, TEST_CompactRange
<1>4. Quiet
  BY <1>1, <1>2, <1>3 DEF Quiet
<1> QED
  BY <1>1, <1>4, QuietAck

\* The database is about to be closed.
LEMMA ShutdownAck == Inv /\ Inv' /\ AckInv /\ CallsKept /\ Shutdown => AckInv'
<1> SUFFICES ASSUME Inv, Inv', AckInv, CallsKept, Shutdown PROVE AckInv'
  OBVIOUS
<1>1. UNCHANGED <<files, mems, must, unsure, writers, leader, bg>> /\ Open
  BY DEF Shutdown, OpenUnchanged
<1>2. DOMAIN db = DBFields /\ db.next \in Nat
  BY DEF Inv, RecordsOK, NumbersOK
<1>3. Same(db, db') /\ db'.next = db.next
  BY <1>2 DEF Shutdown, Same, DBFields
<1>4. Quiet
  BY <1>1, <1>2, <1>3 DEF Quiet
<1> QED
  BY <1>1, <1>4, QuietAck

\* A new call, at the end of the queue.
LEMMA EnqueueAck ==
  ASSUME Inv, Inv', AckInv, CallsKept, NEW sync, NEW null, Enqueue(sync, null)
  PROVE  AckInv'
<1> DEFINE k == Len(calls) + 1
<1>1. /\ Open /\ writers' = Append(writers, k)
      /\ leader' = IF writers = <<>> THEN Lead(k, null) ELSE leader
      /\ UNCHANGED <<files, db, mems, bg, must, unsure>>
  BY DEF Enqueue
<1>2. k \in DOMAIN calls'
  BY EnqueueCalls
<1>3. writers \in Seq(Nat) /\ k \in Nat
  <2>1. IsSeq(calls)
    BY DEF Inv, CallsOK
  <2>2. Len(calls) \in Nat
    BY <2>1, AppendIs
  <2> QED
    BY <2>2 DEF Inv, QueueOK
<1> HIDE DEF k
<1>4. /\ Len(writers) \in Nat /\ Len(writers') = Len(writers) + 1
      /\ writers'[Len(writers) + 1] = k /\ \A i \in 1..Len(writers) : writers'[i] = writers[i]
  BY <1>1, <1>3, AppendProperties, LenProperties
<1>5. Quiet
  BY <1>1, UnchangedQuiet
<1>6. DOMAIN calls \subseteq DOMAIN calls'
  BY DEF CallsKept
<1>7. ASSUME NEW i \in 1..Len(writers') PROVE writers'[i] \in DOMAIN calls'
  <2>1. i \in 1..Len(writers) \/ i = Len(writers) + 1
    BY <1>4
  <2> QED
    BY <1>2, <1>4, <1>6, <2>1 DEF AckInv, EntriesOK
<1>8. leader' = leader \/ (leader'.pc = "room" /\ leader'.group = {} /\ leader'.left = {} /\ leader'.status = "ok")
  BY <1>1 DEF Lead, NoLeader
<1>9. EntriesOK'
  <2>1. leader'.left \subseteq leader'.group /\ leader'.group \subseteq DOMAIN calls'
    BY <1>6, <1>8 DEF AckInv, EntriesOK
  <2>2. /\ must' \subseteq DOMAIN calls'
        /\ \A n \in DOMAIN mems' : mems'[n] \subseteq DOMAIN calls'
        /\ \A n \in DOMAIN files'.tables : files'.tables[n] \subseteq DOMAIN calls'
    BY <1>1, <1>6 DEF AckInv, EntriesOK
  <2> QED
    BY <1>7, <2>1, <2>2 DEF EntriesOK
<1>10. LeaderOK' \/ UNCHANGED leader
  BY <1>8 DEF LeaderOK
<1> QED
  BY <1>1, <1>5, <1>9, <1>10, QuietAck

-----------------------------------------------------------------------------
(* The writers. *)

\* The least of a set of naturals.
LEMMA MinIs ==
  ASSUME NEW T \in SUBSET Nat, T # {}
  PROVE  Min(T) \in T /\ \A y \in T : Min(T) <= y
<1>1. \E x \in T : \A y \in T : x <= y
  BY LeastNat
<1> QED
  BY <1>1, Zenon DEF Min

\* A group is of the first writers; a synced write only joins a leader that
\* syncs.
LEMMA GroupUpTo ==
  ASSUME writers \in Seq(Nat), writers # <<>>, NEW first, first = writers[1]
  PROVE  LET all == BuildBatchGroup(first)
         IN \E m \in 1..Len(writers) :
              /\ all[Len(all)] = writers[m]
              /\ \A k : k \in Entries(all) <=> (\E i \in 1..m : k = writers[i]) /\ ~calls[k].null
              /\ \A i \in 1..m : calls[writers[i]].sync => calls[first].sync
<1> DEFINE Joins(m) == /\ ~(calls[writers[m]].sync /\ ~calls[first].sync)
                       /\ \/ calls[writers[m]].null
                          \/ Cardinality(Entries(SubSeq(writers, 1, m))) <= MaxGroup
           M == {m \in DOMAIN writers : \A i \in 2..m : Joins(i)}
<1>1. Len(writers) \in Nat \ {0} /\ DOMAIN writers = 1..Len(writers)
  BY EmptySeq, LenProperties
<1>2. M # {} /\ M \in SUBSET (0..Len(writers))
  <2>1. 1 \in M
    BY <1>1
  <2> QED
    BY <1>1, <2>1
<1> HIDE DEF Joins
<1>3. Max(M) \in M /\ Max(M) \in 1..Len(writers)
  BY <1>1, <1>2, MaxIs
<1> DEFINE m == Max(M)
<1>4. \A i \in 2..m : Joins(i)
  BY <1>3
<1> HIDE DEF M
<1>5. BuildBatchGroup(first) = SubSeq(writers, 1, m)
  BY Zenon DEF BuildBatchGroup, M, Joins, m
<1> HIDE DEF m
<1>6. m \in 1..Len(writers)
  BY <1>3 DEF m
<1>7. \A i \in 1..m : writers[i] \in Nat
  BY <1>1, <1>6, ElementOfSeq
<1>8. /\ SubSeq(writers, 1, m) \in Seq(Nat)
      /\ Len(SubSeq(writers, 1, m)) = IF 1 <= m THEN m - 1 + 1 ELSE 0
      /\ \A i \in 1..(m - 1 + 1) : SubSeq(writers, 1, m)[i] = writers[1 + i - 1]
  BY <1>1, <1>6, <1>7, SubSeqProperties
<1> DEFINE s == SubSeq(writers, 1, m)
<1>9. DOMAIN s = 1..m /\ Len(s) = m /\ \A i \in 1..m : s[i] = writers[i]
  <2>1. DOMAIN s = 1..Len(s)
    BY <1>8, LenProperties
  <2>2. m \in Nat /\ Len(s) = m
    BY <1>6, <1>8
  <2> QED
    BY <1>8, <2>1, <2>2
<1>10. BuildBatchGroup(first) = s
  BY <1>5
<1> HIDE DEF s
<1>11. \A k : k \in Entries(s) <=> (\E i \in 1..m : k = writers[i]) /\ ~calls[k].null
  BY <1>9 DEF Entries, Elements
<1>12. ASSUME NEW i \in 1..m PROVE calls[writers[i]].sync => calls[first].sync
  <2>1. i = 1 \/ i \in 2..m
    BY <1>6
  <2>2. CASE i \in 2..m
    BY <1>4, <2>2 DEF Joins
  <2> QED
    BY <2>1, <2>2
<1>13. m \in 1..m
  BY <1>6
<1>14. s[Len(s)] = writers[m]
  BY <1>9, <1>13
<1> QED
  BY <1>6, <1>10, <1>11, <1>12, <1>14

\* The entries of a group are of the queue.
LEMMA GroupEntries ==
  ASSUME writers \in Seq(Nat), writers # <<>>, NEW first, first = writers[1]
  PROVE  LET group == Entries(BuildBatchGroup(first))
         IN /\ \A k \in group : \E i \in 1..Len(writers) : k = writers[i]
            /\ ~calls[first].null => first \in group
            /\ \A k \in group : calls[k].sync => calls[first].sync
<1> DEFINE group == Entries(BuildBatchGroup(first))
<1>1. PICK m \in 1..Len(writers) :
        /\ \A k : k \in group <=> (\E i \in 1..m : k = writers[i]) /\ ~calls[k].null
        /\ \A i \in 1..m : calls[writers[i]].sync => calls[first].sync
  BY GroupUpTo
<1> HIDE DEF group
<1>2. 1 \in 1..m /\ 1..m \subseteq 1..Len(writers)
  BY EmptySeq, LenProperties
<1>3. /\ \A k \in group : \E i \in 1..Len(writers) : k = writers[i]
      /\ ~calls[first].null => first \in group
      /\ \A k \in group : calls[k].sync => calls[first].sync
  BY <1>1, <1>2
<1> QED
  BY <1>3 DEF group

\* The entries stay right when only the leader's locals change.
LEMMA LeaderEntries ==
  ASSUME AckInv, CallsKept, UNCHANGED <<files, mems, must, writers>>,
         leader'.left \subseteq leader'.group, leader'.group \subseteq DOMAIN calls'
  PROVE  EntriesOK'
BY DEF AckInv, EntriesOK, CallsKept

\* MakeRoomForWrite and BuildBatchGroup, when no new memtable is made.
LEMMA RoomAck ==
  Inv /\ Inv' /\ AckInv /\ CallsKept /\ (RoomError \/ RoomDelay \/ RoomFound \/ RoomWait) => AckInv'
<1> SUFFICES ASSUME Inv, Inv', AckInv, CallsKept, RoomError \/ RoomDelay \/ RoomFound \/ RoomWait
             PROVE  AckInv'
  OBVIOUS
<1>1. /\ Room /\ UNCHANGED <<files, db, mems, writers, must, unsure, bg>>
  BY DEF RoomError, RoomDelay, RoomFound, RoomWait, RoomUnchanged, NoRoom
<1>2. /\ DOMAIN leader = LeaderFields /\ leader.pc = "room" /\ writers \in Seq(Nat) /\ writers # <<>>
      /\ leader.call = writers[1] /\ Open
  BY <1>1 DEF Inv, RecordsOK, QueueOK, Room
<1>3. Quiet
  BY <1>1, <1>2, UnchangedQuiet
<1>4. leader.group = {} /\ leader.left = {} /\ leader.status = "ok"
  BY <1>2 DEF AckInv, LeaderOK
<1>5. CASE leader'.pc = "finish" /\ leader'.group = {} /\ leader'.left = {}
  <2>1. LeaderOK'
    BY <1>5 DEF LeaderOK
  <2>2. EntriesOK'
    BY <1>1, <1>5, LeaderEntries
  <2> QED
    BY <1>1, <1>3, <2>1, <2>2, QuietAck
<1>6. CASE leader'.pc = "room" /\ leader'.group = {} /\ leader'.left = {} /\ leader'.status = "ok"
  <2>1. LeaderOK'
    BY <1>6 DEF LeaderOK
  <2>2. EntriesOK'
    BY <1>1, <1>6, LeaderEntries
  <2> QED
    BY <1>1, <1>3, <2>1, <2>2, QuietAck
<1>7. CASE RoomError
  BY <1>2, <1>4, <1>5, <1>7 DEF RoomError, LeaderFields
<1>8. CASE RoomDelay
  BY <1>2, <1>4, <1>6, <1>8 DEF RoomDelay, LeaderFields
<1>9. CASE RoomWait
  BY <1>2, <1>4, <1>6, <1>9 DEF RoomWait
<1>10. CASE RoomFound /\ calls[leader.call].null
  BY <1>2, <1>4, <1>5, <1>10 DEF RoomFound, LeaderFields
<1>11. CASE RoomFound /\ ~calls[leader.call].null
  <2> DEFINE first == leader.call
             all == BuildBatchGroup(first)
             group == Entries(all)
  <2>1. leader' = [leader EXCEPT !.pc = "append", !.group = group, !.left = group,
                                !.last = all[Len(all)]]
    BY <1>11 DEF RoomFound
  <2>2. /\ \A k \in group : \E i \in 1..Len(writers) : k = writers[i]
        /\ first \in group
        /\ \A k \in group : calls[k].sync => calls[first].sync
    BY <1>2, <1>11, GroupEntries
  <2> HIDE DEF all, group
  <2>3. leader'.call = first /\ leader'.pc = "append" /\ leader'.group = group /\ leader'.left = group
    BY <1>2, <2>1 DEF LeaderFields
  <2>4. group \subseteq DOMAIN calls
    BY <2>2 DEF AckInv, EntriesOK
  <2> HIDE DEF first
  <2>5. DOMAIN calls \subseteq DOMAIN calls' /\ \A k \in DOMAIN calls : calls'[k].sync = calls[k].sync
    BY DEF CallsKept
  <2>6. LeaderOK'
    BY <2>2, <2>3, <2>4, <2>5 DEF LeaderOK
  <2>7. leader'.left \subseteq leader'.group /\ leader'.group \subseteq DOMAIN calls'
    BY <2>3, <2>4, <2>5
  <2>8. EntriesOK'
    BY <1>1, <2>7, LeaderEntries
  <2> QED
    BY <1>1, <1>3, <2>6, <2>8, QuietAck
<1> QED
  BY <1>7, <1>8, <1>9, <1>10, <1>11

\* A log with one more record, or none, and its failed append, or none.
LEMMA LongerLog ==
  ASSUME NEW l, NEW C, LogOK(l, C), NEW g, g \subseteq C
  PROVE  LET longer == [l EXCEPT !.recs = Append(@, g)]
             synced == [longer EXCEPT !.synced = Len(longer.recs)]
             Bad(m) == [m EXCEPT !.bad = IF @ = 0 THEN Len(l.recs) + 1 ELSE @]
         IN /\ LogOK(longer, C) /\ Grown(l, longer)
            /\ LogOK(synced, C) /\ Grown(l, synced)
            /\ LogOK(Bad(l), C) /\ Grown(l, Bad(l))
            /\ LogOK(Bad(longer), C) /\ Grown(l, Bad(longer))
            /\ l.bad = 0 => \A k \in g : /\ Keeping(longer, k, FALSE)
                                         /\ \A sync : Keeping(synced, k, sync)
<1> DEFINE recs == Append(l.recs, g)
           n == Len(l.recs)
           bad == IF l.bad = 0 THEN n + 1 ELSE l.bad
<1>1. /\ DOMAIN l = {"recs", "synced", "bad"} /\ IsSeq(l.recs)
      /\ l.synced \in 0..n /\ l.bad \in Nat /\ \A i \in 1..n : l.recs[i] \subseteq C
  BY DEF LogOK
<1>2. /\ IsSeq(recs) /\ n \in Nat /\ Len(recs) = n + 1
      /\ DOMAIN l.recs = 1..n /\ DOMAIN recs = 1..Len(recs)
      /\ recs[n + 1] = g /\ \A i \in 1..n : recs[i] = l.recs[i]
  BY <1>1, AppendIs
<1> HIDE DEF recs, n
<1>3. \A i \in 1..(n + 1) : recs[i] \subseteq C
  BY <1>1, <1>2
<1>4. bad \in Nat /\ \A i \in 1..n : (l.bad = 0 \/ i < l.bad) => i < bad
  BY <1>1, <1>2
<1>5. 1..n \subseteq 1..(n + 1) /\ 0..n \subseteq 0..(n + 1) /\ 0..(n + 1) \subseteq Nat
      /\ n + 1 \in 1..(n + 1) /\ n + 1 \in 0..(n + 1)
  BY <1>2
<1> HIDE DEF bad
<1>6. ASSUME NEW m, DOMAIN m = {"recs", "synced", "bad"}, m.recs \in {l.recs, recs},
             m.synced = l.synced \/ (m.recs = recs /\ m.synced = n + 1), m.bad \in {l.bad, bad}
      PROVE  LogOK(m, C) /\ Grown(l, m)
  <2>1. /\ IsSeq(m.recs) /\ Len(m.recs) \in {n, n + 1} /\ DOMAIN m.recs = 1..Len(m.recs)
        /\ 1..n \subseteq 1..Len(m.recs)
        /\ \A i \in 1..Len(m.recs) : m.recs[i] \subseteq C
        /\ \A i \in 1..n : m.recs[i] = l.recs[i]
    BY <1>1, <1>2, <1>3, <1>5, <1>6 DEF n
  <2>2. m.synced \in 0..Len(m.recs) /\ m.synced \in Nat /\ l.synced \in Nat /\ l.synced <= m.synced
    BY <1>1, <1>2, <1>6, <2>1
  <2>3. LogOK(m, C)
    BY <1>1, <1>4, <1>6, <2>1, <2>2 DEF LogOK
  <2>4. ASSUME NEW i \in Sound(l) PROVE i \in Sound(m) /\ m.recs[i] = l.recs[i]
    <3>1. i \in 1..n /\ (l.bad = 0 \/ i < l.bad)
      BY <1>2, <2>4 DEF Sound
    <3>2. m.bad = 0 \/ i < m.bad
      BY <1>4, <1>6, <3>1
    <3> QED
      BY <2>1, <3>1, <3>2 DEF Sound
  <2> QED
    BY <2>2, <2>3, <2>4 DEF Grown
<1> DEFINE longer == [l EXCEPT !.recs = Append(@, g)]
           synced == [longer EXCEPT !.synced = Len(longer.recs)]
           Bad(m) == [m EXCEPT !.bad = IF @ = 0 THEN Len(l.recs) + 1 ELSE @]
<1>7. /\ DOMAIN longer = {"recs", "synced", "bad"} /\ longer.recs = recs
      /\ longer.synced = l.synced /\ longer.bad = l.bad
  BY <1>1 DEF recs
<1> HIDE DEF longer
<1>8. /\ DOMAIN synced = {"recs", "synced", "bad"} /\ synced.recs = recs
      /\ synced.synced = n + 1 /\ synced.bad = l.bad
  BY <1>2, <1>7
<1> HIDE DEF synced
<1>9. /\ DOMAIN Bad(l) = {"recs", "synced", "bad"} /\ Bad(l).recs = l.recs
      /\ Bad(l).synced = l.synced /\ Bad(l).bad = bad
  BY <1>1 DEF bad, n
<1>10. /\ DOMAIN Bad(longer) = {"recs", "synced", "bad"} /\ Bad(longer).recs = recs
       /\ Bad(longer).synced = l.synced /\ Bad(longer).bad = bad
  BY <1>7 DEF bad, n
<1>11. ASSUME l.bad = 0, NEW k \in g PROVE Keeping(longer, k, FALSE) /\ \A sync : Keeping(synced, k, sync)
  <2>1. n + 1 \in Sound(longer) /\ n + 1 \in Sound(synced)
    BY <1>2, <1>5, <1>7, <1>8, <1>11 DEF Sound
  <2>2. k \in longer.recs[n + 1] /\ k \in synced.recs[n + 1]
    BY <1>2, <1>7, <1>8
  <2>3. n + 1 <= synced.synced
    BY <1>2, <1>8
  <2> QED
    BY <2>1, <2>2, <2>3 DEF Keeping
<1> HIDE DEF Bad
<1>12. /\ LogOK(longer, C) /\ Grown(l, longer) /\ LogOK(synced, C) /\ Grown(l, synced)
       /\ LogOK(Bad(l), C) /\ Grown(l, Bad(l)) /\ LogOK(Bad(longer), C) /\ Grown(l, Bad(longer))
  BY <1>6, <1>7, <1>8, <1>9, <1>10
<1> QED
  BY <1>11, <1>12 DEF longer, synced, Bad

\* AddRecord and Sync.
LEMMA AppendAck == Inv /\ Inv' /\ AckInv /\ CallsKept /\ AppendToLog => AckInv'
<1> SUFFICES ASSUME Inv, Inv', AckInv, CallsKept, AppendToLog PROVE AckInv'
  OBVIOUS
<1> DEFINE l == files.logs[db.mem]
           g == leader.group
           C == DOMAIN calls
           longer == [l EXCEPT !.recs = Append(@, g)]
           synced == [longer EXCEPT !.synced = Len(longer.recs)]
           Bad(m) == [m EXCEPT !.bad = IF @ = 0 THEN Len(l.recs) + 1 ELSE @]
           sync == calls[leader.call].sync
           SetLog(m) == files' = [files EXCEPT !.logs[db.mem] = m]
           Next_(pc, status) == leader' = [leader EXCEPT !.pc = pc, !.status = status]
<1>1. /\ leader.pc = "append"
      /\ \/ Next_("insert", "ok") /\ SetLog(IF sync THEN synced ELSE longer)
         \/ Next_("finish", "error") /\ (SetLog(Bad(l)) \/ SetLog(Bad(longer)))
         \/ Next_("finish", "sync_error") /\ SetLog(longer)
      /\ unsure' = IF l.bad # 0 THEN unsure \cup g ELSE unsure
      /\ UNCHANGED <<calls, writers, db, mems, bg, must>>
  <2>1. /\ leader.pc = "append"
        /\ unsure' = IF l.bad # 0 THEN unsure \cup g ELSE unsure
        /\ UNCHANGED <<calls, writers, db, mems, bg, must>>
    BY DEF AppendToLog
  <2>2. \/ Next_("insert", "ok") /\ SetLog(IF sync THEN synced ELSE longer)
        \/ Next_("finish", "error") /\ \E x \in {l, longer} : SetLog(Bad(x))
        \/ Next_("finish", "sync_error") /\ SetLog(longer)
    BY Zenon DEF AppendToLog, AfterSyncError
  <2> HIDE DEF SetLog, Next_, Bad, longer, l, synced
  <2> QED
    BY <2>1, <2>2
<1>2. /\ Open /\ DOMAIN leader = LeaderFields /\ DOMAIN files = FileFields /\ db.next \in Nat
      /\ db.mem \in DOMAIN files.logs /\ LogsOK /\ g \subseteq C /\ leader.left = g /\ g # {}
      /\ \A k \in g : calls[k].sync => sync
      /\ db.mem # 0 /\ db.mem \in DOMAIN mems /\ 0 \notin DOMAIN mems
      /\ (db.imm # 0 => db.imm \in DOMAIN mems)
  <2>1. Open /\ DOMAIN leader = LeaderFields /\ DOMAIN files = FileFields /\ db.next \in Nat
    BY <1>1 DEF Inv, RecordsOK, QueueOK, NumbersOK
  <2> QED
    BY <1>1, <2>1 DEF AckInv, OrderOK, LogsOK, EntriesOK, LeaderOK
<1>3. LogOK(l, C)
  BY <1>2 DEF LogsOK
<1>4. /\ LogOK(longer, C) /\ Grown(l, longer)
      /\ LogOK(synced, C) /\ Grown(l, synced)
      /\ LogOK(Bad(l), C) /\ Grown(l, Bad(l))
      /\ LogOK(Bad(longer), C) /\ Grown(l, Bad(longer))
      /\ l.bad = 0 => \A k \in g : /\ Keeping(longer, k, FALSE)
                                   /\ \A s : Keeping(synced, k, s)
  BY <1>2, <1>3, LongerLog
<1> HIDE DEF l, C, longer, synced, Bad, sync
<1>5. PICK m : /\ SetLog(m) /\ LogOK(m, C) /\ Grown(l, m)
               /\ \/ Next_("insert", "ok") /\ m = IF sync THEN synced ELSE longer
                  \/ Next_("finish", "error") \/ Next_("finish", "sync_error")
  <2> HIDE DEF SetLog, Next_
  <2>1. CASE Next_("insert", "ok") /\ SetLog(IF sync THEN synced ELSE longer)
    BY <1>4, <2>1
  <2>2. CASE Next_("finish", "error") /\ (SetLog(Bad(l)) \/ SetLog(Bad(longer)))
    BY <1>4, <2>2
  <2>3. CASE Next_("finish", "sync_error") /\ SetLog(longer)
    BY <1>4, <2>3
  <2> QED
    BY <1>1, <2>1, <2>2, <2>3
<1>6. /\ files'.current = files.current /\ files'.manifests = files.manifests
      /\ files'.tables = files.tables /\ DOMAIN files'.logs = DOMAIN files.logs
      /\ files'.logs[db.mem] = m /\ \A n \in DOMAIN files.logs : n # db.mem => files'.logs[n] = files.logs[n]
  BY <1>2, <1>5 DEF FileFields
<1>7. /\ leader'.group = g /\ leader'.left = g
      /\ \/ leader'.pc = "insert" /\ m = IF sync THEN synced ELSE longer
         \/ leader'.pc = "finish" /\ leader'.status # "ok"
  BY <1>2, <1>5 DEF LeaderFields
<1> HIDE DEF SetLog, Next_
<1>8. LogsKept /\ LogsOK'
  <2>1. ASSUME NEW n \in DOMAIN files.logs
        PROVE  Grown(files.logs[n], files'.logs[n]) /\ LogOK(files'.logs[n], C)
    <3>1. CASE n = db.mem
      BY <1>5, <1>6, <3>1 DEF l
    <3>2. CASE n # db.mem
      BY <1>2, <1>6, <3>2, LogFacts DEF LogsOK, C
    <3> QED
      BY <3>1, <3>2
  <2> QED
    BY <1>1, <1>6, <2>1 DEF LogsKept, LogsOK, C
<1>9. StoreKept
  <2>1. TablesKept(InUse)
    BY <1>6 DEF TablesKept
  <2>2. Same(db, db') /\ db.next <= db'.next /\ unsure \subseteq unsure' /\ must' = must /\ mems' = mems
    BY <1>1, <1>2 DEF Same
  <2>3. \A n \in {db.mem, db.imm} \ {0} : n \in DOMAIN mems
    BY <1>2
  <2> QED
    BY <1>2, <1>6, <1>8, <2>1, <2>2, <2>3 DEF StoreKept, MemoryKept
<1>10. EntriesOK'
  BY <1>1, <1>2, <1>6, <1>7 DEF AckInv, EntriesOK, C
<1>11. JobOK'
  BY <1>1, <1>2, <1>6, <1>9, StoreJob
<1>12. LeaderOK'
  <2>1. CASE leader'.pc = "finish" /\ leader'.status # "ok"
    BY <2>1 DEF LeaderOK
  <2>2. CASE leader'.pc = "insert" /\ m = IF sync THEN synced ELSE longer
    <3>1. ASSUME NEW k \in g \ unsure' PROVE Kept(db.mem, k)'
      <4>1. l.bad = 0
        BY <1>1, <3>1
      <4>2. Keeping(m, k, calls[k].sync)
        <5>1. CASE sync
          BY <1>4, <2>2, <4>1, <5>1
        <5>2. CASE ~sync
          <6>1. Keeping(longer, k, FALSE) /\ m = longer /\ ~calls[k].sync
            BY <1>2, <1>4, <2>2, <4>1, <5>2
          <6> QED
            BY <6>1 DEF Keeping
        <5> QED
          BY <5>1, <5>2
      <4> QED
        BY <1>1, <1>6, <4>2 DEF Kept
    <3> QED
      BY <1>1, <1>2, <1>7, <2>2, <3>1 DEF LeaderOK
  <2> QED
    BY <1>7, <2>1, <2>2
<1>13. bg' = bg
  BY <1>1
<1> QED
  BY <1>2, <1>8, <1>9, <1>10, <1>11, <1>12, <1>13, StoreAck

\* InsertInto puts an entry of the log into the memtable.
LEMMA InsertAck == Inv /\ Inv' /\ AckInv /\ CallsKept /\ InsertInto => AckInv'
<1> SUFFICES ASSUME Inv, Inv', AckInv, CallsKept, InsertInto PROVE AckInv'
  OBVIOUS
<1> DEFINE k == Min(leader.left)
<1>1. /\ leader.pc = "insert"
      /\ mems' = [mems EXCEPT ![db.mem] = @ \cup {k}]
      /\ leader' = [leader EXCEPT !.left = @ \ {k}, !.pc = IF leader.left = {k} THEN "finish" ELSE "insert"]
      /\ UNCHANGED <<files, calls, writers, db, bg, must, unsure>>
  BY DEF InsertInto
<1>2. /\ Open /\ DOMAIN leader = LeaderFields /\ db.next \in Nat
      /\ DOMAIN calls \subseteq Nat
  <2>1. IsSeq(calls)
    BY DEF Inv, CallsOK
  <2>2. Len(calls) \in Nat /\ DOMAIN calls = 1..Len(calls)
    BY <2>1, AppendIs
  <2> QED
    BY <1>1, <2>2 DEF Inv, RecordsOK, QueueOK, NumbersOK
<1>3. /\ leader.left \subseteq leader.group /\ leader.group \subseteq DOMAIN calls /\ leader.left # {}
      /\ leader.group \ leader.left \subseteq mems[db.mem]
      /\ \A j \in leader.group \ unsure : Kept(db.mem, j)
      /\ db.mem # 0 /\ db.mem \in DOMAIN mems /\ 0 \notin DOMAIN mems
      /\ (db.imm # 0 => db.imm \in DOMAIN mems /\ db.imm # db.mem)
  BY <1>1, <1>2 DEF AckInv, OrderOK, EntriesOK, LeaderOK
<1>4. k \in leader.left
  BY <1>2, <1>3, MinIs
<1> HIDE DEF k
<1>5. /\ DOMAIN mems' = DOMAIN mems /\ mems'[db.mem] = mems[db.mem] \cup {k}
      /\ \A n \in DOMAIN mems : n # db.mem => mems'[n] = mems[n]
  BY <1>1, <1>3
<1>6. /\ leader'.left = leader.left \ {k} /\ leader'.group = leader.group
      /\ leader'.pc \in {"insert", "finish"} /\ (leader'.pc = "finish" <=> leader.left = {k})
  BY <1>1, <1>2 DEF LeaderFields
<1>7. LogsKept /\ LogsOK'
  BY <1>1, LogsSame DEF AckInv
<1>8. \A j \in leader.group \ unsure : Kept(db.mem, j)'
  <2>1. ASSUME NEW j, Kept(db.mem, j) PROVE Kept(db.mem, j)'
    BY <1>1, <2>1 DEF Kept
  <2> QED
    BY <1>3, <2>1
<1>9. StoreKept
  <2>1. TablesKept(InUse)
    BY <1>1 DEF TablesKept
  <2>2. Same(db, db') /\ db.next <= db'.next /\ unsure' = unsure /\ must' = must
    BY <1>1, <1>2 DEF Same
  <2>3. ASSUME NEW n \in {db.mem, db.imm} \ {0}
        PROVE  /\ n \in DOMAIN mems' /\ mems[n] \subseteq mems'[n]
               /\ \A j \in mems'[n] \ unsure' : j \in mems[n] \/ Kept(n, j)'
    <3>1. CASE n = db.mem
      <4>1. ASSUME NEW j \in mems'[n] \ unsure', j \notin mems[n] PROVE Kept(n, j)'
        <5>1. j = k /\ j \in leader.group \ unsure
          BY <1>3, <1>4, <1>5, <2>2, <3>1, <4>1
        <5>2. Kept(db.mem, j)'
          BY <1>8, <5>1
        <5> QED
          BY <1>1, <3>1, <5>2 DEF Kept
      <4> QED
        BY <1>3, <1>5, <3>1, <4>1
    <3>2. CASE n # db.mem
      BY <1>3, <1>5, <2>3, <3>2
    <3> QED
      BY <3>1, <3>2
  <2>4. files'.current = files.current /\ files'.manifests = files.manifests /\ files'.logs = files.logs
    BY <1>1
  <2> QED
    BY <1>3, <1>5, <1>7, <2>1, <2>2, <2>3, <2>4 DEF StoreKept, MemoryKept
<1>10. EntriesOK'
  <2>1. EntriesOK
    BY DEF AckInv
  <2>2. \A n \in DOMAIN mems' : mems'[n] \subseteq DOMAIN calls'
    BY <1>1, <1>3, <1>4, <1>5, <2>1 DEF EntriesOK
  <2> QED
    BY <1>1, <1>6, <2>1, <2>2 DEF EntriesOK
<1>11. JobOK'
  <2>1. db.imm # 0 => mems'[db.imm] = mems[db.imm]
    BY <1>3, <1>5
  <2> QED
    BY <1>1, <1>2, <1>9, <2>1, StoreJob
<1>12. LeaderOK'
  <2>1. leader'.pc = "insert" => leader'.left # {}
    BY <1>4, <1>6
  <2>2. leader'.pc = "finish" => leader'.left = {}
    BY <1>6
  <2>3. leader'.group \ leader'.left \subseteq mems'[db'.mem]
    BY <1>1, <1>3, <1>4, <1>5, <1>6
  <2>4. \A j \in leader'.group \ unsure' : Kept(db.mem, j)'
    BY <1>1, <1>6, <1>8
  <2> QED
    BY <1>1, <1>6, <2>1, <2>2, <2>3, <2>4 DEF LeaderOK
<1>13. bg' = bg
  BY <1>1
<1> QED
  BY <1>2, <1>7, <1>9, <1>10, <1>11, <1>12, <1>13, StoreAck

\* What the log of the memtable keeps stays kept.
LEMMA MemLogGrows ==
  ASSUME LogsOK, LogsKept, CallsKept, db'.mem = db.mem, db.mem \in DOMAIN files.logs,
         NEW k, Kept(db.mem, k)
  PROVE  Kept(db.mem, k)'
<1> DEFINE n == db.mem
<1> HIDE DEF n
<1>1. Kept(n, k)'
  BY LogsGrow DEF n
<1> QED
  BY <1>1 DEF n, Kept

\* The group is answered: what is promised is in the memtable and its log.
LEMMA FinishAck == Inv /\ Inv' /\ AckInv /\ CallsKept /\ FinishWrite => AckInv'
<1> SUFFICES ASSUME Inv, Inv', AckInv, CallsKept, FinishWrite PROVE AckInv'
  OBVIOUS
<1> DEFINE n == CHOOSE i \in DOMAIN writers : writers[i] = leader.last
           rest == SubSeq(writers, n + 1, Len(writers))
           d == [db EXCEPT !.last_sequence = AdvanceSequence(Cardinality(leader.group))]
<1>1. /\ leader.pc = "finish"
      /\ db' = IF leader.status = "sync_error" THEN RecordBackgroundError(d) ELSE d
      /\ writers' = rest
      /\ leader' = IF rest = <<>> THEN NoLeader ELSE Lead(rest[1], calls[rest[1]].null)
      /\ must' = must \/ (leader.status = "ok" /\ must' = must \cup leader.group)
      /\ UNCHANGED <<files, mems, bg, unsure>>
  BY DEF FinishWrite
<1>2. n \in 1..Len(writers) /\ writers \in Seq(Nat) /\ Len(writers) \in Nat
  <2>1. writers \in Seq(Nat) /\ \E i \in 1..Len(writers) : writers[i] = leader.last
    BY <1>1 DEF Inv, QueueOK
  <2>2. DOMAIN writers = 1..Len(writers) /\ Len(writers) \in Nat
    BY <2>1, LenProperties
  <2> QED
    BY <2>1, <2>2
<1> HIDE DEF n
<1>3. ASSUME NEW i \in 1..Len(rest) PROVE rest[i] \in DOMAIN calls
  <2>1. \A j \in (n + 1)..Len(writers) : writers[j] \in Nat
    BY <1>2, ElementOfSeq
  <2>2. /\ Len(rest) = IF n + 1 <= Len(writers) THEN Len(writers) - (n + 1) + 1 ELSE 0
        /\ \A j \in 1..(Len(writers) - (n + 1) + 1) : rest[j] = writers[(n + 1) + j - 1]
    BY <1>2, <2>1, SubSeqProperties
  <2> HIDE DEF rest
  <2>3. rest[i] = writers[n + i] /\ n + i \in 1..Len(writers)
    BY <1>2, <1>3, <2>2
  <2> QED
    BY <2>3 DEF AckInv, EntriesOK
<1> HIDE DEF rest
<1>4. Open /\ DOMAIN db = DBFields /\ db.next \in Nat
  BY <1>1 DEF Inv, QueueOK, RecordsOK, NumbersOK
<1>5. Same(db, db') /\ db'.next = db.next
  <2>1. Same(db, d) /\ d.next = db.next /\ DOMAIN d = DBFields
    BY <1>4 DEF Same, DBFields
  <2> HIDE DEF d
  <2>2. Same(d, RecordBackgroundError(d)) /\ RecordBackgroundError(d).next = d.next
    BY <2>1, ErrorSame
  <2> QED
    BY <1>1, <2>1, <2>2 DEF Same
<1> HIDE DEF d
<1>6. LogsOK /\ LogsKept /\ LogsOK'
  BY <1>1, LogsSame DEF AckInv
<1>7. /\ db.mem # 0 /\ db.mem \in DOMAIN mems /\ 0 \notin DOMAIN mems
      /\ db.mem \in DOMAIN files.logs /\ (db.imm # 0 => db.imm \in DOMAIN mems)
      /\ leader.group \subseteq DOMAIN calls
  BY <1>4 DEF AckInv, OrderOK, EntriesOK
<1>8. ASSUME leader.status = "ok", NEW k \in leader.group \ unsure
      PROVE  k \in mems[db.mem] /\ Kept(db.mem, k)'
  <2>1. k \in mems[db.mem] /\ Kept(db.mem, k)
    BY <1>1, <1>8 DEF AckInv, LeaderOK
  <2>2. db'.mem = db.mem
    BY <1>5 DEF Same
  <2> QED
    BY <1>6, <1>7, <2>1, <2>2, MemLogGrows
<1>9. StoreKept
  <2>1. TablesKept(InUse)
    BY <1>1 DEF TablesKept
  <2>2. ASSUME NEW k \in must' \ unsure'
        PROVE  k \in must \/ (k \in mems'[db'.mem] /\ Kept(db.mem, k)')
    <3>1. k \in must \/ (leader.status = "ok" /\ k \in leader.group \ unsure)
      BY <1>1, <2>2
    <3>2. db'.mem = db.mem /\ mems' = mems
      BY <1>1, <1>5 DEF Same
    <3> QED
      BY <1>8, <3>1, <3>2
  <2>3. \A m \in {db.mem, db.imm} \ {0} : m \in DOMAIN mems
    BY <1>7
  <2>4. db.next <= db'.next
    BY <1>4, <1>5
  <2> QED
    BY <1>1, <1>5, <1>6, <1>7, <2>1, <2>2, <2>3, <2>4 DEF StoreKept, MemoryKept
<1>10. leader'.group = {} /\ leader'.left = {} /\ leader'.status = "ok" /\ leader'.pc \in {"none", "room"}
  BY <1>1 DEF NoLeader, Lead
<1>11. EntriesOK'
  <2>1. DOMAIN calls \subseteq DOMAIN calls'
    BY DEF CallsKept
  <2>2. \A i \in 1..Len(writers') : writers'[i] \in DOMAIN calls'
    BY <1>1, <1>3, <2>1
  <2>3. must' \subseteq DOMAIN calls'
    BY <1>1, <1>7, <2>1 DEF AckInv, EntriesOK
  <2>4. /\ \A m \in DOMAIN mems' : mems'[m] \subseteq DOMAIN calls'
        /\ \A m \in DOMAIN files'.tables : files'.tables[m] \subseteq DOMAIN calls'
    BY <1>1, <2>1 DEF AckInv, EntriesOK
  <2> QED
    BY <1>10, <2>2, <2>3, <2>4 DEF EntriesOK
<1>12. JobOK'
  BY <1>1, <1>4, <1>9, StoreJob
<1>13. LeaderOK'
  BY <1>10 DEF LeaderOK
<1>14. bg' = bg
  BY <1>1
<1> QED
  BY <1>4, <1>6, <1>9, <1>11, <1>12, <1>13, <1>14, StoreAck

\* The records are fit for a restart as long as logs, tables and MANIFEST stay.
LEMMA LatestKept ==
  ASSUME Inv, Inv', AckInv, files'.current = files.current,
         files.current # 0 => files'.manifests[files.current] = files.manifests[files.current],
         LogsKept, TablesKept(InUse), CallsKept, must' \ unsure' \subseteq must \ unsure,
         db'.state # "closed" =>
           \/ db.state # "closed" /\ db.next <= db'.next
           \/ Current.recs[Len(Current.recs)].next <= db'.next /\ Current.recs[Len(Current.recs)].next \in Nat,
         Open' => Open /\ db.mem <= db'.mem,
         bg'.pc = "logging" => bg.pc = "logging" /\ bg'.edit.next = bg.edit.next
  PROVE  LatestOK'
<1> SUFFICES ASSUME files.current # 0 PROVE LatestOK'
  BY DEF LatestOK
<1> DEFINE m == Current
<1>1. Current' = m /\ files'.current # 0
  BY DEF Current
<1>2. LogsOK /\ db.next \in Nat /\ db'.next \in Nat
  BY DEF AckInv, Inv, NumbersOK
<1> SUFFICES ASSUME NEW i \in Latest(m)
             PROVE  LET r == m.recs[i] IN
                    /\ VersionOK(r, m.recs[Len(m.recs)].next)
                    /\ db'.state # "closed" => r.next <= db'.next
                    /\ Open' => r.log_number <= db'.mem
                    /\ bg'.pc = "logging" => r.next <= bg'.edit.next
                    /\ \A k \in must' \ unsure' : Found(k, Tables(r), r.log_number, files', calls')
  <2> HIDE DEF m
  <2> QED
    BY <1>1 DEF LatestOK, Latest, VersionOK, Tables, Due
<1> DEFINE r == m.recs[i]
           last == m.recs[Len(m.recs)].next
<1>3. /\ VersionOK(r, last)
      /\ db.state # "closed" => r.next <= db.next
      /\ Open => r.log_number <= db.mem
      /\ bg.pc = "logging" => r.next <= bg.edit.next
      /\ \A k \in Due : Found(k, Tables(r), r.log_number, files, calls)
  BY DEF AckInv, LatestOK
<1>4. TablesKept(Tables(r))
  BY DEF TablesKept, InUse
<1>5. db'.state # "closed" => (db.state # "closed" /\ db.next <= db'.next) \/ (last <= db'.next /\ last \in Nat)
  OBVIOUS
<1> HIDE DEF m, r, last
<1>6. r.next \in Nat /\ r.next <= last /\ r.log_number \in Nat
  BY <1>3 DEF VersionOK
<1>7. db'.state # "closed" => r.next <= db'.next
  <2> SUFFICES ASSUME db'.state # "closed" PROVE r.next <= db'.next
    OBVIOUS
  <2>1. CASE db.state # "closed" /\ db.next <= db'.next
    <3>1. r.next <= db.next
      BY <1>3, <2>1
    <3> QED
      BY <1>2, <1>6, <2>1, <3>1
  <2>2. CASE last <= db'.next /\ last \in Nat
    BY <1>2, <1>6, <2>2
  <2> QED
    BY <1>5, <2>1, <2>2
<1>8. Open' => r.log_number <= db'.mem
  <2> SUFFICES ASSUME Open' PROVE r.log_number <= db'.mem
    OBVIOUS
  <2>1. db.mem \in Nat /\ db'.mem \in Nat /\ db.mem <= db'.mem /\ r.log_number <= db.mem
    BY <1>3 DEF Inv, NumbersOK
  <2> QED
    BY <1>6, <2>1
<1>9. bg'.pc = "logging" => r.next <= bg'.edit.next
  BY <1>3
<1>10. ASSUME NEW k \in must' \ unsure' PROVE Found(k, Tables(r), r.log_number, files', calls')
  BY <1>2, <1>3, <1>4, FoundKept DEF Due
<1> QED
  BY <1>3, <1>7, <1>8, <1>9, <1>10 DEF r, last

\* A new memtable and its log.
LEMMA SwitchAck == Inv /\ Inv' /\ AckInv /\ CallsKept /\ RoomSwitch => AckInv'
<1> SUFFICES ASSUME Inv, Inv', AckInv, CallsKept, RoomSwitch PROVE AckInv'
  OBVIOUS
<1>1. /\ leader.pc = "room" /\ db.imm = 0 /\ UNCHANGED <<calls, writers, bg, must, unsure>>
  BY DEF RoomSwitch, NoRoom, Room, MustWait, RoomUnchanged
<1>2. Open /\ DOMAIN db = DBFields /\ DOMAIN leader = LeaderFields /\ DOMAIN files = FileFields
      /\ db.next \in Nat /\ db.mem \in Nat /\ db.mem < db.next
  BY <1>1 DEF Inv, QueueOK, RecordsOK, NumbersOK, Open
<1>3. leader.group = {} /\ leader.left = {} /\ leader.status = "ok"
  BY <1>1 DEF AckInv, LeaderOK
<1>4. CASE /\ leader' = [leader EXCEPT !.pc = "finish", !.status = "error", !.last = leader.call]
           /\ UNCHANGED <<files, mems, db>>
  <2>1. leader'.pc = "finish" /\ leader'.group = {} /\ leader'.left = {} /\ leader'.status = "error"
    BY <1>2, <1>3, <1>4 DEF LeaderFields
  <2>2. LeaderOK'
    BY <2>1 DEF LeaderOK
  <2>3. EntriesOK'
    BY <1>1, <1>4, <2>1, LeaderEntries
  <2>4. Quiet
    BY <1>1, <1>2, <1>4, UnchangedQuiet
  <2> QED
    BY <1>1, <2>2, <2>3, <2>4, QuietAck
<1>5. CASE /\ files' = [files EXCEPT !.logs = With(@, db.next, NewLog)]
           /\ mems' = With(mems, db.next, {})
           /\ db' = MaybeScheduleCompaction([db EXCEPT !.next = NewFileNumber(@), !.mem = db.next, !.imm = db.mem])
           /\ leader' = [leader EXCEPT !.force = FALSE]
  <2> DEFINE d == [db EXCEPT !.next = NewFileNumber(@), !.mem = db.next, !.imm = db.mem]
  <2>1. /\ DOMAIN d = DBFields /\ d.next = db.next + 1 /\ d.mem = db.next /\ d.imm = db.mem
        /\ d.l0 = db.l0 /\ d.deep = db.deep /\ d.log_number = db.log_number /\ d.state = db.state
        /\ d.manifest = db.manifest
    BY <1>2 DEF DBFields, NewFileNumber
  <2>2. db' = MaybeScheduleCompaction(d)
    BY <1>5
  <2> HIDE DEF d
  <2>3. Same(d, db') /\ db'.next = d.next
    BY <2>1, <2>2, ScheduleSame
  <2>4. /\ db'.next = db.next + 1 /\ db'.mem = db.next /\ db'.imm = db.mem
        /\ db'.l0 = db.l0 /\ db'.deep = db.deep /\ db'.log_number = db.log_number
        /\ db'.state = db.state
    BY <2>1, <2>3 DEF Same
  <2>5. Open'
    BY <1>2, <2>4 DEF Open
  <2>6. /\ files'.current = files.current /\ files'.manifests = files.manifests
        /\ files'.tables = files.tables
        /\ files'.logs = With(files.logs, db.next, NewLog)
    BY <1>2, <1>5 DEF FileFields
  <2>7. /\ leader'.pc = "room" /\ leader'.group = {} /\ leader'.left = {} /\ leader'.status = "ok"
    BY <1>1, <1>2, <1>3, <1>5 DEF LeaderFields
  <2>8. /\ db.log_number \in Nat /\ db.log_number <= db.mem /\ db.mem # 0
        /\ db.mem \in DOMAIN mems /\ db.mem \in DOMAIN files.logs /\ 0 \notin DOMAIN mems
        /\ \A n \in db.l0 \cup db.deep : n \in Nat /\ n < db.next
        /\ \A n \in DOMAIN files.logs : n < db.next
    BY <1>2 DEF AckInv, OrderOK, Open
  <2>9. DOMAIN files.logs \subseteq Nat
    BY DEF Inv, NumbersOK
  <2>10. db.next \notin DOMAIN files.logs
    BY <1>2, <2>8, <2>9
  <2>11. /\ DOMAIN files'.logs = DOMAIN files.logs \cup {db.next}
         /\ files'.logs[db.next] = NewLog
         /\ \A n \in DOMAIN files.logs : files'.logs[n] = files.logs[n]
    BY <2>6, <2>10 DEF With
  <2>12. /\ DOMAIN mems' = DOMAIN mems \cup {db.next} /\ mems'[db.next] = {}
         /\ mems'[db.mem] = mems[db.mem] /\ \A n \in DOMAIN mems : mems'[n] = mems[n] \/ mems'[n] = {}
    <3>1. db.mem # db.next
      BY <1>2
    <3> QED
      BY <1>5, <2>8, <3>1 DEF With
  <2>13. LogsKept /\ LogsOK'
    <3>1. LogOK(NewLog, DOMAIN calls')
      <4>1. NewLog.recs = <<>> /\ Len(<<>>) = 0 /\ NewLog.synced = 0 /\ NewLog.bad = 0
            /\ DOMAIN NewLog = {"recs", "synced", "bad"}
        BY EmptySeq DEF NewLog
      <4>2. IsSeq(<<>>)
        BY EmptySeq DEF IsSeq
      <4> HIDE DEF NewLog
      <4> QED
        BY <4>1, <4>2 DEF LogOK
    <3>2. ASSUME NEW n \in DOMAIN files.logs
          PROVE  Grown(files.logs[n], files'.logs[n]) /\ LogOK(files'.logs[n], DOMAIN calls')
      BY <1>1, <2>11, LogFacts DEF AckInv, LogsOK
    <3> QED
      BY <2>11, <3>1, <3>2 DEF LogsKept, LogsOK
  <2>14. EntriesOK'
    BY <1>1, <2>6, <2>7, <2>12 DEF AckInv, EntriesOK
  <2>15. OrderOK'
    <3>1. /\ db.log_number <= db.next /\ db.next # 0 /\ db.mem # db.next
          /\ \A n \in Nat : n < db.next => n < db.next + 1
          /\ db.next < db.next + 1
      BY <1>2, <2>8
    <3>2. opening'.pc = "none"
      BY <2>5, OpenFacts DEF Inv, ControlOK, Open
    <3>3. 0 \notin DOMAIN mems'
      BY <2>8, <2>12, <3>1
    <3>4. \A n \in DOMAIN files'.logs : n < db'.next
      BY <2>4, <2>8, <2>9, <2>11, <3>1
    <3>5. \A n \in db'.l0 \cup db'.deep : n \in Nat /\ n < db'.next
      BY <2>4, <2>8, <3>1
    <3> QED
      BY <2>4, <2>8, <2>11, <2>12, <3>1, <3>2, <3>3, <3>4, <3>5 DEF OrderOK
  <2>16. LatestOK'
    <3>1. TablesKept(InUse)
      BY <2>6 DEF TablesKept
    <3>2. db.mem <= db'.mem /\ db.next <= db'.next
      BY <1>2, <2>4
    <3>3. db.state # "closed"
      BY <1>2 DEF Open
    <3> QED
      BY <1>1, <1>2, <2>6, <2>13, <3>1, <3>2, <3>3, LatestKept
  <2>17. InUse' = InUse
    BY <2>4, <2>6 DEF InUse, Current, Latest, Tables
  <2>18. JobOK'
    <3>1. /\ bg.pc # "building" /\ (bg.out # 0 => bg.out \notin InUse)
          /\ bg.pc = "working" => bg.job = "compact"
      BY <1>1 DEF AckInv, JobOK
    <3>2. CASE bg.pc # "logging"
      BY <1>1, <2>17, <3>1, <3>2 DEF JobOK
    <3>3. CASE bg.pc = "logging"
      <4>1. /\ VersionOK(bg.edit, db.next) /\ bg.job \notin {"mem", "both"}
            /\ Stored(db.l0 \cup db.deep) \subseteq Stored(Tables(bg.edit))
            /\ bg.edit.log_number = db.log_number
        BY <1>1, <3>3 DEF AckInv, JobOK
      <4>2. VersionOK(bg.edit, db'.next)
        <5>1. bg.edit.next \in Nat /\ bg.edit.next <= db.next
          BY <4>1 DEF VersionOK
        <5>2. bg.edit.next <= db'.next
          BY <1>2, <2>4, <5>1
        <5> QED
          BY <4>1, <5>2 DEF VersionOK
      <4>3. /\ Stored(Tables(bg.edit))' = Stored(Tables(bg.edit))
            /\ Stored(db.l0 \cup db.deep)' = Stored(db.l0 \cup db.deep)
        BY <1>1, <2>4, <2>6 DEF Stored, Tables
      <4>4. VersionOK(bg.edit, db.next)'
        BY <1>1, <4>2 DEF VersionOK, Tables
      <4> QED
        BY <1>1, <2>4, <2>17, <3>1, <3>3, <4>1, <4>3, <4>4 DEF JobOK, Tables
    <3> QED
      BY <3>2, <3>3
  <2>19. LeaderOK'
    BY <2>7 DEF LeaderOK
  <2>20. MemsKept'
    <3>1. ASSUME NEW k \in mems[db.mem] \ unsure PROVE Keeping(files'.logs[db.mem], k, calls'[k].sync)
      <4>1. Kept(db.mem, k)
        BY <1>2, <2>8, <3>1 DEF AckInv, MemsKept
      <4> QED
        BY <1>1, <2>8, <2>11, <4>1 DEF Kept
    <3> QED
      BY <1>1, <2>4, <2>12, <3>1 DEF MemsKept, Kept
  <2>21. AcknowledgedSurvives'
    <3>1. must \ unsure \subseteq mems[db.mem] \cup Stored(db.l0 \cup db.deep)
      BY <1>1, <1>2, <2>8 DEF AckInv, AcknowledgedSurvives, Contents, Mem
    <3>2. Stored(db.l0 \cup db.deep)' = Stored(db.l0 \cup db.deep)
      BY <2>4, <2>6 DEF Stored
    <3>3. mems[db.mem] \subseteq Contents' /\ Stored(db.l0 \cup db.deep) \subseteq Contents'
      BY <2>4, <2>8, <2>12, <3>2 DEF Contents, Mem
    <3> QED
      BY <1>1, <3>1, <3>3 DEF AcknowledgedSurvives
  <2>22. RecoveryOK'
    <3>1. opening'.pc = "none"
      BY <2>5, OpenFacts DEF Inv, ControlOK, Open
    <3> QED
      BY <3>1 DEF RecoveryOK
  <2> QED
    BY <2>13, <2>14, <2>15, <2>16, <2>18, <2>19, <2>20, <2>21, <2>22 DEF AckInv
<1> QED
  BY <1>4, <1>5 DEF RoomSwitch

-----------------------------------------------------------------------------
(* The background thread. *)

\* A round that ends, or goes back to the compaction, with nothing installed.
LEMMA RoundEnds ==
  ASSUME Inv, Inv', AckInv, CallsKept, BGUnchanged, Open, UNCHANGED <<files, mems>>,
         Same(db, db'), db.next <= db'.next,
         bg' = bg \/ Ended(bg') \/ (bg'.pc = "working" /\ bg'.job = "compact" /\ bg'.out = bg.out)
  PROVE  AckInv'
<1>1. Quiet
  BY DEF Quiet, BGUnchanged
<1>2. StoreKept
  BY <1>1, QuietIs
<1>3. InUse' = InUse
  BY <1>2, StoreInUse
<1>4. JobOK' \/ bg' = bg
  <2>1. CASE bg'.pc = "working" /\ bg'.job = "compact" /\ bg'.out = bg.out
    BY <1>3, <2>1 DEF AckInv, JobOK
  <2> QED
    BY <2>1, IdleJob
<1>5. bg'.pc = "logging" => bg.pc = "logging" /\ bg'.edit.next = bg.edit.next
  BY IdleJob
<1>6. UNCHANGED <<leader, writers>>
  BY DEF BGUnchanged
<1> QED
  BY <1>1, <1>4, <1>5, <1>6, QuietAck

\* BackgroundCall has nothing to do.
LEMMA NothingAck == Inv /\ Inv' /\ AckInv /\ CallsKept /\ BackgroundNothing => AckInv'
<1> SUFFICES ASSUME Inv, Inv', AckInv, CallsKept, BackgroundNothing PROVE AckInv'
  OBVIOUS
<1>1. Open /\ DOMAIN db = DBFields /\ db.next \in Nat /\ BGUnchanged /\ UNCHANGED <<files, mems>>
  BY DEF BackgroundNothing, Called, Inv, ControlOK, RecordsOK, NumbersOK
<1>2. Same(db, db') /\ db'.next = db.next /\ (bg' = bg \/ Ended(bg'))
  <2>1. CASE BackgroundDone(db, db.manual, TRUE)
    BY <1>1, <2>1, BackgroundDoneSame
  <2>2. CASE db' = MaybeScheduleCompaction([db EXCEPT !.scheduled = FALSE]) /\ bg' = bg
    <3> DEFINE d == [db EXCEPT !.scheduled = FALSE]
    <3>1. DOMAIN d = DBFields /\ Same(db, d) /\ d.next = db.next
      BY <1>1 DEF DBFields, Same
    <3> HIDE DEF d
    <3>2. Same(d, db') /\ db'.next = d.next
      BY <2>2, <3>1, ScheduleSame DEF d
    <3> QED
      BY <2>2, <3>1, <3>2 DEF Same
  <2> QED
    BY <2>1, <2>2 DEF BackgroundNothing
<1>3. db.next <= db'.next
  BY <1>1, <1>2
<1> QED
  BY <1>1, <1>2, <1>3, RoundEnds

\* CompactMemTable takes a number for its table.
LEMMA CompactMemAck == Inv /\ Inv' /\ AckInv /\ CallsKept /\ CompactMemTable => AckInv'
<1> SUFFICES ASSUME Inv, Inv', AckInv, CallsKept, CompactMemTable PROVE AckInv'
  OBVIOUS
<1>1. /\ Open /\ DOMAIN db = DBFields /\ DOMAIN bg = BGFields /\ db.next \in Nat /\ db.imm # 0
      /\ BGUnchanged /\ UNCHANGED <<files, mems>>
  BY DEF CompactMemTable, Works, Called, Inv, ControlOK, RecordsOK, NumbersOK
<1>2. Same(db, db') /\ db'.next = db.next + 1
  BY <1>1 DEF CompactMemTable, Same, DBFields, NewFileNumber
<1>3. /\ bg'.pc = "building" /\ bg'.table = db.next /\ bg'.job \in {"mem", "both"} /\ bg'.out = bg.out
  BY <1>1 DEF CompactMemTable, BGFields
<1>4. Quiet
  BY <1>1, <1>2 DEF Quiet, BGUnchanged
<1>5. InUse' = InUse /\ db.next \notin InUse
  <2>1. StoreKept
    BY <1>4, QuietIs
  <2> QED
    BY <1>1, <2>1, StoreInUse
<1>6. db'.imm # 0 /\ bg'.table < db'.next /\ bg'.table \in Nat
  BY <1>1, <1>2, <1>3 DEF Same
<1>7. JobOK'
  BY <1>3, <1>5, <1>6 DEF AckInv, JobOK
<1>8. UNCHANGED <<leader, writers>>
  BY <1>1 DEF BGUnchanged
<1> QED
  BY <1>3, <1>4, <1>7, <1>8, QuietAck

\* A compaction picks its inputs, or moves a file.
LEMMA StartAck == Inv /\ Inv' /\ AckInv /\ CallsKept /\ StartCompaction => AckInv'
<1> SUFFICES ASSUME Inv, Inv', AckInv, CallsKept, StartCompaction PROVE AckInv'
  OBVIOUS
<1> DEFINE seek == ~db.manual /\ Cardinality(db.l0) < kL0_CompactionTrigger
           in0 == IF seek THEN {} ELSE db.l0
<1>1. /\ Open /\ DOMAIN bg = BGFields /\ bg.pc = "idle" /\ bg.out = 0 /\ db.next \in Nat
      /\ BGUnchanged /\ UNCHANGED <<files, mems, db>>
  BY DEF StartCompaction, Works, Called, Inv, ControlOK, RecordsOK, NumbersOK
<1>2. Quiet
  BY <1>1, UnchangedQuiet DEF BGUnchanged
<1>3. \/ /\ Cardinality(in0) = 1
         /\ bg' = [bg EXCEPT !.pc = "logging", !.job = "move", !.base = db.l0 \cup db.deep,
                             !.edit = State({}, db.deep \cup in0, db.log_number, db.next,
                                            db.last_sequence)]
      \/ \E in1 : bg' = [bg EXCEPT !.pc = "working", !.job = "compact",
                                   !.base = db.l0 \cup db.deep, !.in0 = in0, !.in1 = in1,
                                   !.is_manual = db.manual]
  <2> DEFINE S == IF seek THEN {{n} : n \in db.deep} ELSE {{}, db.deep}
  <2>1. \E in1 \in S :
          bg' = IF ~db.manual /\ Cardinality(in0) = 1 /\ in1 = {}
                  THEN [bg EXCEPT !.pc = "logging", !.job = "move", !.base = db.l0 \cup db.deep,
                                  !.edit = State({}, db.deep \cup in0, db.log_number, db.next,
                                                 db.last_sequence)]
                  ELSE [bg EXCEPT !.pc = "working", !.job = "compact",
                                  !.base = db.l0 \cup db.deep, !.in0 = in0, !.in1 = in1,
                                  !.is_manual = db.manual]
    BY DEF StartCompaction
  <2> HIDE DEF in0, S
  <2> QED
    BY <2>1
<1> HIDE DEF in0
<1>4. UNCHANGED <<leader, writers>>
  BY <1>1 DEF BGUnchanged
<1>5. CASE \E in1 : bg' = [bg EXCEPT !.pc = "working", !.job = "compact",
                                    !.base = db.l0 \cup db.deep, !.in0 = in0, !.in1 = in1,
                                    !.is_manual = db.manual]
  <2>1. bg'.pc = "working" /\ bg'.job = "compact" /\ bg'.out = 0
    BY <1>1, <1>5 DEF BGFields
  <2>2. JobOK'
    BY <2>1 DEF JobOK
  <2> QED
    BY <1>2, <1>4, <2>1, <2>2, QuietAck
<1>6. CASE /\ Cardinality(in0) = 1
           /\ bg' = [bg EXCEPT !.pc = "logging", !.job = "move", !.base = db.l0 \cup db.deep,
                             !.edit = State({}, db.deep \cup in0, db.log_number, db.next,
                                            db.last_sequence)]
  <2> DEFINE edit == State({}, db.deep \cup in0, db.log_number, db.next, db.last_sequence)
  <2>1. bg'.pc = "logging" /\ bg'.job = "move" /\ bg'.out = 0 /\ bg'.edit = edit
    BY <1>1, <1>6 DEF BGFields
  <2>2. Cardinality({}) = 0
    BY FS_EmptySet
  <2>3. in0 = db.l0
    <3>1. CASE seek
      BY <1>6, <2>2, <3>1 DEF in0
    <3> QED
      BY <3>1 DEF in0
  <2>4. Tables(edit) = db.l0 \cup db.deep /\ edit.next = db.next /\ edit.log_number = db.log_number
    BY <2>3 DEF Tables, State
  <2> HIDE DEF edit
  <2>5. db.log_number \in Nat /\ db.log_number <= db.next
    <3>1. db.log_number \in Nat /\ db.log_number <= db.mem /\ db.mem \in Nat /\ db.mem < db.next
      BY <1>1 DEF AckInv, OrderOK, Inv, NumbersOK
    <3> QED
      BY <1>1, <3>1
  <2>6. VersionOK(bg'.edit, db'.next)
    <3>1. \A t \in db.l0 \cup db.deep : t \in Nat /\ t < db.next
      BY <1>1 DEF AckInv, OrderOK, Open
    <3> QED
      BY <1>1, <2>1, <2>4, <2>5, <3>1 DEF VersionOK
  <2>7. Tables(bg'.edit) = db'.l0 \cup db'.deep
    BY <1>1, <2>1, <2>4
  <2>8. JobOK'
    BY <1>1, <2>1, <2>4, <2>6, <2>7 DEF JobOK, VersionOK, Tables, Stored
  <2>9. bg'.edit.next = db.next
    BY <2>1, <2>4
  <2> QED
    BY <1>2, <1>4, <2>8, <2>9, QuietAck
<1> QED
  BY <1>3, <1>5, <1>6

\* A step of the background thread that writes no table in use and installs
\* nothing yet keeps the invariant, if what it is about to install is right.
LEMMA TableAck ==
  ASSUME Inv, Inv', AckInv, CallsKept, BGUnchanged, Open, UNCHANGED mems,
         Same(db, db'), db.next <= db'.next,
         files'.logs = files.logs, files'.current = files.current,
         files'.manifests = files.manifests, TablesKept(InUse),
         \A n \in DOMAIN files'.tables : files'.tables[n] \subseteq DOMAIN calls,
         StoreKept /\ InUse' = InUse => JobOK',
         bg'.pc = "logging" => bg'.edit.next = db.next
  PROVE  AckInv'
<1>1. LogsKept /\ LogsOK'
  BY LogsSame DEF AckInv
<1>2. /\ 0 \notin DOMAIN mems /\ db.mem \in DOMAIN mems /\ (db.imm # 0 => db.imm \in DOMAIN mems)
  BY DEF AckInv, OrderOK
<1>3. UNCHANGED <<calls, writers, leader, must, unsure>>
  BY DEF BGUnchanged
<1>4. StoreKept
  <2>1. \A n \in {db.mem, db.imm} \ {0} : n \in DOMAIN mems
    BY <1>2
  <2> QED
    BY <1>1, <1>2, <1>3, <2>1 DEF StoreKept, MemoryKept
<1>5. InUse' = InUse
  BY <1>4, StoreInUse
<1>6. JobOK'
  BY <1>4, <1>5
<1>7. EntriesOK'
  BY <1>3 DEF AckInv, EntriesOK
<1>8. LeaderOK'
  BY <1>3, <1>4, StoreLeader DEF StoreKept
<1> QED
  BY <1>1, <1>4, <1>6, <1>7, <1>8, StoreAck

\* The memtable is written to a table.
LEMMA WriteTableAck == Inv /\ Inv' /\ AckInv /\ CallsKept /\ WriteLevel0Table => AckInv'
<1> SUFFICES ASSUME Inv, Inv', AckInv, CallsKept, WriteLevel0Table PROVE AckInv'
  OBVIOUS
<1> DEFINE d == [db EXCEPT !.pending_outputs = @ \ {bg.table}]
           e == RecordBackgroundError(d)
           t == bg.table
           n == IF mems[db.imm] = {} THEN {} ELSE {t}
<1>1. bg.pc = "building" /\ BGUnchanged /\ UNCHANGED mems
  BY DEF WriteLevel0Table
<1>2. /\ Open /\ DOMAIN db = DBFields /\ DOMAIN bg = BGFields /\ DOMAIN files = FileFields
      /\ db.next \in Nat /\ db.mem \in Nat /\ db.mem < db.next
      /\ t # bg.out
  BY <1>1 DEF Inv, ControlOK, RecordsOK, NumbersOK
<1>3. /\ bg.job \in {"mem", "both"} /\ db.imm # 0 /\ t \in Nat /\ t < db.next /\ t \notin InUse
      /\ bg.out # 0 => bg.out \notin InUse
  BY <1>1 DEF AckInv, JobOK
<1>4. db.imm \in DOMAIN mems /\ \A m \in db.l0 \cup db.deep : m \in Nat /\ m < db.next
  BY <1>2, <1>3 DEF AckInv, OrderOK, Open
<1>5. DOMAIN d = DBFields /\ Same(db, d) /\ d.next = db.next /\ d.l0 = db.l0 /\ d.deep = db.deep
  BY <1>2 DEF DBFields, Same
<1>6. Same(db, e) /\ e.next = db.next /\ DOMAIN e = DBFields
  <2> HIDE DEF d
  <2> QED
    BY <1>5, ErrorSame DEF Same
<1>7. \/ /\ files' = IF n = {} THEN files ELSE [files EXCEPT !.tables = With(@, t, mems[db.imm])]
         /\ \/ MemTableDone(e)
            \/ /\ db' = d
               /\ \E l0, deep :
                    /\ bg' = [bg EXCEPT !.pc = "logging",
                                        !.edit = State(l0, deep, db.mem, d.next, d.last_sequence)]
                    /\ l0 \cup deep = db.l0 \cup db.deep \cup n
      \/ MemTableDone(e) /\ UNCHANGED files
  <2> DEFINE Edit(deep) ==
               bg' = [bg EXCEPT !.pc = "logging",
                        !.edit = State(IF deep THEN d.l0 ELSE d.l0 \cup n,
                                       IF deep THEN d.deep \cup n ELSE d.deep,
                                       db.mem, d.next, d.last_sequence)]
             Files == files' = IF n = {} THEN files ELSE [files EXCEPT !.tables = With(@, t, mems[db.imm])]
  <2>1. \/ /\ Files
           /\ MemTableDone(e) \/ (db' = d /\ \E deep \in {FALSE, db.l0 = {}} : Edit(deep))
        \/ MemTableDone(e) /\ UNCHANGED files
    BY Zenon DEF WriteLevel0Table
  <2>2. ASSUME NEW deep, Edit(deep)
        PROVE  \E l0, dp :
                  /\ bg' = [bg EXCEPT !.pc = "logging",
                                      !.edit = State(l0, dp, db.mem, d.next, d.last_sequence)]
                  /\ l0 \cup dp = db.l0 \cup db.deep \cup n
    <3> DEFINE l0 == IF deep THEN d.l0 ELSE d.l0 \cup n
               dp == IF deep THEN d.deep \cup n ELSE d.deep
    <3>1. bg' = [bg EXCEPT !.pc = "logging",
                           !.edit = State(l0, dp, db.mem, d.next, d.last_sequence)]
      BY <2>2
    <3>2. l0 \cup dp = db.l0 \cup db.deep \cup n
      <4> HIDE DEF n, d
      <4> QED
        BY <1>5
    <3> HIDE DEF l0, dp, n, d
    <3> QED
      BY <3>1, <3>2
  <2> HIDE DEF Edit, n, d, e
  <2> QED
    BY <2>1, <2>2
<1>8. n \subseteq {t} /\ (n = {} => mems[db.imm] = {}) /\ (n # {} => n = {t})
  OBVIOUS
<1> HIDE DEF d, e, n
<1>9. /\ files'.logs = files.logs /\ files'.current = files.current /\ files'.manifests = files.manifests
      /\ \A m \in DOMAIN files.tables : m \in DOMAIN files'.tables /\ (m # t => files'.tables[m] = files.tables[m])
      /\ \A m \in DOMAIN files'.tables :
           \/ m \in DOMAIN files.tables /\ files'.tables[m] = files.tables[m]
           \/ files'.tables[m] = mems[db.imm]
  <2>1. files' = files \/ files' = [files EXCEPT !.tables = With(@, t, mems[db.imm])]
    BY <1>7
  <2>2. CASE files' = files
    BY <2>2
  <2>3. CASE files' = [files EXCEPT !.tables = With(@, t, mems[db.imm])]
    <3>1. /\ files'.logs = files.logs /\ files'.current = files.current /\ files'.manifests = files.manifests
          /\ files'.tables = With(files.tables, t, mems[db.imm])
      BY <1>2, <2>3 DEF FileFields
    <3> QED
      BY <3>1 DEF With
  <2> QED
    BY <2>1, <2>2, <2>3
<1>10. TablesKept(InUse)
  BY <1>3, <1>9 DEF TablesKept
<1>11. \A m \in DOMAIN files'.tables : files'.tables[m] \subseteq DOMAIN calls
  BY <1>4, <1>9 DEF AckInv, EntriesOK
<1>12. CASE MemTableDone(e)
  <2>1. /\ Same(e, db') /\ db'.next = e.next
        /\ Ended(bg') \/ (bg'.pc = "working" /\ bg'.job = "compact" /\ bg'.out = bg.out)
    BY <1>2, <1>6, <1>12, MemTableDoneSame DEF GoesOn
  <2>2. Same(db, db') /\ db.next <= db'.next
    BY <1>2, <1>6, <2>1 DEF Same
  <2>3. InUse' = InUse => JobOK'
    <3>1. CASE bg'.pc = "working" /\ bg'.job = "compact" /\ bg'.out = bg.out
      BY <1>3, <3>1 DEF JobOK
    <3> QED
      BY <2>1, <3>1, IdleJob
  <2>4. bg'.pc # "logging"
    BY <2>1, IdleJob
  <2> QED
    BY <1>1, <1>2, <1>9, <1>10, <1>11, <2>2, <2>3, <2>4, TableAck
<1>13. CASE /\ files' = IF n = {} THEN files ELSE [files EXCEPT !.tables = With(@, t, mems[db.imm])]
            /\ db' = d
            /\ \E l0, deep :
                 /\ bg' = [bg EXCEPT !.pc = "logging",
                                     !.edit = State(l0, deep, db.mem, d.next, d.last_sequence)]
                 /\ l0 \cup deep = db.l0 \cup db.deep \cup n
  <2>1. PICK l0, deep :
          /\ bg' = [bg EXCEPT !.pc = "logging",
                              !.edit = State(l0, deep, db.mem, d.next, d.last_sequence)]
          /\ l0 \cup deep = db.l0 \cup db.deep \cup n
    BY <1>13
  <2> DEFINE edit == State(l0, deep, db.mem, d.next, d.last_sequence)
  <2>2. bg'.pc = "logging" /\ bg'.job = bg.job /\ bg'.out = bg.out /\ bg'.edit = edit
    BY <1>2, <2>1 DEF BGFields
  <2>3. Tables(edit) = db.l0 \cup db.deep \cup n /\ edit.next = db.next /\ edit.log_number = db.mem
    BY <1>5, <2>1 DEF Tables, State
  <2> HIDE DEF edit
  <2>4. Same(db, db') /\ db'.next = db.next /\ db.next <= db'.next
    BY <1>2, <1>5, <1>13
  <2>5. VersionOK(bg'.edit, db'.next)
    <3>1. \A m \in Tables(edit) : m \in Nat /\ m < db.next
      BY <1>3, <1>4, <1>8, <2>3
    <3>2. db.mem <= db.next /\ db.next <= db.next
      BY <1>2
    <3> QED
      BY <1>2, <2>2, <2>3, <2>4, <3>1, <3>2 DEF VersionOK
  <2>6. Tables(bg'.edit) = db'.l0 \cup db'.deep \cup n
    BY <2>2, <2>3, <2>4 DEF Same
  <2>7. mems'[db'.imm] \subseteq UNION {files'.tables[m] : m \in Tables(bg'.edit) \cap DOMAIN files'.tables}
    <3>1. CASE n = {}
      BY <1>1, <1>8, <2>4, <3>1 DEF Same
    <3>2. CASE n # {}
      <4>1. files'.tables = With(files.tables, t, mems[db.imm])
        BY <1>2, <1>13, <3>2 DEF FileFields
      <4>2. t \in DOMAIN files'.tables /\ files'.tables[t] = mems[db.imm]
        BY <4>1 DEF With
      <4>3. t \in Tables(bg'.edit)
        BY <1>8, <2>6, <3>2
      <4> QED
        BY <1>1, <2>4, <4>2, <4>3 DEF Same
    <3> QED
      BY <3>1, <3>2
  <2>8. bg'.out # 0 => bg'.out \notin Tables(bg'.edit)
    <3>1. bg.out # 0 => bg.out \notin db.l0 \cup db.deep
      BY <1>3 DEF InUse
    <3> QED
      BY <1>2, <1>8, <2>2, <2>3, <3>1
  <2>9. InUse' = InUse => JobOK'
    <3> SUFFICES ASSUME InUse' = InUse PROVE JobOK'
      OBVIOUS
    <3>1. VersionOK(bg.edit, db.next)'
      BY <2>5 DEF VersionOK, Tables
    <3>2. Stored(Tables(bg.edit))' = UNION {files'.tables[m] : m \in Tables(bg'.edit) \cap DOMAIN files'.tables}
      BY DEF Stored, Tables
    <3>3. Stored(db.l0 \cup db.deep)' \subseteq Stored(Tables(bg.edit))'
      BY <2>6, <3>2 DEF Stored
    <3>4. mems'[db'.imm] \subseteq Stored(Tables(bg.edit))'
      BY <2>7, <3>2
    <3>5. (bg.out # 0 => bg.out \notin Tables(bg.edit))'
      BY <2>8 DEF Tables
    <3>6. db'.imm # 0 /\ bg'.edit.log_number = db'.mem /\ bg'.job \in {"mem", "both"}
      BY <1>3, <2>2, <2>3, <2>4 DEF Same
    <3>7. bg'.out # 0 => bg'.out \notin InUse'
      BY <1>3, <2>2
    <3> QED
      BY <2>2, <3>1, <3>3, <3>4, <3>5, <3>6, <3>7 DEF JobOK
  <2>10. bg'.edit.next = db.next
    BY <2>2, <2>3
  <2> QED
    BY <1>1, <1>2, <1>9, <1>10, <1>11, <2>4, <2>9, <2>10, TableAck
<1> QED
  BY <1>7, <1>12, <1>13

\* The end of a compaction that failed: no file is deleted.
LEMMA EndsSame ==
  ASSUME NEW f, NEW d, DOMAIN d = DBFields, CompactionEnds(f, d, FALSE)
  PROVE  /\ Same(d, db') /\ db'.next = d.next /\ Ended(bg') /\ files' = f
         /\ db'.last_sequence = d.last_sequence
<1> DEFINE e == [d EXCEPT !.pending_outputs = @ \ {bg.out}, !.bg_error = @ \/ ~FALSE]
<1>1. DOMAIN e = DBFields /\ Same(d, e) /\ e.next = d.next /\ e.bg_error = TRUE
      /\ e.last_sequence = d.last_sequence
  BY DEF DBFields, Same
<1>2. BackgroundDone(e, bg.is_manual, ~FALSE) /\ files' = DeleteObsoleteFiles(f, e, IdleBG)
  BY DEF CompactionEnds
<1> HIDE DEF e
<1>3. Same(e, db') /\ db'.next = e.next /\ Ended(bg') /\ db'.last_sequence = e.last_sequence
  BY <1>1, <1>2, BackgroundDoneSame
<1>4. files' = f
  BY <1>1, <1>2 DEF DeleteObsoleteFiles
<1> QED
  BY <1>1, <1>3, <1>4 DEF Same

\* The output of a compaction is opened, and finished.
LEMMA OutputAck ==
  Inv /\ Inv' /\ AckInv /\ CallsKept /\ (OpenCompactionOutputFile \/ FinishCompactionOutputFile) => AckInv'
<1> SUFFICES ASSUME Inv, Inv', AckInv, CallsKept, OpenCompactionOutputFile \/ FinishCompactionOutputFile
             PROVE  AckInv'
  OBVIOUS
<1>1. bg.pc = "working" /\ BGUnchanged /\ UNCHANGED mems
  BY DEF OpenCompactionOutputFile, FinishCompactionOutputFile
<1>2. /\ Open /\ DOMAIN db = DBFields /\ DOMAIN bg = BGFields /\ DOMAIN files = FileFields
      /\ db.next \in Nat /\ db.mem \in Nat /\ db.mem < db.next
      /\ bg.out \in Nat /\ (bg.out # 0 => bg.out < db.next /\ bg.out \in DOMAIN files.tables)
  BY <1>1 DEF Inv, ControlOK, RecordsOK, NumbersOK, TablesOK
<1>3. bg.job = "compact" /\ (bg.out # 0 => bg.out \notin InUse)
  BY <1>1 DEF AckInv, JobOK
<1>4. ASSUME NEW d, DOMAIN d = DBFields, Same(db, d), d.next \in Nat, db.next <= d.next,
             CompactionEnds(files, d, FALSE)
      PROVE  AckInv'
  <2>1. Same(d, db') /\ db'.next = d.next /\ Ended(bg') /\ files' = files
    BY <1>4, EndsSame
  <2>2. Same(db, db') /\ db.next <= db'.next
    BY <1>4, <2>1 DEF Same
  <2> QED
    BY <1>1, <1>2, <2>1, <2>2, RoundEnds
<1>5. CASE OpenCompactionOutputFile
  <2> DEFINE n == db.next
             d == [db EXCEPT !.next = NewFileNumber(@), !.pending_outputs = @ \cup {n}]
             e == [d EXCEPT !.pending_outputs = @ \ {n}]
  <2>1. /\ DOMAIN d = DBFields /\ Same(db, d) /\ d.next = db.next + 1
    BY <1>2 DEF DBFields, Same, NewFileNumber
  <2>2. DOMAIN e = DBFields /\ Same(db, e) /\ e.next = db.next + 1
    <3> HIDE DEF d
    <3> QED
      BY <2>1 DEF DBFields, Same
  <2>3. db.next <= db.next + 1 /\ db.next + 1 \in Nat /\ db.next < db.next + 1
    BY <1>2
  <2>4. \/ /\ db' = d /\ bg' = [bg EXCEPT !.out = n]
           /\ files' = [files EXCEPT !.tables = With(@, n, {})]
        \/ CompactionEnds(files, e, FALSE)
    BY <1>5, Zenon DEF OpenCompactionOutputFile
  <2> HIDE DEF d, e
  <2>5. CASE CompactionEnds(files, e, FALSE)
    BY <1>4, <2>2, <2>3, <2>5
  <2>6. CASE /\ db' = d /\ bg' = [bg EXCEPT !.out = n]
             /\ files' = [files EXCEPT !.tables = With(@, n, {})]
    <3>1. /\ files'.logs = files.logs /\ files'.current = files.current /\ files'.manifests = files.manifests
          /\ files'.tables = With(files.tables, n, {})
      BY <1>2, <2>6 DEF FileFields
    <3>2. bg'.pc = "working" /\ bg'.job = "compact" /\ bg'.out = n
      BY <1>1, <1>2, <1>3, <2>6 DEF BGFields
    <3>3. n \notin InUse
      <4>1. CASE n \in db.l0 \cup db.deep
        <5>1. n < db.next
          BY <1>2, <4>1 DEF AckInv, OrderOK, Open
        <5> QED
          BY <1>2, <5>1
      <4>2. ASSUME NEW i \in Latest(Current), n \in Tables(Current.recs[i]) PROVE FALSE
        <5> DEFINE r == Current.recs[i]
        <5>1. VersionOK(r, Current.recs[Len(Current.recs)].next) /\ r.next <= db.next
          <6>1. files.current # 0
            BY <1>2, OpenFacts
          <6> QED
            BY <1>2, <6>1 DEF AckInv, LatestOK, Open
        <5>2. n < r.next /\ r.next \in Nat
          BY <4>2, <5>1 DEF VersionOK
        <5> QED
          BY <1>2, <5>1, <5>2
      <4> QED
        BY <4>1, <4>2 DEF InUse
    <3>4. TablesKept(InUse)
      BY <3>1, <3>3 DEF TablesKept, With
    <3>5. \A m \in DOMAIN files'.tables : files'.tables[m] \subseteq DOMAIN calls
      BY <3>1 DEF With, AckInv, EntriesOK
    <3>6. Same(db, db') /\ db.next <= db'.next
      BY <2>1, <2>3, <2>6
    <3>7. InUse' = InUse => JobOK'
      BY <3>2, <3>3 DEF JobOK
    <3> QED
      BY <1>1, <1>2, <3>1, <3>2, <3>4, <3>5, <3>6, <3>7, TableAck
  <2> QED
    BY <2>4, <2>5, <2>6
<1>6. CASE FinishCompactionOutputFile
  <2> DEFINE out == bg.out
             S == Stored(bg.in0 \cup bg.in1)
             edit == State(db.l0 \ bg.in0, (db.deep \ bg.in1) \cup {out},
                           db.log_number, db.next, db.last_sequence)
  <2>1. \/ /\ out # 0 /\ files' = [files EXCEPT !.tables[out] = S]
           /\ bg' = [bg EXCEPT !.pc = "logging", !.edit = edit]
           /\ UNCHANGED db
        \/ CompactionEnds(files, db, FALSE)
    BY <1>6, Zenon DEF FinishCompactionOutputFile
  <2>2. CASE CompactionEnds(files, db, FALSE)
    <3>1. Same(db, db) /\ db.next <= db.next
      BY <1>2 DEF Same
    <3> QED
      BY <1>2, <1>4, <2>2, <3>1
  <2>3. Tables(edit) = (db.l0 \ bg.in0) \cup (db.deep \ bg.in1) \cup {out}
        /\ edit.next = db.next /\ edit.log_number = db.log_number
    BY DEF Tables, State
  <2> HIDE DEF edit
  <2>4. CASE /\ out # 0 /\ files' = [files EXCEPT !.tables[out] = S]
             /\ bg' = [bg EXCEPT !.pc = "logging", !.edit = edit]
             /\ UNCHANGED db
    <3>1. /\ files'.logs = files.logs /\ files'.current = files.current /\ files'.manifests = files.manifests
          /\ files'.tables = [files.tables EXCEPT ![out] = S]
      BY <1>2, <2>4 DEF FileFields
    <3>2. bg'.pc = "logging" /\ bg'.job = "compact" /\ bg'.out = out /\ bg'.edit = edit
      BY <1>2, <1>3, <2>4 DEF BGFields
    <3>3. out \notin InUse /\ out \in DOMAIN files.tables /\ out \in Nat /\ out < db.next
      BY <1>2, <1>3, <2>4
    <3>4. S \subseteq DOMAIN calls
      BY DEF AckInv, EntriesOK, Stored
    <3>5. TablesKept(InUse)
      BY <3>1, <3>3 DEF TablesKept
    <3>6. \A m \in DOMAIN files'.tables : files'.tables[m] \subseteq DOMAIN calls
      BY <3>1, <3>4 DEF AckInv, EntriesOK
    <3>7. Same(db, db') /\ db.next <= db'.next
      BY <1>2, <2>4 DEF Same
    <3>8. VersionOK(bg'.edit, db'.next)
      <4>1. \A t \in db.l0 \cup db.deep : t \in Nat /\ t < db.next
        BY <1>2 DEF AckInv, OrderOK, Open
      <4>2. db.log_number \in Nat /\ db.log_number <= db.mem
        BY <1>2 DEF AckInv, OrderOK
      <4>3. db.log_number <= db.next
        BY <1>2, <4>2
      <4> QED
        BY <1>2, <2>3, <2>4, <3>2, <3>3, <4>1, <4>2, <4>3 DEF VersionOK
    <3>9. ASSUME NEW t \in (db.l0 \cup db.deep) \cap DOMAIN files'.tables, NEW k \in files'.tables[t]
          PROVE  \E m \in Tables(edit) \cap DOMAIN files'.tables : k \in files'.tables[m]
      <4>1. t # out /\ t \in DOMAIN files.tables /\ files'.tables[t] = files.tables[t]
        BY <3>1, <3>3 DEF InUse
      <4>2. CASE t \in bg.in0 \cup bg.in1
        <5>1. k \in S
          BY <3>9, <4>1, <4>2 DEF Stored
        <5>2. out \in DOMAIN files'.tables /\ files'.tables[out] = S
          BY <3>1, <3>3
        <5> QED
          BY <2>3, <5>1, <5>2
      <4>3. CASE t \notin bg.in0 \cup bg.in1
        BY <2>3, <4>3
      <4> QED
        BY <4>2, <4>3
    <3>10. InUse' = InUse => JobOK'
      <4> SUFFICES ASSUME InUse' = InUse PROVE JobOK'
        OBVIOUS
      <4>1. VersionOK(bg.edit, db.next)'
        BY <3>8 DEF VersionOK, Tables
      <4>2. Stored(db.l0 \cup db.deep)' \subseteq Stored(Tables(bg.edit))'
        <5>1. Stored(Tables(bg.edit))' = UNION {files'.tables[m] : m \in Tables(edit) \cap DOMAIN files'.tables}
          BY <3>2 DEF Stored, Tables
        <5>2. Stored(db.l0 \cup db.deep)' = UNION {files'.tables[m] : m \in (db.l0 \cup db.deep) \cap DOMAIN files'.tables}
          BY <2>4 DEF Stored
        <5> QED
          BY <3>9, <5>1, <5>2
      <4>3. (bg.edit.log_number)' = (db.log_number)'
        BY <2>3, <2>4, <3>2
      <4>4. (bg.out)' \notin InUse'
        BY <3>2, <3>3
      <4> QED
        BY <3>2, <4>1, <4>2, <4>3, <4>4 DEF JobOK
    <3>11. bg'.edit.next = db.next
      BY <2>3, <3>2
    <3> QED
      BY <1>1, <1>2, <3>1, <3>5, <3>6, <3>7, <3>10, <3>11, TableAck
  <2> QED
    BY <2>1, <2>2, <2>4
<1> QED
  BY <1>5, <1>6

-----------------------------------------------------------------------------
(* LogAndApply. *)

\* What DeleteObsoleteFiles leaves is as it was.
LEMMA DeleteSame ==
  ASSUME NEW f, NEW d, NEW b, DOMAIN f = FileFields
  PROVE  LET g == DeleteObsoleteFiles(f, d, b)
         IN /\ \A n \in DOMAIN g.logs : n \in DOMAIN f.logs /\ g.logs[n] = f.logs[n]
            /\ \A n \in DOMAIN f.logs : n >= d.log_number => n \in DOMAIN g.logs
            /\ \A n \in DOMAIN g.tables : n \in DOMAIN f.tables /\ g.tables[n] = f.tables[n]
            /\ DOMAIN f.tables \cap (d.l0 \cup d.deep \cup iter.tables) \subseteq DOMAIN g.tables
<1> DEFINE g == DeleteObsoleteFiles(f, d, b)
           logs == Only(f.logs, {n \in DOMAIN f.logs : n >= d.log_number})
           manifests == Only(f.manifests, {n \in DOMAIN f.manifests : n >= d.manifest})
           tables == Only(f.tables, LiveTables(d, b) \cup d.pending_outputs)
<1>1. CASE d.bg_error
  BY <1>1 DEF DeleteObsoleteFiles
<1>2. CASE ~d.bg_error
  <2>1. g = [f EXCEPT !.logs = logs, !.manifests = manifests, !.tables = tables]
    BY <1>2 DEF DeleteObsoleteFiles
  <2>2. /\ \A n \in DOMAIN logs : n \in DOMAIN f.logs /\ logs[n] = f.logs[n]
        /\ \A n \in DOMAIN f.logs : n >= d.log_number => n \in DOMAIN logs
        /\ \A n \in DOMAIN tables : n \in DOMAIN f.tables /\ tables[n] = f.tables[n]
        /\ DOMAIN f.tables \cap (d.l0 \cup d.deep \cup iter.tables) \subseteq DOMAIN tables
    BY DEF Only, LiveTables
  <2> HIDE DEF g, logs, manifests, tables
  <2>3. g.logs = logs /\ g.tables = tables
    BY <2>1 DEF FileFields
  <2> QED
    BY <2>2, <2>3 DEF g
<1> QED
  BY <1>1, <1>2

\* The memtable is as good as written when its table is logged: every write
\* that is due is in the version that is about to be installed.
LEMMA EditFound ==
  ASSUME Inv, AckInv, Open, bg.pc = "logging", NEW k \in Due
  PROVE  /\ Found(k, Tables(bg.edit), bg.edit.log_number, files, calls)
         /\ \/ k \in mems[db.mem]
            \/ bg.job \notin {"mem", "both"} /\ db.imm # 0 /\ k \in mems[db.imm]
            \/ k \in Stored(Tables(bg.edit))
<1>1. /\ Stored(db.l0 \cup db.deep) \subseteq Stored(Tables(bg.edit))
      /\ bg.job \in {"mem", "both"} =>
           /\ db.imm # 0 /\ bg.edit.log_number = db.mem
           /\ mems[db.imm] \subseteq Stored(Tables(bg.edit))
      /\ bg.job \notin {"mem", "both"} => bg.edit.log_number = db.log_number
  BY DEF AckInv, JobOK
<1>2. /\ db.log_number \in Nat /\ db.log_number <= db.mem /\ db.mem # 0
      /\ db.mem \in DOMAIN files.logs /\ 0 \notin DOMAIN mems
      /\ db.imm # 0 => db.imm \in DOMAIN files.logs /\ db.log_number <= db.imm
      /\ db.mem \in Nat /\ DOMAIN files.logs \subseteq Nat
  BY DEF AckInv, OrderOK, Inv, NumbersOK
<1>3. k \in must \ unsure /\ k \in Contents
  BY DEF AckInv, AcknowledgedSurvives, Due
<1>4. ASSUME k \in Stored(Tables(bg.edit))
      PROVE  Found(k, Tables(bg.edit), bg.edit.log_number, files, calls)
  BY <1>4 DEF Stored, Found
<1>5. CASE k \in Mem(db.mem)
  <2>1. k \in mems[db.mem]
    BY <1>5 DEF Mem
  <2>2. Kept(db.mem, k)
    BY <1>2, <1>3, <2>1 DEF AckInv, MemsKept
  <2>3. db.mem >= bg.edit.log_number
    BY <1>1, <1>2
  <2> QED
    BY <1>2, <2>1, <2>2, <2>3 DEF Found, Kept
<1>6. CASE k \in Mem(db.imm)
  <2>1. db.imm # 0 /\ k \in mems[db.imm]
    BY <1>2, <1>6 DEF Mem
  <2>2. CASE bg.job \in {"mem", "both"}
    BY <1>1, <1>4, <2>1, <2>2
  <2>3. CASE bg.job \notin {"mem", "both"}
    <3>1. Kept(db.imm, k)
      BY <1>2, <1>3, <2>1 DEF AckInv, MemsKept
    <3>2. db.imm >= bg.edit.log_number
      BY <1>1, <1>2, <2>1, <2>3
    <3> QED
      BY <1>2, <2>1, <2>3, <3>1, <3>2 DEF Found, Kept
  <2> QED
    BY <2>2, <2>3
<1>7. CASE k \in Stored(db.l0 \cup db.deep)
  BY <1>1, <1>4, <1>7
<1> QED
  BY <1>3, <1>5, <1>6, <1>7 DEF Contents

\* What LogAndApply and its caller leave when the version is installed.
InstalledOK ==
  /\ db'.state = db.state /\ db'.mem = db.mem /\ db'.next = db.next
  /\ db'.last_sequence = db.last_sequence
  /\ db'.l0 = bg.edit.l0 /\ db'.deep = bg.edit.deep /\ db'.log_number = bg.edit.log_number
  /\ db'.imm = IF bg.job \in {"mem", "both"} THEN 0 ELSE db.imm
  /\ files'.current = files.current
  /\ LET m == files.manifests[files.current]
         longer == Append(m.recs, bg.edit)
     IN files'.manifests[files.current] = NewManifest(longer, Len(longer))
  /\ \A n \in DOMAIN files'.logs : n \in DOMAIN files.logs /\ files'.logs[n] = files.logs[n]
  /\ \A n \in DOMAIN files.logs : n >= bg.edit.log_number => n \in DOMAIN files'.logs
  /\ \A n \in DOMAIN files'.tables : n \in DOMAIN files.tables /\ files'.tables[n] = files.tables[n]
  /\ DOMAIN files.tables \cap (Tables(bg.edit) \cup iter.tables) \subseteq DOMAIN files'.tables
  /\ \A n \in DOMAIN mems' : n \in DOMAIN mems /\ mems'[n] = mems[n]
  /\ DOMAIN mems \cap {db'.mem, db'.imm, iter.mem, iter.imm} \subseteq DOMAIN mems'
  /\ Ended(bg') \/ (bg.job \in {"mem", "both"} /\ GoesOn)

\* A version that is installed has all that is due.
LEMMA InstalledAck ==
  ASSUME Inv, Inv', AckInv, CallsKept, Open, bg.pc = "logging", BGUnchanged, InstalledOK
  PROVE  AckInv'
<1> DEFINE e == bg.edit
           T == Tables(e)
           flush == bg.job \in {"mem", "both"}
<1>1. UNCHANGED <<calls, writers, leader, must, unsure>>
  BY DEF BGUnchanged
<1>2. /\ db'.state = db.state /\ db'.mem = db.mem /\ db'.next = db.next
      /\ db'.l0 \cup db'.deep = T /\ db'.log_number = e.log_number
      /\ db'.imm = IF flush THEN 0 ELSE db.imm
      /\ files'.current = files.current
      /\ \A n \in DOMAIN files'.logs : n \in DOMAIN files.logs /\ files'.logs[n] = files.logs[n]
      /\ \A n \in DOMAIN files.logs : n >= e.log_number => n \in DOMAIN files'.logs
      /\ \A n \in DOMAIN files'.tables : n \in DOMAIN files.tables /\ files'.tables[n] = files.tables[n]
      /\ DOMAIN files.tables \cap T \subseteq DOMAIN files'.tables
      /\ \A n \in DOMAIN mems' : n \in DOMAIN mems /\ mems'[n] = mems[n]
      /\ DOMAIN mems \cap {db'.mem, db'.imm} \subseteq DOMAIN mems'
      /\ \/ Ended(bg')
         \/ flush /\ bg'.pc = "working" /\ bg'.job = "compact" /\ bg'.out = bg.out
  BY DEF InstalledOK, GoesOn, Tables
<1>3. /\ VersionOK(e, db.next)
      /\ flush => e.log_number = db.mem /\ (bg.out # 0 => bg.out \notin T)
      /\ ~flush => e.log_number = db.log_number
  BY DEF AckInv, JobOK
<1>4. /\ db.log_number \in Nat /\ db.log_number <= db.mem /\ db.mem # 0
      /\ db.mem \in DOMAIN files.logs /\ db.mem \in DOMAIN mems /\ 0 \notin DOMAIN mems
      /\ db.imm # 0 => /\ db.imm \in DOMAIN files.logs /\ db.imm \in DOMAIN mems
                       /\ db.log_number <= db.imm /\ db.imm # db.mem
      /\ \A n \in DOMAIN files.logs : n < db.next
      /\ db.mem \in Nat /\ DOMAIN files.logs \subseteq Nat /\ db.next \in Nat
  BY DEF AckInv, OrderOK, Inv, NumbersOK
<1>5. /\ e.log_number \in Nat /\ e.log_number <= db.mem
      /\ db.mem \in DOMAIN files'.logs /\ db.mem \in DOMAIN mems'
      /\ (~flush /\ db.imm # 0 => /\ db.imm \in DOMAIN files'.logs /\ db.imm \in DOMAIN mems'
                                  /\ e.log_number <= db.imm)
  <2>1. e.log_number \in Nat /\ e.log_number <= db.mem
    BY <1>3, <1>4
  <2>2. db.mem >= e.log_number /\ (~flush /\ db.imm # 0 => db.imm >= e.log_number)
    BY <1>3, <1>4, <2>1
  <2>3. db.mem \in DOMAIN files'.logs /\ (~flush /\ db.imm # 0 => db.imm \in DOMAIN files'.logs)
    BY <1>2, <1>4, <2>2
  <2>4. db.mem \in DOMAIN mems' /\ (~flush /\ db.imm # 0 => db.imm \in DOMAIN mems')
    BY <1>2, <1>4
  <2> QED
    BY <1>3, <1>4, <2>1, <2>3, <2>4
<1>6. Open' /\ opening'.pc = "none" /\ db'.state # "closed"
  <2>1. Open'
    BY <1>2 DEF Open
  <2> QED
    BY <2>1 DEF Inv, ControlOK, Open
<1>7. DOMAIN calls \subseteq DOMAIN calls'
  BY <1>1
<1>8. EntriesOK' /\ LogsOK'
  BY <1>1, <1>2 DEF AckInv, EntriesOK, LogsOK
<1>9. OrderOK'
  <2>1. \A n \in T : n \in Nat /\ n < db.next
    <3>1. \A n \in T : n \in Nat /\ n < e.next
      BY <1>3 DEF VersionOK
    <3>2. e.next \in Nat /\ e.next <= db.next
      BY <1>3 DEF VersionOK
    <3> QED
      BY <1>4, <3>1, <3>2
  <2>2. 0 \notin DOMAIN mems'
    BY <1>2, <1>4
  <2>3. \A n \in DOMAIN files'.logs : n < db'.next
    BY <1>2, <1>4
  <2>4. \A n \in db'.l0 \cup db'.deep : n \in Nat /\ n < db'.next
    BY <1>2, <2>1
  <2>5. db'.imm # 0 => /\ db'.imm \in DOMAIN mems' \cap DOMAIN files'.logs
                       /\ db'.log_number <= db'.imm /\ db'.imm # db'.mem
    BY <1>2, <1>4, <1>5
  <2>6. /\ db'.log_number \in Nat /\ db'.log_number <= db'.mem /\ db'.mem # 0
        /\ db'.mem \in DOMAIN mems' \cap DOMAIN files'.logs
    BY <1>2, <1>4, <1>5
  <2> QED
    BY <1>6, <2>2, <2>3, <2>4, <2>5, <2>6 DEF OrderOK
<1> HIDE DEF e
<1>10. /\ \A i \in Latest(Current)' : Current'.recs[i] = e
       /\ Current'.recs[Len(Current'.recs)] = e /\ Latest(Current)' # {}
  <2> DEFINE recs == files.manifests[files.current].recs
             longer == Append(recs, e)
  <2>1. IsSeq(recs)
    BY OpenFacts DEF ManifestOK
  <2>2. Current' = NewManifest(longer, Len(longer))
    BY <1>2 DEF InstalledOK, Current, e
  <2> HIDE DEF recs
  <2>3. Len(longer) = Len(recs) + 1 /\ Len(recs) \in Nat /\ longer[Len(recs) + 1] = e
    BY <2>1, AppendIs
  <2> HIDE DEF longer
  <2>4. Current'.recs = longer /\ Current'.synced = Len(longer)
    BY <2>2 DEF NewManifest
  <2>5. ASSUME NEW i \in 1..Len(longer), i >= Len(longer) PROVE i = Len(recs) + 1
    BY <2>3, <2>5
  <2>6. Len(longer) \in 1..Len(longer) /\ Len(longer) >= Len(longer)
    BY <2>3
  <2> QED
    BY <2>3, <2>4, <2>5, <2>6 DEF Latest
<1>11. InUse' = T
  <2>2. UNION {Tables(Current'.recs[i]) : i \in Latest(Current)'} = T
    BY <1>10
  <2>3. UNION {Tables(Current.recs[i])' : i \in Latest(Current)'} = T
    BY <2>2 DEF Tables
  <2> QED
    BY <1>2, <2>3 DEF InUse, Tables
<1>12. ASSUME NEW k \in must' \ unsure'
       PROVE  Found(k, T, e.log_number, files', calls')
  <2>1. k \in Due
    BY <1>1, <1>12 DEF Due
  <2>2. Found(k, T, e.log_number, files, calls)
    BY <2>1, EditFound DEF e
  <2> QED
    BY <1>1, <1>2, <2>2 DEF Found
<1>13. LatestOK'
  <2>1. /\ VersionOK(e, e.next) /\ e.next <= db'.next /\ e.log_number <= db'.mem
    <3>1. e.next \in Nat /\ e.next <= db.next
      BY <1>3 DEF VersionOK
    <3>2. e.next <= e.next
      BY <3>1
    <3> QED
      BY <1>2, <1>3, <1>5, <3>1, <3>2 DEF VersionOK
  <2>2. bg'.pc # "logging"
    BY <1>2, IdleJob
  <2>3. ASSUME NEW i \in Latest(Current)'
        PROVE  /\ VersionOK(Current'.recs[i], Current'.recs[Len(Current'.recs)].next)
               /\ Current'.recs[i].next <= db'.next
               /\ Current'.recs[i].log_number <= db'.mem
               /\ \A k \in must' \ unsure' :
                    Found(k, Tables(Current'.recs[i]), Current'.recs[i].log_number, files', calls')
    BY <1>10, <1>12, <2>1, <2>3
  <2> QED
    BY <2>2, <2>3 DEF LatestOK, VersionOK, Tables, Due
<1>14. JobOK'
  <2>1. CASE flush /\ bg'.pc = "working" /\ bg'.job = "compact" /\ bg'.out = bg.out
    BY <1>3, <1>11, <2>1 DEF JobOK
  <2> QED
    BY <1>2, <2>1, IdleJob
<1>15. ASSUME NEW n \in DOMAIN files'.logs, NEW k, Kept(n, k) PROVE Kept(n, k)'
  BY <1>1, <1>2, <1>15 DEF Kept
<1>16. mems'[db.mem] = mems[db.mem] /\ (~flush /\ db.imm # 0 => mems'[db.imm] = mems[db.imm])
  BY <1>2, <1>5
<1>17. LeaderOK'
  <2>1. ASSUME NEW k, Kept(db.mem, k) PROVE Kept(db.mem, k)'
    BY <1>1, <1>2, <1>5, <2>1 DEF Kept
  <2>2. LeaderOK
    BY DEF AckInv
  <2> QED
    BY <1>1, <1>2, <1>16, <2>1, <2>2 DEF LeaderOK
<1>18. MemsKept'
  <2>1. ASSUME NEW n \in {db'.mem, db'.imm} \ {0}, NEW k \in mems'[n] \ unsure' PROVE Kept(n, k)'
    <3>1. n \in {db.mem, db.imm} \ {0} /\ k \in mems[n] \ unsure /\ n \in DOMAIN files'.logs
      BY <1>1, <1>2, <1>5, <1>16, <2>1
    <3>2. Kept(n, k)
      BY <3>1 DEF AckInv, MemsKept
    <3> QED
      BY <1>15, <3>1, <3>2
  <2> QED
    BY <2>1 DEF MemsKept
<1>19. AcknowledgedSurvives'
  <2>1. ASSUME NEW k \in must' \ unsure' PROVE k \in Contents'
    <3>1. k \in Due
      BY <1>1, <2>1 DEF Due
    <3>2. \/ k \in mems[db.mem]
          \/ ~flush /\ db.imm # 0 /\ k \in mems[db.imm]
          \/ k \in Stored(T)
      BY <3>1, EditFound DEF e
    <3>3. CASE k \in mems[db.mem]
      BY <1>2, <1>5, <1>16, <3>3 DEF Contents, Mem
    <3>4. CASE ~flush /\ db.imm # 0 /\ k \in mems[db.imm]
      BY <1>2, <1>5, <1>16, <3>4 DEF Contents, Mem
    <3>5. CASE k \in Stored(T)
      <4>1. PICK n \in T \cap DOMAIN files.tables : k \in files.tables[n]
        BY <3>5 DEF Stored
      <4>2. n \in DOMAIN files'.tables /\ files'.tables[n] = files.tables[n]
        BY <1>2, <4>1
      <4>3. n \in (db'.l0 \cup db'.deep) \cap DOMAIN files'.tables
        BY <1>2, <4>1, <4>2
      <4> QED
        BY <4>1, <4>2, <4>3 DEF Contents, Stored
    <3> QED
      BY <3>2, <3>3, <3>4, <3>5
  <2> QED
    BY <2>1 DEF AcknowledgedSurvives
<1>20. RecoveryOK'
  BY <1>6 DEF RecoveryOK
<1> QED
  BY <1>8, <1>9, <1>13, <1>14, <1>17, <1>18, <1>19, <1>20 DEF AckInv

\* What they leave when it could not be logged: the record may be in the
\* MANIFEST all the same.
NotInstalledOK ==
  /\ Same(db, db') /\ db'.next = db.next /\ db'.last_sequence = db.last_sequence /\ UNCHANGED mems
  /\ files'.current = files.current /\ files'.logs = files.logs /\ files'.tables = files.tables
  /\ LET m == files.manifests[files.current]
     IN \E recs \in {m.recs, Append(m.recs, bg.edit)} :
          files'.manifests[files.current] = NewManifest(recs, m.synced)
  /\ Ended(bg') \/ (bg.job \in {"mem", "both"} /\ GoesOn)

\* A version that may or may not be found after a restart has all that is due.
LEMMA NotInstalledAck ==
  ASSUME Inv, Inv', AckInv, CallsKept, Open, bg.pc = "logging", BGUnchanged, NotInstalledOK
  PROVE  AckInv'
<1> DEFINE e == bg.edit
           T == Tables(e)
           flush == bg.job \in {"mem", "both"}
           m == files.manifests[files.current]
           longer == Append(m.recs, e)
<1>1. UNCHANGED <<calls, writers, leader, must, unsure, mems>>
      /\ files'.tables = files.tables /\ files'.logs = files.logs
  BY DEF BGUnchanged, NotInstalledOK
<1>2. LogsKept /\ LogsOK'
  BY <1>1, LogsSame DEF AckInv
<1>3. /\ 0 \notin DOMAIN mems /\ db.mem \in DOMAIN mems /\ (db.imm # 0 => db.imm \in DOMAIN mems)
      /\ db.next \in Nat
  BY DEF AckInv, OrderOK, Inv, NumbersOK
<1>4. MemoryKept
  <2>1. TablesKept(InUse)
    BY <1>1 DEF TablesKept
  <2>2. \A n \in {db.mem, db.imm} \ {0} : n \in DOMAIN mems
    BY <1>3
  <2>3. Same(db, db') /\ db.next <= db'.next
    BY <1>3 DEF NotInstalledOK
  <2> QED
    BY <1>1, <1>2, <1>3, <2>1, <2>2, <2>3 DEF MemoryKept
<1>5. OrderOK' /\ Open' /\ MemsKept' /\ AcknowledgedSurvives' /\ RecoveryOK' /\ LeaderOK'
  BY <1>1, <1>4, StoreOrder, StoreMemory, StoreLeader
<1>6. EntriesOK'
  BY <1>1 DEF AckInv, EntriesOK
<1>7. /\ VersionOK(e, db.next) /\ (flush => (bg.out # 0 => bg.out \notin T))
      /\ flush => e.log_number = db.mem
      /\ ~flush => e.log_number = db.log_number
      /\ bg.out # 0 => bg.out \notin InUse
  BY DEF AckInv, JobOK
<1>8. files.current # 0 /\ ManifestOK(m, files.current, DOMAIN files.tables)
  BY OpenFacts
<1>9. IsSeq(m.recs) /\ m.synced \in 0..Len(m.recs)
  BY <1>8 DEF ManifestOK
<1>10. PICK recs \in {m.recs, longer} : Current' = NewManifest(recs, m.synced)
  BY DEF NotInstalledOK, Current
<1>11. Current'.recs = recs /\ Current'.synced = m.synced /\ Current = m
  BY <1>10 DEF NewManifest, Current
<1>12. ASSUME NEW i \in Latest(m)
       PROVE  LET r == m.recs[i] IN
              /\ VersionOK(r, m.recs[Len(m.recs)].next)
              /\ r.next <= db.next
              /\ r.log_number <= db.mem
              /\ r.next <= e.next
              /\ \A k \in Due : Found(k, Tables(r), r.log_number, files, calls)
  BY <1>8, <1>11 DEF AckInv, LatestOK, Open
<1> HIDE DEF m, e
<1>13. Len(m.recs) \in Nat /\ Len(longer) = Len(m.recs) + 1 /\ longer[Len(m.recs) + 1] = e
       /\ \A i \in 1..Len(m.recs) : longer[i] = m.recs[i]
  BY <1>9, AppendIs
<1> HIDE DEF longer
<1>14. ASSUME NEW i \in Latest(Current)'
       PROVE  (i \in Latest(m) /\ recs[i] = m.recs[i]) \/ (recs = longer /\ recs[i] = e)
  <2>1. i \in 1..Len(recs) /\ i >= m.synced
    BY <1>11, <1>14 DEF Latest
  <2>2. CASE recs = m.recs
    BY <2>1, <2>2 DEF Latest
  <2>3. CASE recs = longer
    <3>1. i \in 1..Len(m.recs) \/ i = Len(m.recs) + 1
      BY <1>13, <2>1, <2>3
    <3> QED
      BY <1>13, <2>1, <2>3, <3>1 DEF Latest
  <2> QED
    BY <1>10, <2>2, <2>3
<1>15. e.next \in Nat /\ e.next <= db.next /\ e.log_number \in Nat
  BY <1>7 DEF VersionOK
<1>16. e.log_number <= db.mem
  <2>1. db.log_number <= db.mem /\ db.mem \in Nat
    BY DEF AckInv, OrderOK, Inv, NumbersOK
  <2> QED
    BY <1>7, <2>1
<1>17. ASSUME NEW k \in Due PROVE Found(k, T, e.log_number, files, calls)
  BY <1>17, EditFound DEF e
<1>18. \A k, S, log : Found(k, S, log, files, calls) => Found(k, S, log, files', calls')
  BY <1>1 DEF Found
<1>19. db'.mem = db.mem /\ db'.next = db.next /\ db'.l0 = db.l0 /\ db'.deep = db.deep
  BY DEF NotInstalledOK, Same
<1>20. bg'.pc # "logging"
  BY IdleJob DEF NotInstalledOK, GoesOn
<1>21. LatestOK'
  <2>1. ASSUME NEW i \in Latest(Current)'
        PROVE  /\ VersionOK(recs[i], recs[Len(recs)].next)
               /\ recs[i].next <= db.next
               /\ recs[i].log_number <= db.mem
               /\ \A k \in Due : Found(k, Tables(recs[i]), recs[i].log_number, files, calls)
    <3>1. CASE recs = m.recs /\ i \in Latest(m)
      BY <1>12, <3>1
    <3>2. CASE recs = longer
      <4>1. recs[Len(recs)] = e
        BY <1>13, <3>2
      <4>2. CASE recs[i] = e
        <5>1. VersionOK(e, e.next)
          <6>1. e.next <= e.next
            BY <1>15
          <6> QED
            BY <1>7, <6>1 DEF VersionOK
        <5> QED
          BY <1>15, <1>16, <1>17, <4>1, <4>2, <5>1
      <4>3. CASE i \in Latest(m) /\ recs[i] = m.recs[i]
        <5>1. VersionOK(m.recs[i], e.next)
          BY <1>12, <4>3 DEF VersionOK
        <5> QED
          BY <1>12, <4>1, <4>3, <5>1
      <4> QED
        BY <1>14, <2>1, <3>2, <4>2, <4>3
    <3>3. recs # longer => recs = m.recs /\ i \in Latest(m)
      BY <1>10, <1>14, <2>1
    <3> QED
      BY <3>1, <3>2, <3>3
  <2>2. ASSUME NEW i \in Latest(Current)'
        PROVE  /\ VersionOK(Current'.recs[i], Current'.recs[Len(Current'.recs)].next)
               /\ Current'.recs[i].next <= db'.next
               /\ Current'.recs[i].log_number <= db'.mem
               /\ \A k \in must' \ unsure' :
                    Found(k, Tables(Current'.recs[i]), Current'.recs[i].log_number, files', calls')
    <3>1. must' \ unsure' = Due
      BY <1>1 DEF Due
    <3> QED
      BY <1>11, <1>18, <1>19, <2>1, <2>2, <3>1
  <2> QED
    BY <1>20, <2>2 DEF LatestOK, VersionOK, Tables, Due
<1>22. JobOK'
  <2>1. CASE flush /\ bg'.pc = "working" /\ bg'.job = "compact" /\ bg'.out = bg.out
    <3>1. ASSUME bg.out # 0, bg.out \in InUse' PROVE FALSE
      <4>1. bg.out \notin db.l0 \cup db.deep /\ bg.out \notin T
            /\ \A i \in Latest(m) : bg.out \notin Tables(m.recs[i])
        BY <1>7, <1>11, <2>1, <3>1 DEF InUse
      <4>2. UNION {Tables(Current.recs[i])' : i \in Latest(Current)'}
              = UNION {Tables(recs[i]) : i \in Latest(Current)'}
        BY <1>11 DEF Tables
      <4>3. PICK i \in Latest(Current)' : bg.out \in Tables(recs[i])
        BY <1>19, <3>1, <4>1, <4>2 DEF InUse
      <4> QED
        BY <1>14, <4>1, <4>3
    <3> QED
      BY <2>1, <3>1 DEF JobOK
  <2> QED
    BY <2>1, IdleJob DEF NotInstalledOK, GoesOn
<1> QED
  BY <1>2, <1>5, <1>6, <1>21, <1>22 DEF AckInv

\* The end of a compaction that was installed.
LEMMA EndsInstalled ==
  ASSUME NEW f, NEW d, DOMAIN d = DBFields, DOMAIN f = FileFields, CompactionEnds(f, d, TRUE)
  PROVE  /\ Same(d, db') /\ db'.next = d.next /\ Ended(bg') /\ db'.last_sequence = d.last_sequence
         /\ \E e, b : /\ files' = DeleteObsoleteFiles(f, e, b) /\ DOMAIN e = DBFields /\ Same(d, e)
<1> DEFINE e == [d EXCEPT !.pending_outputs = @ \ {bg.out}, !.bg_error = @ \/ ~TRUE]
<1>1. DOMAIN e = DBFields /\ Same(d, e) /\ e.next = d.next /\ e.last_sequence = d.last_sequence
  BY DEF DBFields, Same
<1>2. BackgroundDone(e, bg.is_manual, ~TRUE) /\ files' = DeleteObsoleteFiles(f, e, IdleBG)
  BY DEF CompactionEnds
<1> HIDE DEF e
<1>3. Same(e, db') /\ db'.next = e.next /\ Ended(bg') /\ db'.last_sequence = e.last_sequence
  BY <1>1, <1>2, BackgroundDoneSame
<1> QED
  BY <1>1, <1>2, <1>3 DEF Same

\* LogAndApply and what follows it.
LEMMA LogIs ==
  ASSUME Inv, LogAndApply
  PROVE  Open /\ BGUnchanged /\ bg.pc = "logging" /\ (InstalledOK \/ NotInstalledOK)
<1> DEFINE c == files.current
           m == files.manifests[c]
           longer == Append(m.recs, bg.edit)
           F(recs, synced) == [files EXCEPT !.manifests[db.manifest] = NewManifest(recs, synced)]
           d == Installed(db)
           flush == bg.job \in {"mem", "both"}
<1>1. Open /\ BGUnchanged /\ bg.pc = "logging"
  BY DEF Inv, ControlOK, LogAndApply
<1>2. /\ DOMAIN db = DBFields /\ DOMAIN files = FileFields /\ DOMAIN bg = BGFields
      /\ db.manifest = c /\ c \in Nat /\ c \in DOMAIN files.manifests /\ db.next \in Nat
  BY <1>1, OpenFacts DEF Inv, RecordsOK
<1>3. \/ AfterLogAndApply(F(longer, Len(longer)), d, TRUE)
      \/ \E recs \in {m.recs, longer} : AfterLogAndApply(F(recs, m.synced), db, FALSE)
  BY <1>2 DEF LogAndApply
<1>4. ASSUME NEW recs, NEW synced
      PROVE  LET f == F(recs, synced)
             IN /\ DOMAIN f = FileFields /\ f.tables = files.tables /\ f.current = c
                /\ f.logs = files.logs /\ c \in DOMAIN f.manifests
                /\ f.manifests[c] = NewManifest(recs, synced)
  <2> DEFINE v == NewManifest(recs, synced)
  <2> HIDE DEF v
  <2>1. LET f == [files EXCEPT !.manifests[c] = v]
        IN /\ DOMAIN f = FileFields /\ f.tables = files.tables /\ f.current = c
           /\ f.logs = files.logs /\ c \in DOMAIN f.manifests /\ f.manifests[c] = v
    BY <1>2 DEF FileFields
  <2> QED
    BY <1>2, <2>1 DEF v
<1>5. /\ DOMAIN d = DBFields /\ d.state = db.state /\ d.mem = db.mem /\ d.imm = db.imm
      /\ d.manifest = db.manifest /\ d.next = db.next /\ d.last_sequence = db.last_sequence
      /\ d.l0 = bg.edit.l0 /\ d.deep = bg.edit.deep /\ d.log_number = bg.edit.log_number
  BY <1>2 DEF DBFields, Installed
<1>6. ASSUME AfterLogAndApply(F(longer, Len(longer)), d, TRUE)
      PROVE  InstalledOK
  <2> DEFINE f == F(longer, Len(longer))
  <2>1. /\ DOMAIN f = FileFields /\ f.tables = files.tables /\ f.current = c
        /\ f.logs = files.logs /\ c \in DOMAIN f.manifests
        /\ f.manifests[c] = NewManifest(longer, Len(longer))
    BY <1>4
  <2>2. AfterLogAndApply(f, d, TRUE)
    BY <1>6
  <2> HIDE DEF f, F, d, longer, m
  <2>3. ASSUME NEW e, NEW b, DOMAIN e = DBFields, e.l0 = d.l0, e.deep = d.deep,
               e.log_number = d.log_number, e.manifest = d.manifest,
               files' = DeleteObsoleteFiles(f, e, b)
        PROVE  /\ files'.current = c /\ files'.manifests[c] = NewManifest(longer, Len(longer))
               /\ \A n \in DOMAIN files'.logs : n \in DOMAIN files.logs /\ files'.logs[n] = files.logs[n]
               /\ \A n \in DOMAIN files.logs : n >= bg.edit.log_number => n \in DOMAIN files'.logs
               /\ \A n \in DOMAIN files'.tables : n \in DOMAIN files.tables /\ files'.tables[n] = files.tables[n]
               /\ DOMAIN files.tables \cap (Tables(bg.edit) \cup iter.tables) \subseteq DOMAIN files'.tables
    <3>1. /\ files'.current = f.current
          /\ \A n \in DOMAIN f.manifests : n >= e.manifest =>
               n \in DOMAIN files'.manifests /\ files'.manifests[n] = f.manifests[n]
      BY <2>1, <2>3, DeleteKeeps
    <3>2. /\ \A n \in DOMAIN files'.logs : n \in DOMAIN f.logs /\ files'.logs[n] = f.logs[n]
          /\ \A n \in DOMAIN f.logs : n >= e.log_number => n \in DOMAIN files'.logs
          /\ \A n \in DOMAIN files'.tables : n \in DOMAIN f.tables /\ files'.tables[n] = f.tables[n]
          /\ DOMAIN f.tables \cap (e.l0 \cup e.deep \cup iter.tables) \subseteq DOMAIN files'.tables
      BY <2>1, <2>3, DeleteSame
    <3>3. c >= e.manifest
      BY <1>2, <1>5, <2>3
    <3> QED
      BY <1>5, <2>1, <2>3, <3>1, <3>2, <3>3 DEF Tables
  <2>4. CASE flush
    <3> DEFINE e == [d EXCEPT !.imm = 0]
    <3>1. /\ MemTableDone(e) /\ mems' = Only(mems, Referenced(e, iter))
          /\ files' = DeleteObsoleteFiles(f, e, bg)
      BY <2>2, <2>4 DEF AfterLogAndApply
    <3>2. /\ DOMAIN e = DBFields /\ e.l0 = d.l0 /\ e.deep = d.deep /\ e.log_number = d.log_number
          /\ e.manifest = d.manifest /\ e.state = d.state /\ e.mem = d.mem /\ e.next = d.next /\ e.imm = 0
          /\ e.last_sequence = d.last_sequence
      BY <1>5 DEF DBFields
    <3> HIDE DEF e
    <3>3. /\ Same(e, db') /\ db'.next = e.next /\ db'.last_sequence = e.last_sequence
          /\ Ended(bg') \/ GoesOn
      BY <1>2, <3>1, <3>2, MemTableDoneSame
    <3>4. /\ db'.state = db.state /\ db'.mem = db.mem /\ db'.next = db.next
          /\ db'.last_sequence = db.last_sequence
          /\ db'.l0 = bg.edit.l0 /\ db'.deep = bg.edit.deep /\ db'.log_number = bg.edit.log_number
          /\ db'.imm = 0
      BY <1>5, <3>2, <3>3 DEF Same
    <3>5. /\ \A n \in DOMAIN mems' : n \in DOMAIN mems /\ mems'[n] = mems[n]
          /\ DOMAIN mems \cap {db'.mem, db'.imm, iter.mem, iter.imm} \subseteq DOMAIN mems'
      <4>1. db'.mem = e.mem /\ db'.imm = e.imm
        BY <3>3 DEF Same
      <4> QED
        BY <3>1, <4>1 DEF Only, Referenced
    <3>6. InstalledOK
      BY <2>3, <2>4, <3>1, <3>2, <3>3, <3>4, <3>5 DEF InstalledOK, m, longer
    <3> QED
      BY <1>1, <3>6
  <2>5. CASE bg.job = "move"
    <3> DEFINE e == [d EXCEPT !.bg_error = @ \/ ~TRUE]
    <3>1. BackgroundDone(e, bg.is_manual, ~TRUE) /\ files' = f /\ UNCHANGED mems
      BY <2>2, <2>5 DEF AfterLogAndApply
    <3>2. /\ DOMAIN e = DBFields /\ e.l0 = d.l0 /\ e.deep = d.deep /\ e.log_number = d.log_number
          /\ e.state = d.state /\ e.mem = d.mem /\ e.next = d.next /\ e.imm = d.imm
          /\ e.last_sequence = d.last_sequence
      BY <1>5 DEF DBFields
    <3> HIDE DEF e
    <3>3. Same(e, db') /\ db'.next = e.next /\ Ended(bg') /\ db'.last_sequence = e.last_sequence
      BY <3>1, <3>2, BackgroundDoneSame
    <3>4. /\ db'.state = db.state /\ db'.mem = db.mem /\ db'.next = db.next
          /\ db'.last_sequence = db.last_sequence
          /\ db'.l0 = bg.edit.l0 /\ db'.deep = bg.edit.deep /\ db'.log_number = bg.edit.log_number
          /\ db'.imm = db.imm
      BY <1>5, <3>2, <3>3 DEF Same
    <3>5. InstalledOK
      BY <2>1, <2>5, <3>1, <3>3, <3>4 DEF InstalledOK, m, longer
    <3> QED
      BY <1>1, <3>5
  <2>6. CASE ~flush /\ bg.job # "move"
    <3>1. CompactionEnds(f, d, TRUE) /\ UNCHANGED mems
      BY <2>2, <2>6 DEF AfterLogAndApply
    <3>2. /\ Same(d, db') /\ db'.next = d.next /\ Ended(bg') /\ db'.last_sequence = d.last_sequence
          /\ \E e, b : /\ files' = DeleteObsoleteFiles(f, e, b) /\ DOMAIN e = DBFields /\ Same(d, e)
      BY <1>5, <2>1, <3>1, EndsInstalled
    <3>3. /\ db'.state = db.state /\ db'.mem = db.mem /\ db'.next = db.next
          /\ db'.last_sequence = db.last_sequence
          /\ db'.l0 = bg.edit.l0 /\ db'.deep = bg.edit.deep /\ db'.log_number = bg.edit.log_number
          /\ db'.imm = db.imm
      BY <1>5, <3>2 DEF Same
    <3>4. PICK e, b : files' = DeleteObsoleteFiles(f, e, b) /\ DOMAIN e = DBFields /\ Same(d, e)
      BY <3>2
    <3>5. e.l0 = d.l0 /\ e.deep = d.deep /\ e.log_number = d.log_number /\ e.manifest = d.manifest
      BY <3>4 DEF Same
    <3>6. InstalledOK
      BY <2>3, <2>6, <3>1, <3>2, <3>3, <3>4, <3>5 DEF InstalledOK, m, longer
    <3> QED
      BY <1>1, <3>6
  <2> QED
    BY <2>4, <2>5, <2>6
<1>7. ASSUME NEW recs \in {m.recs, longer}, AfterLogAndApply(F(recs, m.synced), db, FALSE)
      PROVE  NotInstalledOK
  <2> DEFINE f == F(recs, m.synced)
  <2>1. /\ DOMAIN f = FileFields /\ f.tables = files.tables /\ f.current = c
        /\ f.logs = files.logs /\ c \in DOMAIN f.manifests
        /\ f.manifests[c] = NewManifest(recs, m.synced)
    BY <1>4
  <2>2. AfterLogAndApply(f, db, FALSE)
    BY <1>7
  <2> HIDE DEF f, F, longer, m
  <2>3. /\ Same(db, db') /\ db'.next = db.next /\ UNCHANGED mems /\ files' = f
        /\ db'.last_sequence = db.last_sequence /\ (Ended(bg') \/ (flush /\ GoesOn))
    <3>1. CASE flush
      <4> DEFINE e == RecordBackgroundError(db)
      <4>1. MemTableDone(e) /\ files' = f /\ UNCHANGED mems
        BY <2>2, <3>1 DEF AfterLogAndApply
      <4>2. /\ Same(db, e) /\ e.next = db.next /\ DOMAIN e = DBFields
            /\ e.last_sequence = db.last_sequence
        BY <1>2, ErrorSame
      <4> HIDE DEF e
      <4>3. /\ Same(e, db') /\ db'.next = e.next /\ db'.last_sequence = e.last_sequence
            /\ Ended(bg') \/ GoesOn
        BY <1>2, <4>1, <4>2, MemTableDoneSame
      <4> QED
        BY <3>1, <4>1, <4>2, <4>3 DEF Same
    <3>2. CASE bg.job = "move"
      <4> DEFINE e == [db EXCEPT !.bg_error = @ \/ ~FALSE]
      <4>1. BackgroundDone(e, bg.is_manual, ~FALSE) /\ files' = f /\ UNCHANGED mems
        BY <2>2, <3>2 DEF AfterLogAndApply
      <4>2. DOMAIN e = DBFields /\ Same(db, e) /\ e.next = db.next /\ e.last_sequence = db.last_sequence
        BY <1>2 DEF DBFields, Same
      <4> HIDE DEF e
      <4>3. Same(e, db') /\ db'.next = e.next /\ Ended(bg') /\ db'.last_sequence = e.last_sequence
        BY <4>1, <4>2, BackgroundDoneSame
      <4> QED
        BY <4>1, <4>2, <4>3 DEF Same
    <3>3. CASE ~flush /\ bg.job # "move"
      <4>1. CompactionEnds(f, db, FALSE) /\ UNCHANGED mems
        BY <2>2, <3>3 DEF AfterLogAndApply
      <4> QED
        BY <1>2, <4>1, EndsSame
    <3> QED
      BY <3>1, <3>2, <3>3
  <2>4. NotInstalledOK
    <3>1. \E rs \in {m.recs, longer} : files'.manifests[c] = NewManifest(rs, m.synced)
      BY <2>1, <2>3
    <3>2. files'.current = c /\ files'.logs = files.logs /\ files'.tables = files.tables
      BY <2>1, <2>3
    <3> QED
      BY <2>3, <3>1, <3>2 DEF NotInstalledOK, m, longer
  <2> QED
    BY <2>4
<1> QED
  BY <1>1, <1>3, <1>6, <1>7

\* Either outcome keeps what is due.
LEMMA LogAck == Inv /\ Inv' /\ AckInv /\ CallsKept /\ LogAndApply => AckInv'
BY LogIs, InstalledAck, NotInstalledAck

-----------------------------------------------------------------------------
(* Open, recovery and shutdown. *)

\* While the database is not open, no thread runs.
LEMMA ClosedAck ==
  ASSUME Inv', ~Open', EntriesOK', LogsOK', OrderOK', LatestOK', RecoveryOK'
  PROVE  AckInv'
<1>1. leader'.pc = "none" /\ bg'.pc = "idle" /\ bg'.out = 0
  BY DEF Inv, QueueOK, ControlOK
<1>2. JobOK'
  BY <1>1 DEF JobOK
<1>3. LeaderOK'
  BY <1>1 DEF LeaderOK
<1>4. MemsKept' /\ AcknowledgedSurvives'
  BY DEF MemsKept, AcknowledgedSurvives
<1> QED
  BY <1>2, <1>3, <1>4 DEF AckInv

\* The fields of a database that is not open.
LEMMA ClosedFields ==
  ClosedDB.l0 = {} /\ ClosedDB.deep = {} /\ ClosedDB.imm = 0
BY DEF ClosedDB

\* The entries stay those of calls if no new ones come.
LEMMA EntriesSame ==
  ASSUME EntriesOK, CallsKept, OpenUnchanged, must' \subseteq must \cup DOMAIN calls,
         \A n \in DOMAIN mems' : mems'[n] \subseteq DOMAIN calls,
         \A n \in DOMAIN files'.tables : files'.tables[n] \subseteq DOMAIN calls
  PROVE  EntriesOK'
BY DEF EntriesOK, CallsKept, OpenUnchanged

\* NewDB.
LEMMA NewDBAck == Inv /\ Inv' /\ AckInv /\ CallsKept /\ NewDB => AckInv'
<1> SUFFICES ASSUME Inv, Inv', AckInv, CallsKept, NewDB PROVE AckInv'
  OBVIOUS
<1> DEFINE s == State({}, {}, 0, 2, 0)
           m == NewManifest(<<s>>, 0)
<1>1. /\ db.state = "closed" /\ files.current = 0 /\ OpenUnchanged
      /\ UNCHANGED <<db, mems, opening, must>>
      /\ files' = [files EXCEPT !.manifests = With(@, 1, m), !.current = 1]
  BY DEF NewDB
<1>2. s.l0 = {} /\ s.deep = {} /\ s.log_number = 0 /\ s.next = 2
  BY DEF State
<1> HIDE DEF s
<1>3. m.recs = <<s>> /\ m.synced = 0
  BY DEF NewManifest
<1> HIDE DEF m
<1>4. DOMAIN files = FileFields /\ must = {} /\ ~Open /\ opening.pc = "none"
  BY <1>1 DEF Inv, RecordsOK, CurrentOK, ControlOK, Open
<1>5. /\ files'.current = 1 /\ files'.tables = files.tables
      /\ files'.logs = files.logs /\ files'.manifests[1] = m
  <2>1. /\ files'.current = 1 /\ files'.tables = files.tables
        /\ files'.logs = files.logs /\ files'.manifests = With(files.manifests, 1, m)
    BY <1>1, <1>4 DEF FileFields
  <2> QED
    BY <2>1 DEF With
<1>6. EntriesOK'
  BY <1>1, <1>5, EntriesSame DEF AckInv, EntriesOK
<1>7. LogsOK'
  BY <1>5, LogsSame DEF AckInv
<1>8. ~Open' /\ opening'.pc = "none" /\ db'.state = "closed" /\ must' = {}
  BY <1>1, <1>4 DEF Open
<1>9. OrderOK'
  BY <1>1, <1>8 DEF AckInv, OrderOK
<1>10. RecoveryOK'
  BY <1>8 DEF RecoveryOK
<1>11. bg'.pc # "logging"
  BY <1>8 DEF Inv, ControlOK
<1>12. LatestOK'
  <2>1. Current' = m
    BY <1>5 DEF Current
  <2>2. Len(m.recs) = 1 /\ m.recs[1] = s
    BY <1>3
  <2>3. VersionOK(s, s.next)
    BY <1>2 DEF VersionOK, Tables
  <2>4. \A i \in Latest(m) : i = 1
    BY <2>2 DEF Latest
  <2>5. \A i \in Latest(m) : VersionOK(m.recs[i], m.recs[Len(m.recs)].next)
    BY <2>2, <2>3, <2>4
  <2> QED
    BY <1>8, <1>11, <2>1, <2>5 DEF LatestOK, Latest, VersionOK, Tables, Due
<1> QED
  BY <1>6, <1>7, <1>8, <1>9, <1>10, <1>12, ClosedAck

\* Open fails: nothing it did is found by the next one.
LEMMA OpenFailsAck == Inv /\ Inv' /\ AckInv /\ CallsKept /\ OpenFails => AckInv'
<1> SUFFICES ASSUME Inv, Inv', AckInv, CallsKept, OpenFails PROVE AckInv'
  OBVIOUS
<1>1. db' = ClosedDB /\ opening' = NoOpening /\ OpenUnchanged /\ UNCHANGED <<files, mems, must>>
  BY DEF OpenFails
<1>2. db'.state = "closed" /\ ~Open' /\ opening'.pc = "none"
  BY <1>1, ClosedDBIs DEF Open
<1>3. EntriesOK'
  BY <1>1, EntriesSame DEF AckInv, EntriesOK
<1>4. LogsKept /\ LogsOK'
  BY <1>1, LogsSame DEF AckInv
<1>5. OrderOK'
  BY <1>1, <1>2 DEF AckInv, OrderOK
<1>6. RecoveryOK'
  BY <1>2 DEF RecoveryOK
<1>7. TablesKept(InUse) /\ must' \ unsure' = must \ unsure
  BY <1>1 DEF TablesKept, OpenUnchanged
<1>8. bg'.pc # "logging"
  BY <1>2 DEF Inv, ControlOK
<1>9. LatestOK'
  BY <1>1, <1>2, <1>4, <1>7, <1>8, LatestKept
<1> QED
  BY <1>2, <1>3, <1>4, <1>5, <1>6, <1>9, ClosedAck

\* ~DBImpl ends: the logs have what was in memory.
LEMMA CloseAck == Inv /\ Inv' /\ AckInv /\ CallsKept /\ Close => AckInv'
<1> SUFFICES ASSUME Inv, Inv', AckInv, CallsKept, Close PROVE AckInv'
  OBVIOUS
<1>1. db' = ClosedDB /\ mems' = NoFcn /\ OpenUnchanged /\ UNCHANGED <<files, opening, must>>
  BY DEF Close
<1>2. db'.state = "closed" /\ ~Open'
  BY <1>1, ClosedDBIs DEF Open
<1>3. opening'.pc = "none"
  BY <1>2 DEF Inv, ControlOK
<1>4. DOMAIN mems' = {}
  BY <1>1 DEF NoFcn
<1>5. EntriesOK'
  BY <1>1, <1>4, EntriesSame DEF AckInv, EntriesOK
<1>6. LogsKept /\ LogsOK'
  BY <1>1, LogsSame DEF AckInv
<1>7. OrderOK'
  BY <1>2, <1>3, <1>4 DEF OrderOK
<1>8. RecoveryOK'
  BY <1>3 DEF RecoveryOK
<1>9. TablesKept(InUse) /\ must' \ unsure' = must \ unsure
  BY <1>1 DEF TablesKept, OpenUnchanged
<1>10. bg'.pc # "logging"
  BY <1>2 DEF Inv, ControlOK
<1>11. LatestOK'
  BY <1>1, <1>2, <1>6, <1>9, <1>10, LatestKept
<1> QED
  BY <1>2, <1>5, <1>6, <1>7, <1>8, <1>11, ClosedAck

\* DestroyDB keeps nothing and promises nothing.
LEMMA DestroyAck == Inv /\ Inv' /\ AckInv /\ CallsKept /\ DestroyDB => AckInv'
<1> SUFFICES ASSUME Inv, Inv', AckInv, CallsKept, DestroyDB PROVE AckInv'
  OBVIOUS
<1>1. /\ db.state = "closed" /\ OpenUnchanged /\ UNCHANGED <<db, mems, opening>> /\ must' = {}
      /\ files' = [logs |-> NoFcn, tables |-> NoFcn, manifests |-> NoFcn, current |-> 0]
  BY DEF DestroyDB
<1>2. files'.current = 0 /\ DOMAIN files'.logs = {} /\ DOMAIN files'.tables = {}
  BY <1>1 DEF NoFcn
<1>3. db'.state = "closed" /\ ~Open'
  BY <1>1 DEF Open
<1>4. opening'.pc = "none"
  BY <1>3 DEF Inv, ControlOK
<1>5. EntriesOK'
  BY <1>1, <1>2, EntriesSame DEF AckInv, EntriesOK
<1>6. LogsOK' /\ LatestOK'
  BY <1>2 DEF LogsOK, LatestOK
<1>7. OrderOK' /\ RecoveryOK'
  BY <1>1, <1>2, <1>3, <1>4 DEF AckInv, OrderOK, RecoveryOK
<1> QED
  BY <1>3, <1>5, <1>6, <1>7, ClosedAck

\* The last record of the MANIFEST is one that a restart may find, so what is
\* due is in its tables or in the logs that are read next.
LEMMA RecoverAck == Inv /\ Inv' /\ AckInv /\ CallsKept /\ Recover => AckInv'
<1> SUFFICES ASSUME Inv, Inv', AckInv, CallsKept, Recover PROVE AckInv'
  OBVIOUS
<1> DEFINE m == files.manifests[files.current]
           recs == m.recs
           s == recs[Len(recs)]
<1>1. /\ db.state = "closed" /\ files.current # 0 /\ recs # <<>>
      /\ db' = [ClosedDB EXCEPT !.state = "opening", !.manifest = s.next,
                  !.next = s.next + 1, !.last_sequence = s.last_sequence,
                  !.log_number = s.log_number, !.l0 = s.l0, !.deep = s.deep]
      /\ opening' = [NoOpening EXCEPT !.pc = "logs",
                       !.todo = {n \in DOMAIN files.logs : n >= s.log_number}]
      /\ OpenUnchanged /\ UNCHANGED <<files, mems, must>>
  BY DEF Recover
<1>2. DOMAIN files.logs \subseteq Nat /\ ManifestOK(m, files.current, DOMAIN files.tables)
  BY <1>1 DEF Inv, NumbersOK, CurrentOK
<1>3. Len(recs) \in Latest(m)
  <2>1. IsSeq(recs) /\ m.synced \in 0..Len(recs)
    BY <1>2 DEF ManifestOK
  <2>2. Len(recs) \in Nat \ {0}
    BY <1>1, <2>1, EmptySeq, LenProperties DEF IsSeq
  <2> QED
    BY <2>1, <2>2 DEF Latest
<1>4. VersionOK(s, s.next) /\ \A k \in Due : Found(k, Tables(s), s.log_number, files, calls)
  BY <1>1, <1>3 DEF AckInv, LatestOK, Current
<1>5. LogsKept /\ LogsOK'
  BY <1>1, LogsSame DEF AckInv
<1> DEFINE todo == {n \in DOMAIN files.logs : n >= s.log_number}
<1>6. \A n \in DOMAIN files.logs : n \in todo <=> n >= s.log_number
  OBVIOUS
<1>7. todo \subseteq DOMAIN files.logs
  OBVIOUS
<1>8. Current.recs[Len(Current.recs)].next = s.next
  BY DEF Current
<1> HIDE DEF s, recs, m, todo
<1>9. /\ db'.state = "opening" /\ db'.next = s.next + 1 /\ db'.l0 = s.l0 /\ db'.deep = s.deep
      /\ db'.imm = 0
  <2>1. db' = [ClosedDB EXCEPT !.state = "opening", !.manifest = s.next,
                 !.next = s.next + 1, !.last_sequence = s.last_sequence,
                 !.log_number = s.log_number, !.l0 = s.l0, !.deep = s.deep]
    BY <1>1
  <2> QED
    BY <2>1, ClosedDBIs, ClosedFields DEF DBFields
<1>10. opening'.pc = "logs" /\ opening'.todo = todo /\ opening'.l0 = {} /\ opening'.s = "ok"
  <2>1. opening' = [NoOpening EXCEPT !.pc = "logs", !.todo = todo]
    BY <1>1 DEF todo
  <2> QED
    BY <2>1 DEF NoOpening
<1>11. ~Open' /\ bg'.pc # "logging" /\ unsure' = unsure /\ must' = must /\ calls' = calls
  <2>1. ~Open'
    BY <1>9 DEF Open
  <2> QED
    BY <1>1, <2>1 DEF Inv, ControlOK, OpenUnchanged
<1>12. EntriesOK'
  BY <1>1, EntriesSame DEF AckInv, EntriesOK
<1>13. OrderOK'
  <2>1. s.next \in Nat /\ s.log_number \in Nat /\ s.log_number <= s.next
        /\ \A n \in s.l0 \cup s.deep : n \in Nat /\ n < s.next
    BY <1>4 DEF VersionOK, Tables
  <2>2. \A n \in s.l0 \cup s.deep : n \in Nat /\ n < s.next + 1
    BY <2>1
  <2>3. ASSUME NEW n \in DOMAIN files.logs PROVE n < s.next + 1 \/ n \in todo
    <3>1. n \in Nat /\ (n >= s.log_number => n \in todo)
      BY <1>2, <1>6
    <3> QED
      BY <2>1, <3>1
  <2>4. 0 \notin DOMAIN mems'
    BY <1>1 DEF AckInv, OrderOK
  <2> QED
    BY <1>1, <1>7, <1>9, <1>10, <1>11, <2>2, <2>3, <2>4 DEF OrderOK
<1>14. TablesKept(InUse)
  BY <1>1 DEF TablesKept
<1>15. LatestOK'
  <2>1. s.next \in Nat /\ s.next <= db'.next
    BY <1>4, <1>9 DEF VersionOK
  <2> QED
    BY <1>1, <1>5, <1>8, <1>11, <1>14, <2>1, LatestKept
<1>16. RecoveryOK'
  <2>1. ASSUME NEW k \in Due
        PROVE  \/ \E n \in Tables(s) \cap DOMAIN files.tables : k \in files.tables[n]
               \/ \E n \in todo : \E i \in Sound(files.logs[n]) : k \in files.logs[n].recs[i]
    BY <1>4, <1>6 DEF Found, Keeping
  <2>2. /\ files' = files /\ Due' = Due
    BY <1>1, <1>11 DEF Due
  <2>3. ASSUME NEW k \in Due
        PROVE  \/ k \in Stored(db.l0 \cup db.deep \cup opening.l0)'
               \/ \E n \in opening'.todo : \E i \in Sound(files'.logs[n]) : k \in files'.logs[n].recs[i]
    BY <1>9, <1>10, <2>1, <2>2 DEF Stored, Tables
  <2> QED
    BY <1>9, <1>10, <2>2, <2>3 DEF RecoveryOK, Sound
<1> QED
  BY <1>5, <1>11, <1>12, <1>13, <1>15, <1>16, ClosedAck

\* What is read of a log: all that is in front of a failed append, and nothing
\* that is not in the log.
LEMMA ReadableIs ==
  ASSUME NEW l, NEW C, LogOK(l, C), NEW ws \in Readable(l)
  PROVE  ws \subseteq C /\ \A i \in Sound(l) : l.recs[i] \subseteq ws
<1>1. PICK I \in SUBSET DOMAIN l.recs : Sound(l) \subseteq I /\ ws = UNION {l.recs[i] : i \in I}
  BY DEF Readable
<1>2. \A i \in DOMAIN l.recs : l.recs[i] \subseteq C
  BY LogFacts DEF LogOK
<1> QED
  BY <1>1, <1>2

\* What is read of a log that is read in part is in the log.
LEMMA InPartIs ==
  ASSUME NEW l, NEW C, LogOK(l, C), NEW ws \in ReadInPart(l)
  PROVE  ws \subseteq C
<1>1. PICK I \in SUBSET DOMAIN l.recs : ws = UNION {l.recs[i] : i \in I}
  BY DEF ReadInPart
<1>2. \A i \in DOMAIN l.recs : l.recs[i] \subseteq C
  BY LogFacts DEF LogOK
<1> QED
  BY <1>1, <1>2

\* A log that is read to its end is one that is read in part.
LEMMA ReadableInPart ==
  ASSUME NEW l, NEW ws \in Readable(l)
  PROVE  ws \in ReadInPart(l)
<1>1. PICK I \in SUBSET DOMAIN l.recs : Sound(l) \subseteq I /\ ws = UNION {l.recs[i] : i \in I}
  BY DEF Readable
<1>2. I \in {J \in SUBSET DOMAIN l.recs : \A j \in J : \A i \in Sound(l) : i < j => i \in J}
  BY <1>1
<1> QED
  BY <1>1, <1>2, Zenon DEF ReadInPart

\* The next file number is not that of a table in use.
LEMMA NextUnused ==
  ASSUME Inv, AckInv, db.state # "closed"
  PROVE  db.next \notin InUse
<1>1. db.next \in Nat /\ files.current # 0
  BY DEF Inv, NumbersOK, CurrentOK
<1>2. \A n \in db.l0 \cup db.deep : n \in Nat /\ n < db.next
  BY DEF AckInv, OrderOK
<1>3. ASSUME NEW i \in Latest(Current), NEW n \in Tables(Current.recs[i]) PROVE n # db.next
  <2> DEFINE r == Current.recs[i]
  <2>1. VersionOK(r, Current.recs[Len(Current.recs)].next) /\ r.next <= db.next
    BY <1>1 DEF AckInv, LatestOK
  <2> HIDE DEF r
  <2>2. r.next \in Nat /\ n \in Nat /\ n < r.next
    BY <2>1 DEF VersionOK, r
  <2> QED
    BY <1>1, <2>1, <2>2
<1>4. db.next \notin db.l0 \cup db.deep
  BY <1>1, <1>2
<1> QED
  BY <1>3, <1>4 DEF InUse

\* A step of the recovery of a log, with its choices named.
LogTaken(n, ws, next, seq, s, l0) ==
  /\ ws \in ReadInPart(files.logs[n]) /\ (s = "ok" => ws \in Readable(files.logs[n]))
  /\ next \in {db.next, db.next + 1} /\ (s = "ok" /\ ws # {} => next = db.next + 1)
  /\ seq = Max({calls[k].seq : k \in ws} \cup {opening.max_sequence})
  /\ db' = [db EXCEPT !.next = MarkFileNumberUsed(next, n)]
  /\ opening' = [opening EXCEPT !.todo = @ \ {n}, !.s = s, !.l0 = l0, !.max_sequence = seq]
  /\ \/ ws = {} /\ files' = files /\ l0 = opening.l0 /\ s = "ok"
     \/ /\ ws # {} /\ files' = [files EXCEPT !.tables = With(@, db.next, ws)]
        /\ l0 = opening.l0 \cup {db.next} /\ s = "ok"
     \/ files' = files /\ l0 = opening.l0 /\ s = "error" /\ opening.todo = {n}

\* Every error in a log is reported by Open: it is in the last log, and it is
\* not ignored.
LEMMA LogTakenIs ==
  ASSUME ~SilentFaults, RecoverLogFile
  PROVE  \E ws, next, seq, s, l0 : LogTaken(Min(opening.todo), ws, next, seq, s, l0)
<1> DEFINE n == Min(opening.todo)
           log == files.logs[n]
<1>1. \E ws : \/ ws \in Readable(log) /\ LogRecovered(n, ws, ws # {}, "ok")
              \/ /\ ws \in ReadInPart(log) /\ opening.todo = {n}
                 /\ \E build \in BOOLEAN : LogRecovered(n, ws, build, "error")
  <2>1. \/ \E ws \in Readable(log) :
             \/ LogRecovered(n, ws, ws # {}, "ok")
             \/ opening.todo = {n} /\ LogRecovered(n, ws, TRUE, "error")
        \/ \E ws \in ReadInPart(log) :
             /\ opening.todo = {n} /\ paranoid_checks
             /\ LogRecovered(n, ws, ws # {} /\ ~paranoid_checks,
                             IF paranoid_checks THEN "error" ELSE "ok")
    BY Zenon DEF RecoverLogFile
  <2>2. CASE \E ws \in Readable(log) :
             \/ LogRecovered(n, ws, ws # {}, "ok")
             \/ opening.todo = {n} /\ LogRecovered(n, ws, TRUE, "error")
    BY <2>2, ReadableInPart, Zenon
  <2>3. CASE \E ws \in ReadInPart(log) :
             /\ opening.todo = {n} /\ paranoid_checks
             /\ LogRecovered(n, ws, ws # {} /\ ~paranoid_checks,
                             IF paranoid_checks THEN "error" ELSE "ok")
    <3>1. PICK ws \in ReadInPart(log) :
             /\ opening.todo = {n} /\ paranoid_checks
             /\ LogRecovered(n, ws, ws # {} /\ ~paranoid_checks,
                             IF paranoid_checks THEN "error" ELSE "ok")
      BY <2>3
    <3>2. (IF paranoid_checks THEN "error" ELSE "ok") = "error"
      BY <3>1
    <3>3. (ws # {} /\ ~paranoid_checks) \in BOOLEAN
      OBVIOUS
    <3> QED
      BY <3>1, <3>2, <3>3, Zenon
  <2> QED
    BY <2>1, <2>2, <2>3
<1>2. PICK ws : \/ ws \in Readable(log) /\ LogRecovered(n, ws, ws # {}, "ok")
                \/ /\ ws \in ReadInPart(log) /\ opening.todo = {n}
                   /\ \E build \in BOOLEAN : LogRecovered(n, ws, build, "error")
  BY <1>1
<1> DEFINE seq == Max({calls[k].seq : k \in ws} \cup {opening.max_sequence})
           Next(build) == IF build THEN db.next + 1 ELSE db.next
           L0(build, s) == opening.l0 \cup (IF build /\ s = "ok" THEN {db.next} ELSE {})
<1> HIDE DEF n, log
<1>3. ws \in ReadInPart(log)
  BY <1>2, ReadableInPart
<1>4. ASSUME NEW build \in BOOLEAN, NEW s, LogRecovered(n, ws, build, s)
      PROVE  /\ db' = [db EXCEPT !.next = MarkFileNumberUsed(Next(build), n)]
             /\ opening' = [opening EXCEPT !.todo = @ \ {n}, !.s = s, !.l0 = L0(build, s),
                                           !.max_sequence = seq]
             /\ build /\ s = "ok" => files' = [files EXCEPT !.tables = With(@, db.next, ws)]
             /\ ~(build /\ s = "ok") => files' = files
  <2> DEFINE table == IF build /\ s = "ok" THEN {db.next} ELSE {}
  <2>1. /\ opening' = [opening EXCEPT !.todo = @ \ {n}, !.s = s, !.l0 = L0(build, s),
                                      !.max_sequence = seq]
        /\ db' = [db EXCEPT !.next = MarkFileNumberUsed(Next(build), n)]
        /\ files' = IF table = {} THEN files ELSE [files EXCEPT !.tables = With(@, db.next, ws)]
    BY <1>4 DEF LogRecovered, NewFileNumber
  <2>2. (build /\ s = "ok" => table # {}) /\ (~(build /\ s = "ok") => table = {})
    OBVIOUS
  <2> HIDE DEF table, Next, L0, seq
  <2> QED
    BY <2>1, <2>2
<1>5. seq = Max({calls[k].seq : k \in ws} \cup {opening.max_sequence})
  OBVIOUS
<1>6. ASSUME NEW build \in BOOLEAN
      PROVE  /\ Next(build) \in {db.next, db.next + 1} /\ (build => Next(build) = db.next + 1)
             /\ build => L0(build, "ok") = opening.l0 \cup {db.next}
             /\ ~build => L0(build, "ok") = opening.l0
             /\ L0(build, "error") = opening.l0
  OBVIOUS
<1> HIDE DEF seq, Next, L0
<1>7. CASE ws \in Readable(log) /\ LogRecovered(n, ws, ws # {}, "ok")
  <2> DEFINE build == ws # {}
  <2>1. build \in BOOLEAN /\ LogRecovered(n, ws, build, "ok")
    BY <1>7
  <2>2. build <=> ws # {}
    OBVIOUS
  <2> HIDE DEF build
  <2>3. /\ db' = [db EXCEPT !.next = MarkFileNumberUsed(Next(build), n)]
        /\ opening' = [opening EXCEPT !.todo = @ \ {n}, !.s = "ok", !.l0 = L0(build, "ok"),
                                      !.max_sequence = seq]
        /\ build => files' = [files EXCEPT !.tables = With(@, db.next, ws)]
        /\ ~build => files' = files
    BY <1>4, <2>1
  <2>4. /\ Next(build) \in {db.next, db.next + 1} /\ (build => Next(build) = db.next + 1)
        /\ build => L0(build, "ok") = opening.l0 \cup {db.next}
        /\ ~build => L0(build, "ok") = opening.l0
    BY <1>6, <2>1
  <2>5. LogTaken(n, ws, Next(build), seq, "ok", L0(build, "ok"))
    <3>1. CASE build
      BY <1>3, <1>5, <1>7, <2>2, <2>3, <2>4, <3>1, Zenon DEF LogTaken, log
    <3>2. CASE ~build
      BY <1>3, <1>5, <1>7, <2>2, <2>3, <2>4, <3>2, Zenon DEF LogTaken, log
    <3> QED
      BY <3>1, <3>2
  <2> QED
    BY <2>5, Zenon DEF n
<1>8. CASE /\ ws \in ReadInPart(log) /\ opening.todo = {n}
           /\ \E build \in BOOLEAN : LogRecovered(n, ws, build, "error")
  <2>1. PICK build \in BOOLEAN : LogRecovered(n, ws, build, "error")
    BY <1>8
  <2>2. /\ db' = [db EXCEPT !.next = MarkFileNumberUsed(Next(build), n)]
        /\ opening' = [opening EXCEPT !.todo = @ \ {n}, !.s = "error", !.l0 = L0(build, "error"),
                                      !.max_sequence = seq]
        /\ files' = files
    BY <2>1 DEF LogRecovered, NewFileNumber, Next, L0, seq
  <2>3. Next(build) \in {db.next, db.next + 1} /\ L0(build, "error") = opening.l0
    BY <1>6, <2>1
  <2>4. "error" # "ok"
    OBVIOUS
  <2>5. LogTaken(n, ws, Next(build), seq, "error", L0(build, "error"))
    BY <1>3, <1>5, <1>8, <2>2, <2>3, <2>4, Zenon DEF LogTaken, log
  <2> QED
    BY <2>5, Zenon DEF n
<1> QED
  BY <1>2, <1>7, <1>8

\* A log becomes a table; what was in it is stored now.
LEMMA RecoverLogAck ==
  ~SilentFaults /\ Inv /\ Inv' /\ AckInv /\ CallsKept /\ RecoverLogFile => AckInv'
<1> SUFFICES ASSUME ~SilentFaults, Inv, Inv', AckInv, CallsKept, RecoverLogFile PROVE AckInv'
  OBVIOUS
<1> DEFINE n == Min(opening.todo)
<1>1. opening.pc = "logs" /\ opening.todo # {} /\ OpenUnchanged /\ UNCHANGED <<mems, must>>
  BY DEF RecoverLogFile
<1>2. /\ db.state = "opening" /\ ~Open /\ DOMAIN files = FileFields /\ DOMAIN db = DBFields
      /\ DOMAIN opening = OpeningFields /\ db.next \in Nat
      /\ DOMAIN files.logs \subseteq Nat /\ opening.todo \subseteq Nat
  BY <1>1 DEF Inv, RecordsOK, ControlOK, NumbersOK, Open
<1>3. n \in opening.todo /\ n \in Nat /\ n \in DOMAIN files.logs /\ LogOK(files.logs[n], DOMAIN calls)
  <2>1. n \in opening.todo
    BY <1>1, <1>2, MinIs
  <2> QED
    BY <1>1, <1>2, <2>1 DEF AckInv, OrderOK, LogsOK
<1>4. \E ws, next, seq, s, l0 : LogTaken(n, ws, next, seq, s, l0)
  BY LogTakenIs
<1> HIDE DEF n
<1> PICK ws, next, seq, s, l0 : LogTaken(n, ws, next, seq, s, l0)
  BY <1>4
<1>5. /\ ws \subseteq DOMAIN calls
      /\ s = "ok" => \A i \in Sound(files.logs[n]) : files.logs[n].recs[i] \subseteq ws
  BY <1>3, ReadableIs, InPartIs DEF LogTaken
<1>6. next \in Nat /\ db.next <= next /\ (s = "ok" /\ ws # {} => db.next < next)
  BY <1>2 DEF LogTaken
<1>7. /\ db'.state = "opening" /\ db'.l0 = db.l0 /\ db'.deep = db.deep /\ db'.imm = db.imm
      /\ db'.next \in Nat /\ next <= db'.next /\ n < db'.next
  <2>1. MarkFileNumberUsed(next, n) \in Nat /\ next <= MarkFileNumberUsed(next, n)
        /\ n < MarkFileNumberUsed(next, n)
    BY <1>3, <1>6 DEF MarkFileNumberUsed
  <2> DEFINE e == MarkFileNumberUsed(next, n)
  <2>2. db' = [db EXCEPT !.next = e]
    BY DEF LogTaken
  <2> HIDE DEF e
  <2>3. /\ db'.state = "opening" /\ db'.l0 = db.l0 /\ db'.deep = db.deep /\ db'.imm = db.imm
        /\ db'.next = e
    BY <1>2, <2>2 DEF DBFields
  <2> QED
    BY <2>1, <2>3 DEF e
<1>8. opening'.pc = "logs" /\ opening'.l0 = l0 /\ opening'.todo = opening.todo \ {n} /\ opening'.s = s
  <2>1. opening' = [opening EXCEPT !.todo = @ \ {n}, !.s = s, !.l0 = l0, !.max_sequence = seq]
    BY DEF LogTaken
  <2> QED
    BY <1>1, <1>2, <2>1 DEF OpeningFields
<1>9. \/ ws = {} /\ files' = files /\ l0 = opening.l0 /\ s = "ok"
      \/ /\ ws # {} /\ l0 = opening.l0 \cup {db.next} /\ s = "ok"
         /\ files'.current = files.current /\ files'.manifests = files.manifests
         /\ files'.logs = files.logs /\ DOMAIN files'.tables = DOMAIN files.tables \cup {db.next}
         /\ files'.tables[db.next] = ws
         /\ \A t \in DOMAIN files.tables : t # db.next => files'.tables[t] = files.tables[t]
      \/ files' = files /\ l0 = opening.l0 /\ s = "error" /\ opening.todo = {n}
  <2>1. ASSUME files' = [files EXCEPT !.tables = With(@, db.next, ws)]
        PROVE  /\ files'.current = files.current /\ files'.manifests = files.manifests
               /\ files'.logs = files.logs /\ DOMAIN files'.tables = DOMAIN files.tables \cup {db.next}
               /\ files'.tables[db.next] = ws
               /\ \A t \in DOMAIN files.tables : t # db.next => files'.tables[t] = files.tables[t]
    <3>1. /\ files'.current = files.current /\ files'.manifests = files.manifests
          /\ files'.logs = files.logs /\ files'.tables = With(files.tables, db.next, ws)
      BY <1>2, <2>1 DEF FileFields
    <3> QED
      BY <3>1 DEF With
  <2> QED
    BY <2>1 DEF LogTaken
<1>10. /\ files'.current = files.current /\ files'.manifests = files.manifests
       /\ files'.logs = files.logs
  BY <1>9
<1>11. \A t \in DOMAIN files.tables : t # db.next =>
         t \in DOMAIN files'.tables /\ files'.tables[t] = files.tables[t]
  BY <1>9
<1>12. /\ \A t \in DOMAIN files'.tables : files'.tables[t] \subseteq DOMAIN calls
  BY <1>5, <1>9 DEF AckInv, EntriesOK
<1>13. EntriesOK'
  BY <1>1, <1>12, EntriesSame DEF AckInv, EntriesOK
<1>14. LogsKept /\ LogsOK'
  BY <1>10, LogsSame DEF AckInv
<1>15. TablesKept(InUse)
  <2>1. db.next \notin InUse
    BY <1>2, NextUnused
  <2> QED
    BY <1>11, <2>1 DEF TablesKept
<1>16. ~Open' /\ bg'.pc # "logging" /\ must' \ unsure' = must \ unsure
  <2>1. ~Open'
    BY <1>7 DEF Open
  <2> QED
    BY <1>1, <2>1 DEF Inv, ControlOK, OpenUnchanged
<1>17. db.next <= db'.next
  BY <1>2, <1>6, <1>7
<1>18. LatestOK'
  BY <1>2, <1>10, <1>14, <1>15, <1>16, <1>17, LatestKept
<1>19. /\ \A t \in db.l0 \cup db.deep \cup opening.l0 : t \in Nat /\ t < db.next
       /\ \A t \in DOMAIN files.logs : t < db.next \/ t \in opening.todo
       /\ opening.todo \subseteq DOMAIN files.logs
  BY <1>1, <1>2 DEF AckInv, OrderOK
<1>20. OrderOK'
  <2>1. \A t \in Nat : t < db.next => t < db'.next
    BY <1>2, <1>7, <1>17
  <2>2. s = "ok" /\ ws # {} => db.next < db'.next
    BY <1>2, <1>6, <1>7
  <2>3. \A t \in l0 : t \in Nat /\ t < db'.next
    BY <1>2, <1>9, <1>19, <2>1, <2>2
  <2>4. \A t \in DOMAIN files.logs : t < db'.next \/ t \in opening.todo \ {n}
    BY <1>2, <1>7, <1>19, <2>1
  <2>5. 0 \notin DOMAIN mems'
    BY <1>1 DEF AckInv, OrderOK
  <2> QED
    BY <1>7, <1>8, <1>10, <1>16, <1>19, <2>1, <2>3, <2>4, <2>5 DEF OrderOK
<1>21. RecoveryOK'
  <2> DEFINE T == db.l0 \cup db.deep \cup opening.l0
             U == db'.l0 \cup db'.deep \cup opening'.l0
             In(k, t) == \E i \in Sound(files.logs[t]) : k \in files.logs[t].recs[i]
  <2>1. \A k \in Due : k \in Stored(T) \/ \E t \in opening.todo : In(k, t)
    BY <1>1 DEF AckInv, RecoveryOK
  <2>2. s = "error" => opening'.todo = {}
    BY <1>8, <1>9
  <2>3. ASSUME s = "ok", NEW k \in Due
        PROVE  \/ \E t \in U \cap DOMAIN files'.tables : k \in files'.tables[t]
               \/ \E t \in opening'.todo : In(k, t)
    <3>1. CASE k \in Stored(T)
      <4>1. PICK t \in T \cap DOMAIN files.tables : k \in files.tables[t]
        BY <3>1 DEF Stored
      <4>2. t # db.next
        BY <1>2, <1>19
      <4>3. t \in U
        BY <1>7, <1>8, <1>9
      <4> QED
        BY <1>11, <4>1, <4>2, <4>3
    <3>2. CASE \E t \in opening.todo : In(k, t) /\ t # n
      BY <1>8, <3>2
    <3>3. CASE In(k, n)
      <4>1. k \in ws
        BY <1>5, <2>3, <3>3
      <4>2. db.next \in U /\ db.next \in DOMAIN files'.tables /\ files'.tables[db.next] = ws
        BY <1>8, <1>9, <2>3, <4>1
      <4> QED
        BY <4>1, <4>2
    <3> QED
      BY <2>1, <3>1, <3>2, <3>3
  <2>4. Due' = Due /\ s \in {"ok", "error"}
    BY <1>9, <1>16 DEF Due
  <2>5. db'.imm = 0
    BY <1>1, <1>7 DEF AckInv, RecoveryOK
  <2> QED
    BY <1>8, <1>10, <2>2, <2>3, <2>4, <2>5 DEF RecoveryOK, Stored, Sound
<1> QED
  BY <1>14, <1>13, <1>16, <1>18, <1>20, <1>21, ClosedAck

\* All logs are recovered: the new MANIFEST names tables with all that is due.
LEMMA OpenLogAck == Inv /\ Inv' /\ AckInv /\ CallsKept /\ OpenLog => AckInv'
<1> SUFFICES ASSUME Inv, Inv', AckInv, CallsKept, OpenLog PROVE AckInv'
  OBVIOUS
<1> DEFINE seq == Max({db.last_sequence, opening.max_sequence})
           s == State(db.l0 \cup opening.l0, db.deep, db.next, db.next + 1, seq)
           m == NewManifest(<<s>>, 1)
<1>1. /\ opening.pc = "logs" /\ opening.todo = {} /\ opening.s = "ok"
      /\ OpenUnchanged /\ UNCHANGED <<mems, must>>
      /\ files' = [files EXCEPT !.logs = With(@, db.next, NewLog),
                                !.manifests = With(@, db.manifest, m)]
      /\ db' = [db EXCEPT !.next = NewFileNumber(@), !.last_sequence = seq]
      /\ opening' = [opening EXCEPT !.pc = "install", !.log = db.next]
  BY DEF OpenLog, Recovered
<1>2. s.l0 = db.l0 \cup opening.l0 /\ s.deep = db.deep /\ s.next = db.next + 1 /\ s.log_number = db.next
  BY DEF State
<1> HIDE DEF seq, s
<1>3. m.recs[1] = s
  BY DEF NewManifest
<1> HIDE DEF m
<1>4. /\ db.state = "opening" /\ DOMAIN files = FileFields /\ DOMAIN db = DBFields
      /\ DOMAIN opening = OpeningFields /\ db.next \in Nat /\ db.manifest < db.next
      /\ db.manifest \in Nat /\ files.current \in Nat /\ files.current < db.manifest
      /\ files.current \in DOMAIN files.manifests /\ DOMAIN files.logs \subseteq Nat
  <2>1. db.state = "opening"
    BY <1>1 DEF Inv, ControlOK
  <2> QED
    BY <1>1, <2>1 DEF Inv, RecordsOK, NumbersOK, CurrentOK
<1>5. /\ db'.state = "opening" /\ db'.manifest = db.manifest /\ db'.imm = db.imm
      /\ db'.l0 = db.l0 /\ db'.deep = db.deep /\ db'.next = db.next + 1
  BY <1>1, <1>4 DEF DBFields, NewFileNumber
<1>6. /\ opening'.pc = "install" /\ opening'.l0 = opening.l0 /\ opening'.log = db.next
  BY <1>1, <1>4 DEF OpeningFields
<1>7. /\ files'.current = files.current /\ files'.tables = files.tables
      /\ DOMAIN files'.logs = DOMAIN files.logs \cup {db.next} /\ files'.logs[db.next] = NewLog
      /\ \A n \in DOMAIN files.logs : n # db.next => files'.logs[n] = files.logs[n]
      /\ files'.manifests[db.manifest] = m
      /\ files'.manifests[files.current] = files.manifests[files.current]
  <2>1. /\ files'.current = files.current /\ files'.tables = files.tables
        /\ files'.logs = With(files.logs, db.next, NewLog)
        /\ files'.manifests = With(files.manifests, db.manifest, m)
    BY <1>1, <1>4 DEF FileFields
  <2>2. /\ DOMAIN files'.logs = DOMAIN files.logs \cup {db.next} /\ files'.logs[db.next] = NewLog
        /\ \A n \in DOMAIN files.logs : n # db.next => files'.logs[n] = files.logs[n]
    BY <2>1 DEF With
  <2>3. files.current # db.manifest
    BY <1>4
  <2>4. /\ files'.manifests[db.manifest] = m
        /\ files'.manifests[files.current] = files.manifests[files.current]
    BY <1>4, <2>1, <2>3 DEF With
  <2> QED
    BY <2>1, <2>2, <2>4
<1>8. /\ \A t \in db.l0 \cup db.deep \cup opening.l0 : t \in Nat /\ t < db.next
      /\ \A n \in DOMAIN files.logs : n < db.next
  BY <1>1, <1>4 DEF AckInv, OrderOK
<1>9. \A n \in DOMAIN files.logs : n # db.next
  BY <1>4, <1>8
<1>10. UNCHANGED <<calls, unsure>> /\ must' \ unsure' = must \ unsure
  BY <1>1 DEF OpenUnchanged
<1>11. EntriesOK'
  BY <1>1, <1>7, EntriesSame DEF AckInv, EntriesOK
<1>12. LogOK(NewLog, DOMAIN calls)
  <2>1. DOMAIN NewLog = {"recs", "synced", "bad"} /\ NewLog.recs = <<>> /\ NewLog.synced = 0 /\ NewLog.bad = 0
    BY DEF NewLog
  <2>2. Len(<<>>) = 0 /\ <<>> \in Seq({})
    OBVIOUS
  <2> QED
    BY <2>1, <2>2 DEF LogOK, IsSeq
<1>13. LogsOK'
  <2>1. \A n \in DOMAIN files'.logs : LogOK(files'.logs[n], DOMAIN calls)
    BY <1>7, <1>9, <1>12 DEF AckInv, LogsOK
  <2> QED
    BY <1>10, <2>1 DEF LogsOK, LogOK
<1>14. LogsKept
  <2>1. ASSUME NEW n \in DOMAIN files.logs PROVE Grown(files.logs[n], files'.logs[n])
    <3>1. LogOK(files.logs[n], DOMAIN calls) /\ files'.logs[n] = files.logs[n]
      BY <1>7, <1>9 DEF AckInv, LogsOK
    <3> QED
      BY <3>1, LogFacts
  <2> QED
    BY <1>7, <2>1 DEF LogsKept
<1>15. ~Open' /\ bg'.pc # "logging"
  <2>1. ~Open'
    BY <1>5 DEF Open
  <2> QED
    BY <2>1 DEF Inv, ControlOK
<1>16. LatestOK'
  <2>1. TablesKept(InUse) /\ db.next <= db'.next
    BY <1>4, <1>5, <1>7 DEF TablesKept
  <2> QED
    BY <1>4, <1>7, <1>10, <1>14, <1>15, <2>1, LatestKept
<1>17. OrderOK'
  <2>1. /\ \A t \in db.l0 \cup db.deep \cup opening.l0 : t \in Nat /\ t < db.next + 1
        /\ \A n \in DOMAIN files.logs \cup {db.next} : n < db.next + 1
        /\ db.next # 0
    BY <1>4, <1>8
  <2>2. 0 \notin DOMAIN mems'
    BY <1>1 DEF AckInv, OrderOK
  <2> QED
    BY <1>5, <1>6, <1>7, <1>15, <2>1, <2>2 DEF OrderOK
<1>18. RecoveryOK'
  <2>1. Due \subseteq Stored(db.l0 \cup db.deep \cup opening.l0) /\ db.imm = 0
    BY <1>1 DEF AckInv, RecoveryOK
  <2>2. Due' = Due /\ Stored(db.l0 \cup db.deep \cup opening.l0)' = Stored(db.l0 \cup db.deep \cup opening.l0)
    BY <1>5, <1>6, <1>7, <1>10 DEF Due, Stored
  <2>3. /\ s.next \in Nat /\ s.next <= db'.next /\ s.log_number \in Nat /\ s.log_number <= s.next
        /\ \A t \in s.l0 \cup s.deep : t \in Nat /\ t < s.next
    BY <1>2, <1>4, <1>5, <1>8
  <2>4. files'.manifests[db'.manifest].recs[1] = s /\ s.log_number = opening'.log
    BY <1>2, <1>3, <1>5, <1>6, <1>7
  <2> QED
    BY <1>5, <1>6, <2>1, <2>2, <2>3, <2>4 DEF RecoveryOK, VersionOK, Tables
<1> QED
  BY <1>11, <1>13, <1>15, <1>16, <1>17, <1>18, ClosedAck

\* The new MANIFEST becomes the current one, or it is removed again.
LEMMA OpenInstallAck == Inv /\ Inv' /\ AckInv /\ CallsKept /\ OpenInstall => AckInv'
<1> SUFFICES ASSUME Inv, Inv', AckInv, CallsKept, OpenInstall PROVE AckInv'
  OBVIOUS
<1> DEFINE d == [db EXCEPT !.state = "open", !.l0 = @ \cup opening.l0, !.log_number = opening.log,
                           !.mem = opening.log]
           f == [files EXCEPT !.current = db.manifest]
           m == files.manifests[db.manifest]
           r == m.recs[1]
           T == db.l0 \cup db.deep \cup opening.l0
<1>1. /\ opening.pc = "install" /\ opening' = NoOpening /\ OpenUnchanged
      /\ \/ /\ db' = MaybeScheduleCompaction(d) /\ files' = DeleteObsoleteFiles(f, d, IdleBG)
            /\ mems' = With(NoFcn, opening.log, {})
            /\ must' = (must \ unsure) \cup Stored(d.l0 \cup d.deep)
         \/ /\ db' = ClosedDB /\ UNCHANGED <<mems, must>>
            /\ files' = [files EXCEPT !.manifests = Only(@, DOMAIN @ \ {db.manifest})]
  BY DEF OpenInstall
<1>2. /\ db.state = "opening" /\ ~Open /\ DOMAIN files = FileFields /\ DOMAIN db = DBFields
      /\ db.next \in Nat /\ opening.log \in Nat
      /\ db.manifest \in Nat /\ files.current \in Nat /\ files.current < db.manifest
      /\ DOMAIN files.logs \subseteq Nat
  <2>1. db.state = "opening"
    BY <1>1 DEF Inv, ControlOK
  <2> QED
    BY <1>1, <2>1 DEF Inv, RecordsOK, NumbersOK, CurrentOK, Open
<1>3. opening'.pc = "none" /\ unsure' = unsure /\ calls' = calls /\ UNCHANGED <<bg, leader>>
  BY <1>1, ClosedDBIs DEF OpenUnchanged
<1>4. CASE /\ db' = ClosedDB /\ UNCHANGED <<mems, must>>
           /\ files' = [files EXCEPT !.manifests = Only(@, DOMAIN @ \ {db.manifest})]
  <2>1. db'.state = "closed" /\ ~Open'
    BY <1>4, ClosedDBIs DEF Open
  <2>2. files.current # db.manifest /\ files.current \in DOMAIN files.manifests
    BY <1>2 DEF Inv, CurrentOK
  <2>3. /\ files'.current = files.current /\ files'.tables = files.tables /\ files'.logs = files.logs
        /\ files'.manifests[files.current] = files.manifests[files.current]
    <3>1. /\ files'.current = files.current /\ files'.tables = files.tables /\ files'.logs = files.logs
          /\ files'.manifests = Only(files.manifests, DOMAIN files.manifests \ {db.manifest})
      BY <1>2, <1>4 DEF FileFields
    <3> QED
      BY <2>2, <3>1 DEF Only
  <2>4. EntriesOK'
    BY <1>1, <1>4, <2>3, EntriesSame DEF AckInv, EntriesOK
  <2>5. LogsKept /\ LogsOK'
    BY <2>3, LogsSame DEF AckInv
  <2>6. OrderOK'
    BY <1>3, <1>4, <2>1 DEF AckInv, OrderOK
  <2>7. RecoveryOK'
    BY <1>3 DEF RecoveryOK
  <2>8. TablesKept(InUse) /\ must' \ unsure' = must \ unsure
    BY <1>3, <1>4, <2>3 DEF TablesKept
  <2>9. bg'.pc # "logging"
    BY <2>1 DEF Inv, ControlOK
  <2>10. LatestOK'
    BY <2>1, <2>3, <2>5, <2>8, <2>9, LatestKept
  <2> QED
    BY <2>1, <2>4, <2>5, <2>6, <2>7, <2>10, ClosedAck
<1>5. CASE /\ db' = MaybeScheduleCompaction(d) /\ files' = DeleteObsoleteFiles(f, d, IdleBG)
           /\ mems' = With(NoFcn, opening.log, {})
           /\ must' = (must \ unsure) \cup Stored(d.l0 \cup d.deep)
  <2>1. /\ DOMAIN d = DBFields /\ d.state = "open" /\ d.mem = opening.log /\ d.imm = db.imm
        /\ d.manifest = db.manifest /\ d.log_number = opening.log
        /\ d.next = db.next /\ d.l0 = db.l0 \cup opening.l0 /\ d.deep = db.deep
    BY <1>2 DEF DBFields
  <2>2. /\ DOMAIN f = FileFields /\ f.tables = files.tables /\ f.logs = files.logs
        /\ f.manifests = files.manifests /\ f.current = db.manifest
    BY <1>2 DEF FileFields
  <2> HIDE DEF d, f
  <2>3. /\ db'.state = "open" /\ db'.mem = opening.log /\ db'.imm = db.imm
        /\ db'.log_number = opening.log /\ db'.manifest = db.manifest
        /\ db'.next = db.next /\ db'.l0 = db.l0 \cup opening.l0 /\ db'.deep = db.deep
    BY <1>5, <2>1 DEF MaybeScheduleCompaction, DBFields
  <2>4. /\ files'.current = db.manifest
        /\ \A n \in DOMAIN files.manifests : n >= db.manifest =>
             n \in DOMAIN files'.manifests /\ files'.manifests[n] = files.manifests[n]
    BY <1>5, <2>1, <2>2, DeleteKeeps
  <2>5. /\ \A n \in DOMAIN files'.logs : n \in DOMAIN files.logs /\ files'.logs[n] = files.logs[n]
        /\ \A n \in DOMAIN files.logs : n >= opening.log => n \in DOMAIN files'.logs
        /\ \A n \in DOMAIN files'.tables : n \in DOMAIN files.tables /\ files'.tables[n] = files.tables[n]
        /\ DOMAIN files.tables \cap T \subseteq DOMAIN files'.tables
    <3>1. T = d.l0 \cup d.deep
      BY <2>1
    <3> HIDE DEF T
    <3> QED
      BY <1>5, <2>1, <2>2, <3>1, DeleteSame
  <2>6. must' = (must \ unsure) \cup Stored(T) /\ T = db'.l0 \cup db'.deep
    <3>1. T = d.l0 \cup d.deep /\ T = db'.l0 \cup db'.deep
      BY <2>1, <2>3
    <3> HIDE DEF T
    <3> QED
      BY <1>5, <3>1
  <2>7. DOMAIN mems' = {opening.log} /\ mems'[opening.log] = {}
    BY <1>5 DEF With, NoFcn
  <2>8. /\ db.manifest \in DOMAIN files.manifests
        /\ Len(m.recs) = 1 /\ m.synced = 1
        /\ r.l0 = db.l0 \cup opening.l0 /\ r.deep = db.deep
    BY <1>1 DEF Inv, CurrentOK
  <2>9. /\ Due \subseteq Stored(T) /\ db.imm = 0 /\ VersionOK(r, db.next) /\ r.log_number = opening.log
    BY <1>1 DEF AckInv, RecoveryOK
  <2>10. /\ \A t \in T : t \in Nat /\ t < db.next
         /\ \A n \in DOMAIN files.logs : n < db.next
         /\ opening.log \in DOMAIN files.logs /\ opening.log # 0
    BY <1>1, <1>2 DEF AckInv, OrderOK
  <2>11. files'.manifests[db.manifest] = m /\ db.manifest # 0
    <3>1. db.manifest >= db.manifest /\ db.manifest # 0
      BY <1>2
    <3> QED
      BY <2>4, <2>8, <3>1
  <2>12. Tables(r) = T
    BY <2>8 DEF Tables
  <2> HIDE DEF m, r, T
  <2>13. Stored(T) \subseteq UNION {files'.tables[n] : n \in T \cap DOMAIN files'.tables}
    BY <2>5 DEF Stored
  <2>14. must' \ unsure' \subseteq Stored(T)
    BY <1>3, <2>6, <2>9 DEF Due
  <2>15. Open'
    BY <2>3 DEF Open
  <2>16. EntriesOK'
    <3>1. Stored(T) \subseteq DOMAIN calls
      BY DEF AckInv, EntriesOK, Stored
    <3>2. must' \subseteq must \cup DOMAIN calls
      BY <2>6, <3>1
    <3>3. \A n \in DOMAIN files'.tables : files'.tables[n] \subseteq DOMAIN calls
      BY <2>5 DEF AckInv, EntriesOK
    <3>4. \A n \in DOMAIN mems' : mems'[n] \subseteq DOMAIN calls
      BY <2>7
    <3> QED
      BY <1>1, <3>2, <3>3, <3>4, EntriesSame DEF AckInv
  <2>17. LogsOK'
    <3>1. \A n \in DOMAIN files'.logs : LogOK(files'.logs[n], DOMAIN calls)
      BY <2>5 DEF AckInv, LogsOK
    <3> QED
      BY <1>3, <3>1 DEF LogsOK, LogOK
  <2>18. OrderOK'
    <3>1. opening.log \in DOMAIN files'.logs /\ opening.log <= opening.log
      <4>1. opening.log >= opening.log /\ opening.log <= opening.log
        BY <1>2
      <4> QED
        BY <2>5, <2>10, <4>1
    <3>2. \A n \in DOMAIN files'.logs : n < db.next
      BY <2>5, <2>10
    <3> QED
      BY <1>2, <1>3, <2>3, <2>6, <2>7, <2>9, <2>10, <3>1, <3>2 DEF OrderOK
  <2>19. bg'.pc = "idle" /\ bg'.out = 0 /\ leader'.pc = "none"
    BY <1>2, <1>3, ClosedFacts
  <2>20. LatestOK'
    <3>1. Current' = m
      BY <2>4, <2>11 DEF Current
    <3>2. \A i \in Latest(m) : i = 1
      BY <2>8 DEF Latest
    <3>3. /\ VersionOK(r, r.next) /\ r.next <= db'.next /\ r.log_number <= db'.mem
      <4>1. r.next \in Nat /\ r.next <= r.next /\ r.next <= db.next /\ opening.log <= opening.log
        BY <1>2, <2>9 DEF VersionOK
      <4> QED
        BY <2>3, <2>9, <4>1 DEF VersionOK
    <3>4. ASSUME NEW k \in must' \ unsure' PROVE Found(k, Tables(r), r.log_number, files', calls')
      BY <2>12, <2>13, <2>14 DEF Found
    <3>5. \A i \in Latest(m) :
            LET s == m.recs[i] IN
            /\ VersionOK(s, m.recs[Len(m.recs)].next) /\ s.next <= db'.next /\ s.log_number <= db'.mem
            /\ \A k \in must' \ unsure' : Found(k, Tables(s), s.log_number, files', calls')
      <4>1. m.recs[1] = r /\ m.recs[Len(m.recs)] = r
        BY <2>8 DEF r
      <4> QED
        BY <3>2, <3>3, <3>4, <4>1
    <3> QED
      BY <2>19, <3>1, <3>5 DEF LatestOK, Latest, VersionOK, Tables, Due
  <2>21. JobOK' /\ LeaderOK'
    BY <2>19 DEF JobOK, LeaderOK
  <2>22. MemsKept'
    BY <2>3, <2>7, <2>9 DEF MemsKept
  <2>23. AcknowledgedSurvives'
    <3>1. must' \ unsure' \subseteq Stored(db.l0 \cup db.deep)'
      BY <2>6, <2>13, <2>14 DEF Stored
    <3> QED
      BY <3>1 DEF AcknowledgedSurvives, Contents
  <2>24. RecoveryOK'
    BY <1>3 DEF RecoveryOK
  <2> QED
    BY <2>16, <2>17, <2>18, <2>20, <2>21, <2>22, <2>23, <2>24 DEF AckInv
<1> QED
  BY <1>1, <1>4, <1>5
-----------------------------------------------------------------------------
(* Crashes. *)

\* The first records of a sequence.
LEMMA CutIs ==
  ASSUME NEW s, IsSeq(s), NEW c \in 0..Len(s)
  PROVE  /\ Len(s) \in Nat /\ IsSeq(SubSeq(s, 1, c)) /\ Len(SubSeq(s, 1, c)) = c
         /\ DOMAIN SubSeq(s, 1, c) = 1..c /\ \A i \in 1..c : SubSeq(s, 1, c)[i] = s[i]
<1> DEFINE cut == SubSeq(s, 1, c)
<1>1. PICK S : s \in Seq(S)
  BY DEF IsSeq
<1>2. Len(s) \in Nat
  BY <1>1, LenProperties
<1>3. \A i \in 1..c : s[i] \in S
  BY <1>1, <1>2, ElementOfSeq
<1>4. /\ cut \in Seq(S)
      /\ Len(cut) = IF 1 <= c THEN c - 1 + 1 ELSE 0
      /\ \A i \in 1..(c - 1 + 1) : cut[i] = s[1 + i - 1]
  BY <1>2, <1>3, SubSeqProperties
<1>5. Len(cut) = c /\ c - 1 + 1 = c
  BY <1>2, <1>4
<1>6. ASSUME NEW i \in 1..c PROVE cut[i] = s[i]
  <2>1. 1 + i - 1 = i
    BY <1>2
  <2> QED
    BY <1>4, <1>5, <2>1
<1>7. DOMAIN cut = 1..c
  BY <1>4, <1>5, LenProperties
<1> HIDE DEF cut
<1> QED
  BY <1>2, <1>4, <1>5, <1>6, <1>7 DEF cut, IsSeq

\* A log that lost records that were not synced: what was synced is kept, and
\* if none was lost, everything is.
LEMMA CutLog ==
  ASSUME NEW l, NEW C, LogOK(l, C), NEW c \in 0..Len(l.recs), l.synced <= c
  PROVE  LET m == [l EXCEPT !.recs = SubSeq(l.recs, 1, c)]
         IN /\ LogOK(m, C)
            /\ \A k, sync : Keeping(l, k, sync) /\ (sync \/ c = Len(l.recs)) => Keeping(m, k, sync)
<1> DEFINE cut == SubSeq(l.recs, 1, c)
           m == [l EXCEPT !.recs = cut]
<1>1. /\ DOMAIN l = {"recs", "synced", "bad"} /\ IsSeq(l.recs)
      /\ l.synced \in 0..Len(l.recs) /\ l.bad \in Nat
      /\ \A i \in 1..Len(l.recs) : l.recs[i] \subseteq C
  BY DEF LogOK
<1>2. /\ Len(l.recs) \in Nat /\ IsSeq(cut) /\ Len(cut) = c
      /\ DOMAIN cut = 1..c /\ \A i \in 1..c : cut[i] = l.recs[i]
  BY <1>1, CutIs
<1>3. Sound(l) \subseteq 1..Len(l.recs) /\ l.synced \in Nat
  BY LogFacts
<1> HIDE DEF cut
<1>4. DOMAIN m = {"recs", "synced", "bad"} /\ m.recs = cut /\ m.synced = l.synced /\ m.bad = l.bad
  BY <1>1
<1> HIDE DEF m
<1>5. LogOK(m, C)
  <2>1. l.synced \in 0..c /\ \A i \in 1..c : i \in 1..Len(l.recs)
    BY <1>2, <1>3
  <2> QED
    BY <1>1, <1>2, <1>4, <2>1 DEF LogOK
<1>6. ASSUME NEW k, NEW sync, Keeping(l, k, sync), sync \/ c = Len(l.recs)
      PROVE  Keeping(m, k, sync)
  <2>1. PICK i \in Sound(l) : k \in l.recs[i] /\ (sync => i <= l.synced)
    BY <1>6 DEF Keeping
  <2>2. i \in 1..c
    <3>1. i \in 1..Len(l.recs)
      BY <1>3
    <3>2. CASE c = Len(l.recs)
      BY <3>1, <3>2
    <3>3. CASE sync
      <4>1. i <= l.synced
        BY <2>1, <3>3
      <4> QED
        BY <1>2, <1>3, <3>1, <4>1
    <3> QED
      BY <1>6, <3>2, <3>3
  <2>3. i \in Sound(m) /\ m.recs[i] = l.recs[i]
    BY <1>2, <1>4, <2>2 DEF Sound
  <2> QED
    BY <1>4, <2>1, <2>3 DEF Keeping
<1> QED
  BY <1>5, <1>6 DEF m, cut

\* The records a restart may find after a crash are some of those before.
LEMMA CutLatest ==
  ASSUME NEW m, NEW n, NEW T, ManifestOK(m, n, T), NEW c \in {m.synced, Len(m.recs)}
  PROVE  LET k == [m EXCEPT !.recs = SubSeq(m.recs, 1, c)]
         IN \A i \in Latest(k) :
              /\ i \in Latest(m) /\ k.recs[i] = m.recs[i]
              /\ k.recs[Len(k.recs)] = m.recs[Len(m.recs)] \/ i = Len(k.recs)
<1> DEFINE cut == SubSeq(m.recs, 1, c)
           k == [m EXCEPT !.recs = cut]
<1>1. DOMAIN m = {"recs", "synced"} /\ IsSeq(m.recs) /\ m.synced \in 0..Len(m.recs)
  BY DEF ManifestOK
<1>2. Len(m.recs) \in Nat
  BY <1>1, LenProperties DEF IsSeq
<1>3. c \in 0..Len(m.recs)
  BY <1>1, <1>2
<1>4. /\ Len(cut) = c /\ \A i \in 1..c : cut[i] = m.recs[i]
  BY <1>1, <1>3, CutIs
<1> HIDE DEF cut
<1>5. k.recs = cut /\ k.synced = m.synced
  BY <1>1
<1> HIDE DEF k
<1>6. ASSUME NEW i \in Latest(k)
      PROVE  /\ i \in Latest(m) /\ k.recs[i] = m.recs[i]
             /\ k.recs[Len(k.recs)] = m.recs[Len(m.recs)] \/ i = Len(k.recs)
  <2>1. i \in 1..c /\ i >= m.synced
    BY <1>4, <1>5 DEF Latest
  <2>2. i \in 1..Len(m.recs)
    BY <1>2, <1>3, <2>1
  <2>3. CASE c = Len(m.recs)
    <3>1. c \in 1..c
      BY <1>3, <2>1
    <3> QED
      BY <1>4, <1>5, <2>1, <2>2, <2>3, <3>1 DEF Latest
  <2>4. CASE c = m.synced
    <3>1. i = c
      BY <1>1, <1>2, <2>1, <2>4
    <3> QED
      BY <1>4, <1>5, <2>1, <2>2, <3>1 DEF Latest
  <2> QED
    BY <2>3, <2>4
<1> QED
  BY <1>6 DEF k, cut

\* A crash of the process loses what is in memory, one of the machine also the
\* ends of files: what is still due is synced, in a log or in a version.
LEMMA CrashAck ==
  ASSUME Inv, Inv', AckInv, CallsKept, NEW machine \in BOOLEAN, Died(machine)
  PROVE  AckInv'
<1> DEFINE Cut(f, c) == [n \in DOMAIN f |-> [f[n] EXCEPT !.recs = SubSeq(f[n].recs, 1, c[n])]]
           Manifest(kept, n) == files.manifests[n].synced
                       + kept[n] * (Len(files.manifests[n].recs) - files.manifests[n].synced)
           Keep(keep) == \A n \in DOMAIN files.logs :
               IF machine THEN files.logs[n].synced <= keep[n] /\ keep[n] <= Len(files.logs[n].recs)
                          ELSE keep[n] = Len(files.logs[n].recs)
<1>1. /\ writers' = <<>> /\ leader' = NoLeader /\ db' = ClosedDB /\ mems' = NoFcn
      /\ opening' = NoOpening /\ unsure' = unsure
  BY Zenon DEF Died
<1>2. must' = IF machine THEN {k \in must : calls[k].sync} ELSE must
  BY Zenon DEF Died
<1> PICK keep \in [DOMAIN files.logs -> 0..Len(calls)], kept \in [DOMAIN files.manifests -> {0, 1}] :
           /\ Keep(keep)
           /\ files' = [files EXCEPT !.logs = Cut(@, keep),
                          !.manifests = Cut(@, [n \in DOMAIN files.manifests |-> Manifest(kept, n)])]
  BY Zenon DEF Died
<1> DEFINE at == [n \in DOMAIN files.manifests |-> Manifest(kept, n)]
<1>3. /\ files'.current = files.current /\ files'.tables = files.tables
      /\ files'.logs = Cut(files.logs, keep) /\ files'.manifests = Cut(files.manifests, at)
  <2> DEFINE logs == Cut(files.logs, keep)
             manifests == Cut(files.manifests, at)
  <2>1. files' = [files EXCEPT !.logs = logs, !.manifests = manifests]
    OBVIOUS
  <2> HIDE DEF logs, manifests
  <2>2. DOMAIN files = FileFields
    BY DEF Inv, RecordsOK
  <2>3. /\ files'.current = files.current /\ files'.tables = files.tables
        /\ files'.logs = logs /\ files'.manifests = manifests
    BY <2>1, <2>2 DEF FileFields
  <2> QED
    BY <2>3 DEF logs, manifests
<1>4. db'.state = "closed" /\ ~Open' /\ opening'.pc = "none"
  BY <1>1, ClosedDBIs DEF Open
<1>5. DOMAIN mems' = {}
  BY <1>1 DEF NoFcn
<1>6. \A k \in must' \ unsure' : k \in Due /\ k \in DOMAIN calls /\ (machine => calls[k].sync)
  BY <1>1, <1>2 DEF Due, AckInv, EntriesOK
<1>7. DOMAIN files'.logs = DOMAIN files.logs
  BY <1>3
<1>8. ASSUME NEW n \in DOMAIN files.logs
      PROVE  /\ LogOK(files'.logs[n], DOMAIN calls)
             /\ \A k, sync : Keeping(files.logs[n], k, sync) /\ (machine => sync) =>
                               Keeping(files'.logs[n], k, sync)
  <2> DEFINE l == files.logs[n]
             c == keep[n]
  <2>1. LogOK(l, DOMAIN calls) /\ files'.logs[n] = [l EXCEPT !.recs = SubSeq(l.recs, 1, c)]
    BY <1>3 DEF AckInv, LogsOK
  <2>2. IF machine THEN l.synced <= c /\ c <= Len(l.recs) ELSE c = Len(l.recs)
    OBVIOUS
  <2>3. c \in Nat
    OBVIOUS
  <2> HIDE DEF l, c, Keep
  <2>4. Len(l.recs) \in Nat /\ l.synced \in 0..Len(l.recs)
    BY <2>1, LogFacts DEF LogOK
  <2>5. c \in 0..Len(l.recs) /\ l.synced <= c /\ (machine \/ c = Len(l.recs))
    BY <2>2, <2>3, <2>4
  <2> DEFINE cut == [l EXCEPT !.recs = SubSeq(l.recs, 1, c)]
  <2>6. /\ LogOK(cut, DOMAIN calls)
        /\ \A k, sync : Keeping(l, k, sync) /\ (sync \/ c = Len(l.recs)) => Keeping(cut, k, sync)
    BY <2>1, <2>5, CutLog
  <2>7. files'.logs[n] = cut
    BY <2>1
  <2> HIDE DEF cut
  <2>8. ASSUME NEW k, NEW sync, Keeping(l, k, sync), machine => sync PROVE Keeping(cut, k, sync)
    BY <2>5, <2>6, <2>8, Zenon
  <2> QED
    BY <2>6, <2>7, <2>8 DEF l
<1> HIDE DEF Keep
<1>9. EntriesOK'
  <2>1. leader'.left = {} /\ leader'.group = {}
    BY <1>1 DEF NoLeader
  <2>2. Len(writers') = 0
    BY <1>1
  <2>3. must' \subseteq DOMAIN calls /\ \A n \in DOMAIN files'.tables : files'.tables[n] \subseteq DOMAIN calls
    BY <1>2, <1>3 DEF AckInv, EntriesOK
  <2> QED
    BY <1>5, <2>1, <2>2, <2>3 DEF EntriesOK, CallsKept
<1>10. LogsOK'
  <2>1. \A n \in DOMAIN files'.logs : LogOK(files'.logs[n], DOMAIN calls')
    BY <1>7, <1>8 DEF LogOK, CallsKept
  <2> QED
    BY <2>1 DEF LogsOK, LogOK
<1>11. OrderOK' /\ RecoveryOK'
  BY <1>4, <1>5 DEF OrderOK, RecoveryOK
<1>12. bg'.pc # "logging"
  BY <1>4 DEF Inv, ControlOK
<1>13. ASSUME NEW T, NEW log, NEW k \in must' \ unsure', Found(k, T, log, files, calls)
       PROVE  Found(k, T, log, files', calls')
  <2>1. k \in DOMAIN calls /\ calls'[k].sync = calls[k].sync /\ (machine => calls[k].sync)
    BY <1>6 DEF CallsKept
  <2>2. CASE \E n \in T \cap DOMAIN files.tables : k \in files.tables[n]
    BY <1>3, <2>2 DEF Found
  <2>3. CASE \E n \in DOMAIN files.logs : n >= log /\ Keeping(files.logs[n], k, calls[k].sync)
    BY <1>7, <1>8, <2>1, <2>3 DEF Found
  <2> QED
    BY <1>13, <2>2, <2>3 DEF Found
<1>14. LatestOK'
  <2> SUFFICES ASSUME files.current # 0 PROVE LatestOK'
    BY <1>3 DEF LatestOK
  <2> DEFINE c == files.current
             m == files.manifests[c]
             k == [m EXCEPT !.recs = SubSeq(m.recs, 1, at[c])]
  <2>1. c \in DOMAIN files.manifests /\ ManifestOK(m, c, DOMAIN files.tables)
    BY DEF Inv, CurrentOK
  <2>2. at[c] \in {m.synced, Len(m.recs)}
    <3>1. Len(m.recs) \in Nat /\ m.synced \in Nat
      <4>1. PICK S : m.recs \in Seq(S)
        BY <2>1 DEF ManifestOK, IsSeq
      <4>2. Len(m.recs) \in Nat
        BY <4>1, LenProperties
      <4> QED
        <5>1. m.synced \in 0..Len(m.recs)
          BY <2>1 DEF ManifestOK
        <5> QED
          BY <4>2, <5>1
    <3>2. at[c] = m.synced + kept[c] * (Len(m.recs) - m.synced) /\ kept[c] \in {0, 1}
      BY <2>1
    <3> HIDE DEF at
    <3>3. CASE kept[c] = 0
      <4>1. kept[c] * (Len(m.recs) - m.synced) = 0
        BY <3>1, <3>3
      <4> QED
        BY <3>1, <3>2, <4>1
    <3>4. CASE kept[c] = 1
      BY <3>1, <3>2, <3>4
    <3> QED
      BY <3>2, <3>3, <3>4
  <2>3. Current = m
    BY DEF Current
  <2>4. Current' = k
    BY <1>3, <2>1 DEF Current
  <2>5. \A i \in Latest(m) :
          /\ VersionOK(m.recs[i], m.recs[Len(m.recs)].next)
          /\ \A j \in Due : Found(j, Tables(m.recs[i]), m.recs[i].log_number, files, calls)
    BY <2>3 DEF AckInv, LatestOK
  <2> HIDE DEF at
  <2>6. \A i \in Latest(k) :
          /\ i \in Latest(m) /\ k.recs[i] = m.recs[i]
          /\ k.recs[Len(k.recs)] = m.recs[Len(m.recs)] \/ i = Len(k.recs)
    BY <2>1, <2>2, CutLatest
  <2> HIDE DEF k, m
  <2>7. ASSUME NEW i \in Latest(k)
        PROVE  /\ VersionOK(k.recs[i], k.recs[Len(k.recs)].next)
               /\ \A j \in must' \ unsure' :
                    Found(j, Tables(k.recs[i]), k.recs[i].log_number, files', calls')
    <3> DEFINE r == k.recs[i]
    <3>1. /\ VersionOK(r, m.recs[Len(m.recs)].next)
          /\ k.recs[Len(k.recs)] = m.recs[Len(m.recs)] \/ i = Len(k.recs)
          /\ \A j \in Due : Found(j, Tables(r), r.log_number, files, calls)
      BY <2>5, <2>6
    <3>2. k.recs[Len(k.recs)] = m.recs[Len(m.recs)] \/ k.recs[Len(k.recs)] = r
      BY <3>1
    <3> HIDE DEF r
    <3>3. VersionOK(r, r.next)
      BY <3>1 DEF VersionOK
    <3>4. VersionOK(r, k.recs[Len(k.recs)].next)
      BY <3>1, <3>2, <3>3
    <3>5. \A j \in must' \ unsure' : Found(j, Tables(r), r.log_number, files', calls')
      BY <1>6, <1>13, <3>1
    <3> QED
      BY <3>4, <3>5 DEF r
  <2> QED
    BY <1>4, <1>12, <2>4, <2>7 DEF LatestOK, Latest, VersionOK, Tables, Due
<1> QED
  BY <1>4, <1>9, <1>10, <1>11, <1>14, ClosedAck

-----------------------------------------------------------------------------
(* The theorem. *)

\* Nothing is due in the initial states.
LEMMA InitAck == DBInit => AckInv
<1> SUFFICES ASSUME DBInit PROVE AckInv
  OBVIOUS
<1>1. /\ files = [logs |-> NoFcn, tables |-> NoFcn, manifests |-> NoFcn, current |-> 0]
      /\ writers = <<>> /\ db = ClosedDB /\ must = {} /\ mems = NoFcn
      /\ leader = NoLeader /\ bg = IdleBG /\ opening = NoOpening
  BY DEF DBInit
<1>2. files.current = 0 /\ DOMAIN files.logs = {} /\ DOMAIN files.tables = {} /\ DOMAIN mems = {}
  BY <1>1 DEF NoFcn
<1>3. db.state = "closed" /\ ~Open /\ opening.pc = "none"
  BY <1>1, ClosedDBIs DEF Open
<1>4. leader.pc = "none" /\ leader.left = {} /\ leader.group = {} /\ bg.pc = "idle" /\ bg.out = 0
  BY <1>1 DEF NoLeader, IdleBG
<1>5. EntriesOK
  BY <1>1, <1>2, <1>4 DEF EntriesOK
<1>6. LogsOK /\ LatestOK
  BY <1>2 DEF LogsOK, LatestOK
<1>7. OrderOK /\ RecoveryOK
  BY <1>2, <1>3 DEF OrderOK, RecoveryOK
<1>8. JobOK /\ LeaderOK
  BY <1>4 DEF JobOK, LeaderOK
<1>9. MemsKept /\ AcknowledgedSurvives
  BY <1>3 DEF MemsKept, AcknowledgedSurvives
<1> QED
  BY <1>5, <1>6, <1>7, <1>8, <1>9 DEF AckInv

\* Every step keeps the invariant, if Open reports every error of recovery.
LEMMA NextAck ==
  ASSUME ~SilentFaults
  PROVE  Inv /\ AckInv /\ [DBNext]_dbVars => AckInv'
<1> SUFFICES ASSUME Inv, AckInv, [DBNext]_dbVars PROVE AckInv'
  OBVIOUS
<1>1. Inv' /\ CallsKept
  BY NextInv, CallsGrow
<1>2. CASE Write \/ CompactRange
  <2>1. PICK sync, null : Enqueue(sync, null)
    BY <1>2 DEF Write, CompactRange
  <2> QED
    BY <1>1, <2>1, EnqueueAck
<1>3. CASE WriterStep
  BY <1>1, <1>3, RoomAck, SwitchAck, AppendAck, InsertAck, FinishAck DEF WriterStep
<1>4. CASE NewIterator \/ ReleaseIterator
  BY <1>1, <1>4, ReaderAck
<1>5. CASE BackgroundStep
  BY <1>1, <1>5, NothingAck, CompactMemAck, WriteTableAck, StartAck, OutputAck, LogAck
     DEF BackgroundStep
<1>6. CASE ManualStep
  BY <1>1, <1>6, ManualAck
<1>7. CASE OpenStep
  BY <1>1, <1>7, NewDBAck, RecoverAck, RecoverLogAck, OpenFailsAck, OpenLogAck, OpenInstallAck
     DEF OpenStep
<1>8. CASE Shutdown \/ Close \/ DestroyDB
  BY <1>1, <1>8, ShutdownAck, CloseAck, DestroyAck
<1>9. CASE ProcessCrash \/ MachineCrash \/ NullDereference
  BY <1>1, <1>9, CrashAck DEF ProcessCrash, MachineCrash, NullDereference
<1>10. CASE UNCHANGED dbVars
  <2>1. UNCHANGED <<files, calls, writers, db, mems, leader, bg, opening, must, unsure>>
    BY <1>10 DEF dbVars
  <2>2. EntriesOK' /\ LogsOK'
    BY <2>1 DEF AckInv, EntriesOK, LogsOK, LogOK
  <2>3. OrderOK'
    BY <2>1 DEF AckInv, OrderOK, Open
  <2>4. LatestOK'
    BY <2>1 DEF AckInv, LatestOK, Latest, Current, VersionOK, Tables, Due, Open
  <2>5. JobOK'
    <3>1. files' = files /\ db' = db /\ mems' = mems /\ bg' = bg
      BY <2>1
    <3>2. JobOK
      BY DEF AckInv
    <3>3. InUse' = InUse
      BY <3>1 DEF InUse, Tables, Latest, Current
    <3>4. \A S : Stored(S)' = Stored(S)
      BY <3>1 DEF Stored
    <3> QED
      BY <3>1, <3>2, <3>3, <3>4 DEF JobOK
  <2>6. LeaderOK' /\ MemsKept'
    BY <2>1 DEF AckInv, LeaderOK, MemsKept, Kept, Open
  <2>7. AcknowledgedSurvives'
    BY <2>1 DEF AckInv, AcknowledgedSurvives, Contents, Mem, Stored, Open
  <2>8. RecoveryOK'
    <3>1. /\ files' = files /\ db' = db /\ opening' = opening
          /\ must' = must /\ unsure' = unsure
      BY <2>1
    <3>2. RecoveryOK
      BY DEF AckInv
    <3>3. Due' = Due
      BY <3>1 DEF Due
    <3>4. \A S : Stored(S)' = Stored(S)
      BY <3>1 DEF Stored
    <3> QED
      BY <3>1, <3>2, <3>3, <3>4 DEF RecoveryOK
  <2> QED
    BY <2>2, <2>3, <2>4, <2>5, <2>6, <2>7, <2>8 DEF AckInv
<1> QED
  BY <1>2, <1>3, <1>4, <1>5, <1>6, <1>7, <1>8, <1>9, <1>10 DEF DBNext

\* No acknowledged write is missing from an open database: not after a crash
\* of the process or a failed flush, compaction or sync, and not after a crash
\* of the machine if it was synced; unless its log had a failed append before.
\* Assumed is that Open reports every error that RecoverLogFile meets. It does
\* not: it goes on after an error in a log that is not the last (run
\* leveldb_recover), and without paranoid_checks it takes a log that cannot be
\* opened or read for an empty one; the log is then deleted.
THEOREM DBDurable ==
  ASSUME ~SilentFaults
  PROVE  DBSpec => []AcknowledgedSurvives
<1>1. DBInit => Inv /\ AckInv
  BY InitInv, InitAck
<1>2. (Inv /\ AckInv) /\ [DBNext]_dbVars => (Inv /\ AckInv)'
  BY NextInv, NextAck
<1>3. Inv /\ AckInv => AcknowledgedSurvives
  BY DEF AckInv
<1> QED
  BY <1>1, <1>2, <1>3, PTL DEF DBSpec
=============================================================================
