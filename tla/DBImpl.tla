------------------------------- MODULE DBImpl -------------------------------
(***************************************************************************)
(* leveldb's DBImpl (db/db_impl.cc, db/db_impl.h): the queue of writers    *)
(* and the group commit, the write-ahead logs and the memtables they stand *)
(* for, the background thread, the files it makes and deletes, readers     *)
(* that pin what they read, and the recovery of all this after a crash of  *)
(* the process or of the machine.                                          *)
(*                                                                         *)
(* A Write call is its number in the order of arrival; its batch holds one *)
(* entry. A memtable is named by the number of its log. A table holds a    *)
(* set of writes, and a version is the tables of level 0 and those below:  *)
(* levels and keys are those of Compaction. A record of a MANIFEST is the  *)
(* state its edits amount to (ManifestIsCurrent of Compaction). One step   *)
(* is what a thread does between two releases of mutex_.                   *)
(***************************************************************************)
EXTENDS Naturals, Sequences, FiniteSets, FiniteSetsExt

CONSTANTS
  Plans,                     \* bounds on the Write calls, the stops (shutdowns, crashes
                             \* and DestroyDBs), the I/O errors and the iterators
  MaxFile,                   \* bound on the file numbers
  paranoid_checks,           \* the option: do not ignore errors in the logs
  SilentFaults,              \* whether recovery may meet errors that Open does not report
  WriteBuffer,               \* write_buffer_size, in entries
  MaxGroup,                  \* entries that fit in a group
  kL0_CompactionTrigger,
  kL0_SlowdownWritesTrigger,
  kL0_StopWritesTrigger

ASSUME DBAssumption ==
  /\ Plans \subseteq [writes : Nat, stops : Nat, faults : Nat, readers : Nat]
  /\ {MaxFile, WriteBuffer, MaxGroup} \subseteq Nat
  /\ {paranoid_checks, SilentFaults} \subseteq BOOLEAN
  /\ kL0_CompactionTrigger \in Nat \ {0}
  /\ kL0_CompactionTrigger <= kL0_StopWritesTrigger
  /\ kL0_SlowdownWritesTrigger <= kL0_StopWritesTrigger

VARIABLES
  files,    \* the directory: logs, tables and manifests by number, and CURRENT
  calls,    \* the Write calls: sync, null batch, sequence number, status
  writers,  \* writers_
  db,       \* DBImpl's and VersionSet's fields
  mems,     \* the memtables that are referenced, by log number
  leader,   \* locals of the Write call at the front of writers_
  bg,       \* locals of the background thread
  manual,   \* the thread in CompactRange
  asleep,   \* threads waiting on bg_cv_
  opening,  \* locals of Open and Recover
  iter,     \* an iterator or a Get: what it pinned
  must,     \* history: writes that the database has promised to keep
  unsure,   \* history: writes acknowledged after a failed append to their log
  budget    \* what is left of the plan

dbVars == <<files, calls, writers, db, mems, leader, bg, manual, asleep,
            opening, iter, must, unsure, budget>>

-----------------------------------------------------------------------------
With(f, n, v) == [m \in DOMAIN f \cup {n} |-> IF m = n THEN v ELSE f[m]]
Only(f, S) == [m \in DOMAIN f \cap S |-> f[m]]
Elements(s) == {s[i] : i \in DOMAIN s}
NoFcn == [n \in {} |-> 0]

\* A log: its records, each the writes of a group, how many of them are synced,
\* and the index of the first record behind a failed append (0: none).
NewLog == [recs |-> <<>>, synced |-> 0, bad |-> 0]
NewManifest(recs, synced) == [recs |-> recs, synced |-> synced]
State(l0, deep, log, next, seq) ==
  [l0 |-> l0, deep |-> deep, log_number |-> log, next |-> next, last_sequence |-> seq]

ClosedDB == [state |-> "closed", mem |-> 0, imm |-> 0, bg_error |-> FALSE,
             scheduled |-> FALSE, shutting_down |-> FALSE, manual |-> FALSE,
             pending_outputs |-> {}, next |-> 0, last_sequence |-> 0, log_number |-> 0,
             manifest |-> 0, l0 |-> {}, deep |-> {}, seek |-> FALSE]
NoLeader == [pc |-> "none", call |-> 0, force |-> FALSE, allow_delay |-> FALSE,
             group |-> {}, left |-> {}, last |-> 0, status |-> "ok"]
IdleBG == [pc |-> "idle", job |-> "none", base |-> {}, in0 |-> {}, in1 |-> {}, out |-> 0,
           table |-> 0, edit |-> State({}, {}, 0, 0, 0), is_manual |-> FALSE]
NoManual == [pc |-> "none", done |-> FALSE, call |-> 0]
NoOpening == [pc |-> "none", todo |-> {}, s |-> "ok", l0 |-> {}, max_sequence |-> 0, log |-> 0]
NoIter == [on |-> FALSE, mem |-> 0, imm |-> 0, tables |-> {}, snapshot |-> 0, expected |-> {}]

DBInit ==
  /\ files = [logs |-> NoFcn, tables |-> NoFcn, manifests |-> NoFcn, current |-> 0]
  /\ calls = <<>> /\ writers = <<>>
  /\ db = ClosedDB /\ mems = NoFcn
  /\ leader = NoLeader /\ bg = IdleBG /\ manual = NoManual /\ asleep = {}
  /\ opening = NoOpening /\ iter = NoIter
  /\ must = {} /\ unsure = {}
  /\ budget \in Plans

-----------------------------------------------------------------------------
(* What is in the database, and what is live. *)
Stored(tables) == UNION {files.tables[n] : n \in tables \cap DOMAIN files.tables}
Mem(n) == IF n \in DOMAIN mems THEN mems[n] ELSE {}
Contents == Mem(db.mem) \cup Mem(db.imm) \cup Stored(db.l0 \cup db.deep)
Visible == {k \in Contents : calls[k].seq <= db.last_sequence}

\* Tables of every version that is referenced, and AddLiveFiles.
LiveTables(d, b) == d.l0 \cup d.deep \cup iter.tables \cup b.base

\* Mutant: files are deleted after a background error too.
CollectAfterError(f, d, b) ==
  [f EXCEPT !.logs = Only(@, {n \in DOMAIN @ : n >= d.log_number}),
            !.manifests = Only(@, {n \in DOMAIN @ : n >= d.manifest}),
            !.tables = Only(@, LiveTables(d, b) \cup d.pending_outputs)]

\* Mutant: the files of older versions are not kept.
CollectVersions(f, d, b) ==
  IF d.bg_error THEN f
  ELSE [f EXCEPT !.logs = Only(@, {n \in DOMAIN @ : n >= d.log_number}),
                 !.manifests = Only(@, {n \in DOMAIN @ : n >= d.manifest}),
                 !.tables = Only(@, d.l0 \cup d.deep \cup d.pending_outputs)]

\* Files left of f when the state is d and the background thread's is b.
DeleteObsoleteFiles(f, d, b) ==
  IF d.bg_error THEN f
  ELSE [f EXCEPT !.logs = Only(@, {n \in DOMAIN @ : n >= d.log_number}),
                 !.manifests = Only(@, {n \in DOMAIN @ : n >= d.manifest}),
                 !.tables = Only(@, LiveTables(d, b) \cup d.pending_outputs)]

NeedsCompaction(d) == Cardinality(d.l0) >= kL0_CompactionTrigger \/ d.seek

MaybeScheduleCompaction(d) ==
  [d EXCEPT !.scheduled = \/ @
                          \/ /\ ~d.shutting_down /\ ~d.bg_error
                             /\ (d.imm # 0 \/ d.manual \/ NeedsCompaction(d))]

RecordBackgroundError(d) == [d EXCEPT !.bg_error = TRUE]

Fine == UNCHANGED budget
Faulty == budget.faults > 0 /\ budget' = [budget EXCEPT !.faults = @ - 1]
Stopping == budget.stops > 0 /\ budget' = [budget EXCEPT !.stops = @ - 1]
Reading == budget.readers > 0 /\ budget' = [budget EXCEPT !.readers = @ - 1]
Writing == budget.writes > 0 /\ budget' = [budget EXCEPT !.writes = @ - 1]

\* next_file_number_ after NewFileNumber.
NewFileNumber(n) == n + 1

Open == db.state = "open"

\* mutex_ can be taken: the background thread does not hold it for good.
CanLock == bg.pc # "null"
CanNumber == db.next <= MaxFile

-----------------------------------------------------------------------------
(* Write. *)
Lead(k, null) == [NoLeader EXCEPT !.pc = "room", !.call = k, !.force = null,
                                  !.allow_delay = ~null]

\* A Write call arrives; it leads if the queue is empty.
Enqueue(sync, null) ==
  LET k == Len(calls) + 1 IN
  /\ Open /\ CanLock /\ ~db.shutting_down /\ Writing
  /\ calls' = Append(calls, [sync |-> sync, null |-> null, seq |-> 0, status |-> "waiting"])
  /\ writers' = Append(writers, k)
  /\ leader' = IF writers = <<>> THEN Lead(k, null) ELSE leader
  /\ UNCHANGED <<files, db, mems, bg, asleep, opening, iter, must, unsure>>

Write == \E sync \in BOOLEAN : Enqueue(sync, FALSE) /\ UNCHANGED manual

Room == leader.pc = "room" /\ CanLock /\ "writer" \notin asleep

RoomUnchanged == UNCHANGED <<writers, bg, manual, opening, iter, must, unsure>>

\* MakeRoomForWrite yields the background error.
RoomError ==
  /\ Room /\ db.bg_error
  /\ leader' = [leader EXCEPT !.pc = "finish", !.status = "error", !.last = leader.call]
  /\ RoomUnchanged /\ UNCHANGED <<files, calls, db, mems, asleep, budget>>

MustDelay == leader.allow_delay /\ Cardinality(db.l0) >= kL0_SlowdownWritesTrigger

\* The write is delayed once, outside the mutex.
RoomDelay ==
  /\ Room /\ ~db.bg_error /\ MustDelay
  /\ leader' = [leader EXCEPT !.allow_delay = FALSE]
  /\ RoomUnchanged /\ UNCHANGED <<files, calls, db, mems, asleep, budget>>

HasRoom == ~leader.force /\ Cardinality(mems[db.mem]) <= WriteBuffer

\* The entries in the batches of the writers s; their order is that of arrival.
Entries(s) == {k \in Elements(s) : ~calls[k].null}

\* Mutant: a sync write joins the group of a write that is not synced.
GroupAnySync(first) ==
  LET ms == {m \in DOMAIN writers : Cardinality(Entries(SubSeq(writers, 1, m))) <= MaxGroup}
  IN SubSeq(writers, 1, Max(ms))

\* BuildBatchGroup: the writers the first one writes for.
BuildBatchGroup(first) ==
  LET Joins(m) == /\ ~(calls[writers[m]].sync /\ ~calls[first].sync)
                  /\ \/ calls[writers[m]].null
                     \/ Cardinality(Entries(SubSeq(writers, 1, m))) <= MaxGroup
  IN SubSeq(writers, 1, Max({m \in DOMAIN writers : \A i \in 2..m : Joins(i)}))

\* There is room: the group is built and numbered; a null batch is done.
RoomFound ==
  /\ Room /\ ~db.bg_error /\ ~MustDelay /\ HasRoom
  /\ IF calls[leader.call].null
       THEN /\ leader' = [leader EXCEPT !.pc = "finish", !.last = leader.call]
            /\ UNCHANGED calls
       ELSE LET all == BuildBatchGroup(leader.call)
                group == Entries(all)
            IN /\ leader' = [leader EXCEPT !.pc = "append", !.group = group, !.left = group,
                                           !.last = all[Len(all)]]
               /\ calls' = [k \in DOMAIN calls |->
                              IF k \in group
                                THEN [calls[k] EXCEPT !.seq =
                                       db.last_sequence + Cardinality({j \in group : j <= k})]
                                ELSE calls[k]]
  /\ RoomUnchanged /\ UNCHANGED <<files, db, mems, asleep, budget>>

NoRoom == Room /\ ~db.bg_error /\ ~MustDelay /\ ~HasRoom
MustWait == db.imm # 0 \/ Cardinality(db.l0) >= kL0_StopWritesTrigger

\* The previous memtable is still being written, or level 0 is full.
RoomWait ==
  /\ NoRoom /\ MustWait
  /\ asleep' = asleep \cup {"writer"}
  /\ RoomUnchanged /\ UNCHANGED <<files, calls, db, mems, leader, budget>>

\* A new log and a new memtable, or no new log and its number given back.
RoomSwitch ==
  /\ NoRoom /\ ~MustWait /\ CanNumber
  /\ \/ /\ Fine
        /\ files' = [files EXCEPT !.logs = With(@, db.next, NewLog)]
        /\ mems' = With(mems, db.next, {})
        /\ db' = MaybeScheduleCompaction([db EXCEPT !.next = NewFileNumber(@), !.mem = db.next, !.imm = db.mem])
        /\ leader' = [leader EXCEPT !.force = FALSE]
     \/ /\ Faulty
        /\ leader' = [leader EXCEPT !.pc = "finish", !.status = "error", !.last = leader.call]
        /\ UNCHANGED <<files, mems, db>>
  /\ RoomUnchanged /\ UNCHANGED <<calls, asleep>>

\* Mutant: the entries are applied although they could not be synced.
InsertAfterSyncError == "insert"

\* Where Write goes on after a failed Sync.
AfterSyncError == "finish"

\* AddRecord and Sync, outside the mutex. A failed append may have left the
\* whole record in the file, and what is appended after it may be unreadable.
AppendToLog ==
  LET log == files.logs[db.mem]
      longer == [log EXCEPT !.recs = Append(@, leader.group)]
      sync == calls[leader.call].sync
      SetLog(l) == files' = [files EXCEPT !.logs[db.mem] = l]
      Next_(pc, status) == leader' = [leader EXCEPT !.pc = pc, !.status = status]
  IN /\ leader.pc = "append"
     /\ \/ /\ Fine /\ Next_("insert", "ok")
           /\ SetLog(IF sync THEN [longer EXCEPT !.synced = Len(longer.recs)] ELSE longer)
        \/ /\ Faulty /\ Next_("finish", "error")
           /\ \E l \in {log, longer} :
                SetLog([l EXCEPT !.bad = IF @ = 0 THEN Len(log.recs) + 1 ELSE @])
        \/ /\ Faulty /\ sync /\ Next_(AfterSyncError, "sync_error") /\ SetLog(longer)
     /\ unsure' = IF log.bad # 0 THEN unsure \cup leader.group ELSE unsure
     /\ UNCHANGED <<calls, writers, db, mems, bg, manual, asleep, opening, iter, must>>

\* InsertInto puts the entries into the memtable one by one; readers may run
\* in between.
InsertInto ==
  LET k == Min(leader.left) IN
  /\ leader.pc = "insert"
  /\ mems' = [mems EXCEPT ![db.mem] = @ \cup {k}]
  /\ leader' = [leader EXCEPT !.left = @ \ {k}, !.pc = IF leader.left = {k} THEN "finish" ELSE "insert"]
  /\ UNCHANGED <<files, calls, writers, db, bg, manual, asleep, opening, iter, must, unsure, budget>>

\* Mutant: the sequence numbers of a failed group are given out again.
AdvanceIfOk(n) == IF leader.status = "ok" THEN db.last_sequence + n ELSE db.last_sequence

\* SetLastSequence, whatever became of the group.
AdvanceSequence(n) == db.last_sequence + n

\* The group is answered and the next writer leads. A failed sync is an error
\* for all writes to come.
FinishWrite ==
  LET n == CHOOSE i \in DOMAIN writers : writers[i] = leader.last
      group == {writers[i] : i \in 1..n}
      rest == SubSeq(writers, n + 1, Len(writers))
      answer == IF leader.status = "ok" THEN "ok" ELSE "error"
      d == [db EXCEPT !.last_sequence = AdvanceSequence(Cardinality(leader.group))]
  IN /\ leader.pc = "finish" /\ CanLock
     /\ db' = IF leader.status = "sync_error" THEN RecordBackgroundError(d) ELSE d
     /\ asleep' = IF leader.status = "sync_error" THEN {} ELSE asleep
     /\ calls' = [k \in DOMAIN calls |-> IF k \in group THEN [calls[k] EXCEPT !.status = answer]
                                                        ELSE calls[k]]
     /\ writers' = rest
     /\ leader' = IF rest = <<>> THEN NoLeader ELSE Lead(rest[1], calls[rest[1]].null)
     /\ must' = IF answer = "ok" THEN must \cup leader.group ELSE must
     /\ UNCHANGED <<files, mems, bg, manual, opening, iter, unsure, budget>>

-----------------------------------------------------------------------------
(* Readers. *)

\* Mutant: a reader takes no reference to the immutable memtable.
PinWithoutImm == 0

\* The immutable memtable a reader takes a reference to.
PinnedImm == db.imm

\* Get and NewInternalIterator: the snapshot and what is referenced are taken
\* under the mutex, the reading is done outside.
NewIterator ==
  /\ Open /\ CanLock /\ ~db.shutting_down /\ ~iter.on /\ Reading
  /\ iter' = [on |-> TRUE, mem |-> db.mem, imm |-> PinnedImm, tables |-> db.l0 \cup db.deep,
              snapshot |-> db.last_sequence, expected |-> must]
  /\ UNCHANGED <<files, calls, writers, db, mems, leader, bg, manual, asleep, opening, must, unsure>>

Referenced(d, it) == {d.mem, d.imm} \cup {it.mem, it.imm}

\* CleanupIteratorState, and the end of Get: a seek may have been charged to a
\* file, which is then due for a compaction.
ReleaseIterator ==
  /\ iter.on /\ CanLock
  /\ \E seek \in {db.seek, db.deep # {}} : db' = MaybeScheduleCompaction([db EXCEPT !.seek = seek])
  /\ iter' = NoIter
  /\ mems' = Only(mems, Referenced(db, NoIter))
  /\ UNCHANGED <<files, calls, writers, leader, bg, manual, asleep, opening, must, unsure, budget>>

-----------------------------------------------------------------------------
(* The background thread. *)
BGUnchanged == UNCHANGED <<calls, writers, leader, opening, iter, must, unsure>>

\* Mutant: the threads that wait on bg_cv_ are not woken.
SignalNobody == asleep

\* Threads that still wait after bg_cv_.SignalAll().
SignalAll == {}

\* Mutant: a manual compaction that finds nothing to do is not done.
NeverDone(done) == FALSE

ManualDone(done) == done

\* The end of BackgroundCompaction and BackgroundCall: a compaction that began
\* as manual writes to *manual_compaction_ and clears it; it is done if there
\* was nothing to do or an error. Another round is scheduled if there is work.
\* If TEST_CompactRange has given up in the meantime the pointer is NULL.
BackgroundDone(d, is_manual, done) ==
  IF is_manual /\ ~d.manual
    THEN /\ db' = d /\ bg' = [IdleBG EXCEPT !.pc = "null"]
         /\ UNCHANGED <<manual, asleep>>
    ELSE /\ db' = MaybeScheduleCompaction([d EXCEPT !.scheduled = FALSE,
                                                   !.manual = @ /\ ~is_manual])
         /\ manual' = IF is_manual THEN [manual EXCEPT !.done = ManualDone(done)] ELSE manual
         /\ bg' = IdleBG
         /\ asleep' = SignalAll

\* CompactMemTable returned: to DoCompactionWork or to BackgroundCall, which
\* leaves a manual compaction to the next round.
MemTableDone(d) ==
  IF bg.job = "both"
    THEN /\ db' = d /\ bg' = [bg EXCEPT !.pc = "working", !.table = 0, !.job = "compact"]
         /\ asleep' = SignalAll /\ UNCHANGED manual
    ELSE /\ db' = MaybeScheduleCompaction([d EXCEPT !.scheduled = FALSE])
         /\ bg' = IdleBG /\ asleep' = SignalAll /\ UNCHANGED manual

Called == db.scheduled /\ bg.pc = "idle"
Works == Called /\ ~db.shutting_down /\ ~db.bg_error

\* BackgroundCall has nothing to do.
BackgroundNothing ==
  /\ Called
  /\ \/ db.shutting_down \/ db.bg_error
     \/ db.imm = 0 /\ (IF db.manual THEN db.l0 = {} ELSE ~NeedsCompaction(db))
  /\ IF db.shutting_down \/ db.bg_error
       THEN /\ db' = MaybeScheduleCompaction([db EXCEPT !.scheduled = FALSE])
            /\ asleep' = SignalAll /\ UNCHANGED <<manual, bg>>
       ELSE BackgroundDone(db, db.manual, TRUE)
  /\ BGUnchanged /\ UNCHANGED <<files, mems, budget>>

\* CompactMemTable starts, first thing or in the middle of a compaction
\* (has_imm_): WriteLevel0Table takes a number and releases the mutex.
CompactMemTable ==
  /\ db.imm # 0 /\ CanNumber
  /\ Works \/ (bg.pc = "working" /\ ~db.shutting_down)
  /\ db' = [db EXCEPT !.next = NewFileNumber(@), !.pending_outputs = @ \cup {db.next}]
  /\ bg' = [bg EXCEPT !.pc = "building", !.table = db.next,
                      !.job = IF bg.pc = "working" THEN "both" ELSE "mem"]
  /\ BGUnchanged /\ UNCHANGED <<files, mems, manual, asleep, budget>>

\* BuildTable has written and synced the table (none for an empty memtable); the edit is made under the
\* mutex and LogAndApply releases it again. PickLevelForMemTableOutput may
\* choose a deeper level.
WriteLevel0Table ==
  LET d == [db EXCEPT !.pending_outputs = @ \ {bg.table}]
      n == IF mems[db.imm] = {} THEN {} ELSE {bg.table}
  IN /\ bg.pc = "building"
     /\ \/ /\ Fine
           /\ files' = IF n = {} THEN files
                       ELSE [files EXCEPT !.tables = With(@, bg.table, mems[db.imm])]
           /\ IF db.shutting_down
                THEN MemTableDone(RecordBackgroundError(d))
                ELSE /\ db' = d
                     /\ \E deep \in {FALSE, db.l0 = {}} :
                          bg' = [bg EXCEPT !.pc = "logging",
                                   !.edit = State(IF deep THEN d.l0 ELSE d.l0 \cup n,
                                                  IF deep THEN d.deep \cup n ELSE d.deep,
                                                  db.mem, d.next, d.last_sequence)]
                     /\ UNCHANGED <<manual, asleep>>
        \/ Faulty /\ MemTableDone(RecordBackgroundError(d)) /\ UNCHANGED files
     /\ BGUnchanged /\ UNCHANGED mems

\* BackgroundCompaction picks its inputs: all of level 0 here, or one deeper
\* file that was charged with seeks, and the files they overlap below. A
\* single file without overlap is moved by an edit alone.
StartCompaction ==
  LET seek == ~db.manual /\ Cardinality(db.l0) < kL0_CompactionTrigger
      in0 == IF seek THEN {} ELSE db.l0
  IN /\ Works /\ db.imm = 0
     /\ IF db.manual THEN db.l0 # {} ELSE NeedsCompaction(db)
     /\ \E in1 \in IF seek THEN {{n} : n \in db.deep} ELSE {{}, db.deep} :
          bg' = IF ~db.manual /\ Cardinality(in0) = 1 /\ in1 = {}
                  THEN [bg EXCEPT !.pc = "logging", !.job = "move", !.base = db.l0 \cup db.deep,
                                  !.edit = State({}, db.deep \cup in0, db.log_number, db.next,
                                                 db.last_sequence)]
                  ELSE [bg EXCEPT !.pc = "working", !.job = "compact",
                                  !.base = db.l0 \cup db.deep, !.in0 = in0, !.in1 = in1,
                                  !.is_manual = db.manual]
     /\ BGUnchanged /\ UNCHANGED <<files, db, mems, manual, asleep, budget>>

\* CleanupCompaction, ReleaseInputs and DeleteObsoleteFiles after a
\* compaction that left the state d and the files f.
CompactionEnds(f, d, ok) ==
  LET d2 == [d EXCEPT !.pending_outputs = @ \ {bg.out}, !.bg_error = @ \/ ~ok]
  IN /\ BackgroundDone(d2, bg.is_manual, ~ok)
     /\ files' = DeleteObsoleteFiles(f, d2, IdleBG)

\* OpenCompactionOutputFile.
OpenCompactionOutputFile ==
  /\ bg.pc = "working" /\ bg.out = 0 /\ CanNumber /\ ~db.shutting_down
  /\ LET n == db.next
         d == [db EXCEPT !.next = NewFileNumber(@), !.pending_outputs = @ \cup {n}]
     IN \/ /\ Fine /\ db' = d /\ bg' = [bg EXCEPT !.out = n]
           /\ files' = [files EXCEPT !.tables = With(@, n, {})]
           /\ UNCHANGED <<manual, asleep>>
        \/ Faulty /\ CompactionEnds(files, [d EXCEPT !.pending_outputs = @ \ {n}], FALSE)
  /\ BGUnchanged /\ UNCHANGED mems

\* FinishCompactionOutputFile and InstallCompactionResults, or the end of a
\* compaction that met an error or the shutdown.
FinishCompactionOutputFile ==
  /\ bg.pc = "working"
  /\ \/ /\ Fine /\ bg.out # 0 /\ ~db.shutting_down
        /\ files' = [files EXCEPT !.tables[bg.out] = Stored(bg.in0 \cup bg.in1)]
        /\ bg' = [bg EXCEPT !.pc = "logging",
                            !.edit = State(db.l0 \ bg.in0, (db.deep \ bg.in1) \cup {bg.out},
                                           db.log_number, db.next, db.last_sequence)]
        /\ UNCHANGED <<db, manual, asleep>>
     \/ Faulty /\ bg.out # 0 /\ CompactionEnds(files, db, FALSE)
     \/ Fine /\ db.shutting_down /\ CompactionEnds(files, db, FALSE)
  /\ BGUnchanged /\ UNCHANGED mems

Installed(d) ==
  [d EXCEPT !.l0 = bg.edit.l0, !.deep = bg.edit.deep, !.log_number = bg.edit.log_number, !.seek = FALSE]

\* What follows LogAndApply in its three callers.
AfterLogAndApply(f, d, ok) ==
  LET mem == bg.job \in {"mem", "both"} IN
  \/ /\ mem /\ ok
     /\ LET d2 == [d EXCEPT !.imm = 0]
        IN /\ MemTableDone(d2)
           /\ mems' = Only(mems, Referenced(d2, iter))
           /\ files' = DeleteObsoleteFiles(f, d2, bg)
  \/ /\ mem /\ ~ok
     /\ MemTableDone(RecordBackgroundError(d)) /\ files' = f /\ UNCHANGED mems
  \/ /\ bg.job = "move"
     /\ BackgroundDone([d EXCEPT !.bg_error = @ \/ ~ok], bg.is_manual, ~ok)
     /\ files' = f /\ UNCHANGED mems
  \/ /\ ~mem /\ bg.job # "move"
     /\ CompactionEnds(f, d, ok) /\ UNCHANGED mems

\* LogAndApply: the record is appended to the MANIFEST and synced outside the
\* mutex, then the version is installed. After a failed sync the record may
\* be in the file all the same.
LogAndApply ==
  LET m == files.manifests[db.manifest]
      longer == Append(m.recs, bg.edit)
      With_(recs, synced) ==
        [files EXCEPT !.manifests[db.manifest] = NewManifest(recs, synced)]
  IN /\ bg.pc = "logging"
     /\ \/ Fine /\ AfterLogAndApply(With_(longer, Len(longer)), Installed(db), TRUE)
        \/ /\ Faulty
           /\ \E recs \in {m.recs, longer} : AfterLogAndApply(With_(recs, m.synced), db, FALSE)
     /\ BGUnchanged

-----------------------------------------------------------------------------
(* CompactRange: force the memtable out, then compact level 0. *)
ManualUnchanged == UNCHANGED <<files, mems, bg, opening, iter, must, unsure, budget>>

\* TEST_CompactMemTable writes a null batch.
CompactRange ==
  /\ manual.pc = "none" /\ manual.call = 0
  /\ Enqueue(FALSE, TRUE)
  /\ manual' = [pc |-> "imm", done |-> FALSE, call |-> Len(calls) + 1]

ManualRuns == /\ manual.pc # "none" /\ "manual" \notin asleep /\ CanLock
              /\ calls[manual.call].status # "waiting"

\* It waits for the memtable to be written, then for its own compaction.
CompactRangeWaits ==
  /\ ManualRuns
  /\ \/ manual.pc = "imm" /\ calls[manual.call].status = "ok" /\ db.imm # 0 /\ ~db.bg_error
     \/ manual.pc = "range" /\ ~manual.done /\ ~db.bg_error /\ ~db.shutting_down /\ db.manual
  /\ asleep' = asleep \cup {"manual"}
  /\ ManualUnchanged /\ UNCHANGED <<calls, writers, db, leader, manual>>

\* Once the memtable is out, or cannot be, TEST_CompactRange starts.
CompactRangeStarts ==
  /\ ManualRuns /\ manual.pc = "imm"
  /\ calls[manual.call].status # "ok" \/ db.imm = 0 \/ db.bg_error
  /\ manual' = [manual EXCEPT !.pc = "range"]
  /\ ManualUnchanged /\ UNCHANGED <<calls, writers, db, leader, asleep>>

\* The loop of TEST_CompactRange: ask for a round, or stop.
TEST_CompactRange ==
  /\ ManualRuns /\ manual.pc = "range"
  /\ IF manual.done \/ db.bg_error \/ db.shutting_down
       THEN /\ manual' = [manual EXCEPT !.pc = "none"]
            /\ db' = [db EXCEPT !.manual = FALSE]
       ELSE /\ ~db.manual
            /\ db' = MaybeScheduleCompaction([db EXCEPT !.manual = TRUE])
            /\ UNCHANGED manual
  /\ ManualUnchanged /\ UNCHANGED <<calls, writers, leader, asleep>>

-----------------------------------------------------------------------------
(* Open, recovery, shutdown and crashes. *)
OpenUnchanged == UNCHANGED <<calls, writers, leader, bg, manual, asleep, iter, unsure>>

\* NewDB: the first MANIFEST is written and closed, and CURRENT made to name
\* it; the MANIFEST is not synced.
NewDB ==
  /\ db.state = "closed" /\ files.current = 0
  /\ files' = [files EXCEPT !.manifests = With(@, 1, NewManifest(<<State({}, {}, 0, 2, 0)>>, 0)),
                            !.current = 1]
  /\ OpenUnchanged /\ UNCHANGED <<db, mems, opening, must, budget>>

\* VersionSet::Recover, the check for missing tables, and the logs to recover.
\* It fails, and with it Open, if the MANIFEST has no record.
Recover ==
  LET recs == files.manifests[files.current].recs
      s == recs[Len(recs)]
  IN /\ db.state = "closed" /\ files.current # 0
     /\ recs # <<>> /\ s.l0 \cup s.deep \subseteq DOMAIN files.tables
     /\ s.next < MaxFile
     /\ db' = [ClosedDB EXCEPT !.state = "opening", !.manifest = s.next,
                 !.next = s.next + 1, !.last_sequence = s.last_sequence,
                 !.log_number = s.log_number, !.l0 = s.l0, !.deep = s.deep]
     /\ opening' = [NoOpening EXCEPT !.pc = "logs",
                      !.todo = {n \in DOMAIN files.logs : n >= s.log_number}]
     /\ OpenUnchanged /\ UNCHANGED <<files, mems, must, budget>>

\* Records of a log that are in front of any failed append.
Sound(log) == {i \in DOMAIN log.recs : log.bad = 0 \/ i < log.bad}

\* What log::Reader makes of a log: all its records, but behind a failed
\* append only some of them.
Readable(log) ==
  {UNION {log.recs[i] : i \in I} : I \in {J \in SUBSET DOMAIN log.recs : Sound(log) \subseteq J}}

\* next_file_number_ when n is known to be in use.
MarkFileNumberUsed(next, n) == IF next <= n THEN n + 1 ELSE next

\* What it makes of a log that cannot be opened, or not be read to its end.
ReadInPart(log) ==
  {UNION {log.recs[i] : i \in I} : I \in {J \in SUBSET DOMAIN log.recs :
                                           \A j \in J : \A i \in Sound(log) : i < j => i \in J}}

\* RecoverLogFile(n) has read ws, has tried to make them a table of level 0 if
\* build, and returns s.
LogRecovered(n, ws, build, s) ==
  LET table == IF build /\ s = "ok" THEN {db.next} ELSE {}
      next == IF build THEN NewFileNumber(db.next) ELSE db.next
  IN /\ opening' = [opening EXCEPT !.todo = @ \ {n}, !.s = s, !.l0 = @ \cup table,
                       !.max_sequence = Max({calls[k].seq : k \in ws} \cup {@})]
     /\ db' = [db EXCEPT !.next = MarkFileNumberUsed(next, n)]
     /\ files' = IF table = {} THEN files ELSE [files EXCEPT !.tables = With(@, db.next, ws)]

\* RecoverLogFile. Recover goes on to the next log whatever the status, which
\* the next log's replaces: only an error in the last log is sure to be
\* reported. Without paranoid_checks a log that cannot be opened or read is
\* taken for what was read of it, and no such error is reported. With it, a
\* gap that a failed append left in the log is an error too.
RecoverLogFile ==
  LET n == Min(opening.todo)
      log == files.logs[n]
      last == opening.todo = {n}
  IN /\ opening.pc = "logs" /\ opening.todo # {} /\ CanNumber
     /\ \/ \E ws \in Readable(log) :
             \/ Fine /\ LogRecovered(n, ws, ws # {}, "ok")
             \/ /\ Faulty /\ ws # {} /\ (last \/ SilentFaults)
                /\ LogRecovered(n, ws, TRUE, "error")
        \/ \E ws \in ReadInPart(log) :
             /\ Faulty \/ (Fine /\ paranoid_checks /\ log.bad # 0)
             /\ (last /\ paranoid_checks) \/ SilentFaults
             /\ LogRecovered(n, ws, ws # {} /\ ~paranoid_checks,
                             IF paranoid_checks THEN "error" ELSE "ok")
     /\ OpenUnchanged /\ UNCHANGED <<mems, must>>

Recovered == opening.pc = "logs" /\ opening.todo = {}

\* Open fails: its DBImpl is deleted.
OpenFails ==
  /\ Recovered /\ opening.s # "ok"
  /\ db' = ClosedDB /\ opening' = NoOpening
  /\ OpenUnchanged /\ UNCHANGED <<files, mems, must, budget>>

\* The new log, and the first half of LogAndApply: a new MANIFEST with the
\* snapshot of the version and the edit.
OpenLog ==
  LET seq == Max({db.last_sequence, opening.max_sequence})
      s == State(db.l0 \cup opening.l0, db.deep, db.next, db.next + 1, seq)
  IN /\ Recovered /\ opening.s = "ok" /\ CanNumber
     /\ files' = [files EXCEPT !.logs = With(@, db.next, NewLog),
                               !.manifests = With(@, db.manifest, NewManifest(<<s>>, 1))]
     /\ db' = [db EXCEPT !.next = NewFileNumber(@), !.last_sequence = seq]
     /\ opening' = [opening EXCEPT !.pc = "install", !.log = db.next]
     /\ OpenUnchanged /\ UNCHANGED <<mems, must, budget>>

\* CURRENT names the new MANIFEST, the version is installed and obsolete
\* files are deleted; or the new MANIFEST is removed and Open fails.
OpenInstall ==
  LET d == [db EXCEPT !.state = "open", !.l0 = @ \cup opening.l0, !.log_number = opening.log,
                      !.mem = opening.log]
      f == [files EXCEPT !.current = db.manifest]
  IN /\ opening.pc = "install" /\ opening' = NoOpening
     /\ \/ /\ Fine
           /\ db' = MaybeScheduleCompaction(d)
           /\ files' = DeleteObsoleteFiles(f, d, IdleBG)
           /\ mems' = With(NoFcn, opening.log, {})
           /\ must' = (must \ unsure) \cup Stored(d.l0 \cup d.deep)
        \/ /\ Faulty /\ db' = ClosedDB
           /\ files' = [files EXCEPT !.manifests = Only(@, DOMAIN @ \ {db.manifest})]
           /\ UNCHANGED <<mems, must>>
     /\ OpenUnchanged

\* ~DBImpl, which its caller calls when nothing uses the database any more:
\* it waits for the background thread, then everything in memory is gone.
Shutdown ==
  /\ Open /\ CanLock /\ ~db.shutting_down /\ writers = <<>> /\ ~iter.on /\ manual.pc = "none"
  /\ Stopping
  /\ db' = [db EXCEPT !.shutting_down = TRUE]
  /\ OpenUnchanged /\ UNCHANGED <<files, mems, opening, must>>

Close ==
  /\ db.shutting_down /\ ~db.scheduled /\ CanLock
  /\ db' = ClosedDB /\ mems' = NoFcn
  /\ OpenUnchanged /\ UNCHANGED <<files, opening, must, budget>>

\* DestroyDB of a closed database.
DestroyDB ==
  /\ db.state = "closed" /\ files.current # 0 /\ Stopping
  /\ files' = [logs |-> NoFcn, tables |-> NoFcn, manifests |-> NoFcn, current |-> 0]
  /\ must' = {}
  /\ OpenUnchanged /\ UNCHANGED <<db, mems, opening>>

\* The process dies, and with it, if machine, the unsynced ends of the files.
Died(machine) ==
  /\ \E keep \in [DOMAIN files.logs -> 0..Len(calls)], kept \in [DOMAIN files.manifests -> {0, 1}] :
       LET Cut(f, c) == [n \in DOMAIN f |->
                           [f[n] EXCEPT !.recs = SubSeq(f[n].recs, 1, c[n])]]
           Manifest(n) == files.manifests[n].synced
                            + kept[n] * (Len(files.manifests[n].recs) - files.manifests[n].synced)
       IN /\ \A n \in DOMAIN files.logs :
               IF machine THEN files.logs[n].synced <= keep[n] /\ keep[n] <= Len(files.logs[n].recs)
                          ELSE keep[n] = Len(files.logs[n].recs)
          /\ machine \/ \A n \in DOMAIN kept : kept[n] = 1
          /\ files' = [files EXCEPT !.logs = Cut(@, keep),
                         !.manifests = Cut(@, [n \in DOMAIN files.manifests |-> Manifest(n)])]
  /\ must' = IF machine THEN {k \in must : calls[k].sync} ELSE must
  /\ calls' = [k \in DOMAIN calls |-> IF calls[k].status = "waiting"
                                        THEN [calls[k] EXCEPT !.status = "lost"] ELSE calls[k]]
  /\ writers' = <<>> /\ leader' = NoLeader /\ db' = ClosedDB /\ mems' = NoFcn /\ bg' = IdleBG
  /\ manual' = [manual EXCEPT !.pc = "none"] /\ asleep' = {} /\ opening' = NoOpening
  /\ iter' = NoIter
  /\ UNCHANGED unsure

ProcessCrash == db.state # "closed" /\ Stopping /\ Died(FALSE)
MachineCrash == Stopping /\ Died(TRUE)

\* The background thread, which holds the mutex, writes through the NULL
\* manual_compaction_.
NullDereference == bg.pc = "null" /\ Fine /\ Died(FALSE)

-----------------------------------------------------------------------------
WriterStep == RoomError \/ RoomDelay \/ RoomFound \/ RoomWait \/ RoomSwitch
                \/ AppendToLog \/ InsertInto \/ FinishWrite
BackgroundStep == BackgroundNothing \/ CompactMemTable \/ WriteLevel0Table \/ StartCompaction
                    \/ OpenCompactionOutputFile \/ FinishCompactionOutputFile \/ LogAndApply
ManualStep == CompactRangeWaits \/ CompactRangeStarts \/ TEST_CompactRange
OpenStep == NewDB \/ Recover \/ RecoverLogFile \/ OpenFails \/ OpenLog \/ OpenInstall

DBNext ==
  \/ Write \/ WriterStep
  \/ NewIterator \/ ReleaseIterator
  \/ BackgroundStep
  \/ CompactRange \/ ManualStep
  \/ OpenStep \/ Shutdown \/ Close \/ DestroyDB
  \/ ProcessCrash \/ MachineCrash \/ NullDereference

\* Threads that hold or can take the mutex go on.
DBFairness ==
  /\ WF_dbVars(WriterStep) /\ WF_dbVars(BackgroundStep) /\ WF_dbVars(ManualStep)
  /\ WF_dbVars(NullDereference)

DBSpec == DBInit /\ [][DBNext]_dbVars /\ DBFairness
-----------------------------------------------------------------------------
(* Properties. *)

\* Type invariant: the threads' control states and the file numbers.
DBTypeOK ==
  /\ db.state \in {"closed", "opening", "open"}
  /\ leader.pc \in {"none", "room", "append", "insert", "finish"}
  /\ bg.pc \in {"idle", "building", "working", "logging", "null"}
  /\ manual.pc \in {"none", "imm", "range"}
  /\ opening.pc \in {"none", "logs", "install"}
  /\ \A k \in DOMAIN calls : calls[k].status \in {"waiting", "ok", "error", "lost"}
  /\ db.mem < db.next \/ db.state # "open"

\* No write that was acknowledged is missing from an open database: not after
\* a crash of the process, and not after a crash of the machine if it was
\* synced. Exempt are writes that followed a failed append into the same log.
AcknowledgedSurvives ==
  Open => must \ unsure \subseteq Contents

\* Every table that something still refers to is in the directory: those of
\* the current version, of an iterator's version and of a running compaction.
NeededFilesExist ==
  /\ DBTypeOK
  /\ db.state # "closed" => LiveTables(db, bg) \subseteq DOMAIN files.tables

\* A reader sees exactly the writes that were acknowledged when it started,
\* whatever is written, flushed, compacted or deleted while it reads.
ReaderSeesItsSnapshot ==
  iter.on => {k \in Mem(iter.mem) \cup Mem(iter.imm) \cup Stored(iter.tables) :
                calls[k].seq <= iter.snapshot} = iter.expected

\* No two writes in the database have the same sequence number, not even after
\* failed writes and recoveries.
SequenceNumbersUnique ==
  Open => \A j, k \in Contents : calls[j].seq = calls[k].seq => j = k

\* Sequence numbers follow the order of arrival, and no call is answered
\* before one that arrived earlier.
AnsweredInOrder ==
  \A j, k \in DOMAIN calls : j < k /\ calls[k].status \in {"ok", "error"} =>
    /\ calls[j].status # "waiting"
    /\ {j, k} \subseteq Contents => calls[j].seq < calls[k].seq

\* Concurrent writers are put in one order, the order of their numbers.
WritesAreSerial == SequenceNumbersUnique /\ AnsweredInOrder

\* Every version a restart could find can be opened: CURRENT names a MANIFEST
\* whose synced records, and those that are not, name tables that exist. Only
\* a database that acknowledged nothing yet may be left without a record.
AlwaysRecoverable ==
  files.current # 0 =>
    LET m == files.manifests[files.current] IN
    /\ files.current \in DOMAIN files.manifests
    /\ m.synced = 0 => must = {}
    /\ \A i \in DOMAIN m.recs : i >= m.synced =>
         m.recs[i].l0 \cup m.recs[i].deep \subseteq DOMAIN files.tables

\* Every call returns, or the process dies: no writer waits for ever for the
\* memtable, for level 0 or for another writer, and no CompactRange for the
\* background thread (unless the file numbers are used up). The process dies
\* of its own only when a manual compaction ends after its TEST_CompactRange
\* gave up because of an error (NullDereference).
CallsReturn == []<>((writers = <<>> /\ manual.pc = "none") \/ ~CanNumber)

-----------------------------------------------------------------------------
(* Refinement: the database is a set of writes that grows by atomic commits. *)
Abstract == INSTANCE AtomicStore WITH
  up <- Open, store <- (IF Open THEN Visible ELSE must) \ unsure,
  done <- {k \in DOMAIN calls : calls[k].status = "ok" /\ ~calls[k].null} \ unsure,
  synced <- {k \in DOMAIN calls : calls[k].sync}

\* Group commit, memtables, logs, flushes, compactions and the deletion of
\* files implement a set of writes to which acknowledged writes are added
\* atomically, and which loses at most unsynced writes in a crash.
RefinesAtomicStore == Abstract!StoreSpec
=============================================================================
