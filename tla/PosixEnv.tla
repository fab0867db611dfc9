------------------------------ MODULE PosixEnv ------------------------------
(***************************************************************************)
(* util/env_posix.cc, what its threads and processes share: the limit on   *)
(* memory-mapped files, the lock on a database directory, and the queue of *)
(* the background thread.                                                  *)
(*                                                                         *)
(* The kernel's side of the lock is POSIX: a process's lock on a file goes *)
(* when that process closes any descriptor of the file.  LockFile closes   *)
(* the descriptor of a refused second call, and UnlockFile its own after   *)
(* the name is free again: either may take the kernel's lock from under    *)
(* another holder of the same process; `slipped` records the processes     *)
(* this has happened to.                                                   *)
(***************************************************************************)
EXTENDS Naturals, Sequences, FiniteSets

CONSTANTS Readers,      \* threads that open random-access files
          Processes,    \* processes that open the database
          MmapLimit,    \* MmapLimiter's initial value (1000)
          MaxJobs       \* background jobs scheduled

ASSUME EnvAssumption == IsFiniteSet(Readers) /\ MmapLimit \in Nat /\ MaxJobs \in Nat

VARIABLES allowed,      \* MmapLimiter::allowed_
          opening,      \* opening[r]: the reader's place in NewRandomAccessFile
          lockTable,    \* lockTable[p]: PosixLockTable of process p holds the name
          locking,      \* locking[p]: the process's place in LockFile
          closing,      \* UnlockFile calls that have yet to close, per process
          osLock,       \* the processes holding the kernel's lock
          slipped,      \* ghost: their kernel lock was released by another call
          queue,        \* queue_ of BGItems
          bgthread,     \* "none", "waiting", "awake" or the item it runs
          scheduled,    \* ghost: items given to Schedule
          ran           \* ghost: items run, in order

limiterVars == <<allowed, opening>>
lockVars    == <<lockTable, locking, closing, osLock, slipped>>
bgVars      == <<queue, bgthread, scheduled, ran>>
envVars     == <<limiterVars, lockVars, bgVars>>

EnvInit ==
    /\ allowed = MmapLimit
    /\ opening = [r \in Readers |-> "no"]
    /\ lockTable = [p \in Processes |-> FALSE]
    /\ locking = [p \in Processes |-> "no"]
    /\ closing = {}
    /\ osLock = {}
    /\ slipped = {}
    /\ queue = <<>>
    /\ bgthread = "none"
    /\ scheduled = 0
    /\ ran = <<>>

-----------------------------------------------------------------------------
(***************************************************************************)
(* MmapLimiter and NewRandomAccessFile.  Acquire looks once without the    *)
(* mutex and decides again under it.                                       *)
(***************************************************************************)
Opens(r, state) == opening' = [opening EXCEPT ![r] = state]

AcquireLook(r) ==
    /\ opening[r] = "no"
    /\ Opens(r, IF allowed <= 0 THEN "pread" ELSE "tries")
    /\ UNCHANGED allowed

Acquire(r) ==
    /\ opening[r] = "tries"
    /\ IF allowed <= 0
       THEN Opens(r, "pread") /\ UNCHANGED allowed
       ELSE Opens(r, "slot") /\ allowed' = allowed - 1

\* GetFileSize and mmap succeed, or fail and the slot is given back.
MapFails(r) ==
    /\ opening[r] = "slot"
    /\ Opens(r, "no")
    /\ allowed' = allowed + 1

MapFile(r) ==
    /\ opening[r] = "slot"
    /\ Opens(r, "mapped")
    /\ UNCHANGED allowed

\* ~PosixMmapReadableFile and ~PosixRandomAccessFile.
CloseRandomAccessFile(r) ==
    /\ opening[r] \in {"mapped", "pread"}
    /\ allowed' = IF opening[r] = "mapped" THEN allowed + 1 ELSE allowed
    /\ Opens(r, "no")

LimiterNext ==
    \E r \in Readers : \/ AcquireLook(r) \/ Acquire(r) \/ MapFails(r)
                       \/ MapFile(r) \/ CloseRandomAccessFile(r)

-----------------------------------------------------------------------------
(***************************************************************************)
(* LockFile: open, PosixLockTable::Insert, fcntl; two threads of a process *)
(* may be in it, of which the table admits one.                            *)
(***************************************************************************)
CloseDescriptor(p) ==
    /\ osLock' = osLock \ {p}
    /\ slipped' = IF p \in osLock THEN slipped \cup {p} ELSE slipped

\* The table holds the name: close the new descriptor and refuse.
LockRefused(p) ==
    /\ lockTable[p]
    /\ CloseDescriptor(p)
    /\ UNCHANGED <<lockTable, locking, closing>>

LockInsert(p) ==
    /\ ~lockTable[p]
    /\ lockTable' = [lockTable EXCEPT ![p] = TRUE]
    /\ locking' = [locking EXCEPT ![p] = "inserted"]
    /\ UNCHANGED <<closing, osLock, slipped>>

\* fcntl(F_SETLK): refused while another process has the lock.
Granted(p) == osLock \subseteq {p}

LockOrUnlock(p) ==
    /\ locking[p] = "inserted"
    /\ Granted(p)
    /\ osLock' = osLock \cup {p}
    /\ locking' = [locking EXCEPT ![p] = "held"]
    /\ slipped' = slipped \ {p}
    /\ UNCHANGED <<lockTable, closing>>

\* Refused: close, then remove the name from the table.
LockFails(p) ==
    /\ locking[p] = "inserted"
    /\ ~Granted(p)
    /\ CloseDescriptor(p)
    /\ locking' = [locking EXCEPT ![p] = "failed"]
    /\ UNCHANGED <<lockTable, closing>>

LockRemove(p) ==
    /\ locking[p] = "failed"
    /\ lockTable' = [lockTable EXCEPT ![p] = FALSE]
    /\ locking' = [locking EXCEPT ![p] = "no"]
    /\ UNCHANGED <<closing, osLock, slipped>>

\* UnlockFile: the kernel's lock, then the table, then the descriptor.
UnlockFile(p) ==
    /\ locking[p] = "held"
    /\ osLock' = osLock \ {p}
    /\ locking' = [locking EXCEPT ![p] = "unlocked"]
    /\ UNCHANGED <<lockTable, closing, slipped>>

UnlockRemove(p) ==
    /\ locking[p] = "unlocked"
    /\ p \notin closing
    /\ lockTable' = [lockTable EXCEPT ![p] = FALSE]
    /\ locking' = [locking EXCEPT ![p] = "no"]
    /\ closing' = closing \cup {p}
    /\ UNCHANGED <<osLock, slipped>>

UnlockClose(p) ==
    /\ p \in closing
    /\ closing' = closing \ {p}
    /\ CloseDescriptor(p)
    /\ UNCHANGED <<lockTable, locking>>

LockNext ==
    \E p \in Processes : \/ LockRefused(p) \/ LockInsert(p) \/ LockOrUnlock(p)
                         \/ LockFails(p) \/ LockRemove(p)
                         \/ UnlockFile(p) \/ UnlockRemove(p) \/ UnlockClose(p)

-----------------------------------------------------------------------------
(***************************************************************************)
(* Schedule and BGThread, each step what runs under mu_.  A signal wakes a *)
(* waiting thread; one that finds nobody waiting is lost.                  *)
(***************************************************************************)
\* A signal only when there already is work (a mistake).
SignalWhenFull == queue # <<>>

\* Schedule signals when the queue was empty.
Signals == queue = <<>>

Schedule ==
    /\ scheduled < MaxJobs
    /\ scheduled' = scheduled + 1
    /\ queue' = Append(queue, scheduled + 1)
    /\ bgthread' = IF bgthread = "none" THEN "awake"
                   ELSE IF bgthread = "waiting" /\ Signals THEN "awake"
                   ELSE bgthread
    /\ UNCHANGED ran

NextItem == Head(queue)

BGThread ==
    /\ bgthread = "awake"
    /\ IF queue = <<>>
       THEN bgthread' = "waiting" /\ UNCHANGED <<queue, ran>>
       ELSE /\ queue' = Tail(queue)
            /\ ran' = Append(ran, NextItem)
            /\ bgthread' = "running"
    /\ UNCHANGED scheduled

RunFunction ==
    /\ bgthread = "running"
    /\ bgthread' = "awake"
    /\ UNCHANGED <<queue, scheduled, ran>>

BGNext == Schedule \/ BGThread \/ RunFunction

EnvNext ==
    \/ LimiterNext /\ UNCHANGED <<lockVars, bgVars>>
    \/ LockNext /\ UNCHANGED <<limiterVars, bgVars>>
    \/ BGNext /\ UNCHANGED <<limiterVars, lockVars>>

EnvSpec == EnvInit /\ [][EnvNext]_envVars

-----------------------------------------------------------------------------
(***************************************************************************)
(* The limiter's count plus the slots in use is the limit, and the count   *)
(* is never negative: no path of NewRandomAccessFile loses a slot or takes *)
(* one too many (env_posix.cc:105 and :330).                               *)
(***************************************************************************)
SlotsAccounted ==
    /\ allowed >= 0
    /\ allowed + Cardinality({r \in Readers : opening[r] \in {"slot", "mapped"}})
           = MmapLimit

(***************************************************************************)
(* Two processes never both have the database open, unless another call of *)
(* a holder's own process has released its kernel lock (env_posix.cc:416;  *)
(* include/leveldb/env.h:97).                                              *)
(***************************************************************************)
OneProcessHoldsTheLock ==
    LET holders == {p \in Processes : locking[p] = "held"}
    IN holders \cap slipped = {} => Cardinality(holders) <= 1

(***************************************************************************)
(* Jobs run in the order they were scheduled and none is overtaken or run  *)
(* twice (env_posix.cc:543, :559).                                         *)
(***************************************************************************)
JobsRunInOrder ==
    ran \o queue = [i \in 1..scheduled |-> i]

(***************************************************************************)
(* The background thread never waits while a job is queued: a signal sent  *)
(* only when the queue was empty is enough (env_posix.cc:538).             *)
(***************************************************************************)
NoLostWakeup == queue # <<>> => bgthread \in {"awake", "running"}

\* Threads and processes share the environment safely.
SharedEnvIsSafe ==
  /\ SlotsAccounted
  /\ OneProcessHoldsTheLock
  /\ JobsRunInOrder
  /\ NoLostWakeup
=============================================================================
