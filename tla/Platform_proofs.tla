-------------------------- MODULE Platform_proofs --------------------------
(***************************************************************************)
(* Proofs about the parts of leveldb that the database is built on: the    *)
(* environment (env_posix.cc), the arena (arena.cc), the C binding (c.cc), *)
(* the info log (posix_logger.h), the references of versions and files     *)
(* (version_set.cc), the memtable with its skip list (skiplist.h) and the  *)
(* files under crashes (env_posix.cc, SetCurrentFile of filename.cc), for  *)
(* any number of threads, processes, jobs, blocks, strings, versions,      *)
(* entries, files and crashes.                                             *)
(***************************************************************************)
EXTENDS PosixEnv, Arena, CApi, PosixLogger, VersionRefs, MemTable, PosixFiles,
        SequenceTheorems, FiniteSetTheorems, WellFoundedInduction, NaturalsInduction, TLAPS

-----------------------------------------------------------------------------
(* The environment: the limit on mapped files. *)

Mapping == {r \in Readers : opening[r] \in {"slot", "mapped"}}

LimiterOK ==
  /\ opening \in [Readers -> {"no", "tries", "slot", "mapped", "pread"}]
  /\ allowed \in Nat
  /\ allowed + Cardinality(Mapping) = MmapLimit

\* A slot is taken or given back by one reader at a time.
LEMMA LimiterStep == LimiterOK /\ LimiterNext => LimiterOK'
<1> SUFFICES ASSUME LimiterOK, LimiterNext PROVE LimiterOK'
  OBVIOUS
<1>1. /\ opening \in [Readers -> {"no", "tries", "slot", "mapped", "pread"}]
      /\ allowed \in Nat /\ allowed + Cardinality(Mapping) = MmapLimit
  BY DEF LimiterOK
<1>2. IsFiniteSet(Mapping) /\ IsFiniteSet(Mapping') /\ Cardinality(Mapping) \in Nat
      /\ Cardinality(Mapping') \in Nat
  <2>1. IsFiniteSet(Mapping) /\ IsFiniteSet(Mapping')
    BY EnvAssumption, FS_Subset DEF Mapping
  <2> QED
    BY <2>1, FS_CardinalityType
<1>3. PICK r \in Readers : \/ AcquireLook(r) \/ Acquire(r) \/ MapFails(r)
                           \/ MapFile(r) \/ CloseRandomAccessFile(r)
  BY DEF LimiterNext
<1>4. CASE AcquireLook(r)
  <2>1. /\ opening' \in [Readers -> {"no", "tries", "slot", "mapped", "pread"}]
        /\ allowed' = allowed
    BY <1>1, <1>4 DEF AcquireLook, Opens
  <2>2. Mapping' = Mapping
    BY <1>1, <1>4 DEF AcquireLook, Opens, Mapping
  <2> QED
    BY <1>1, <2>1, <2>2 DEF LimiterOK
<1>5. CASE Acquire(r)
  <2>1. CASE allowed <= 0
    <3>1. /\ opening' \in [Readers -> {"no", "tries", "slot", "mapped", "pread"}]
          /\ allowed' = allowed
      BY <1>1, <1>5, <2>1 DEF Acquire, Opens
    <3>2. Mapping' = Mapping
      BY <1>1, <1>5, <2>1 DEF Acquire, Opens, Mapping
    <3> QED
      BY <1>1, <3>1, <3>2 DEF LimiterOK
  <2>2. CASE ~(allowed <= 0)
    <3>1. /\ opening' \in [Readers -> {"no", "tries", "slot", "mapped", "pread"}]
          /\ allowed' = allowed - 1 /\ allowed' \in Nat
      BY <1>1, <1>5, <2>2 DEF Acquire, Opens
    <3>2. Mapping' = Mapping \cup {r} /\ r \notin Mapping
      BY <1>1, <1>5, <2>2 DEF Acquire, Opens, Mapping
    <3>3. Cardinality(Mapping') = Cardinality(Mapping) + 1
      BY <1>2, <3>2, FS_AddElement
    <3> QED
      BY <1>1, <1>2, <3>1, <3>3 DEF LimiterOK
  <2> QED
    BY <2>1, <2>2
<1>6. CASE MapFails(r)
  <2>1. /\ opening' \in [Readers -> {"no", "tries", "slot", "mapped", "pread"}]
        /\ allowed' = allowed + 1 /\ allowed' \in Nat
    BY <1>1, <1>6 DEF MapFails, Opens
  <2>2. Mapping' = Mapping \ {r} /\ r \in Mapping
    BY <1>1, <1>6 DEF MapFails, Opens, Mapping
  <2>3. Cardinality(Mapping') = Cardinality(Mapping) - 1
    BY <1>2, <2>2, FS_RemoveElement
  <2> QED
    BY <1>1, <1>2, <2>1, <2>3 DEF LimiterOK
<1>7. CASE MapFile(r)
  <2>1. /\ opening' \in [Readers -> {"no", "tries", "slot", "mapped", "pread"}]
        /\ allowed' = allowed
    BY <1>1, <1>7 DEF MapFile, Opens
  <2>2. Mapping' = Mapping
    BY <1>1, <1>7 DEF MapFile, Opens, Mapping
  <2> QED
    BY <1>1, <2>1, <2>2 DEF LimiterOK
<1>8. CASE CloseRandomAccessFile(r)
  <2>1. opening' = [opening EXCEPT ![r] = "no"]
    BY <1>8 DEF CloseRandomAccessFile, Opens
  <2>2. opening' \in [Readers -> {"no", "tries", "slot", "mapped", "pread"}]
    BY <1>1, <2>1
  <2>3. CASE opening[r] = "mapped"
    <3>1. allowed' = allowed + 1 /\ allowed' \in Nat
      BY <1>1, <1>8, <2>3 DEF CloseRandomAccessFile
    <3>2. Mapping' = Mapping \ {r} /\ r \in Mapping
      BY <1>1, <2>1, <2>3 DEF Mapping
    <3>3. Cardinality(Mapping') = Cardinality(Mapping) - 1
      BY <1>2, <3>2, FS_RemoveElement
    <3> QED
      BY <1>1, <1>2, <2>2, <3>1, <3>3 DEF LimiterOK
  <2>4. CASE opening[r] = "pread"
    <3>1. allowed' = allowed
      BY <1>8, <2>4 DEF CloseRandomAccessFile
    <3>2. Mapping' = Mapping
      BY <1>1, <2>1, <2>4 DEF Mapping
    <3> QED
      BY <1>1, <2>2, <3>1, <3>2 DEF LimiterOK
  <2> QED
    BY <1>8, <2>3, <2>4 DEF CloseRandomAccessFile
<1> QED
  BY <1>3, <1>4, <1>5, <1>6, <1>7, <1>8

-----------------------------------------------------------------------------
(* The environment: the lock on the database. *)

\* The kernel's lock has one owner; who holds the database has it, unless it
\* slipped.
LockOK ==
  /\ locking \in [Processes -> {"no", "inserted", "held", "failed", "unlocked"}]
  /\ \A p, q \in osLock : p = q
  /\ \A p \in Processes : locking[p] = "held" => p \in osLock \cup slipped

\* Calls of several threads and processes in any order keep LockOK.
LEMMA LockStep == LockOK /\ LockNext => LockOK'
<1> SUFFICES ASSUME LockOK, NEW p \in Processes,
                    \/ LockRefused(p) \/ LockInsert(p) \/ LockOrUnlock(p)
                    \/ LockFails(p) \/ LockRemove(p)
                    \/ UnlockFile(p) \/ UnlockRemove(p) \/ UnlockClose(p)
             PROVE  LockOK'
  BY DEF LockNext
<1>1. CASE LockRefused(p)
  BY <1>1 DEF LockOK, LockRefused, CloseDescriptor
<1>2. CASE LockInsert(p)
  BY <1>2 DEF LockOK, LockInsert
<1>3. CASE LockOrUnlock(p)
  BY <1>3 DEF LockOK, LockOrUnlock, Granted
<1>4. CASE LockFails(p)
  BY <1>4 DEF LockOK, LockFails, CloseDescriptor
<1>5. CASE LockRemove(p)
  BY <1>5 DEF LockOK, LockRemove
<1>6. CASE UnlockFile(p)
  BY <1>6 DEF LockOK, UnlockFile
<1>7. CASE UnlockRemove(p)
  BY <1>7 DEF LockOK, UnlockRemove
<1>8. CASE UnlockClose(p)
  BY <1>8 DEF LockOK, UnlockClose, CloseDescriptor
<1> QED
  BY <1>1, <1>2, <1>3, <1>4, <1>5, <1>6, <1>7, <1>8

\* A set whose elements are all the same has at most one.
LEMMA AtMostOne ==
  ASSUME NEW S, \A x, y \in S : x = y
  PROVE  Cardinality(S) <= 1
<1>1. CASE S = {}
  BY <1>1, FS_EmptySet
<1>2. CASE S # {}
  <2>1. PICK x \in S : TRUE
    BY <1>2
  <2>2. S = {x}
    OBVIOUS
  <2> QED
    BY <2>2, FS_Singleton
<1> QED
  BY <1>1, <1>2

-----------------------------------------------------------------------------
(* The environment: the background thread. *)

\* The jobs that ran and those that wait are numbered through.
Numbered(n, done, waiting) ==
  /\ n \in Nat
  /\ done \in Seq(Nat) /\ waiting \in Seq(Nat)
  /\ Len(done) + Len(waiting) = n
  /\ \A i \in 1..Len(done) : done[i] = i
  /\ \A i \in 1..Len(waiting) : waiting[i] = Len(done) + i

QueueOK == Numbered(scheduled, ran, queue)

WakeupOK ==
  /\ bgthread \in {"none", "waiting", "awake", "running"}
  /\ NoLostWakeup

\* Scheduling adds the next job, the thread takes the first.
LEMMA QueueStep == QueueOK /\ BGNext => QueueOK'
<1> SUFFICES ASSUME QueueOK, BGNext PROVE QueueOK'
  OBVIOUS
<1>1. /\ scheduled \in Nat /\ ran \in Seq(Nat) /\ queue \in Seq(Nat)
      /\ Len(ran) \in Nat /\ Len(queue) \in Nat /\ Len(ran) + Len(queue) = scheduled
      /\ \A i \in 1..Len(ran) : ran[i] = i
      /\ \A i \in 1..Len(queue) : queue[i] = Len(ran) + i
  BY LenProperties DEF QueueOK, Numbered
<1>5. /\ scheduled \in Nat /\ Len(ran) \in Nat /\ Len(queue) \in Nat
      /\ Len(ran) + Len(queue) = scheduled
  BY <1>1
<1>2. CASE Schedule
  <2> DEFINE q == Append(queue, scheduled + 1)
  <2>1. scheduled' = scheduled + 1 /\ queue' = q /\ ran' = ran
    BY <1>2 DEF Schedule
  <2>2. /\ q \in Seq(Nat) /\ Len(q) = Len(queue) + 1
        /\ \A i \in 1..Len(queue) : q[i] = queue[i]
        /\ q[Len(queue) + 1] = scheduled + 1
    BY <1>1, AppendProperties
  <2> HIDE DEF q
  <2>3. ASSUME NEW i \in 1..Len(q) PROVE q[i] = Len(ran) + i
    <3>1. i \in 1..Len(queue) \/ i = Len(queue) + 1
      BY <1>1, <2>2
    <3>2. CASE i \in 1..Len(queue)
      BY <1>1, <2>2, <3>2
    <3>3. CASE i = Len(queue) + 1
      <4>1. q[i] = scheduled + 1
        BY <2>2, <3>3
      <4> QED
        BY <1>5, <3>3, <4>1
    <3> QED
      BY <3>1, <3>2, <3>3
  <2>4. scheduled + 1 \in Nat /\ Len(ran) + Len(q) = scheduled + 1
    <3>1. Len(q) = Len(queue) + 1
      BY <2>2
    <3> QED
      BY <1>5, <3>1
  <2>5. Numbered(scheduled + 1, ran, q)
    BY <1>1, <2>2, <2>3, <2>4 DEF Numbered
  <2> QED
    BY <2>1, <2>5 DEF QueueOK
<1>3. CASE BGThread
  <2>1. CASE queue = <<>>
    BY <1>1, <1>3, <2>1 DEF BGThread, QueueOK
  <2>2. CASE queue # <<>>
    <3> DEFINE t == Tail(queue)
               r == Append(ran, Head(queue))
    <3>1. queue' = t /\ ran' = r /\ scheduled' = scheduled
      BY <1>3, <2>2 DEF BGThread, NextItem
    <3>2. /\ t \in Seq(Nat) /\ Len(t) = Len(queue) - 1 /\ Head(queue) \in Nat
          /\ \A i \in 1..Len(t) : t[i] = queue[i + 1]
      BY <1>1, <2>2, HeadTailProperties
    <3>3. Len(queue) # 0 /\ Head(queue) = queue[1]
      BY <1>1, <2>2, EmptySeq
    <3>4. Head(queue) = Len(ran) + 1
      BY <1>1, <3>3
    <3>5. /\ r \in Seq(Nat) /\ Len(r) = Len(ran) + 1
          /\ \A i \in 1..Len(ran) : r[i] = ran[i]
          /\ r[Len(ran) + 1] = Head(queue)
      BY <1>1, <3>2, AppendProperties
    <3> HIDE DEF t, r
    <3>6. ASSUME NEW i \in 1..Len(r) PROVE r[i] = i
      <4>1. i \in 1..Len(ran) \/ i = Len(ran) + 1
        BY <1>1, <3>5
      <4>2. CASE i \in 1..Len(ran)
        BY <1>1, <3>5, <4>2
      <4>3. CASE i = Len(ran) + 1
        BY <3>4, <3>5, <4>3
      <4> QED
        BY <4>1, <4>2, <4>3
    <3>7. \A i \in 1..Len(t) : t[i] = Len(r) + i
      <4> TAKE i \in 1..Len(t)
      <4>1. i + 1 \in 1..Len(queue) /\ t[i] = queue[i + 1]
        BY <1>1, <3>2
      <4>2. queue[i + 1] = Len(ran) + (i + 1)
        BY <1>1, <4>1
      <4> QED
        BY <1>1, <3>5, <4>1, <4>2
    <3>8. Len(r) + Len(t) = scheduled
      <4>1. Len(r) = Len(ran) + 1 /\ Len(t) = Len(queue) - 1
        BY <3>2, <3>5
      <4> QED
        BY <1>5, <4>1
    <3>9. Numbered(scheduled, r, t)
      BY <1>1, <3>2, <3>5, <3>6, <3>7, <3>8 DEF Numbered
    <3> QED
      BY <3>1, <3>9 DEF QueueOK
  <2> QED
    BY <2>1, <2>2
<1>4. CASE RunFunction
  BY <1>1, <1>4 DEF RunFunction, QueueOK
<1> QED
  BY <1>2, <1>3, <1>4 DEF BGNext

\* A job is never added to an empty queue without waking the thread.
LEMMA WakeupStep == WakeupOK /\ BGNext => WakeupOK'
<1> SUFFICES ASSUME WakeupOK, BGNext PROVE WakeupOK'
  OBVIOUS
<1>1. CASE Schedule
  <2>1. CASE queue = <<>>
    BY <1>1, <2>1 DEF WakeupOK, NoLostWakeup, Schedule, Signals
  <2>2. CASE queue # <<>>
    BY <1>1, <2>2 DEF WakeupOK, NoLostWakeup, Schedule, Signals
  <2> QED
    BY <2>1, <2>2
<1>2. CASE BGThread
  BY <1>2 DEF WakeupOK, NoLostWakeup, BGThread
<1>3. CASE RunFunction
  BY <1>3 DEF WakeupOK, NoLostWakeup, RunFunction
<1> QED
  BY <1>1, <1>2, <1>3 DEF BGNext

\* Numbered through, the jobs are those scheduled, in their order.
LEMMA InOrder == QueueOK => JobsRunInOrder
<1> SUFFICES ASSUME QueueOK PROVE JobsRunInOrder
  OBVIOUS
<1> DEFINE s == ran \o queue
           t == [i \in 1..scheduled |-> i]
<1>1. /\ scheduled \in Nat /\ ran \in Seq(Nat) /\ queue \in Seq(Nat)
      /\ Len(ran) \in Nat /\ Len(queue) \in Nat /\ Len(ran) + Len(queue) = scheduled
      /\ \A i \in 1..Len(ran) : ran[i] = i
      /\ \A i \in 1..Len(queue) : queue[i] = Len(ran) + i
  BY LenProperties DEF QueueOK, Numbered
<1>2. /\ s \in Seq(Nat) /\ Len(s) = scheduled
      /\ \A i \in 1..scheduled : s[i] = IF i <= Len(ran) THEN ran[i] ELSE queue[i - Len(ran)]
  BY <1>1, ConcatProperties
<1>3. t \in Seq(Nat) /\ Len(t) = scheduled /\ \A i \in 1..scheduled : t[i] = i
  BY <1>1
<1> HIDE DEF s, t
<1>4. ASSUME NEW i \in 1..scheduled PROVE s[i] = t[i]
  <2>1. CASE i <= Len(ran)
    <3>1. s[i] = ran[i] /\ i \in 1..Len(ran)
      BY <1>1, <1>2, <2>1
    <3> QED
      BY <1>1, <1>3, <3>1
  <2>2. CASE ~(i <= Len(ran))
    <3>1. i - Len(ran) \in 1..Len(queue)
      BY <1>1, <2>2
    <3>2. queue[i - Len(ran)] = Len(ran) + (i - Len(ran))
      BY <1>1, <3>1
    <3>3. s[i] = queue[i - Len(ran)]
      BY <1>2, <2>2
    <3> QED
      BY <1>1, <1>3, <3>2, <3>3
  <2> QED
    BY <2>1, <2>2
<1>5. s = t
  BY <1>2, <1>3, <1>4, SeqEqual
<1> QED
  BY <1>5 DEF JobsRunInOrder, s, t

-----------------------------------------------------------------------------
EnvInv == LimiterOK /\ LockOK /\ QueueOK /\ WakeupOK

\* The environment starts with all slots free, no lock and no thread.
LEMMA EnvInitInv == EnvInit => EnvInv
<1> SUFFICES ASSUME EnvInit PROVE EnvInv
  OBVIOUS
<1>1. LimiterOK
  <2>1. Mapping = {}
    BY DEF EnvInit, Mapping
  <2>2. Cardinality(Mapping) = 0
    BY <2>1, FS_EmptySet
  <2> QED
    BY <2>2, EnvAssumption DEF EnvInit, LimiterOK
<1>2. LockOK
  BY DEF EnvInit, LockOK
<1>3. QueueOK
  <2>1. <<>> \in Seq(Nat) /\ Len(<<>>) = 0
    BY EmptySeq
  <2> QED
    BY <2>1 DEF EnvInit, QueueOK, Numbered
<1>4. WakeupOK
  BY DEF EnvInit, WakeupOK, NoLostWakeup
<1> QED
  BY <1>1, <1>2, <1>3, <1>4 DEF EnvInv

\* Each of the three parts moves by itself.
LEMMA EnvNextInv == EnvInv /\ [EnvNext]_envVars => EnvInv'
<1> SUFFICES ASSUME EnvInv, [EnvNext]_envVars PROVE EnvInv'
  OBVIOUS
<1>1. ASSUME UNCHANGED limiterVars PROVE LimiterOK'
  BY <1>1 DEF EnvInv, LimiterOK, Mapping, limiterVars
<1>2. ASSUME UNCHANGED lockVars PROVE LockOK'
  BY <1>2 DEF EnvInv, LockOK, lockVars
<1>3. ASSUME UNCHANGED bgVars PROVE QueueOK' /\ WakeupOK'
  <2>1. QueueOK'
    BY <1>3 DEF EnvInv, QueueOK, bgVars
  <2>2. WakeupOK'
    BY <1>3 DEF EnvInv, WakeupOK, NoLostWakeup, bgVars
  <2> QED
    BY <2>1, <2>2
<1>4. CASE LimiterNext /\ UNCHANGED <<lockVars, bgVars>>
  BY <1>2, <1>3, <1>4, LimiterStep DEF EnvInv
<1>5. CASE LockNext /\ UNCHANGED <<limiterVars, bgVars>>
  BY <1>1, <1>3, <1>5, LockStep DEF EnvInv
<1>6. CASE BGNext /\ UNCHANGED <<limiterVars, lockVars>>
  BY <1>1, <1>2, <1>6, QueueStep, WakeupStep DEF EnvInv
<1>7. CASE UNCHANGED envVars
  BY <1>1, <1>2, <1>3, <1>7 DEF EnvInv, envVars
<1> QED
  BY <1>4, <1>5, <1>6, <1>7 DEF EnvNext

\* Threads and processes share the environment safely: no slot for a mapping
\* is lost or taken twice, two processes hold the database only if a lock
\* slipped, jobs run in their order, and no wakeup is lost (env_posix.cc).
THEOREM EnvIsSafe == EnvSpec => []SharedEnvIsSafe
<1>1. EnvInv => SharedEnvIsSafe
  <2> SUFFICES ASSUME EnvInv PROVE SharedEnvIsSafe
    OBVIOUS
  <2>1. SlotsAccounted
    BY DEF EnvInv, LimiterOK, SlotsAccounted, Mapping
  <2>2. OneProcessHoldsTheLock
    <3> DEFINE holders == {p \in Processes : locking[p] = "held"}
    <3> SUFFICES ASSUME holders \cap slipped = {} PROVE Cardinality(holders) <= 1
      BY DEF OneProcessHoldsTheLock
    <3>1. holders \subseteq osLock
      BY DEF EnvInv, LockOK
    <3>2. \A p, q \in holders : p = q
      BY <3>1 DEF EnvInv, LockOK
    <3> QED
      BY <3>2, AtMostOne
  <2>3. JobsRunInOrder /\ NoLostWakeup
    BY InOrder DEF EnvInv, WakeupOK
  <2> QED
    BY <2>1, <2>2, <2>3 DEF SharedEnvIsSafe
<1> QED
  BY <1>1, EnvInitInv, EnvNextInv, PTL DEF EnvSpec

-----------------------------------------------------------------------------
(* The arena: a state is kept as facts about values, so that one step is a *)
(* fact about two values.                                                  *)

Arenas == [block : Nat, offset : Nat, remaining : Nat, blocks : Seq(Nat)]

Objects == [block : Nat, offset : Nat, bytes : Nat, aligned : BOOLEAN]

\* alloc_ptr_ and what remains stay inside the block they point into.
PointerOK(a) ==
  /\ a \in Arenas
  /\ a.block <= Len(a.blocks)
  /\ a.block = 0 => a.remaining = 0
  /\ a.block # 0 => a.offset + a.remaining <= a.blocks[a.block]

\* An object lies in a block, before alloc_ptr_ when it is in that block.
Placed(a, x) ==
  /\ x.block \in 1..Len(a.blocks)
  /\ x.offset + x.bytes <= a.blocks[x.block]
  /\ x.block = a.block => x.offset + x.bytes <= a.offset
  /\ x.aligned => x.offset % Align = 0

Before(x, y) == x.block = y.block => x.offset + x.bytes <= y.offset

\* All of it: the pointer, each object, and the objects of a block in order.
ArenaOK(a, objs) ==
  /\ PointerOK(a)
  /\ objs \in Seq(Objects)
  /\ \A i \in 1..Len(objs) : Placed(a, objs[i])
  /\ \A i \in 1..Len(objs) : \A j \in 1..(i - 1) : Before(objs[j], objs[i])

\* An object placed after every other one, in a state that keeps the others
\* in their places, keeps ArenaOK.
LEMMA ArenaAdds ==
  ASSUME NEW a, NEW b, NEW objs, NEW x \in Objects,
         ArenaOK(a, objs), PointerOK(b), Placed(b, x),
         \A y \in Objects : Placed(a, y) => Placed(b, y) /\ Before(y, x)
  PROVE  ArenaOK(b, Append(objs, x))
<1> DEFINE s == Append(objs, x)
<1>1. /\ objs \in Seq(Objects) /\ Len(objs) \in Nat
      /\ \A i \in 1..Len(objs) : objs[i] \in Objects /\ Placed(a, objs[i])
      /\ \A i \in 1..Len(objs) : \A j \in 1..(i - 1) : Before(objs[j], objs[i])
  BY LenProperties, ElementOfSeq DEF ArenaOK
<1>2. /\ s \in Seq(Objects) /\ Len(s) = Len(objs) + 1
      /\ \A i \in 1..Len(objs) : s[i] = objs[i]
      /\ s[Len(objs) + 1] = x
  BY <1>1, AppendProperties
<1> HIDE DEF s
<1>3. ASSUME NEW i \in 1..Len(s)
      PROVE  Placed(b, s[i]) /\ \A j \in 1..(i - 1) : Before(s[j], s[i])
  <2>1. i \in 1..Len(objs) \/ i = Len(objs) + 1
    BY <1>1, <1>2
  <2>2. ASSUME NEW j \in 1..(i - 1) PROVE j \in 1..Len(objs)
    BY <1>1, <2>1
  <2>3. CASE i \in 1..Len(objs)
    BY <1>1, <1>2, <2>2, <2>3
  <2>4. CASE i = Len(objs) + 1
    BY <1>1, <1>2, <2>2, <2>4
  <2> QED
    BY <2>1, <2>3, <2>4
<1>4. ArenaOK(b, s)
  BY <1>2, <1>3 DEF ArenaOK
<1> QED
  BY <1>4 DEF s

\* Take moves alloc_ptr_ inside its block.
LEMMA TakeMoves ==
  ASSUME NEW a \in Arenas, NEW n \in Nat, n <= a.remaining
  PROVE  LET b == Take(a, n)
         IN /\ b \in Arenas /\ b.block = a.block /\ b.offset = a.offset + n
            /\ b.remaining = a.remaining - n /\ b.blocks = a.blocks
<1>1. a.offset \in Nat /\ a.remaining \in Nat
  BY DEF Arenas
<1>2. a.offset + n \in Nat /\ a.remaining - n \in Nat
  BY <1>1
<1> QED
  BY <1>2 DEF Take, Arenas

\* An object taken from what remains of the current block.
LEMMA TakeAdds ==
  ASSUME NEW a, NEW bytes \in Nat \ {0}, NEW slop \in Nat, NEW aligned \in BOOLEAN,
         PointerOK(a), bytes + slop <= a.remaining,
         aligned => (a.offset + slop) % Align = 0
  PROVE  LET b == Take(a, bytes + slop)
             x == [block |-> a.block, offset |-> a.offset + slop, bytes |-> bytes, aligned |-> aligned]
         IN /\ x \in Objects /\ PointerOK(b) /\ Placed(b, x)
            /\ \A y \in Objects : Placed(a, y) => Placed(b, y) /\ Before(y, x)
<1> DEFINE b == Take(a, bytes + slop)
           x == [block |-> a.block, offset |-> a.offset + slop, bytes |-> bytes, aligned |-> aligned]
<1>1. /\ a \in Arenas
      /\ a.block \in Nat /\ a.offset \in Nat /\ a.remaining \in Nat /\ a.blocks \in Seq(Nat)
      /\ a.block <= Len(a.blocks)
      /\ a.block # 0 /\ a.offset + a.remaining <= a.blocks[a.block]
  <2>1. a \in Arenas
    BY DEF PointerOK
  <2>2. a.block \in Nat /\ a.offset \in Nat /\ a.remaining \in Nat /\ a.blocks \in Seq(Nat)
    BY <2>1 DEF Arenas
  <2>3. a.remaining # 0
    <3>1. a.remaining \in Nat
      BY <2>2
    <3> QED
      BY <3>1
  <2> QED
    BY <2>1, <2>2, <2>3 DEF PointerOK
<1>10. bytes + slop \in Nat
  OBVIOUS
<1>2. /\ b \in Arenas /\ b.block = a.block /\ b.offset = a.offset + (bytes + slop)
      /\ b.remaining = a.remaining - (bytes + slop) /\ b.blocks = a.blocks
  BY <1>1, <1>10, TakeMoves
<1> HIDE DEF b
<1>3. Len(a.blocks) \in Nat /\ a.block \in 1..Len(a.blocks) /\ a.blocks[a.block] \in Nat
  BY <1>1, LenProperties, ElementOfSeq
<1>4. x \in Objects
  BY <1>1 DEF Objects
<1>5. PointerOK(b)
  BY <1>1, <1>2, <1>3 DEF PointerOK
<1>6. Placed(b, x)
  <2>1. x.block = a.block /\ x.offset = a.offset + slop /\ x.bytes = bytes /\ x.aligned = aligned
    OBVIOUS
  <2> HIDE DEF x
  <2>2. x.offset + x.bytes = a.offset + (bytes + slop)
    <3>1. a.offset \in Nat
      BY <1>1
    <3> QED
      BY <2>1, <3>1
  <2>3. a.offset + (bytes + slop) <= a.offset + a.remaining
    <3>1. a.offset \in Nat /\ a.remaining \in Nat
      BY <1>1
    <3> QED
      BY <3>1
  <2>4. a.offset + a.remaining <= a.blocks[a.block] /\ a.offset + a.remaining \in Nat
    BY <1>1
  <2>5. a.offset + (bytes + slop) <= a.blocks[a.block] /\ a.offset + (bytes + slop) <= b.offset
    <3>1. a.offset + (bytes + slop) \in Nat /\ b.offset = a.offset + (bytes + slop)
      BY <1>1, <1>2
    <3> QED
      BY <1>3, <2>3, <2>4, <3>1
  <2> QED
    BY <1>2, <1>3, <2>1, <2>2, <2>5 DEF Placed
<1>7. ASSUME NEW y \in Objects, Placed(a, y) PROVE Placed(b, y) /\ Before(y, x)
  BY <1>1, <1>2, <1>7 DEF Placed, Before, Objects
<1> QED
  BY <1>4, <1>5, <1>6, <1>7 DEF b

\* An object at the beginning of a new block, its own or the next current one.
LEMMA FallbackAdds ==
  ASSUME NEW a, NEW bytes \in Nat \ {0}, NEW aligned \in BOOLEAN, PointerOK(a)
  PROVE  LET b == AllocateFallback(a, bytes)
             x == [block |-> Len(a.blocks) + 1, offset |-> 0, bytes |-> bytes, aligned |-> aligned]
         IN /\ x \in Objects /\ PointerOK(b) /\ Placed(b, x)
            /\ \A y \in Objects : Placed(a, y) => Placed(b, y) /\ Before(y, x)
<1> DEFINE b == AllocateFallback(a, bytes)
           x == [block |-> Len(a.blocks) + 1, offset |-> 0, bytes |-> bytes, aligned |-> aligned]
           size == IF bytes > ArenaBlock \div 4 THEN bytes ELSE ArenaBlock
           s == Append(a.blocks, size)
<1>1. /\ a \in Arenas
      /\ a.block \in Nat /\ a.offset \in Nat /\ a.remaining \in Nat /\ a.blocks \in Seq(Nat)
      /\ a.block <= Len(a.blocks)
      /\ a.block = 0 => a.remaining = 0
      /\ a.block # 0 => a.offset + a.remaining <= a.blocks[a.block]
  BY DEF PointerOK, Arenas
<1>2. ArenaBlock \in Nat /\ ArenaBlock \div 4 <= ArenaBlock /\ Align \in Nat \ {0}
  BY ArenaAssumption
<1>3. size \in Nat /\ bytes <= size
  BY <1>2
<1>4. /\ s \in Seq(Nat) /\ Len(s) = Len(a.blocks) + 1 /\ Len(a.blocks) \in Nat
      /\ \A i \in 1..Len(a.blocks) : s[i] = a.blocks[i]
      /\ s[Len(a.blocks) + 1] = size
  BY <1>1, <1>3, AppendProperties, LenProperties
<1> DEFINE Stays == b.block = a.block /\ b.offset = a.offset /\ b.remaining = a.remaining
           Moves == b.block = Len(s) /\ b.offset = bytes /\ b.remaining = size - bytes
<1>5. b \in Arenas /\ b.blocks = s /\ (Stays \/ Moves)
  <2>1. CASE bytes > ArenaBlock \div 4
    <3>1. b = [a EXCEPT !.blocks = s]
      BY <1>1, <2>1 DEF AllocateFallback, AllocateNewBlock
    <3> HIDE DEF b, s
    <3> QED
      BY <1>1, <1>4, <3>1 DEF Arenas
  <2>2. CASE ~(bytes > ArenaBlock \div 4)
    <3> DEFINE n == [a EXCEPT !.blocks = s]
               m == [n EXCEPT !.block = Len(n.blocks), !.offset = 0, !.remaining = ArenaBlock]
    <3>1. size = ArenaBlock /\ b = Take(m, bytes)
      BY <1>1, <2>2 DEF AllocateFallback, AllocateNewBlock
    <3> HIDE DEF b, s, size
    <3>2. /\ n \in Arenas /\ n.blocks = s
      BY <1>1, <1>4 DEF Arenas
    <3>3. /\ m \in Arenas /\ m.blocks = s /\ m.block = Len(s) /\ m.offset = 0
          /\ m.remaining = ArenaBlock
      <4> HIDE DEF n
      <4>1. Len(n.blocks) = Len(s) /\ Len(s) \in Nat
        BY <1>4, <3>2
      <4> QED
        BY <1>2, <3>2, <4>1 DEF Arenas
    <3> HIDE DEF m
    <3>4. bytes <= m.remaining
      BY <1>3, <3>1, <3>3
    <3>5. /\ b \in Arenas /\ b.block = m.block /\ b.offset = m.offset + bytes
          /\ b.remaining = m.remaining - bytes /\ b.blocks = m.blocks
      BY <3>1, <3>3, <3>4, TakeMoves
    <3> QED
      BY <3>1, <3>3, <3>5
  <2> QED
    BY <2>1, <2>2
<1> HIDE DEF b, s, size
<1>6. x \in Objects
  BY <1>4 DEF Objects
<1>7. 0 % Align = 0
  BY <1>2
<1>10. ASSUME NEW y \in Objects, Placed(a, y)
       PROVE  /\ y.block \in 1..Len(a.blocks) /\ y.block \in 1..Len(s)
              /\ y.block # Len(s) /\ y.block # x.block
              /\ y.offset + y.bytes <= s[y.block]
              /\ y.block = a.block => y.offset + y.bytes <= a.offset
              /\ y.aligned => y.offset % Align = 0
  <2>1. /\ y.block \in 1..Len(a.blocks) /\ y.offset + y.bytes <= a.blocks[y.block]
        /\ y.block = a.block => y.offset + y.bytes <= a.offset
        /\ y.aligned => y.offset % Align = 0
    BY <1>10 DEF Placed
  <2>2. s[y.block] = a.blocks[y.block]
    BY <1>4, <2>1
  <2>3. y.block \in 1..Len(s) /\ y.block # Len(s) /\ y.block # Len(a.blocks) + 1
    <3>1. Len(s) = Len(a.blocks) + 1 /\ Len(a.blocks) \in Nat
      BY <1>4
    <3> QED
      BY <2>1, <3>1
  <2> QED
    BY <2>1, <2>2, <2>3
<1>8. CASE Stays
  <2>1. PointerOK(b)
    <3>1. a.block # 0 => s[a.block] = a.blocks[a.block]
      <4> SUFFICES ASSUME a.block # 0 PROVE s[a.block] = a.blocks[a.block]
        OBVIOUS
      <4>1. a.block \in Nat /\ a.block <= Len(a.blocks) /\ Len(a.blocks) \in Nat
        BY <1>1, <1>4
      <4>2. a.block \in 1..Len(a.blocks)
        BY <4>1
      <4> QED
        BY <1>4, <4>2
    <3>2. a.block <= Len(s)
      <4>1. a.block \in Nat /\ a.block <= Len(a.blocks) /\ Len(a.blocks) \in Nat
            /\ Len(s) = Len(a.blocks) + 1
        BY <1>1, <1>4
      <4> QED
        BY <4>1
    <3> QED
      BY <1>1, <1>5, <1>8, <3>1, <3>2 DEF PointerOK
  <2>2. Placed(b, x)
    BY <1>1, <1>3, <1>4, <1>5, <1>7, <1>8 DEF Placed
  <2>3. ASSUME NEW y \in Objects, Placed(a, y) PROVE Placed(b, y) /\ Before(y, x)
    BY <1>5, <1>8, <1>10, <2>3 DEF Placed, Before
  <2> QED
    BY <1>6, <2>1, <2>2, <2>3 DEF b
<1>9. CASE Moves
  <2>1. PointerOK(b)
    BY <1>1, <1>3, <1>4, <1>5, <1>9 DEF PointerOK
  <2>2. Placed(b, x)
    BY <1>1, <1>3, <1>4, <1>5, <1>7, <1>9 DEF Placed
  <2>3. ASSUME NEW y \in Objects, Placed(a, y) PROVE Placed(b, y) /\ Before(y, x)
    BY <1>5, <1>9, <1>10, <2>3 DEF Placed, Before
  <2> QED
    BY <1>6, <2>1, <2>2, <2>3 DEF b
<1> QED
  BY <1>5, <1>8, <1>9

\* The slop before an aligned object makes its address a multiple of Align.
LEMMA SlopAligns ==
  ASSUME NEW o \in Nat, NEW n \in Nat \ {0}
  PROVE  LET slop == IF o % n = 0 THEN 0 ELSE n - (o % n)
         IN slop \in Nat /\ (o + slop) % n = 0
<1>1. (o + (n - (o % n))) % n = 0
  BY SMTT(30)
<1>2. o % n \in 0..(n - 1)
  BY SMTT(30)
<1> QED
  BY <1>1, <1>2

\* Allocate and AllocateAligned keep ArenaOK.
LEMMA ArenaStep ==
  ASSUME ArenaOK(arena, allocs), NEW bytes \in Sizes, NEW slop \in Nat,
         NEW aligned \in BOOLEAN, AllocateAt(bytes, slop, aligned),
         aligned => (arena.offset + slop) % Align = 0
  PROVE  ArenaOK(arena, allocs)'
<1>1. bytes \in Nat \ {0} /\ PointerOK(arena)
  BY ArenaAssumption DEF ArenaOK
<1>2. CASE bytes + slop <= arena.remaining
  <2> DEFINE b == Take(arena, bytes + slop)
             x == [block |-> arena.block, offset |-> arena.offset + slop, bytes |-> bytes, aligned |-> aligned]
  <2>1. arena' = b /\ allocs' = Append(allocs, x)
    BY <1>2 DEF AllocateAt, Returned
  <2>2. /\ x \in Objects /\ PointerOK(b) /\ Placed(b, x)
        /\ \A y \in Objects : Placed(arena, y) => Placed(b, y) /\ Before(y, x)
    BY <1>1, <1>2, TakeAdds
  <2> HIDE DEF b, x
  <2>3. ArenaOK(b, Append(allocs, x))
    BY <2>2, ArenaAdds
  <2> QED
    BY <2>1, <2>3
<1>3. CASE ~(bytes + slop <= arena.remaining)
  <2> DEFINE b == AllocateFallback(arena, bytes)
             x == [block |-> Len(arena.blocks) + 1, offset |-> 0, bytes |-> bytes, aligned |-> aligned]
  <2>1. arena' = b /\ allocs' = Append(allocs, x)
    BY <1>3 DEF AllocateAt, Returned
  <2>2. /\ x \in Objects /\ PointerOK(b) /\ Placed(b, x)
        /\ \A y \in Objects : Placed(arena, y) => Placed(b, y) /\ Before(y, x)
    BY <1>1, FallbackAdds
  <2> HIDE DEF b, x
  <2>3. ArenaOK(b, Append(allocs, x))
    BY <2>2, ArenaAdds
  <2> QED
    BY <2>1, <2>3
<1> QED
  BY <1>2, <1>3

\* ArenaOK is what ObjectsAreDisjoint says, in terms of intervals.
LEMMA ArenaDisjoint == ArenaOK(arena, allocs) => ObjectsAreDisjoint
<1> SUFFICES ASSUME ArenaOK(arena, allocs) PROVE ObjectsAreDisjoint
  OBVIOUS
<1> DEFINE Bytes(x) == {<<x.block, i>> : i \in x.offset..(x.offset + x.bytes - 1)}
           free == {<<arena.block, i>> : i \in arena.offset..(arena.offset + arena.remaining - 1)}
<1>1. /\ allocs \in Seq(Objects) /\ Len(allocs) \in Nat /\ DOMAIN allocs = 1..Len(allocs)
      /\ \A i \in 1..Len(allocs) : allocs[i] \in Objects /\ Placed(arena, allocs[i])
      /\ \A i \in 1..Len(allocs) : \A j \in 1..(i - 1) : Before(allocs[j], allocs[i])
  BY LenProperties, ElementOfSeq DEF ArenaOK
<1>2. /\ arena.offset \in Nat /\ arena.remaining \in Nat /\ arena.block \in Nat
      /\ Len(arena.blocks) \in Nat /\ DOMAIN arena.blocks = 1..Len(arena.blocks)
  BY LenProperties DEF ArenaOK, PointerOK, Arenas
<1>3. ASSUME NEW x \in Objects, Placed(arena, x) PROVE Bytes(x) \cap free = {}
  BY <1>2, <1>3 DEF Objects, Placed
<1>4. ASSUME NEW x \in Objects, NEW y \in Objects, Before(x, y) PROVE Bytes(y) \cap Bytes(x) = {}
  BY <1>4 DEF Objects, Before
<1> HIDE DEF Bytes, free
<1>5. ASSUME NEW i \in DOMAIN allocs
      PROVE /\ allocs[i].block \in DOMAIN arena.blocks
            /\ allocs[i].offset + allocs[i].bytes <= arena.blocks[allocs[i].block]
            /\ allocs[i].aligned => allocs[i].offset % Align = 0
            /\ Bytes(allocs[i]) \cap free = {}
            /\ \A j \in 1..(i - 1) : Bytes(allocs[i]) \cap Bytes(allocs[j]) = {}
  <2>1. /\ allocs[i].block \in DOMAIN arena.blocks
        /\ allocs[i].offset + allocs[i].bytes <= arena.blocks[allocs[i].block]
        /\ allocs[i].aligned => allocs[i].offset % Align = 0
    BY <1>1, <1>2 DEF Placed
  <2>2. Bytes(allocs[i]) \cap free = {}
    BY <1>1, <1>3
  <2>3. ASSUME NEW j \in 1..(i - 1) PROVE Bytes(allocs[i]) \cap Bytes(allocs[j]) = {}
    <3>1. j \in 1..Len(allocs) /\ Before(allocs[j], allocs[i])
      BY <1>1
    <3> QED
      BY <1>1, <1>4, <3>1
  <2> QED
    BY <2>1, <2>2, <2>3
<1> QED
  BY <1>5, Zenon DEF ObjectsAreDisjoint, Bytes, free

\* The objects an arena hands out never overlap, whatever their number and
\* sizes: they lie in their blocks, the aligned ones aligned, and what is left
\* of the current block is free (Arena::Allocate, AllocateAligned).
THEOREM ArenaIsSafe == ArenaSpec => []ObjectsAreDisjoint
<1>1. ArenaInit => ArenaOK(arena, allocs)
  <2>1. <<>> \in Seq(Objects) /\ <<>> \in Seq(Nat) /\ Len(<<>>) = 0
    BY EmptySeq
  <2> QED
    BY <2>1 DEF ArenaInit, ArenaOK, PointerOK, Arenas
<1>2. ArenaOK(arena, allocs) /\ [ArenaNext]_arenaVars => ArenaOK(arena, allocs)'
  <2> SUFFICES ASSUME ArenaOK(arena, allocs), [ArenaNext]_arenaVars
               PROVE  ArenaOK(arena, allocs)'
    OBVIOUS
  <2>1. CASE Allocate
    BY <2>1, ArenaStep DEF Allocate
  <2>2. CASE AllocateAligned
    <3> DEFINE slop == IF arena.offset % Align = 0 THEN 0 ELSE Align - (arena.offset % Align)
    <3>1. PICK bytes \in Sizes : AllocateAt(bytes, slop, TRUE)
      BY <2>2 DEF AllocateAligned
    <3>2. arena.offset \in Nat /\ Align \in Nat \ {0}
      BY ArenaAssumption DEF ArenaOK, PointerOK, Arenas
    <3>3. slop \in Nat /\ (arena.offset + slop) % Align = 0
      BY <3>2, SlopAligns
    <3> HIDE DEF slop
    <3> QED
      BY <3>1, <3>3, ArenaStep
  <2>3. CASE UNCHANGED arenaVars
    BY <2>3 DEF arenaVars
  <2> QED
    BY <2>1, <2>2, <2>3 DEF ArenaNext
<1> QED
  BY <1>1, <1>2, ArenaDisjoint, PTL DEF ArenaSpec

-----------------------------------------------------------------------------
(* Induction over the naturals, in the form the provers can use: a set of   *)
(* naturals that is not empty has a least element.                         *)

\* The order of the naturals is well founded.
LEMMA LeastNat ==
  ASSUME NEW T \in SUBSET Nat, T # {}
  PROVE  \E x \in T : \A y \in T : x <= y
<1> DEFINE R == {ss \in Nat \X Nat : ss[1] < ss[2]}
<1>1. R = OpToRel(<, Nat)
  BY Zenon DEF OpToRel
<1>2. IsWellFoundedOn(R, Nat)
  BY <1>1, NatLessThanWellFounded, Zenon
<1>3. ASSUME NEW x \in Nat, NEW y \in Nat, y < x PROVE <<y, x>> \in R
  <2>1. <<y, x>>[1] < <<y, x>>[2]
    BY <1>3, Zenon
  <2>2. <<y, x>> \in Nat \X Nat
    OBVIOUS
  <2> QED
    BY <2>1, <2>2, Zenon
<1> HIDE DEF R
<1>4. PICK x \in T : \A y \in T : ~(<<y, x>> \in R)
  BY <1>2, WFMin
<1>5. ASSUME NEW y \in T PROVE x <= y
  <2>1. x \in Nat /\ y \in Nat
    OBVIOUS
  <2>2. ~(y < x)
    BY <1>3, <1>4, <2>1, Zenon
  <2> QED
    BY <2>1, <2>2
<1> QED
  BY <1>5

-----------------------------------------------------------------------------
(* The C binding: who owns the strings of the C heap. *)

\* Every string is the message in errptr or a value of the client's, and the
\* message is the last failure's.
HeapOK ==
  /\ IsFiniteSet(DOMAIN strings)
  /\ errptr \in Nat /\ failure \in Nat /\ outcomes \in Nat
  /\ results \subseteq Nat \ {0}
  /\ NoStringLeaks
  /\ (failure = 0 <=> errptr = 0) /\ (errptr # 0 => strings[errptr].says = failure)

\* malloc finds an address that is not in use while the heap is not full.
LEMMA NewIsFree ==
  ASSUME IsFiniteSet(DOMAIN strings), Cardinality(DOMAIN strings) < MaxStrings
  PROVE  NewString \in Nat \ {0} /\ NewString \notin DOMAIN strings
<1> DEFINE D == DOMAIN strings
           T == {i \in 1..(MaxStrings + 1) : i \notin D}
<1>1. MaxStrings \in Nat
  BY CApiAssumption
<1>2. T # {}
  <2> SUFFICES ASSUME T = {} PROVE FALSE
    OBVIOUS
  <2>1. 1..MaxStrings \subseteq D
    BY <1>1
  <2>2. IsFiniteSet(1..MaxStrings) /\ Cardinality(1..MaxStrings) = MaxStrings
    BY <1>1, FS_Interval
  <2>3. Cardinality(1..MaxStrings) <= Cardinality(D) /\ Cardinality(D) \in Nat
    BY <2>1, FS_Subset, FS_CardinalityType
  <2> QED
    BY <1>1, <2>2, <2>3
<1>3. T \in SUBSET Nat
  BY <1>1
<1>4. PICK x \in T : \A y \in T : x <= y
  BY <1>2, <1>3, LeastNat
<1> HIDE DEF D
<1>5. ASSUME NEW j \in 1..(x - 1) PROVE j \in D
  BY <1>1, <1>4
<1>6. \E i \in 1..(MaxStrings + 1) : i \notin D /\ \A j \in 1..(i - 1) : j \in D
  BY <1>4, <1>5
<1>7. NewString \in 1..(MaxStrings + 1) /\ NewString \notin D
  BY <1>6, Zenon DEF NewString, D
<1> QED
  BY <1>1, <1>7 DEF D

\* SaveError leaves one message, the new one.
LEMMA FailedKeeps ==
  ASSUME HeapOK, CanCall, NEW kind, Failed(kind), UNCHANGED results
  PROVE  HeapOK' /\ errptr' # 0 /\ last' = [outcome |-> kind, value |-> 0, before |-> errptr]
<1> DEFINE heap == FreeOf(strings, {errptr} \ {0})
           id == IF errptr = 0 THEN NewString ELSE errptr
           msg == [says |-> outcomes + 1]
<1>1. /\ strings' = WithString(heap, id, msg) /\ errptr' = id /\ failure' = outcomes + 1
      /\ last' = [outcome |-> kind, value |-> 0, before |-> errptr]
  BY DEF Failed, SaveError
<1>2. outcomes' = outcomes + 1 /\ results' = results
  BY DEF CanCall
<1>3. /\ IsFiniteSet(DOMAIN strings) /\ errptr \in Nat /\ outcomes \in Nat
      /\ results \subseteq Nat \ {0} /\ errptr \notin results
      /\ DOMAIN strings = results \cup ({errptr} \ {0})
  BY DEF HeapOK, NoStringLeaks
<1>4. NewString \in Nat \ {0} /\ NewString \notin DOMAIN strings
  BY <1>3, NewIsFree DEF CanCall
<1>5. id \in Nat \ {0} /\ id \notin results
  BY <1>3, <1>4
<1> HIDE DEF id
<1>6. DOMAIN heap = results
  BY <1>3 DEF FreeOf
<1> HIDE DEF heap
<1>7. DOMAIN strings' = results \cup {id} /\ strings'[id] = msg
  BY <1>1, <1>6 DEF WithString
<1>8. IsFiniteSet(results)
  BY <1>3, FS_Subset
<1>9. IsFiniteSet(DOMAIN strings')
  BY <1>7, <1>8, FS_AddElement
<1>10. strings'[errptr'].says = failure'
  BY <1>1, <1>7
<1>11. failure' \in Nat \ {0} /\ outcomes' \in Nat
  BY <1>1, <1>2, <1>3
<1>12. NoStringLeaks'
  BY <1>1, <1>2, <1>5, <1>7 DEF NoStringLeaks
<1> QED
  BY <1>1, <1>2, <1>3, <1>5, <1>9, <1>10, <1>11, <1>12 DEF HeapOK

\* A value given to the client is a new string of its own.
LEMMA CopyKeeps ==
  ASSUME HeapOK, CanCall, UNCHANGED <<errptr, failure>>,
         strings' = WithString(strings, NewString, [says |-> 0]),
         results' = results \cup {NewString}
  PROVE  HeapOK'
<1>1. /\ IsFiniteSet(DOMAIN strings) /\ errptr \in Nat /\ outcomes \in Nat /\ failure \in Nat
      /\ results \subseteq Nat \ {0} /\ errptr \notin results
      /\ DOMAIN strings = results \cup ({errptr} \ {0})
      /\ (failure = 0 <=> errptr = 0) /\ (errptr # 0 => strings[errptr].says = failure)
  BY DEF HeapOK, NoStringLeaks
<1>2. NewString \in Nat \ {0} /\ NewString \notin DOMAIN strings
  BY <1>1, NewIsFree DEF CanCall
<1>3. DOMAIN strings' = DOMAIN strings \cup {NewString}
  BY DEF WithString
<1>4. IsFiniteSet(DOMAIN strings')
  BY <1>1, <1>3, FS_AddElement
<1>5. ASSUME errptr # 0 PROVE errptr # NewString /\ strings'[errptr] = strings[errptr]
  BY <1>1, <1>2, <1>5 DEF WithString
<1>6. outcomes' \in Nat
  BY <1>1 DEF CanCall
<1>7. errptr \notin results'
  BY <1>1, <1>2
<1>8. NoStringLeaks'
  BY <1>1, <1>3, <1>7 DEF NoStringLeaks
<1> QED
  BY <1>1, <1>2, <1>4, <1>5, <1>6, <1>8 DEF HeapOK

\* A call that allocates nothing.
LEMMA QuietKeeps ==
  ASSUME HeapOK, UNCHANGED <<strings, errptr, results, failure>>,
         UNCHANGED outcomes \/ CanCall
  PROVE  HeapOK'
<1>1. outcomes' \in Nat
  BY DEF HeapOK, CanCall
<1> QED
  BY <1>1 DEF HeapOK, NoStringLeaks

\* The client frees what it owns.
LEMMA FreeKeeps == HeapOK /\ leveldb_free => HeapOK'
<1> SUFFICES ASSUME HeapOK, leveldb_free PROVE HeapOK'
  OBVIOUS
<1>1. /\ IsFiniteSet(DOMAIN strings) /\ errptr \in Nat /\ outcomes \in Nat /\ failure \in Nat
      /\ results \subseteq Nat \ {0} /\ errptr \notin results
      /\ DOMAIN strings = results \cup ({errptr} \ {0})
      /\ (failure = 0 <=> errptr = 0) /\ (errptr # 0 => strings[errptr].says = failure)
  BY DEF HeapOK, NoStringLeaks
<1>2. outcomes' = outcomes
  BY DEF leveldb_free
<1>3. ASSUME NEW id \in results, results' = results \ {id}, strings' = FreeOf(strings, {id}),
             UNCHANGED <<errptr, failure>>
      PROVE  HeapOK'
  <2>1. DOMAIN strings' = DOMAIN strings \ {id}
    BY <1>3 DEF FreeOf
  <2>2. IsFiniteSet(DOMAIN strings')
    BY <1>1, <2>1, FS_Subset
  <2>3. errptr # 0 => strings'[errptr] = strings[errptr]
    BY <1>1, <1>3 DEF FreeOf
  <2>4. NoStringLeaks'
    BY <1>1, <1>3, <2>1 DEF NoStringLeaks
  <2> QED
    BY <1>1, <1>2, <1>3, <2>2, <2>3, <2>4 DEF HeapOK
<1>4. ASSUME errptr # 0, strings' = FreeOf(strings, {errptr}), errptr' = 0, failure' = 0,
             UNCHANGED results
      PROVE  HeapOK'
  <2>1. DOMAIN strings' = DOMAIN strings \ {errptr}
    BY <1>4 DEF FreeOf
  <2>2. IsFiniteSet(DOMAIN strings')
    BY <1>1, <2>1, FS_Subset
  <2>3. NoStringLeaks'
    BY <1>1, <1>4, <2>1 DEF NoStringLeaks
  <2> QED
    BY <1>1, <1>2, <1>4, <2>2, <2>3 DEF HeapOK
<1> QED
  BY <1>3, <1>4 DEF leveldb_free

\* Each call leaves the heap owned and its answer distinct.
LEMMA CApiStep ==
  HeapOK /\ AnswersAreDistinct /\ [CApiNext]_capiVars => HeapOK' /\ AnswersAreDistinct'
<1> SUFFICES ASSUME HeapOK, AnswersAreDistinct, [CApiNext]_capiVars
             PROVE  HeapOK' /\ AnswersAreDistinct'
  OBVIOUS
<1>1. ASSUME CanCall, Succeeded("ok", 0), UNCHANGED <<strings, results>>
      PROVE  HeapOK' /\ AnswersAreDistinct'
  BY <1>1, QuietKeeps DEF Succeeded, AnswersAreDistinct
<1>2. ASSUME CanCall, NEW kind, kind \notin {"found", "notfound"}, Failed(kind), UNCHANGED results
      PROVE  HeapOK' /\ AnswersAreDistinct'
  <2>1. HeapOK' /\ errptr' # 0 /\ last' = [outcome |-> kind, value |-> 0, before |-> errptr]
    BY <1>2, FailedKeeps
  <2>2. last'.outcome = kind /\ last'.value = 0
    BY <2>1
  <2> QED
    BY <1>2, <2>1, <2>2 DEF AnswersAreDistinct
<1>3. ASSUME CanCall, strings' = WithString(strings, NewString, [says |-> 0]),
             results' = results \cup {NewString},
             NEW kind \in {"ok", "found"}, Succeeded(kind, NewString)
      PROVE  HeapOK' /\ AnswersAreDistinct'
  <2>1. HeapOK'
    BY <1>3, CopyKeeps DEF Succeeded
  <2>2. /\ last'.outcome = kind /\ last'.value \in results'
        /\ last'.before = errptr /\ errptr' = errptr
    BY <1>3 DEF Succeeded
  <2> QED
    BY <1>3, <2>1, <2>2 DEF AnswersAreDistinct
<1>4. ASSUME UNCHANGED <<strings, errptr, results, failure, outcomes, last>>
      PROVE  HeapOK' /\ AnswersAreDistinct'
  BY <1>4, QuietKeeps DEF AnswersAreDistinct
<1>5. CASE leveldb_open
  BY <1>1, <1>2, <1>5 DEF leveldb_open
<1>6. CASE leveldb_put \/ leveldb_destroy_db \/ leveldb_iter_get_error
  BY <1>1, <1>2, <1>6 DEF leveldb_put, leveldb_destroy_db, leveldb_iter_get_error, Reports
<1>7. CASE leveldb_get
  <2>1. CanCall
    BY <1>7 DEF leveldb_get
  <2>2. PICK s \in {"ok", "notfound", "error"} :
           IF s = "ok"
           THEN /\ strings' = WithString(strings, NewString, [says |-> 0])
                /\ results' = results \cup {NewString}
                /\ Succeeded("found", NewString)
           ELSE /\ UNCHANGED results
                /\ IF IsError(s) THEN Failed(s)
                   ELSE /\ UNCHANGED <<strings, errptr, failure>>
                        /\ last' = [outcome |-> s, value |-> 0, before |-> errptr]
    BY <1>7 DEF leveldb_get
  <2>3. CASE s = "ok"
    BY <1>3, <2>1, <2>2, <2>3
  <2>4. CASE s = "notfound"
    <3>1. UNCHANGED <<strings, errptr, results, failure>>
          /\ last' = [outcome |-> s, value |-> 0, before |-> errptr]
      BY <2>2, <2>4 DEF IsError
    <3>2. HeapOK'
      BY <2>1, <3>1, QuietKeeps
    <3>3. last'.before = errptr /\ last'.outcome = "notfound" /\ last'.value = 0
      BY <2>4, <3>1
    <3> QED
      BY <3>1, <3>2, <3>3 DEF AnswersAreDistinct
  <2>5. CASE s = "error"
    <3>1. Failed(s) /\ UNCHANGED results
      BY <2>2, <2>5 DEF IsError
    <3> QED
      BY <1>2, <2>1, <2>5, <3>1
  <2> QED
    BY <2>3, <2>4, <2>5
<1>8. CASE leveldb_property_value
  BY <1>1, <1>3, <1>8 DEF leveldb_property_value
<1>9. CASE leveldb_free
  <2>1. HeapOK'
    BY <1>9, FreeKeeps
  <2>2. last'.outcome = "none"
    BY <1>9 DEF leveldb_free, NoCall
  <2> QED
    BY <2>1, <2>2 DEF AnswersAreDistinct
<1>10. CASE leveldb_close \/ \E k \in HandleKinds \ {"db"} : leveldb_create(k) \/ leveldb_release(k)
  BY <1>4, <1>10 DEF leveldb_close, leveldb_create, leveldb_release
<1>11. CASE UNCHANGED capiVars
  BY <1>4, <1>11 DEF capiVars
<1> QED
  BY <1>5, <1>6, <1>7, <1>8, <1>9, <1>10, <1>11 DEF CApiNext

\* Whatever calls a C program makes and however they fail: no string leaks or
\* is freed twice, errptr holds the last failure, and a value, a missing key
\* and an error are told apart (c.cc).
THEOREM CApiIsSafe == CApiSpec => []CallersKnow
<1>1. CApiInit => HeapOK /\ AnswersAreDistinct
  <2> SUFFICES ASSUME CApiInit PROVE HeapOK /\ AnswersAreDistinct
    OBVIOUS
  <2>1. DOMAIN strings = {}
    BY DEF CApiInit
  <2>2. HeapOK
    BY <2>1, FS_EmptySet DEF CApiInit, HeapOK, NoStringLeaks
  <2>3. AnswersAreDistinct
    BY DEF CApiInit, AnswersAreDistinct, NoCall
  <2> QED
    BY <2>2, <2>3
<1>2. HeapOK /\ AnswersAreDistinct => CallersKnow
  BY DEF HeapOK, CallersKnow, ErrptrIsTheLastFailure, Says
<1> QED
  BY <1>1, <1>2, CApiStep, PTL DEF CApiSpec

-----------------------------------------------------------------------------
(* The info log. *)

Bytes == {"head", "text", "newline", "zero", "junk"}

\* A line that a caller can hand in: a newline only at its end.
LogLine(s) == s \in Seq(Bytes) /\ \A i \in 1..(Len(s) - 1) : s[i] # "newline"

\* What a pass of Logv finds in the buffer: the first bytes of the line, as
\* many as fit, and the byte behind the buffer untouched.
Formatted(f, bufsize, line) ==
  /\ DOMAIN f.b = 1..(bufsize + 1) /\ f.b \in Seq(Bytes) /\ Len(f.b) = bufsize + 1
  /\ f.p \in Nat
  /\ f.b[bufsize + 1] = "junk"
  /\ \A i \in 1..Len(line) : i < bufsize => f.b[i] = line[i]
  /\ Full(f.p, bufsize) => Len(line) >= bufsize
  /\ ~Full(f.p, bufsize) => f.p = Len(line)

\* snprintf stores nothing behind limit, keeps what is before p, and stores as
\* much of the text as leaves room for a zero.
Stored(c, b, p, n, text) ==
  /\ c \in Seq(Bytes) /\ Len(c) = n + 1
  /\ c[n + 1] = b[n + 1]
  /\ \A i \in 1..p : c[i] = b[i]
  /\ \A i \in 1..Len(text) : p + i < n => c[p + i] = text[i]

\* snprintf stores what fits before byte n, and nothing behind it.
LEMMA SnprintfStores ==
  ASSUME NEW n \in Nat, NEW b \in Seq(Bytes), Len(b) = n + 1, NEW p \in Nat, p < n,
         NEW text \in Seq(Bytes)
  PROVE  Stored(Snprintf(b, p, n, text), b, p, n, text)
<1> DEFINE c == Snprintf(b, p, n, text)
<1>1. c = [i \in 1..(n + 1) |->
        IF i \in (p + 1)..(n - 1) /\ i - p <= Len(text) THEN text[i - p]
        ELSE IF i = n /\ p + Len(text) >= n THEN "zero"
        ELSE IF i <= n /\ i = p + Len(text) + 1 THEN "zero"
        ELSE b[i]]
  BY DEF Snprintf
<1>2. Len(text) \in Nat /\ DOMAIN text = 1..Len(text) /\ \A i \in 1..Len(text) : text[i] \in Bytes
  OBVIOUS
<1>3. \A i \in 1..(n + 1) : b[i] \in Bytes
  OBVIOUS
<1> HIDE DEF c
<1>4. \A i \in 1..(n + 1) : c[i] \in Bytes
  <2> SUFFICES ASSUME NEW i \in 1..(n + 1) PROVE c[i] \in Bytes
    OBVIOUS
  <2>1. CASE i \in (p + 1)..(n - 1) /\ i - p <= Len(text)
    BY <1>1, <1>2, <2>1
  <2>2. CASE ~(i \in (p + 1)..(n - 1) /\ i - p <= Len(text))
    BY <1>1, <1>3, <2>2 DEF Bytes
  <2> QED
    BY <2>1, <2>2
<1>5. c \in [1..(n + 1) -> Bytes]
  BY <1>1, <1>4
<1>6. c \in Seq(Bytes) /\ Len(c) = n + 1
  BY <1>5
<1>7. c[n + 1] = b[n + 1]
  BY <1>1
<1>8. \A i \in 1..p : c[i] = b[i]
  BY <1>1, <1>2
<1>9. \A i \in 1..Len(text) : p + i < n => c[p + i] = text[i]
  BY <1>1, <1>2
<1> QED
  BY <1>6, <1>7, <1>8, <1>9 DEF c, Stored

\* The two snprintf calls of a pass of Logv.
LEMMA FormatWrites ==
  ASSUME NEW n \in Nat \ {0}, NEW header \in Seq(Bytes), NEW message \in Seq(Bytes)
  PROVE  Formatted(Format(n, header, message), n, header \o message)
<1> DEFINE junk == [i \in 1..(n + 1) |-> "junk"]
           b == Snprintf(junk, 0, n, header)
           p == Len(header)
           c == Snprintf(b, p, n, message)
           line == header \o message
<1>1. junk \in Seq(Bytes) /\ Len(junk) = n + 1 /\ junk[n + 1] = "junk"
  BY DEF Bytes
<1>2. /\ b \in Seq(Bytes) /\ Len(b) = n + 1 /\ b[n + 1] = "junk"
      /\ \A i \in 1..p : 0 + i < n => b[0 + i] = header[i]
  <2> HIDE DEF junk, b
  <2>1. n \in Nat /\ 0 \in Nat /\ 0 < n
    OBVIOUS
  <2>2. Stored(b, junk, 0, n, header)
    BY <1>1, <2>1, SnprintfStores DEF b
  <2> QED
    BY <1>1, <2>2 DEF Stored
<1>3. /\ p \in Nat /\ Len(message) \in Nat /\ Len(line) = p + Len(message)
      /\ \A i \in 1..p : line[i] = header[i]
      /\ \A i \in 1..Len(message) : line[p + i] = message[i]
  OBVIOUS
<1> HIDE DEF junk, b, line
<1>4. CASE p < n
  <2>1. /\ c \in Seq(Bytes) /\ Len(c) = n + 1 /\ c[n + 1] = b[n + 1]
        /\ \A i \in 1..p : c[i] = b[i]
        /\ \A i \in 1..Len(message) : p + i < n => c[p + i] = message[i]
    <3>1. Stored(c, b, p, n, message)
      BY <1>2, <1>3, <1>4, SnprintfStores
    <3> QED
      BY <3>1 DEF Stored
  <2>2. Format(n, header, message) = [b |-> c, p |-> p + Len(message)]
    BY <1>4 DEF Format, junk, b
  <2> HIDE DEF c, p
  <2>3. \A i \in 1..Len(line) : i < n => c[i] = line[i]
    <3> SUFFICES ASSUME NEW i \in 1..Len(line), i < n PROVE c[i] = line[i]
      OBVIOUS
    <3>1. CASE i <= p
      <4>1. i \in 1..p /\ 0 + i = i
        BY <1>3, <3>1
      <4> QED
        BY <4>1, <1>2, <1>3, <2>1
    <3>2. CASE i > p
      <4>1. PICK j \in 1..Len(message) : i = p + j
        <5>1. i - p \in 1..Len(message) /\ i = p + (i - p)
          BY <1>3, <3>2
        <5> QED
          BY <5>1
      <4> QED
        BY <4>1, <1>3, <2>1
    <3> QED
      BY <3>1, <3>2, <1>3
  <2> QED
    BY <1>2, <1>3, <2>1, <2>2, <2>3 DEF Formatted, Full, line
<1>5. CASE ~(p < n)
  <2>1. Format(n, header, message) = [b |-> b, p |-> p]
    BY <1>5 DEF Format, junk, b
  <2> HIDE DEF p
  <2>2. \A i \in 1..Len(line) : i < n => b[i] = line[i]
    <3> SUFFICES ASSUME NEW i \in 1..Len(line), i < n PROVE b[i] = line[i]
      OBVIOUS
    <3>1. i \in 1..p /\ 0 + i = i
      BY <1>3, <1>5
    <3> QED
      BY <3>1, <1>2, <1>3
  <2> QED
    BY <1>2, <1>3, <1>5, <2>1, <2>2 DEF Formatted, Full, line
<1> QED
  BY <1>4, <1>5

\* What LinesAreWhole says of a call, a buffer and what was written; whole:
\* the line had to fit.
LineIsWhole(line, b, w, whole) ==
  LET n == Len(w)
      text == IF line # <<>> /\ line[Len(line)] = "newline"
              THEN SubSeq(line, 1, Len(line) - 1) ELSE line
  IN /\ b[Len(b)] = "junk"
     /\ n < Len(b) /\ w[n] = "newline"
     /\ n - 1 <= Len(text) /\ SubSeq(w, 1, n - 1) = SubSeq(text, 1, n - 1)
     /\ whole => n - 1 = Len(text)

\* The end of a pass: the line is cut only when it does not fit, and gets the
\* newline it lacks.
LEMMA EndLineEnds ==
  ASSUME NEW n \in Nat \ {0}, NEW line, LogLine(line), NEW f, Formatted(f, n, line),
         DOMAIN f = {"b", "p"}
  PROVE  LET e == EndLine(f, n)
         IN LineIsWhole(line, e.b, SubSeq(e.b, 1, e.p), ~Full(f.p, n))
<1> DEFINE p == IF Full(f.p, n) THEN n - 1 ELSE f.p
           L == Len(line)
           e == EndLine(f, n)
           w == SubSeq(e.b, 1, e.p)
           text == IF line # <<>> /\ line[L] = "newline" THEN SubSeq(line, 1, L - 1) ELSE line
<1>1. /\ DOMAIN f.b = 1..(n + 1) /\ f.b \in Seq(Bytes) /\ Len(f.b) = n + 1
      /\ f.p \in Nat /\ f.b[n + 1] = "junk"
      /\ \A i \in 1..L : i < n => f.b[i] = line[i]
      /\ Full(f.p, n) => L >= n
      /\ ~Full(f.p, n) => f.p = L
  BY DEF Formatted
<1>2. line \in Seq(Bytes) /\ L \in Nat /\ \A i \in 1..(L - 1) : line[i] # "newline"
  BY DEF LogLine
<1>3. p \in 0..(n - 1) /\ p <= L /\ (p < L => p = n - 1 /\ Full(f.p, n))
  BY <1>1, <1>2 DEF Full
<1>4. \A i \in 1..p : f.b[i] = line[i]
  <2> HIDE DEF p, L
  <2>1. \A i \in 1..p : i \in 1..L /\ i < n
    BY <1>2, <1>3
  <2> QED
    BY <1>1, <2>1
<1>5. e = IF p > 0 /\ f.b[p] = "newline" THEN [f EXCEPT !.p = p]
          ELSE [b |-> [f.b EXCEPT ![p + 1] = "newline"], p |-> p + 1]
  BY DEF EndLine
<1>6. /\ text \in Seq(Bytes) /\ Len(text) \in Nat
      /\ \A i \in 1..Len(text) : text[i] = line[i]
      /\ Len(text) = IF line # <<>> /\ line[L] = "newline" THEN L - 1 ELSE L
  BY <1>2
<1>7. L = 0 <=> line = <<>>
  BY <1>2
<1> HIDE DEF p, e, L, text
<1>8. CASE p > 0 /\ f.b[p] = "newline"
  <2>1. e.b = f.b /\ e.p = p
    BY <1>5, <1>8
  <2>2. line[p] = "newline" /\ p = L
    <3>1. p \in 1..p
      BY <1>3, <1>8
    <3>2. line[p] = "newline"
      BY <3>1, <1>4, <1>8
    <3>3. ~(p \in 1..(L - 1))
      BY <3>2, <1>2
    <3> QED
      BY <3>2, <3>3, <1>2, <1>3, <1>8
  <2>3. Len(text) = p - 1
    BY <2>2, <1>6, <1>7, <1>8, <1>2
  <2>4. w \in Seq(Bytes) /\ Len(w) = p /\ \A i \in 1..p : w[i] = f.b[i]
    BY <2>1, <1>1, <1>3
  <2> HIDE DEF w
  <2>5. SubSeq(w, 1, p - 1) = SubSeq(text, 1, p - 1)
    <3> DEFINE x == SubSeq(w, 1, p - 1)
               y == SubSeq(text, 1, p - 1)
    <3>1. p - 1 \in Nat /\ p - 1 <= p /\ p \in Nat
      BY <1>3, <1>8
    <3>2. x \in Seq(Bytes) /\ Len(x) = p - 1 /\ \A i \in 1..(p - 1) : x[i] = w[i]
      BY <2>4, <3>1
    <3>3. y \in Seq(Bytes) /\ Len(y) = p - 1 /\ \A i \in 1..(p - 1) : y[i] = text[i]
      BY <1>6, <2>3, <3>1
    <3> HIDE DEF x, y
    <3>4. \A i \in 1..(p - 1) : i \in 1..p /\ i \in 1..Len(text)
      BY <2>3, <3>1
    <3>5. \A i \in 1..(p - 1) : x[i] = y[i]
      BY <3>2, <3>3, <3>4, <2>4, <1>4, <1>6
    <3>6. x = y
      BY <3>2, <3>3, <3>5, SeqEqual
    <3> QED
      BY <3>6 DEF x, y
  <2>6. w[p] = "newline"
    BY <2>4, <1>8, <1>3
  <2>7. Len(e.b) = n + 1 /\ e.b[n + 1] = "junk" /\ p < n + 1
    BY <2>1, <1>1, <1>3
  <2> QED
    BY <2>1, <2>3, <2>4, <2>5, <2>6, <2>7, <1>3 DEF LineIsWhole, w, e, text, L
<1>9. CASE ~(p > 0 /\ f.b[p] = "newline")
  <2>1. e.b = [f.b EXCEPT ![p + 1] = "newline"] /\ e.p = p + 1
    BY <1>5, <1>9
  <2>2. /\ e.b \in Seq(Bytes) /\ Len(e.b) = n + 1 /\ e.b[n + 1] = "junk"
        /\ e.b[p + 1] = "newline" /\ \A i \in 1..p : e.b[i] = f.b[i]
    <3>1. p + 1 \in 1..n
      BY <1>3
    <3>2. e.b \in [1..(n + 1) -> Bytes]
      BY <2>1, <1>1, <3>1 DEF Bytes
    <3> QED
      BY <3>1, <3>2, <2>1, <1>1, <1>3
  <2>3. w \in Seq(Bytes) /\ Len(w) = p + 1 /\ \A i \in 1..(p + 1) : w[i] = e.b[i]
    BY <2>1, <2>2, <1>3
  <2> HIDE DEF w
  <2>4. p <= Len(text) /\ (~Full(f.p, n) => p = Len(text))
    <3>1. CASE p < L
      <4>1. Full(f.p, n) /\ p <= L - 1
        BY <3>1, <1>2, <1>3
      <4> QED
        BY <4>1, <1>6, <1>2, <1>3
    <3>2. CASE p = L
      <4>1. ~(line # <<>> /\ line[L] = "newline")
        <5>1. CASE L = 0
          BY <5>1, <1>7
        <5>2. CASE L # 0
          <6>1. p \in 1..p /\ p > 0
            BY <5>2, <3>2, <1>2
          <6> QED
            BY <6>1, <1>4, <1>9, <3>2
        <5> QED
          BY <5>1, <5>2
      <4>2. Len(text) = L
        BY <4>1, <1>6
      <4> QED
        BY <4>2, <3>2, <1>2
    <3> QED
      BY <3>1, <3>2, <1>2, <1>3
  <2>5. SubSeq(w, 1, p) = SubSeq(text, 1, p)
    <3> DEFINE x == SubSeq(w, 1, p)
               y == SubSeq(text, 1, p)
    <3>1. p \in Nat /\ p <= p + 1
      BY <1>3
    <3>2. x \in Seq(Bytes) /\ Len(x) = p /\ \A i \in 1..p : x[i] = w[i]
      BY <2>3, <3>1
    <3>3. y \in Seq(Bytes) /\ Len(y) = p /\ \A i \in 1..p : y[i] = text[i]
      BY <1>6, <2>4, <3>1
    <3> HIDE DEF x, y
    <3>4. \A i \in 1..p : i \in 1..(p + 1) /\ i \in 1..Len(text)
      BY <2>4, <3>1, <1>6
    <3>5. \A i \in 1..p : x[i] = y[i]
      <4> SUFFICES ASSUME NEW i \in 1..p PROVE x[i] = y[i]
        OBVIOUS
      <4>1. i \in 1..(p + 1) /\ i \in 1..Len(text)
        BY <3>4
      <4>2. x[i] = f.b[i]
        BY <3>2, <4>1, <2>3, <2>2
      <4>3. y[i] = line[i]
        BY <3>3, <4>1, <1>6
      <4> QED
        BY <4>2, <4>3, <1>4
    <3>6. x = y
      BY <3>2, <3>3, <3>5, SeqEqual
    <3> QED
      BY <3>6 DEF x, y
  <2>6. w[p + 1] = "newline" /\ p + 1 < n + 1 /\ (p + 1) - 1 = p
    BY <2>2, <2>3, <1>3
  <2> QED
    BY <2>2, <2>3, <2>4, <2>5, <2>6, <1>3 DEF LineIsWhole, w, e, text, L
<1> QED
  BY <1>8, <1>9

\* Logv: on the stack when the line fits, otherwise in the large buffer.
LEMMA LogvWrites ==
  ASSUME NEW h \in 0..MaxLine, NEW m \in 0..MaxLine, NEW end \in {<<>>, <<"newline">>},
         Logv(Repeat("head", h), Repeat("text", m) \o end)
  PROVE  LinesAreWhole'
<1> DEFINE header == Repeat("head", h)
           message == Repeat("text", m) \o end
           line == header \o message
<1>1. header \in Seq(Bytes) /\ Len(header) = h /\ \A i \in 1..h : header[i] # "newline"
  BY LoggerAssumption DEF Repeat, Bytes
<1>2. /\ message \in Seq(Bytes) /\ Len(message) \in {m, m + 1}
      /\ \A i \in 1..m : message[i] # "newline"
  <2> DEFINE t == Repeat("text", m)
  <2>1. t \in Seq(Bytes) /\ Len(t) = m /\ \A i \in 1..m : t[i] # "newline"
    BY LoggerAssumption DEF Repeat, Bytes
  <2>2. end \in Seq(Bytes) /\ Len(end) \in {0, 1}
    <3>1. CASE end = <<>>
      BY <3>1
    <3>2. CASE end = <<"newline">>
      <4>1. <<"newline">> \in Seq(Bytes) /\ Len(<<"newline">>) = 1
        BY DEF Bytes
      <4> QED
        BY <3>2, <4>1
    <3> QED
      BY <3>1, <3>2
  <2> HIDE DEF t
  <2>3. t \o end \in Seq(Bytes) /\ Len(t \o end) \in {m, m + 1} /\ \A i \in 1..m : (t \o end)[i] = t[i]
    <3>1. t \o end \in Seq(Bytes) /\ Len(t \o end) = m + Len(end)
      BY <2>1, <2>2
    <3>2. m \in Nat
      BY LoggerAssumption
    <3>3. Len(t \o end) \in {m, m + 1}
      <4>1. CASE Len(end) = 0
        BY <3>1, <3>2, <4>1
      <4>2. CASE Len(end) = 1
        BY <3>1, <4>2
      <4> QED
        BY <2>2, <4>1, <4>2
    <3>4. \A i \in 1..m : (t \o end)[i] = t[i]
      BY <2>1, <2>2, <3>2
    <3> QED
      BY <3>1, <3>3, <3>4
  <2> QED
    BY <2>1, <2>3 DEF t
<1> HIDE DEF header, message
<1>3. LogLine(line)
  <2>1. line \in Seq(Bytes) /\ Len(line) = h + Len(message)
    BY <1>1, <1>2
  <2>2. ASSUME NEW i \in 1..(Len(line) - 1) PROVE line[i] # "newline"
    <3>1. CASE i <= h
      BY <1>1, <1>2, <3>1, <2>1
    <3>2. CASE i > h
      <4>1. i - h \in 1..m /\ line[i] = message[i - h]
        BY <1>1, <1>2, <3>2, <2>1, LoggerAssumption
      <4> QED
        BY <4>1, <1>2
    <3> QED
      BY <3>1, <3>2, LoggerAssumption
  <2> QED
    BY <2>1, <2>2 DEF LogLine
<1> DEFINE f == Format(SmallBuffer, header, message)
           g == Format(LargeBuffer, header, message)
<1>4. /\ Formatted(f, SmallBuffer, line) /\ DOMAIN f = {"b", "p"}
      /\ Formatted(g, LargeBuffer, line) /\ DOMAIN g = {"b", "p"}
  <2>1. Formatted(f, SmallBuffer, line) /\ Formatted(g, LargeBuffer, line)
    BY <1>1, <1>2, FormatWrites, LoggerAssumption
  <2>2. DOMAIN f = {"b", "p"} /\ DOMAIN g = {"b", "p"}
    BY DEF Format
  <2> QED
    BY <2>1, <2>2
<1> DEFINE e == IF Full(f.p, SmallBuffer) THEN EndLine(g, LargeBuffer) ELSE EndLine(f, SmallBuffer)
<1>5. call' = line /\ memory' = e.b /\ written' = SubSeq(e.b, 1, e.p)
  BY DEF Logv, header, message
<1> HIDE DEF f, g, line
<1>6. LineIsWhole(line, e.b, SubSeq(e.b, 1, e.p), Len(line) < LargeBuffer)
  <2>1. Len(line) \in Nat
    BY <1>3 DEF LogLine
  <2>2. CASE Full(f.p, SmallBuffer)
    <3>1. LET d == EndLine(g, LargeBuffer)
          IN LineIsWhole(line, d.b, SubSeq(d.b, 1, d.p), ~Full(g.p, LargeBuffer))
      BY <1>3, <1>4, EndLineEnds, LoggerAssumption
    <3>2. Len(line) < LargeBuffer => ~Full(g.p, LargeBuffer)
      BY <1>4, <2>1, LoggerAssumption DEF Formatted
    <3> QED
      BY <2>2, <3>1, <3>2 DEF LineIsWhole
  <2>3. CASE ~Full(f.p, SmallBuffer)
    <3>1. LET d == EndLine(f, SmallBuffer)
          IN LineIsWhole(line, d.b, SubSeq(d.b, 1, d.p), ~Full(f.p, SmallBuffer))
      BY <1>3, <1>4, EndLineEnds, LoggerAssumption
    <3> QED
      BY <2>3, <3>1 DEF LineIsWhole
  <2> QED
    BY <2>2, <2>3
<1> HIDE DEF e
<1> QED
  BY <1>5, <1>6 DEF LinesAreWhole, LineIsWhole

\* PosixLogger::Logv, for lines and buffers of any length: no byte behind the
\* buffer is touched, what is written is the line, cut only by the large buffer,
\* and it ends in one newline.
THEOREM LoggerLinesAreWhole == LoggerSpec => []LinesAreWhole
<1>1. LoggerInit => LinesAreWhole
  BY DEF LoggerInit, LinesAreWhole
<1>2. LinesAreWhole /\ [LoggerNext]_loggerVars => LinesAreWhole'
  <2>1. LoggerNext => LinesAreWhole'
    BY LogvWrites DEF LoggerNext
  <2>2. LinesAreWhole /\ UNCHANGED loggerVars => LinesAreWhole'
    BY DEF LinesAreWhole, loggerVars
  <2> QED
    BY <2>1, <2>2
<1> QED
  BY <1>1, <1>2, PTL DEF LoggerSpec

-----------------------------------------------------------------------------
(* References to versions and files. *)

Fields == {"refs", "files", "prev", "next"}

\* The versions of the list; d is the one that stands alone, or 0.
InList(v, d) == DOMAIN v \ ({d} \ {Dummy})

\* The list is doubly linked, d is linked with itself.
LinksOK(v, d) ==
  /\ IsFiniteSet(DOMAIN v) /\ DOMAIN v \subseteq Nat /\ Dummy \in DOMAIN v /\ d \in DOMAIN v
  /\ \A x \in DOMAIN v : DOMAIN v[x] = Fields
  /\ d # Dummy => v[d].prev = d /\ v[d].next = d
  /\ \A x \in InList(v, d) : /\ v[x].prev \in InList(v, d) /\ v[v[x].prev].next = x
                             /\ v[x].next \in InList(v, d) /\ v[v[x].next].prev = x

\* It is one list: going back from any version ends at the dummy.
RanksOK(v, d, pos) ==
  pos \in [InList(v, d) -> Nat] /\ \A x \in InList(v, d) \ {Dummy} : pos[v[x].prev] < pos[x]
Ranked(v, d) == \E pos : RanksOK(v, d, pos)

\* A file has a reference from each version that names it, and lives as long.
Users(v, f) == {x \in DOMAIN v : f \in v[x].files}
FilesOK(v, m) ==
  /\ \A x \in DOMAIN v : v[x].files \subseteq DOMAIN m
  /\ v[Dummy].files = {}
  /\ \A f \in DOMAIN m : /\ DOMAIN m[f] = {"refs", "number"}
                         /\ m[f].refs = Cardinality(Users(v, f)) /\ m[f].refs # 0

\* A version has a reference from each that holds it; one in the list is held.
Holders(p, i, c, x) == Cardinality({r \in RefReaders : p[r] = x})
                         + (IF i = x THEN 1 ELSE 0) + (IF c = x THEN 1 ELSE 0)
HoldsOK(v, d, p, i, c) ==
  /\ p \in [RefReaders -> InList(v, d)] /\ i \in InList(v, d) /\ c \in InList(v, d)
  /\ \A x \in DOMAIN v \ {Dummy} : v[x].refs = Holders(p, i, c, x)
  /\ \A x \in InList(v, d) \ {Dummy} : Holders(p, i, c, x) # 0

ClosedOK(d, p, i, c) == c = 0 => d = 0 /\ i = 0 /\ \A r \in RefReaders : p[r] = 0

RefInv ==
  /\ LinksOK(version, pending) /\ Ranked(version, pending)
  /\ FilesOK(version, meta)
  /\ HoldsOK(version, pending, pins, inputs, current)
  /\ ClosedOK(pending, pins, inputs, current)

\* Two lists with the same links and files.
SameShape(v, w) ==
  /\ DOMAIN w = DOMAIN v
  /\ \A x \in DOMAIN v : /\ DOMAIN w[x] = Fields /\ w[x].prev = v[x].prev
                         /\ w[x].next = v[x].next /\ w[x].files = v[x].files

\* Counting references leaves the list and the files as they are.
LEMMA ShapeKeeps ==
  ASSUME NEW v, NEW w, NEW d, NEW m, LinksOK(v, d), Ranked(v, d), FilesOK(v, m), SameShape(v, w)
  PROVE  LinksOK(w, d) /\ Ranked(w, d) /\ FilesOK(w, m)
<1>1. InList(w, d) = InList(v, d) /\ InList(v, d) \subseteq DOMAIN v /\ Dummy \in DOMAIN v
  BY DEF InList, SameShape, LinksOK
<1>2. LinksOK(w, d)
  BY <1>1 DEF LinksOK, SameShape
<1>3. Ranked(w, d)
  <2>1. PICK pos : RanksOK(v, d, pos)
    BY DEF Ranked
  <2>2. RanksOK(w, d, pos)
    BY <1>1, <2>1 DEF RanksOK, SameShape
  <2> QED
    BY <2>2 DEF Ranked
<1>4. FilesOK(w, m)
  <2>1. \A f \in DOMAIN m : Users(w, f) = Users(v, f)
    BY DEF Users, SameShape
  <2> QED
    BY <1>1, <2>1 DEF FilesOK, SameShape
<1> QED
  BY <1>2, <1>3, <1>4

\* A list without one of its versions.
Without(v, u, x) ==
  /\ DOMAIN u = DOMAIN v \ {x}
  /\ \A y \in DOMAIN u : DOMAIN u[y] = Fields /\ u[y].files = v[y].files /\ u[y].refs = v[y].refs

\* ~Version of a version in the list joins its neighbours.
LEMMA UnlinkedListed ==
  ASSUME NEW v, NEW d, NEW x \in InList(v, d) \ {Dummy}, LinksOK(v, d), Ranked(v, d)
  PROVE  LET u == Unlinked(v, x) IN Without(v, u, x) /\ LinksOK(u, d) /\ Ranked(u, d)
<1> DEFINE a == v[x].prev
           b == v[x].next
           L == InList(v, d)
           e == [v EXCEPT ![a].next = b, ![b].prev = a]
           u == Cut(e, {x})
<1>1. PICK pos : RanksOK(v, d, pos)
  BY DEF Ranked
<1>2. /\ L \subseteq DOMAIN v /\ Dummy \in L /\ x \in L /\ x # Dummy
      /\ a \in L /\ b \in L /\ v[a].next = x /\ v[b].prev = x
  BY DEF LinksOK, InList
<1>3. pos \in [L -> Nat] /\ \A y \in L \ {Dummy} : pos[v[y].prev] < pos[y]
  BY <1>1 DEF RanksOK
<1>4. a # x /\ b # x
  <2>1. a # x
    BY <1>2, <1>3
  <2>2. b # x
    BY <1>2, <2>1
  <2> QED
    BY <2>1, <2>2
<1>5. Unlinked(v, x) = u
  BY <1>4 DEF Unlinked
<1>6. \A y \in DOMAIN v : DOMAIN v[y] = Fields
  BY DEF LinksOK
<1>7. /\ DOMAIN u = DOMAIN v \ {x}
      /\ \A y \in DOMAIN u : /\ DOMAIN u[y] = Fields
                             /\ u[y].files = v[y].files /\ u[y].refs = v[y].refs
                             /\ u[y].next = IF y = a THEN b ELSE v[y].next
                             /\ u[y].prev = IF y = b THEN a ELSE v[y].prev
  <2>1. DOMAIN u = DOMAIN v \ {x} /\ \A y \in DOMAIN u : u[y] = e[y]
    BY DEF Cut
  <2>2. ASSUME NEW y \in DOMAIN v
        PROVE  /\ DOMAIN e[y] = Fields /\ e[y].files = v[y].files /\ e[y].refs = v[y].refs
               /\ e[y].next = IF y = a THEN b ELSE v[y].next
               /\ e[y].prev = IF y = b THEN a ELSE v[y].prev
    <3> HIDE DEF a, b
    <3>1. a \in DOMAIN v /\ b \in DOMAIN v
      BY <1>2
    <3> QED
      BY <1>6, <3>1 DEF Fields
  <2> HIDE DEF u, e, a, b
  <2> QED
    BY <2>1, <2>2
<1> HIDE DEF a, b, u, e
<1>8. InList(u, d) = L \ {x}
  BY <1>7 DEF InList
<1>9. Without(v, u, x)
  BY <1>7 DEF Without
<1>10. /\ \A y \in L : v[y].prev \in L /\ v[v[y].prev].next = y
       /\ \A y \in L : v[y].next \in L /\ v[v[y].next].prev = y
  BY DEF LinksOK
<1>11. ASSUME NEW y \in L \ {x}
       PROVE  /\ u[y].prev \in L \ {x} /\ u[u[y].prev].next = y
              /\ u[y].next \in L \ {x} /\ u[u[y].next].prev = y
  <2>1. y \in DOMAIN u /\ \A z \in L \ {x} : z \in DOMAIN u
    BY <1>2, <1>7
  <2>2. u[y].prev \in L \ {x} /\ u[u[y].prev].next = y
    <3>1. CASE y = b
      BY <3>1, <2>1, <1>7, <1>2, <1>4
    <3>2. CASE y # b
      <4>1. v[y].prev # x /\ v[y].prev # a
        BY <3>2, <1>10, <1>2 DEF b
      <4> QED
        BY <3>2, <4>1, <2>1, <1>7, <1>10
    <3> QED
      BY <3>1, <3>2
  <2>3. u[y].next \in L \ {x} /\ u[u[y].next].prev = y
    <3>1. CASE y = a
      BY <3>1, <2>1, <1>7, <1>2, <1>4
    <3>2. CASE y # a
      <4>1. v[y].next # x /\ v[y].next # b
        BY <3>2, <1>10, <1>2 DEF a
      <4> QED
        BY <3>2, <4>1, <2>1, <1>7, <1>10
    <3> QED
      BY <3>1, <3>2
  <2> QED
    BY <2>2, <2>3
<1>12. LinksOK(u, d)
  <2>1. IsFiniteSet(DOMAIN u) /\ DOMAIN u \subseteq Nat
    BY <1>7, FS_Subset DEF LinksOK
  <2>2. Dummy \in DOMAIN u /\ d \in DOMAIN u
    BY <1>2, <1>7 DEF LinksOK, InList
  <2>3. d # Dummy => u[d].prev = d /\ u[d].next = d
    <3> SUFFICES ASSUME d # Dummy PROVE u[d].prev = d /\ u[d].next = d
      OBVIOUS
    <3>1. d \notin L /\ v[d].prev = d /\ v[d].next = d
      BY DEF InList, LinksOK
    <3> QED
      BY <3>1, <2>2, <1>7, <1>2
  <2> QED
    BY <1>7, <1>8, <1>11, <2>1, <2>2, <2>3 DEF LinksOK
<1>13. Ranked(u, d)
  <2> DEFINE q == [y \in L \ {x} |-> pos[y]]
  <2>1. q \in [L \ {x} -> Nat]
    BY <1>3
  <2>2. ASSUME NEW y \in (L \ {x}) \ {Dummy} PROVE q[u[y].prev] < q[y]
    <3>1. u[y].prev \in L \ {x} /\ y \in DOMAIN u
      BY <1>11, <1>2, <1>7
    <3>2. CASE y = b
      <4>1. u[y].prev = a /\ pos[a] < pos[x] /\ pos[x] < pos[y]
        BY <3>1, <3>2, <1>7, <1>2, <1>3 DEF a
      <4>2. pos[a] \in Nat /\ pos[x] \in Nat /\ pos[y] \in Nat
        BY <1>2, <1>3
      <4> QED
        BY <3>1, <4>1, <4>2
    <3>3. CASE y # b
      <4>1. u[y].prev = v[y].prev /\ pos[v[y].prev] < pos[y]
        BY <3>1, <3>3, <1>7, <1>3
      <4> QED
        BY <3>1, <4>1
    <3> QED
      BY <3>2, <3>3
  <2>3. RanksOK(u, d, q)
    <3> HIDE DEF q
    <3> QED
      BY <1>8, <2>1, <2>2 DEF RanksOK
  <2> QED
    BY <2>3 DEF Ranked
<1> QED
  BY <1>5, <1>9, <1>12, <1>13

\* ~Version of the version that stands alone.
LEMMA UnlinkedAlone ==
  ASSUME NEW v, NEW d, d # Dummy, LinksOK(v, d), Ranked(v, d)
  PROVE  LET u == Unlinked(v, d) IN Without(v, u, d) /\ LinksOK(u, Dummy) /\ Ranked(u, Dummy)
<1> DEFINE u == Cut(v, {d})
<1>1. Unlinked(v, d) = u
  BY DEF Unlinked, LinksOK
<1>2. DOMAIN u = DOMAIN v \ {d} /\ \A y \in DOMAIN u : u[y] = v[y]
  BY DEF Cut
<1> HIDE DEF u
<1>3. InList(u, Dummy) = InList(v, d) /\ InList(v, d) = DOMAIN u
  BY <1>2 DEF InList
<1>4. Without(v, u, d)
  BY <1>2 DEF Without, LinksOK
<1>5. LinksOK(u, Dummy)
  <2>1. IsFiniteSet(DOMAIN u)
    BY <1>2, FS_Subset DEF LinksOK
  <2> QED
    BY <2>1, <1>2, <1>3 DEF LinksOK
<1>6. Ranked(u, Dummy)
  <2>1. PICK pos : RanksOK(v, d, pos)
    BY DEF Ranked
  <2>2. RanksOK(u, Dummy, pos)
    BY <1>2, <1>3, <2>1 DEF RanksOK
  <2> QED
    BY <2>2 DEF Ranked
<1> QED
  BY <1>1, <1>4, <1>5, <1>6

\* A version goes and its files lose a reference each.
LEMMA FilesDropped ==
  ASSUME NEW v, NEW u, NEW m, NEW x \in DOMAIN v, x # Dummy, Dummy \in DOMAIN v,
         IsFiniteSet(DOMAIN v), FilesOK(v, m), Without(v, u, x)
  PROVE  FilesOK(u, DropFiles(m, v[x].files))
<1> DEFINE S == v[x].files
           e == [i \in DOMAIN m |-> IF i \in S THEN [m[i] EXCEPT !.refs = @ - 1] ELSE m[i]]
           n == DropFiles(m, S)
<1>1. /\ DOMAIN n \subseteq DOMAIN m
      /\ \A f \in DOMAIN m : f \in DOMAIN n <=> e[f].refs # 0
      /\ \A f \in DOMAIN n : n[f] = e[f]
  BY DEF DropFiles, Cut
<1>2. ASSUME NEW f \in DOMAIN m
      PROVE  DOMAIN e[f] = {"refs", "number"} /\ e[f].refs = Cardinality(Users(u, f))
  <2>1. DOMAIN m[f] = {"refs", "number"} /\ m[f].refs = Cardinality(Users(v, f))
    BY DEF FilesOK
  <2>2. IsFiniteSet(Users(v, f)) /\ Cardinality(Users(v, f)) \in Nat
    BY FS_Subset, FS_CardinalityType DEF Users
  <2>3. CASE f \in S
    <3>1. Users(u, f) = Users(v, f) \ {x} /\ x \in Users(v, f)
      BY <2>3 DEF Users, Without
    <3>2. Cardinality(Users(u, f)) = Cardinality(Users(v, f)) - 1
      BY <3>1, <2>2, FS_RemoveElement
    <3>3. e[f] = [m[f] EXCEPT !.refs = @ - 1]
      BY <2>3
    <3> HIDE DEF e
    <3> QED
      BY <3>2, <3>3, <2>1
  <2>4. CASE f \notin S
    <3>1. Users(u, f) = Users(v, f)
      BY <2>4 DEF Users, Without
    <3> QED
      BY <3>1, <2>1, <2>4
  <2> QED
    BY <2>3, <2>4
<1> HIDE DEF e, n
<1>3. ASSUME NEW y \in DOMAIN u PROVE u[y].files \subseteq DOMAIN n
  <2> SUFFICES ASSUME NEW f \in u[y].files PROVE f \in DOMAIN n
    OBVIOUS
  <2>1. f \in DOMAIN m
    BY DEF FilesOK, Without
  <2>2. y \in Users(u, f) /\ IsFiniteSet(Users(u, f))
    BY FS_Subset DEF Users, Without
  <2>3. Cardinality(Users(u, f)) # 0
    BY <2>2, FS_EmptySet
  <2> QED
    BY <2>1, <2>3, <1>1, <1>2
<1>4. u[Dummy].files = {}
  BY DEF FilesOK, Without
<1>5. FilesOK(u, n)
  BY <1>1, <1>2, <1>3, <1>4 DEF FilesOK
<1> QED
  BY <1>5 DEF n

\* A version that nobody holds.
LEMMA HoldersCount ==
  ASSUME NEW p, NEW i, NEW c, NEW x
  PROVE  /\ Holders(p, i, c, x) \in Nat
         /\ Holders(p, i, c, x) = 0 <=> i # x /\ c # x /\ \A r \in RefReaders : p[r] # x
<1> DEFINE S == {r \in RefReaders : p[r] = x}
<1>1. IsFiniteSet(S) /\ Cardinality(S) \in Nat
  BY RefAssumption, FS_Subset, FS_CardinalityType
<1>2. Cardinality(S) = 0 <=> S = {}
  BY <1>1, FS_EmptySet
<1>3. S = {} <=> \A r \in RefReaders : p[r] # x
  OBVIOUS
<1>4. Holders(p, i, c, x) = Cardinality(S) + (IF i = x THEN 1 ELSE 0) + (IF c = x THEN 1 ELSE 0)
  BY DEF Holders
<1> HIDE DEF S
<1> QED
  BY <1>1, <1>2, <1>3, <1>4

\* A reader that takes or drops a version changes its count by one.
LEMMA PinCounts ==
  ASSUME NEW p, NEW q, NEW i, NEW c, NEW r \in RefReaders, NEW y, p[r] # y,
         \A s \in RefReaders : q[s] = IF s = r THEN y ELSE p[s]
  PROVE  /\ Holders(q, i, c, y) = Holders(p, i, c, y) + 1
         /\ Holders(q, i, c, p[r]) = Holders(p, i, c, p[r]) - 1
         /\ \A x : x # y /\ x # p[r] => Holders(q, i, c, x) = Holders(p, i, c, x)
<1> DEFINE S(x) == {s \in RefReaders : p[s] = x}
           T(x) == {s \in RefReaders : q[s] = x}
           o == p[r]
           I(x) == IF i = x THEN 1 ELSE 0
           C(x) == IF c = x THEN 1 ELSE 0
<1>2. \A x : Holders(p, i, c, x) = Cardinality(S(x)) + I(x) + C(x)
  BY DEF Holders
<1>3. \A x : Holders(q, i, c, x) = Cardinality(T(x)) + I(x) + C(x)
  BY DEF Holders
<1>4. \A x : IsFiniteSet(S(x)) /\ Cardinality(S(x)) \in Nat
  BY RefAssumption, FS_Subset, FS_CardinalityType
<1>5. \A x : I(x) \in Nat /\ C(x) \in Nat
  OBVIOUS
<1>6. T(y) = S(y) \cup {r} /\ r \notin S(y)
  OBVIOUS
<1>7. T(o) = S(o) \ {r} /\ r \in S(o)
  OBVIOUS
<1>8. \A x : x # y /\ x # o => T(x) = S(x)
  OBVIOUS
<1> HIDE DEF S, T, I, C, o
<1>9. Cardinality(T(y)) = Cardinality(S(y)) + 1
  BY <1>4, <1>6, FS_AddElement
<1>10. Cardinality(T(o)) = Cardinality(S(o)) - 1
  BY <1>4, <1>7, FS_RemoveElement
<1>11. Holders(q, i, c, y) = Holders(p, i, c, y) + 1
  BY <1>2, <1>3, <1>4, <1>5, <1>9
<1>12. Holders(q, i, c, o) = Holders(p, i, c, o) - 1
  BY <1>2, <1>3, <1>4, <1>5, <1>10
<1>13. \A x : x # y /\ x # o => Holders(q, i, c, x) = Holders(p, i, c, x)
  BY <1>2, <1>3, <1>8
<1> QED
  BY <1>11, <1>12, <1>13 DEF o

\* Who holds what after one of the holders of x let it go.
Released(v, x, p, i, c, q, j, k) ==
  /\ Holders(q, j, k, x) = Holders(p, i, c, x) - 1
  /\ \A y \in DOMAIN v \ {Dummy, x} : Holders(q, j, k, y) = Holders(p, i, c, y)

\* Version::Unref.
LEMMA UnrefKeeps ==
  ASSUME NEW v, NEW m, NEW d, NEW p, NEW i, NEW c, NEW q, NEW j, NEW k,
         LinksOK(v, d), Ranked(v, d), FilesOK(v, m), HoldsOK(v, d, p, i, c),
         NEW x \in InList(v, d) \ {Dummy}, Released(v, x, p, i, c, q, j, k),
         q \in [RefReaders -> InList(v, d)], j \in InList(v, d), k \in InList(v, d)
  PROVE  LET g == UnrefVersion([v |-> v, m |-> m], x)
         IN /\ LinksOK(g.v, d) /\ Ranked(g.v, d) /\ FilesOK(g.v, g.m)
            /\ HoldsOK(g.v, d, q, j, k)
            /\ DOMAIN g = {"v", "m"}
<1> DEFINE h == [v |-> v, m |-> m]
           g == UnrefVersion(h, x)
<1>1. /\ x \in DOMAIN v /\ v[x].refs = Holders(p, i, c, x) /\ v[x].refs \in Nat /\ v[x].refs # 0
      /\ \A y \in DOMAIN v \ {Dummy} : v[y].refs = Holders(p, i, c, y)
      /\ \A y \in InList(v, d) \ {Dummy} : Holders(p, i, c, y) # 0
  BY HoldersCount DEF HoldsOK, InList
<1>2. \A y \in DOMAIN v : DOMAIN v[y] = Fields
  BY DEF LinksOK
<1>3. CASE v[x].refs > 1
  <2> DEFINE w == [v EXCEPT ![x].refs = @ - 1]
  <2>1. g = [v |-> w, m |-> m]
    <3>1. g = [h EXCEPT !.v[x].refs = @ - 1]
      BY <1>3 DEF UnrefVersion
    <3> QED
      BY <3>1
  <2>2. /\ DOMAIN w = DOMAIN v
        /\ \A y \in DOMAIN v : /\ DOMAIN w[y] = Fields /\ w[y].prev = v[y].prev
                               /\ w[y].next = v[y].next /\ w[y].files = v[y].files
                               /\ w[y].refs = IF y = x THEN v[x].refs - 1 ELSE v[y].refs
    BY <1>1, <1>2 DEF Fields
  <2> HIDE DEF w
  <2>3. LinksOK(w, d) /\ Ranked(w, d) /\ FilesOK(w, m)
    <3>1. SameShape(v, w)
      BY <2>2 DEF SameShape
    <3> QED
      BY <3>1, ShapeKeeps
  <2>4. InList(w, d) = InList(v, d)
    BY <2>2 DEF InList
  <2>5. ASSUME NEW y \in DOMAIN w \ {Dummy} PROVE w[y].refs = Holders(q, j, k, y)
    BY <1>1, <2>2 DEF Released
  <2>6. ASSUME NEW y \in InList(w, d) \ {Dummy} PROVE Holders(q, j, k, y) # 0
    <3>1. CASE y = x
      BY <3>1, <1>1, <1>3 DEF Released
    <3>2. CASE y # x
      BY <3>2, <1>1, <2>4 DEF Released, InList
    <3> QED
      BY <3>1, <3>2
  <2>7. HoldsOK(w, d, q, j, k)
    BY <2>4, <2>5, <2>6 DEF HoldsOK
  <2> QED
    BY <2>1, <2>3, <2>7
<1>4. CASE ~(v[x].refs > 1)
  <2> DEFINE u == Unlinked(v, x)
             n == DropFiles(m, v[x].files)
  <2>1. g = [v |-> u, m |-> n]
    BY <1>4 DEF UnrefVersion
  <2>2. Without(v, u, x) /\ LinksOK(u, d) /\ Ranked(u, d)
    BY UnlinkedListed
  <2> HIDE DEF u
  <2>3. FilesOK(u, n)
    BY <1>1, <2>2, FilesDropped DEF LinksOK
  <2> HIDE DEF n
  <2>4. InList(u, d) = InList(v, d) \ {x} /\ DOMAIN u = DOMAIN v \ {x}
    BY <2>2 DEF InList, Without
  <2>5. Holders(q, j, k, x) = 0
    BY <1>1, <1>4 DEF Released
  <2>6. q \in [RefReaders -> InList(u, d)] /\ j \in InList(u, d) /\ k \in InList(u, d)
    <3>1. j # x /\ k # x /\ \A r \in RefReaders : q[r] # x
      BY <2>5, HoldersCount
    <3> QED
      BY <2>4, <3>1
  <2>7. \A y \in DOMAIN u \ {Dummy} : u[y].refs = Holders(q, j, k, y)
    BY <1>1, <2>2, <2>4 DEF Released, Without
  <2>8. \A y \in InList(u, d) \ {Dummy} : Holders(q, j, k, y) # 0
    BY <1>1, <2>4 DEF Released, InList
  <2>9. HoldsOK(u, d, q, j, k)
    BY <2>6, <2>7, <2>8 DEF HoldsOK
  <2> QED
    BY <2>1, <2>2, <2>3, <2>9
<1> QED
  BY <1>1, <1>3, <1>4

\* AppendVersion puts the version that stands alone at the end of the list.
LinkedAtEnd(v, x) ==
  LET end == v[Dummy].prev
      r == [v EXCEPT ![x].refs = 1, ![x].prev = end, ![x].next = Dummy]
  IN [r EXCEPT ![end].next = x, ![Dummy].prev = x]

\* Then every version is in the list.
LEMMA LinkedKeeps ==
  ASSUME NEW v, NEW d, d # Dummy, LinksOK(v, d), Ranked(v, d)
  PROVE  LET w == LinkedAtEnd(v, d)
         IN /\ LinksOK(w, Dummy) /\ Ranked(w, Dummy) /\ DOMAIN w = DOMAIN v
            /\ \A y \in DOMAIN v : /\ w[y].files = v[y].files
                                   /\ w[y].refs = IF y = d THEN 1 ELSE v[y].refs
<1> DEFINE end == v[Dummy].prev
           r == [v EXCEPT ![d].refs = 1, ![d].prev = end, ![d].next = Dummy]
           w == [r EXCEPT ![end].next = d, ![Dummy].prev = d]
           L == InList(v, d)
<1>1. LinkedAtEnd(v, d) = w
  BY DEF LinkedAtEnd
<1>2. /\ L = DOMAIN v \ {d} /\ Dummy \in L /\ end \in L /\ end # d /\ v[end].next = Dummy
      /\ d \in DOMAIN v /\ L \subseteq DOMAIN v
  BY DEF LinksOK, InList
<1>3. \A y \in DOMAIN v : DOMAIN v[y] = Fields
  BY DEF LinksOK
<1>4. /\ \A y \in L : v[y].prev \in L /\ v[v[y].prev].next = y
      /\ \A y \in L : v[y].next \in L /\ v[v[y].next].prev = y
  BY DEF LinksOK
<1> HIDE DEF end, L
<1>5. /\ DOMAIN r = DOMAIN v
      /\ \A y \in DOMAIN v : /\ DOMAIN r[y] = Fields /\ r[y].files = v[y].files
                             /\ r[y].refs = IF y = d THEN 1 ELSE v[y].refs
                             /\ r[y].prev = IF y = d THEN end ELSE v[y].prev
                             /\ r[y].next = IF y = d THEN Dummy ELSE v[y].next
  BY <1>2, <1>3 DEF Fields
<1> HIDE DEF r
<1>6. /\ DOMAIN w = DOMAIN v
      /\ \A y \in DOMAIN v : /\ DOMAIN w[y] = Fields /\ w[y].files = r[y].files
                             /\ w[y].refs = r[y].refs
                             /\ w[y].prev = IF y = Dummy THEN d ELSE r[y].prev
                             /\ w[y].next = IF y = end THEN d ELSE r[y].next
  BY <1>2, <1>5 DEF Fields
<1> HIDE DEF w
<1>7. \A y \in DOMAIN v : /\ w[y].files = v[y].files
                          /\ w[y].refs = IF y = d THEN 1 ELSE v[y].refs
                          /\ w[y].prev = IF y = d THEN end ELSE IF y = Dummy THEN d ELSE v[y].prev
                          /\ w[y].next = IF y = d THEN Dummy ELSE IF y = end THEN d ELSE v[y].next
  BY <1>2, <1>5, <1>6
<1>8. InList(w, Dummy) = DOMAIN v
  BY <1>6 DEF InList
<1>9. ASSUME NEW y \in DOMAIN v
      PROVE  /\ w[y].prev \in DOMAIN v /\ w[w[y].prev].next = y
             /\ w[y].next \in DOMAIN v /\ w[w[y].next].prev = y
  <2>1. CASE y = d
    BY <2>1, <1>2, <1>7
  <2>2. CASE y # d
    <3>1. y \in L
      BY <2>2, <1>2
    <3>2. w[y].prev \in DOMAIN v /\ w[w[y].prev].next = y
      <4>1. CASE y = Dummy
        BY <4>1, <1>2, <1>7
      <4>2. CASE y # Dummy
        <5>1. v[y].prev # end /\ v[y].prev # d /\ v[y].prev \in DOMAIN v
          BY <4>2, <3>1, <1>2, <1>4
        <5> QED
          BY <5>1, <4>2, <3>1, <2>2, <1>4, <1>7
      <4> QED
        BY <4>1, <4>2
    <3>3. w[y].next \in DOMAIN v /\ w[w[y].next].prev = y
      <4>1. CASE y = end
        BY <4>1, <1>2, <1>7
      <4>2. CASE y # end
        <5>1. v[y].next # Dummy /\ v[y].next # d /\ v[y].next \in DOMAIN v
          BY <4>2, <3>1, <1>2, <1>4 DEF end
        <5> QED
          BY <5>1, <4>2, <3>1, <2>2, <1>4, <1>7
      <4> QED
        BY <4>1, <4>2
    <3> QED
      BY <3>2, <3>3
  <2> QED
    BY <2>1, <2>2
<1>10. LinksOK(w, Dummy)
  BY <1>2, <1>6, <1>8, <1>9 DEF LinksOK
<1>11. Ranked(w, Dummy)
  <2>1. PICK pos : RanksOK(v, d, pos)
    BY DEF Ranked
  <2>2. pos \in [L -> Nat] /\ \A y \in L \ {Dummy} : pos[v[y].prev] < pos[y]
    BY <2>1 DEF RanksOK, L
  <2> DEFINE q == [y \in DOMAIN v |-> IF y = d THEN pos[end] + 1 ELSE pos[y]]
  <2>3. q \in [DOMAIN v -> Nat]
    BY <1>2, <2>2
  <2>4. ASSUME NEW y \in DOMAIN v \ {Dummy} PROVE q[w[y].prev] < q[y]
    <3>1. CASE y = d
      <4>1. w[y].prev = end /\ q[end] = pos[end] /\ q[y] = pos[end] + 1 /\ pos[end] \in Nat
        BY <3>1, <1>2, <1>7, <2>2
      <4> HIDE DEF q
      <4> QED
        BY <4>1
    <3>2. CASE y # d
      <4>1. y \in L /\ w[y].prev = v[y].prev /\ v[y].prev \in L
        BY <3>2, <1>2, <1>4, <1>7
      <4>2. q[y] = pos[y] /\ q[v[y].prev] = pos[v[y].prev]
        BY <4>1, <1>2
      <4> HIDE DEF q
      <4> QED
        BY <4>1, <4>2, <2>2
    <3> QED
      BY <3>1, <3>2
  <2>5. RanksOK(w, Dummy, q)
    <3> HIDE DEF q
    <3> QED
      BY <1>8, <2>3, <2>4 DEF RanksOK
  <2> QED
    BY <2>5 DEF Ranked
<1> QED
  BY <1>1, <1>6, <1>7, <1>10, <1>11

\* The allocator finds a free place.
LEMMA LowestIsIn ==
  ASSUME NEW S \in SUBSET Nat, S # {}
  PROVE  Lowest(S) \in S
BY LeastNat DEF Lowest

\* Builder: the new version and the references of its files.
LEMMA BuiltFiles ==
  ASSUME NEW v, NEW w, NEW m, NEW n, NEW x, NEW F, IsFiniteSet(DOMAIN v), Dummy \in DOMAIN v,
         FilesOK(v, m), x \notin DOMAIN v, DOMAIN w = DOMAIN v \cup {x},
         \A y \in DOMAIN v : w[y] = v[y], w[x].files = F,
         F \subseteq DOMAIN n, DOMAIN m \subseteq DOMAIN n, DOMAIN n \ DOMAIN m \subseteq F,
         \A f \in DOMAIN n : DOMAIN n[f] = {"refs", "number"},
         \A f \in DOMAIN m : n[f].refs = m[f].refs + (IF f \in F THEN 1 ELSE 0),
         \A f \in DOMAIN n \ DOMAIN m : n[f].refs = 1
  PROVE  FilesOK(w, n)
<1>1. \A f : IsFiniteSet(Users(v, f)) /\ Cardinality(Users(v, f)) \in Nat /\ x \notin Users(v, f)
  BY FS_Subset, FS_CardinalityType DEF Users
<1>2. ASSUME NEW f \in DOMAIN m PROVE n[f].refs = Cardinality(Users(w, f)) /\ n[f].refs # 0
  <2>1. m[f].refs = Cardinality(Users(v, f)) /\ m[f].refs # 0
    BY DEF FilesOK
  <2>2. CASE f \in F
    <3>1. Users(w, f) = Users(v, f) \cup {x}
      BY <2>2 DEF Users
    <3>2. Cardinality(Users(w, f)) = Cardinality(Users(v, f)) + 1
      BY <3>1, <1>1, FS_AddElement
    <3> QED
      BY <3>2, <2>1, <2>2, <1>1
  <2>3. CASE f \notin F
    <3>1. Users(w, f) = Users(v, f)
      BY <2>3 DEF Users
    <3> QED
      BY <3>1, <2>1, <2>3, <1>1
  <2> QED
    BY <2>2, <2>3
<1>3. ASSUME NEW f \in DOMAIN n \ DOMAIN m PROVE n[f].refs = Cardinality(Users(w, f)) /\ n[f].refs # 0
  <2>1. Users(w, f) = {x}
    BY DEF Users, FilesOK
  <2>2. Cardinality({x}) = 1
    BY FS_Singleton
  <2> QED
    BY <2>1, <2>2
<1>4. \A y \in DOMAIN w : w[y].files \subseteq DOMAIN n
  BY DEF FilesOK
<1>5. w[Dummy].files = {}
  BY DEF FilesOK
<1> QED
  BY <1>2, <1>3, <1>4, <1>5 DEF FilesOK

\* LogAndApply up to the unlock: the new version stands beside the list.
LEMMA BuildKeeps ==
  ASSUME RefInv, NEW deleted, NEW numbers, BuildVersion(deleted, numbers), current # 0, pending = 0,
         Free(MaxVersions, version) # {}, numbers # {} => Free(MaxFiles, meta) # {},
         UNCHANGED <<current, pins, inputs>>
  PROVE  RefInv'
<1> DEFINE x == Lowest(Free(MaxVersions, version))
           o == Lowest(Free(MaxFiles, meta))
           kept == {f \in version[current].files : meta[f].number \notin deleted}
           m == [f \in DOMAIN meta |-> IF f \in kept THEN [meta[f] EXCEPT !.refs = @ + 1] ELSE meta[f]]
           news == IF numbers = {} THEN {} ELSE {o}
           P == Put(m, o, [refs |-> 2, number |-> Lowest(numbers)])
           made == IF numbers = {} THEN m ELSE DropFiles(P, {o})
           fresh == [refs |-> 0, files |-> kept \cup news, prev |-> x, next |-> x]
<1>1. version' = Put(version, x, fresh) /\ meta' = made /\ pending' = x
  BY DEF BuildVersion
<1>2. x \in Nat /\ x # 0 /\ x \notin DOMAIN version
  <2>1. Free(MaxVersions, version) \in SUBSET Nat
    BY RefAssumption DEF Free
  <2>2. x \in Free(MaxVersions, version)
    BY <2>1, LowestIsIn
  <2> QED
    BY <2>2, RefAssumption DEF Free
<1>3. numbers # {} => o \notin DOMAIN meta
  <2>1. Free(MaxFiles, meta) \in SUBSET Nat
    BY RefAssumption DEF Free
  <2> QED
    BY <2>1, LowestIsIn DEF Free
<1> HIDE DEF x, o
<1>4. /\ DOMAIN version' = DOMAIN version \cup {x}
      /\ \A y \in DOMAIN version : version'[y] = version[y]
      /\ version'[x] = fresh
  BY <1>1, <1>2 DEF Put
<1>5. /\ LinksOK(version, 0) /\ Ranked(version, 0) /\ FilesOK(version, meta)
      /\ HoldsOK(version, 0, pins, inputs, current)
  BY DEF RefInv
<1>6. /\ IsFiniteSet(DOMAIN version) /\ 0 \in DOMAIN version /\ current \in DOMAIN version
      /\ InList(version, 0) = DOMAIN version /\ InList(version', x) = DOMAIN version
  <2>1. IsFiniteSet(DOMAIN version) /\ 0 \in DOMAIN version
    BY <1>5 DEF LinksOK, Dummy
  <2>2. InList(version, 0) = DOMAIN version
    BY DEF InList, Dummy
  <2>3. InList(version', x) = DOMAIN version
    BY <1>2, <1>4 DEF InList, Dummy
  <2>4. current \in DOMAIN version
    BY <1>5, <2>2 DEF HoldsOK
  <2> QED
    BY <2>1, <2>2, <2>3, <2>4
<1>7. /\ DOMAIN fresh = Fields /\ fresh.refs = 0 /\ fresh.prev = x /\ fresh.next = x
      /\ fresh.files = kept \cup news
  BY DEF Fields
<1>8. LinksOK(version', x)
  <2>1. IsFiniteSet(DOMAIN version')
    BY <1>4, <1>6, FS_AddElement
  <2> HIDE DEF fresh
  <2> QED
    BY <2>1, <1>2, <1>4, <1>5, <1>6, <1>7 DEF LinksOK
<1>9. Ranked(version', x)
  <2>1. PICK pos : RanksOK(version, 0, pos)
    BY <1>5 DEF Ranked
  <2>2. RanksOK(version', x, pos)
    BY <2>1, <1>4, <1>6 DEF RanksOK
  <2> QED
    BY <2>2 DEF Ranked
<1>10. kept \subseteq DOMAIN meta
  BY <1>5, <1>6 DEF FilesOK
<1>11. \A f \in DOMAIN meta : DOMAIN meta[f] = {"refs", "number"} /\ meta[f].refs \in Nat /\ meta[f].refs # 0
  <2>1. \A f : IsFiniteSet(Users(version, f))
    BY <1>6, FS_Subset DEF Users
  <2> QED
    BY <2>1, <1>5, FS_CardinalityType DEF FilesOK
<1> HIDE DEF kept
<1>12. /\ DOMAIN m = DOMAIN meta
       /\ \A f \in DOMAIN meta : /\ DOMAIN m[f] = {"refs", "number"}
                                 /\ m[f].refs = meta[f].refs + (IF f \in kept THEN 1 ELSE 0)
                                 /\ m[f].refs # 0
  <2>1. DOMAIN m = DOMAIN meta
    OBVIOUS
  <2>2. ASSUME NEW f \in DOMAIN meta
        PROVE  /\ DOMAIN m[f] = {"refs", "number"}
               /\ m[f].refs = meta[f].refs + (IF f \in kept THEN 1 ELSE 0)
               /\ m[f].refs # 0
    BY <1>11
  <2> HIDE DEF m
  <2> QED
    BY <2>1, <2>2
<1> HIDE DEF m
<1>13. /\ DOMAIN made = DOMAIN meta \cup news
       /\ \A f \in DOMAIN made : DOMAIN made[f] = {"refs", "number"}
       /\ \A f \in DOMAIN meta : made[f].refs = meta[f].refs + (IF f \in kept THEN 1 ELSE 0)
       /\ \A f \in news : made[f].refs = 1
  <2>1. CASE numbers = {}
    BY <2>1, <1>12
  <2>2. CASE numbers # {}
    <3> DEFINE e == [i \in DOMAIN P |-> IF i \in {o} THEN [P[i] EXCEPT !.refs = @ - 1] ELSE P[i]]
    <3>1. /\ DOMAIN P = DOMAIN meta \cup {o}
          /\ \A f \in DOMAIN meta : P[f] = m[f]
          /\ DOMAIN P[o] = {"refs", "number"} /\ P[o].refs = 2
      BY <2>2, <1>3, <1>12 DEF Put
    <3> HIDE DEF P
    <3>2. /\ DOMAIN e = DOMAIN meta \cup {o}
          /\ \A f \in DOMAIN meta : e[f] = m[f]
          /\ DOMAIN e[o] = {"refs", "number"} /\ e[o].refs = 1
      BY <2>2, <3>1, <1>3
    <3>3. made = Cut(e, {i \in DOMAIN e : e[i].refs = 0})
      BY <2>2 DEF DropFiles
    <3> HIDE DEF e, made
    <3>4. {i \in DOMAIN e : e[i].refs = 0} = {}
      BY <3>2, <1>12
    <3>5. DOMAIN made = DOMAIN e /\ \A f \in DOMAIN e : made[f] = e[f]
      BY <3>3, <3>4 DEF Cut
    <3> QED
      BY <2>2, <3>2, <3>5, <1>12
  <2> QED
    BY <2>1, <2>2
<1>14. news \cap DOMAIN meta = {}
  BY <1>3
<1> HIDE DEF made, news, fresh
<1>15. FilesOK(version', meta')
  <2> DEFINE F == kept \cup news
             n == made
             w == version'
  <2>1. /\ DOMAIN w = DOMAIN version \cup {x} /\ \A y \in DOMAIN version : w[y] = version[y]
        /\ w[x].files = F
    BY <1>4, <1>7
  <2>2. F \subseteq DOMAIN n /\ DOMAIN meta \subseteq DOMAIN n /\ DOMAIN n \ DOMAIN meta \subseteq F
    BY <1>10, <1>13
  <2>3. \A f \in DOMAIN meta : n[f].refs = meta[f].refs + (IF f \in F THEN 1 ELSE 0)
    <3>1. \A f \in DOMAIN meta : f \in F <=> f \in kept
      BY <1>14
    <3> QED
      BY <3>1, <1>13
  <2>4. \A f \in DOMAIN n \ DOMAIN meta : n[f].refs = 1
    BY <1>13
  <2>5. \A f \in DOMAIN n : DOMAIN n[f] = {"refs", "number"}
    BY <1>13
  <2> HIDE DEF F, n, w
  <2>6. FilesOK(w, n)
    BY <1>2, <1>5, <1>6, <2>1, <2>2, <2>3, <2>4, <2>5, BuiltFiles DEF Dummy
  <2> QED
    BY <2>6, <1>1 DEF n, w
<1>16. HoldsOK(version', x, pins', inputs', current')
  <2>1. pins \in [RefReaders -> DOMAIN version] /\ inputs \in DOMAIN version /\ current \in DOMAIN version
    BY <1>5, <1>6 DEF HoldsOK
  <2>2. Holders(pins, inputs, current, x) = 0
    BY <2>1, <1>2, HoldersCount
  <2>3. \A y \in DOMAIN version' \ {Dummy} : version'[y].refs = Holders(pins, inputs, current, y)
    BY <2>2, <1>4, <1>5, <1>7 DEF HoldsOK
  <2>4. \A y \in DOMAIN version \ {Dummy} : Holders(pins, inputs, current, y) # 0
    BY <1>5, <1>6 DEF HoldsOK
  <2> QED
    BY <2>1, <2>3, <2>4, <1>6 DEF HoldsOK
<1>17. ClosedOK(pending', pins', inputs', current')
  BY DEF ClosedOK
<1> QED
  BY <1>1, <1>8, <1>9, <1>15, <1>16, <1>17 DEF RefInv

\* Version::Ref, for a new holder of x.
LEMMA RefKeeps ==
  ASSUME NEW v, NEW m, NEW d, NEW p, NEW i, NEW c, NEW q, NEW j, NEW k,
         LinksOK(v, d), Ranked(v, d), FilesOK(v, m), HoldsOK(v, d, p, i, c),
         NEW x \in InList(v, d) \ {Dummy},
         Holders(q, j, k, x) = Holders(p, i, c, x) + 1,
         \A y \in DOMAIN v \ {Dummy, x} : Holders(q, j, k, y) = Holders(p, i, c, y),
         q \in [RefReaders -> InList(v, d)], j \in InList(v, d), k \in InList(v, d)
  PROVE  LET w == Ref(v, x)
         IN LinksOK(w, d) /\ Ranked(w, d) /\ FilesOK(w, m) /\ HoldsOK(w, d, q, j, k)
<1> DEFINE w == Ref(v, x)
<1>1. x \in DOMAIN v /\ \A y \in DOMAIN v : DOMAIN v[y] = Fields
  BY DEF LinksOK, InList
<1>2. /\ DOMAIN w = DOMAIN v
      /\ \A y \in DOMAIN v : /\ DOMAIN w[y] = Fields /\ w[y].prev = v[y].prev
                             /\ w[y].next = v[y].next /\ w[y].files = v[y].files
                             /\ w[y].refs = IF y = x THEN v[x].refs + 1 ELSE v[y].refs
  BY <1>1 DEF Ref, Fields
<1> HIDE DEF w
<1>3. LinksOK(w, d) /\ Ranked(w, d) /\ FilesOK(w, m)
  <2>1. SameShape(v, w)
    BY <1>2 DEF SameShape
  <2> QED
    BY <2>1, ShapeKeeps
<1>4. InList(w, d) = InList(v, d)
  BY <1>2 DEF InList
<1>5. \A y \in DOMAIN w \ {Dummy} : w[y].refs = Holders(q, j, k, y)
  BY <1>1, <1>2 DEF HoldsOK
<1>6. ASSUME NEW y \in InList(w, d) \ {Dummy} PROVE Holders(q, j, k, y) # 0
  <2>1. CASE y = x
    BY <2>1, HoldersCount
  <2>2. CASE y # x
    BY <2>2, <1>4 DEF HoldsOK, InList
  <2> QED
    BY <2>1, <2>2
<1>7. HoldsOK(w, d, q, j, k)
  BY <1>4, <1>5, <1>6 DEF HoldsOK
<1> QED
  BY <1>3, <1>7 DEF w

\* Holders when the compaction, or VersionSet, takes or drops a version.
LEMMA InputCounts ==
  ASSUME NEW p, NEW c, NEW x, x # 0
  PROVE  /\ Holders(p, x, c, x) = Holders(p, 0, c, x) + 1
         /\ \A y : y # 0 /\ y # x => Holders(p, x, c, y) = Holders(p, 0, c, y)
<1> DEFINE N(y) == Cardinality({r \in RefReaders : p[r] = y})
<1>1. \A y : N(y) \in Nat
  BY RefAssumption, FS_Subset, FS_CardinalityType
<1>2. \A j, y : Holders(p, j, c, y) = N(y) + (IF j = y THEN 1 ELSE 0) + (IF c = y THEN 1 ELSE 0)
  BY DEF Holders
<1> HIDE DEF N
<1> QED
  BY <1>1, <1>2

\* What holding the current version adds.
LEMMA CurrentCounts ==
  ASSUME NEW p, NEW i, NEW x, x # 0
  PROVE  /\ Holders(p, i, x, x) = Holders(p, i, 0, x) + 1
         /\ \A y : y # 0 /\ y # x => Holders(p, i, x, y) = Holders(p, i, 0, y)
<1> DEFINE N(y) == Cardinality({r \in RefReaders : p[r] = y})
<1>1. \A y : N(y) \in Nat
  BY RefAssumption, FS_Subset, FS_CardinalityType
<1>2. \A k, y : Holders(p, i, k, y) = N(y) + (IF i = y THEN 1 ELSE 0) + (IF k = y THEN 1 ELSE 0)
  BY DEF Holders
<1> HIDE DEF N
<1> QED
  BY <1>1, <1>2

\* What RefInv says, as facts.
LEMMA RefFacts ==
  ASSUME RefInv
  PROVE  /\ LinksOK(version, pending) /\ Ranked(version, pending) /\ FilesOK(version, meta)
         /\ HoldsOK(version, pending, pins, inputs, current)
         /\ ClosedOK(pending, pins, inputs, current)
         /\ pins \in [RefReaders -> InList(version, pending)]
         /\ inputs \in InList(version, pending) /\ current \in InList(version, pending)
         /\ 0 \in InList(version, pending)
<1>1. 0 \in InList(version, pending)
  BY DEF RefInv, LinksOK, InList, Dummy
<1> QED
  BY <1>1 DEF RefInv, HoldsOK

\* Get and NewIterator take the current version.
LEMMA PinKeeps ==
  ASSUME RefInv, NEW r \in RefReaders, PinVersion(r)
  PROVE  RefInv'
<1>1. /\ current # 0 /\ pins[r] = 0 /\ pins' = [pins EXCEPT ![r] = current]
      /\ version' = Ref(version, current) /\ meta' = meta /\ current' = current
      /\ pending' = pending /\ inputs' = inputs
  BY DEF PinVersion
<1>2. /\ Holders(pins', inputs, current, current) = Holders(pins, inputs, current, current) + 1
      /\ \A y \in DOMAIN version \ {Dummy, current} :
             Holders(pins', inputs, current, y) = Holders(pins, inputs, current, y)
  <2>1. pins[r] # current /\ \A s \in RefReaders : pins'[s] = IF s = r THEN current ELSE pins[s]
    BY <1>1, RefFacts
  <2>2. /\ Holders(pins', inputs, current, current) = Holders(pins, inputs, current, current) + 1
        /\ \A y : y # current /\ y # pins[r] =>
               Holders(pins', inputs, current, y) = Holders(pins, inputs, current, y)
    BY <2>1, PinCounts
  <2> QED
    BY <1>1, <2>2 DEF Dummy
<1>3. pins' \in [RefReaders -> InList(version, pending)] /\ current \in InList(version, pending) \ {Dummy}
  BY <1>1, RefFacts DEF Dummy
<1>4. /\ LinksOK(version', pending) /\ Ranked(version', pending) /\ FilesOK(version', meta)
      /\ HoldsOK(version', pending, pins', inputs, current)
  <2>1. /\ LinksOK(version, pending) /\ Ranked(version, pending) /\ FilesOK(version, meta)
        /\ HoldsOK(version, pending, pins, inputs, current) /\ inputs \in InList(version, pending)
    BY RefFacts
  <2>2. version' = Ref(version, current)
    BY <1>1
  <2> QED
    BY <1>2, <1>3, <2>1, <2>2, RefKeeps
<1>5. ClosedOK(pending', pins', inputs', current')
  BY <1>1 DEF ClosedOK
<1> QED
  BY <1>1, <1>4, <1>5 DEF RefInv

\* PickCompaction takes it for its inputs.
LEMMA PickInputsKeeps ==
  ASSUME RefInv, PickInputs
  PROVE  RefInv'
<1>1. /\ current # 0 /\ inputs = 0 /\ inputs' = current
      /\ version' = Ref(version, current) /\ meta' = meta /\ current' = current
      /\ pending' = pending /\ pins' = pins
  BY DEF PickInputs
<1>2. /\ Holders(pins, inputs', current, current) = Holders(pins, inputs, current, current) + 1
      /\ \A y \in DOMAIN version \ {Dummy, current} :
             Holders(pins, inputs', current, y) = Holders(pins, inputs, current, y)
  BY <1>1, InputCounts DEF Dummy
<1>3. current \in InList(version, pending) \ {Dummy}
  BY <1>1, RefFacts DEF Dummy
<1>4. /\ LinksOK(version', pending) /\ Ranked(version', pending) /\ FilesOK(version', meta)
      /\ HoldsOK(version', pending, pins, inputs', current)
  BY <1>1, <1>2, <1>3, RefFacts, RefKeeps
<1>5. ClosedOK(pending', pins', inputs', current')
  BY <1>1 DEF ClosedOK
<1> QED
  BY <1>1, <1>4, <1>5 DEF RefInv

\* A reader lets go: the last one deletes the version and its files.
LEMMA UnpinKeeps ==
  ASSUME RefInv, NEW r \in RefReaders, UnpinVersion(r)
  PROVE  RefInv'
<1> DEFINE x == pins[r]
           g == UnrefVersion([v |-> version, m |-> meta], x)
<1>1. /\ x # 0 /\ pins' = [pins EXCEPT ![r] = 0]
      /\ version' = g.v /\ meta' = g.m /\ current' = current
      /\ pending' = pending /\ inputs' = inputs
  BY DEF UnpinVersion, Holds, Heap
<1> HIDE DEF g
<1>2. Released(version, x, pins, inputs, current, pins', inputs, current)
  <2>1. pins[r] # 0 /\ \A s \in RefReaders : pins'[s] = IF s = r THEN 0 ELSE pins[s]
    BY <1>1, RefFacts
  <2>2. /\ Holders(pins', inputs, current, x) = Holders(pins, inputs, current, x) - 1
        /\ \A y : y # 0 /\ y # x =>
               Holders(pins', inputs, current, y) = Holders(pins, inputs, current, y)
    BY <2>1, PinCounts
  <2> QED
    BY <2>2 DEF Released, Dummy
<1>3. pins' \in [RefReaders -> InList(version, pending)] /\ x \in InList(version, pending) \ {Dummy}
  BY <1>1, RefFacts DEF Dummy
<1> HIDE DEF x
<1>4. /\ LinksOK(version', pending) /\ Ranked(version', pending) /\ FilesOK(version', meta')
      /\ HoldsOK(version', pending, pins', inputs, current)
  BY <1>1, <1>2, <1>3, RefFacts, UnrefKeeps DEF g
<1>5. ClosedOK(pending', pins', inputs', current')
  <2>1. current = 0 => pending = 0 /\ inputs = 0 /\ \A s \in RefReaders : pins[s] = 0
    BY RefFacts DEF ClosedOK
  <2> QED
    BY <1>1, <2>1 DEF ClosedOK, x
<1> QED
  BY <1>1, <1>4, <1>5 DEF RefInv

\* Compaction::ReleaseInputs.
LEMMA ReleaseInputsKeeps ==
  ASSUME RefInv, ReleaseInputs
  PROVE  RefInv'
<1> DEFINE g == UnrefVersion([v |-> version, m |-> meta], inputs)
<1>1. /\ inputs # 0 /\ inputs' = 0
      /\ version' = g.v /\ meta' = g.m /\ current' = current
      /\ pending' = pending /\ pins' = pins
  BY DEF ReleaseInputs, Holds, Heap
<1> HIDE DEF g
<1>2. Released(version, inputs, pins, inputs, current, pins, 0, current)
  <2>1. /\ Holders(pins, inputs, current, inputs) = Holders(pins, 0, current, inputs) + 1
        /\ \A y : y # 0 /\ y # inputs => Holders(pins, inputs, current, y) = Holders(pins, 0, current, y)
    BY <1>1, InputCounts
  <2>2. Holders(pins, 0, current, inputs) \in Nat
    BY HoldersCount
  <2> QED
    BY <2>1, <2>2 DEF Released, Dummy
<1>3. inputs \in InList(version, pending) \ {Dummy}
  BY <1>1, RefFacts DEF Dummy
<1>4. /\ LinksOK(version', pending) /\ Ranked(version', pending) /\ FilesOK(version', meta')
      /\ HoldsOK(version', pending, pins, 0, current)
  BY <1>1, <1>2, <1>3, RefFacts, UnrefKeeps DEF g
<1>5. ClosedOK(pending', pins', inputs', current')
  BY <1>1, RefFacts DEF ClosedOK
<1> QED
  BY <1>1, <1>4, <1>5 DEF RefInv

\* What holds once current_ has been released.
LEMMA CurrentReleased ==
  ASSUME RefInv, current # 0
  PROVE  LET g == UnrefVersion([v |-> version, m |-> meta], current)
         IN /\ LinksOK(g.v, pending) /\ Ranked(g.v, pending) /\ FilesOK(g.v, g.m)
            /\ HoldsOK(g.v, pending, pins, inputs, 0) /\ DOMAIN g = {"v", "m"}
<1>1. Released(version, current, pins, inputs, current, pins, inputs, 0)
  <2>1. /\ Holders(pins, inputs, current, current) = Holders(pins, inputs, 0, current) + 1
        /\ \A y : y # 0 /\ y # current => Holders(pins, inputs, current, y) = Holders(pins, inputs, 0, y)
    <3>1. PICK p, i, x : p = pins /\ i = inputs /\ x = current
      OBVIOUS
    <3>2. /\ Holders(p, i, x, x) = Holders(p, i, 0, x) + 1
          /\ \A y : y # 0 /\ y # x => Holders(p, i, x, y) = Holders(p, i, 0, y)
      BY <3>1, CurrentCounts
    <3> QED
      BY <3>1, <3>2
  <2>2. Holders(pins, inputs, 0, current) \in Nat
    BY HoldersCount
  <2> QED
    BY <2>1, <2>2 DEF Released, Dummy
<1>2. current \in InList(version, pending) \ {Dummy}
  BY RefFacts DEF Dummy
<1> QED
  BY <1>1, <1>2, RefFacts, UnrefKeeps

\* ~VersionSet.
LEMMA CloseKeeps ==
  ASSUME RefInv, CloseVersions
  PROVE  RefInv'
<1> DEFINE g == UnrefVersion([v |-> version, m |-> meta], current)
<1>1. /\ current # 0 /\ pending = 0 /\ inputs = 0 /\ \A r \in RefReaders : pins[r] = 0
      /\ version' = g.v /\ meta' = g.m /\ current' = 0
      /\ pending' = pending /\ pins' = pins /\ inputs' = inputs
  BY DEF CloseVersions, Holds, Heap
<1>2. /\ LinksOK(g.v, pending) /\ Ranked(g.v, pending) /\ FilesOK(g.v, g.m)
      /\ HoldsOK(g.v, pending, pins, inputs, 0)
  BY <1>1, CurrentReleased
<1> HIDE DEF g
<1>3. ClosedOK(pending', pins', inputs', current')
  BY <1>1 DEF ClosedOK
<1> QED
  BY <1>1, <1>2, <1>3 DEF RefInv

\* The manifest was not written: the new version is deleted.
LEMMA FailKeeps ==
  ASSUME RefInv, LogAndApplyFails
  PROVE  RefInv'
<1> DEFINE u == Unlinked(version, pending)
           n == DropFiles(meta, version[pending].files)
<1>1. /\ pending # 0 /\ pending' = 0 /\ version' = u /\ meta' = n
      /\ current' = current /\ pins' = pins /\ inputs' = inputs
  BY DEF LogAndApplyFails, Holds
<1>2. Without(version, u, pending) /\ LinksOK(u, 0) /\ Ranked(u, 0)
  BY <1>1, RefFacts, UnlinkedAlone DEF Dummy
<1> HIDE DEF u
<1>3. FilesOK(u, n)
  <2>1. pending \in DOMAIN version /\ Dummy \in DOMAIN version /\ IsFiniteSet(DOMAIN version)
    BY RefFacts DEF LinksOK
  <2> QED
    BY <2>1, <1>1, <1>2, RefFacts, FilesDropped DEF Dummy
<1> HIDE DEF n
<1>4. DOMAIN u = DOMAIN version \ {pending} /\ InList(u, 0) = DOMAIN u /\ InList(version, pending) = DOMAIN u
  BY <1>1, <1>2 DEF Without, InList, Dummy
<1>5. HoldsOK(u, 0, pins, inputs, current)
  BY <1>2, <1>4, RefFacts DEF HoldsOK, Without
<1>6. ClosedOK(pending', pins', inputs', current')
  BY <1>1, RefFacts DEF ClosedOK
<1> QED
  BY <1>1, <1>2, <1>3, <1>5, <1>6 DEF RefInv

\* AppendVersion: the old current version loses a reference, the new one is
\* linked.
LEMMA InstallKeeps ==
  ASSUME RefInv, LogAndApplyInstalls
  PROVE  RefInv'
<1> DEFINE g == UnrefVersion([v |-> version, m |-> meta], current)
           x == pending
           w == LinkedAtEnd(g.v, x)
<1>1. x # 0 /\ current # 0
  BY RefFacts DEF LogAndApplyInstalls, ClosedOK
<1>2. /\ LinksOK(g.v, x) /\ Ranked(g.v, x) /\ FilesOK(g.v, g.m)
      /\ HoldsOK(g.v, x, pins, inputs, 0) /\ DOMAIN g = {"v", "m"}
  BY <1>1, CurrentReleased
<1>3. /\ version' = w /\ meta' = g.m /\ current' = x /\ pending' = 0
      /\ pins' = pins /\ inputs' = inputs
  <2>1. AppendVersion(Heap, x) = [g EXCEPT !.v = w]
    BY <1>1 DEF AppendVersion, Heap, LinkedAtEnd
  <2> HIDE DEF g, w
  <2>2. [g EXCEPT !.v = w].v = w /\ [g EXCEPT !.v = w].m = g.m
    BY <1>2
  <2> QED
    BY <2>1, <2>2 DEF LogAndApplyInstalls, Holds
<1> HIDE DEF g
<1>4. /\ LinksOK(w, 0) /\ Ranked(w, 0) /\ DOMAIN w = DOMAIN g.v
      /\ \A y \in DOMAIN g.v : /\ w[y].files = g.v[y].files
                               /\ w[y].refs = IF y = x THEN 1 ELSE g.v[y].refs
  BY <1>1, <1>2, LinkedKeeps DEF Dummy
<1> HIDE DEF w
<1>5. FilesOK(w, g.m)
  <2>1. \A f : Users(w, f) = Users(g.v, f)
    BY <1>4 DEF Users
  <2>2. Dummy \in DOMAIN g.v
    BY <1>2 DEF LinksOK
  <2> QED
    BY <2>1, <2>2, <1>2, <1>4 DEF FilesOK
<1>6. HoldsOK(w, 0, pins, inputs, x)
  <2>1. /\ InList(w, 0) = DOMAIN g.v /\ InList(g.v, x) = DOMAIN g.v \ {x} /\ x \in DOMAIN g.v
    BY <1>1, <1>2, <1>4 DEF InList, LinksOK, Dummy
  <2>2. /\ pins \in [RefReaders -> DOMAIN g.v \ {x}] /\ inputs \in DOMAIN g.v \ {x}
        /\ \A y \in DOMAIN g.v \ {Dummy} : g.v[y].refs = Holders(pins, inputs, 0, y)
        /\ \A y \in DOMAIN g.v \ {Dummy, x} : Holders(pins, inputs, 0, y) # 0
    BY <1>2, <2>1 DEF HoldsOK
  <2>3. Holders(pins, inputs, 0, x) = 0
    BY <2>2, <1>1, HoldersCount
  <2>4. /\ Holders(pins, inputs, x, x) = Holders(pins, inputs, 0, x) + 1
        /\ \A y : y # 0 /\ y # x => Holders(pins, inputs, x, y) = Holders(pins, inputs, 0, y)
    BY <1>1, CurrentCounts
  <2>5. pins \in [RefReaders -> InList(w, 0)] /\ inputs \in InList(w, 0) /\ x \in InList(w, 0)
    BY <2>1, <2>2
  <2>6. \A y \in DOMAIN w \ {Dummy} : w[y].refs = Holders(pins, inputs, x, y)
    BY <2>2, <2>3, <2>4, <1>4 DEF Dummy
  <2>7. \A y \in InList(w, 0) \ {Dummy} : Holders(pins, inputs, x, y) # 0
    BY <2>1, <2>2, <2>3, <2>4 DEF Dummy
  <2> QED
    BY <2>5, <2>6, <2>7 DEF HoldsOK
<1>7. ClosedOK(pending', pins', inputs', current')
  BY <1>1, <1>3 DEF ClosedOK
<1> QED
  BY <1>3, <1>4, <1>5, <1>6, <1>7 DEF RefInv

\* The edits of LogAndApply: files deleted, added or moved.
LEMMA BuildsKeeps ==
  ASSUME RefInv, LogAndApplyBuilds
  PROVE  RefInv'
<1>1. /\ current # 0 /\ pending = 0 /\ Free(MaxVersions, version) # {}
      /\ UNCHANGED <<current, pins, inputs>>
  BY DEF LogAndApplyBuilds
<1>2. PICK deleted : \/ BuildVersion(deleted, {})
                     \/ Free(MaxFiles, meta) # {} /\ BuildVersion(deleted, {nextNumber})
                     \/ Free(MaxFiles, meta) # {} /\ \E n \in deleted : BuildVersion(deleted, {n})
  BY DEF LogAndApplyBuilds
<1>3. PICK numbers : /\ BuildVersion(deleted, numbers)
                     /\ numbers # {} => Free(MaxFiles, meta) # {}
  BY <1>2
<1> QED
  BY <1>1, <1>3, BuildKeeps

\* The walk of AddLiveFiles finds every version in the list.
LEMMA ListIsWalked ==
  ASSUME NEW v, NEW d, NEW x \in InList(v, d) \ {Dummy}, LinksOK(v, d), Ranked(v, d)
  PROVE  x \in ListedFrom(v, Dummy)
<1> DEFINE L == InList(v, d)
<1>1. PICK pos : RanksOK(v, d, pos)
  BY DEF Ranked
<1>2. pos \in [L -> Nat] /\ \A y \in L \ {Dummy} : pos[v[y].prev] < pos[y]
  BY <1>1 DEF RanksOK
<1>3. L \subseteq DOMAIN v /\ \A y \in L : v[y].prev \in L /\ v[v[y].prev].next = y
  BY DEF LinksOK, InList
<1> HIDE DEF L
<1>4. ASSUME NEW S \in SUBSET DOMAIN v, Dummy \in S, \A z \in S : v[z].next \in S
      PROVE  L \subseteq S
  <2> SUFFICES ASSUME L \ S # {} PROVE FALSE
    OBVIOUS
  <2> DEFINE T == {pos[y] : y \in L \ S}
  <2>1. T \in SUBSET Nat /\ T # {}
    BY <1>2
  <2>2. PICK t \in T : \A u \in T : t <= u
    <3> HIDE DEF T
    <3> QED
      BY <2>1, LeastNat
  <2>3. PICK y \in L \ S : pos[y] = t
    OBVIOUS
  <2>4. pos[v[y].prev] < pos[y] /\ v[y].prev \in L /\ v[v[y].prev].next = y
    BY <1>2, <1>3, <1>4
  <2>5. v[y].prev \notin S
    BY <2>4, <1>4
  <2>6. pos[v[y].prev] \in T
    BY <2>4, <2>5
  <2>7. pos[y] \in Nat /\ pos[v[y].prev] \in Nat /\ pos[y] <= pos[v[y].prev]
    BY <2>2, <2>3, <2>4, <2>6, <1>2
  <2> QED
    BY <2>4, <2>7
<1> QED
  BY <1>3, <1>4 DEF ListedFrom, L

\* What the invariant is for.
LEMMA RefInvImplies == RefInv => ReferencesAreRight
<1> SUFFICES ASSUME RefInv PROVE ReferencesAreRight
  OBVIOUS
<1>1. HeldVersionsAreLive
  <2> SUFFICES ASSUME NEW x \in Held
               PROVE  /\ x \in DOMAIN version /\ version[x].files \subseteq DOMAIN meta
                      /\ {meta[f].number : f \in version[x].files} \subseteq AddLiveFiles
    BY DEF HeldVersionsAreLive
  <2>1. x \in InList(version, pending) \ {Dummy} /\ x \in DOMAIN version
    BY RefFacts DEF Held, Dummy, InList
  <2>2. x \in ListedFrom(version, Dummy)
    BY <2>1, RefFacts, ListIsWalked
  <2>3. version[x].files \subseteq DOMAIN meta
    BY <2>1, RefFacts DEF FilesOK
  <2>4. version[x].files \subseteq UNION {version[y].files : y \in ListedFrom(version, Dummy)}
    BY <2>2
  <2>5. {meta[f].number : f \in version[x].files} \subseteq AddLiveFiles
    BY <2>4 DEF AddLiveFiles
  <2> QED
    BY <2>1, <2>3, <2>5
<1>2. ASSUME NEW x \in DOMAIN version \ {Dummy}
      PROVE  /\ version[x].refs = Holders(pins, inputs, current, x)
             /\ Holders(pins, inputs, current, x) = 0 => pending = x
  BY RefFacts DEF HoldsOK, InList
<1>3. \A f \in DOMAIN meta : meta[f].refs = Cardinality({x \in DOMAIN version : f \in version[x].files})
  BY RefFacts DEF FilesOK, Users
<1>4. ASSUME current = 0 PROVE version[Dummy].next = Dummy /\ DOMAIN meta = {}
  <2>1. pending = 0 /\ inputs = 0 /\ \A r \in RefReaders : pins[r] = 0
    BY <1>4, RefFacts DEF ClosedOK
  <2>2. InList(version, pending) = DOMAIN version /\ Dummy \in DOMAIN version
    BY <2>1, RefFacts DEF InList, Dummy
  <2>3. \A x \in DOMAIN version \ {Dummy} : Holders(pins, inputs, current, x) = 0
    BY <2>1, <1>4, HoldersCount DEF Dummy
  <2>4. DOMAIN version = {Dummy}
    BY <2>2, <2>3, RefFacts DEF HoldsOK
  <2>5. version[Dummy].next = Dummy
    BY <2>2, <2>4, RefFacts DEF LinksOK
  <2>6. ASSUME NEW f \in DOMAIN meta PROVE FALSE
    <3>1. Users(version, f) = {}
      BY <2>4, RefFacts DEF Users, FilesOK
    <3>2. Cardinality(Users(version, f)) = 0
      BY <3>1, FS_EmptySet
    <3> QED
      BY <3>2, RefFacts DEF FilesOK
  <2> QED
    BY <2>5, <2>6
<1>5. ReferencesAreExact
  BY <1>2, <1>3, <1>4 DEF ReferencesAreExact, Holders
<1> QED
  BY <1>1, <1>5 DEF ReferencesAreRight

\* VersionSet: the list holds the first version.
LEMMA RefInitOK == RefInit => RefInv
<1> SUFFICES ASSUME RefInit PROVE RefInv
  OBVIOUS
<1>1. /\ DOMAIN version = {0, 1} /\ DOMAIN meta = {}
      /\ \A x \in {0, 1} : /\ DOMAIN version[x] = Fields /\ version[x].refs = x
                           /\ version[x].files = {} /\ version[x].prev = 1 - x
                           /\ version[x].next = 1 - x
  BY DEF RefInit, Fields
<1>2. /\ current = 1 /\ pending = 0 /\ inputs = 0 /\ pins = [r \in RefReaders |-> 0]
  BY DEF RefInit
<1>3. InList(version, 0) = {0, 1}
  BY <1>1 DEF InList, Dummy
<1>4. LinksOK(version, 0)
  <2>1. IsFiniteSet({0, 1})
    <3>1. {0, 1} = {0} \cup {1} /\ IsFiniteSet({0})
      BY FS_Singleton
    <3> QED
      BY <3>1, FS_AddElement
  <2> QED
    BY <2>1, <1>1, <1>3 DEF LinksOK, Dummy
<1>5. Ranked(version, 0)
  <2> DEFINE pos == [x \in {0, 1} |-> x]
  <2>1. RanksOK(version, 0, pos)
    BY <1>1, <1>3 DEF RanksOK, Dummy
  <2> QED
    BY <2>1 DEF Ranked
<1>6. FilesOK(version, meta)
  BY <1>1 DEF FilesOK, Dummy
<1>7. HoldsOK(version, 0, pins, 0, 1)
  <2>1. Holders(pins, 0, 1, 1) = 1
    <3>1. {r \in RefReaders : pins[r] = 1} = {}
      BY <1>2
    <3> QED
      BY <3>1, FS_EmptySet DEF Holders
  <2> QED
    BY <2>1, <1>1, <1>2, <1>3 DEF HoldsOK, Dummy
<1>8. ClosedOK(0, pins, 0, 1)
  BY DEF ClosedOK
<1> QED
  BY <1>2, <1>4, <1>5, <1>6, <1>7, <1>8 DEF RefInv

\* The invariant holds: one doubly linked list of the versions that somebody
\* holds, with exact references, and at most one version beside it.
THEOREM VersionRefInv == RefSpec => []RefInv
<1>1. RefInv /\ [RefNext]_refVars => RefInv'
  <2>1. RefInv /\ RefNext => RefInv'
    BY PinKeeps, UnpinKeeps, PickInputsKeeps, ReleaseInputsKeeps, BuildsKeeps, InstallKeeps,
       FailKeeps, CloseKeeps DEF RefNext
  <2>2. RefInv /\ UNCHANGED refVars => RefInv'
    BY DEF RefInv, refVars
  <2> QED
    BY <2>1, <2>2
<1> QED
  BY RefInitOK, <1>1, PTL DEF RefSpec

\* For any number of readers, versions and files: a version somebody works on
\* and its files are there and are found by the walk that decides which files
\* to delete, references are exact, and closing leaves nothing behind
\* (version_set.cc:1137, version_set.cc:789).
THEOREM VersionReferences == RefSpec => []ReferencesAreRight
<1> QED
  BY VersionRefInv, RefInvImplies, PTL

-----------------------------------------------------------------------------
(* The memtable: a writer and a reader without a lock. *)

MemEntries == [key : UserKeys, seq : Nat \ {0}, type : {"entry"}]
InserterFields == {"pc", "rest", "found", "seq", "node", "level", "height"}
WalkerFields == {"pc", "op", "target", "x", "level", "node", "start", "snapshot"}

Inserting == inserter.pc \in {"own", "publish"}
LastInserted == IF inserter.pc = "idle" THEN published ELSE inserter.seq - 1

\* Batches are counted right, and their records are numbered from published.
BatchOK(b) == b.records \in Seq([key : UserKeys]) /\ b.count = Len(b.records)
InserterOK ==
  /\ DOMAIN inserter = InserterFields
  /\ inserter.pc \in {"idle", "iterate", "own", "publish"}
  /\ published \in Nat /\ status = "OK" /\ BatchOK(batch)
  /\ inserter.pc # "idle" => /\ BatchOK(inserter.rest)
                             /\ inserter.found \in 0..Len(inserter.rest.records)
                             /\ inserter.seq = published + 1 + inserter.found

\* Links are set except those of the node being inserted, from its level on.
Unset(n, l) == /\ Inserting /\ n = inserter.node
               /\ l > inserter.level \/ (l = inserter.level /\ inserter.pc = "own")
NodesOK ==
  /\ HeadNode \in DOMAIN link /\ Nodes \subseteq MemEntries /\ IsFiniteSet(Nodes)
  /\ \A n, m \in Nodes : n.seq = m.seq => n = m
  /\ {n.seq : n \in Nodes} = 1..LastInserted
  /\ DOMAIN link[HeadNode] = ListLevels
  /\ \A n \in Nodes : /\ DOMAIN link[n] \subseteq ListLevels /\ 0 \in DOMAIN link[n]
                      /\ \A l \in DOMAIN link[n] : l > 0 => l - 1 \in DOMAIN link[n]
  /\ \A n \in Nodes : \A l \in DOMAIN link[n] : link[n][l] = Uninitialised <=> Unset(n, l)
  /\ Inserting => /\ inserter.node \in Nodes /\ inserter.node.seq = inserter.seq - 1
                  /\ inserter.found # 0
                  /\ inserter.height \in 1..MaxHeight /\ inserter.level \in 0..(inserter.height - 1)
                  /\ DOMAIN link[inserter.node] = 0..(inserter.height - 1)

\* s follows n among the nodes of A.
Precedes(n, m) == n = HeadNode \/ KeyBefore(n, m)
Follows(A, n, s) ==
  \/ s = NULL /\ \A m \in A : ~Precedes(n, m)
  \/ s \in A /\ Precedes(n, s) /\ \A m \in A : Precedes(n, m) => m = s \/ KeyBefore(s, m)

ListsOK ==
  /\ \A l \in ListLevels : \A n \in AtLevel(l) \cup {HeadNode} : Follows(AtLevel(l), n, link[n][l])
  /\ inserter.pc = "publish" =>
       Follows(AtLevel(inserter.level), inserter.node, link[inserter.node][inserter.level])

\* A reader is on nodes that are linked on its level, before its target.
WalkOK ==
  /\ DOMAIN walker = WalkerFields
  /\ walker.pc \in {"idle", "walk", "done"}
  /\ walker.node \in AtLevel(0) \cup {NULL} /\ walker.x # Uninitialised
  /\ walker.start \subseteq AtLevel(0)
  /\ walker.pc = "walk" =>
       /\ walker.op \in {"get", "seek", "prev", "last"}
       /\ walker.level \in ListLevels /\ walker.x \in AtLevel(walker.level) \cup {HeadNode}
       /\ walker.op # "last" => /\ walker.target.key \in Nat /\ walker.target.seq \in Nat
                                /\ walker.target.type = "entry"
                                /\ Precedes(walker.x, walker.target)
       /\ walker.op = "get" => /\ walker.snapshot = walker.target.seq
                               /\ walker.snapshot <= published
                               /\ \A n \in Nodes : n.seq <= walker.snapshot => n \in walker.start
  /\ GetSeesItsSnapshot /\ MovesSkipNothing

MemInv == InserterOK /\ NodesOK /\ ListsOK /\ WalkOK

-----------------------------------------------------------------------------
\* Nodes are ordered.
LEMMA NodeOrder ==
  ASSUME NEW N \in SUBSET MemEntries, \A n, m \in N : n.seq = m.seq => n = m
  PROVE  /\ \A n \in N : n.key \in Nat /\ n.seq \in Nat /\ n # NULL /\ n # HeadNode /\ n # Uninitialised
         /\ \A n \in N : ~KeyBefore(n, n)
         /\ \A n, m \in N : KeyBefore(n, m) => ~KeyBefore(m, n)
         /\ \A n, m \in N : n = m \/ KeyBefore(n, m) \/ KeyBefore(m, n)
         /\ \A n, m, k \in N : KeyBefore(n, m) /\ KeyBefore(m, k) => KeyBefore(n, k)
<1>1. \A n \in N : n.key \in Nat /\ n.seq \in Nat /\ n.type = "entry"
  BY MemTableAssumption DEF MemEntries
<1>2. NULL.type = "null" /\ HeadNode.type = "head" /\ Uninitialised.type = "garbage"
  BY DEF NULL, HeadNode, Uninitialised
<1>3. \A n \in N : n # NULL /\ n # HeadNode /\ n # Uninitialised
  BY <1>1, <1>2
<1>4. \A n \in N : ~KeyBefore(n, n)
  BY <1>1 DEF KeyBefore
<1>5. \A n, m \in N : KeyBefore(n, m) => ~KeyBefore(m, n)
  BY <1>1 DEF KeyBefore
<1>6. \A n, m \in N : n = m \/ KeyBefore(n, m) \/ KeyBefore(m, n)
  BY <1>1 DEF KeyBefore
<1>7. \A n, m, k \in N : KeyBefore(n, m) /\ KeyBefore(m, k) => KeyBefore(n, k)
  BY <1>1 DEF KeyBefore
<1> QED
  BY <1>1, <1>3, <1>4, <1>5, <1>6, <1>7

\* A finite set of nodes has a last one: the smallest set without would have
\* one when an element is taken out.
LEMMA LastNode ==
  ASSUME NEW N \in SUBSET MemEntries, \A n, m \in N : n.seq = m.seq => n = m,
         NEW S \in SUBSET N, S # {}, IsFiniteSet(S)
  PROVE  \E n \in S : \A m \in S : m = n \/ KeyBefore(m, n)
<1> DEFINE HasLast(T) == \E n \in T : \A m \in T : m = n \/ KeyBefore(m, n)
           Bad == {T \in SUBSET S : T # {} /\ ~HasLast(T)}
           Sizes0 == {Cardinality(T) : T \in Bad}
<1> SUFFICES ASSUME ~HasLast(S) PROVE FALSE
  OBVIOUS
<1>1. \A T \in SUBSET S : IsFiniteSet(T) /\ Cardinality(T) \in Nat
  BY FS_Subset, FS_CardinalityType
<1>2. Sizes0 \in SUBSET Nat /\ Sizes0 # {}
  BY <1>1
<1>3. PICK k \in Sizes0 : \A j \in Sizes0 : k <= j
  <2> HIDE DEF Sizes0
  <2> QED
    BY <1>2, LeastNat
<1>4. PICK T \in Bad : Cardinality(T) = k
  OBVIOUS
<1>5. PICK x \in T : TRUE
  OBVIOUS
<1>6. Cardinality(T \ {x}) = k - 1 /\ k \in Nat
  BY <1>1, <1>4, <1>5, FS_RemoveElement
<1>7. T \ {x} \notin Bad
  <2>1. T \ {x} \in Bad => Cardinality(T \ {x}) \in Sizes0
    OBVIOUS
  <2> HIDE DEF Sizes0, Bad
  <2> QED
    BY <2>1, <1>3, <1>6
<1>8. CASE T \ {x} = {}
  <2>1. T = {x}
    BY <1>8, <1>5
  <2> QED
    BY <2>1, <1>4
<1>9. CASE T \ {x} # {}
  <2>1. PICK n \in T \ {x} : \A m \in T \ {x} : m = n \/ KeyBefore(m, n)
    BY <1>7, <1>9, <1>4
  <2>2. n \in N /\ x \in N /\ T \subseteq N
    BY <2>1, <1>4, <1>5
  <2>3. CASE KeyBefore(x, n)
    <3>1. \A m \in T : m = n \/ KeyBefore(m, n)
      BY <2>1, <2>3
    <3> QED
      BY <3>1, <2>1, <1>4
  <2>4. CASE ~KeyBefore(x, n)
    <3>1. KeyBefore(n, x)
      BY <2>1, <2>2, <2>4, NodeOrder
    <3>2. \A m \in T : m = x \/ KeyBefore(m, x)
      BY <2>1, <2>2, <3>1, NodeOrder
    <3> QED
      BY <3>2, <1>4, <1>5
  <2> QED
    BY <2>3, <2>4
<1> QED
  BY <1>8, <1>9

\* What AtLevel holds.
LEMMA LevelHolds ==
  ASSUME NodesOK
  PROVE  \A l : AtLevel(l) = {n \in Nodes : l \in DOMAIN link[n]
                                /\ ~(Inserting /\ n = inserter.node /\ l >= inserter.level)}
<1> SUFFICES ASSUME NEW l, NEW n \in Nodes, l \in DOMAIN link[n]
             PROVE  /\ link[n][l] # Uninitialised
                       /\ ~(inserter.pc = "publish" /\ inserter.node = n /\ inserter.level = l)
                    <=> ~(Inserting /\ n = inserter.node /\ l >= inserter.level)
  BY DEF AtLevel
<1>1. l \in Nat
  BY MemTableAssumption DEF NodesOK, ListLevels
<1>2. link[n][l] = Uninitialised <=> Unset(n, l)
  BY DEF NodesOK
<1>3. Inserting => inserter.level \in Nat
  BY MemTableAssumption DEF NodesOK
<1> QED
  BY <1>1, <1>2, <1>3 DEF Unset, Inserting

\* Levels are nested.
LEMMA LevelFacts ==
  ASSUME NodesOK
  PROVE  /\ \A l : AtLevel(l) \subseteq Nodes
         /\ \A l \in ListLevels : l > 0 => l - 1 \in ListLevels /\ AtLevel(l) \subseteq AtLevel(l - 1)
         /\ Nodes \in SUBSET MemEntries /\ \A n, m \in Nodes : n.seq = m.seq => n = m
<1>1. \A l : AtLevel(l) \subseteq Nodes
  BY DEF AtLevel
<1>2. ASSUME NEW l \in ListLevels, l > 0, NEW n \in AtLevel(l)
      PROVE  n \in AtLevel(l - 1)
  <2>1. n \in Nodes /\ l \in DOMAIN link[n] /\ ~(Inserting /\ n = inserter.node /\ l >= inserter.level)
    BY LevelHolds
  <2>2. l - 1 \in DOMAIN link[n]
    BY <2>1, <1>2 DEF NodesOK
  <2>3. l \in Nat /\ (Inserting => inserter.level \in Nat)
    BY MemTableAssumption DEF ListLevels, NodesOK
  <2>4. ~(Inserting /\ n = inserter.node /\ l - 1 >= inserter.level)
    BY <2>1, <2>3
  <2> QED
    BY <2>1, <2>2, <2>4, LevelHolds
<1>3. \A l \in ListLevels : l > 0 => l - 1 \in ListLevels
  BY MemTableAssumption DEF ListLevels
<1> QED
  BY <1>1, <1>2, <1>3 DEF NodesOK

\* The node before n on level l.
LEMMA PrevIs ==
  ASSUME NodesOK, NEW l \in ListLevels, NEW n \in Nodes
  PROVE  LET p == PrevNode(n, l)
         IN /\ p \in AtLevel(l) \cup {HeadNode} /\ Precedes(p, n)
            /\ \A m \in AtLevel(l) : KeyBefore(m, n) => p # HeadNode /\ (m = p \/ KeyBefore(m, p))
<1> DEFINE S == {m \in AtLevel(l) : KeyBefore(m, n)}
           p == PrevNode(n, l)
<1>1. p = IF S = {} THEN HeadNode ELSE CHOOSE x \in S : \A m \in S : m = x \/ KeyBefore(m, x)
  BY DEF PrevNode
<1>2. S \in SUBSET Nodes /\ IsFiniteSet(S)
  BY LevelFacts, FS_Subset DEF NodesOK
<1> HIDE DEF p
<1>3. CASE S = {}
  BY <1>1, <1>3 DEF Precedes, p
<1>4. CASE S # {}
  <2>1. \E x \in S : \A m \in S : m = x \/ KeyBefore(m, x)
    <3> HIDE DEF S
    <3> QED
      BY <1>2, <1>4, LastNode, LevelFacts
  <2>2. p \in S /\ \A m \in S : m = p \/ KeyBefore(m, p)
    BY <2>1, <1>1, <1>4
  <2>3. p # HeadNode
    BY <2>2, LevelFacts, NodeOrder
  <2> QED
    BY <2>2, <2>3 DEF Precedes, p
<1> QED
  BY <1>3, <1>4 DEF p

\* n is not in A, and p is the node of A before it.
Gap(N, A, p, n) ==
  /\ N \in SUBSET MemEntries /\ \A x, y \in N : x.seq = y.seq => x = y
  /\ A \subseteq N /\ n \in N \ A /\ p \in A \cup {HeadNode} /\ Precedes(p, n)
  /\ \A m \in A : KeyBefore(m, n) => p # HeadNode /\ (m = p \/ KeyBefore(m, p))

\* The first store of a level: the new node gets the successor of p.
LEMMA OwnFollows ==
  ASSUME NEW N, NEW A, NEW p, NEW n, NEW s, Gap(N, A, p, n), Follows(A, p, s)
  PROVE  Follows(A, n, s)
<1>1. /\ N \in SUBSET MemEntries /\ \A x, y \in N : x.seq = y.seq => x = y
      /\ A \subseteq N /\ n \in N /\ n \notin A /\ p \in A \cup {HeadNode} /\ Precedes(p, n)
      /\ \A m \in A : KeyBefore(m, n) => p # HeadNode /\ (m = p \/ KeyBefore(m, p))
  BY DEF Gap
<1>2. n # HeadNode /\ \A m \in A : m # HeadNode
  BY <1>1, NodeOrder
<1>3. ASSUME NEW m \in A, Precedes(n, m) PROVE Precedes(p, m)
  <2>1. KeyBefore(n, m) /\ m \in N
    BY <1>1, <1>2, <1>3 DEF Precedes
  <2>2. CASE p = HeadNode
    BY <2>2 DEF Precedes
  <2>3. CASE p \in A
    <3>1. KeyBefore(p, n)
      BY <1>1, <1>2, <2>3 DEF Precedes
    <3>2. KeyBefore(p, m)
      BY <1>1, <2>1, <2>3, <3>1, NodeOrder
    <3> QED
      BY <3>2 DEF Precedes
  <2> QED
    BY <1>1, <2>2, <2>3
<1>4. CASE s = NULL /\ \A m \in A : ~Precedes(p, m)
  BY <1>3, <1>4 DEF Follows
<1>5. CASE s \in A /\ Precedes(p, s) /\ \A m \in A : Precedes(p, m) => m = s \/ KeyBefore(s, m)
  <2>1. ~KeyBefore(s, n)
    <3> SUFFICES ASSUME KeyBefore(s, n) PROVE FALSE
      OBVIOUS
    <3>1. p # HeadNode /\ p \in A /\ (s = p \/ KeyBefore(s, p)) /\ KeyBefore(p, s)
      BY <1>1, <1>5 DEF Precedes
    <3> QED
      BY <3>1, <1>1, <1>5, NodeOrder
  <2>2. Precedes(n, s)
    BY <2>1, <1>1, <1>5, NodeOrder DEF Precedes
  <2> QED
    BY <2>2, <1>3, <1>5 DEF Follows
<1> QED
  BY <1>4, <1>5 DEF Follows

\* The second: p gets the new node, and the lists of the others stay right.
LEMMA PublishFollows ==
  ASSUME NEW N, NEW A, NEW p, NEW n, NEW t, Gap(N, A, p, n), Follows(A, n, t)
  PROVE  /\ Follows(A \cup {n}, n, t) /\ Follows(A \cup {n}, p, n)
         /\ \A y \in (A \cup {HeadNode}) \ {p} : \A s : Follows(A, y, s) => Follows(A \cup {n}, y, s)
<1>1. /\ N \in SUBSET MemEntries /\ \A x, y \in N : x.seq = y.seq => x = y
      /\ A \subseteq N /\ n \in N /\ n \notin A /\ p \in A \cup {HeadNode} /\ Precedes(p, n)
      /\ \A m \in A : KeyBefore(m, n) => p # HeadNode /\ (m = p \/ KeyBefore(m, p))
  BY DEF Gap
<1>2. n # HeadNode /\ \A m \in A : m # HeadNode
  BY <1>1, NodeOrder
<1>3. Follows(A \cup {n}, n, t)
  <2>1. ~Precedes(n, n)
    BY <1>1, <1>2, NodeOrder DEF Precedes
  <2> QED
    BY <2>1 DEF Follows
<1>4. Follows(A \cup {n}, p, n)
  <2>1. ASSUME NEW m \in A, Precedes(p, m) PROVE KeyBefore(n, m)
    <3>1. ~KeyBefore(m, n)
      <4> SUFFICES ASSUME KeyBefore(m, n) PROVE FALSE
        OBVIOUS
      <4>1. p # HeadNode /\ p \in A /\ (m = p \/ KeyBefore(m, p)) /\ KeyBefore(p, m)
        BY <1>1, <2>1 DEF Precedes
      <4> QED
        BY <4>1, <1>1, NodeOrder
    <3> QED
      BY <3>1, <1>1, NodeOrder
  <2> QED
    BY <2>1, <1>1 DEF Follows
<1>5. ASSUME NEW y \in (A \cup {HeadNode}) \ {p}, NEW s, Follows(A, y, s)
      PROVE  Follows(A \cup {n}, y, s)
  <2>1. Precedes(y, n) => p \in A /\ Precedes(y, p)
    BY <1>1, <1>2 DEF Precedes
  <2>2. CASE s = NULL /\ \A m \in A : ~Precedes(y, m)
    BY <2>1, <2>2 DEF Follows
  <2>3. CASE s \in A /\ Precedes(y, s) /\ \A m \in A : Precedes(y, m) => m = s \/ KeyBefore(s, m)
    <3>1. ASSUME Precedes(y, n) PROVE KeyBefore(s, n)
      <4>1. p \in A /\ (p = s \/ KeyBefore(s, p))
        BY <2>1, <2>3, <3>1
      <4>2. KeyBefore(p, n)
        BY <4>1, <1>1, <1>2 DEF Precedes
      <4> QED
        BY <4>1, <4>2, <1>1, <2>3, NodeOrder
    <3> QED
      BY <3>1, <2>3 DEF Follows
  <2> QED
    BY <2>2, <2>3, <1>5 DEF Follows
<1> QED
  BY <1>3, <1>4, <1>5

-----------------------------------------------------------------------------
\* A step of the writer leaves the reader where it was: nodes stay linked and
\* new ones are numbered above what was published.
LEMMA WriterKeepsWalk ==
  ASSUME InserterOK, WalkOK, walker' = walker, \A l : AtLevel(l) \subseteq AtLevel(l)',
         Nodes \subseteq Nodes', published \in Nat, published' \in Nat, published <= published',
         \A n \in Nodes' \ Nodes : n.seq \in Nat /\ n.seq > published
  PROVE  WalkOK'
<1>1. AtLevel(0) \subseteq AtLevel(0)' /\ AtLevel(walker.level) \subseteq AtLevel(walker.level)'
  OBVIOUS
<1>2. GetSeesItsSnapshot'
  <2>1. GetSeesItsSnapshot
    BY DEF WalkOK
  <2> QED
    BY <2>1 DEF GetSeesItsSnapshot, GetAnswer
<1>3. MovesSkipNothing'
  <2>1. MovesSkipNothing
    BY DEF WalkOK
  <2> QED
    BY <2>1 DEF MovesSkipNothing
<1>4. ASSUME walker.pc = "walk", walker.op = "get"
      PROVE  /\ walker.snapshot <= published'
             /\ \A n \in Nodes' : n.seq <= walker.snapshot => n \in walker.start
  <2>1. /\ walker.snapshot <= published /\ walker.snapshot = walker.target.seq
        /\ \A n \in Nodes : n.seq <= walker.snapshot => n \in walker.start
        /\ walker.target.seq \in Nat
    BY <1>4 DEF WalkOK
  <2>2. walker.snapshot \in Nat
    BY <2>1
  <2>3. walker.snapshot <= published'
    BY <2>1, <2>2
  <2>4. ASSUME NEW n \in Nodes', n.seq <= walker.snapshot PROVE n \in Nodes
    BY <2>1, <2>2, <2>4
  <2> QED
    BY <2>1, <2>3, <2>4
<1>5. /\ DOMAIN walker = WalkerFields /\ walker.pc \in {"idle", "walk", "done"}
      /\ walker.node \in AtLevel(0) \cup {NULL} /\ walker.x # Uninitialised
      /\ walker.start \subseteq AtLevel(0)
      /\ walker.pc = "walk" =>
           /\ walker.op \in {"get", "seek", "prev", "last"}
           /\ walker.level \in ListLevels /\ walker.x \in AtLevel(walker.level) \cup {HeadNode}
           /\ walker.op # "last" => /\ walker.target.key \in Nat /\ walker.target.seq \in Nat
                                    /\ walker.target.type = "entry"
                                    /\ Precedes(walker.x, walker.target)
           /\ walker.op = "get" => walker.snapshot = walker.target.seq
  BY DEF WalkOK
<1> QED
  BY <1>1, <1>2, <1>3, <1>4, <1>5 DEF WalkOK

\* Steps of the writer that touch no link.
LEMMA LinksKept ==
  ASSUME MemInv, link' = link, walker' = walker, ~Inserting, ~Inserting', InserterOK',
         LastInserted' = LastInserted, published <= published'
  PROVE  MemInv'
<1>1. \A l : AtLevel(l)' = AtLevel(l)
  BY DEF AtLevel, Nodes, Inserting
<1>2. Nodes' = Nodes
  BY DEF Nodes
<1>3. NodesOK'
  <2>1. \A n \in Nodes : \A l \in DOMAIN link[n] : Unset(n, l)' <=> Unset(n, l)
    BY DEF Unset
  <2>2. NodesOK
    BY DEF MemInv
  <2> QED
    BY <1>2, <2>1, <2>2 DEF NodesOK
<1>4. ListsOK'
  <2>1. ListsOK
    BY DEF MemInv
  <2> QED
    BY <1>1, <2>1 DEF ListsOK, Inserting
<1>5. WalkOK'
  BY <1>1, <1>2, WriterKeepsWalk DEF MemInv, InserterOK
<1> QED
  BY <1>3, <1>4, <1>5 DEF MemInv

\* WriteBatch::Put, Delete, Append and Clear.
LEMMA BatchWriteKeeps ==
  ASSUME MemInv, BatchWrite \/ BatchClear
  PROVE  MemInv'
<1>1. /\ inserter' = inserter /\ link' = link /\ published' = published /\ walker' = walker
      /\ status' = status /\ inserter.pc = "idle"
  BY DEF BatchWrite, BatchClear
<1>2. BatchOK(batch')
  <2>1. CASE BatchClear
    BY <2>1 DEF BatchClear, NoBatch, BatchOK
  <2>2. CASE BatchWrite
    <3>1. PICK k \in UserKeys : batch' = BatchAppend(batch, BatchAdd(NoBatch, [key |-> k]))
      BY <2>2 DEF BatchWrite, OneRecord
    <3> DEFINE r == [key |-> k]
               b == BatchAdd(NoBatch, r)
    <3>2. b.count = 1 /\ b.records = <<r>>
      BY DEF BatchAdd, NoBatch
    <3>3. r \in [key : UserKeys]
      OBVIOUS
    <3> HIDE DEF r, b
    <3>4. batch'.count = batch.count + 1 /\ batch'.records = batch.records \o <<r>>
      BY <3>1, <3>2 DEF BatchAppend, b, r
    <3>5. batch.records \in Seq([key : UserKeys]) /\ batch.count = Len(batch.records)
      BY DEF MemInv, InserterOK, BatchOK
    <3>6. <<r>> \in Seq([key : UserKeys]) /\ Len(<<r>>) = 1
      BY <3>3
    <3>7. /\ batch.records \o <<r>> \in Seq([key : UserKeys])
          /\ Len(batch.records \o <<r>>) = Len(batch.records) + 1
      BY <3>5, <3>6
    <3> QED
      BY <3>4, <3>5, <3>7 DEF BatchOK
  <2> QED
    BY <2>1, <2>2
<1>3. InserterOK' /\ ~Inserting /\ ~Inserting'
  BY <1>1, <1>2 DEF MemInv, InserterOK, Inserting
<1>4. LastInserted' = LastInserted /\ published <= published'
  BY <1>1 DEF LastInserted, MemInv, InserterOK
<1> QED
  BY <1>1, <1>3, <1>4, LinksKept

\* InsertInto numbers the records from the last published one.
LEMMA InsertIntoKeeps ==
  ASSUME MemInv, InsertInto
  PROVE  MemInv'
<1>1. /\ inserter.pc = "idle" /\ link' = link /\ published' = published /\ walker' = walker
      /\ status' = status /\ batch' = batch
      /\ inserter' = [NoInserter EXCEPT !.pc = "iterate", !.rest = batch, !.seq = published + 1]
  BY DEF InsertInto
<1>2. /\ DOMAIN inserter' = InserterFields /\ inserter'.pc = "iterate" /\ inserter'.rest = batch
      /\ inserter'.seq = published + 1 /\ inserter'.found = 0
  BY <1>1 DEF NoInserter, InserterFields
<1>3. published \in Nat /\ BatchOK(batch) /\ Len(batch.records) \in Nat
  BY DEF MemInv, InserterOK, BatchOK
<1>4. InserterOK' /\ ~Inserting /\ ~Inserting'
  BY <1>1, <1>2, <1>3 DEF MemInv, InserterOK, Inserting
<1>5. LastInserted' = LastInserted /\ published <= published'
  BY <1>1, <1>2, <1>3 DEF LastInserted
<1> QED
  BY <1>1, <1>4, <1>5, LinksKept

\* The end of Iterate: the count agrees, the numbers are published.
LEMMA InsertDoneKeeps ==
  ASSUME MemInv, InsertDone
  PROVE  MemInv'
<1>1. /\ inserter.pc = "iterate" /\ inserter.found = Len(inserter.rest.records)
      /\ status' = (IF inserter.found # inserter.rest.count THEN "Corruption" ELSE "OK")
      /\ published' = published + inserter.rest.count
      /\ inserter' = NoInserter /\ batch' = NoBatch /\ link' = link /\ walker' = walker
  BY DEF InsertDone
<1>2. /\ published \in Nat /\ inserter.rest.count = Len(inserter.rest.records)
      /\ Len(inserter.rest.records) \in Nat /\ inserter.seq = published + 1 + inserter.found
  <2>1. BatchOK(inserter.rest) /\ published \in Nat /\ inserter.seq = published + 1 + inserter.found
    BY <1>1 DEF MemInv, InserterOK
  <2>2. inserter.rest.count = Len(inserter.rest.records) /\ Len(inserter.rest.records) \in Nat
    BY <2>1 DEF BatchOK
  <2> QED
    BY <2>1, <2>2
<1>3. /\ DOMAIN inserter' = InserterFields /\ inserter'.pc = "idle"
      /\ BatchOK(batch')
  BY <1>1 DEF NoInserter, InserterFields, NoBatch, BatchOK
<1>4. status' = "OK" /\ published' \in Nat /\ published <= published'
  BY <1>1, <1>2
<1>5. InserterOK' /\ ~Inserting /\ ~Inserting'
  BY <1>1, <1>3, <1>4 DEF InserterOK, Inserting
<1>6. LastInserted' = LastInserted
  <2>1. LastInserted' = published' /\ LastInserted = inserter.seq - 1
    BY <1>1, <1>3 DEF LastInserted
  <2> DEFINE k == Len(inserter.rest.records)
  <2>2. k \in Nat /\ published \in Nat /\ published' = published + k /\ inserter.seq = published + 1 + k
    BY <1>1, <1>2
  <2> HIDE DEF k
  <2> QED
    BY <2>1, <2>2
<1> QED
  BY <1>1, <1>4, <1>5, <1>6, LinksKept

\* A new node, with no link set.
LEMMA InsertRecordKeeps ==
  ASSUME MemInv, InsertRecord
  PROVE  MemInv'
<1>0. PICK h \in 1..MaxHeight :
        LET r == inserter.rest.records[inserter.found + 1]
            n == MemEntry(r.key, inserter.seq)
        IN /\ inserter' = [inserter EXCEPT !.pc = "own", !.node = n, !.level = 0, !.height = h,
                                           !.found = @ + 1, !.seq = @ + 1]
           /\ link' = [m \in DOMAIN link \cup {n} |->
                        IF m = n THEN [l \in 0..(h - 1) |-> Uninitialised] ELSE link[m]]
  BY DEF InsertRecord
<1> DEFINE r == inserter.rest.records[inserter.found + 1]
<1>1. PICK n : /\ n = MemEntry(r.key, inserter.seq)
               /\ inserter' = [inserter EXCEPT !.pc = "own", !.node = n, !.level = 0, !.height = h,
                                               !.found = @ + 1, !.seq = @ + 1]
               /\ link' = [m \in DOMAIN link \cup {n} |->
                              IF m = n THEN [l \in 0..(h - 1) |-> Uninitialised] ELSE link[m]]
  BY <1>0, Zenon
<1>2. /\ inserter.pc = "iterate" /\ inserter.found < Len(inserter.rest.records)
      /\ batch' = batch /\ published' = published /\ walker' = walker /\ status' = status
  BY DEF InsertRecord
<1>3. /\ DOMAIN inserter = InserterFields /\ published \in Nat /\ BatchOK(inserter.rest)
      /\ inserter.found \in 0..Len(inserter.rest.records)
      /\ inserter.seq = published + 1 + inserter.found
      /\ Len(inserter.rest.records) \in Nat
      /\ NodesOK /\ ListsOK /\ WalkOK /\ InserterOK
  BY <1>2 DEF MemInv, InserterOK, BatchOK
<1>4. r \in [key : UserKeys]
  <2> DEFINE R == inserter.rest.records
             i == inserter.found + 1
             T == [key : UserKeys]
  <2>1. R \in Seq(T) /\ i \in 1..Len(R)
    BY <1>2, <1>3 DEF BatchOK
  <2> HIDE DEF R, i, T
  <2>2. R[i] \in T
    BY <2>1, ElementOfSeq
  <2> QED
    BY <2>2 DEF R, i, T
<1>5. n \in MemEntries /\ n.seq = inserter.seq /\ inserter.seq \in Nat /\ inserter.seq > published
  <2>1. inserter.seq \in Nat /\ inserter.seq > published /\ inserter.seq # 0
    BY <1>3
  <2>2. n.seq = inserter.seq
    BY <1>1 DEF MemEntry
  <2>3. n \in MemEntries
    BY <1>1, <1>4, <2>1 DEF MemEntry, MemEntries
  <2> QED
    BY <2>1, <2>2, <2>3
<1>6. n # HeadNode
  BY <1>1 DEF MemEntry, HeadNode
<1> HIDE DEF r
<1>7. /\ DOMAIN inserter' = InserterFields /\ inserter'.pc = "own" /\ inserter'.node = n
      /\ inserter'.level = 0 /\ inserter'.height = h /\ inserter'.rest = inserter.rest
      /\ inserter'.found = inserter.found + 1 /\ inserter'.seq = inserter.seq + 1
  BY <1>1, <1>3 DEF InserterFields
<1>8. /\ DOMAIN link' = DOMAIN link \cup {n}
      /\ \A m \in DOMAIN link : m # n => link'[m] = link[m]
      /\ link'[n] = [l \in 0..(h - 1) |-> Uninitialised]
  BY <1>1
<1>9. /\ {m.seq : m \in Nodes} = 1..(inserter.seq - 1)
  BY <1>2, <1>3 DEF NodesOK, LastInserted
<1>10. n \notin Nodes
  BY <1>5, <1>9
<1>11. Nodes' = Nodes \cup {n}
  BY <1>6, <1>8 DEF Nodes
<1>12. ~Inserting /\ Inserting'
  BY <1>2, <1>7 DEF Inserting
<1>13. InserterOK'
  BY <1>2, <1>3, <1>7 DEF InserterOK
<1>14. NodesOK'
  <2>1. HeadNode \in DOMAIN link' /\ Nodes' \subseteq MemEntries /\ IsFiniteSet(Nodes')
    BY <1>3, <1>5, <1>8, <1>11, FS_AddElement DEF NodesOK
  <2>2. \A m \in Nodes : m.seq # n.seq
    BY <1>5, <1>9
  <2>3. \A x, y \in Nodes' : x.seq = y.seq => x = y
    BY <2>2, <1>3, <1>11 DEF NodesOK
  <2>4. {m.seq : m \in Nodes'} = 1..LastInserted'
    <3>1. LastInserted' = inserter.seq
      BY <1>5, <1>7 DEF LastInserted
    <3>2. {m.seq : m \in Nodes'} = {m.seq : m \in Nodes} \cup {inserter.seq}
      BY <1>5, <1>11
    <3>3. 1..inserter.seq = (1..(inserter.seq - 1)) \cup {inserter.seq}
      BY <1>3, <1>5
    <3> QED
      BY <3>1, <3>2, <3>3, <1>9
  <2>5. DOMAIN link'[HeadNode] = ListLevels
    BY <1>3, <1>6, <1>8 DEF NodesOK
  <2>6. DOMAIN link'[n] = 0..(h - 1) /\ 0..(h - 1) \subseteq ListLevels /\ 0 \in 0..(h - 1)
    BY <1>8, MemTableAssumption DEF ListLevels
  <2>7. \A m \in Nodes' : /\ DOMAIN link'[m] \subseteq ListLevels /\ 0 \in DOMAIN link'[m]
                          /\ \A l \in DOMAIN link'[m] : l > 0 => l - 1 \in DOMAIN link'[m]
    <3>1. \A l \in 0..(h - 1) : l > 0 => l - 1 \in 0..(h - 1)
      OBVIOUS
    <3>2. \A m \in Nodes : link'[m] = link[m]
      BY <1>8, <1>10 DEF Nodes
    <3>3. \A m \in Nodes : /\ DOMAIN link[m] \subseteq ListLevels /\ 0 \in DOMAIN link[m]
                           /\ \A l \in DOMAIN link[m] : l > 0 => l - 1 \in DOMAIN link[m]
      BY <1>3 DEF NodesOK
    <3> QED
      BY <2>6, <3>1, <3>2, <3>3, <1>11
  <2>8. \A m \in Nodes' : \A l \in DOMAIN link'[m] : link'[m][l] = Uninitialised <=> Unset(m, l)'
    <3>1. ASSUME NEW m \in Nodes, NEW l \in DOMAIN link'[m]
          PROVE  link'[m][l] = Uninitialised <=> Unset(m, l)'
      <4>1. link'[m] = link[m] /\ m # n
        BY <1>8, <1>10 DEF Nodes
      <4>2. ~Unset(m, l) /\ ~Unset(m, l)'
        BY <4>1, <1>7, <1>12 DEF Unset
      <4> QED
        BY <4>1, <4>2, <1>3 DEF NodesOK
    <3>2. ASSUME NEW l \in DOMAIN link'[n]
          PROVE  link'[n][l] = Uninitialised <=> Unset(n, l)'
      <4>1. link'[n][l] = Uninitialised /\ l \in 0..(h - 1)
        BY <1>8
      <4>2. Unset(n, l)'
        BY <4>1, <1>7, <1>12 DEF Unset
      <4> QED
        BY <4>1, <4>2
    <3> QED
      BY <3>1, <3>2, <1>11
  <2>9. /\ inserter'.node \in Nodes' /\ inserter'.node.seq = inserter'.seq - 1
        /\ inserter'.found # 0
        /\ inserter'.height \in 1..MaxHeight /\ inserter'.level \in 0..(inserter'.height - 1)
        /\ DOMAIN link'[inserter'.node] = 0..(inserter'.height - 1)
    BY <2>6, <1>3, <1>5, <1>7, <1>11
  <2> QED
    BY <2>1, <2>3, <2>4, <2>5, <2>7, <2>8, <2>9 DEF NodesOK
<1>15. \A l : AtLevel(l)' = AtLevel(l)
  <2> SUFFICES ASSUME NEW l PROVE AtLevel(l)' = AtLevel(l)
    OBVIOUS
  <2>1. AtLevel(l) = {m \in Nodes : l \in DOMAIN link[m]}
    BY <1>3, <1>12, LevelHolds
  <2>2. \A m \in Nodes : link'[m] = link[m] /\ m # n
    BY <1>8, <1>10 DEF Nodes
  <2>3. \A m \in Nodes' : m \in AtLevel(l)' <=> m # n /\ l \in DOMAIN link'[m]
    <3>1. ASSUME NEW m \in Nodes', l \in DOMAIN link'[m], m # n PROVE m \in AtLevel(l)'
      <4>1. link'[m][l] # Uninitialised
        <5>1. ~Unset(m, l)'
          BY <3>1, <1>7 DEF Unset
        <5> QED
          BY <5>1, <3>1, <1>14 DEF NodesOK
      <4> QED
        BY <4>1, <3>1, <1>7 DEF AtLevel
    <3>2. n \notin AtLevel(l)'
      <4>1. l \in DOMAIN link'[n] => link'[n][l] = Uninitialised
        BY <1>8
      <4> QED
        BY <4>1 DEF AtLevel
    <3> QED
      BY <3>1, <3>2 DEF AtLevel
  <2>4. AtLevel(l)' \subseteq Nodes'
    BY DEF AtLevel
  <2> QED
    BY <2>1, <2>2, <2>3, <2>4, <1>11
<1>16. ListsOK'
  <2>1. \A l \in ListLevels : \A m \in AtLevel(l) \cup {HeadNode} : link'[m] = link[m]
    BY <1>3, <1>6, <1>8, <1>10 DEF AtLevel, Nodes, NodesOK
  <2> QED
    BY <2>1, <1>3, <1>7, <1>15 DEF ListsOK
<1>17. WalkOK'
  BY <1>2, <1>3, <1>5, <1>11, <1>15, WriterKeepsWalk
<1> QED
  BY <1>13, <1>14, <1>16, <1>17 DEF MemInv

\* Where the writer is in the loop of Insert: n on level l, behind p.
LEMMA InsertPlace ==
  ASSUME MemInv, Inserting
  PROVE  LET n == inserter.node
             l == inserter.level
             p == PrevNode(n, l)
         IN /\ n \in Nodes /\ l \in ListLevels /\ l \in Nat /\ l \in DOMAIN link[n]
            /\ n \in DOMAIN link /\ n # HeadNode
            /\ Gap(Nodes, AtLevel(l), p, n)
            /\ p \in DOMAIN link /\ p # n /\ l \in DOMAIN link[p]
            /\ Follows(AtLevel(l), p, link[p][l])
<1> DEFINE n == inserter.node
           l == inserter.level
           p == PrevNode(n, l)
<1>1. NodesOK /\ ListsOK
  BY DEF MemInv
<1>2. n \in Nodes /\ inserter.height \in 1..MaxHeight /\ l \in 0..(inserter.height - 1)
      /\ DOMAIN link[n] = 0..(inserter.height - 1)
  BY <1>1 DEF NodesOK
<1>3. l \in ListLevels /\ l \in Nat /\ l \in DOMAIN link[n]
  BY <1>2, MemTableAssumption DEF ListLevels
<1>4. n \in DOMAIN link /\ n # HeadNode
  BY <1>2 DEF Nodes
<1>5. n \notin AtLevel(l)
  BY <1>1, <1>3, LevelHolds
<1>6. /\ p \in AtLevel(l) \cup {HeadNode} /\ Precedes(p, n)
      /\ \A m \in AtLevel(l) : KeyBefore(m, n) => p # HeadNode /\ (m = p \/ KeyBefore(m, p))
  BY <1>1, <1>2, <1>3, PrevIs
<1> HIDE DEF n, l, p
<1>7. Gap(Nodes, AtLevel(l), p, n)
  BY <1>1, <1>2, <1>5, <1>6, LevelFacts DEF Gap
<1>8. p \in DOMAIN link /\ p # n /\ l \in DOMAIN link[p]
  BY <1>1, <1>3, <1>4, <1>5, <1>6 DEF AtLevel, Nodes, NodesOK
<1>9. Follows(AtLevel(l), p, link[p][l])
  BY <1>1, <1>3, <1>6 DEF ListsOK
<1> QED
  BY <1>2, <1>3, <1>4, <1>7, <1>8, <1>9 DEF n, l, p

\* What Follows names is a node or the end.
LEMMA FollowerIs ==
  ASSUME NodesOK, NEW l, NEW n, NEW s, Follows(AtLevel(l), n, s)
  PROVE  s \in AtLevel(l) \cup {NULL} /\ s # Uninitialised
<1>1. s \in AtLevel(l) \cup {NULL}
  BY DEF Follows
<1>2. NULL # Uninitialised
  BY DEF NULL, Uninitialised
<1>3. \A m \in Nodes : m # Uninitialised
  BY LevelFacts, NodeOrder
<1> QED
  BY <1>1, <1>2, <1>3, LevelFacts

\* The first store of a level, NoBarrier_SetNext.
LEMMA InsertOwnKeeps ==
  ASSUME MemInv, InsertLink, inserter.pc = "own"
  PROVE  MemInv'
<1>0. Inserting /\ NodesOK /\ ListsOK /\ WalkOK /\ InserterOK
  BY DEF Inserting, MemInv
<1>1. PICK n, l, p : n = inserter.node /\ l = inserter.level /\ p = PrevNode(n, l)
  OBVIOUS
<1>2. /\ n \in Nodes /\ l \in ListLevels /\ l \in Nat /\ l \in DOMAIN link[n]
      /\ n \in DOMAIN link /\ n # HeadNode
      /\ Gap(Nodes, AtLevel(l), p, n)
      /\ p \in DOMAIN link /\ p # n /\ l \in DOMAIN link[p]
      /\ Follows(AtLevel(l), p, link[p][l])
  BY <1>0, <1>1, InsertPlace
<1>3. PICK s : s = link[p][l]
  OBVIOUS
<1>4. /\ link' = [link EXCEPT ![n][l] = s] /\ inserter' = [inserter EXCEPT !.pc = "publish"]
      /\ batch' = batch /\ published' = published /\ walker' = walker /\ status' = status
  BY <1>1, <1>3 DEF InsertLink, Store, OwnLink
<1>5. /\ DOMAIN inserter' = InserterFields /\ inserter'.pc = "publish"
      /\ inserter'.node = n /\ inserter'.level = l
      /\ inserter'.height = inserter.height /\ inserter'.rest = inserter.rest
      /\ inserter'.found = inserter.found /\ inserter'.seq = inserter.seq
  BY <1>0, <1>1, <1>4 DEF InserterOK, InserterFields
<1>6. /\ DOMAIN link' = DOMAIN link /\ \A m \in DOMAIN link : DOMAIN link'[m] = DOMAIN link[m]
      /\ \A m \in DOMAIN link \ {n} : link'[m] = link[m]
      /\ \A k \in DOMAIN link[n] : link'[n][k] = IF k = l THEN s ELSE link[n][k]
  BY <1>2, <1>4
<1>7. Nodes' = Nodes /\ Nodes \subseteq DOMAIN link
  BY <1>6 DEF Nodes
<1>8. Inserting'
  BY <1>5 DEF Inserting
<1>9. s # Uninitialised
  BY <1>0, <1>2, <1>3, FollowerIs
<1>10. InserterOK'
  BY <1>0, <1>4, <1>5 DEF InserterOK
<1>11. NodesOK'
  <2>1. LastInserted' = LastInserted
    BY <1>5 DEF LastInserted
  <2>2. ASSUME NEW m \in Nodes, NEW k \in DOMAIN link'[m]
        PROVE  link'[m][k] = Uninitialised <=> Unset(m, k)'
    <3>1. k \in DOMAIN link[m] /\ k \in Nat
      BY <1>0, <1>6, <1>7, MemTableAssumption DEF NodesOK, ListLevels
    <3>2. link[m][k] = Uninitialised <=> Unset(m, k)
      BY <1>0, <3>1 DEF NodesOK
    <3>3. Unset(m, k) <=> m = n /\ (k > l \/ k = l)
      BY <1>0, <1>1 DEF Unset
    <3>4. Unset(m, k)' <=> m = n /\ k > l
      BY <1>5, <1>8 DEF Unset
    <3>5. CASE m # n
      BY <3>1, <3>2, <3>3, <3>4, <3>5, <1>6, <1>7
    <3>6. CASE m = n /\ k # l
      BY <3>1, <3>2, <3>3, <3>4, <3>6, <1>6
    <3>7. CASE m = n /\ k = l
      BY <3>1, <3>4, <3>7, <1>2, <1>6, <1>9
    <3> QED
      BY <3>5, <3>6, <3>7
  <2>3. /\ inserter'.node \in Nodes' /\ inserter'.node.seq = inserter'.seq - 1
        /\ inserter'.found # 0
        /\ inserter'.height \in 1..MaxHeight /\ inserter'.level \in 0..(inserter'.height - 1)
        /\ DOMAIN link'[inserter'.node] = 0..(inserter'.height - 1)
    BY <1>0, <1>1, <1>2, <1>5, <1>6, <1>7 DEF NodesOK
  <2> QED
    BY <2>1, <2>2, <2>3, <1>0, <1>6, <1>7 DEF NodesOK
<1>12. \A k : AtLevel(k)' = AtLevel(k)
  <2> SUFFICES ASSUME NEW k, NEW m \in Nodes, k \in DOMAIN link[m]
               PROVE  m \in AtLevel(k)' <=> m \in AtLevel(k)
    BY <1>6, <1>7 DEF AtLevel
  <2>1. m \in AtLevel(k) <=> link[m][k] # Uninitialised
    BY DEF AtLevel
  <2>2. m \in AtLevel(k)' <=> link'[m][k] # Uninitialised /\ ~(m = n /\ k = l)
    BY <1>5, <1>6, <1>7 DEF AtLevel
  <2>3. CASE m # n
    BY <2>1, <2>2, <2>3, <1>6, <1>7
  <2>4. CASE m = n /\ k # l
    BY <2>1, <2>2, <2>4, <1>6
  <2>5. CASE m = n /\ k = l
    <3>1. Unset(m, k)
      BY <2>5, <1>0, <1>1 DEF Unset
    <3>2. link[m][k] = Uninitialised
      BY <3>1, <1>0 DEF NodesOK
    <3> QED
      BY <3>2, <2>1, <2>2, <2>5
  <2> QED
    BY <2>3, <2>4, <2>5
<1>13. ListsOK'
  <2>1. ASSUME NEW k \in ListLevels, NEW m \in AtLevel(k) \cup {HeadNode}
        PROVE  Follows(AtLevel(k), m, link'[m][k])
    <3>1. Follows(AtLevel(k), m, link[m][k])
      BY <1>0 DEF ListsOK
    <3>2. link'[m][k] = link[m][k]
      <4>1. CASE m # n
        BY <4>1, <1>0, <1>6, <1>7 DEF AtLevel, NodesOK
      <4>2. CASE m = n
        <5>1. k # l
          BY <4>2, <1>2 DEF Gap
        <5>2. k \in DOMAIN link[n]
          BY <4>2, <1>2 DEF AtLevel
        <5> QED
          BY <5>1, <5>2, <4>2, <1>6
      <4> QED
        BY <4>1, <4>2
    <3> QED
      BY <3>1, <3>2
  <2>2. Follows(AtLevel(l), n, s)
    BY <1>2, <1>3, OwnFollows
  <2>3. link'[n][l] = s
    BY <1>2, <1>6
  <2>4. Follows(AtLevel(inserter.level)', inserter'.node, link'[inserter'.node][inserter'.level])
    BY <2>2, <2>3, <1>1, <1>5, <1>12
  <2>5. AtLevel(inserter.level)' = AtLevel(l)
    <3>1. inserter'.level = l
      BY <1>5
    <3> QED
      BY <3>1, <1>12
  <2> QED
    BY <2>1, <2>2, <2>3, <2>5, <1>5, <1>12 DEF ListsOK
<1>14. WalkOK'
  <2>1. \A k : AtLevel(k) \subseteq AtLevel(k)'
    BY <1>12
  <2> QED
    BY <2>1, <1>0, <1>4, <1>7, WriterKeepsWalk DEF InserterOK
<1> QED
  BY <1>10, <1>11, <1>13, <1>14 DEF MemInv

\* The second, SetNext: the node is on the level from here on.
LEMMA InsertPublishKeeps ==
  ASSUME MemInv, InsertLink, inserter.pc = "publish"
  PROVE  MemInv'
<1>0. Inserting /\ NodesOK /\ ListsOK /\ WalkOK /\ InserterOK
  BY DEF Inserting, MemInv
<1>1. PICK n, l, p : n = inserter.node /\ l = inserter.level /\ p = PrevNode(n, l)
  OBVIOUS
<1>2. /\ n \in Nodes /\ l \in ListLevels /\ l \in Nat /\ l \in DOMAIN link[n]
      /\ n \in DOMAIN link /\ n # HeadNode
      /\ Gap(Nodes, AtLevel(l), p, n)
      /\ p \in DOMAIN link /\ p # n /\ l \in DOMAIN link[p]
      /\ Follows(AtLevel(l), p, link[p][l])
  BY <1>0, <1>1, InsertPlace
<1>3. PICK pc : pc = IF inserter.level + 1 = inserter.height THEN "iterate" ELSE "own"
  OBVIOUS
<1>4. /\ link' = [link EXCEPT ![p][l] = n]
      /\ inserter' = [inserter EXCEPT !.level = @ + 1, !.pc = pc]
      /\ batch' = batch /\ published' = published /\ walker' = walker /\ status' = status
  BY <1>1, <1>3 DEF InsertLink, Store, Publish
<1>5. /\ DOMAIN inserter' = InserterFields /\ inserter'.pc = pc
      /\ inserter'.node = n /\ inserter'.level = l + 1
      /\ inserter'.height = inserter.height /\ inserter'.rest = inserter.rest
      /\ inserter'.found = inserter.found /\ inserter'.seq = inserter.seq
  BY <1>0, <1>1, <1>4 DEF InserterOK, InserterFields
<1>6. /\ DOMAIN link' = DOMAIN link /\ \A m \in DOMAIN link : DOMAIN link'[m] = DOMAIN link[m]
      /\ \A m \in DOMAIN link \ {p} : link'[m] = link[m]
      /\ \A k \in DOMAIN link[p] : link'[p][k] = IF k = l THEN n ELSE link[p][k]
  BY <1>2, <1>4
<1>7. Nodes' = Nodes /\ Nodes \subseteq DOMAIN link
  BY <1>6 DEF Nodes
<1>8. n # Uninitialised
  BY <1>0, <1>2, LevelFacts, NodeOrder
<1>9. pc \in {"iterate", "own"} /\ (pc = "own" <=> l + 1 # inserter.height)
  BY <1>1, <1>3
<1>10. InserterOK'
  BY <1>0, <1>4, <1>5, <1>9 DEF InserterOK
<1>11. /\ inserter.height \in 1..MaxHeight /\ l \in 0..(inserter.height - 1)
       /\ DOMAIN link[n] = 0..(inserter.height - 1)
       /\ n.seq = inserter.seq - 1 /\ inserter.found # 0
  BY <1>0, <1>1 DEF NodesOK
<1>12. NodesOK'
  <2>1. LastInserted' = LastInserted
    BY <1>0, <1>5, <1>9 DEF LastInserted
  <2>2. ASSUME NEW m \in Nodes, NEW k \in DOMAIN link'[m]
        PROVE  link'[m][k] = Uninitialised <=> Unset(m, k)'
    <3>1. k \in DOMAIN link[m] /\ k \in Nat
      BY <1>0, <1>6, <1>7, MemTableAssumption DEF NodesOK, ListLevels
    <3>2. link[m][k] = Uninitialised <=> Unset(m, k)
      BY <1>0, <3>1 DEF NodesOK
    <3>3. Unset(m, k) <=> m = n /\ k > l
      BY <1>0, <1>1 DEF Unset
    <3>4. Unset(m, k)' <=> m = n /\ k > l
      <4>1. CASE pc = "own"
        <5>1. Unset(m, k)' <=> m = n /\ (k > l + 1 \/ k = l + 1)
          BY <4>1, <1>5 DEF Unset, Inserting
        <5> QED
          BY <5>1, <3>1, <1>2
      <4>2. CASE pc = "iterate"
        <5>1. ~Unset(m, k)'
          BY <4>2, <1>5 DEF Unset, Inserting
        <5>2. m = n => k <= l
          BY <4>2, <3>1, <1>2, <1>9, <1>11
        <5> QED
          BY <5>1, <5>2, <3>1, <1>2
      <4> QED
        BY <4>1, <4>2, <1>9
    <3>5. CASE m # p \/ k # l
      BY <3>1, <3>2, <3>3, <3>4, <3>5, <1>6, <1>7
    <3>6. CASE m = p /\ k = l
      BY <3>1, <3>4, <3>6, <1>2, <1>6, <1>8
    <3> QED
      BY <3>5, <3>6
  <2>3. Inserting' =>
        /\ inserter'.node \in Nodes' /\ inserter'.node.seq = inserter'.seq - 1
        /\ inserter'.found # 0
        /\ inserter'.height \in 1..MaxHeight /\ inserter'.level \in 0..(inserter'.height - 1)
        /\ DOMAIN link'[inserter'.node] = 0..(inserter'.height - 1)
    <3> SUFFICES ASSUME Inserting'
                 PROVE  /\ n \in Nodes /\ n.seq = inserter.seq - 1 /\ inserter.found # 0
                        /\ inserter.height \in 1..MaxHeight /\ l + 1 \in 0..(inserter.height - 1)
                        /\ DOMAIN link'[n] = 0..(inserter.height - 1)
      BY <1>5, <1>7
    <3>1. l + 1 # inserter.height
      BY <1>5, <1>9 DEF Inserting
    <3>2. l + 1 \in 0..(inserter.height - 1)
      BY <3>1, <1>11, MemTableAssumption
    <3> QED
      BY <3>2, <1>2, <1>6, <1>11
  <2> QED
    BY <2>1, <2>2, <2>3, <1>0, <1>6, <1>7 DEF NodesOK
<1>13. \A k : AtLevel(k)' = IF k = l THEN AtLevel(l) \cup {n} ELSE AtLevel(k)
  <2>1. ASSUME NEW k, NEW m \in Nodes, k \in DOMAIN link[m]
        PROVE  m \in AtLevel(k)' <=> m \in AtLevel(k) \/ (m = n /\ k = l)
    <3>1. m \in AtLevel(k) <=> link[m][k] # Uninitialised /\ ~(m = n /\ k = l)
      BY <2>1, <1>1 DEF AtLevel
    <3>2. m \in AtLevel(k)' <=> link'[m][k] # Uninitialised
      BY <2>1, <1>5, <1>6, <1>7, <1>9 DEF AtLevel
    <3>3. CASE m = n /\ k = l
      <4>1. ~Unset(m, k)
        BY <3>3, <1>0, <1>1, <1>2 DEF Unset
      <4>2. link[m][k] # Uninitialised
        BY <4>1, <2>1, <1>0 DEF NodesOK
      <4> QED
        BY <4>2, <3>2, <3>3, <1>2, <1>6
    <3>4. CASE ~(m = n /\ k = l)
      <4>1. CASE m = p /\ k = l
        <5>1. p \in AtLevel(l)
          BY <4>1, <2>1, <1>2 DEF Gap, Nodes
        <5>2. link'[m][k] = n
          BY <4>1, <1>2, <1>6
        <5> QED
          BY <4>1, <5>1, <5>2, <3>2, <1>8
      <4>2. CASE ~(m = p /\ k = l)
        <5>1. link'[m][k] = link[m][k]
          BY <4>2, <2>1, <1>6, <1>7
        <5> QED
          BY <5>1, <3>1, <3>2, <3>4
      <4> QED
        BY <4>1, <4>2
    <3> QED
      BY <3>3, <3>4
  <2>2. ASSUME NEW k, NEW m
        PROVE  /\ m \in AtLevel(k) => m \in Nodes /\ k \in DOMAIN link[m]
               /\ m \in AtLevel(k)' => m \in Nodes /\ k \in DOMAIN link[m]
    BY <1>6, <1>7 DEF AtLevel
  <2>3. ASSUME NEW k, NEW m PROVE m \in AtLevel(k)' <=> m \in AtLevel(k) \/ (m = n /\ k = l)
    BY <2>1, <2>2, <1>2
  <2>4. ASSUME NEW k PROVE AtLevel(k)' = IF k = l THEN AtLevel(l) \cup {n} ELSE AtLevel(k)
    <3>1. CASE k = l
      BY <2>3, <3>1
    <3>2. CASE k # l
      BY <2>3, <3>2
    <3> QED
      BY <3>1, <3>2
  <2> QED
    BY <2>4
<1>14. ListsOK'
  <2>1. ASSUME NEW k \in ListLevels, k # l, NEW m \in AtLevel(k) \cup {HeadNode}
        PROVE  Follows(AtLevel(k), m, link'[m][k])
    <3>1. Follows(AtLevel(k), m, link[m][k])
      BY <1>0 DEF ListsOK
    <3>2. m \in DOMAIN link /\ k \in DOMAIN link[m]
      BY <1>0 DEF AtLevel, Nodes, NodesOK
    <3>3. link'[m][k] = link[m][k]
      BY <3>2, <2>1, <1>6
    <3> QED
      BY <3>1, <3>3
  <2> DEFINE A == AtLevel(l)
             t == link[n][l]
  <2>2. Follows(A, n, t)
    BY <1>0, <1>1 DEF ListsOK
  <2>3. /\ Follows(A \cup {n}, n, t) /\ Follows(A \cup {n}, p, n)
        /\ \A y \in (A \cup {HeadNode}) \ {p} : \A s : Follows(A, y, s) => Follows(A \cup {n}, y, s)
    <3> HIDE DEF A, t
    <3>1. Gap(Nodes, A, p, n)
      BY <1>2 DEF A
    <3> QED
      BY <3>1, <2>2, PublishFollows
  <2>4. ASSUME NEW m \in A \cup {n} \cup {HeadNode}
        PROVE  Follows(A \cup {n}, m, link'[m][l])
    <3>1. CASE m = n
      BY <3>1, <2>3, <1>2, <1>6
    <3>2. CASE m = p
      BY <3>2, <2>3, <1>2, <1>6
    <3>3. CASE m # n /\ m # p
      <4>1. m \in (A \cup {HeadNode}) \ {p}
        BY <3>3
      <4>2. Follows(A, m, link[m][l])
        BY <4>1, <1>0, <1>2 DEF ListsOK
      <4>3. link'[m][l] = link[m][l]
        BY <3>3, <4>1, <1>0, <1>6 DEF AtLevel, Nodes, NodesOK
      <4> HIDE DEF A
      <4> QED
        BY <4>1, <4>2, <4>3, <2>3
    <3> QED
      BY <3>1, <3>2, <3>3
  <2>5. inserter'.pc # "publish"
    BY <1>5, <1>9
  <2>6. ASSUME NEW k \in ListLevels, NEW m \in AtLevel(k)' \cup {HeadNode}
        PROVE  Follows(AtLevel(k)', m, link'[m][k])
    <3>1. CASE k = l
      BY <3>1, <2>4, <1>13
    <3>2. CASE k # l
      BY <3>2, <2>1, <1>13
    <3> QED
      BY <3>1, <3>2
  <2> QED
    BY <2>5, <2>6 DEF ListsOK
<1>15. WalkOK'
  <2>1. \A k : AtLevel(k) \subseteq AtLevel(k)'
    BY <1>13
  <2> QED
    BY <2>1, <1>0, <1>4, <1>7, WriterKeepsWalk DEF InserterOK
<1> QED
  BY <1>10, <1>12, <1>14, <1>15 DEF MemInv

-----------------------------------------------------------------------------
\* max_height_ stays within the levels of the list.
HeightOK == maxHeight \in 1..MaxHeight

\* A step of the reader changes nothing that the writer uses.
LEMMA ReaderKeepsLists ==
  ASSUME MemInv, batch' = batch, inserter' = inserter, link' = link, published' = published,
         status' = status, WalkOK'
  PROVE  MemInv'
<1>1. InserterOK' /\ NodesOK' /\ ListsOK'
  <2>1. \A l : AtLevel(l)' = AtLevel(l)
    BY DEF AtLevel, Nodes
  <2>2. Nodes' = Nodes /\ Inserting' = Inserting /\ LastInserted' = LastInserted
    BY DEF Nodes, Inserting, LastInserted
  <2>3. InserterOK'
    BY DEF MemInv, InserterOK
  <2>4. NodesOK'
    BY <2>2 DEF MemInv, NodesOK, Unset
  <2>5. ListsOK'
    BY <2>1 DEF MemInv, ListsOK
  <2> QED
    BY <2>3, <2>4, <2>5
<1> QED
  BY <1>1 DEF MemInv

\* The nodes of the bottom list: all, but for the one being inserted, whose
\* sequence number is above what is published.
LEMMA PublishedAreLinked ==
  ASSUME MemInv
  PROVE  \A n \in Nodes : n.seq <= published => n \in AtLevel(0)
<1> SUFFICES ASSUME NEW n \in Nodes, n.seq <= published PROVE n \in AtLevel(0)
  OBVIOUS
<1>1. NodesOK /\ InserterOK
  BY DEF MemInv
<1>2. 0 \in DOMAIN link[n]
  BY <1>1 DEF NodesOK
<1>3. Inserting => n # inserter.node
  <2> SUFFICES ASSUME Inserting, n = inserter.node PROVE FALSE
    OBVIOUS
  <2>1. n.seq = inserter.seq - 1 /\ inserter.found # 0
    BY <1>1 DEF NodesOK
  <2>2. inserter.seq = published + 1 + inserter.found /\ inserter.found \in 0..Len(inserter.rest.records)
        /\ published \in Nat
    BY <1>1 DEF InserterOK, Inserting
  <2>3. BatchOK(inserter.rest)
    BY <1>1 DEF InserterOK, Inserting
  <2>4. Len(inserter.rest.records) \in Nat
    BY <2>3 DEF BatchOK
  <2> QED
    BY <2>1, <2>2, <2>4
<1> QED
  BY <1>1, <1>2, <1>3, LevelHolds

\* A search starts at the head, on a level that max_height_ once named.
LEMMA StartWalkKeeps ==
  ASSUME MemInv, HeightOK, walker.pc = "idle", NEW op, NEW target, NEW snapshot, StartWalk(op, target, snapshot),
         op \in {"get", "seek", "prev", "last"},
         op # "last" => target.key \in Nat /\ target.seq \in Nat /\ target.type = "entry",
         op = "get" => snapshot = target.seq /\ snapshot = published
  PROVE  MemInv'
<1>1. NodesOK /\ InserterOK /\ WalkOK
  BY DEF MemInv
<1>2. PICK h \in 1..maxHeight :
        /\ h = 1 \/ \E n \in DOMAIN link \ {HeadNode} : DOMAIN link[n] = 0..(h - 1)
        /\ walker' = [walker EXCEPT !.pc = "walk", !.op = op, !.target = target, !.x = HeadNode,
                                    !.level = h - 1, !.start = Linked, !.snapshot = snapshot]
        /\ UNCHANGED <<batch, inserter, link, maxHeight, published, status>>
  BY DEF StartWalk
<1>3. h - 1 \in ListLevels
  BY MemTableAssumption DEF HeightOK, ListLevels
<1>4. /\ DOMAIN walker' = WalkerFields /\ walker'.pc = "walk" /\ walker'.op = op /\ walker'.target = target
      /\ walker'.x = HeadNode /\ walker'.level = h - 1 /\ walker'.start = AtLevel(0)
      /\ walker'.snapshot = snapshot /\ walker'.node = walker.node
  BY <1>1, <1>2 DEF WalkOK, WalkerFields, Linked
<1>5. \A l : AtLevel(l)' = AtLevel(l)
  BY <1>2 DEF AtLevel, Nodes
<1>6. Nodes' = Nodes
  BY <1>2 DEF Nodes
<1>7. HeadNode # Uninitialised
  BY DEF HeadNode, Uninitialised
<1>8. op = "get" => \A n \in Nodes : n.seq <= snapshot => n \in AtLevel(0)
  BY PublishedAreLinked
<1>9. WalkOK'
  <2>1. /\ walker'.pc \in {"idle", "walk", "done"}
        /\ walker'.node \in AtLevel(0)' \cup {NULL} /\ walker'.x # Uninitialised
        /\ walker'.start \subseteq AtLevel(0)'
    BY <1>1, <1>4, <1>5, <1>7 DEF WalkOK
  <2>2. /\ walker'.op \in {"get", "seek", "prev", "last"}
        /\ walker'.level \in ListLevels /\ walker'.x \in AtLevel(walker.level)' \cup {HeadNode}
        /\ walker'.op # "last" => /\ walker'.target.key \in Nat /\ walker'.target.seq \in Nat
                                  /\ walker'.target.type = "entry"
                                  /\ Precedes(walker.x, walker.target)'
    BY <1>3, <1>4 DEF Precedes
  <2>3. walker'.op = "get" =>
          /\ walker'.snapshot = walker'.target.seq /\ walker'.snapshot <= published'
          /\ \A n \in Nodes' : n.seq <= walker'.snapshot => n \in walker'.start
    <3> SUFFICES ASSUME op = "get" PROVE snapshot = target.seq /\ snapshot <= published
                                         /\ \A n \in Nodes : n.seq <= snapshot => n \in AtLevel(0)
      BY <1>2, <1>4, <1>6
    <3>1. published \in Nat
      BY <1>1 DEF InserterOK
    <3> QED
      BY <1>8, <3>1
  <2>4. GetSeesItsSnapshot' /\ MovesSkipNothing'
    BY <1>4 DEF GetSeesItsSnapshot, MovesSkipNothing
  <2> QED
    BY <2>1, <2>2, <2>3, <2>4, <1>4 DEF WalkOK
<1> QED
  BY <1>2, <1>9, ReaderKeepsLists

\* The operations that search.
LEMMA StartsKeep ==
  ASSUME MemInv, HeightOK, MemGet \/ IterSeek \/ IterSeekToLast \/ IterPrev
  PROVE  MemInv'
<1>1. NodesOK /\ InserterOK /\ WalkOK
  BY DEF MemInv
<1>2. published \in Nat
  BY <1>1 DEF InserterOK
<1>3. ASSUME NEW k \in UserKeys
      PROVE  LookupKey(k).key \in Nat /\ LookupKey(k).seq \in Nat /\ LookupKey(k).type = "entry"
             /\ LookupKey(k).seq = published
  BY <1>2, MemTableAssumption DEF LookupKey, Target, MemEntry
<1>4. CASE MemGet
  <2>1. PICK k \in UserKeys : walker.pc = "idle" /\ StartWalk("get", LookupKey(k), published)
    BY <1>4 DEF MemGet
  <2> QED
    BY <2>1, <1>3, StartWalkKeeps
<1>5. CASE IterSeek
  <2>1. PICK k \in UserKeys : walker.pc = "idle" /\ StartWalk("seek", LookupKey(k), published)
    BY <1>5 DEF IterSeek
  <2> QED
    BY <2>1, <1>3, StartWalkKeeps
<1>6. CASE IterSeekToLast
  <2>1. walker.pc = "idle" /\ StartWalk("last", NULL, published)
    BY <1>6 DEF IterSeekToLast
  <2> QED
    BY <2>1, StartWalkKeeps
<1>7. CASE IterPrev
  <2>1. walker.pc = "idle" /\ StartWalk("prev", walker.node, published) /\ walker.node # NULL
    BY <1>7 DEF IterPrev
  <2>2. walker.node \in MemEntries
    BY <2>1, <1>1, LevelFacts DEF WalkOK
  <2>3. walker.node.key \in Nat /\ walker.node.seq \in Nat /\ walker.node.type = "entry"
    BY <2>2, MemTableAssumption DEF MemEntries
  <2> QED
    BY <2>1, <2>3, StartWalkKeeps
<1> QED
  BY <1>4, <1>5, <1>6, <1>7

\* Next and SeekToFirst: one load of a link of the bottom list.
LEMMA IterFollowKeeps ==
  ASSUME MemInv, IterFollow
  PROVE  MemInv'
<1>1. NodesOK /\ ListsOK /\ WalkOK
  BY DEF MemInv
<1>2. PICK from \in {HeadNode, walker.node} \ {NULL} :
        walker' = [NoWalk EXCEPT !.pc = "done", !.op = "next", !.target = from, !.node = link[from][0],
                                 !.start = Linked]
  BY DEF IterFollow
<1>3. batch' = batch /\ inserter' = inserter /\ link' = link /\ published' = published /\ status' = status
  BY DEF IterFollow
<1>4. PICK s : s = link[from][0]
  OBVIOUS
<1>5. /\ DOMAIN walker' = WalkerFields /\ walker'.pc = "done" /\ walker'.op = "next"
      /\ walker'.target = from /\ walker'.node = s /\ walker'.start = AtLevel(0) /\ walker'.x = NULL
  BY <1>2, <1>4 DEF NoWalk, WalkerFields, Linked
<1>6. AtLevel(0)' = AtLevel(0) /\ Nodes' = Nodes
  BY <1>3 DEF AtLevel, Nodes
<1>7. 0 \in ListLevels
  BY MemTableAssumption DEF ListLevels
<1>8. from \in AtLevel(0) \cup {HeadNode}
  BY <1>1, <1>2 DEF WalkOK
<1>9. Follows(AtLevel(0), from, s)
  BY <1>1, <1>4, <1>7, <1>8 DEF ListsOK
<1>10. s \in AtLevel(0) \cup {NULL}
  BY <1>1, <1>9, FollowerIs
<1>11. NULL # Uninitialised
  BY DEF NULL, Uninitialised
<1>12. MovesSkipNothing'
  <2>1. s \in Nodes \cup {NULL}
    BY <1>1, <1>10, LevelFacts
  <2>2. ASSUME NEW n \in AtLevel(0), from # HeadNode => KeyBefore(from, n), s # NULL => KeyBefore(n, s)
        PROVE  FALSE
    <3>1. Precedes(from, n)
      BY <2>2 DEF Precedes
    <3>2. s \in AtLevel(0) /\ (n = s \/ KeyBefore(s, n)) /\ s # NULL
      BY <3>1, <1>1, <1>9, LevelFacts, NodeOrder DEF Follows
    <3> QED
      BY <3>2, <2>2, <1>1, LevelFacts, NodeOrder
  <2> QED
    BY <2>1, <2>2, <1>5, <1>6 DEF MovesSkipNothing
<1>13. GetSeesItsSnapshot'
  BY <1>5 DEF GetSeesItsSnapshot
<1>14. WalkOK'
  BY <1>5, <1>6, <1>10, <1>11, <1>12, <1>13 DEF WalkOK
<1> QED
  BY <1>3, <1>14, ReaderKeepsLists

\* The caller has its answer.
LEMMA WalkDoneKeeps ==
  ASSUME MemInv, WalkDone
  PROVE  MemInv'
<1>1. WalkOK
  BY DEF MemInv
<1>2. walker' = [NoWalk EXCEPT !.node = IF walker.op = "get" THEN NULL ELSE walker.node]
  BY DEF WalkDone
<1>3. batch' = batch /\ inserter' = inserter /\ link' = link /\ published' = published /\ status' = status
  BY DEF WalkDone
<1>4. /\ DOMAIN walker' = WalkerFields /\ walker'.pc = "idle" /\ walker'.start = {} /\ walker'.x = NULL
      /\ walker'.node = IF walker.op = "get" THEN NULL ELSE walker.node
  BY <1>2 DEF NoWalk, WalkerFields
<1>5. AtLevel(0)' = AtLevel(0)
  BY <1>3 DEF AtLevel, Nodes
<1>6. NULL # Uninitialised
  BY DEF NULL, Uninitialised
<1>7. GetSeesItsSnapshot' /\ MovesSkipNothing'
  BY <1>4 DEF GetSeesItsSnapshot, MovesSkipNothing
<1>8. WalkOK'
  BY <1>1, <1>4, <1>5, <1>6, <1>7 DEF WalkOK
<1> QED
  BY <1>3, <1>8, ReaderKeepsLists

\* The search ends between x and next on the bottom list: what lies between
\* the target and next, or between x and the target, is nothing.
LEMMA SearchEnds ==
  ASSUME NodesOK, NEW x \in AtLevel(0) \cup {HeadNode}, NEW next, Follows(AtLevel(0), x, next),
         NEW t, t.key \in Nat, t.seq \in Nat, Precedes(x, t), next # NULL => ~KeyBefore(next, t)
  PROVE  /\ \A n \in AtLevel(0) : KeyBefore(t, n) => next # NULL /\ ~KeyBefore(n, next)
         /\ \A n \in AtLevel(0) : KeyBefore(n, t) => ~Precedes(x, n)
         /\ \A n \in AtLevel(0) : n.key = t.key /\ n.seq <= t.seq =>
              next \in AtLevel(0) /\ next.key = t.key /\ next.seq <= t.seq /\ n.seq <= next.seq
<1> DEFINE A == AtLevel(0)
<1>1. \A n \in A : n \in Nodes
  BY LevelFacts
<1>2. \A n \in A : n.key \in Nat /\ n.seq \in Nat /\ n # NULL /\ n # HeadNode
  BY <1>1, LevelFacts, NodeOrder
<1> HIDE DEF A
<1>3. x \in A \cup {HeadNode} /\ Follows(A, x, next)
  BY DEF A
<1>4. ASSUME NEW n \in A, Precedes(x, n) PROVE next \in A /\ (n = next \/ KeyBefore(next, n))
  BY <1>3, <1>4 DEF Follows
<1>5. ASSUME NEW n \in A, KeyBefore(t, n) PROVE next # NULL /\ ~KeyBefore(n, next)
  <2>1. Precedes(x, n)
    BY <1>2, <1>3, <1>5 DEF Precedes, KeyBefore
  <2>2. next \in A /\ (n = next \/ KeyBefore(next, n))
    BY <2>1, <1>4
  <2> QED
    BY <2>2, <1>2 DEF KeyBefore
<1>6. ASSUME NEW n \in A, KeyBefore(n, t), Precedes(x, n) PROVE FALSE
  <2>1. next \in A /\ (n = next \/ KeyBefore(next, n))
    BY <1>6, <1>4
  <2>2. ~KeyBefore(next, t)
    BY <2>1, <1>2
  <2> QED
    BY <2>1, <2>2, <1>2, <1>6 DEF KeyBefore
<1>7. ASSUME NEW n \in A, n.key = t.key, n.seq <= t.seq
      PROVE  next \in A /\ next.key = t.key /\ next.seq <= t.seq /\ n.seq <= next.seq
  <2>1. Precedes(x, n)
    BY <1>2, <1>3, <1>7 DEF Precedes, KeyBefore
  <2>2. next \in A /\ (n = next \/ KeyBefore(next, n))
    BY <2>1, <1>4
  <2>3. ~KeyBefore(next, t)
    BY <2>2, <1>2
  <2> QED
    BY <2>2, <2>3, <1>2, <1>7 DEF KeyBefore
<1> QED
  BY <1>5, <1>6, <1>7 DEF A

\* A load of a link: on along the level, down, or the end of the search.
LEMMA WalkStepKeeps ==
  ASSUME MemInv, WalkStep
  PROVE  MemInv'
<1>1. NodesOK /\ ListsOK /\ WalkOK /\ walker.pc = "walk"
  BY DEF MemInv, WalkStep
<1>2. PICK x, l, next, t : x = walker.x /\ l = walker.level /\ next = link[x][l] /\ t = walker.target
  OBVIOUS
<1>3. PICK found : found = IF walker.op \in {"get", "seek"} THEN next ELSE IF x = HeadNode THEN NULL ELSE x
  OBVIOUS
<1>4. batch' = batch /\ inserter' = inserter /\ link' = link /\ published' = published /\ status' = status
  BY DEF WalkStep
<1>5. \/ GoesOn(next) /\ walker' = [walker EXCEPT !.x = next]
      \/ ~GoesOn(next) /\ l > 0 /\ walker' = [walker EXCEPT !.level = @ - 1]
      \/ ~GoesOn(next) /\ ~(l > 0) /\ walker' = [walker EXCEPT !.pc = "done", !.node = found]
  BY <1>2, <1>3 DEF WalkStep
<1>6. /\ DOMAIN walker = WalkerFields
      /\ walker.node \in AtLevel(0) \cup {NULL} /\ x # Uninitialised
      /\ walker.start \subseteq AtLevel(0)
      /\ walker.op \in {"get", "seek", "prev", "last"}
      /\ l \in ListLevels /\ x \in AtLevel(l) \cup {HeadNode}
      /\ walker.op # "last" => t.key \in Nat /\ t.seq \in Nat /\ t.type = "entry" /\ Precedes(x, t)
      /\ walker.op = "get" => /\ walker.snapshot = t.seq /\ walker.snapshot <= published
                              /\ \A n \in Nodes : n.seq <= walker.snapshot => n \in walker.start
  BY <1>1, <1>2 DEF WalkOK
<1>7. \A k : AtLevel(k)' = AtLevel(k)
  BY <1>4 DEF AtLevel, Nodes
<1>8. Nodes' = Nodes
  BY <1>4 DEF Nodes
<1>9. Follows(AtLevel(l), x, next)
  BY <1>1, <1>2, <1>6 DEF ListsOK
<1>10. next \in AtLevel(l) \cup {NULL} /\ next # Uninitialised
  BY <1>1, <1>9, FollowerIs
<1>11. CASE GoesOn(next) /\ walker' = [walker EXCEPT !.x = next]
  <2>1. /\ DOMAIN walker' = WalkerFields /\ walker'.pc = "walk" /\ walker'.x = next /\ walker'.level = l
        /\ walker'.op = walker.op /\ walker'.target = t /\ walker'.node = walker.node
        /\ walker'.start = walker.start /\ walker'.snapshot = walker.snapshot
    BY <1>1, <1>2, <1>6, <1>11 DEF WalkerFields
  <2>2. next # NULL /\ (walker.op # "last" => KeyBefore(next, t))
    BY <1>2, <1>11 DEF GoesOn, KeyIsAfterNode
  <2>3. walker.op # "last" => Precedes(next, t)
    BY <2>2 DEF Precedes
  <2>4. GetSeesItsSnapshot' /\ MovesSkipNothing'
    BY <2>1 DEF GetSeesItsSnapshot, MovesSkipNothing
  <2>5. AtLevel(walker.level)' = AtLevel(l)
    BY <2>1, <1>7
  <2>6. WalkOK'
    BY <2>1, <2>2, <2>3, <2>4, <2>5, <1>4, <1>6, <1>7, <1>8, <1>10 DEF WalkOK
  <2> QED
    BY <2>6, <1>4, ReaderKeepsLists
<1>12. CASE ~GoesOn(next) /\ l > 0 /\ walker' = [walker EXCEPT !.level = @ - 1]
  <2>1. /\ DOMAIN walker' = WalkerFields /\ walker'.pc = "walk" /\ walker'.x = x /\ walker'.level = l - 1
        /\ walker'.op = walker.op /\ walker'.target = t /\ walker'.node = walker.node
        /\ walker'.start = walker.start /\ walker'.snapshot = walker.snapshot
    BY <1>1, <1>2, <1>6, <1>12 DEF WalkerFields
  <2>2. l - 1 \in ListLevels /\ x \in AtLevel(l - 1) \cup {HeadNode}
    BY <1>1, <1>6, <1>12, LevelFacts
  <2>3. GetSeesItsSnapshot' /\ MovesSkipNothing'
    BY <2>1 DEF GetSeesItsSnapshot, MovesSkipNothing
  <2>4. AtLevel(walker.level)' = AtLevel(l - 1)
    BY <2>1, <1>7
  <2>5. WalkOK'
    BY <2>1, <2>2, <2>3, <2>4, <1>4, <1>6, <1>7, <1>8 DEF WalkOK
  <2> QED
    BY <2>5, <1>4, ReaderKeepsLists
<1>13. CASE ~GoesOn(next) /\ ~(l > 0) /\ walker' = [walker EXCEPT !.pc = "done", !.node = found]
  <2>1. /\ DOMAIN walker' = WalkerFields /\ walker'.pc = "done" /\ walker'.x = x
        /\ walker'.op = walker.op /\ walker'.target = t /\ walker'.node = found
        /\ walker'.start = walker.start /\ walker'.snapshot = walker.snapshot
    BY <1>1, <1>2, <1>6, <1>13 DEF WalkerFields
  <2>2. l = 0
    BY <1>6, <1>13, MemTableAssumption DEF ListLevels
  <2>3. x \in AtLevel(0) \cup {HeadNode} /\ next \in AtLevel(0) \cup {NULL} /\ Follows(AtLevel(0), x, next)
    BY <2>2, <1>6, <1>9, <1>10
  <2>4. found \in AtLevel(0) \cup {NULL}
    BY <2>3, <1>3
  <2>5. walker.op = "last" => next = NULL
    BY <1>13 DEF GoesOn
  <2>6. walker.op # "last" => (next # NULL => ~KeyBefore(next, t))
    BY <1>2, <1>6, <1>13 DEF GoesOn, KeyIsAfterNode
  <2>7. walker.op # "last" =>
          /\ \A n \in AtLevel(0) : KeyBefore(t, n) => next # NULL /\ ~KeyBefore(n, next)
          /\ \A n \in AtLevel(0) : KeyBefore(n, t) => ~Precedes(x, n)
          /\ \A n \in AtLevel(0) : n.key = t.key /\ n.seq <= t.seq =>
               next \in AtLevel(0) /\ next.key = t.key /\ next.seq <= t.seq /\ n.seq <= next.seq
    BY <2>3, <2>6, <1>1, <1>6, SearchEnds
  <2>8. \A n \in Nodes : n # NULL /\ n # HeadNode /\ n.key \in Nat /\ n.seq \in Nat
    BY <1>1, LevelFacts, NodeOrder
  <2>9. AtLevel(0) \subseteq Nodes
    BY <1>1, LevelFacts
  <2>10. walker.op # "last" => t # HeadNode /\ t # NULL
    <3>1. HeadNode.type # "entry" /\ NULL.type # "entry"
      BY DEF HeadNode, NULL
    <3> QED
      BY <3>1, <1>6
  <2>11. HeadNode # NULL
    BY DEF HeadNode, NULL
  <2>12. MovesSkipNothing'
    <3>1. found \in Nodes \cup {NULL}
      BY <2>4, <2>9
    <3>2. ASSUME walker.op = "seek", NEW n \in walker.start, t # HeadNode => KeyBefore(t, n),
                 found # NULL => KeyBefore(n, found)
          PROVE  FALSE
      BY <3>2, <2>7, <2>10, <1>3, <1>6
    <3>3. ASSUME walker.op \in {"prev", "last"}
          PROVE  (IF found = NULL THEN HeadNode ELSE found) = x
      BY <3>3, <2>3, <2>8, <2>9, <2>11, <1>3
    <3>4. ASSUME walker.op = "prev", NEW n \in walker.start, x # HeadNode => KeyBefore(x, n),
                 t # NULL => KeyBefore(n, t)
          PROVE  FALSE
      BY <3>4, <2>7, <2>10, <1>6 DEF Precedes
    <3>5. ASSUME walker.op = "last", NEW n \in walker.start, x # HeadNode => KeyBefore(x, n)
          PROVE  FALSE
      <4>1. Precedes(x, n) /\ n \in AtLevel(0)
        BY <3>5, <1>6 DEF Precedes
      <4>2. next \notin AtLevel(0)
        BY <3>5, <2>5, <2>8, <2>9
      <4> QED
        BY <4>1, <4>2, <2>3 DEF Follows
    <3>6. walker.op # "next"
      BY <1>6
    <3> QED
      BY <3>1, <3>2, <3>3, <3>4, <3>5, <3>6, <2>1, <1>8 DEF MovesSkipNothing
  <2>13. GetSeesItsSnapshot'
    <3> SUFFICES ASSUME walker.op = "get"
                 PROVE  LET S == {n \in walker.start : n.key = t.key /\ n.seq <= walker.snapshot}
                        IN (IF found # NULL /\ found.key = t.key THEN found ELSE NULL)
                             = IF S = {} THEN NULL ELSE CHOOSE n \in S : \A m \in S : m.seq <= n.seq
      BY <2>1 DEF GetSeesItsSnapshot, GetAnswer
    <3> DEFINE S == {n \in walker.start : n.key = t.key /\ n.seq <= walker.snapshot}
    <3>1. found = next /\ walker.snapshot = t.seq
      BY <1>3, <1>6
    <3>2. ASSUME NEW n \in S
          PROVE  next \in S /\ n.seq <= next.seq
      <4>1. n \in AtLevel(0) /\ n.key = t.key /\ n.seq <= t.seq
        BY <3>1, <1>6
      <4>2. next \in AtLevel(0) /\ next.key = t.key /\ next.seq <= t.seq /\ n.seq <= next.seq
        BY <4>1, <2>7
      <4>3. next \in walker.start
        BY <4>2, <3>1, <2>9, <1>6
      <4> QED
        BY <4>2, <4>3, <3>1
    <3>3. ASSUME next # NULL, next.key = t.key PROVE next \in S
      <4>1. next \in AtLevel(0) /\ ~KeyBefore(next, t)
        BY <3>3, <2>3, <2>6
      <4>2. next.seq <= t.seq
        BY <4>1, <3>3, <2>8, <2>9, <1>6 DEF KeyBefore
      <4>3. next \in walker.start
        BY <4>1, <4>2, <3>1, <2>9, <1>6
      <4> QED
        BY <4>2, <4>3, <3>1, <3>3
    <3>4. S \subseteq Nodes /\ \A n \in S : n # NULL /\ n.seq \in Nat /\ n.key = t.key
      BY <2>8, <2>9, <1>6
    <3>5. \A n, m \in S : n.seq = m.seq => n = m
      BY <3>4, <1>1 DEF NodesOK
    <3> HIDE DEF S
    <3>6. CASE S = {}
      BY <3>1, <3>3, <3>6 DEF S
    <3>7. CASE S # {}
      <4>1. next \in S /\ \A n \in S : n.seq <= next.seq
        BY <3>2, <3>7
      <4>2. ASSUME NEW m \in S, \A n \in S : n.seq <= m.seq PROVE m = next
        <5>1. m.seq = next.seq
          BY <4>1, <4>2, <3>4
        <5> QED
          BY <5>1, <4>1, <3>5
      <4>3. (CHOOSE n \in S : \A m \in S : m.seq <= n.seq) = next
        BY <4>1, <4>2
      <4> QED
        BY <4>1, <4>3, <3>1, <3>4, <3>7 DEF S
    <3> QED
      BY <3>6, <3>7
  <2>14. WalkOK'
    BY <2>1, <2>4, <2>12, <2>13, <1>6, <1>7 DEF WalkOK
  <2> QED
    BY <2>14, <1>4, ReaderKeepsLists
<1> QED
  BY <1>5, <1>11, <1>12, <1>13

-----------------------------------------------------------------------------
\* The empty list.
LEMMA MemInitInv ==
  MemInit => MemInv /\ HeightOK
<1> SUFFICES ASSUME MemInit PROVE MemInv /\ HeightOK
  OBVIOUS
<1>1. /\ batch = NoBatch /\ inserter = NoInserter /\ published = 0 /\ walker = NoWalk /\ status = "OK"
      /\ link = [n \in {HeadNode} |-> [l \in ListLevels |-> NULL]] /\ maxHeight = 1
  BY DEF MemInit
<1>2. inserter.pc = "idle" /\ DOMAIN inserter = InserterFields
  BY <1>1 DEF NoInserter, InserterFields
<1>3. Nodes = {} /\ HeadNode \in DOMAIN link /\ DOMAIN link[HeadNode] = ListLevels
      /\ \A l \in ListLevels : link[HeadNode][l] = NULL
  BY <1>1 DEF Nodes
<1>4. \A l : AtLevel(l) = {}
  BY <1>3 DEF AtLevel
<1>5. InserterOK
  <2>1. BatchOK(batch)
    BY <1>1 DEF NoBatch, BatchOK
  <2> QED
    BY <2>1, <1>1, <1>2 DEF InserterOK
<1>6. NodesOK
  <2>1. LastInserted = 0 /\ ~Inserting
    BY <1>1, <1>2 DEF LastInserted, Inserting
  <2>2. {n.seq : n \in Nodes} = 1..0
    BY <1>3
  <2>3. IsFiniteSet(Nodes)
    BY <1>3, FS_EmptySet
  <2> QED
    BY <2>1, <2>2, <2>3, <1>3 DEF NodesOK
<1>7. ListsOK
  BY <1>2, <1>3, <1>4 DEF ListsOK, Follows
<1>8. WalkOK
  <2>1. DOMAIN walker = WalkerFields /\ walker.pc = "idle" /\ walker.node = NULL /\ walker.x = NULL
        /\ walker.start = {}
    BY <1>1 DEF NoWalk, WalkerFields
  <2>2. NULL # Uninitialised
    BY DEF NULL, Uninitialised
  <2>3. GetSeesItsSnapshot /\ MovesSkipNothing
    BY <2>1 DEF GetSeesItsSnapshot, MovesSkipNothing
  <2> QED
    BY <2>1, <2>2, <2>3 DEF WalkOK
<1>9. HeightOK
  BY <1>1, MemTableAssumption DEF HeightOK
<1> QED
  BY <1>5, <1>6, <1>7, <1>8, <1>9 DEF MemInv

\* Every step of the writer and of the reader keeps the invariant.
LEMMA MemNextInv ==
  ASSUME MemInv, HeightOK, [MemNext]_memVars
  PROVE  MemInv' /\ HeightOK'
<1>1. CASE UNCHANGED memVars
  <2>1. HeightOK'
    BY <1>1 DEF HeightOK, memVars
  <2>2. batch' = batch /\ inserter' = inserter /\ link' = link /\ published' = published
        /\ status' = status /\ walker' = walker
    BY <1>1 DEF memVars
  <2>3. \A l : AtLevel(l)' = AtLevel(l)
    BY <2>2 DEF AtLevel, Nodes
  <2>4. WalkOK'
    <3>1. Nodes' = Nodes /\ InserterOK /\ WalkOK /\ published \in Nat
      BY <2>2 DEF Nodes, MemInv, InserterOK
    <3> QED
      BY <3>1, <2>2, <2>3, WriterKeepsWalk
  <2> QED
    BY <2>1, <2>2, <2>4, ReaderKeepsLists
<1>2. CASE MemNext
  <2>1. HeightOK'
    <3>1. CASE InsertRecord
      <4>1. PICK h \in 1..MaxHeight : maxHeight' = IF h > maxHeight THEN h ELSE maxHeight
        BY <3>1 DEF InsertRecord
      <4> QED
        BY <4>1, MemTableAssumption DEF HeightOK
    <3>2. CASE ~InsertRecord
      <4>1. maxHeight' = maxHeight
        BY <1>2, <3>2 DEF MemNext, BatchWrite, BatchClear, InsertInto, InsertLink, InsertDone,
          MemGet, IterSeek, IterSeekToLast, IterPrev, StartWalk, IterFollow, WalkStep, WalkDone
      <4> QED
        BY <4>1 DEF HeightOK
    <3> QED
      BY <3>1, <3>2
  <2>2. MemInv'
    <3>1. CASE InsertLink
      <4>1. inserter.pc \in {"own", "publish"}
        BY <3>1 DEF InsertLink
      <4> QED
        BY <3>1, <4>1, InsertOwnKeeps, InsertPublishKeeps
    <3> QED
      BY <1>2, <3>1, BatchWriteKeeps, InsertIntoKeeps, InsertDoneKeeps, InsertRecordKeeps, StartsKeep,
         IterFollowKeeps, WalkStepKeeps, WalkDoneKeeps DEF MemNext
  <2> QED
    BY <2>1, <2>2
<1> QED
  BY <1>1, <1>2

\* What the invariant is for.
LEMMA MemInvIsRight ==
  ASSUME MemInv
  PROVE  MemTableIsRight
<1>1. NodesOK /\ ListsOK /\ WalkOK /\ InserterOK
  BY DEF MemInv
<1>2. NoGarbageIsRead
  <2>1. walker.node \in Nodes \cup {NULL} /\ walker.x # Uninitialised
    BY <1>1, LevelFacts DEF WalkOK
  <2>2. NULL # Uninitialised
    BY DEF NULL, Uninitialised
  <2>3. \A n \in Nodes : n # Uninitialised
    BY <1>1, LevelFacts, NodeOrder
  <2> QED
    BY <2>1, <2>2, <2>3 DEF NoGarbageIsRead
<1>3. ListsAreSorted
  <2> SUFFICES ASSUME NEW l \in ListLevels, NEW n \in AtLevel(l) \cup {HeadNode}
               PROVE  /\ link[n][l] # NULL => link[n][l] \in AtLevel(l) /\ (n # HeadNode => KeyBefore(n, link[n][l]))
                      /\ n # HeadNode => n = link[PrevNode(n, l)][l]
                      /\ l > 0 /\ n # HeadNode => n \in AtLevel(l - 1)
    BY DEF ListsAreSorted
  <2>1. Follows(AtLevel(l), n, link[n][l])
    BY <1>1 DEF ListsOK
  <2>2. link[n][l] # NULL => link[n][l] \in AtLevel(l) /\ (n # HeadNode => KeyBefore(n, link[n][l]))
    BY <2>1 DEF Follows, Precedes
  <2>3. ASSUME n # HeadNode PROVE n = link[PrevNode(n, l)][l]
    <3>1. n \in AtLevel(l) /\ n \in Nodes /\ AtLevel(l) \subseteq Nodes
      BY <2>3, <1>1, LevelFacts
    <3>2. PICK p : p = PrevNode(n, l)
      OBVIOUS
    <3>3. /\ p \in AtLevel(l) \cup {HeadNode} /\ Precedes(p, n)
          /\ \A m \in AtLevel(l) : KeyBefore(m, n) => p # HeadNode /\ (m = p \/ KeyBefore(m, p))
      BY <3>1, <3>2, <1>1, PrevIs
    <3>4. PICK s : s = link[p][l]
      OBVIOUS
    <3>5. Follows(AtLevel(l), p, s)
      BY <3>3, <3>4, <1>1 DEF ListsOK
    <3>6. s \in AtLevel(l) /\ Precedes(p, s) /\ (n = s \/ KeyBefore(s, n))
      BY <3>1, <3>3, <3>5 DEF Follows
    <3>7. ~KeyBefore(s, n)
      <4> SUFFICES ASSUME KeyBefore(s, n) PROVE FALSE
        OBVIOUS
      <4>1. p # HeadNode /\ p \in AtLevel(l) /\ (s = p \/ KeyBefore(s, p)) /\ KeyBefore(p, s)
        BY <3>3, <3>6 DEF Precedes
      <4> QED
        BY <4>1, <3>1, <3>6, <1>1, LevelFacts, NodeOrder
    <3> QED
      BY <3>2, <3>4, <3>6, <3>7
  <2>4. l > 0 /\ n # HeadNode => n \in AtLevel(l - 1)
    BY <1>1, LevelFacts
  <2> QED
    BY <2>2, <2>3, <2>4
<1>4. BatchesAreAccepted
  BY <1>1 DEF BatchesAreAccepted, InserterOK, NodesOK, LastInserted
<1>5. GetSeesItsSnapshot /\ MovesSkipNothing
  BY <1>1 DEF WalkOK
<1> QED
  BY <1>2, <1>3, <1>4, <1>5 DEF MemTableIsRight

\* SkipList::Insert store by store beside FindGreaterOrEqual, FindLessThan and
\* FindLast load by load: the lists of all levels stay sorted and nested, only
\* the links of the node being inserted are unset, and the reader stands on a
\* node of its level before its target. For any keys, batches and heights.
THEOREM MemTableInv ==
  MemSpec => [](MemInv /\ HeightOK)
<1>1. MemInit => MemInv /\ HeightOK
  BY MemInitInv
<1>2. (MemInv /\ HeightOK) /\ [MemNext]_memVars => (MemInv /\ HeightOK)'
  BY MemNextInv
<1> QED
  BY <1>1, <1>2, PTL DEF MemSpec

\* Readers of db/skiplist.h, which take no lock: a Get finds the newest entry
\* that was published when it started, an iterator passes no entry that was
\* there, no reader follows an unset link, and every batch that WriteBatch
\* built is accepted.
THEOREM MemTableReaders ==
  MemSpec => []MemTableIsRight
<1>1. MemInv => MemTableIsRight
  BY MemInvIsRight
<1> QED
  BY <1>1, MemTableInv, PTL

-----------------------------------------------------------------------------
(* The files: what every state of the directory that a crash may bring back *)
(* leads to.                                                                *)

Datum == Nat \cup {"record", "half", "newline"}
FileNodes == [data : Seq(Datum), cached : Nat, disk : Nat]
NodeOK(nd) == /\ nd \in FileNodes
              /\ nd.disk <= nd.cached /\ nd.cached <= Len(nd.data)
EmptyNode == [data |-> <<>>, cached |-> 0, disk |-> 0]

\* The MANIFEST that CURRENT names in directory e, and a table it records.
CurNum(I, e) == I[e[CURRENT]].data[1]
ManNode(I, e) == I[e[Manifest(CurNum(I, e))]]
WholeTable(nd) == Len(nd.data) = 2 /\ nd.disk = 2
TableAt(I, e, r) == r \in Nat /\ Ldb(r) \in DOMAIN e /\ WholeTable(I[e[Ldb(r)]])
TablesTo(I, e, n) == \A j \in 1..n : TableAt(I, e, ManNode(I, e).data[j])

\* A directory a crash may bring back is one that can be opened, and it has
\* what was synced.
CurOK(I, e) ==
  /\ CURRENT \in DOMAIN e /\ CurNum(I, e) \in Nat
  /\ I[e[CURRENT]].data = Line(CurNum(I, e)) /\ I[e[CURRENT]].disk = 2
  /\ Manifest(CurNum(I, e)) \in DOMAIN e
AckedOK(I, e, A) ==
  \A a \in A : \E j \in 1..ManNode(I, e).disk : ManNode(I, e).data[j] = a
LogOK(I, e, s) == Log \in DOMAIN e /\ s <= I[e[Log]].disk
DirOK(I, e, A, s) ==
  CurOK(I, e) /\ TablesTo(I, e, ManNode(I, e).disk) /\ AckedOK(I, e, A) /\ LogOK(I, e, s)

\* The present directory also has what was flushed.
LastOK(I, d, fl) ==
  TablesTo(I, d, Len(ManNode(I, d).data)) /\ fl <= I[d[Log]].cached

\* Two names of a file, in one or two states of the directory, are equal but
\* for the temporary file that was renamed to CURRENT.
Alias(f, g) == \/ f = g
               \/ f = CURRENT /\ g[1] = "dbtmp"
               \/ g = CURRENT /\ f[1] = "dbtmp"

InodesOK(I) == I \in Seq(FileNodes) /\ \A i \in 1..Len(I) : NodeOK(I[i])
DirsOK(I, D, A, s) == \A e \in D : DirOK(I, e, A, s)
NamesOK(I, D) == \A e \in D : \A f \in DOMAIN e : e[f] \in 1..Len(I)
OneLog(D, d) == \A e \in D : e[Log] = d[Log]
NamesApart(D) ==
  \A e, g \in D : \A f \in DOMAIN e, h \in DOMAIN g : e[f] = g[h] => Alias(f, h)

StoreOK(I, D, d, A, s, fl) ==
  /\ d \in D /\ InodesOK(I) /\ DirsOK(I, D, A, s) /\ NamesOK(I, D)
  /\ OneLog(D, d) /\ NamesApart(D) /\ LastOK(I, d, fl)

LEMMA NamesDiffer ==
  ASSUME NEW n, NEW m
  PROVE  /\ CURRENT # Log /\ CURRENT # Manifest(n) /\ CURRENT # Ldb(n) /\ CURRENT # Temp(n)
         /\ Log # Manifest(n) /\ Log # Ldb(n) /\ Log # Temp(n)
         /\ Manifest(n) # Ldb(m) /\ Manifest(n) # Temp(m) /\ Ldb(n) # Temp(m)
         /\ (Manifest(n) = Manifest(m) => n = m) /\ (Ldb(n) = Ldb(m) => n = m)
  BY DEF CURRENT, Log, Manifest, Ldb, Temp

LEMMA AliasOf ==
  ASSUME NEW g, NEW n
  PROVE  /\ Alias(g, Log) => g = Log
         /\ Alias(g, Manifest(n)) => g = Manifest(n)
         /\ Alias(g, Ldb(n)) => g = Ldb(n)
         /\ Alias(g, g)
  BY DEF Alias, CURRENT, Log, Manifest, Ldb

\* The files a directory leads to are kept from I to J.
DirSame(I, J, e, s) ==
  /\ J[e[CURRENT]].data = I[e[CURRENT]].data /\ J[e[CURRENT]].disk = I[e[CURRENT]].disk
  /\ LET a == ManNode(I, e)
         b == J[e[Manifest(CurNum(I, e))]]
     IN b.disk = a.disk /\ \A j \in 1..a.disk : b.data[j] = a.data[j]
  /\ \A n \in Nat : Ldb(n) \in DOMAIN e /\ WholeTable(I[e[Ldb(n)]])
                       => WholeTable(J[e[Ldb(n)]])
  /\ s <= J[e[Log]].disk

LEMMA DirKept ==
  ASSUME NEW I, NEW J, NEW e, NEW A, NEW s, NEW t,
         DirOK(I, e, A, s), DirSame(I, J, e, t)
  PROVE  DirOK(J, e, A, t) /\ CurNum(J, e) = CurNum(I, e)
<1>1. CurNum(J, e) = CurNum(I, e)
  BY DEF DirSame, CurNum
<1>2. CurOK(J, e)
  BY <1>1 DEF DirOK, CurOK, DirSame
<1>3. ManNode(J, e) = J[e[Manifest(CurNum(I, e))]]
  BY <1>1 DEF ManNode
<1>4. /\ ManNode(J, e).disk = ManNode(I, e).disk
      /\ \A j \in 1..ManNode(I, e).disk : ManNode(J, e).data[j] = ManNode(I, e).data[j]
  BY <1>3 DEF DirSame
<1>5. \A r : TableAt(I, e, r) => TableAt(J, e, r)
  BY DEF TableAt, DirSame
<1>6. TablesTo(J, e, ManNode(J, e).disk)
  BY <1>4, <1>5 DEF DirOK, TablesTo
<1>7. AckedOK(J, e, A)
  BY <1>4 DEF DirOK, AckedOK
<1>8. LogOK(J, e, t)
  BY DEF DirOK, LogOK, DirSame
<1> QED
  BY <1>1, <1>2, <1>6, <1>7, <1>8 DEF DirOK

\* The present directory: records of the MANIFEST may be cut off or added.
LEMMA LastKept ==
  ASSUME NEW I, NEW J, NEW e, NEW A, NEW s, NEW t, NEW fl, NEW fm,
         DirOK(I, e, A, s), DirSame(I, J, e, t), LastOK(I, e, fl),
         LET a == ManNode(I, e)
             b == J[e[Manifest(CurNum(I, e))]]
         IN \A j \in 1..Len(b.data) : \/ j \in 1..Len(a.data) /\ b.data[j] = a.data[j]
                                      \/ TableAt(I, e, b.data[j]),
         fm <= J[e[Log]].cached
  PROVE  LastOK(J, e, fm)
<1>1. CurNum(J, e) = CurNum(I, e)
  BY DEF DirSame, CurNum
<1>3. ManNode(J, e) = J[e[Manifest(CurNum(I, e))]]
  BY <1>1 DEF ManNode
<1>5. \A r : TableAt(I, e, r) => TableAt(J, e, r)
  BY DEF TableAt, DirSame
<1>6. \A j \in 1..Len(ManNode(I, e).data) : TableAt(I, e, ManNode(I, e).data[j])
  BY DEF LastOK, TablesTo
<1>7. \A j \in 1..Len(ManNode(J, e).data) : TableAt(J, e, ManNode(J, e).data[j])
  BY <1>3, <1>5, <1>6
<1> QED
  BY <1>7 DEF LastOK, TablesTo

\* One file is changed: which names show the change.
WithNode(I, d, f, nd) == [I EXCEPT ![d[f]] = nd]
FilesStay(I, J, d, f) == \A g \in DOMAIN d : g # f /\ g # CURRENT => J[d[g]] = I[d[g]]
OthersStay(I, J, d, f) == \A g \in DOMAIN d : g # f => J[d[g]] = I[d[g]]
NodeChanged(I, J, D, d, f, nd) ==
  /\ InodesOK(J) /\ NamesOK(J, D) /\ Len(J) = Len(I)
  /\ J[d[f]] = nd
  /\ \A e \in D : \A g \in DOMAIN e : J[e[g]] = I[e[g]] \/ (J[e[g]] = nd /\ Alias(g, f))

LEMMA NodeSet ==
  ASSUME NEW I, NEW D, NEW d, NEW A, NEW s, NEW fl, StoreOK(I, D, d, A, s, fl),
         NEW f \in DOMAIN d, NEW nd, NodeOK(nd),
         NEW J, J = WithNode(I, d, f, nd)
  PROVE  NodeChanged(I, J, D, d, f, nd)
<1>1. d \in D /\ I \in Seq(FileNodes) /\ d[f] \in 1..Len(I)
  BY DEF StoreOK, NamesOK, InodesOK
<1>2. nd \in FileNodes
  BY DEF NodeOK
<1>3. J \in Seq(FileNodes) /\ Len(J) = Len(I) /\ J[d[f]] = nd
      /\ \A i \in 1..Len(I) : i # d[f] => J[i] = I[i]
  BY <1>1, <1>2 DEF WithNode
<1>4. InodesOK(J)
  BY <1>3 DEF StoreOK, InodesOK
<1>5. NamesOK(J, D)
  BY <1>3 DEF StoreOK, NamesOK
<1>6. ASSUME NEW e \in D, NEW g \in DOMAIN e
      PROVE  J[e[g]] = I[e[g]] \/ (J[e[g]] = nd /\ Alias(g, f))
  <2>1. e[g] \in 1..Len(I)
    BY DEF StoreOK, NamesOK
  <2>2. e[g] = d[f] => Alias(g, f)
    BY <1>1 DEF StoreOK, NamesApart
  <2> QED
    BY <1>3, <2>1, <2>2
<1> QED
  BY <1>3, <1>4, <1>5, <1>6 DEF NodeChanged

\* The names DirOK speaks of.
LEMMA DirNames ==
  ASSUME NEW I, NEW e, NEW A, NEW s, DirOK(I, e, A, s)
  PROVE  /\ CURRENT \in DOMAIN e /\ Log \in DOMAIN e /\ Manifest(CurNum(I, e)) \in DOMAIN e
         /\ CurNum(I, e) \in Nat /\ s <= I[e[Log]].disk /\ I[e[CURRENT]].disk = 2
         /\ I[e[CURRENT]].data = Line(CurNum(I, e))
  BY DEF DirOK, CurOK, LogOK

\* The log is changed.
LEMMA LogSet ==
  ASSUME NEW I, NEW D, NEW d, NEW A, NEW s, NEW fl, StoreOK(I, D, d, A, s, fl),
         NEW nd, NodeOK(nd), NEW J, J = WithNode(I, d, Log, nd),
         NEW t, t <= nd.disk, NEW fm, fm <= nd.cached
  PROVE  /\ StoreOK(J, D, d, A, t, fm)
         /\ OthersStay(I, J, d, Log)
<1>1. d \in D /\ \A e \in D : DirOK(I, e, A, s) /\ e[Log] = d[Log]
  BY DEF StoreOK, DirsOK, OneLog
<1>2. \A e \in D : CURRENT \in DOMAIN e /\ Log \in DOMAIN e /\ Manifest(CurNum(I, e)) \in DOMAIN e
  BY <1>1, DirNames
<1>3. /\ InodesOK(J) /\ NamesOK(J, D) /\ J[d[Log]] = nd
      /\ \A e \in D : \A g \in DOMAIN e : J[e[g]] = I[e[g]] \/ (J[e[g]] = nd /\ Alias(g, Log))
  <2>1. Log \in DOMAIN d
    BY <1>1, <1>2
  <2>2. NodeChanged(I, J, D, d, Log, nd)
    BY <2>1, NodeSet
  <2> QED
    BY <2>2 DEF NodeChanged
<1>4. \A e \in D : \A g \in DOMAIN e : g # Log => J[e[g]] = I[e[g]]
  BY <1>3, AliasOf
<1>5. ASSUME NEW e \in D PROVE DirSame(I, J, e, t)
  <2>1. J[e[CURRENT]] = I[e[CURRENT]]
    BY <1>2, <1>4, NamesDiffer
  <2>2. J[e[Manifest(CurNum(I, e))]] = ManNode(I, e)
    BY <1>2, <1>4, NamesDiffer DEF ManNode
  <2>3. \A n \in Nat : Ldb(n) \in DOMAIN e => J[e[Ldb(n)]] = I[e[Ldb(n)]]
    BY <1>4, NamesDiffer
  <2>4. t <= J[e[Log]].disk
    BY <1>1, <1>3
  <2> QED
    BY <2>1, <2>2, <2>3, <2>4 DEF DirSame
<1>6. DirsOK(J, D, A, t)
  BY <1>1, <1>5, DirKept DEF DirsOK
<1>7. LastOK(J, d, fm)
  <2>1. J[d[Manifest(CurNum(I, d))]] = ManNode(I, d)
    BY <1>1, <1>2, <1>4, NamesDiffer DEF ManNode
  <2>2. LastOK(I, d, fl) /\ DirOK(I, d, A, s) /\ DirSame(I, J, d, t) /\ fm <= J[d[Log]].cached
    BY <1>1, <1>3, <1>5 DEF StoreOK
  <2> QED
    BY <2>1, <2>2, LastKept
<1> QED
  BY <1>1, <1>3, <1>4, <1>6, <1>7 DEF StoreOK, OthersStay, FilesStay

\* A table is changed, one that is not whole or that stays whole.
LEMMA TableSet ==
  ASSUME NEW I, NEW D, NEW d, NEW A, NEW s, NEW fl, StoreOK(I, D, d, A, s, fl),
         NEW n, Ldb(n) \in DOMAIN d, NEW nd, NodeOK(nd),
         NEW J, J = WithNode(I, d, Ldb(n), nd),
         ~WholeTable(I[d[Ldb(n)]]) \/ WholeTable(nd)
  PROVE  /\ StoreOK(J, D, d, A, s, fl) /\ J[d[Ldb(n)]] = nd
         /\ OthersStay(I, J, d, Ldb(n))
<1>1. d \in D /\ \A e \in D : DirOK(I, e, A, s) /\ e[Log] = d[Log]
  BY DEF StoreOK, DirsOK, OneLog
<1>2. \A e \in D : /\ CURRENT \in DOMAIN e /\ Log \in DOMAIN e
                   /\ Manifest(CurNum(I, e)) \in DOMAIN e /\ s <= I[e[Log]].disk
  BY <1>1, DirNames
<1>3. /\ InodesOK(J) /\ NamesOK(J, D) /\ J[d[Ldb(n)]] = nd
      /\ \A e \in D : \A g \in DOMAIN e : J[e[g]] = I[e[g]] \/ (J[e[g]] = nd /\ Alias(g, Ldb(n)))
  <2>1. Ldb(n) \in DOMAIN d
    BY <1>1, <1>2
  <2>2. NodeChanged(I, J, D, d, Ldb(n), nd)
    BY <2>1, NodeSet
  <2> QED
    BY <2>2 DEF NodeChanged
<1>4. \A e \in D : \A g \in DOMAIN e : g # Ldb(n) => J[e[g]] = I[e[g]]
  BY <1>3, AliasOf
<1>4a. \A e \in D : \A g \in DOMAIN e : J[e[g]] = I[e[g]] \/ (J[e[g]] = nd /\ e[g] = d[Ldb(n)])
  <2>1. \A e \in D : \A g \in DOMAIN e : e[g] \in 1..Len(I)
    BY DEF StoreOK, NamesOK
  <2>2. I \in Seq(FileNodes)
    BY DEF StoreOK, InodesOK
  <2> QED
    BY <2>1, <2>2 DEF WithNode
<1>5. ASSUME NEW e \in D PROVE DirSame(I, J, e, s)
  <2>1. J[e[CURRENT]] = I[e[CURRENT]]
    BY <1>2, <1>4, NamesDiffer
  <2>2. J[e[Manifest(CurNum(I, e))]] = ManNode(I, e)
    BY <1>2, <1>4, NamesDiffer DEF ManNode
  <2>3. \A m \in Nat : Ldb(m) \in DOMAIN e /\ WholeTable(I[e[Ldb(m)]]) => WholeTable(J[e[Ldb(m)]])
    BY <1>4a
  <2>4. J[e[Log]] = I[e[Log]]
    BY <1>2, <1>4, NamesDiffer
  <2> QED
    BY <1>2, <2>1, <2>2, <2>3, <2>4 DEF DirSame
<1>6. DirsOK(J, D, A, s)
  BY <1>1, <1>5, DirKept DEF DirsOK
<1>7. LastOK(J, d, fl)
  <2>1. J[d[Manifest(CurNum(I, d))]] = ManNode(I, d)
    BY <1>1, <1>2, <1>4, NamesDiffer DEF ManNode
  <2>2. J[d[Log]] = I[d[Log]]
    BY <1>1, <1>2, <1>4, NamesDiffer
  <2>3. LastOK(I, d, fl) /\ DirOK(I, d, A, s) /\ DirSame(I, J, d, s) /\ fl <= J[d[Log]].cached
    BY <1>1, <1>5, <2>2 DEF StoreOK, LastOK
  <2> QED
    BY <2>1, <2>3, LastKept
<1> QED
  BY <1>1, <1>3, <1>4, <1>6, <1>7 DEF StoreOK, OthersStay, FilesStay

\* A temporary file is changed: one that is not CURRENT in another state of
\* the directory, or whose contents stay.
LEMMA TempSet ==
  ASSUME NEW I, NEW D, NEW d, NEW A, NEW s, NEW fl, StoreOK(I, D, d, A, s, fl),
         NEW n, Temp(n) \in DOMAIN d, NEW nd, NodeOK(nd),
         NEW J, J = WithNode(I, d, Temp(n), nd),
         \/ I[d[Temp(n)]].disk # 2
         \/ nd.data = I[d[Temp(n)]].data /\ nd.disk = I[d[Temp(n)]].disk
  PROVE  /\ StoreOK(J, D, d, A, s, fl) /\ J[d[Temp(n)]] = nd
         /\ CurNum(J, d) = CurNum(I, d)
         /\ FilesStay(I, J, d, Temp(n))
<1>1. d \in D /\ \A e \in D : DirOK(I, e, A, s) /\ e[Log] = d[Log]
  BY DEF StoreOK, DirsOK, OneLog
<1>2. \A e \in D : /\ CURRENT \in DOMAIN e /\ Log \in DOMAIN e /\ I[e[CURRENT]].disk = 2
                   /\ Manifest(CurNum(I, e)) \in DOMAIN e /\ s <= I[e[Log]].disk
  BY <1>1, DirNames
<1>3. /\ InodesOK(J) /\ NamesOK(J, D) /\ J[d[Temp(n)]] = nd
      /\ \A e \in D : \A g \in DOMAIN e : J[e[g]] = I[e[g]] \/ (J[e[g]] = nd /\ Alias(g, Temp(n)))
  <2>1. NodeChanged(I, J, D, d, Temp(n), nd)
    BY NodeSet
  <2> QED
    BY <2>1 DEF NodeChanged
<1>4. \A e \in D : \A g \in DOMAIN e : g # Temp(n) /\ g # CURRENT => J[e[g]] = I[e[g]]
  <2>1. \A g : Alias(g, Temp(n)) => g = Temp(n) \/ g = CURRENT
    BY NamesDiffer DEF Alias
  <2> QED
    BY <1>3, <2>1
<1>4a. \A e \in D : \A g \in DOMAIN e : J[e[g]] = I[e[g]] \/ (J[e[g]] = nd /\ e[g] = d[Temp(n)])
  <2>1. \A e \in D : \A g \in DOMAIN e : e[g] \in 1..Len(I)
    BY DEF StoreOK, NamesOK
  <2>2. I \in Seq(FileNodes)
    BY DEF StoreOK, InodesOK
  <2> QED
    BY <2>1, <2>2 DEF WithNode
<1>5. ASSUME NEW e \in D PROVE DirSame(I, J, e, s)
  <2>1. J[e[CURRENT]].data = I[e[CURRENT]].data /\ J[e[CURRENT]].disk = I[e[CURRENT]].disk
    BY <1>2, <1>4a
  <2>2. J[e[Manifest(CurNum(I, e))]] = ManNode(I, e)
    BY <1>2, <1>4, NamesDiffer DEF ManNode
  <2>3. \A m \in Nat : Ldb(m) \in DOMAIN e => J[e[Ldb(m)]] = I[e[Ldb(m)]]
    BY <1>4, NamesDiffer
  <2>4. J[e[Log]] = I[e[Log]]
    BY <1>2, <1>4, NamesDiffer
  <2> QED
    BY <1>2, <2>1, <2>2, <2>3, <2>4 DEF DirSame
<1>6. DirsOK(J, D, A, s) /\ CurNum(J, d) = CurNum(I, d)
  <2>1. \A e \in D : DirOK(J, e, A, s) /\ CurNum(J, e) = CurNum(I, e)
    BY <1>1, <1>5, DirKept
  <2> QED
    BY <1>1, <2>1 DEF DirsOK
<1>7. LastOK(J, d, fl)
  <2>1. J[d[Manifest(CurNum(I, d))]] = ManNode(I, d)
    BY <1>1, <1>2, <1>4, NamesDiffer DEF ManNode
  <2>2. J[d[Log]] = I[d[Log]]
    BY <1>1, <1>2, <1>4, NamesDiffer
  <2>3. LastOK(I, d, fl) /\ DirOK(I, d, A, s) /\ DirSame(I, J, d, s) /\ fl <= J[d[Log]].cached
    BY <1>1, <1>5, <2>2 DEF StoreOK, LastOK
  <2> QED
    BY <2>1, <2>3, LastKept
<1> QED
  BY <1>1, <1>3, <1>4, <1>6, <1>7 DEF StoreOK, OthersStay, FilesStay

\* Data is added to a MANIFEST: what is on the disk stays, and the one in
\* place records whole tables.
DiskKept(a, b) == b.disk = a.disk /\ \A j \in 1..b.disk : b.data[j] = a.data[j]
RecordsTables(I, d, nd) ==
  \A j \in 1..Len(nd.data) :
    \/ j \in 1..Len(ManNode(I, d).data) /\ nd.data[j] = ManNode(I, d).data[j]
    \/ TableAt(I, d, nd.data[j])

LEMMA ManSet ==
  ASSUME NEW I, NEW D, NEW d, NEW A, NEW s, NEW fl, StoreOK(I, D, d, A, s, fl),
         NEW m, Manifest(m) \in DOMAIN d, NEW nd, NodeOK(nd),
         NEW J, J = WithNode(I, d, Manifest(m), nd),
         DiskKept(I[d[Manifest(m)]], nd), m = CurNum(I, d) => RecordsTables(I, d, nd)
  PROVE  /\ StoreOK(J, D, d, A, s, fl) /\ J[d[Manifest(m)]] = nd
         /\ OthersStay(I, J, d, Manifest(m))
<1>1. d \in D /\ \A e \in D : DirOK(I, e, A, s) /\ e[Log] = d[Log]
  BY DEF StoreOK, DirsOK, OneLog
<1>2. \A e \in D : /\ CURRENT \in DOMAIN e /\ Log \in DOMAIN e
                   /\ Manifest(CurNum(I, e)) \in DOMAIN e /\ s <= I[e[Log]].disk
  BY <1>1, DirNames
<1>3. /\ InodesOK(J) /\ NamesOK(J, D) /\ J[d[Manifest(m)]] = nd
      /\ \A e \in D : \A g \in DOMAIN e :
            J[e[g]] = I[e[g]] \/ (J[e[g]] = nd /\ Alias(g, Manifest(m)))
  <2>1. NodeChanged(I, J, D, d, Manifest(m), nd)
    BY NodeSet
  <2> QED
    BY <2>1 DEF NodeChanged
<1>4. \A e \in D : \A g \in DOMAIN e : g # Manifest(m) => J[e[g]] = I[e[g]]
  BY <1>3, AliasOf
<1>4a. \A e \in D : \A g \in DOMAIN e : J[e[g]] = I[e[g]] \/ (J[e[g]] = nd /\ e[g] = d[Manifest(m)])
  <2>1. \A e \in D : \A g \in DOMAIN e : e[g] \in 1..Len(I)
    BY DEF StoreOK, NamesOK
  <2>2. I \in Seq(FileNodes)
    BY DEF StoreOK, InodesOK
  <2> QED
    BY <2>1, <2>2 DEF WithNode
<1>5. ASSUME NEW e \in D PROVE DirSame(I, J, e, s)
  <2>1. J[e[CURRENT]] = I[e[CURRENT]]
    BY <1>2, <1>4, NamesDiffer
  <2>2. /\ J[e[Manifest(CurNum(I, e))]].disk = ManNode(I, e).disk
        /\ \A j \in 1..ManNode(I, e).disk :
             J[e[Manifest(CurNum(I, e))]].data[j] = ManNode(I, e).data[j]
    BY <1>2, <1>4a DEF ManNode, DiskKept
  <2>3. \A k \in Nat : Ldb(k) \in DOMAIN e => J[e[Ldb(k)]] = I[e[Ldb(k)]]
    BY <1>4, NamesDiffer
  <2>4. J[e[Log]] = I[e[Log]]
    BY <1>2, <1>4, NamesDiffer
  <2> QED
    BY <1>2, <2>1, <2>2, <2>3, <2>4 DEF DirSame
<1>6. DirsOK(J, D, A, s)
  BY <1>1, <1>5, DirKept DEF DirsOK
<1>7. LastOK(J, d, fl)
  <2> DEFINE b == J[d[Manifest(CurNum(I, d))]]
  <2>1. \A j \in 1..Len(b.data) : \/ j \in 1..Len(ManNode(I, d).data) /\ b.data[j] = ManNode(I, d).data[j]
                                  \/ TableAt(I, d, b.data[j])
    <3>1. CASE m = CurNum(I, d)
      BY <1>3, <3>1 DEF RecordsTables
    <3>2. CASE m # CurNum(I, d)
      <4>1. b = ManNode(I, d)
        BY <1>1, <1>2, <1>4, <3>2, NamesDiffer DEF ManNode
      <4> QED
        BY <4>1
    <3> QED
      BY <3>1, <3>2
  <2>2. J[d[Log]] = I[d[Log]]
    BY <1>1, <1>2, <1>4, NamesDiffer
  <2>3. LastOK(I, d, fl) /\ DirOK(I, d, A, s) /\ DirSame(I, J, d, s) /\ fl <= J[d[Log]].cached
    BY <1>1, <1>5, <2>2 DEF StoreOK, LastOK
  <2> QED
    BY <2>1, <2>3, LastKept
<1> QED
  BY <1>1, <1>3, <1>4, <1>6, <1>7 DEF StoreOK, OthersStay, FilesStay

\* The directory is synced: the older states are gone.
LEMMA DirSynced ==
  ASSUME NEW I, NEW D, NEW d, NEW A, NEW s, NEW fl, StoreOK(I, D, d, A, s, fl)
  PROVE  StoreOK(I, {d}, d, A, s, fl)
<1>1. /\ d \in D /\ InodesOK(I) /\ DirOK(I, d, A, s) /\ LastOK(I, d, fl)
      /\ \A f \in DOMAIN d : d[f] \in 1..Len(I)
      /\ \A f \in DOMAIN d, h \in DOMAIN d : d[f] = d[h] => Alias(f, h)
  BY DEF StoreOK, DirsOK, NamesOK, NamesApart
<1>2. DirsOK(I, {d}, A, s)
  BY <1>1 DEF DirsOK
<1>3. NamesOK(I, {d})
  BY <1>1 DEF NamesOK
<1>4. NamesApart({d}) /\ OneLog({d}, d)
  BY <1>1 DEF NamesApart, OneLog
<1> QED
  BY <1>1, <1>2, <1>3, <1>4 DEF StoreOK

\* The MANIFEST of a directory that was just synced is synced.
AllSynced(a, b) == b.data = a.data /\ b.disk = Len(b.data)
NewlySynced(I, d, m, nd, A, B) ==
  \A b \in B : b \in A \/ (m = CurNum(I, d) /\ \E j \in 1..Len(nd.data) : nd.data[j] = b)

LEMMA ManSynced ==
  ASSUME NEW I, NEW d, NEW A, NEW s, NEW fl, StoreOK(I, {d}, d, A, s, fl),
         NEW m, Manifest(m) \in DOMAIN d, NEW nd, NodeOK(nd),
         NEW J, J = WithNode(I, d, Manifest(m), nd),
         AllSynced(I[d[Manifest(m)]], nd),
         NEW B, NewlySynced(I, d, m, nd, A, B)
  PROVE  /\ StoreOK(J, {d}, d, B, s, fl) /\ J[d[Manifest(m)]] = nd
         /\ OthersStay(I, J, d, Manifest(m))
<1>0. nd.data = I[d[Manifest(m)]].data /\ nd.disk = Len(nd.data)
  BY DEF AllSynced
<1>1. d \in {d} /\ DirOK(I, d, A, s) /\ LastOK(I, d, fl)
  BY DEF StoreOK, DirsOK
<1>2. /\ CURRENT \in DOMAIN d /\ Log \in DOMAIN d
      /\ Manifest(CurNum(I, d)) \in DOMAIN d /\ s <= I[d[Log]].disk
  BY <1>1, DirNames
<1>3. /\ InodesOK(J) /\ NamesOK(J, {d}) /\ J[d[Manifest(m)]] = nd
      /\ \A e \in {d} : \A g \in DOMAIN e :
            J[e[g]] = I[e[g]] \/ (J[e[g]] = nd /\ Alias(g, Manifest(m)))
  <2>1. NodeChanged(I, J, {d}, d, Manifest(m), nd)
    BY NodeSet
  <2> QED
    BY <2>1 DEF NodeChanged
<1>4. \A g \in DOMAIN d : g # Manifest(m) => J[d[g]] = I[d[g]]
  BY <1>3, AliasOf
<1>5. J[d[CURRENT]] = I[d[CURRENT]] /\ J[d[Log]] = I[d[Log]]
  BY <1>2, <1>4, NamesDiffer
<1>6. CurNum(J, d) = CurNum(I, d)
  BY <1>5 DEF CurNum
<1>7. CurOK(J, d) /\ LogOK(J, d, s)
  BY <1>1, <1>5, <1>6 DEF DirOK, CurOK, LogOK
<1>8. \A r : TableAt(I, d, r) => TableAt(J, d, r)
  BY <1>4, NamesDiffer DEF TableAt
<1>9. ManNode(J, d).data = ManNode(I, d).data
  <2>1. ManNode(J, d) = J[d[Manifest(CurNum(I, d))]]
    BY <1>6 DEF ManNode
  <2>2. CASE m = CurNum(I, d)
    BY <1>0, <1>3, <2>1, <2>2 DEF ManNode
  <2>3. CASE m # CurNum(I, d)
    BY <1>2, <1>4, <2>1, <2>3, NamesDiffer DEF ManNode
  <2> QED
    BY <2>2, <2>3
<1>10. TablesTo(J, d, Len(ManNode(J, d).data))
  BY <1>1, <1>8, <1>9 DEF LastOK, TablesTo
<1>11. LastOK(J, d, fl)
  BY <1>1, <1>5, <1>10 DEF LastOK
<1>12. ManNode(I, d).disk \in Nat /\ ManNode(I, d).disk <= Len(ManNode(I, d).data)
       /\ Len(ManNode(I, d).data) \in Nat
  <2>1. d[Manifest(CurNum(I, d))] \in 1..Len(I)
    BY <1>2 DEF StoreOK, NamesOK
  <2>2. NodeOK(ManNode(I, d))
    BY <2>1 DEF StoreOK, InodesOK, ManNode
  <2> QED
    BY <2>2 DEF NodeOK, FileNodes
<1>13. ManNode(J, d).disk = ManNode(I, d).disk \/ (m = CurNum(I, d) /\ ManNode(J, d) = nd)
  BY <1>2, <1>3, <1>4, <1>6, NamesDiffer DEF ManNode
<1>14. TablesTo(J, d, ManNode(J, d).disk)
  <2>1. 1..ManNode(J, d).disk \subseteq 1..Len(ManNode(J, d).data)
    BY <1>0, <1>9, <1>12, <1>13
  <2> QED
    BY <1>10, <2>1 DEF TablesTo
<1>15. AckedOK(J, d, B)
  <2> SUFFICES ASSUME NEW b \in B
               PROVE  \E j \in 1..ManNode(J, d).disk : ManNode(J, d).data[j] = b
    BY DEF AckedOK
  <2>1. CASE b \in A
    <3>1. PICK j \in 1..ManNode(I, d).disk : ManNode(I, d).data[j] = b
      BY <1>1, <2>1 DEF DirOK, AckedOK
    <3>2. j \in 1..ManNode(J, d).disk
      BY <1>0, <1>9, <1>12, <1>13, <3>1
    <3> QED
      BY <1>9, <3>1, <3>2
  <2>2. CASE m = CurNum(I, d) /\ \E j \in 1..Len(nd.data) : nd.data[j] = b
    <3>1. ManNode(J, d) = nd
      BY <1>3, <1>6, <2>2 DEF ManNode
    <3> QED
      BY <1>0, <2>2, <3>1
  <2> QED
    BY <2>1, <2>2 DEF NewlySynced
<1>16. DirsOK(J, {d}, B, s)
  BY <1>7, <1>14, <1>15 DEF DirsOK, DirOK
<1> QED
  BY <1>3, <1>4, <1>11, <1>16 DEF StoreOK, OthersStay, FilesStay

\* What CURRENT leads to.
Needed(I, d) ==
  {CURRENT, Log, Manifest(CurNum(I, d))}
    \cup {Ldb(ManNode(I, d).data[j]) : j \in 1..Len(ManNode(I, d).data)}

\* Directory k leads to the same files.
LeadsAsBefore(I, d, k) ==
  /\ \A g \in DOMAIN k : k[g] \in 1..Len(I)
  /\ \A g \in Needed(I, d) : g \in DOMAIN d => g \in DOMAIN k /\ k[g] = d[g]

\* The directory changes and still leads to the same files.
LEMMA DirAdded ==
  ASSUME NEW I, NEW D, NEW d, NEW A, NEW s, NEW fl, StoreOK(I, D, d, A, s, fl),
         NEW k, LeadsAsBefore(I, d, k), NamesApart(D \cup {k})
  PROVE  /\ StoreOK(I, D \cup {k}, k, A, s, fl)
         /\ CurNum(I, k) = CurNum(I, d) /\ ManNode(I, k) = ManNode(I, d)
<1>1. d \in D /\ \A e \in D : DirOK(I, e, A, s) /\ e[Log] = d[Log]
  BY DEF StoreOK, DirsOK, OneLog
<1>2. /\ CURRENT \in DOMAIN d /\ Log \in DOMAIN d
      /\ Manifest(CurNum(I, d)) \in DOMAIN d /\ s <= I[d[Log]].disk
  BY <1>1, DirNames
<1>3. /\ CURRENT \in DOMAIN k /\ Log \in DOMAIN k /\ Manifest(CurNum(I, d)) \in DOMAIN k
      /\ k[CURRENT] = d[CURRENT] /\ k[Log] = d[Log]
      /\ k[Manifest(CurNum(I, d))] = d[Manifest(CurNum(I, d))]
  BY <1>2 DEF Needed, LeadsAsBefore
<1>4. CurNum(I, k) = CurNum(I, d)
  BY <1>3 DEF CurNum
<1>5. ManNode(I, k) = ManNode(I, d)
  BY <1>3, <1>4 DEF ManNode
<1>6. \A j \in 1..Len(ManNode(I, d).data) : TableAt(I, k, ManNode(I, d).data[j])
  <2> SUFFICES ASSUME NEW j \in 1..Len(ManNode(I, d).data)
               PROVE  TableAt(I, k, ManNode(I, d).data[j])
    OBVIOUS
  <2>1. TableAt(I, d, ManNode(I, d).data[j])
    BY DEF StoreOK, LastOK, TablesTo
  <2>2. Ldb(ManNode(I, d).data[j]) \in Needed(I, d)
    BY DEF Needed
  <2> QED
    BY <2>1, <2>2 DEF TableAt, LeadsAsBefore
<1>7. ManNode(I, d).disk \in Nat /\ ManNode(I, d).disk <= Len(ManNode(I, d).data)
      /\ Len(ManNode(I, d).data) \in Nat
  <2>1. d[Manifest(CurNum(I, d))] \in 1..Len(I)
    BY <1>1, <1>2 DEF StoreOK, NamesOK
  <2>2. NodeOK(ManNode(I, d))
    BY <2>1 DEF StoreOK, InodesOK, ManNode
  <2> QED
    BY <2>2 DEF NodeOK, FileNodes
<1>8. TablesTo(I, k, Len(ManNode(I, k).data)) /\ TablesTo(I, k, ManNode(I, k).disk)
  BY <1>5, <1>6, <1>7 DEF TablesTo
<1>9. CurOK(I, k) /\ LogOK(I, k, s) /\ AckedOK(I, k, A)
  BY <1>1, <1>2, <1>3, <1>4, <1>5 DEF DirOK, CurOK, LogOK, AckedOK
<1>10. DirsOK(I, D \cup {k}, A, s)
  BY <1>1, <1>8, <1>9 DEF DirsOK, DirOK
<1>11. LastOK(I, k, fl)
  BY <1>3, <1>8 DEF StoreOK, LastOK
<1>12. NamesOK(I, D \cup {k})
  BY DEF StoreOK, NamesOK, LeadsAsBefore
<1>13. OneLog(D \cup {k}, k)
  BY <1>1, <1>3 DEF OneLog
<1> QED
  BY <1>4, <1>5, <1>10, <1>11, <1>12, <1>13 DEF StoreOK

\* A file is deleted that CURRENT does not lead to.
WithoutFile(d, f) == [g \in DOMAIN d \ {f} |-> d[g]]

LEMMA FileDeleted ==
  ASSUME NEW I, NEW D, NEW d, NEW A, NEW s, NEW fl, StoreOK(I, D, d, A, s, fl),
         NEW f, f \notin Needed(I, d), NEW k, k = WithoutFile(d, f)
  PROVE  /\ StoreOK(I, D \cup {k}, k, A, s, fl)
         /\ CurNum(I, k) = CurNum(I, d) /\ ManNode(I, k) = ManNode(I, d)
<1>1. d \in D /\ DOMAIN k \subseteq DOMAIN d /\ \A g \in DOMAIN k : k[g] = d[g]
  BY DEF StoreOK, WithoutFile
<1>2. \A g \in DOMAIN k : k[g] \in 1..Len(I)
  BY <1>1 DEF StoreOK, NamesOK
<1>3. \A g \in Needed(I, d) : g \in DOMAIN d => g \in DOMAIN k /\ k[g] = d[g]
  BY DEF WithoutFile
<1>4. NamesApart(D \cup {k})
  <2> SUFFICES ASSUME NEW e \in D \cup {k}, NEW h \in D \cup {k}, NEW x \in DOMAIN e,
                      NEW y \in DOMAIN h, e[x] = h[y]
               PROVE  Alias(x, y)
    BY DEF NamesApart
  <2>1. PICK p \in D : x \in DOMAIN p /\ e[x] = p[x]
    BY <1>1
  <2>2. PICK q \in D : y \in DOMAIN q /\ h[y] = q[y]
    BY <1>1
  <2>3. \A u, v \in D : \A f1 \in DOMAIN u, f2 \in DOMAIN v : u[f1] = v[f2] => Alias(f1, f2)
    BY DEF StoreOK, NamesApart
  <2>4. p[x] = q[y]
    BY <2>1, <2>2
  <2> QED
    BY <2>1, <2>2, <2>3, <2>4, Zenon
<1>5. LeadsAsBefore(I, d, k)
  BY <1>2, <1>3 DEF LeadsAsBefore
<1> QED
  BY <1>4, <1>5, DirAdded

\* A file is created under a name CURRENT does not lead to.
WithFile(I, d, f) == [g \in DOMAIN d \cup {f} |-> IF g = f THEN Len(I) + 1 ELSE d[g]]
Created(I, d, J, k, f) ==
  /\ f \in DOMAIN k /\ J[k[f]] = EmptyNode
  /\ CurNum(J, k) = CurNum(I, d) /\ ManNode(J, k) = ManNode(I, d)
  /\ \A g \in DOMAIN d : g # f => g \in DOMAIN k /\ J[k[g]] = I[d[g]]

LEMMA FileCreated ==
  ASSUME NEW I, NEW D, NEW d, NEW A, NEW s, NEW fl, StoreOK(I, D, d, A, s, fl),
         NEW f, f \notin Needed(I, d), NEW J, J = Append(I, EmptyNode),
         NEW k, k = WithFile(I, d, f)
  PROVE  StoreOK(J, D \cup {k}, k, A, s, fl) /\ Created(I, d, J, k, f)
<1>1. /\ d \in D /\ I \in Seq(FileNodes) /\ \A i \in 1..Len(I) : NodeOK(I[i])
      /\ \A e \in D : \A g \in DOMAIN e : e[g] \in 1..Len(I)
      /\ \A e \in D : DirOK(I, e, A, s) /\ e[Log] = d[Log]
  BY DEF StoreOK, InodesOK, NamesOK, DirsOK, OneLog
<1>2. EmptyNode \in FileNodes /\ NodeOK(EmptyNode)
  BY DEF EmptyNode, FileNodes, NodeOK
<1>3. /\ J \in Seq(FileNodes) /\ Len(J) = Len(I) + 1 /\ J[Len(I) + 1] = EmptyNode
      /\ \A i \in 1..Len(I) : J[i] = I[i] /\ i \in 1..Len(J)
      /\ Len(I) \in Nat /\ Len(I) + 1 \notin 1..Len(I)
  BY <1>1, <1>2
<1>4. InodesOK(J)
  BY <1>1, <1>2, <1>3 DEF InodesOK
<1>5. \A e \in D : \A g \in DOMAIN e : J[e[g]] = I[e[g]]
  BY <1>1, <1>3
<1>6. \A e \in D : /\ CURRENT \in DOMAIN e /\ Log \in DOMAIN e
                   /\ Manifest(CurNum(I, e)) \in DOMAIN e /\ s <= I[e[Log]].disk
  BY <1>1, DirNames
<1>7. ASSUME NEW e \in D PROVE DirSame(I, J, e, s)
  BY <1>5, <1>6 DEF DirSame, ManNode
<1>8. DirsOK(J, D, A, s)
  BY <1>1, <1>7, DirKept DEF DirsOK
<1>9. LastOK(J, d, fl)
  <2>1. J[d[Manifest(CurNum(I, d))]] = ManNode(I, d) /\ J[d[Log]] = I[d[Log]]
    BY <1>1, <1>5, <1>6 DEF ManNode
  <2>3. LastOK(I, d, fl) /\ DirOK(I, d, A, s) /\ DirSame(I, J, d, s) /\ fl <= J[d[Log]].cached
    BY <1>1, <1>7, <2>1 DEF StoreOK, LastOK
  <2> QED
    BY <2>1, <2>3, LastKept
<1>10. NamesOK(J, D)
  BY <1>1, <1>3 DEF NamesOK
<1>11. StoreOK(J, D, d, A, s, fl)
  BY <1>1, <1>4, <1>8, <1>9, <1>10 DEF StoreOK
<1>12. CurNum(J, d) = CurNum(I, d) /\ ManNode(J, d) = ManNode(I, d)
  <2>1. CurNum(J, d) = CurNum(I, d)
    BY <1>1, <1>5, <1>6 DEF CurNum
  <2> QED
    BY <1>1, <1>5, <1>6, <2>1 DEF ManNode
<1>13. Needed(J, d) = Needed(I, d)
  BY <1>12 DEF Needed
<1>14. /\ f \in DOMAIN k /\ k[f] = Len(I) + 1
       /\ \A g \in DOMAIN d : g # f => g \in DOMAIN k /\ k[g] = d[g]
       /\ \A g \in DOMAIN k : g # f => g \in DOMAIN d
  BY DEF WithFile
<1>15. \A g \in DOMAIN k : k[g] \in 1..Len(J)
  BY <1>1, <1>3, <1>14
<1>16. \A g \in Needed(J, d) : g \in DOMAIN d => g \in DOMAIN k /\ k[g] = d[g]
  BY <1>13, <1>14
<1>17. NamesApart(D \cup {k})
  <2> SUFFICES ASSUME NEW e \in D \cup {k}, NEW h \in D \cup {k}, NEW x \in DOMAIN e,
                      NEW y \in DOMAIN h, e[x] = h[y]
               PROVE  Alias(x, y)
    BY DEF NamesApart
  <2>1. \/ e = k /\ x = f /\ e[x] = Len(I) + 1
        \/ \E p \in D : x \in DOMAIN p /\ e[x] = p[x]
    BY <1>1, <1>14
  <2>2. \/ h = k /\ y = f /\ h[y] = Len(I) + 1
        \/ \E q \in D : y \in DOMAIN q /\ h[y] = q[y]
    BY <1>1, <1>14
  <2>3. CASE x = f /\ y = f
    BY <2>3, AliasOf
  <2>4. CASE ~(x = f /\ y = f)
    <3>1. PICK p \in D : x \in DOMAIN p /\ e[x] = p[x]
      BY <1>1, <1>3, <2>1, <2>2, <2>4
    <3>2. PICK q \in D : y \in DOMAIN q /\ h[y] = q[y]
      BY <1>1, <1>3, <2>1, <2>2, <2>4, <3>1
    <3> QED
      BY <3>1, <3>2 DEF StoreOK, NamesApart
  <2> QED
    BY <2>3, <2>4
<1>18. /\ StoreOK(J, D \cup {k}, k, A, s, fl)
       /\ CurNum(J, k) = CurNum(J, d) /\ ManNode(J, k) = ManNode(J, d)
  <2>1. LeadsAsBefore(J, d, k)
    BY <1>15, <1>16 DEF LeadsAsBefore
  <2> QED
    BY <1>11, <1>17, <2>1, DirAdded
<1>19. \A g \in DOMAIN d : g # f => g \in DOMAIN k /\ J[k[g]] = I[d[g]]
  BY <1>1, <1>5, <1>14
<1>20. J[k[f]] = EmptyNode
  BY <1>3, <1>14
<1> QED
  BY <1>12, <1>14, <1>18, <1>19, <1>20 DEF Created

\* The temporary file becomes CURRENT.
ReadyToRename(I, d, n) ==
  /\ Temp(n) \in DOMAIN d /\ I[d[Temp(n)]].data = Line(n) /\ I[d[Temp(n)]].disk = 2
  /\ Manifest(n) \in DOMAIN d /\ I[d[Manifest(n)]].data = ManNode(I, d).data
  /\ I[d[Manifest(n)]].disk = Len(ManNode(I, d).data)
WithCurrent(d, f) ==
  [h \in (DOMAIN d \ {f}) \cup {CURRENT} |-> IF h = CURRENT THEN d[f] ELSE d[h]]

LEMMA FileRenamed ==
  ASSUME NEW I, NEW D, NEW d, NEW A, NEW s, NEW fl, StoreOK(I, D, d, A, s, fl),
         NEW n \in Nat, ReadyToRename(I, d, n), NEW k, k = WithCurrent(d, Temp(n))
  PROVE  /\ StoreOK(I, D \cup {k}, k, A, s, fl)
         /\ CurNum(I, k) = n /\ ManNode(I, k).data = ManNode(I, d).data
<1>0. /\ Temp(n) \in DOMAIN d /\ I[d[Temp(n)]].data = Line(n) /\ I[d[Temp(n)]].disk = 2
      /\ Manifest(n) \in DOMAIN d /\ I[d[Manifest(n)]].data = ManNode(I, d).data
      /\ I[d[Manifest(n)]].disk = Len(ManNode(I, d).data)
  BY DEF ReadyToRename
<1>1. d \in D /\ \A e \in D : DirOK(I, e, A, s) /\ e[Log] = d[Log]
  BY DEF StoreOK, DirsOK, OneLog
<1>2. /\ CURRENT \in DOMAIN d /\ Log \in DOMAIN d
      /\ Manifest(CurNum(I, d)) \in DOMAIN d /\ s <= I[d[Log]].disk
  BY <1>1, DirNames
<1>3. /\ CURRENT \in DOMAIN k /\ k[CURRENT] = d[Temp(n)]
      /\ \A g \in DOMAIN d : g # CURRENT /\ g # Temp(n) => g \in DOMAIN k /\ k[g] = d[g]
      /\ \A g \in DOMAIN k : g # CURRENT => g \in DOMAIN d /\ k[g] = d[g]
  BY DEF WithCurrent
<1>4. Log \in DOMAIN k /\ k[Log] = d[Log] /\ Manifest(n) \in DOMAIN k /\ k[Manifest(n)] = d[Manifest(n)]
  BY <1>0, <1>2, <1>3, NamesDiffer
<1>5. CurNum(I, k) = n
  BY <1>0, <1>3 DEF CurNum, Line
<1>6. ManNode(I, k).data = ManNode(I, d).data /\ ManNode(I, k).disk = Len(ManNode(I, d).data)
  BY <1>0, <1>4, <1>5 DEF ManNode
<1>7. CurOK(I, k) /\ LogOK(I, k, s)
  BY <1>0, <1>2, <1>3, <1>4, <1>5 DEF CurOK, LogOK
<1>8. TablesTo(I, k, Len(ManNode(I, d).data))
  <2> SUFFICES ASSUME NEW j \in 1..Len(ManNode(I, d).data)
               PROVE  TableAt(I, k, ManNode(I, k).data[j])
    BY DEF TablesTo
  <2>1. TableAt(I, d, ManNode(I, d).data[j])
    BY DEF StoreOK, LastOK, TablesTo
  <2> QED
    BY <1>3, <1>6, <2>1, NamesDiffer DEF TableAt
<1>9. AckedOK(I, k, A)
  <2>1. ManNode(I, d).disk \in Nat /\ ManNode(I, d).disk <= Len(ManNode(I, d).data)
        /\ Len(ManNode(I, d).data) \in Nat
    <3>1. d[Manifest(CurNum(I, d))] \in 1..Len(I)
      BY <1>1, <1>2 DEF StoreOK, NamesOK
    <3>2. NodeOK(ManNode(I, d))
      BY <3>1 DEF StoreOK, InodesOK, ManNode
    <3> QED
      BY <3>2 DEF NodeOK, FileNodes
  <2>2. AckedOK(I, d, A)
    BY <1>1 DEF DirOK
  <2> QED
    BY <1>6, <2>1, <2>2 DEF AckedOK
<1>10. DirsOK(I, D \cup {k}, A, s)
  BY <1>1, <1>6, <1>7, <1>8, <1>9 DEF DirsOK, DirOK
<1>11. LastOK(I, k, fl)
  BY <1>4, <1>6, <1>8 DEF StoreOK, LastOK
<1>12. NamesOK(I, D \cup {k})
  BY <1>0, <1>1, <1>3 DEF StoreOK, NamesOK
<1>13. OneLog(D \cup {k}, k)
  BY <1>1, <1>4 DEF OneLog
<1>14. NamesApart(D \cup {k})
  <2> SUFFICES ASSUME NEW e \in D \cup {k}, NEW h \in D \cup {k}, NEW x \in DOMAIN e,
                      NEW y \in DOMAIN h, e[x] = h[y]
               PROVE  Alias(x, y)
    BY DEF NamesApart
  <2>0. \A p, q \in D : \A u \in DOMAIN p, v \in DOMAIN q : p[u] = q[v] => Alias(u, v)
    BY DEF StoreOK, NamesApart
  <2>1. \/ e = k /\ x = CURRENT /\ e[x] = d[Temp(n)]
        \/ \E p \in D : x \in DOMAIN p /\ e[x] = p[x]
    BY <1>1, <1>3
  <2>2. \/ h = k /\ y = CURRENT /\ h[y] = d[Temp(n)]
        \/ \E q \in D : y \in DOMAIN q /\ h[y] = q[y]
    BY <1>1, <1>3
  <2>3. \A z : Alias(Temp(n), z) => Alias(CURRENT, z) /\ Alias(z, CURRENT)
    BY DEF Alias, CURRENT, Temp
  <2>4. CASE e = k /\ x = CURRENT /\ e[x] = d[Temp(n)]
    <3>1. CASE h = k /\ y = CURRENT /\ h[y] = d[Temp(n)]
      BY <2>4, <3>1, AliasOf
    <3>2. CASE \E q \in D : y \in DOMAIN q /\ h[y] = q[y]
      <4>1. Alias(Temp(n), y)
        BY <1>0, <1>1, <2>0, <2>4, <3>2
      <4> QED
        BY <2>3, <2>4, <4>1
    <3> QED
      BY <2>2, <3>1, <3>2
  <2>5. CASE \E p \in D : x \in DOMAIN p /\ e[x] = p[x]
    <3>1. CASE h = k /\ y = CURRENT /\ h[y] = d[Temp(n)]
      <4>1. Alias(Temp(n), x)
        BY <1>0, <1>1, <2>0, <2>5, <3>1
      <4> QED
        BY <2>3, <3>1, <4>1
    <3>2. CASE \E q \in D : y \in DOMAIN q /\ h[y] = q[y]
      BY <2>0, <2>5, <3>2
    <3> QED
      BY <2>2, <3>1, <3>2
  <2> QED
    BY <2>1, <2>4, <2>5
<1> QED
  BY <1>5, <1>6, <1>10, <1>11, <1>12, <1>13, <1>14 DEF StoreOK

\* b is what a crash leaves of a.
Remains(a, b) ==
  /\ NodeOK(b) /\ Len(b.data) <= Len(a.data) /\ \A j \in 1..Len(b.data) : b.data[j] = a.data[j]
  /\ a.disk = Len(a.data) => b.data = a.data

\* SubSeq keeps the first n.
LEMMA CutNode ==
  ASSUME NEW a, NodeOK(a), NEW n \in Nat, a.disk <= n, n <= Len(a.data),
         NEW c \in Nat, c <= n, NEW b, b = [data |-> SubSeq(a.data, 1, n), cached |-> n, disk |-> c]
  PROVE  Remains(a, b) /\ Len(b.data) = n /\ b \in FileNodes
<1>1. a.data \in Seq(Datum) /\ a.disk \in Nat /\ Len(a.data) \in Nat
  BY DEF NodeOK, FileNodes
<1>2. b.data = SubSeq(a.data, 1, n) /\ b.cached = n /\ b.disk = c
  OBVIOUS
<1>3. /\ b.data \in Seq(Datum) /\ Len(b.data) = n
      /\ \A j \in 1..n : b.data[j] = a.data[j]
  BY <1>1, <1>2
<1>4. b \in FileNodes
  BY <1>3 DEF FileNodes
<1>5. NodeOK(b)
  BY <1>2, <1>3, <1>4 DEF NodeOK
<1>6. a.disk = Len(a.data) => b.data = a.data
  <2> SUFFICES ASSUME a.disk = Len(a.data) PROVE b.data = a.data
    OBVIOUS
  <2>1. Len(b.data) = Len(a.data)
    BY <1>1, <1>3
  <2> QED
    BY <1>1, <1>3, <2>1, SeqEqual
<1> QED
  BY <1>3, <1>4, <1>5, <1>6 DEF Remains

\* The process stops: no file is shorter than what left its buffer.
LEMMA ProcessLoses ==
  ASSUME NEW I, NEW D, NEW d, NEW A, NEW s, NEW fl \in Nat, StoreOK(I, D, d, A, s, fl),
         NEW J \in Seq(FileNodes), Len(J) = Len(I),
         \A i \in 1..Len(I) : /\ Remains(I[i], J[i]) /\ J[i].disk = I[i].disk
                              /\ I[i].cached <= J[i].cached
  PROVE  StoreOK(J, D, d, A, s, fl)
<1>1. /\ d \in D /\ I \in Seq(FileNodes) /\ \A i \in 1..Len(I) : NodeOK(I[i])
      /\ \A e \in D : \A g \in DOMAIN e : e[g] \in 1..Len(I)
      /\ \A e \in D : DirOK(I, e, A, s) /\ e[Log] = d[Log]
  BY DEF StoreOK, InodesOK, NamesOK, DirsOK, OneLog
<1>2. InodesOK(J)
  BY DEF InodesOK, Remains
<1>3. \A e \in D : \A g \in DOMAIN e :
         /\ NodeOK(I[e[g]]) /\ Remains(I[e[g]], J[e[g]]) /\ J[e[g]].disk = I[e[g]].disk
         /\ I[e[g]].cached <= J[e[g]].cached
  BY <1>1
<1>4. ASSUME NEW a, NEW b, NodeOK(a), Remains(a, b), b.disk = a.disk
      PROVE  /\ WholeTable(a) => WholeTable(b)
             /\ \A j \in 1..a.disk : b.data[j] = a.data[j]
  <2>1. a.disk \in Nat /\ Len(a.data) \in Nat /\ b.disk \in Nat /\ Len(b.data) \in Nat
        /\ b.disk <= Len(b.data)
    BY <1>4 DEF NodeOK, FileNodes, Remains
  <2>2. WholeTable(a) => WholeTable(b)
    BY <1>4 DEF Remains, WholeTable
  <2>3. \A j \in 1..a.disk : j \in 1..Len(b.data)
    BY <1>4, <2>1
  <2>4. \A j \in 1..a.disk : b.data[j] = a.data[j]
    BY <1>4, <2>3 DEF Remains
  <2> QED
    BY <2>2, <2>4
<1>5. \A e \in D : /\ CURRENT \in DOMAIN e /\ Log \in DOMAIN e /\ Manifest(CurNum(I, e)) \in DOMAIN e
                   /\ s <= I[e[Log]].disk /\ I[e[CURRENT]].disk = 2
                   /\ I[e[CURRENT]].data = Line(CurNum(I, e))
  BY <1>1, DirNames
<1>6. ASSUME NEW e \in D PROVE DirSame(I, J, e, s)
  <2>1. J[e[CURRENT]].data = I[e[CURRENT]].data /\ J[e[CURRENT]].disk = I[e[CURRENT]].disk
    <3>1. Len(I[e[CURRENT]].data) = 2
      BY <1>5 DEF Line
    <3> QED
      BY <1>3, <1>5, <3>1 DEF Remains
  <2>2. J[e[Manifest(CurNum(I, e))]].disk = ManNode(I, e).disk
        /\ \A j \in 1..ManNode(I, e).disk :
             J[e[Manifest(CurNum(I, e))]].data[j] = ManNode(I, e).data[j]
    BY <1>3, <1>4, <1>5 DEF ManNode
  <2>3. \A m \in Nat : Ldb(m) \in DOMAIN e /\ WholeTable(I[e[Ldb(m)]]) => WholeTable(J[e[Ldb(m)]])
    BY <1>3, <1>4
  <2>4. s <= J[e[Log]].disk
    BY <1>3, <1>5
  <2> QED
    BY <2>1, <2>2, <2>3, <2>4 DEF DirSame
<1>7. DirsOK(J, D, A, s)
  BY <1>1, <1>6, DirKept DEF DirsOK
<1>8. LastOK(J, d, fl)
  <2> DEFINE b == J[d[Manifest(CurNum(I, d))]]
  <2>1. \A j \in 1..Len(b.data) : j \in 1..Len(ManNode(I, d).data) /\ b.data[j] = ManNode(I, d).data[j]
    <3>1. NodeOK(ManNode(I, d)) /\ Remains(ManNode(I, d), b)
      BY <1>1, <1>3, <1>5 DEF ManNode
    <3>2. Len(b.data) \in Nat /\ Len(ManNode(I, d).data) \in Nat /\ Len(b.data) <= Len(ManNode(I, d).data)
      <4>1. PICK x, y : x = ManNode(I, d) /\ y = b
        OBVIOUS
      <4>2. NodeOK(x) /\ NodeOK(y) /\ Len(y.data) <= Len(x.data)
        BY <3>1, <4>1 DEF Remains
      <4>3. x.data \in Seq(Datum) /\ y.data \in Seq(Datum)
        BY <4>2 DEF NodeOK, FileNodes
      <4>4. Len(x.data) \in Nat /\ Len(y.data) \in Nat
        BY <4>3, LenProperties
      <4> QED
        BY <4>1, <4>2, <4>4
    <3> QED
      BY <3>1, <3>2 DEF Remains
  <2>2. fl <= J[d[Log]].cached
    <3>1. fl <= I[d[Log]].cached
      BY DEF StoreOK, LastOK
    <3>2. I[d[Log]].cached <= J[d[Log]].cached /\ NodeOK(I[d[Log]]) /\ NodeOK(J[d[Log]])
      BY <1>1, <1>3, <1>5 DEF Remains
    <3> QED
      <4>1. I[d[Log]].cached \in Nat /\ J[d[Log]].cached \in Nat
        BY <3>2 DEF NodeOK, FileNodes
      <4> QED
        BY <3>1, <3>2, <4>1
  <2>3. LastOK(I, d, fl) /\ DirOK(I, d, A, s) /\ DirSame(I, J, d, s)
    BY <1>1, <1>6 DEF StoreOK
  <2> QED
    BY <2>1, <2>2, <2>3, LastKept
<1>9. NamesOK(J, D)
  BY <1>1 DEF NamesOK
<1> QED
  BY <1>1, <1>2, <1>7, <1>8, <1>9 DEF StoreOK

\* The machine stops and comes back with directory e: every file of it has at
\* least what was on the disk, an older directory exactly that.
LEMMA MachineLoses ==
  ASSUME NEW I, NEW D, NEW d, NEW A, NEW s \in Nat, NEW fl, StoreOK(I, D, d, A, s, fl),
         NEW e \in D, NEW J, InodesOK(J), Len(J) = Len(I),
         \A g \in DOMAIN e : /\ Remains(I[e[g]], J[e[g]]) /\ I[e[g]].disk <= J[e[g]].disk
                             /\ J[e[g]].disk = Len(J[e[g]].data) /\ J[e[g]].cached = J[e[g]].disk
                             /\ e # d => J[e[g]].disk = I[e[g]].disk
  PROVE  StoreOK(J, {e}, e, A, s, s)
<1>1. /\ d \in D /\ \A i \in 1..Len(I) : NodeOK(I[i])
      /\ \A g \in DOMAIN e : e[g] \in 1..Len(I)
      /\ DirOK(I, e, A, s)
      /\ \A f \in DOMAIN e, h \in DOMAIN e : e[f] = e[h] => Alias(f, h)
  BY DEF StoreOK, InodesOK, NamesOK, DirsOK, NamesApart
<1>2. \A g \in DOMAIN e :
         /\ NodeOK(I[e[g]]) /\ Remains(I[e[g]], J[e[g]]) /\ I[e[g]].disk <= J[e[g]].disk
         /\ J[e[g]].disk = Len(J[e[g]].data) /\ J[e[g]].cached = J[e[g]].disk
         /\ e # d => J[e[g]].disk = I[e[g]].disk
  BY <1>1
<1>3. /\ CURRENT \in DOMAIN e /\ Log \in DOMAIN e /\ Manifest(CurNum(I, e)) \in DOMAIN e
      /\ s <= I[e[Log]].disk /\ I[e[CURRENT]].disk = 2
      /\ I[e[CURRENT]].data = Line(CurNum(I, e))
  BY <1>1, DirNames
<1>4. ASSUME NEW g \in DOMAIN e
      PROVE  /\ I[e[g]].disk \in Nat /\ Len(I[e[g]].data) \in Nat
             /\ J[e[g]].disk \in Nat /\ Len(J[e[g]].data) \in Nat
             /\ I[e[g]].disk = Len(I[e[g]].data)
                   => J[e[g]].data = I[e[g]].data /\ J[e[g]].disk = I[e[g]].disk
             /\ \A j \in 1..J[e[g]].disk : j \in 1..Len(I[e[g]].data) /\ J[e[g]].data[j] = I[e[g]].data[j]
  <2>1. /\ I[e[g]].disk \in Nat /\ Len(I[e[g]].data) \in Nat /\ J[e[g]].disk \in Nat
        /\ Len(J[e[g]].data) \in Nat
    BY <1>2 DEF Remains, NodeOK, FileNodes
  <2> QED
    BY <1>2, <2>1 DEF Remains
<1>5. J[e[CURRENT]].data = I[e[CURRENT]].data /\ J[e[CURRENT]].disk = 2
  <2>1. Len(I[e[CURRENT]].data) = 2
    BY <1>3 DEF Line
  <2> QED
    BY <1>3, <1>4, <2>1
<1>6. CurNum(J, e) = CurNum(I, e)
  BY <1>5 DEF CurNum
<1>7. ManNode(J, e) = J[e[Manifest(CurNum(I, e))]]
  BY <1>6 DEF ManNode
<1>8. CurOK(J, e)
  BY <1>1, <1>5, <1>6 DEF DirOK, CurOK
<1>9. LogOK(J, e, s) /\ s <= J[e[Log]].cached
  BY <1>2, <1>3, <1>4 DEF LogOK
<1>10. \A r : TableAt(I, e, r) => TableAt(J, e, r)
  <2> SUFFICES ASSUME NEW r, TableAt(I, e, r) PROVE TableAt(J, e, r)
    OBVIOUS
  <2>1. Ldb(r) \in DOMAIN e /\ WholeTable(I[e[Ldb(r)]])
    BY DEF TableAt
  <2>2. WholeTable(J[e[Ldb(r)]])
    BY <1>4, <2>1 DEF WholeTable
  <2> QED
    BY <2>1, <2>2 DEF TableAt
<1>11. /\ ManNode(I, e).disk \in Nat /\ ManNode(J, e).disk \in Nat
       /\ ManNode(I, e).disk <= ManNode(J, e).disk /\ ManNode(J, e).disk = Len(ManNode(J, e).data)
       /\ \A j \in 1..ManNode(J, e).disk : /\ j \in 1..Len(ManNode(I, e).data)
                                           /\ ManNode(J, e).data[j] = ManNode(I, e).data[j]
       /\ e # d => ManNode(J, e).disk = ManNode(I, e).disk
  BY <1>2, <1>3, <1>4, <1>7 DEF ManNode
<1>12. TablesTo(J, e, ManNode(J, e).disk)
  <2>1. CASE e = d
    <3>1. \A j \in 1..Len(ManNode(I, e).data) : TableAt(I, e, ManNode(I, e).data[j])
      BY <2>1 DEF StoreOK, LastOK, TablesTo
    <3> QED
      BY <1>10, <1>11, <3>1 DEF TablesTo
  <2>2. CASE e # d
    <3>1. \A j \in 1..ManNode(I, e).disk : TableAt(I, e, ManNode(I, e).data[j])
      BY <1>1 DEF DirOK, TablesTo
    <3> QED
      BY <1>10, <1>11, <2>2, <3>1 DEF TablesTo
  <2> QED
    BY <2>1, <2>2
<1>13. AckedOK(J, e, A)
  <2> SUFFICES ASSUME NEW a \in A
               PROVE  \E j \in 1..ManNode(J, e).disk : ManNode(J, e).data[j] = a
    BY DEF AckedOK
  <2>1. PICK j \in 1..ManNode(I, e).disk : ManNode(I, e).data[j] = a
    BY <1>1 DEF DirOK, AckedOK
  <2>2. j \in 1..ManNode(J, e).disk
    BY <1>11
  <2> QED
    BY <1>11, <2>1, <2>2
<1>14. DirsOK(J, {e}, A, s)
  BY <1>8, <1>9, <1>12, <1>13 DEF DirsOK, DirOK
<1>15. LastOK(J, e, s)
  BY <1>9, <1>11, <1>12 DEF LastOK
<1>16. NamesOK(J, {e})
  BY <1>1 DEF NamesOK
<1>17. NamesApart({e}) /\ OneLog({e}, e)
  BY <1>1 DEF NamesApart, OneLog
<1> QED
  BY <1>14, <1>15, <1>16, <1>17 DEF StoreOK

-----------------------------------------------------------------------------
(* The job that writes a file, and the steps. *)

Dirs == {names[k] : k \in 1..Len(names)}

\* A file number above the tables the MANIFEST records.
Fresh(I, d, n) ==
  n \in Nat /\ \A j \in 1..Len(ManNode(I, d).data) : ManNode(I, d).data[j] < n

\* How far a new file f with contents z has come.
Made(I, d, f, at, z) ==
  /\ at # "new" => f \in DOMAIN d
  /\ at = "append" => I[d[f]].data = <<>> /\ I[d[f]].disk = 0
  /\ at = "sync" => I[d[f]].data = z /\ I[d[f]].disk = 0
  /\ at \in {"close", "rename"} => I[d[f]].data = z /\ I[d[f]].disk = Len(z)

FileSteps == {"new", "append", "flush", "sync", "close", "rename"}

LogJob(I, d, j) ==
  /\ j.what = "log" /\ j.at \in {"append", "flush", "sync"}
  /\ j.file = Log /\ j.data = <<"record">>
TableJob(I, d, j) ==
  /\ j.what = "table" /\ j.at \in {"new", "append", "sync", "close"}
  /\ j.file = Ldb(j.number) /\ j.data = <<"half", "half">>
  /\ Made(I, d, j.file, j.at, j.data)
RecordJob(I, d, j) ==
  /\ j.what = "record" /\ j.at \in {"append", "sync"}
  /\ j.file = Manifest(CurNum(I, d))
  /\ j.number > 0 /\ j.data = <<j.number - 1>> /\ TableAt(I, d, j.number - 1)
ManifestJob(I, d, j) ==
  /\ j.what = "manifest" /\ j.at \in {"new", "append", "sync"}
  /\ j.file = Manifest(j.number) /\ j.number # CurNum(I, d) /\ j.data = ManNode(I, d).data
  /\ Made(I, d, j.file, j.at, j.data)
\* The MANIFEST that CURRENT is to name is whole and on the disk.
CurrentJob(I, d, j) ==
  /\ j.what = "current" /\ j.at \in {"new", "append", "sync", "close", "rename"}
  /\ j.file = Temp(j.number) /\ j.number # CurNum(I, d) /\ j.data = Line(j.number)
  /\ Made(I, d, j.file, j.at, j.data)
  /\ Manifest(j.number) \in DOMAIN d
  /\ I[d[Manifest(j.number)]].data = ManNode(I, d).data
  /\ I[d[Manifest(j.number)]].disk = Len(ManNode(I, d).data)
Busy(I, d, j) ==
  \/ LogJob(I, d, j) \/ TableJob(I, d, j) \/ RecordJob(I, d, j)
  \/ ManifestJob(I, d, j) \/ CurrentJob(I, d, j)

\* A file that is to be deleted is one CURRENT does not lead to.
UndoJob(I, d, j) ==
  \/ j.what = "table" /\ j.file = Ldb(j.number) /\ Fresh(I, d, j.number)
  \/ j.what = "manifest" /\ j.file = Manifest(j.number) /\ j.number # CurNum(I, d)
  \/ j.what = "current" /\ j.file = Temp(j.number) /\ j.number # CurNum(I, d)

JobFields == {"what", "at", "file", "data", "number"}
JobOK(I, d, j) ==
  /\ DOMAIN j = JobFields
  /\ j.at = "idle" => Fresh(I, d, j.number)
  /\ j.at = "clean" => j.number = CurNum(I, d) /\ Fresh(I, d, j.number + 1)
  /\ j.at = "closed" => I[d[Log]].cached = Len(I[d[Log]].data)
  /\ j.at = "undo" => UndoJob(I, d, j)
  /\ j.at \in FileSteps => Fresh(I, d, j.number) /\ Busy(I, d, j)

FileInv ==
  /\ names \in Seq(Dirs) /\ Len(names) > 0
  /\ promised \in [flushed : Nat, synced : Nat]
  /\ StoreOK(inode, Dirs, Dir, acked, promised.synced, promised.flushed)
  /\ JobOK(inode, Dir, job)

\* The directory stays, changes once more, or is synced.
LEMMA DirStays ==
  ASSUME names \in Seq(Dirs), Len(names) > 0, UNCHANGED names
  PROVE  Dirs' = Dirs /\ Dir' = Dir /\ names' \in Seq(Dirs') /\ Len(names') > 0
  BY DEF Dirs, Dir

LEMMA DirGrows ==
  ASSUME names \in Seq(Dirs), Len(names) > 0, NEW k, names' = Append(names, k)
  PROVE  Dirs' = Dirs \cup {k} /\ Dir' = k /\ names' \in Seq(Dirs') /\ Len(names') > 0
<1>1. Len(names) \in Nat /\ Len(names') = Len(names) + 1
  OBVIOUS
<1>2. names'[Len(names) + 1] = k /\ \A i \in 1..Len(names) : names'[i] = names[i]
  OBVIOUS
<1>3. Dir' = k
  BY <1>1, <1>2 DEF Dir
<1>4. Dirs' = {names'[i] : i \in 1..Len(names')}
  BY DEF Dirs
<1>5. \A x : x \in Dirs' <=> x \in Dirs \cup {k}
  <2> SUFFICES ASSUME NEW x PROVE x \in Dirs' <=> x \in Dirs \cup {k}
    OBVIOUS
  <2>1. x \in Dirs' <=> \E i \in 1..Len(names') : x = names'[i]
    BY <1>4
  <2>2. x \in Dirs <=> \E i \in 1..Len(names) : x = names[i]
    BY DEF Dirs
  <2>3. \A i : i \in 1..Len(names') <=> i \in 1..Len(names) \/ i = Len(names) + 1
    BY <1>1
  <2> QED
    BY <1>2, <2>1, <2>2, <2>3
<1>6. Dirs' = Dirs \cup {k}
  BY <1>5
<1>7. names' \in Seq(Dirs \cup {k})
  OBVIOUS
<1> QED
  BY <1>1, <1>3, <1>6, <1>7

LEMMA DirAlone ==
  ASSUME NEW k, names' = <<k>>
  PROVE  Dirs' = {k} /\ Dir' = k /\ names' \in Seq(Dirs') /\ Len(names') > 0
<1>1. Len(names') = 1 /\ names'[1] = k
  OBVIOUS
<1>2. Dirs' = {names'[i] : i \in 1..Len(names')} /\ Dir' = names'[Len(names')]
  BY DEF Dirs, Dir
<1>3. \A x : x \in Dirs' <=> x = k
  BY <1>1, <1>2
<1>4. Dirs' = {k}
  BY <1>3
<1>5. names' \in Seq({k})
  OBVIOUS
<1> QED
  BY <1>1, <1>2, <1>4, <1>5

\* What the steps use of the invariant.
LEMMA FileFacts ==
  ASSUME FileInv
  PROVE  /\ CURRENT \in DOMAIN Dir /\ Log \in DOMAIN Dir
         /\ Manifest(CurNum(inode, Dir)) \in DOMAIN Dir /\ CurNum(inode, Dir) \in Nat
         /\ Dir \in Dirs /\ inode \in Seq(FileNodes)
         /\ \A f \in DOMAIN Dir : Dir[f] \in 1..Len(inode) /\ NodeOK(inode[Dir[f]])
         /\ CurrentNumber = CurNum(inode, Dir)
         /\ Recorded = {ManNode(inode, Dir).data[i] : i \in 1..Len(ManNode(inode, Dir).data)}
         /\ \A j \in 1..Len(ManNode(inode, Dir).data) : TableAt(inode, Dir, ManNode(inode, Dir).data[j])
         /\ promised.synced \in Nat /\ promised.flushed \in Nat
<1>1. /\ Dir \in Dirs /\ inode \in Seq(FileNodes) /\ \A i \in 1..Len(inode) : NodeOK(inode[i])
      /\ DirOK(inode, Dir, acked, promised.synced)
      /\ \A f \in DOMAIN Dir : Dir[f] \in 1..Len(inode)
  BY DEF FileInv, StoreOK, InodesOK, DirsOK, NamesOK
<1>2. /\ CURRENT \in DOMAIN Dir /\ Log \in DOMAIN Dir
      /\ Manifest(CurNum(inode, Dir)) \in DOMAIN Dir /\ CurNum(inode, Dir) \in Nat
  BY <1>1, DirNames
<1>3. CurrentNumber = CurNum(inode, Dir)
  BY DEF CurrentNumber, Contents, Node, CurNum
<1>4. Recorded = {ManNode(inode, Dir).data[i] : i \in 1..Len(ManNode(inode, Dir).data)}
  BY <1>3 DEF Recorded, Contents, Node, ManNode
<1>5. \A j \in 1..Len(ManNode(inode, Dir).data) : TableAt(inode, Dir, ManNode(inode, Dir).data[j])
  BY DEF FileInv, StoreOK, LastOK, TablesTo
<1>6. promised.synced \in Nat /\ promised.flushed \in Nat
  BY DEF FileInv
<1> QED
  BY <1>1, <1>2, <1>3, <1>4, <1>5, <1>6

\* A number above the recorded ones is no table that CURRENT leads to.
LEMMA FreshIsFree ==
  ASSUME NEW I, NEW d, NEW n, Fresh(I, d, n),
         \A j \in 1..Len(ManNode(I, d).data) : TableAt(I, d, ManNode(I, d).data[j])
  PROVE  Ldb(n) \notin Needed(I, d)
<1>1. n \in Nat /\ \A j \in 1..Len(ManNode(I, d).data) :
                      ManNode(I, d).data[j] \in Nat /\ ManNode(I, d).data[j] < n
  BY DEF Fresh, TableAt
<1>2. \A j \in 1..Len(ManNode(I, d).data) : Ldb(ManNode(I, d).data[j]) # Ldb(n)
  BY <1>1, NamesDiffer
<1> QED
  BY <1>2, NamesDiffer DEF Needed

LEMMA OthersAreFree ==
  ASSUME NEW I, NEW d, NEW n
  PROVE  /\ Temp(n) \notin Needed(I, d)
         /\ n # CurNum(I, d) => Manifest(n) \notin Needed(I, d)
  BY NamesDiffer DEF Needed

\* Writes start.
LEMMA WriteLogKeeps == FileInv /\ WriteLog => FileInv'
<1> SUFFICES ASSUME FileInv, WriteLog PROVE FileInv'
  OBVIOUS
<1>1. /\ Dirs' = Dirs /\ Dir' = Dir /\ names' \in Seq(Dirs') /\ Len(names') > 0
  BY DirStays DEF FileInv, WriteLog
<1>2. /\ inode' = inode /\ acked' = acked /\ promised' = promised /\ job.at = "idle"
      /\ job' = [what |-> "log", at |-> "append", file |-> Log, data |-> <<"record">>,
                 number |-> job.number]
  BY DEF WriteLog, Ghosts, FileWriting
<1>3. Fresh(inode, Dir, job.number)
  BY <1>2 DEF FileInv, JobOK
<1>4. JobOK(inode', Dir', job')
  <2>1. DOMAIN job' = JobFields
    BY <1>2 DEF JobFields
  <2>2. LogJob(inode, Dir, job')
    BY <1>2 DEF LogJob
  <2> QED
    BY <1>1, <1>2, <1>3, <2>1, <2>2 DEF JobOK, Busy, FileSteps
<1> QED
  BY <1>1, <1>2, <1>4 DEF FileInv

LEMMA WriteTableKeeps == FileInv /\ WriteTable => FileInv'
<1> SUFFICES ASSUME FileInv, WriteTable PROVE FileInv'
  OBVIOUS
<1>1. /\ Dirs' = Dirs /\ Dir' = Dir /\ names' \in Seq(Dirs') /\ Len(names') > 0
  BY DirStays DEF FileInv, WriteTable
<1>2. /\ inode' = inode /\ acked' = acked /\ promised' = promised /\ job.at = "idle"
      /\ job' = [what |-> "table", at |-> "new", file |-> Ldb(job.number),
                 data |-> <<"half", "half">>, number |-> job.number]
  BY DEF WriteTable, Ghosts, FileWriting
<1>3. Fresh(inode, Dir, job.number)
  BY <1>2 DEF FileInv, JobOK
<1>4. JobOK(inode', Dir', job')
  <2>1. DOMAIN job' = JobFields
    BY <1>2 DEF JobFields
  <2>2. TableJob(inode, Dir, job')
    BY <1>2 DEF TableJob, Made
  <2> QED
    BY <1>1, <1>2, <1>3, <2>1, <2>2 DEF JobOK, Busy, FileSteps
<1> QED
  BY <1>1, <1>2, <1>4 DEF FileInv

LEMMA StepTo ==
  ASSUME NEW j, DOMAIN j = JobFields, NEW at, NEW k, k = [j EXCEPT !.at = at]
  PROVE  /\ DOMAIN k = JobFields /\ k.at = at /\ k.what = j.what /\ k.file = j.file
         /\ k.data = j.data /\ k.number = j.number
  BY DEF JobFields

LEMMA BusyJob ==
  ASSUME NEW I, NEW d, NEW j, DOMAIN j = JobFields, j.at \in FileSteps,
         Fresh(I, d, j.number), Busy(I, d, j)
  PROVE  JobOK(I, d, j)
  BY DEF JobOK, FileSteps

LEMMA RestingJob ==
  ASSUME NEW I, NEW d, NEW n, Fresh(I, d, n), NEW j, j = Resting(n)
  PROVE  JobOK(I, d, j)
<1>1. DOMAIN j = JobFields /\ j.at = "idle" /\ j.number = n
  BY DEF Resting, FileWriting, JobFields
<1> QED
  BY <1>1 DEF JobOK, FileSteps

LEMMA FreshSame ==
  ASSUME NEW I, NEW d, NEW J, NEW k, NEW n, Fresh(I, d, n),
         ManNode(J, k).data = ManNode(I, d).data
  PROVE  Fresh(J, k, n)
  BY DEF Fresh

LEMMA LeadSame ==
  ASSUME NEW I, NEW J, NEW d, J[d[CURRENT]] = I[d[CURRENT]]
  PROVE  /\ CurNum(J, d) = CurNum(I, d)
         /\ J[d[Manifest(CurNum(I, d))]] = I[d[Manifest(CurNum(I, d))]]
               => ManNode(J, d) = ManNode(I, d)
  BY DEF CurNum, ManNode

LEMMA LeadKept ==
  ASSUME FileInv, NEW f, OthersStay(inode, inode', Dir, f), f # CURRENT
  PROVE  /\ CurNum(inode', Dir) = CurNum(inode, Dir)
         /\ f # Manifest(CurNum(inode, Dir)) => ManNode(inode', Dir) = ManNode(inode, Dir)
<1>1. inode'[Dir[CURRENT]] = inode[Dir[CURRENT]]
  BY FileFacts DEF OthersStay
<1>2. f # Manifest(CurNum(inode, Dir)) =>
        inode'[Dir[Manifest(CurNum(inode, Dir))]] = inode[Dir[Manifest(CurNum(inode, Dir))]]
  BY FileFacts DEF OthersStay
<1> QED
  BY <1>1, <1>2, LeadSame

LEMMA BusyNow ==
  ASSUME FileInv, job.at \in FileSteps
  PROVE  Fresh(inode, Dir, job.number) /\ Busy(inode, Dir, job) /\ DOMAIN job = JobFields
         /\ job.number \in Nat
  BY DEF FileInv, JobOK, Fresh

\* fopen: the file is a new one, older states of the directory keep theirs.
LEMMA NewFileKeeps == FileInv /\ NewFile => FileInv'
<1> SUFFICES ASSUME FileInv, NewFile PROVE FileInv'
  OBVIOUS
<1>1. job.at = "new" /\ job' = [job EXCEPT !.at = "append"]
      /\ acked' = acked /\ promised' = promised
  BY DEF NewFile, At, Ghosts
<1>2. /\ Fresh(inode, Dir, job.number) /\ Busy(inode, Dir, job) /\ DOMAIN job = JobFields
  BY <1>1, BusyNow DEF FileSteps
<1>3. /\ DOMAIN job' = JobFields /\ job'.at = "append" /\ job'.what = job.what
      /\ job'.file = job.file /\ job'.data = job.data /\ job'.number = job.number
  BY <1>1, <1>2, StepTo
<1> DEFINE k == WithFile(inode, Dir, job.file)
<1>4. inode' = Append(inode, EmptyNode) /\ names' = Append(names, k)
  BY DEF NewFile, NewWritableFile, EmptyNode, WithFile
<1>5. Dirs' = Dirs \cup {k} /\ Dir' = k /\ names' \in Seq(Dirs') /\ Len(names') > 0
  <2> HIDE DEF k
  <2> QED
    BY <1>4, DirGrows DEF FileInv
<1>6. TableJob(inode, Dir, job) \/ ManifestJob(inode, Dir, job) \/ CurrentJob(inode, Dir, job)
  BY <1>1, <1>2 DEF Busy, LogJob, RecordJob
<1>7. job.file \notin Needed(inode, Dir)
  BY <1>2, <1>6, FileFacts, FreshIsFree, OthersAreFree DEF TableJob, ManifestJob, CurrentJob
<1>8. /\ StoreOK(inode', Dirs \cup {k}, k, acked, promised.synced, promised.flushed)
      /\ job.file \in DOMAIN k /\ inode'[k[job.file]] = EmptyNode
      /\ CurNum(inode', k) = CurNum(inode, Dir) /\ ManNode(inode', k) = ManNode(inode, Dir)
      /\ \A g \in DOMAIN Dir : g # job.file => g \in DOMAIN k /\ inode'[k[g]] = inode[Dir[g]]
  <2>1. StoreOK(inode, Dirs, Dir, acked, promised.synced, promised.flushed)
    BY DEF FileInv
  <2>2. k = WithFile(inode, Dir, job.file)
    OBVIOUS
  <2> HIDE DEF k
  <2>3. inode' = Append(inode, EmptyNode)
    BY <1>4
  <2>4. /\ StoreOK(inode', Dirs \cup {k}, k, acked, promised.synced, promised.flushed)
        /\ Created(inode, Dir, inode', k, job.file)
    BY <1>7, <2>1, <2>2, <2>3, FileCreated
  <2> QED
    BY <2>4 DEF Created
<1> HIDE DEF k
<1>9. Fresh(inode', k, job'.number)
  BY <1>2, <1>3, <1>8, FreshSame
<1>10. Made(inode', k, job'.file, job'.at, job'.data)
  BY <1>3, <1>8 DEF Made, EmptyNode
<1>11. Busy(inode', k, job')
  <2>1. CASE TableJob(inode, Dir, job)
    <3>1. TableJob(inode', k, job')
      BY <1>3, <1>10, <2>1 DEF TableJob
    <3> QED
      BY <3>1 DEF Busy
  <2>2. CASE ManifestJob(inode, Dir, job)
    <3>1. ManifestJob(inode', k, job')
      BY <1>3, <1>8, <1>10, <2>2 DEF ManifestJob
    <3> QED
      BY <3>1 DEF Busy
  <2>3. CASE CurrentJob(inode, Dir, job)
    <3>1. Manifest(job.number) # job.file
      BY <2>3, NamesDiffer DEF CurrentJob
    <3>2. CurrentJob(inode', k, job')
      BY <1>3, <1>8, <1>10, <2>3, <3>1 DEF CurrentJob
    <3> QED
      BY <3>2 DEF Busy
  <2> QED
    BY <1>6, <2>1, <2>2, <2>3
<1>12. JobOK(inode', k, job')
  BY <1>3, <1>9, <1>11, BusyJob DEF FileSteps
<1> QED
  BY <1>1, <1>5, <1>8, <1>12 DEF FileInv

Appended(a, z) == [a EXCEPT !.data = @ \o z]

LEMMA AppendNode ==
  ASSUME NEW a, NodeOK(a), NEW z \in Seq(Datum), NEW b, b = Appended(a, z)
  PROVE  /\ NodeOK(b) /\ b.disk = a.disk /\ b.cached = a.cached
         /\ b.data = a.data \o z /\ Len(b.data) = Len(a.data) + Len(z)
         /\ \A j \in 1..Len(a.data) : b.data[j] = a.data[j]
         /\ \A j \in 1..a.disk : b.data[j] = a.data[j]
<1>1. a \in FileNodes /\ a.data \in Seq(Datum) /\ a.disk \in Nat /\ a.cached \in Nat /\ Len(a.data) \in Nat
      /\ Len(z) \in Nat /\ a.disk <= a.cached /\ a.cached <= Len(a.data)
  BY DEF NodeOK, FileNodes
<1>2. b.disk = a.disk /\ b.cached = a.cached /\ b.data = a.data \o z
  BY <1>1 DEF FileNodes, Appended
<1>3. b.data \in Seq(Datum) /\ Len(b.data) = Len(a.data) + Len(z)
      /\ \A j \in 1..Len(a.data) : b.data[j] = a.data[j]
  BY <1>1, <1>2
<1>4. b \in FileNodes
  BY <1>1, <1>3 DEF FileNodes, Appended
<1>5. NodeOK(b)
  BY <1>1, <1>2, <1>3, <1>4 DEF NodeOK
<1>6. \A j \in 1..a.disk : j \in 1..Len(a.data)
  BY <1>1
<1> QED
  BY <1>2, <1>3, <1>5, <1>6

LEMMA NodeData ==
  ASSUME NEW a, NodeOK(a)
  PROVE  /\ a.data \in Seq(Datum) /\ Len(a.data) \in Nat /\ a.disk \in Nat /\ a.cached \in Nat
         /\ a.disk <= a.cached /\ a.cached <= Len(a.data) /\ DOMAIN a = {"data", "cached", "disk"}
  BY DEF NodeOK, FileNodes

\* What a job writes.
LEMMA JobData ==
  ASSUME FileInv, job.at \in FileSteps
  PROVE  job.data \in Seq(Datum)
<1>1. Busy(inode, Dir, job) /\ job.number \in Nat
  BY BusyNow
<1>2. ManNode(inode, Dir).data \in Seq(Datum)
  BY FileFacts, NodeData DEF ManNode
<1>3. CASE LogJob(inode, Dir, job)
  <2>1. "record" \in Datum
    BY DEF Datum
  <2> QED
    BY <1>3, <2>1 DEF LogJob
<1>4. CASE TableJob(inode, Dir, job)
  <2>1. "half" \in Datum
    BY DEF Datum
  <2> QED
    BY <1>4, <2>1 DEF TableJob
<1>5. CASE RecordJob(inode, Dir, job)
  <2>1. job.number - 1 \in Datum
    BY <1>1, <1>5 DEF Datum, RecordJob
  <2> QED
    BY <1>5, <2>1 DEF RecordJob
<1>6. CASE ManifestJob(inode, Dir, job)
  BY <1>2, <1>6 DEF ManifestJob
<1>7. CASE CurrentJob(inode, Dir, job)
  <2>1. job.number \in Datum /\ "newline" \in Datum
    BY <1>1 DEF Datum
  <2> QED
    BY <1>7, <2>1 DEF CurrentJob, Line
<1> QED
  BY <1>1, <1>3, <1>4, <1>5, <1>6, <1>7 DEF Busy

\* fwrite: nothing on the disk changes.
LEMMA AppendFileKeeps == FileInv /\ AppendFile => FileInv'
<1> SUFFICES ASSUME FileInv, AppendFile PROVE FileInv'
  OBVIOUS
<1>1. /\ job.at = "append" /\ job' = [job EXCEPT !.at = IF job.what = "log" THEN "flush" ELSE "sync"]
      /\ acked' = acked /\ promised' = promised /\ UNCHANGED names
  BY DEF AppendFile, AfterAppend, AppendData, At, Ghosts
<1>2. /\ Fresh(inode, Dir, job.number) /\ Busy(inode, Dir, job) /\ DOMAIN job = JobFields
      /\ job.number \in Nat /\ job.data \in Seq(Datum)
  BY <1>1, BusyNow, JobData DEF FileSteps
<1>3. /\ DOMAIN job' = JobFields /\ job'.at = (IF job.what = "log" THEN "flush" ELSE "sync")
      /\ job'.what = job.what /\ job'.file = job.file /\ job'.data = job.data
      /\ job'.number = job.number
  BY <1>1, <1>2, StepTo
<1>4. Dirs' = Dirs /\ Dir' = Dir /\ names' \in Seq(Dirs') /\ Len(names') > 0
  BY <1>1, DirStays DEF FileInv
<1> DEFINE a == inode[Dir[job.file]]
           b == Appended(a, job.data)
<1>5. inode' = WithNode(inode, Dir, job.file, b)
  BY DEF AppendFile, AppendData, SetNode, Node, WithNode, Appended
<1>6. StoreOK(inode, Dirs, Dir, acked, promised.synced, promised.flushed)
  BY DEF FileInv
<1>7. job.file \in DOMAIN Dir
  BY <1>1, <1>2, FileFacts DEF Busy, LogJob, TableJob, RecordJob, ManifestJob, CurrentJob, Made
<1>8. NodeOK(a)
  BY <1>7, FileFacts
<1> HIDE DEF a
<1>9. /\ NodeOK(b) /\ b.disk = a.disk /\ b.cached = a.cached
      /\ b.data = a.data \o job.data /\ Len(b.data) = Len(a.data) + Len(job.data)
      /\ \A j \in 1..Len(a.data) : b.data[j] = a.data[j]
      /\ \A j \in 1..a.disk : b.data[j] = a.data[j]
  <2>1. PICK z, e : z = job.data /\ e = b
    OBVIOUS
  <2>2. NodeOK(a) /\ z \in Seq(Datum) /\ e = Appended(a, z)
    BY <1>2, <1>8, <2>1
  <2> HIDE DEF b
  <2>3. /\ NodeOK(e) /\ e.disk = a.disk /\ e.cached = a.cached
        /\ e.data = a.data \o z /\ Len(e.data) = Len(a.data) + Len(z)
        /\ \A j \in 1..Len(a.data) : e.data[j] = a.data[j]
        /\ \A j \in 1..a.disk : e.data[j] = a.data[j]
    BY <2>2, AppendNode
  <2> QED
    BY <2>1, <2>3
<1> HIDE DEF b
<1>10. a.data = <<>> => b.data = job.data
  BY <1>2, <1>9
<1>11. job'.at \in FileSteps
  BY <1>3 DEF FileSteps
<1> SUFFICES /\ StoreOK(inode', Dirs, Dir, acked, promised.synced, promised.flushed)
             /\ Fresh(inode', Dir, job.number) /\ Busy(inode', Dir, job')
  <2>1. JobOK(inode', Dir, job')
    BY <1>3, <1>11, BusyJob
  <2> QED
    BY <1>1, <1>4, <2>1 DEF FileInv
<1>12. CASE LogJob(inode, Dir, job)
  <2>1. job.file = Log /\ job.what = "log"
    BY <1>12 DEF LogJob
  <2>2. promised.synced <= b.disk /\ promised.flushed <= b.cached
    <3>1. DirOK(inode, Dir, acked, promised.synced) /\ LastOK(inode, Dir, promised.flushed)
      BY <1>6 DEF StoreOK, DirsOK
    <3> QED
      BY <1>9, <2>1, <3>1 DEF a, DirOK, LogOK, LastOK
  <2>3. /\ StoreOK(inode', Dirs, Dir, acked, promised.synced, promised.flushed)
        /\ OthersStay(inode, inode', Dir, Log)
    BY <1>5, <1>6, <1>9, <2>1, <2>2, LogSet
  <2>4. ManNode(inode', Dir) = ManNode(inode, Dir)
    BY <2>3, NamesDiffer, LeadKept
  <2>5. LogJob(inode', Dir, job')
    BY <1>3, <1>12 DEF LogJob
  <2> QED
    BY <1>2, <2>3, <2>4, <2>5, FreshSame DEF Busy
<1>13. CASE TableJob(inode, Dir, job)
  <2>1. job.file = Ldb(job.number) /\ job.what = "table" /\ a.data = <<>> /\ a.disk = 0
    BY <1>1, <1>13 DEF TableJob, Made, a
  <2>2. ~WholeTable(a)
    BY <2>1 DEF WholeTable
  <2>3. /\ StoreOK(inode', Dirs, Dir, acked, promised.synced, promised.flushed)
        /\ inode'[Dir[job.file]] = b
        /\ OthersStay(inode, inode', Dir, job.file)
    BY <1>5, <1>6, <1>7, <1>9, <2>1, <2>2, TableSet DEF a
  <2>4. ManNode(inode', Dir) = ManNode(inode, Dir)
    BY <2>1, <2>3, NamesDiffer, LeadKept
  <2>5. Made(inode', Dir, job'.file, job'.at, job'.data)
    BY <1>3, <1>7, <1>9, <1>10, <2>1, <2>3 DEF Made
  <2>6. TableJob(inode', Dir, job')
    BY <1>3, <1>13, <2>1, <2>5 DEF TableJob
  <2> QED
    BY <1>2, <2>3, <2>4, <2>6, FreshSame DEF Busy
<1>14. CASE ManifestJob(inode, Dir, job)
  <2>1. /\ job.file = Manifest(job.number) /\ job.what = "manifest" /\ a.data = <<>> /\ a.disk = 0
        /\ job.number # CurNum(inode, Dir) /\ job.data = ManNode(inode, Dir).data
    BY <1>1, <1>14 DEF ManifestJob, Made, a
  <2>2. DiskKept(a, b)
    BY <1>9 DEF DiskKept
  <2>3. /\ StoreOK(inode', Dirs, Dir, acked, promised.synced, promised.flushed)
        /\ inode'[Dir[job.file]] = b
        /\ OthersStay(inode, inode', Dir, job.file)
    BY <1>5, <1>6, <1>7, <1>9, <2>1, <2>2, ManSet DEF a
  <2>4. ManNode(inode', Dir) = ManNode(inode, Dir) /\ CurNum(inode', Dir) = CurNum(inode, Dir)
    BY <2>1, <2>3, NamesDiffer, LeadKept
  <2>5. Made(inode', Dir, job'.file, job'.at, job'.data)
    BY <1>3, <1>7, <1>9, <1>10, <2>1, <2>3 DEF Made
  <2>6. ManifestJob(inode', Dir, job')
    BY <1>3, <1>14, <2>1, <2>4, <2>5 DEF ManifestJob
  <2> QED
    BY <1>2, <2>3, <2>4, <2>6, FreshSame DEF Busy
<1>15. CASE CurrentJob(inode, Dir, job)
  <2>1. /\ job.file = Temp(job.number) /\ job.what = "current" /\ a.data = <<>> /\ a.disk = 0
        /\ job.number # CurNum(inode, Dir) /\ Manifest(job.number) \in DOMAIN Dir
    BY <1>1, <1>15 DEF CurrentJob, Made, a
  <2>2. a.disk # 2
    BY <2>1
  <2>3. /\ StoreOK(inode', Dirs, Dir, acked, promised.synced, promised.flushed)
        /\ inode'[Dir[job.file]] = b /\ CurNum(inode', Dir) = CurNum(inode, Dir)
        /\ FilesStay(inode, inode', Dir, job.file)
    BY <1>5, <1>6, <1>7, <1>9, <2>1, <2>2, TempSet DEF a
  <2>4. ManNode(inode', Dir) = ManNode(inode, Dir)
    BY <2>1, <2>3, FileFacts, NamesDiffer DEF ManNode, FilesStay
  <2>5. Made(inode', Dir, job'.file, job'.at, job'.data)
    BY <1>3, <1>7, <1>9, <1>10, <2>1, <2>3 DEF Made
  <2>6. inode'[Dir[Manifest(job.number)]] = inode[Dir[Manifest(job.number)]]
    BY <2>1, <2>3, NamesDiffer DEF FilesStay
  <2>7. CurrentJob(inode', Dir, job')
    BY <1>3, <1>15, <2>1, <2>3, <2>4, <2>5, <2>6 DEF CurrentJob
  <2> QED
    BY <1>2, <2>3, <2>4, <2>7, FreshSame DEF Busy
<1>16. CASE RecordJob(inode, Dir, job)
  <2> DEFINE r == job.number - 1
  <2>1. /\ job.file = Manifest(CurNum(inode, Dir)) /\ job.what = "record"
        /\ job.data = <<r>> /\ TableAt(inode, Dir, r) /\ r \in Nat /\ r < job.number
    BY <1>2, <1>16 DEF RecordJob
  <2> HIDE DEF r
  <2>2. a = ManNode(inode, Dir) /\ Len(a.data) \in Nat /\ a.data \in Seq(Datum)
    BY <1>8, <2>1, NodeData DEF a, ManNode
  <2>3. /\ Len(b.data) = Len(a.data) + 1 /\ b.data[Len(a.data) + 1] = r
        /\ \A j \in 1..Len(b.data) : j \in 1..Len(a.data) \/ j = Len(a.data) + 1
    BY <1>9, <2>1, <2>2
  <2>4. \A j \in 1..Len(b.data) :
           \/ j \in 1..Len(ManNode(inode, Dir).data) /\ b.data[j] = ManNode(inode, Dir).data[j]
           \/ TableAt(inode, Dir, b.data[j])
    BY <1>9, <2>1, <2>2, <2>3
  <2>5. /\ StoreOK(inode', Dirs, Dir, acked, promised.synced, promised.flushed)
        /\ inode'[Dir[job.file]] = b
        /\ OthersStay(inode, inode', Dir, job.file)
    <3> DEFINE m == CurNum(inode, Dir)
    <3>1. /\ Manifest(m) \in DOMAIN Dir /\ inode' = WithNode(inode, Dir, Manifest(m), b)
          /\ inode[Dir[Manifest(m)]] = a
      BY <1>5, <1>7, <2>1 DEF a
    <3>2. DiskKept(inode[Dir[Manifest(m)]], b) /\ RecordsTables(inode, Dir, b)
      BY <1>9, <2>4, <3>1 DEF DiskKept, RecordsTables
    <3> HIDE DEF m
    <3>3. /\ StoreOK(inode', Dirs, Dir, acked, promised.synced, promised.flushed)
          /\ inode'[Dir[Manifest(m)]] = b
          /\ OthersStay(inode, inode', Dir, Manifest(m))
      BY <1>6, <1>9, <3>1, <3>2, ManSet
    <3> QED
      BY <2>1, <3>3 DEF m
  <2>6. CurNum(inode', Dir) = CurNum(inode, Dir)
    BY <2>1, <2>5, NamesDiffer, LeadKept
  <2>7. ManNode(inode', Dir) = b
    BY <2>1, <2>5, <2>6 DEF ManNode
  <2>8. Fresh(inode', Dir, job.number)
    <3>1. \A j \in 1..Len(a.data) : a.data[j] < job.number
      BY <1>2, <2>2 DEF Fresh
    <3> QED
      BY <1>2, <1>9, <2>1, <2>3, <2>7, <3>1 DEF Fresh
  <2>9. TableAt(inode', Dir, r)
    BY <2>1, <2>5, NamesDiffer DEF TableAt, OthersStay
  <2>10. RecordJob(inode', Dir, job')
    BY <1>3, <1>16, <2>1, <2>6, <2>9 DEF RecordJob, r
  <2> QED
    BY <2>5, <2>8, <2>10 DEF Busy
<1> QED
  BY <1>2, <1>12, <1>13, <1>14, <1>15, <1>16 DEF Busy

Flushed(a) == [a EXCEPT !.cached = Len(a.data)]
Synced(a) == [data |-> a.data, cached |-> Len(a.data), disk |-> Len(a.data)]

LEMMA FlushNode ==
  ASSUME NEW a, NodeOK(a), NEW b, b = Flushed(a)
  PROVE  NodeOK(b) /\ b.disk = a.disk /\ b.cached = Len(a.data) /\ b.data = a.data
<1>1. a \in FileNodes /\ a.data \in Seq(Datum) /\ a.disk \in Nat /\ a.cached \in Nat
      /\ Len(a.data) \in Nat /\ a.disk <= a.cached /\ a.cached <= Len(a.data)
  BY DEF NodeOK, FileNodes
<1>2. b.disk = a.disk /\ b.cached = Len(a.data) /\ b.data = a.data /\ b \in FileNodes
  BY <1>1 DEF FileNodes, Flushed
<1> QED
  BY <1>1, <1>2 DEF NodeOK

LEMMA SyncNode ==
  ASSUME NEW a, NodeOK(a), NEW b, b = Synced(a)
  PROVE  NodeOK(b) /\ b.disk = Len(a.data) /\ b.cached = Len(a.data) /\ b.data = a.data
  BY DEF NodeOK, FileNodes, Synced

\* What the database was told of the log holds.
LEMMA LogHolds ==
  ASSUME FileInv
  PROVE  /\ promised.synced <= inode[Dir[Log]].disk
         /\ promised.flushed <= inode[Dir[Log]].cached
<1>1. DirOK(inode, Dir, acked, promised.synced) /\ LastOK(inode, Dir, promised.flushed)
  BY DEF FileInv, StoreOK, DirsOK
<1> QED
  BY <1>1 DEF DirOK, LogOK, LastOK

LEMMA FlushFileKeeps == FileInv /\ FlushFile => FileInv'
<1> SUFFICES ASSUME FileInv, FlushFile PROVE FileInv'
  OBVIOUS
<1>1. /\ job.at = "flush" /\ acked' = acked /\ UNCHANGED names
      /\ promised' = [promised EXCEPT !.flushed = Len(Contents(Log))]
      /\ job' = [job EXCEPT !.at = "sync"] \/ job' = Resting(job.number)
  BY DEF FlushFile, Flush, At
<1>2. /\ Fresh(inode, Dir, job.number) /\ Busy(inode, Dir, job) /\ DOMAIN job = JobFields
  BY <1>1, BusyNow DEF FileSteps
<1>3. Dirs' = Dirs /\ Dir' = Dir /\ names' \in Seq(Dirs') /\ Len(names') > 0
  BY <1>1, DirStays DEF FileInv
<1>4. job.what = "log" /\ job.file = Log /\ job.data = <<"record">>
  BY <1>1, <1>2 DEF Busy, LogJob, TableJob, RecordJob, ManifestJob, CurrentJob
<1> DEFINE a == inode[Dir[Log]]
           b == Flushed(a)
<1>5. inode' = WithNode(inode, Dir, Log, b)
  BY <1>4 DEF FlushFile, Flush, SetNode, Node, Contents, WithNode, Flushed
<1>6. NodeOK(a) /\ Log \in DOMAIN Dir
  BY FileFacts
<1>7. Contents(Log) = a.data
  BY DEF Contents, Node
<1> HIDE DEF a
<1>8. NodeOK(b) /\ b.disk = a.disk /\ b.cached = Len(a.data) /\ b.data = a.data
  BY <1>6, FlushNode
<1> HIDE DEF b
<1>9. promised' \in [flushed : Nat, synced : Nat] /\ promised'.synced = promised.synced
      /\ promised'.flushed = b.cached
  BY <1>1, <1>6, <1>7, <1>8, NodeData DEF FileInv
<1>10. promised'.synced <= b.disk /\ promised'.flushed <= b.cached
  BY <1>8, <1>9, LogHolds, NodeData DEF a
<1>11. /\ StoreOK(inode', Dirs, Dir, acked, promised'.synced, promised'.flushed)
       /\ OthersStay(inode, inode', Dir, Log)
  <2>1. StoreOK(inode, Dirs, Dir, acked, promised.synced, promised.flushed)
    BY DEF FileInv
  <2> QED
    BY <1>5, <1>8, <1>10, <2>1, LogSet
<1>12. ManNode(inode', Dir) = ManNode(inode, Dir)
  BY <1>11, NamesDiffer, LeadKept
<1>13. Fresh(inode', Dir, job.number)
  BY <1>2, <1>12, FreshSame
<1>14. JobOK(inode', Dir, job')
  <2>1. CASE job' = [job EXCEPT !.at = "sync"]
    <3>1. /\ DOMAIN job' = JobFields /\ job'.at = "sync" /\ job'.what = job.what
          /\ job'.file = job.file /\ job'.data = job.data /\ job'.number = job.number
      BY <1>2, <2>1, StepTo
    <3>2. LogJob(inode', Dir, job')
      BY <1>4, <3>1 DEF LogJob
    <3> QED
      BY <1>13, <3>1, <3>2, BusyJob DEF Busy, FileSteps
  <2>2. CASE job' = Resting(job.number)
    BY <1>13, <2>2, RestingJob
  <2> QED
    BY <1>1, <2>1, <2>2
<1> QED
  BY <1>1, <1>3, <1>9, <1>11, <1>14 DEF FileInv

\* fclose: the file is on the disk already.
LEMMA CloseFileKeeps == FileInv /\ CloseFile => FileInv'
<1> SUFFICES ASSUME FileInv, CloseFile PROVE FileInv'
  OBVIOUS
<1>1. /\ job.at = "close" /\ acked' = acked /\ promised' = promised /\ UNCHANGED names
  BY DEF CloseFile, Flush, Ghosts
<1>2. /\ Fresh(inode, Dir, job.number) /\ Busy(inode, Dir, job) /\ DOMAIN job = JobFields
      /\ job.number \in Nat
  BY <1>1, BusyNow DEF FileSteps
<1>3. Dirs' = Dirs /\ Dir' = Dir /\ names' \in Seq(Dirs') /\ Len(names') > 0
  BY <1>1, DirStays DEF FileInv
<1>4. StoreOK(inode, Dirs, Dir, acked, promised.synced, promised.flushed)
  BY DEF FileInv
<1>5. TableJob(inode, Dir, job) \/ CurrentJob(inode, Dir, job)
  BY <1>1, <1>2 DEF Busy, LogJob, RecordJob, ManifestJob
<1>6. job.file \in DOMAIN Dir
  BY <1>1, <1>5 DEF TableJob, CurrentJob, Made
<1> DEFINE a == inode[Dir[job.file]]
           b == Flushed(a)
<1>7. inode' = WithNode(inode, Dir, job.file, b)
  BY DEF CloseFile, Flush, SetNode, Node, Contents, WithNode, Flushed
<1>8. NodeOK(a)
  BY <1>6, FileFacts
<1> HIDE DEF a
<1>9. NodeOK(b) /\ b.disk = a.disk /\ b.cached = Len(a.data) /\ b.data = a.data
  BY <1>8, FlushNode
<1> HIDE DEF b
<1>10. CASE TableJob(inode, Dir, job)
  <2>1. /\ job.file = Ldb(job.number) /\ job.what = "table"
        /\ a.data = <<"half", "half">> /\ a.disk = Len(<<"half", "half">>)
    BY <1>1, <1>10 DEF TableJob, Made, a
  <2>2. WholeTable(b)
    BY <1>9, <2>1 DEF WholeTable
  <2>3. /\ StoreOK(inode', Dirs, Dir, acked, promised.synced, promised.flushed)
        /\ inode'[Dir[job.file]] = b /\ OthersStay(inode, inode', Dir, job.file)
    BY <1>4, <1>6, <1>7, <1>9, <2>1, <2>2, TableSet DEF a
  <2>4. ManNode(inode', Dir) = ManNode(inode, Dir) /\ CurNum(inode', Dir) = CurNum(inode, Dir)
    <3>1. /\ inode'[Dir[CURRENT]] = inode[Dir[CURRENT]]
          /\ inode'[Dir[Manifest(CurNum(inode, Dir))]] = inode[Dir[Manifest(CurNum(inode, Dir))]]
      BY <2>1, <2>3, FileFacts, NamesDiffer DEF OthersStay
    <3> QED
      BY <3>1, LeadSame
  <2>5. /\ DOMAIN job' = JobFields /\ job'.what = "record" /\ job'.at = "append"
        /\ job'.file = Manifest(CurNum(inode, Dir)) /\ job'.data = <<job.number>>
        /\ job'.number = job.number + 1
    BY <2>1, FileFacts DEF CloseFile, FileWriting, JobFields
  <2>6. TableAt(inode', Dir, job.number)
    BY <1>2, <1>6, <2>1, <2>2, <2>3 DEF TableAt
  <2>7. RecordJob(inode', Dir, job')
    <3>1. job'.number > 0 /\ job'.number - 1 = job.number
      BY <1>2, <2>5
    <3> QED
      BY <2>4, <2>5, <2>6, <3>1 DEF RecordJob
  <2>8. Fresh(inode', Dir, job'.number)
    <3>1. \A j \in 1..Len(ManNode(inode, Dir).data) :
            ManNode(inode, Dir).data[j] \in Nat /\ ManNode(inode, Dir).data[j] < job.number
      BY <1>2, FileFacts DEF Fresh, TableAt
    <3> QED
      BY <1>2, <2>4, <2>5, <3>1 DEF Fresh
  <2>9. JobOK(inode', Dir, job')
    BY <2>5, <2>7, <2>8, BusyJob DEF Busy, FileSteps
  <2> QED
    BY <1>1, <1>3, <2>3, <2>9 DEF FileInv
<1>11. CASE CurrentJob(inode, Dir, job)
  <2>1. /\ job.file = Temp(job.number) /\ job.what = "current"
        /\ job.number # CurNum(inode, Dir) /\ Manifest(job.number) \in DOMAIN Dir
        /\ a.data = job.data /\ a.disk = Len(job.data)
    BY <1>1, <1>11 DEF CurrentJob, Made, a
  <2>2. b.data = a.data /\ b.disk = a.disk
    BY <1>9
  <2>3. /\ StoreOK(inode', Dirs, Dir, acked, promised.synced, promised.flushed)
        /\ inode'[Dir[job.file]] = b /\ CurNum(inode', Dir) = CurNum(inode, Dir)
        /\ FilesStay(inode, inode', Dir, job.file)
    BY <1>4, <1>6, <1>7, <1>9, <2>1, <2>2, TempSet DEF a
  <2>4. ManNode(inode', Dir) = ManNode(inode, Dir)
    <3>1. PICK f : f = Manifest(CurNum(inode, Dir))
      OBVIOUS
    <3>2. f \in DOMAIN Dir /\ f # job.file /\ f # CURRENT
      BY <2>1, <3>1, FileFacts, NamesDiffer
    <3>3. inode'[Dir[f]] = inode[Dir[f]]
      BY <2>3, <3>2 DEF FilesStay
    <3> QED
      BY <2>3, <3>1, <3>3 DEF ManNode
  <2>5. job' = [job EXCEPT !.at = "rename"]
    BY <2>1 DEF CloseFile
  <2>6. /\ DOMAIN job' = JobFields /\ job'.at = "rename" /\ job'.what = job.what
        /\ job'.file = job.file /\ job'.data = job.data /\ job'.number = job.number
    BY <1>2, <2>5, StepTo
  <2>7. Made(inode', Dir, job'.file, job'.at, job'.data)
    BY <1>6, <1>9, <2>1, <2>3, <2>6 DEF Made
  <2>8. inode'[Dir[Manifest(job.number)]] = inode[Dir[Manifest(job.number)]]
    BY <2>1, <2>3, NamesDiffer DEF FilesStay
  <2>9. CurrentJob(inode', Dir, job')
    BY <1>11, <2>1, <2>3, <2>4, <2>6, <2>7, <2>8 DEF CurrentJob
  <2>10. Fresh(inode', Dir, job'.number)
    BY <1>2, <2>4, <2>6, FreshSame
  <2>11. JobOK(inode', Dir, job')
    BY <2>6, <2>9, <2>10, BusyJob DEF Busy, FileSteps
  <2> QED
    BY <1>1, <1>3, <2>3, <2>11 DEF FileInv
<1> QED
  BY <1>5, <1>10, <1>11

\* fsync of the file; for a MANIFEST of the directory first.
LEMMA SyncFileKeeps == FileInv /\ SyncFile => FileInv'
<1> SUFFICES ASSUME FileInv, SyncFile PROVE FileInv'
  OBVIOUS
<1>1. job.at = "sync"
  BY DEF SyncFile
<1>2. /\ Fresh(inode, Dir, job.number) /\ Busy(inode, Dir, job) /\ DOMAIN job = JobFields
      /\ job.number \in Nat
  BY <1>1, BusyNow DEF FileSteps
<1>3. StoreOK(inode, Dirs, Dir, acked, promised.synced, promised.flushed)
  BY DEF FileInv
<1>4. job.file \in DOMAIN Dir
  BY <1>1, <1>2, FileFacts DEF Busy, LogJob, TableJob, RecordJob, ManifestJob, CurrentJob, Made
<1> DEFINE a == inode[Dir[job.file]]
           b == Synced(a)
<1>5. inode' = WithNode(inode, Dir, job.file, b)
  BY DEF SyncFile, Sync, SetNode, Node, Contents, WithNode, Synced
<1>6. names' = IF job.file[1] = "MANIFEST" THEN <<Dir>> ELSE names
  BY DEF SyncFile, Sync, SyncDirIfManifest
<1>7. NodeOK(a)
  BY <1>4, FileFacts
<1> HIDE DEF a
<1>8. NodeOK(b) /\ b.disk = Len(a.data) /\ b.cached = Len(a.data) /\ b.data = a.data
  BY <1>7, SyncNode
<1> HIDE DEF b
<1>9. CASE LogJob(inode, Dir, job)
  <2>1. job.what = "log" /\ job.file = Log
    BY <1>9 DEF LogJob
  <2>2. Dirs' = Dirs /\ Dir' = Dir /\ names' \in Seq(Dirs') /\ Len(names') > 0
    BY <1>6, <2>1, DirStays DEF FileInv, Log
  <2>3. /\ promised' = [promised EXCEPT !.synced = Len(Contents(Log))] /\ acked' = acked
        /\ job' = Resting(job.number)
    BY <2>1 DEF SyncFile
  <2>4. Contents(Log) = a.data
    BY <2>1 DEF Contents, Node, a
  <2>5. /\ promised' \in [flushed : Nat, synced : Nat] /\ promised'.synced = Len(a.data)
        /\ promised'.flushed = promised.flushed
    BY <1>7, <2>3, <2>4, NodeData DEF FileInv
  <2>6. promised'.synced <= b.disk /\ promised'.flushed <= b.cached
    <3>1. promised.flushed <= a.cached /\ promised.flushed \in Nat
      BY <2>1, LogHolds, FileFacts DEF a
    <3> QED
      BY <1>7, <1>8, <2>5, <3>1, NodeData
  <2>7. /\ StoreOK(inode', Dirs, Dir, acked, promised'.synced, promised'.flushed)
        /\ OthersStay(inode, inode', Dir, Log)
    BY <1>3, <1>5, <1>8, <2>1, <2>6, LogSet
  <2>8. ManNode(inode', Dir) = ManNode(inode, Dir)
    BY <2>7, NamesDiffer, LeadKept
  <2>9. JobOK(inode', Dir, job')
    BY <1>2, <2>3, <2>8, FreshSame, RestingJob
  <2> QED
    BY <2>2, <2>3, <2>5, <2>7, <2>9 DEF FileInv
<1>10. CASE TableJob(inode, Dir, job)
  <2>1. /\ job.what = "table" /\ job.file = Ldb(job.number) /\ a.disk = 0 /\ a.data = job.data
    BY <1>1, <1>10 DEF TableJob, Made, a
  <2>2. Dirs' = Dirs /\ Dir' = Dir /\ names' \in Seq(Dirs') /\ Len(names') > 0
    BY <1>6, <2>1, DirStays DEF FileInv, Ldb
  <2>3. promised' = promised /\ acked' = acked /\ job' = [job EXCEPT !.at = "close"]
    BY <2>1 DEF SyncFile, At
  <2>4. /\ DOMAIN job' = JobFields /\ job'.at = "close" /\ job'.what = job.what
        /\ job'.file = job.file /\ job'.data = job.data /\ job'.number = job.number
    BY <1>2, <2>3, StepTo
  <2>5. ~WholeTable(a)
    BY <2>1 DEF WholeTable
  <2>6. /\ StoreOK(inode', Dirs, Dir, acked, promised.synced, promised.flushed)
        /\ inode'[Dir[job.file]] = b /\ OthersStay(inode, inode', Dir, job.file)
    BY <1>3, <1>4, <1>5, <1>8, <2>1, <2>5, TableSet DEF a
  <2>7. ManNode(inode', Dir) = ManNode(inode, Dir)
    BY <2>1, <2>6, NamesDiffer, LeadKept
  <2>8. Made(inode', Dir, job'.file, job'.at, job'.data)
    BY <1>4, <1>8, <2>1, <2>4, <2>6 DEF Made
  <2>9. TableJob(inode', Dir, job')
    BY <1>10, <2>1, <2>4, <2>8 DEF TableJob
  <2>10. JobOK(inode', Dir, job')
    BY <1>2, <2>4, <2>7, <2>9, FreshSame, BusyJob DEF Busy, FileSteps
  <2> QED
    BY <2>2, <2>3, <2>6, <2>10 DEF FileInv
<1>11. CASE CurrentJob(inode, Dir, job)
  <2>1. /\ job.what = "current" /\ job.file = Temp(job.number) /\ a.disk = 0 /\ a.data = job.data
        /\ job.number # CurNum(inode, Dir) /\ Manifest(job.number) \in DOMAIN Dir
    BY <1>1, <1>11 DEF CurrentJob, Made, a
  <2>2. Dirs' = Dirs /\ Dir' = Dir /\ names' \in Seq(Dirs') /\ Len(names') > 0
    BY <1>6, <2>1, DirStays DEF FileInv, Temp
  <2>3. promised' = promised /\ acked' = acked /\ job' = [job EXCEPT !.at = "close"]
    BY <2>1 DEF SyncFile, At
  <2>4. /\ DOMAIN job' = JobFields /\ job'.at = "close" /\ job'.what = job.what
        /\ job'.file = job.file /\ job'.data = job.data /\ job'.number = job.number
    BY <1>2, <2>3, StepTo
  <2>5. a.disk # 2
    BY <2>1
  <2>6. /\ StoreOK(inode', Dirs, Dir, acked, promised.synced, promised.flushed)
        /\ inode'[Dir[job.file]] = b /\ CurNum(inode', Dir) = CurNum(inode, Dir)
        /\ FilesStay(inode, inode', Dir, job.file)
    BY <1>3, <1>4, <1>5, <1>8, <2>1, <2>5, TempSet DEF a
  <2>7. ManNode(inode', Dir) = ManNode(inode, Dir)
    BY <2>1, <2>6, FileFacts, NamesDiffer DEF ManNode, FilesStay
  <2>8. Made(inode', Dir, job'.file, job'.at, job'.data)
    BY <1>4, <1>8, <2>1, <2>4, <2>6 DEF Made
  <2>9. inode'[Dir[Manifest(job.number)]] = inode[Dir[Manifest(job.number)]]
    BY <2>1, <2>6, NamesDiffer DEF FilesStay
  <2>10. CurrentJob(inode', Dir, job')
    BY <1>11, <2>1, <2>4, <2>6, <2>7, <2>8, <2>9 DEF CurrentJob
  <2>11. JobOK(inode', Dir, job')
    BY <1>2, <2>4, <2>7, <2>10, FreshSame, BusyJob DEF Busy, FileSteps
  <2> QED
    BY <2>2, <2>3, <2>6, <2>11 DEF FileInv
<1>12. CASE RecordJob(inode, Dir, job)
  <2> DEFINE m == CurNum(inode, Dir)
  <2>1. job.what = "record" /\ job.file = Manifest(m)
    BY <1>12 DEF RecordJob
  <2>2. Dirs' = {Dir} /\ Dir' = Dir /\ names' \in Seq(Dirs') /\ Len(names') > 0
    BY <1>6, <2>1, DirAlone DEF Manifest
  <2>3. promised' = promised /\ acked' = Recorded /\ job' = Resting(job.number)
    BY <2>1 DEF SyncFile
  <2>4. a = ManNode(inode, Dir) /\ inode[Dir[Manifest(m)]] = a /\ Manifest(m) \in DOMAIN Dir
        /\ inode' = WithNode(inode, Dir, Manifest(m), b)
    BY <1>4, <1>5, <2>1 DEF a, ManNode
  <2>5. AllSynced(inode[Dir[Manifest(m)]], b)
    BY <1>8, <2>4 DEF AllSynced
  <2>6. NewlySynced(inode, Dir, m, b, acked, Recorded)
    BY <1>8, <2>4, FileFacts DEF NewlySynced
  <2>7. StoreOK(inode, {Dir}, Dir, acked, promised.synced, promised.flushed)
    BY <1>3, DirSynced
  <2>8. /\ StoreOK(inode', {Dir}, Dir, Recorded, promised.synced, promised.flushed)
        /\ inode'[Dir[Manifest(m)]] = b /\ OthersStay(inode, inode', Dir, Manifest(m))
    <3> HIDE DEF m
    <3>1. Manifest(m) \in DOMAIN Dir /\ inode' = WithNode(inode, Dir, Manifest(m), b) /\ NodeOK(b)
      BY <1>8, <2>4
    <3> QED
      BY <2>5, <2>6, <2>7, <3>1, ManSynced
  <2>9. CurNum(inode', Dir) = CurNum(inode, Dir)
    BY <2>8, NamesDiffer, LeadKept
  <2>10. ManNode(inode', Dir).data = ManNode(inode, Dir).data
    BY <1>8, <2>4, <2>8, <2>9 DEF ManNode
  <2>11. JobOK(inode', Dir, job')
    BY <1>2, <2>3, <2>10, FreshSame, RestingJob
  <2> QED
    BY <2>2, <2>3, <2>8, <2>11 DEF FileInv
<1>13. CASE ManifestJob(inode, Dir, job)
  <2> DEFINE m == job.number
  <2>1. /\ job.what = "manifest" /\ job.file = Manifest(m) /\ m # CurNum(inode, Dir)
        /\ a.data = ManNode(inode, Dir).data
    BY <1>1, <1>13 DEF ManifestJob, Made, a
  <2>2. Dirs' = {Dir} /\ Dir' = Dir /\ names' \in Seq(Dirs') /\ Len(names') > 0
    BY <1>6, <2>1, DirAlone DEF Manifest
  <2>3. /\ promised' = promised /\ acked' = acked
        /\ DOMAIN job' = JobFields /\ job'.what = "current" /\ job'.at = "new"
        /\ job'.file = Temp(m) /\ job'.data = Line(m) /\ job'.number = m
    BY <2>1 DEF SyncFile, FileWriting, JobFields
  <2>4. inode[Dir[Manifest(m)]] = a /\ Manifest(m) \in DOMAIN Dir
        /\ inode' = WithNode(inode, Dir, Manifest(m), b)
    BY <1>4, <1>5, <2>1 DEF a
  <2>5. AllSynced(inode[Dir[Manifest(m)]], b)
    BY <1>8, <2>4 DEF AllSynced
  <2>6. NewlySynced(inode, Dir, m, b, acked, acked)
    BY DEF NewlySynced
  <2>7. StoreOK(inode, {Dir}, Dir, acked, promised.synced, promised.flushed)
    BY <1>3, DirSynced
  <2>8. /\ StoreOK(inode', {Dir}, Dir, acked, promised.synced, promised.flushed)
        /\ inode'[Dir[Manifest(m)]] = b /\ OthersStay(inode, inode', Dir, Manifest(m))
    <3> HIDE DEF m
    <3>1. Manifest(m) \in DOMAIN Dir /\ inode' = WithNode(inode, Dir, Manifest(m), b) /\ NodeOK(b)
      BY <1>8, <2>4
    <3> QED
      BY <2>5, <2>6, <2>7, <3>1, ManSynced
  <2>9. /\ inode'[Dir[CURRENT]] = inode[Dir[CURRENT]]
        /\ inode'[Dir[Manifest(CurNum(inode, Dir))]] = inode[Dir[Manifest(CurNum(inode, Dir))]]
    BY <2>1, <2>8, FileFacts, NamesDiffer DEF OthersStay
  <2>10. ManNode(inode', Dir) = ManNode(inode, Dir) /\ CurNum(inode', Dir) = CurNum(inode, Dir)
    BY <2>9, LeadSame
  <2>11. Made(inode', Dir, job'.file, job'.at, job'.data)
    BY <2>3 DEF Made
  <2>12. CurrentJob(inode', Dir, job')
    BY <1>8, <2>1, <2>3, <2>4, <2>8, <2>10, <2>11 DEF CurrentJob
  <2>13. JobOK(inode', Dir, job')
    BY <1>2, <2>3, <2>10, <2>12, FreshSame, BusyJob DEF Busy, FileSteps
  <2> QED
    BY <2>2, <2>3, <2>8, <2>13 DEF FileInv
<1> QED
  BY <1>2, <1>9, <1>10, <1>11, <1>12, <1>13 DEF Busy

\* rename: the new CURRENT names a MANIFEST that is on the disk.
LEMMA SetCurrentKeeps == FileInv /\ SetCurrent => FileInv'
<1> SUFFICES ASSUME FileInv, SetCurrent PROVE FileInv'
  OBVIOUS
<1>1. /\ job.at = "rename" /\ acked' = acked /\ promised' = promised /\ inode' = inode
      /\ job' = [job EXCEPT !.at = "clean"]
  BY DEF SetCurrent, RenameFile, At, Ghosts
<1>2. /\ Fresh(inode, Dir, job.number) /\ Busy(inode, Dir, job) /\ DOMAIN job = JobFields
      /\ job.number \in Nat
  BY <1>1, BusyNow DEF FileSteps
<1>3. CurrentJob(inode, Dir, job)
  BY <1>1, <1>2 DEF Busy, LogJob, TableJob, RecordJob, ManifestJob
<1> DEFINE n == job.number
           k == WithCurrent(Dir, Temp(n))
<1>4. /\ job.file = Temp(n) /\ Temp(n) \in DOMAIN Dir /\ inode[Dir[Temp(n)]].data = Line(n)
      /\ inode[Dir[Temp(n)]].disk = Len(Line(n)) /\ Manifest(n) \in DOMAIN Dir
      /\ inode[Dir[Manifest(n)]].data = ManNode(inode, Dir).data
      /\ inode[Dir[Manifest(n)]].disk = Len(ManNode(inode, Dir).data)
  BY <1>1, <1>3 DEF CurrentJob, Made
<1>5. names' = Append(names, k)
  BY <1>4 DEF SetCurrent, RenameFile, WithCurrent
<1>6. k = WithCurrent(Dir, Temp(n)) /\ n \in Nat /\ n = job.number
  BY <1>2
<1>7. Len(Line(n)) = 2
  BY DEF Line
<1> HIDE DEF k, n
<1>8. Dirs' = Dirs \cup {k} /\ Dir' = k /\ names' \in Seq(Dirs') /\ Len(names') > 0
  BY <1>5, DirGrows DEF FileInv
<1>9. /\ StoreOK(inode, Dirs \cup {k}, k, acked, promised.synced, promised.flushed)
      /\ CurNum(inode, k) = n /\ ManNode(inode, k).data = ManNode(inode, Dir).data
  <2>1. StoreOK(inode, Dirs, Dir, acked, promised.synced, promised.flushed)
    BY DEF FileInv
  <2>2. ReadyToRename(inode, Dir, n)
    BY <1>4, <1>7 DEF ReadyToRename
  <2> QED
    BY <1>6, <2>1, <2>2, FileRenamed
<1>10. /\ DOMAIN job' = JobFields /\ job'.at = "clean" /\ job'.number = n
  BY <1>1, <1>2, <1>6, StepTo
<1>11. Fresh(inode, k, n + 1)
  <2>1. \A j \in 1..Len(ManNode(inode, Dir).data) :
            ManNode(inode, Dir).data[j] \in Nat /\ ManNode(inode, Dir).data[j] < n
    BY <1>2, <1>6, FileFacts DEF Fresh, TableAt
  <2> QED
    BY <1>6, <1>9, <2>1 DEF Fresh
<1>12. JobOK(inode, k, job')
  BY <1>9, <1>10, <1>11 DEF JobOK, FileSteps
<1> QED
  BY <1>1, <1>8, <1>9, <1>12 DEF FileInv

\* A file CURRENT does not lead to is deleted.
LEMMA DeleteKeeps ==
  ASSUME FileInv, NEW f, f \notin Needed(inode, Dir), EnvDeleteFile(f)
  PROVE  /\ inode' = inode /\ names' \in Seq(Dirs') /\ Len(names') > 0
         /\ StoreOK(inode, Dirs', Dir', acked, promised.synced, promised.flushed)
         /\ CurNum(inode, Dir') = CurNum(inode, Dir) /\ ManNode(inode, Dir') = ManNode(inode, Dir)
         /\ Dir'[Log] = Dir[Log]
<1>0. inode' = inode /\ StoreOK(inode, Dirs, Dir, acked, promised.synced, promised.flushed)
  BY DEF EnvDeleteFile, FileInv
<1>1. CASE Bound(f)
  <2> DEFINE k == WithoutFile(Dir, f)
  <2>1. names' = Append(names, k)
    BY <1>1 DEF EnvDeleteFile, WithoutFile
  <2>2. k = WithoutFile(Dir, f)
    OBVIOUS
  <2> HIDE DEF k
  <2>3. Dirs' = Dirs \cup {k} /\ Dir' = k /\ names' \in Seq(Dirs') /\ Len(names') > 0
    BY <2>1, DirGrows DEF FileInv
  <2>4. /\ StoreOK(inode, Dirs \cup {k}, k, acked, promised.synced, promised.flushed)
        /\ CurNum(inode, k) = CurNum(inode, Dir) /\ ManNode(inode, k) = ManNode(inode, Dir)
    BY <1>0, <2>2, FileDeleted
  <2>5. Log \in DOMAIN Dir /\ Log # f
    BY FileFacts DEF Needed
  <2>6. k[Log] = Dir[Log]
    BY <2>2, <2>5 DEF WithoutFile
  <2> QED
    BY <1>0, <2>3, <2>4, <2>6
<1>2. CASE ~Bound(f)
  <2>1. UNCHANGED names
    BY <1>2 DEF EnvDeleteFile
  <2>2. Dirs' = Dirs /\ Dir' = Dir /\ names' \in Seq(Dirs') /\ Len(names') > 0
    BY <2>1, DirStays DEF FileInv
  <2> QED
    BY <1>0, <2>2
<1> QED
  BY <1>1, <1>2

LEMMA CleanKeeps == FileInv /\ Clean => FileInv'
<1> SUFFICES ASSUME FileInv, Clean PROVE FileInv'
  OBVIOUS
<1>1. job.at = "clean" /\ acked' = acked /\ promised' = promised
  BY DEF Clean, Ghosts
<1>2. /\ DOMAIN job = JobFields /\ job.number = CurNum(inode, Dir)
      /\ Fresh(inode, Dir, job.number + 1)
  BY <1>1 DEF FileInv, JobOK
<1>3. CASE Obsolete = {}
  <2>1. job' = Resting(job.number + 1) /\ inode' = inode /\ UNCHANGED names
    BY <1>3 DEF Clean
  <2>2. Dirs' = Dirs /\ Dir' = Dir /\ names' \in Seq(Dirs') /\ Len(names') > 0
    BY <2>1, DirStays DEF FileInv
  <2>3. JobOK(inode, Dir, job')
    BY <1>2, <2>1, RestingJob
  <2> QED
    BY <1>1, <2>1, <2>2, <2>3 DEF FileInv
<1>4. CASE Obsolete # {}
  <2>1. PICK f \in Obsolete : EnvDeleteFile(f) /\ job' = job
    BY <1>4 DEF Clean
  <2>2. f \notin Needed(inode, Dir)
    <3>1. f \notin {CURRENT, Log, Manifest(CurNum(inode, Dir))} /\ \A r \in Recorded : f # Ldb(r)
      BY <2>1, FileFacts DEF Obsolete
    <3>2. \A j \in 1..Len(ManNode(inode, Dir).data) : ManNode(inode, Dir).data[j] \in Recorded
      BY FileFacts
    <3> QED
      BY <3>1, <3>2 DEF Needed
  <2>3. /\ inode' = inode /\ names' \in Seq(Dirs') /\ Len(names') > 0
        /\ StoreOK(inode, Dirs', Dir', acked, promised.synced, promised.flushed)
        /\ CurNum(inode, Dir') = CurNum(inode, Dir) /\ ManNode(inode, Dir') = ManNode(inode, Dir)
    BY <2>1, <2>2, DeleteKeeps
  <2>4. JobOK(inode, Dir', job')
    <3>1. Fresh(inode, Dir', job.number + 1)
      BY <1>2, <2>3, FreshSame
    <3> QED
      BY <1>1, <1>2, <2>1, <2>3, <3>1 DEF JobOK, FileSteps
  <2> QED
    BY <1>1, <2>3, <2>4 DEF FileInv
<1> QED
  BY <1>3, <1>4

LEMMA UndoFileKeeps == FileInv /\ UndoFile => FileInv'
<1> SUFFICES ASSUME FileInv, UndoFile PROVE FileInv'
  OBVIOUS
<1>1. job.at = "undo" /\ acked' = acked /\ promised' = promised /\ EnvDeleteFile(job.file)
  BY DEF UndoFile, Ghosts
<1>2. DOMAIN job = JobFields /\ UndoJob(inode, Dir, job)
  BY <1>1 DEF FileInv, JobOK
<1>3. job.file \notin Needed(inode, Dir)
  BY <1>2, FileFacts, FreshIsFree, OthersAreFree DEF UndoJob
<1>4. /\ inode' = inode /\ names' \in Seq(Dirs') /\ Len(names') > 0
      /\ StoreOK(inode, Dirs', Dir', acked, promised.synced, promised.flushed)
      /\ CurNum(inode, Dir') = CurNum(inode, Dir) /\ ManNode(inode, Dir') = ManNode(inode, Dir)
  BY <1>1, <1>3, DeleteKeeps
<1>5. JobOK(inode, Dir', job')
  <2>1. CASE job.what = "current"
    <3>1. job' = [job EXCEPT !.what = "manifest", !.file = Manifest(job.number)]
      BY <2>1 DEF UndoFile
    <3>2. /\ DOMAIN job' = JobFields /\ job'.at = "undo" /\ job'.what = "manifest"
          /\ job'.file = Manifest(job.number) /\ job'.number = job.number
      BY <1>1, <1>2, <3>1 DEF JobFields
    <3>3. UndoJob(inode, Dir', job')
      BY <1>2, <1>4, <2>1, <3>2 DEF UndoJob
    <3> QED
      BY <3>2, <3>3 DEF JobOK, FileSteps
  <2>2. CASE job.what # "current"
    <3>1. DOMAIN job' = JobFields /\ job'.at = "stopped"
      BY <2>2 DEF UndoFile, Stopped, FileWriting, JobFields
    <3> QED
      BY <3>1 DEF JobOK, FileSteps
  <2> QED
    BY <2>1, <2>2
<1> QED
  BY <1>1, <1>4, <1>5 DEF FileInv

\* A call fails: what fwrite took is not on the disk, and the file is not one
\* that CURRENT leads to or keeps what it had.
LEMMA CallFailsKeeps == FileInv /\ CallFails => FileInv'
<1> SUFFICES ASSUME FileInv, CallFails PROVE FileInv'
  OBVIOUS
<1>1. /\ job.at \in FileSteps /\ acked' = acked /\ promised' = promised /\ UNCHANGED names
  BY DEF CallFails, Ghosts, AppendData, FileSteps
<1>2. /\ Fresh(inode, Dir, job.number) /\ Busy(inode, Dir, job) /\ DOMAIN job = JobFields
      /\ job.number \in Nat /\ job.data \in Seq(Datum)
  BY <1>1, BusyNow, JobData
<1>3. Dirs' = Dirs /\ Dir' = Dir /\ names' \in Seq(Dirs') /\ Len(names') > 0
  BY <1>1, DirStays DEF FileInv
<1>4. StoreOK(inode, Dirs, Dir, acked, promised.synced, promised.flushed)
  BY DEF FileInv
<1>5. /\ DOMAIN job' = JobFields /\ job'.what = job.what /\ job'.file = job.file
      /\ job'.number = job.number
      /\ job'.at = IF job.what \in {"log", "record"} THEN "stopped" ELSE "undo"
  BY DEF CallFails, Stopped, FileWriting, JobFields
<1>6. ASSUME CurNum(inode', Dir) = CurNum(inode, Dir),
             job.what = "table" => ManNode(inode', Dir) = ManNode(inode, Dir)
      PROVE  JobOK(inode', Dir, job')
  <2>1. CASE job.what \in {"log", "record"}
    BY <1>5, <2>1 DEF JobOK, FileSteps
  <2>2. CASE job.what \notin {"log", "record"}
    <3>1. TableJob(inode, Dir, job) \/ ManifestJob(inode, Dir, job) \/ CurrentJob(inode, Dir, job)
      BY <1>2, <2>2 DEF Busy, LogJob, RecordJob
    <3>2. UndoJob(inode', Dir, job')
      BY <1>2, <1>5, <1>6, <3>1, FreshSame DEF UndoJob, TableJob, ManifestJob, CurrentJob
    <3>3. job'.at = "undo"
      BY <1>5, <2>2
    <3> QED
      BY <1>5, <3>2, <3>3 DEF JobOK, FileSteps
  <2> QED
    BY <2>1, <2>2
<1> SUFFICES /\ StoreOK(inode', Dirs, Dir, acked, promised.synced, promised.flushed)
             /\ CurNum(inode', Dir) = CurNum(inode, Dir)
             /\ job.what = "table" => ManNode(inode', Dir) = ManNode(inode, Dir)
  BY <1>1, <1>3, <1>6 DEF FileInv
<1>7. CASE inode' = inode
  BY <1>4, <1>7
<1>8. CASE inode' # inode
  <2> DEFINE a == inode[Dir[job.file]]
             z == SubSeq(job.data, 1, Len(job.data) - 1)
             b == Appended(a, z)
  <2>1. job.at = "append" /\ inode' = WithNode(inode, Dir, job.file, b)
    BY <1>8 DEF CallFails, AppendData, SetNode, Node, WithNode, Appended
  <2>2. job.file \in DOMAIN Dir
    BY <1>2, <2>1, FileFacts DEF Busy, LogJob, TableJob, RecordJob, ManifestJob, CurrentJob, Made
  <2>3. NodeOK(a)
    BY <2>2, FileFacts
  <2>4. z \in Seq(Datum)
    BY <1>2
  <2>5. RecordJob(inode, Dir, job) => Len(z) = 0
    BY DEF RecordJob
  <2> HIDE DEF a, z
  <2>6. /\ NodeOK(b) /\ b.disk = a.disk /\ b.cached = a.cached
        /\ b.data = a.data \o z /\ Len(b.data) = Len(a.data) + Len(z)
        /\ \A j \in 1..Len(a.data) : b.data[j] = a.data[j]
        /\ \A j \in 1..a.disk : b.data[j] = a.data[j]
    BY <2>3, <2>4, AppendNode
  <2> HIDE DEF b
  <2>7. DiskKept(a, b)
    BY <2>6 DEF DiskKept
  <2>8. CASE LogJob(inode, Dir, job)
    <3>1. job.file = Log /\ job.what = "log"
      BY <2>8 DEF LogJob
    <3>2. promised.synced <= b.disk /\ promised.flushed <= b.cached
      BY <2>6, <3>1, LogHolds DEF a
    <3>3. /\ StoreOK(inode', Dirs, Dir, acked, promised.synced, promised.flushed)
          /\ OthersStay(inode, inode', Dir, Log)
      BY <1>4, <2>1, <2>6, <3>1, <3>2, LogSet
    <3>4. CurNum(inode', Dir) = CurNum(inode, Dir)
      BY <3>3, NamesDiffer, LeadKept
    <3> QED
      BY <3>1, <3>3, <3>4
  <2>9. CASE TableJob(inode, Dir, job)
    <3>1. job.file = Ldb(job.number) /\ a.disk = 0
      BY <2>1, <2>9 DEF TableJob, Made, a
    <3>2. ~WholeTable(a)
      BY <3>1 DEF WholeTable
    <3>3. /\ StoreOK(inode', Dirs, Dir, acked, promised.synced, promised.flushed)
          /\ OthersStay(inode, inode', Dir, job.file)
      BY <1>4, <2>1, <2>2, <2>6, <3>1, <3>2, TableSet DEF a
    <3>4. /\ inode'[Dir[CURRENT]] = inode[Dir[CURRENT]]
          /\ inode'[Dir[Manifest(CurNum(inode, Dir))]] = inode[Dir[Manifest(CurNum(inode, Dir))]]
      BY <3>1, <3>3, FileFacts, NamesDiffer DEF OthersStay
    <3> QED
      BY <3>3, <3>4, LeadSame
  <2>10. CASE ManifestJob(inode, Dir, job)
    <3>1. /\ job.file = Manifest(job.number) /\ job.number # CurNum(inode, Dir)
          /\ job.what = "manifest"
      BY <2>10 DEF ManifestJob
    <3>2. /\ StoreOK(inode', Dirs, Dir, acked, promised.synced, promised.flushed)
          /\ OthersStay(inode, inode', Dir, job.file)
      BY <1>4, <2>1, <2>2, <2>6, <2>7, <3>1, ManSet DEF a
    <3>3. CurNum(inode', Dir) = CurNum(inode, Dir)
      <4>1. inode'[Dir[CURRENT]] = inode[Dir[CURRENT]]
        BY <3>1, <3>2, FileFacts, NamesDiffer DEF OthersStay
      <4> QED
        BY <4>1, LeadSame
    <3> QED
      BY <3>1, <3>2, <3>3
  <2>11. CASE CurrentJob(inode, Dir, job)
    <3>1. job.file = Temp(job.number) /\ a.disk = 0 /\ job.what = "current"
      BY <2>1, <2>11 DEF CurrentJob, Made, a
    <3>2. a.disk # 2
      BY <3>1
    <3>3. /\ StoreOK(inode', Dirs, Dir, acked, promised.synced, promised.flushed)
          /\ CurNum(inode', Dir) = CurNum(inode, Dir)
      BY <1>4, <2>1, <2>2, <2>6, <3>1, <3>2, TempSet DEF a
    <3> QED
      BY <3>1, <3>3
  <2>12. CASE RecordJob(inode, Dir, job)
    <3> DEFINE m == CurNum(inode, Dir)
    <3>1. /\ job.file = Manifest(m) /\ job.what = "record" /\ inode[Dir[Manifest(m)]] = a
          /\ a = ManNode(inode, Dir)
      BY <2>12 DEF RecordJob, a, ManNode
    <3>2. RecordsTables(inode, Dir, b)
      <4>1. Len(b.data) = Len(a.data)
        BY <2>3, <2>5, <2>6, <2>12, NodeData
      <4> QED
        BY <2>6, <3>1, <4>1 DEF RecordsTables
    <3>3. /\ Manifest(m) \in DOMAIN Dir /\ inode' = WithNode(inode, Dir, Manifest(m), b)
          /\ DiskKept(inode[Dir[Manifest(m)]], b)
      BY <2>1, <2>2, <2>7, <3>1
    <3> HIDE DEF m
    <3>4. /\ StoreOK(inode', Dirs, Dir, acked, promised.synced, promised.flushed)
          /\ OthersStay(inode, inode', Dir, Manifest(m))
      BY <1>4, <2>6, <3>2, <3>3, ManSet
    <3>5. CurNum(inode', Dir) = CurNum(inode, Dir)
      BY <3>4, NamesDiffer, LeadKept
    <3> QED
      BY <3>1, <3>4, <3>5
  <2> QED
    BY <1>2, <2>8, <2>9, <2>10, <2>11, <2>12 DEF Busy
<1> QED
  BY <1>7, <1>8

\* The process stops.
LEMMA ProcessCrashKeeps == FileInv /\ ProcessCrash => FileInv'
<1> SUFFICES ASSUME FileInv, ProcessCrash PROVE FileInv'
  OBVIOUS
<1>1. /\ acked' = acked /\ promised' = promised /\ UNCHANGED names
      /\ job' = FileWriting("none", "closed", Log, <<>>, 0)
  BY DEF ProcessCrash
<1>2. Dirs' = Dirs /\ Dir' = Dir /\ names' \in Seq(Dirs') /\ Len(names') > 0
  BY <1>1, DirStays DEF FileInv
<1>3. StoreOK(inode, Dirs, Dir, acked, promised.synced, promised.flushed)
  BY DEF FileInv
<1>4. PICK after \in Survivors(Dir, Cached, Written) :
         inode' = [i \in DOMAIN inode |->
                      IF i \in Named(Dir) THEN [after[i] EXCEPT !.disk = inode[i].disk]
                                          ELSE inode[i]]
  BY DEF ProcessCrash
<1> DEFINE loose == {i \in Named(Dir) : Cached(i) < Written(i)}
           n(l, i) == IF i \in loose THEN l[i] ELSE Cached(i)
<1>5. PICK l : /\ \A i \in loose : l[i] \in Cached(i)..Written(i)
               /\ after = [i \in DOMAIN inode |->
                    LET m == IF i \in Named(Dir) THEN n(l, i) ELSE 0
                    IN [data |-> SubSeq(inode[i].data, 1, m), cached |-> m, disk |-> m]]
  BY <1>4 DEF Survivors
<1>6. inode \in Seq(FileNodes) /\ DOMAIN inode = 1..Len(inode)
      /\ \A i \in 1..Len(inode) : NodeOK(inode[i])
  BY <1>3, FileFacts DEF StoreOK, InodesOK
<1>7. ASSUME NEW i \in 1..Len(inode)
      PROVE  /\ inode'[i] \in FileNodes /\ Remains(inode[i], inode'[i])
             /\ inode'[i].disk = inode[i].disk /\ inode[i].cached <= inode'[i].cached
             /\ i \in Named(Dir) => inode'[i].cached = Len(inode'[i].data)
  <2>1. CASE i \in Named(Dir)
    <3> DEFINE m == n(l, i)
               b == [data |-> SubSeq(inode[i].data, 1, m), cached |-> m, disk |-> inode[i].disk]
    <3>1. inode[i].cached \in Nat /\ Len(inode[i].data) \in Nat /\ inode[i].disk \in Nat
          /\ inode[i].disk <= inode[i].cached /\ inode[i].cached <= Len(inode[i].data)
      BY <1>6, NodeData
    <3>2. m \in Nat /\ inode[i].cached <= m /\ m <= Len(inode[i].data)
      <4>1. CASE i \in loose
        <5>1. l[i] \in inode[i].cached..Len(inode[i].data) /\ m = l[i]
          BY <1>5, <4>1 DEF Cached, Written
        <5> QED
          BY <3>1, <5>1
      <4>2. CASE i \notin loose
        <5>1. m = inode[i].cached
          BY <4>2 DEF Cached
        <5> QED
          BY <3>1, <5>1
      <4> QED
        BY <4>1, <4>2
    <3>3. inode'[i] = b
      BY <1>4, <1>5, <1>6, <2>1
    <3> HIDE DEF m
    <3>4. Remains(inode[i], b) /\ Len(b.data) = m /\ b \in FileNodes
      <4>1. PICK a, k, j : a = inode[i] /\ k = m /\ j = inode[i].disk
        OBVIOUS
      <4>2. /\ NodeOK(a) /\ k \in Nat /\ a.disk <= k /\ k <= Len(a.data) /\ j \in Nat /\ j <= k
            /\ b = [data |-> SubSeq(a.data, 1, k), cached |-> k, disk |-> j]
        BY <1>6, <3>1, <3>2, <4>1
      <4> HIDE DEF b
      <4>3. Remains(a, b) /\ Len(b.data) = k /\ b \in FileNodes
        BY <4>2, CutNode
      <4> QED
        BY <4>1, <4>3
    <3>5. b.cached = m /\ b.disk = inode[i].disk
      OBVIOUS
    <3> QED
      BY <3>2, <3>3, <3>4, <3>5
  <2>2. CASE i \notin Named(Dir)
    <3>1. inode'[i] = inode[i]
      BY <1>4, <1>6, <2>2
    <3>2. Remains(inode[i], inode[i])
      BY <1>6, NodeData DEF Remains
    <3> QED
      BY <1>6, <2>2, <3>1, <3>2, NodeData DEF NodeOK
  <2> QED
    BY <2>1, <2>2
<1>8. DOMAIN inode' = 1..Len(inode)
  BY <1>4, <1>6
<1>9. inode' \in Seq(FileNodes) /\ Len(inode') = Len(inode)
  <2>1. Len(inode) \in Nat
    BY <1>6
  <2>2. inode' = [i \in 1..Len(inode) |-> inode'[i]]
    BY <1>4, <1>8
  <2>3. inode' \in [1..Len(inode) -> FileNodes]
    BY <1>7, <2>2
  <2> QED
    BY <2>1, <2>3
<1>10. StoreOK(inode', Dirs, Dir, acked, promised.synced, promised.flushed)
  <2>1. promised.flushed \in Nat
    BY FileFacts
  <2> QED
    BY <1>3, <1>7, <1>9, <2>1, ProcessLoses
<1>11. JobOK(inode', Dir, job')
  <2>1. DOMAIN job' = JobFields /\ job'.at = "closed"
    BY <1>1 DEF FileWriting, JobFields
  <2>2. Dir[Log] \in 1..Len(inode) /\ Dir[Log] \in Named(Dir)
    BY FileFacts DEF Named
  <2> QED
    BY <1>7, <2>1, <2>2 DEF JobOK, FileSteps
<1> QED
  BY <1>1, <1>2, <1>10, <1>11 DEF FileInv

\* Numbers that are bounded have a greatest one.
LEMMA GreatestNat ==
  ASSUME NEW N \in Nat, NEW S \in SUBSET (0..N), S # {}
  PROVE  Max(S) \in S /\ \A x \in S : x <= Max(S)
<1> DEFINE T == {N - x : x \in S}
<1>1. T \in SUBSET Nat /\ T # {}
  <2>1. \A x \in S : N - x \in Nat
    OBVIOUS
  <2>2. PICK y \in S : TRUE
    OBVIOUS
  <2>3. N - y \in T
    OBVIOUS
  <2> QED
    BY <2>1, <2>3
<1>2. PICK t \in T : \A u \in T : t <= u
  <2> HIDE DEF T
  <2> QED
    BY <1>1, LeastNat
<1>3. PICK x \in S : t = N - x
  BY <1>2
<1>4. ASSUME NEW y \in S PROVE y <= x
  <2>1. N - y \in T
    OBVIOUS
  <2>2. N - x <= N - y
    BY <1>2, <1>3, <2>1
  <2>3. x \in 0..N /\ y \in 0..N
    OBVIOUS
  <2> QED
    BY <2>2, <2>3
<1> QED
  BY <1>4 DEF Max

LEMMA BoundedNats ==
  ASSUME NEW n \in Nat, NEW q, \A j \in 1..n : q[j] \in Nat
  PROVE  \E c \in Nat : \A j \in 1..n : q[j] <= c
<1> DEFINE Bounded(k) == \E c \in Nat : \A j \in 1..k : q[j] <= c
           T == {k \in 0..n : ~Bounded(k)}
<1> SUFFICES ASSUME ~Bounded(n) PROVE FALSE
  OBVIOUS
<1>1. T \in SUBSET Nat /\ T # {}
  <2>1. n \in T
    OBVIOUS
  <2> QED
    BY <2>1
<1>2. PICK k \in T : \A x \in T : k <= x
  <2> HIDE DEF T
  <2> QED
    BY <1>1, LeastNat
<1>3. k \in 0..n /\ ~Bounded(k)
  BY <1>2
<1>4. k # 0
  <2>1. Bounded(0)
    <3>1. \A j \in 1..0 : q[j] <= 0
      OBVIOUS
    <3> QED
      BY <3>1
  <2> QED
    BY <1>3, <2>1
<1>5. k - 1 \in 0..n /\ k - 1 \notin T
  <2>1. k - 1 \in 0..n /\ ~(k <= k - 1)
    BY <1>3, <1>4
  <2> HIDE DEF T
  <2> QED
    BY <1>2, <2>1
<1>6. PICK c \in Nat : \A j \in 1..(k - 1) : q[j] <= c
  BY <1>5
<1>7. q[k] \in Nat
  BY <1>3, <1>4
<1>8. \A j \in 1..k : q[j] <= c + q[k]
  <2> SUFFICES ASSUME NEW j \in 1..k PROVE q[j] <= c + q[k]
    OBVIOUS
  <2>1. j \in 1..n /\ (j = k \/ j \in 1..(k - 1))
    BY <1>3
  <2>2. q[j] \in Nat
    BY <2>1
  <2> QED
    BY <1>6, <1>7, <2>1, <2>2
<1>9. c + q[k] \in Nat
  BY <1>7
<1> QED
  BY <1>3, <1>8, <1>9

\* The machine stops.
LEMMA MachineCrashKeeps == FileInv /\ MachineCrash => FileInv'
<1> SUFFICES ASSUME FileInv, MachineCrash PROVE FileInv'
  OBVIOUS
<1>1. /\ acked' = acked /\ job' = FileWriting("none", "closed", Log, <<>>, 0)
      /\ promised' = [promised EXCEPT !.flushed = promised.synced]
  BY DEF MachineCrash
<1>2. promised' \in [flushed : Nat, synced : Nat] /\ promised'.synced = promised.synced
      /\ promised'.flushed = promised.synced /\ promised.synced \in Nat
  BY <1>1 DEF FileInv
<1>3. StoreOK(inode, Dirs, Dir, acked, promised.synced, promised.flushed)
  BY DEF FileInv
<1>4. PICK x \in 1..Len(names) :
         /\ inode' \in IF x = Len(names) THEN Survivors(Dir, OnDisk, Written)
                                         ELSE Survivors(names[x], OnDisk, OnDisk)
         /\ names' = <<names[x]>>
  BY DEF MachineCrash
<1> DEFINE e == names[x]
<1>5. e \in Dirs /\ (x = Len(names) => e = Dir)
  BY DEF Dirs, Dir
<1>6. inode \in Seq(FileNodes) /\ DOMAIN inode = 1..Len(inode)
      /\ \A i \in 1..Len(inode) : NodeOK(inode[i])
  BY <1>3, FileFacts DEF StoreOK, InodesOK
<1>7. \A g \in DOMAIN e : e[g] \in 1..Len(inode) /\ e[g] \in Named(e)
  BY <1>3, <1>5 DEF StoreOK, NamesOK, Named
\* How much of each file is left.
<1> DEFINE Left(m) == /\ \A i \in Named(e) : m[i] \in inode[i].disk..Len(inode[i].data)
                      /\ x # Len(names) => \A i \in Named(e) : m[i] = inode[i].disk
                      /\ inode' = [i \in DOMAIN inode |->
                           LET k == IF i \in Named(e) THEN m[i] ELSE 0
                           IN [data |-> SubSeq(inode[i].data, 1, k), cached |-> k, disk |-> k]]
<1>8. Named(e) \subseteq 1..Len(inode)
  BY <1>7 DEF Named
<1>9. \A i \in 1..Len(inode) : /\ inode[i].disk \in Nat /\ Len(inode[i].data) \in Nat
                               /\ inode[i].disk <= Len(inode[i].data)
  <2> SUFFICES ASSUME NEW i \in 1..Len(inode)
               PROVE  /\ inode[i].disk \in Nat /\ Len(inode[i].data) \in Nat
                      /\ inode[i].disk <= Len(inode[i].data)
    OBVIOUS
  <2>1. /\ inode[i].disk \in Nat /\ Len(inode[i].data) \in Nat /\ inode[i].cached \in Nat
        /\ inode[i].disk <= inode[i].cached /\ inode[i].cached <= Len(inode[i].data)
    BY <1>6, NodeData
  <2> QED
    BY <2>1
<1>10. \E m : Left(m)
  <2>1. CASE x = Len(names)
    <3> DEFINE loose == {i \in Named(e) : OnDisk(i) < Written(i)}
               n(l, i) == IF i \in loose THEN l[i] ELSE OnDisk(i)
    <3>1. inode' \in Survivors(e, OnDisk, Written)
      BY <1>4, <1>5, <2>1
    <3>2. PICK l : /\ \A i \in loose : l[i] \in OnDisk(i)..Written(i)
                   /\ inode' = [i \in DOMAIN inode |->
                        LET k == IF i \in Named(e) THEN n(l, i) ELSE 0
                        IN [data |-> SubSeq(inode[i].data, 1, k), cached |-> k, disk |-> k]]
      BY <3>1 DEF Survivors
    <3> DEFINE m == [i \in Named(e) |-> n(l, i)]
    <3>3. \A i \in Named(e) : m[i] \in inode[i].disk..Len(inode[i].data)
      BY <1>8, <1>9, <3>2 DEF OnDisk, Written
    <3>4. inode' = [i \in DOMAIN inode |->
                      LET k == IF i \in Named(e) THEN m[i] ELSE 0
                      IN [data |-> SubSeq(inode[i].data, 1, k), cached |-> k, disk |-> k]]
      BY <3>2
    <3> HIDE DEF m
    <3>5. Left(m)
      BY <2>1, <3>3, <3>4
    <3> QED
      BY <3>5
  <2>2. CASE x # Len(names)
    <3> DEFINE loose == {i \in Named(e) : OnDisk(i) < OnDisk(i)}
               n(l, i) == IF i \in loose THEN l[i] ELSE OnDisk(i)
    <3>1. inode' \in Survivors(e, OnDisk, OnDisk)
      BY <1>4, <2>2
    <3>2. PICK l : inode' = [i \in DOMAIN inode |->
                        LET k == IF i \in Named(e) THEN n(l, i) ELSE 0
                        IN [data |-> SubSeq(inode[i].data, 1, k), cached |-> k, disk |-> k]]
      BY <3>1 DEF Survivors
    <3>3. \A i \in Named(e) : i \notin loose
      BY <1>8, <1>9 DEF OnDisk
    <3> DEFINE m == [i \in Named(e) |-> OnDisk(i)]
    <3>4. \A i \in Named(e) : m[i] = inode[i].disk /\ n(l, i) = m[i]
      BY <3>3 DEF OnDisk
    <3>5. \A i \in Named(e) : m[i] \in inode[i].disk..Len(inode[i].data)
      BY <1>8, <1>9, <3>4
    <3>6. inode' = [i \in DOMAIN inode |->
                      LET k == IF i \in Named(e) THEN m[i] ELSE 0
                      IN [data |-> SubSeq(inode[i].data, 1, k), cached |-> k, disk |-> k]]
      BY <3>2, <3>4
    <3> HIDE DEF m
    <3>7. Left(m)
      BY <3>4, <3>5, <3>6
    <3> QED
      BY <3>7
  <2> QED
    BY <2>1, <2>2
<1>11. PICK m : Left(m)
  BY <1>10
<1>12. ASSUME NEW i \in 1..Len(inode)
       PROVE  /\ inode'[i] \in FileNodes /\ NodeOK(inode'[i])
              /\ inode'[i].disk = Len(inode'[i].data) /\ inode'[i].cached = inode'[i].disk
              /\ i \in Named(e) => /\ Remains(inode[i], inode'[i]) /\ inode[i].disk <= inode'[i].disk
                                   /\ x # Len(names) => inode'[i].disk = inode[i].disk
  <2>1. CASE i \in Named(e)
    <3> DEFINE b == [data |-> SubSeq(inode[i].data, 1, m[i]), cached |-> m[i], disk |-> m[i]]
    <3>1. inode'[i] = b
      BY <1>6, <1>11, <2>1
    <3>2. m[i] \in Nat /\ inode[i].disk <= m[i] /\ m[i] <= Len(inode[i].data)
      BY <1>9, <1>11, <2>1
    <3>3. x # Len(names) => m[i] = inode[i].disk
      BY <1>11, <2>1
    <3>4. Remains(inode[i], b) /\ Len(b.data) = m[i] /\ b \in FileNodes
      BY <1>6, <3>2, CutNode
    <3>5. b.cached = m[i] /\ b.disk = m[i]
      OBVIOUS
    <3>6. NodeOK(b)
      BY <3>4 DEF Remains
    <3> QED
      BY <3>1, <3>2, <3>3, <3>4, <3>5, <3>6
  <2>2. CASE i \notin Named(e)
    <3>1. inode'[i] = [data |-> SubSeq(inode[i].data, 1, 0), cached |-> 0, disk |-> 0]
      BY <1>6, <1>11, <2>2
    <3>2. inode[i].data \in Seq(Datum)
      BY <1>6, NodeData
    <3>3. SubSeq(inode[i].data, 1, 0) \in Seq(Datum) /\ Len(SubSeq(inode[i].data, 1, 0)) = 0
      BY <3>2
    <3> QED
      BY <2>2, <3>1, <3>3 DEF NodeOK, FileNodes
  <2> QED
    BY <2>1, <2>2
<1>13. inode' \in Seq(FileNodes) /\ Len(inode') = Len(inode)
  <2>1. Len(inode) \in Nat
    BY <1>6
  <2>2. DOMAIN inode' = 1..Len(inode) /\ inode' = [i \in 1..Len(inode) |-> inode'[i]]
    BY <1>6, <1>11
  <2>3. inode' \in [1..Len(inode) -> FileNodes]
    BY <1>12, <2>2
  <2> QED
    BY <2>1, <2>3
<1>14. InodesOK(inode')
  BY <1>12, <1>13 DEF InodesOK
<1> HIDE DEF Left
<1>15. Dirs' = {e} /\ Dir' = e /\ names' \in Seq(Dirs') /\ Len(names') > 0
  BY <1>4, DirAlone
<1>16. StoreOK(inode', {e}, e, acked, promised.synced, promised.synced)
  <2>1. e \in Dirs /\ (e # Dir => x # Len(names))
    BY <1>5
  <2> HIDE DEF e
  <2>2. \A g \in DOMAIN e :
           /\ Remains(inode[e[g]], inode'[e[g]]) /\ inode[e[g]].disk <= inode'[e[g]].disk
           /\ inode'[e[g]].disk = Len(inode'[e[g]].data) /\ inode'[e[g]].cached = inode'[e[g]].disk
           /\ e # Dir => inode'[e[g]].disk = inode[e[g]].disk
    BY <1>7, <1>12, <2>1
  <2> QED
    BY <1>2, <1>3, <1>13, <1>14, <2>1, <2>2, MachineLoses
<1>17. JobOK(inode', e, job')
  <2>1. DOMAIN job' = JobFields /\ job'.at = "closed"
    BY <1>1 DEF FileWriting, JobFields
  <2>2. DirOK(inode', e, acked, promised.synced)
    BY <1>16 DEF StoreOK, DirsOK
  <2>3. Log \in DOMAIN e
    BY <2>2, DirNames
  <2>4. e[Log] \in 1..Len(inode)
    BY <1>7, <2>3
  <2>5. inode'[e[Log]].cached = Len(inode'[e[Log]].data)
    BY <1>12, <2>4
  <2> QED
    BY <2>1, <2>5 DEF JobOK, FileSteps
<1> QED
  BY <1>1, <1>2, <1>15, <1>16, <1>17 DEF FileInv

\* The database is opened: the new MANIFEST has a number of its own.
LEMMA ReopenKeeps == FileInv /\ Reopen => FileInv'
<1> SUFFICES ASSUME FileInv, Reopen PROVE FileInv'
  OBVIOUS
<1> DEFINE S == {CurrentNumber} \cup Recorded
           n == Max(S) + 1
<1>1. /\ job.at = "closed" /\ inode' = inode /\ acked' = acked /\ UNCHANGED names
      /\ promised' = [flushed |-> Len(Contents(Log)), synced |-> promised.synced]
      /\ job' = FileWriting("manifest", "new", Manifest(n), Snapshot, n)
  BY DEF Reopen
<1>2. Dirs' = Dirs /\ Dir' = Dir /\ names' \in Seq(Dirs') /\ Len(names') > 0
  BY <1>1, DirStays DEF FileInv
<1>3. /\ CurrentNumber = CurNum(inode, Dir) /\ CurNum(inode, Dir) \in Nat
      /\ Snapshot = ManNode(inode, Dir).data
      /\ Recorded = {ManNode(inode, Dir).data[i] : i \in 1..Len(ManNode(inode, Dir).data)}
  <2>1. CurrentNumber = CurNum(inode, Dir)
    BY FileFacts
  <2> QED
    BY <2>1, FileFacts DEF Snapshot, Contents, Node, ManNode
<1>4. \A j \in 1..Len(ManNode(inode, Dir).data) : ManNode(inode, Dir).data[j] \in Nat
  BY FileFacts DEF TableAt
<1>5. Len(ManNode(inode, Dir).data) \in Nat
  BY FileFacts, NodeData DEF ManNode
<1>6. PICK c \in Nat : \A j \in 1..Len(ManNode(inode, Dir).data) : ManNode(inode, Dir).data[j] <= c
  BY <1>4, <1>5, BoundedNats
<1>7. Max(S) \in S /\ \A y \in S : y <= Max(S)
  <2>1. c + CurNum(inode, Dir) \in Nat
    BY <1>3
  <2>2. S \in SUBSET (0..(c + CurNum(inode, Dir))) /\ S # {}
    <3>1. ASSUME NEW y \in S PROVE y \in 0..(c + CurNum(inode, Dir))
      <4>1. CASE y = CurNum(inode, Dir)
        BY <1>3, <4>1
      <4>2. CASE y \in Recorded
        <5>1. PICK j \in 1..Len(ManNode(inode, Dir).data) : y = ManNode(inode, Dir).data[j]
          BY <1>3, <4>2
        <5>2. y \in Nat /\ y <= c
          BY <1>4, <1>6, <5>1
        <5> QED
          BY <1>3, <5>2
      <4> QED
        BY <1>3, <4>1, <4>2
    <3> QED
      BY <3>1
  <2> HIDE DEF S
  <2> QED
    BY <2>1, <2>2, GreatestNat
<1>8. n \in Nat /\ n # CurNum(inode, Dir)
      /\ \A j \in 1..Len(ManNode(inode, Dir).data) : ManNode(inode, Dir).data[j] < n
  <2>1. \A y \in S : y \in Nat
    BY <1>3, <1>4
  <2>2. Max(S) \in Nat
    BY <1>7, <2>1
  <2>3. CurNum(inode, Dir) \in S
    BY <1>3
  <2>4. \A j \in 1..Len(ManNode(inode, Dir).data) : ManNode(inode, Dir).data[j] \in S
    BY <1>3
  <2> HIDE DEF S
  <2> QED
    BY <1>3, <1>4, <1>7, <2>2, <2>3, <2>4
<1> HIDE DEF n
<1>9. Fresh(inode, Dir, n)
  BY <1>8 DEF Fresh
<1>10. /\ DOMAIN job' = JobFields /\ job'.what = "manifest" /\ job'.at = "new"
       /\ job'.file = Manifest(n) /\ job'.data = ManNode(inode, Dir).data /\ job'.number = n
  BY <1>1, <1>3 DEF FileWriting, JobFields
<1>11. ManifestJob(inode, Dir, job')
  BY <1>8, <1>10 DEF ManifestJob, Made
<1>12. JobOK(inode, Dir, job')
  BY <1>9, <1>10, <1>11, BusyJob DEF Busy, FileSteps
<1>13. StoreOK(inode, Dirs, Dir, acked, promised.synced, Len(Contents(Log)))
       /\ Len(Contents(Log)) \in Nat
  <2>1. Len(Contents(Log)) = inode[Dir[Log]].cached
    BY <1>1 DEF FileInv, JobOK, Contents, Node
  <2>2. inode[Dir[Log]].cached \in Nat
    BY FileFacts, NodeData
  <2>3. LastOK(inode, Dir, Len(Contents(Log)))
    BY <2>1, <2>2 DEF FileInv, StoreOK, LastOK
  <2> QED
    BY <2>1, <2>2, <2>3 DEF FileInv, StoreOK
<1>14. promised' \in [flushed : Nat, synced : Nat] /\ promised'.synced = promised.synced
       /\ promised'.flushed = Len(Contents(Log))
  BY <1>1, <1>13, FileFacts
<1> QED
  BY <1>1, <1>2, <1>12, <1>13, <1>14 DEF FileInv

LEMMA FileInitInv == FileInit => FileInv
<1> SUFFICES ASSUME FileInit PROVE FileInv
  OBVIOUS
<1> DEFINE d == [f \in {CURRENT, Manifest(1), Log} |->
                     IF f = CURRENT THEN 1 ELSE IF f = Log THEN 3 ELSE 2]
<1>1. /\ inode = <<[data |-> Line(1), cached |-> 2, disk |-> 2],
                   [data |-> <<>>, cached |-> 0, disk |-> 0],
                   [data |-> <<>>, cached |-> 0, disk |-> 0]>>
      /\ names = <<d>> /\ job = Resting(2) /\ acked = {}
      /\ promised = [flushed |-> 0, synced |-> 0]
  BY DEF FileInit
<1>2. d[CURRENT] = 1 /\ d[Log] = 3 /\ d[Manifest(1)] = 2 /\ DOMAIN d = {CURRENT, Manifest(1), Log}
  BY NamesDiffer
<1> HIDE DEF d
<1>3. Dir = d /\ names \in Seq({d}) /\ Len(names) = 1 /\ names[1] = d
  BY <1>1 DEF Dir
<1>4. Dirs = {d}
  <2>1. \A y : y \in Dirs <=> y = d
    BY <1>3 DEF Dirs
  <2> QED
    BY <2>1
<1>5. Len(inode) = 3 /\ inode[1] = [data |-> Line(1), cached |-> 2, disk |-> 2]
      /\ inode[2] = EmptyNode /\ inode[3] = EmptyNode
  BY <1>1 DEF EmptyNode
<1>6. EmptyNode \in FileNodes /\ NodeOK(EmptyNode)
  BY DEF EmptyNode, FileNodes, NodeOK
<1>7. inode[1] \in FileNodes /\ NodeOK(inode[1])
  <2>1. 1 \in Datum /\ "newline" \in Datum
    BY DEF Datum
  <2>2. Line(1) \in Seq(Datum) /\ Len(Line(1)) = 2
    BY <2>1 DEF Line
  <2> QED
    BY <1>5, <2>2 DEF FileNodes, NodeOK
<1>8. InodesOK(inode)
  <2>1. inode \in Seq(FileNodes)
    BY <1>1, <1>5, <1>6, <1>7
  <2> QED
    BY <1>5, <1>6, <1>7, <2>1 DEF InodesOK
<1>9. CurNum(inode, d) = 1
  BY <1>2, <1>5 DEF CurNum, Line
<1>10. ManNode(inode, d) = EmptyNode
  BY <1>2, <1>5, <1>9 DEF ManNode
<1>11. ManNode(inode, d).disk = 0 /\ Len(ManNode(inode, d).data) = 0
  BY <1>10 DEF EmptyNode
<1>12. DirOK(inode, d, {}, 0)
  <2>1. CurOK(inode, d)
    BY <1>2, <1>5, <1>9 DEF CurOK
  <2>2. TablesTo(inode, d, ManNode(inode, d).disk)
    BY <1>11 DEF TablesTo
  <2>3. LogOK(inode, d, 0)
    BY <1>2, <1>5 DEF LogOK, EmptyNode
  <2>4. AckedOK(inode, d, {})
    BY DEF AckedOK
  <2> QED
    BY <2>1, <2>2, <2>3, <2>4 DEF DirOK
<1>13. LastOK(inode, d, 0)
  BY <1>2, <1>5, <1>11 DEF LastOK, TablesTo, EmptyNode
<1>14. DirsOK(inode, {d}, {}, 0) /\ OneLog({d}, d)
  BY <1>12 DEF DirsOK, OneLog
<1>15. NamesOK(inode, {d})
  BY <1>2, <1>5 DEF NamesOK
<1>16. NamesApart({d})
  BY <1>2, AliasOf DEF NamesApart
<1>17. StoreOK(inode, {d}, d, {}, 0, 0)
  BY <1>8, <1>13, <1>14, <1>15, <1>16 DEF StoreOK
<1>18. JobOK(inode, d, job)
  <2>1. Fresh(inode, d, 2)
    BY <1>11 DEF Fresh
  <2> QED
    BY <1>1, <2>1, RestingJob
<1> QED
  BY <1>1, <1>3, <1>4, <1>17, <1>18 DEF FileInv

LEMMA FileInvImplies == FileInv => FilesSurvive
<1> SUFFICES ASSUME FileInv PROVE FilesSurvive
  OBVIOUS
<1>1. DirOK(inode, Dir, acked, promised.synced)
  BY DEF FileInv, StoreOK, DirsOK
<1>2. CurrentLeadsToTheData
  <2>1. Bound(CURRENT) /\ Bound(Manifest(CurrentNumber))
    BY FileFacts DEF Bound
  <2>2. Len(Contents(CURRENT)) = 2
    BY <1>1, DirNames DEF Contents, Node, Line
  <2>3. ASSUME NEW n \in Recorded PROVE Bound(Ldb(n)) /\ Len(Contents(Ldb(n))) = 2
    <3>1. TableAt(inode, Dir, n)
      BY FileFacts
    <3> QED
      BY <3>1 DEF TableAt, WholeTable, Bound, Contents, Node
  <2> QED
    BY <2>1, <2>2, <2>3 DEF CurrentLeadsToTheData
<1>3. SyncedRecordsSurvive
  <2> SUFFICES ASSUME NEW r \in acked PROVE r \in Recorded
    BY DEF SyncedRecordsSurvive
  <2>1. PICK j \in 1..ManNode(inode, Dir).disk : ManNode(inode, Dir).data[j] = r
    BY <1>1 DEF DirOK, AckedOK
  <2>2. NodeOK(ManNode(inode, Dir))
    BY FileFacts DEF ManNode
  <2>3. j \in 1..Len(ManNode(inode, Dir).data)
    BY <2>2, NodeData
  <2> QED
    BY <2>1, <2>3, FileFacts
<1>4. LogKeepsItsPromise
  <2>1. promised.flushed <= inode[Dir[Log]].cached /\ NodeOK(inode[Dir[Log]])
        /\ promised.flushed \in Nat
    BY LogHolds, FileFacts
  <2>2. promised.flushed <= Len(inode[Dir[Log]].data)
    BY <2>1, NodeData
  <2>3. Len(Contents(Log)) >= promised.flushed
    BY <2>1, <2>2, NodeData DEF Contents, Node
  <2> QED
    BY <2>3 DEF LogKeepsItsPromise
<1> QED
  BY <1>2, <1>3, <1>4 DEF FilesSurvive

LEMMA FileNextInv == FileInv /\ [FileNext]_fileVars => FileInv'
<1>1. FileInv /\ UNCHANGED fileVars => FileInv'
  BY DEF fileVars, FileInv, Dirs, Dir
<1> QED
  BY <1>1, WriteLogKeeps, WriteTableKeeps, NewFileKeeps, AppendFileKeeps, FlushFileKeeps,
     SyncFileKeeps, CloseFileKeeps, SetCurrentKeeps, CleanKeeps, CallFailsKeeps,
     UndoFileKeeps, ProcessCrashKeeps, MachineCrashKeeps, ReopenKeeps DEF FileNext

\* Every state of the directory that a crash may bring back leads to whole
\* files, with all that was synced; the present one also has all that was
\* flushed; the file being written is none of those CURRENT leads to.
THEOREM FilesInv == FileSpec => []FileInv
  BY FileInitInv, FileNextInv, PTL DEF FileSpec

\* The files keep what the database was promised, for any number of crashes
\* of the process and of the machine, whatever was in the buffers.
THEOREM FilesSurviveCrashes == FileSpec => []FilesSurvive
  BY FilesInv, FileInvImplies, PTL

=============================================================================
