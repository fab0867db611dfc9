---------------------------- MODULE AtomicStore ----------------------------
(***************************************************************************)
(* What leveldb::DB promises (include/leveldb/db.h and options.h): a store *)
(* to which a Write adds its batch atomically. Once a write is done it     *)
(* stays, except that a crash of the machine may take writes that were not *)
(* synced. Writes that failed or never returned may turn up after a        *)
(* restart, not before. Writes are numbers.                                *)
(***************************************************************************)
EXTENDS Naturals

VARIABLES
  up,      \* the database is open
  store,   \* the writes a reader sees, or will find after a restart
  done,    \* the writes that returned OK
  synced   \* the writes issued with WriteOptions::sync

storeVars == <<up, store, done, synced>>

StoreInit == up = FALSE /\ store = {} /\ done = {} /\ synced = {}

\* A write is issued; nothing is seen of it yet.
Issue == synced \subseteq synced' /\ UNCHANGED <<up, store, done>>

\* Write returns OK for a group of writes, which appear at once.
Commit ==
  /\ up
  /\ store \subseteq store' /\ done \subseteq done'
  /\ store' \ store = done' \ done
  /\ UNCHANGED <<up, synced>>

\* Open: nothing that was kept is missing, writes that were given up may
\* have come through.
Start ==
  /\ ~up /\ up'
  /\ store \subseteq store'
  /\ UNCHANGED <<done, synced>>

\* The database is closed or the process or the machine dies.
Stop ==
  /\ ~up'
  /\ store' \subseteq store
  /\ store \ store' \subseteq Nat \ synced
  /\ UNCHANGED <<done, synced>>

\* DestroyDB.
Destroy == ~up /\ store' = {} /\ UNCHANGED <<up, done, synced>>

StoreNext == Issue \/ Commit \/ Start \/ Stop \/ Destroy

StoreSpec == StoreInit /\ [][StoreNext]_storeVars
=============================================================================
