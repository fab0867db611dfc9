------------------------------ MODULE MemTable ------------------------------
(***************************************************************************)
(* leveldb's memtable (db/memtable.cc) over its skip list (db/skiplist.h)  *)
(* with the write batches that fill it (db/write_batch.cc). One writer     *)
(* inserts, link by link, while a reader walks the list without a lock:    *)
(* every load of a link is a step of its own.                              *)
(*                                                                         *)
(* A node is its entry: a user key and a sequence number; values and       *)
(* deletions are inserted and sought alike (Iterators tells them apart).   *)
(* The links of a new node are not initialised (arena memory) until the    *)
(* writer sets them, level by level.                                       *)
(***************************************************************************)
EXTENDS Naturals, Sequences, FiniteSets

CONSTANTS
  UserKeys,     \* user keys, numbers
  MaxSequence,  \* bound on the entries that are written
  MaxBatch,     \* bound on the records of a batch
  MaxHeight     \* kMaxHeight

ASSUME MemTableAssumption ==
  UserKeys \subseteq Nat /\ {MaxSequence, MaxBatch} \subseteq Nat /\ MaxHeight \in Nat \ {0}

VARIABLES
  batch,      \* the WriteBatch being built: count and records
  inserter,   \* MemTableInserter and SkipList::Insert
  link,       \* node -> level -> next node
  maxHeight,  \* max_height_
  published,  \* the last sequence number readers use
  walker,     \* the reader: an iterator, and the search it is in
  status      \* the status InsertInto returned

memVars == <<batch, inserter, link, maxHeight, published, walker, status>>

-----------------------------------------------------------------------------
NULL == [key |-> 0, seq |-> 0, type |-> "null"]
HeadNode == [key |-> 0, seq |-> 0, type |-> "head"]
Uninitialised == [key |-> 0, seq |-> 0, type |-> "garbage"]

ListLevels == 0..(MaxHeight - 1)
Nodes == DOMAIN link \ {HeadNode}

\* The order of the list: MemTable::KeyComparator.
KeyBefore(a, b) == a.key < b.key \/ (a.key = b.key /\ a.seq > b.seq)

KeyIsAfterNode(key, n) == n # NULL /\ KeyBefore(n, key)

-----------------------------------------------------------------------------
(* WriteBatch *)
NoBatch == [count |-> 0, records |-> <<>>]
BatchAdd(b, r) == [count |-> b.count + 1, records |-> Append(b.records, r)]

\* WriteBatchInternal::Append
BatchAppend(dst, src) == [count |-> dst.count + src.count, records |-> dst.records \o src.records]

\* The batches of one record: WriteBatch::Put and Delete.
OneRecord == {BatchAdd(NoBatch, [key |-> k]) : k \in UserKeys}

-----------------------------------------------------------------------------
(* SkipList::Insert. The search by the writer runs without interference.   *)
\* The nodes that are linked on level l.
AtLevel(l) == {n \in Nodes : /\ l \in DOMAIN link[n] /\ link[n][l] # Uninitialised
                             /\ ~(inserter.pc = "publish" /\ inserter.node = n /\ inserter.level = l)}

\* prev[l] of FindGreaterOrEqual: the last node before the key on level l.
PrevNode(key, l) ==
  LET S == {n \in AtLevel(l) : KeyBefore(n, key)}
  IN IF S = {} THEN HeadNode ELSE CHOOSE n \in S : \A m \in S : m = n \/ KeyBefore(m, n)

OwnLink(n, l) == [link EXCEPT ![n][l] = link[PrevNode(n, l)][l]]
Publish(n, l) == [link EXCEPT ![PrevNode(n, l)][l] = n]

\* Mutant: the new node is published before its own link is set.
PublishFirst(n, l, pc) ==
  IF pc = "own" THEN Publish(n, l)
  ELSE [link EXCEPT ![n][l] = LET S == {m \in AtLevel(l) : KeyBefore(n, m)}
                              IN IF S = {} THEN NULL ELSE CHOOSE m \in S : \A k \in S : k = m \/ KeyBefore(m, k)]

\* The two stores of a turn of the loop of Insert, on level l.
Store(n, l, pc) == IF pc = "own" THEN OwnLink(n, l) ELSE Publish(n, l)

-----------------------------------------------------------------------------
NoInserter == [pc |-> "idle", rest |-> NoBatch, found |-> 0, seq |-> 0, node |-> NULL, level |-> 0, height |-> 0]
NoWalk == [pc |-> "idle", op |-> "none", target |-> NULL, x |-> NULL, level |-> 0, node |-> NULL,
           start |-> {}, snapshot |-> 0]

MemInit ==
  /\ batch = NoBatch /\ inserter = NoInserter
  /\ link = [n \in {HeadNode} |-> [l \in ListLevels |-> NULL]]
  /\ maxHeight = 1 /\ published = 0 /\ walker = NoWalk /\ status = "OK"

\* Put, Delete; or Append by DBImpl::BuildBatchGroup.
BatchWrite ==
  /\ inserter.pc = "idle" /\ Len(batch.records) < MaxBatch
  /\ published + Len(batch.records) < MaxSequence
  /\ \E b \in OneRecord : batch' = BatchAppend(batch, b)
  /\ UNCHANGED <<inserter, link, maxHeight, published, walker, status>>

BatchClear ==
  /\ inserter.pc = "idle" /\ batch # NoBatch
  /\ batch' = NoBatch
  /\ UNCHANGED <<inserter, link, maxHeight, published, walker, status>>

\* InsertInto: SetSequence and the start of Iterate.
InsertInto ==
  /\ inserter.pc = "idle" /\ batch.records # <<>>
  /\ inserter' = [NoInserter EXCEPT !.pc = "iterate", !.rest = batch, !.seq = published + 1]
  /\ UNCHANGED <<batch, link, maxHeight, published, walker, status>>

\* MemTable::Add: the entry that is inserted.
MemEntry(k, seq) == [key |-> k, seq |-> seq, type |-> "entry"]

\* The next record: Add, and Insert up to the links. A height above
\* max_height_ is stored before the node is linked.
InsertRecord ==
  /\ inserter.pc = "iterate" /\ inserter.found < Len(inserter.rest.records)
  /\ \E h \in 1..MaxHeight :
       LET r == inserter.rest.records[inserter.found + 1]
           n == MemEntry(r.key, inserter.seq)
       IN /\ inserter' = [inserter EXCEPT !.pc = "own", !.node = n, !.level = 0, !.height = h,
                                          !.found = @ + 1, !.seq = @ + 1]
          /\ link' = [m \in DOMAIN link \cup {n} |->
                        IF m = n THEN [l \in 0..(h - 1) |-> Uninitialised] ELSE link[m]]
          /\ maxHeight' = IF h > maxHeight THEN h ELSE maxHeight
  /\ UNCHANGED <<batch, published, walker, status>>

InsertLink ==
  /\ inserter.pc \in {"own", "publish"}
  /\ link' = Store(inserter.node, inserter.level, inserter.pc)
  /\ inserter' = IF inserter.pc = "own" THEN [inserter EXCEPT !.pc = "publish"]
                 ELSE [inserter EXCEPT !.level = @ + 1,
                         !.pc = IF inserter.level + 1 = inserter.height THEN "iterate" ELSE "own"]
  /\ UNCHANGED <<batch, maxHeight, published, walker, status>>

\* The end of Iterate: the count must agree. The writer then publishes the
\* sequence number of the last record (DBImpl::Write).
InsertDone ==
  /\ inserter.pc = "iterate" /\ inserter.found = Len(inserter.rest.records)
  /\ status' = IF inserter.found # inserter.rest.count THEN "Corruption" ELSE "OK"
  /\ published' = published + inserter.rest.count
  /\ inserter' = NoInserter /\ batch' = NoBatch
  /\ UNCHANGED <<link, maxHeight, walker>>

-----------------------------------------------------------------------------
(* The reader. A walk starts with a racy read of max_height_: any value it  *)
(* had so far.                                                             *)
Linked == AtLevel(0)

StartWalk(op, target, snapshot) ==
  \E h \in 1..maxHeight :
    /\ h = 1 \/ \E n \in DOMAIN link \ {HeadNode} : DOMAIN link[n] = 0..(h - 1)
    /\ walker' = [walker EXCEPT !.pc = "walk", !.op = op, !.target = target, !.x = HeadNode,
                                !.level = h - 1, !.start = Linked, !.snapshot = snapshot]
    /\ UNCHANGED <<batch, inserter, link, maxHeight, published, status>>

Target(k, s) == MemEntry(k, s)

\* LookupKey: the newest entry that may be seen.
LookupKey(k) == Target(k, published)

\* MemTable::Get with the latest sequence number.
MemGet == walker.pc = "idle" /\ \E k \in UserKeys : StartWalk("get", LookupKey(k), published)

IterSeek == walker.pc = "idle" /\ \E k \in UserKeys : StartWalk("seek", LookupKey(k), published)
IterSeekToLast == walker.pc = "idle" /\ StartWalk("last", NULL, published)
IterPrev == walker.pc = "idle" /\ walker.node # NULL /\ StartWalk("prev", walker.node, published)

\* Next and SeekToFirst load one link.
IterFollow ==
  /\ walker.pc = "idle"
  /\ \E from \in {HeadNode, walker.node} \ {NULL} :
       walker' = [NoWalk EXCEPT !.pc = "done", !.op = "next", !.target = from, !.node = link[from][0],
                                !.start = Linked]
  /\ UNCHANGED <<batch, inserter, link, maxHeight, published, status>>

\* The search goes on to the next node: FindGreaterOrEqual, FindLessThan and
\* FindLast.
GoesOn(next) ==
  \/ walker.op \in {"get", "seek", "prev"} /\ KeyIsAfterNode(walker.target, next)
  \/ walker.op = "last" /\ next # NULL

WalkStep ==
  LET next == link[walker.x][walker.level]
      found == IF walker.op \in {"get", "seek"} THEN next
               ELSE IF walker.x = HeadNode THEN NULL ELSE walker.x
  IN /\ walker.pc = "walk" /\ walker.x # Uninitialised
     /\ walker' = IF GoesOn(next) THEN [walker EXCEPT !.x = next]
                  ELSE IF walker.level > 0 THEN [walker EXCEPT !.level = @ - 1]
                  ELSE [walker EXCEPT !.pc = "done", !.node = found]
     /\ UNCHANGED <<batch, inserter, link, maxHeight, published, status>>

\* The caller has its answer.
WalkDone ==
  /\ walker.pc = "done"
  /\ walker' = [NoWalk EXCEPT !.node = IF walker.op = "get" THEN NULL ELSE walker.node]
  /\ UNCHANGED <<batch, inserter, link, maxHeight, published, status>>

MemNext ==
  \/ BatchWrite \/ BatchClear \/ InsertInto \/ InsertRecord \/ InsertLink \/ InsertDone
  \/ MemGet \/ IterSeek \/ IterSeekToLast \/ IterPrev \/ IterFollow \/ WalkStep \/ WalkDone

MemSpec == MemInit /\ [][MemNext]_memVars

-----------------------------------------------------------------------------
(* Properties. *)

\* What MemTable::Get answers from: the entry it found, or none if the node
\* has another user key.
GetAnswer == IF walker.node # NULL /\ walker.node.key = walker.target.key THEN walker.node ELSE NULL

\* A Get concurrent with inserts finds the newest entry of its key that was
\* published when it started: entries of a batch in progress do not show.
GetSeesItsSnapshot ==
  walker.pc = "done" /\ walker.op = "get" =>
    LET S == {n \in walker.start : n.key = walker.target.key /\ n.seq <= walker.snapshot}
    IN GetAnswer = IF S = {} THEN NULL ELSE CHOOSE n \in S : \A m \in S : m.seq <= n.seq

\* The reader never follows a link that was not initialised.
NoGarbageIsRead == walker.node # Uninitialised /\ walker.x # Uninitialised

\* An iterator's move, concurrent with inserts, ends in the list and passes
\* no entry that was there when it started.
MovesSkipNothing ==
  walker.pc = "done" =>
    LET Between(a, b) == {n \in walker.start : (a # HeadNode => KeyBefore(a, n)) /\ (b # NULL => KeyBefore(n, b))}
    IN /\ walker.node \in Nodes \cup {NULL}
       /\ walker.op = "next" => Between(walker.target, walker.node) = {}
       /\ walker.op = "seek" => Between(walker.target, walker.node) = {}
       /\ walker.op = "prev" =>
            Between(IF walker.node = NULL THEN HeadNode ELSE walker.node, walker.target) = {}
       /\ walker.op = "last" => Between(IF walker.node = NULL THEN HeadNode ELSE walker.node, NULL) = {}

\* Between two stores of the writer the list is sorted on every level and
\* reaches every node linked on it, and a node is on a level only if it is on
\* the one below.
ListsAreSorted ==
  inserter.pc # "publish" => \A l \in ListLevels : \A n \in AtLevel(l) \cup {HeadNode} :
    /\ link[n][l] # NULL => link[n][l] \in AtLevel(l) /\ (n # HeadNode => KeyBefore(n, link[n][l]))
    /\ n # HeadNode => n = link[PrevNode(n, l)][l]
    /\ l > 0 /\ n # HeadNode => n \in AtLevel(l - 1)

\* A batch that was built by Put, Delete and Append is always accepted, and
\* its records get consecutive sequence numbers.
BatchesAreAccepted ==
  /\ status = "OK"
  /\ inserter.pc = "idle" => {n.seq : n \in Nodes} = 1..published

\* Readers without a lock see the memtable their snapshot promises.
MemTableIsRight ==
  /\ NoGarbageIsRead
  /\ ListsAreSorted
  /\ BatchesAreAccepted
  /\ GetSeesItsSnapshot
  /\ MovesSkipNothing
=============================================================================
