----------------------------- MODULE Iterators -----------------------------
(***************************************************************************)
(* leveldb's iterators, stacked as DBImpl::NewIterator stacks them: DBIter *)
(* (db/db_iter.cc) over a MergingIterator (table/merger.cc) over the       *)
(* memtable's iterator and a TwoLevelIterator (table/two_level_iterator.cc)*)
(* of a table and its blocks, or of a level and its tables                 *)
(* (LevelFileNumIterator, version_set.cc). The iterator is moved in any    *)
(* order while the memtable is written to; blocks may be unreadable.       *)
(*                                                                         *)
(* An entry is a user key, a sequence number and a type. A table is a      *)
(* sequence of blocks; the index key of a block is its last key, or it     *)
(* lies anywhere before the next block.                                    *)
(***************************************************************************)
EXTENDS Naturals, Sequences, FiniteSets

CONSTANTS
  IterKeys,     \* user keys 1..IterKeys
  IterEntries,  \* bound on the entries, and on the sequence numbers
  IterWrites    \* bound on the entries written while the iterator is used

ASSUME IterAssumption == {IterKeys, IterEntries, IterWrites} \subseteq Nat

VARIABLES
  memtable,  \* the entries of the memtable
  table,     \* the blocks of the table: entries, readable, separator at the last key
  snapshot,  \* DBIter's sequence_
  iterator,  \* the state of the three iterators
  at,        \* reference: the user key the iterator should be at, or 0
  scan       \* history: entries since SeekToFirst were passed by Next alone

iterVars == <<memtable, table, snapshot, iterator, at, scan>>

-----------------------------------------------------------------------------
None == [key |-> 0, seq |-> 0, type |-> "none"]

\* The order of internal keys: newer entries of a key come first.
Less(a, b) == a.key < b.key \/ (a.key = b.key /\ a.seq > b.seq)

Least(S) == CHOOSE e \in S : \A f \in S : f = e \/ Less(e, f)
Greatest(S) == CHOOSE e \in S : \A f \in S : f = e \/ Less(f, e)

LeastOrNone(S) == IF S = {} THEN None ELSE Least(S)
GreatestOrNone(S) == IF S = {} THEN None ELSE Greatest(S)

Sorted(S) == [i \in 1..Cardinality(S) |->
                CHOOSE e \in S : Cardinality({f \in S : Less(f, e)}) = i - 1]

\* A child of the MergingIterator. The memtable's iterator points to a node;
\* the table's has an index iterator at block ix (0: not valid) and a data
\* iterator at position pos of block blk (0: none).
Child == [pos |-> None, ix |-> 0, blk |-> 0, err |-> FALSE]
Children == {"mem", "table"}

-----------------------------------------------------------------------------
(* TwoLevelIterator; Block::Iter is a position in its block. *)
\* The data iterator of a block: an error iterator if it cannot be read.
BlockEntries(b) == IF b = 0 \/ ~table[b].ok THEN {} ELSE table[b].entries

\* SetDataIterator and SaveError.
SetDataIterator(c, b) ==
  [c EXCEPT !.blk = b, !.pos = None, !.err = @ \/ (c.blk # 0 /\ ~table[c.blk].ok)]

InitDataBlock(c) == IF c.ix # 0 /\ c.blk = c.ix THEN c ELSE SetDataIterator(c, c.ix)

NextBlock(ix) == IF ix = Len(table) THEN 0 ELSE ix + 1

First(c) == [c EXCEPT !.pos = LeastOrNone(BlockEntries(c.blk))]
Last(c) == [c EXCEPT !.pos = GreatestOrNone(BlockEntries(c.blk))]

RECURSIVE SkipEmptyDataBlocksForward(_), SkipEmptyDataBlocksBackward(_)
SkipEmptyDataBlocksForward(c) ==
  IF c.blk # 0 /\ c.pos # None THEN c
  ELSE IF c.ix = 0 THEN SetDataIterator(c, 0)
  ELSE SkipEmptyDataBlocksForward(First(InitDataBlock([c EXCEPT !.ix = NextBlock(c.ix)])))
SkipEmptyDataBlocksBackward(c) ==
  IF c.blk # 0 /\ c.pos # None THEN c
  ELSE IF c.ix = 0 THEN SetDataIterator(c, 0)
  ELSE SkipEmptyDataBlocksBackward(Last(InitDataBlock([c EXCEPT !.ix = @ - 1])))

\* The index iterator's Seek: the first block whose index key is not before
\* the target.
SeekIndex(target) ==
  LET Covers(i) == \/ \E e \in table[i].entries : ~Less(e, target)
                   \/ ~table[i].tight /\ (i = Len(table) \/ \A e \in table[i + 1].entries : Less(target, e))
      is == {i \in DOMAIN table : Covers(i)}
  IN IF is = {} THEN 0 ELSE CHOOSE i \in is : \A j \in is : i <= j

From(S, target) == LeastOrNone({e \in S : ~Less(e, target)})

\* The operations of a child: w says which, c is its state.
ChildSeek(w, c, target) ==
  IF w = "mem" THEN [c EXCEPT !.pos = From(memtable, target)]
  ELSE LET d == InitDataBlock([c EXCEPT !.ix = SeekIndex(target)])
       IN SkipEmptyDataBlocksForward([d EXCEPT !.pos = From(BlockEntries(d.blk), target)])

ChildFirst(w, c) ==
  IF w = "mem" THEN [c EXCEPT !.pos = LeastOrNone(memtable)]
  ELSE SkipEmptyDataBlocksForward(First(InitDataBlock([c EXCEPT !.ix = IF table = <<>> THEN 0 ELSE 1])))

ChildLast(w, c) ==
  IF w = "mem" THEN [c EXCEPT !.pos = GreatestOrNone(memtable)]
  ELSE SkipEmptyDataBlocksBackward(Last(InitDataBlock([c EXCEPT !.ix = Len(table)])))

ChildNext(w, c) ==
  LET S == IF w = "mem" THEN memtable ELSE BlockEntries(c.blk)
      d == [c EXCEPT !.pos = LeastOrNone({e \in S : Less(c.pos, e)})]
  IN IF w = "mem" THEN d ELSE SkipEmptyDataBlocksForward(d)

ChildPrev(w, c) ==
  LET S == IF w = "mem" THEN memtable ELSE BlockEntries(c.blk)
      d == [c EXCEPT !.pos = GreatestOrNone({e \in S : Less(e, c.pos)})]
  IN IF w = "mem" THEN d ELSE SkipEmptyDataBlocksBackward(d)

-----------------------------------------------------------------------------
(* MergingIterator: its children, current_ and direction_. *)
ValidChildren(m) == {w \in Children : m.child[w].pos # None}

FindSmallest(m) ==
  [m EXCEPT !.dir = "forward",
            !.cur = IF ValidChildren(m) = {} THEN "none"
                    ELSE CHOOSE w \in ValidChildren(m) :
                           m.child[w].pos = Least({m.child[v].pos : v \in ValidChildren(m)})]

FindLargest(m) ==
  [m EXCEPT !.dir = "reverse",
            !.cur = IF ValidChildren(m) = {} THEN "none"
                    ELSE CHOOSE w \in ValidChildren(m) :
                           m.child[w].pos = Greatest({m.child[v].pos : v \in ValidChildren(m)})]

MergeValid(m) == m.cur # "none"
MergeKey(m) == m.child[m.cur].pos
All(m, Op(_, _)) == [m EXCEPT !.child = [w \in Children |-> Op(w, m.child[w])]]
Others(m, Op(_, _)) == [m EXCEPT !.child = [w \in Children |-> IF w = m.cur THEN m.child[w]
                                                               ELSE Op(w, m.child[w])]]
Current(m, Op(_, _)) == [m EXCEPT !.child[m.cur] = Op(m.cur, m.child[m.cur])]

MergeFirst(m) == FindSmallest(All(m, ChildFirst))
MergeLast(m) == FindLargest(All(m, ChildLast))
MergeSeek(m, target) == FindSmallest(All(m, LAMBDA w, c : ChildSeek(w, c, target)))

\* Mutant: the other children stay where they are.
NotTurned(w, c, key) == c

\* After a change of direction the other children go behind the current key.
AfterKey(w, c, key) ==
  LET d == ChildSeek(w, c, key) IN IF d.pos = key THEN ChildNext(w, d) ELSE d

BeforeKey(w, c, key) ==
  LET d == ChildSeek(w, c, key) IN IF d.pos # None THEN ChildPrev(w, d) ELSE ChildLast(w, d)

MergeNext(m) ==
  LET key == MergeKey(m)
      turned == IF m.dir = "forward" THEN m ELSE Others(m, LAMBDA w, c : AfterKey(w, c, key))
  IN FindSmallest(Current(turned, ChildNext))

MergePrev(m) ==
  LET key == MergeKey(m)
      turned == IF m.dir = "reverse" THEN m ELSE Others(m, LAMBDA w, c : BeforeKey(w, c, key))
  IN FindLargest(Current(turned, ChildPrev))

-----------------------------------------------------------------------------
(* DBIter: direction_, valid_, saved_key_ (0: cleared) and saved_value_. *)
NewDBIter == [dir |-> "forward", valid |-> FALSE, key |-> 0, value |-> 0,
              m |-> [child |-> [w \in Children |-> Child], cur |-> "none", dir |-> "forward"]]

SawIt(e) == e.seq <= snapshot

\* The key that is skipped after entry e.
SkipAfter(e, skip) == IF SawIt(e) /\ e.type = "del" THEN e.key ELSE skip

\* FindNextUserEntry: skip is the key whose entries are hidden, 0 for none.
RECURSIVE FindNextUserEntry(_, _), ScanBack(_, _), BeforeUserKey(_, _)
FindNextUserEntry(d, skip) ==
  LET e == MergeKey(d.m) IN
  IF ~MergeValid(d.m) THEN [d EXCEPT !.valid = FALSE, !.key = 0]
  ELSE IF SawIt(e) /\ e.type = "put" /\ e.key > skip THEN [d EXCEPT !.valid = TRUE, !.key = 0]
  ELSE FindNextUserEntry([d EXCEPT !.m = MergeNext(d.m)], SkipAfter(e, skip))

\* Entry e is before the entries of the saved key.
PassedKey(d, e) == e.key < d.key

\* The loop of FindPrevUserEntry: type is the type of the last entry seen.
ScanBack(d, type) ==
  LET e == MergeKey(d.m)
      seen == [d EXCEPT !.key = IF e.type = "del" THEN 0 ELSE e.key,
                        !.value = IF e.type = "del" THEN 0 ELSE e.seq]
      Back(x) == [x EXCEPT !.m = MergePrev(d.m)]
  IN IF ~MergeValid(d.m) THEN <<d, type>>
     ELSE IF ~SawIt(e) THEN ScanBack(Back(d), type)
     ELSE IF type # "del" /\ PassedKey(d, e) THEN <<d, type>>
     ELSE ScanBack(Back(seen), e.type)

FindPrevUserEntry(d) ==
  LET r == ScanBack(d, "del")
  IN IF r[2] = "del" THEN [r[1] EXCEPT !.valid = FALSE, !.key = 0, !.value = 0, !.dir = "forward"]
     ELSE [r[1] EXCEPT !.valid = TRUE]

\* The internal iterator goes back to before the entries of key k.
BeforeUserKey(m, k) == IF ~MergeValid(m) \/ MergeKey(m).key < k THEN m ELSE BeforeUserKey(MergePrev(m), k)

DBSeek(d, k) ==
  FindNextUserEntry([d EXCEPT !.dir = "forward", !.value = 0, !.key = 0,
                       !.m = MergeSeek(@, [key |-> k, seq |-> snapshot, type |-> "put"])], 0)
DBSeekToFirst(d) ==
  FindNextUserEntry([d EXCEPT !.dir = "forward", !.value = 0, !.m = MergeFirst(@)], 0)
DBSeekToLast(d) == FindPrevUserEntry([d EXCEPT !.dir = "reverse", !.value = 0, !.m = MergeLast(@)])

\* It points just before the entries of the key; SeekToFirst if there is none.
EnterKey(m) == IF MergeValid(m) THEN MergeNext(m) ELSE MergeFirst(m)

DBNext_(d) ==
  IF d.dir = "reverse"
    THEN LET m == EnterKey(d.m)
             e == [d EXCEPT !.dir = "forward", !.m = m]
         IN IF MergeValid(m) THEN FindNextUserEntry(e, d.key)
            ELSE [e EXCEPT !.valid = FALSE, !.key = 0]
    ELSE FindNextUserEntry(d, MergeKey(d.m).key)

DBPrev(d) ==
  IF d.dir = "reverse" THEN FindPrevUserEntry(d)
  ELSE LET k == MergeKey(d.m).key
           m == BeforeUserKey(MergePrev(d.m), k)
           e == [d EXCEPT !.m = m, !.key = k]
       IN IF MergeValid(m) THEN FindPrevUserEntry([e EXCEPT !.dir = "reverse"])
          ELSE [e EXCEPT !.valid = FALSE, !.key = 0, !.value = 0]

IterKey(d) == IF d.dir = "forward" THEN MergeKey(d.m).key ELSE d.key
IterValue(d) == IF d.dir = "forward" THEN MergeKey(d.m).seq ELSE d.value
IterStatus(d) ==
  LET c == d.m.child["table"] IN IF c.err \/ (c.blk # 0 /\ ~table[c.blk].ok) THEN "error" ELSE "ok"

-----------------------------------------------------------------------------
(* What an iterator should show: a value for each key that has one. *)
Readable == memtable \cup UNION {BlockEntries(b) : b \in DOMAIN table}
NewestOf(k) == LeastOrNone({e \in Readable : e.key = k /\ SawIt(e)})
Shown == {k \in 1..IterKeys : NewestOf(k).type = "put"}
MinOr0(S) == IF S = {} THEN 0 ELSE CHOOSE k \in S : \A j \in S : k <= j
MaxOr0(S) == IF S = {} THEN 0 ELSE CHOOSE k \in S : \A j \in S : k >= j

-----------------------------------------------------------------------------
Cuts(s) == {cut \in SUBSET (1..Len(s)) : s # <<>> => Len(s) \in cut}
BlocksOf(s, cut) ==
  LET ends == {0} \cup cut
      E(i) == CHOOSE c \in ends : Cardinality({d \in ends : d < c}) = i
  IN [i \in 1..Cardinality(cut) |-> {s[j] : j \in (E(i - 1) + 1)..E(i)}]

\* The newest entries are in the memtable, the others in the table's blocks.
IterInit ==
  \E es \in [1..IterEntries -> [key : 1..IterKeys, type : {"put", "del"}]],
     mem \in 0..IterEntries, tight \in BOOLEAN :
    LET entry(i) == [key |-> es[i].key, seq |-> i, type |-> es[i].type]
        s == Sorted({entry(i) : i \in 1..(IterEntries - mem)})
    IN \E cut \in Cuts(s), bad \in 0..2 :
         /\ memtable = {entry(i) : i \in (IterEntries - mem + 1)..IterEntries}
         /\ table = [i \in 1..Cardinality(cut) |->
                       [entries |-> BlocksOf(s, cut)[i], ok |-> i # bad, tight |-> tight]]
         /\ snapshot \in {IterEntries - 1, IterEntries}
         /\ iterator = NewDBIter
         /\ at = 0
         /\ scan = FALSE

IterStep(d, to, scans) ==
  /\ iterator' = d /\ at' = to /\ scan' = scans
  /\ UNCHANGED <<memtable, table, snapshot>>

Seek == \E k \in 1..IterKeys : IterStep(DBSeek(iterator, k), MinOr0({j \in Shown : j >= k}), FALSE)
SeekToFirst == IterStep(DBSeekToFirst(iterator), MinOr0(Shown), TRUE)
SeekToLast == IterStep(DBSeekToLast(iterator), MaxOr0(Shown), FALSE)
Next == iterator.valid /\ IterStep(DBNext_(iterator), MinOr0({j \in Shown : j > at}), scan)
Prev == iterator.valid /\ IterStep(DBPrev(iterator), MaxOr0({j \in Shown : j < at}), FALSE)

\* A writer adds to the memtable under the iterator.
MemTableAdd ==
  /\ Cardinality({e \in memtable : e.seq > IterEntries}) < IterWrites
  /\ \E k \in 1..IterKeys, t \in {"put", "del"} :
       memtable' = memtable \cup
         {[key |-> k, type |-> t,
           seq |-> IterEntries + 1 + Cardinality({e \in memtable : e.seq > IterEntries})]}
  /\ UNCHANGED <<table, snapshot, iterator, at, scan>>

IterNext == Seek \/ SeekToFirst \/ SeekToLast \/ Next \/ Prev \/ MemTableAdd

IterSpec == IterInit /\ [][IterNext]_iterVars

-----------------------------------------------------------------------------
(* Properties. *)

\* After any sequence of moves the iterator shows the key it should be at,
\* with the newest value the snapshot sees: hidden, deleted and later entries
\* are skipped in both directions, and writes under the iterator do not show.
IteratorAgrees ==
  /\ iterator.valid <=> at # 0
  /\ at # 0 => IterKey(iterator) = at /\ IterValue(iterator) = NewestOf(at).seq

\* Moving backwards the internal iterator is at the last visible entry before
\* all entries of the current key, so that the next move in either direction
\* starts right.
BeforeAllEntriesOfKey ==
  iterator.valid /\ iterator.dir = "reverse" =>
    (IF MergeValid(iterator.m) THEN MergeKey(iterator.m) ELSE None)
      = GreatestOrNone({e \in Readable : e.key < iterator.key /\ SawIt(e)})

\* A scan that came to its end and met an unreadable block says so.
UnreadableBlocksReported ==
  scan /\ ~iterator.valid /\ (\E b \in DOMAIN table : ~table[b].ok) => IterStatus(iterator) = "error"

\* An iterator shows the merged entries, or says that it could not.
IteratorIsRight ==
  /\ BeforeAllEntriesOfKey
  /\ UnreadableBlocksReported
  /\ IteratorAgrees
=============================================================================
