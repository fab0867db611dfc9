------------------------------ MODULE Version ------------------------------
(***************************************************************************)
(* leveldb's Version and VersionSet::Builder (db/version_set.cc) as        *)
(* operators on the files of each level: lookup, overlap, the level of a   *)
(* new table, and the version an edit leads to.                            *)
(*                                                                         *)
(* A table file is its number and the entries it holds; its size is their  *)
(* number. An entry is a user key, a sequence number and a type; files and *)
(* iterators are ordered by user key and then by decreasing sequence       *)
(* number. A bound of a range is a user key, or NoBegin or NoEnd for NULL. *)
(***************************************************************************)
EXTENDS Naturals, Sequences, FiniteSets, FiniteSetsExt, SequencesExt

CONSTANTS
  MaxKey,                \* user keys are 1..MaxKey
  MaxSeq,                \* bound on sequence numbers
  kNumLevels,
  kMaxMemCompactLevel,
  kL0_CompactionTrigger,
  MaxBytesForLevel1,     \* MaxBytesForLevel(1); ten times as many per level below
  kTargetFileSize,
  kMaxGrandParentOverlapBytes,
  kExpandedCompactionByteSizeLimit

ASSUME VersionAssumption ==
  /\ MaxKey \in Nat \ {0} /\ MaxSeq \in Nat \ {0}
  /\ kNumLevels \in Nat /\ kNumLevels >= 3
  /\ kMaxMemCompactLevel \in 0..(kNumLevels - 1)
  /\ {kL0_CompactionTrigger, MaxBytesForLevel1, kTargetFileSize} \subseteq Nat \ {0}
  /\ {kMaxGrandParentOverlapBytes, kExpandedCompactionByteSizeLimit} \subseteq Nat

-----------------------------------------------------------------------------
(* Keys, entries and files. *)
Key == 1..MaxKey
Level == 0..(kNumLevels - 1)
Entry == [key : Key, seq : 1..MaxSeq, type : {"value", "deletion"}]
NoBegin == 0
NoEnd == MaxKey + 1

\* InternalKeyComparator::Compare(a, b) < 0.
Before(a, b) == a.key < b.key \/ (a.key = b.key /\ a.seq > b.seq)

\* The first internal key of user key k that a read at sequence number s may
\* see; with the largest number, the first internal key of k.
SeekKey(k, s) == [key |-> k, seq |-> s, type |-> "value"]

\* The elements of S in the order given by Less.
InOrder(S, Less(_, _)) ==
  [i \in 1..Cardinality(S) |-> CHOOSE x \in S : Cardinality({y \in S : Less(y, x)}) = i - 1]

First(entries) == CHOOSE e \in entries : \A x \in entries : ~Before(x, e)
Final(entries) == CHOOSE e \in entries : \A x \in entries : ~Before(e, x)

FileMetaData(number, entries) ==
  [number |-> number, entries |-> entries,
   smallest |-> First(entries), largest |-> Final(entries)]
EntriesOf(files) == UNION {f.entries : f \in ToSet(files)}
TotalFileSize(files) == Cardinality(EntriesOf(files))

\* The files of a level are kept in this order.
BySmallestKey(f, g) ==
  Before(f.smallest, g.smallest)
  \/ (f.smallest = g.smallest /\ f.number < g.number)

FileOrder(files) == InOrder(files, BySmallestKey)

NoFiles == [l \in Level |-> <<>>]
FilesOf(v) == UNION {ToSet(v[l]) : l \in Level}

-----------------------------------------------------------------------------
(* Searching the files of a level. *)

\* Index of the first file whose largest key is not before key, by binary
\* search over sorted files; Len(files) + 1 if there is none.
FindFile(files, key) ==
  LET search[r \in (0..Len(files)) \X (0..Len(files))] ==
        LET mid == (r[1] + r[2]) \div 2
        IN IF r[1] >= r[2] THEN r[2]
           ELSE IF Before(files[mid + 1].largest, key) THEN search[<<mid + 1, r[2]>>]
           ELSE search[<<r[1], mid>>]
  IN search[<<0, Len(files)>>] + 1

AfterFile(k, f) == k # NoBegin /\ k > f.largest.key
BeforeFile(k, f) == k # NoEnd /\ k < f.smallest.key

SomeFileOverlapsRange(disjoint, files, begin, end) ==
  IF ~disjoint
    THEN \E i \in DOMAIN files : ~AfterFile(begin, files[i]) /\ ~BeforeFile(end, files[i])
    ELSE LET i == IF begin = NoBegin THEN 1 ELSE FindFile(files, SeekKey(begin, MaxSeq))
         IN i <= Len(files) /\ ~BeforeFile(end, files[i])

OverlapInLevel(v, l, begin, end) == SomeFileOverlapsRange(l > 0, v[l], begin, end)

\* The files of v[l] that overlap [begin, end].
InRange(v, l, begin, end) == {f \in ToSet(v[l]) : ~AfterFile(begin, f) /\ ~BeforeFile(end, f)}

\* Mutant: the range is not extended by the level-0 files it overlaps.
OverlapWithoutRestart(v, l, begin, end) == FileOrder(InRange(v, l, begin, end))

\* The range r with the files that overlap it.
ExtendedRange(v, l, r) ==
  <<Min({f.smallest.key : f \in InRange(v, l, r[1], r[2])} \cup {r[1]}),
    Max({f.largest.key : f \in InRange(v, l, r[1], r[2])} \cup {r[2]})>>

\* Files of a level that overlap [begin, end]. A file of level 0 that reaches
\* beyond the range extends it, and the search starts again.
GetOverlappingInputs(v, l, begin, end) ==
  LET restart[r \in (0..NoEnd) \X (0..NoEnd)] ==
        IF l > 0 \/ ExtendedRange(v, l, r) = r THEN FileOrder(InRange(v, l, r[1], r[2]))
        ELSE restart[ExtendedRange(v, l, r)]
  IN restart[<<begin, end>>]

-----------------------------------------------------------------------------
(* Reading. *)

NewestFirst(f, g) == f.number > g.number

\* The level-0 files that may hold k, newest first.
Level0Files(v, k) ==
  InOrder({f \in ToSet(v[0]) : f.smallest.key <= k /\ k <= f.largest.key}, NewestFirst)

\* The levels below that have a file for k at s, which is found by its largest key.
FileIndex(v, l, k, s) == FindFile(v[l], SeekKey(k, s))
DeeperLevels(v, k, s) ==
  InOrder({l \in Level \ {0} : LET i == FileIndex(v, l, k, s)
                               IN i <= Len(v[l]) /\ v[l][i].smallest.key <= k}, <)

\* The files a lookup of user key k at sequence number s may have to read, in
\* the order Version::Get and ForEachOverlapping search them.
SearchOrder(v, k, s) ==
  LET level0 == Level0Files(v, k)
      deeper == DeeperLevels(v, k, s)
  IN [i \in DOMAIN level0 |-> [level |-> 0, file |-> level0[i]]]
       \o [i \in DOMAIN deeper |-> [level |-> deeper[i], file |-> v[deeper[i]][FileIndex(v, deeper[i], k, s)]]]

\* TableCache::Get with SaveValue: what the file holds for k at s.
InFile(f, k, s) == {e \in f.entries : e.key = k /\ e.seq <= s}
Newest(entries) == CHOOSE e \in entries : \A x \in entries : x.seq <= e.seq

\* Version::Get: the entry of the first file that has one, "none" without.
\* More than one file read charges a seek to the first.
VersionGet(v, k, s) ==
  LET files == SearchOrder(v, k, s)
      hits == {i \in DOMAIN files : InFile(files[i].file, k, s) # {}}
      read == IF hits = {} THEN Len(files) ELSE Min(hits)
  IN [found |-> IF hits = {} THEN {} ELSE {Newest(InFile(files[read].file, k, s))},
      seek_file |-> IF read > 1 THEN <<files[1]>> ELSE <<>>]

\* RecordReadSample: the first of two files that overlap the sampled key.
ReadSample(v, e) ==
  LET files == SearchOrder(v, e.key, e.seq) IN IF Len(files) >= 2 THEN <<files[1]>> ELSE <<>>

\* Version::AddIterators: what a merging iterator over the version sees.
AllEntries(v) == UNION {f.entries : f \in FilesOf(v)}

-----------------------------------------------------------------------------
(* Where a table made from a memtable goes. *)

\* Mutant: only overlap in level 0 keeps a table from the deepest level.
PickDeepestLevel(v, begin, end) ==
  IF OverlapInLevel(v, 0, begin, end) THEN 0 ELSE kMaxMemCompactLevel

\* The table may not go below level l.
StopsAt(v, l, begin, end) ==
  \/ l = kMaxMemCompactLevel
  \/ OverlapInLevel(v, l + 1, begin, end)
  \/ /\ l + 2 < kNumLevels
     /\ TotalFileSize(GetOverlappingInputs(v, l + 2, begin, end)) > kMaxGrandParentOverlapBytes

PickLevelForMemTableOutput(v, begin, end) ==
  IF OverlapInLevel(v, 0, begin, end) THEN 0
  ELSE Min({l \in 0..kMaxMemCompactLevel : StopsAt(v, l, begin, end)})

-----------------------------------------------------------------------------
(* Edits. *)

\* VersionSet::Builder: files deleted from and added to each level.
EmptyBuilder == [deleted |-> [l \in Level |-> {}], added |-> [l \in Level |-> {}]]

\* Builder::Apply: a file that is added is not deleted any more.
Apply(b, edit) ==
  LET numbers(l) == {d.number : d \in {x \in edit.deleted : x.level = l}}
      files(l) == {a.file : a \in {x \in edit.added : x.level = l}}
  IN [deleted |-> [l \in Level |-> (b.deleted[l] \cup numbers(l)) \ {f.number : f \in files(l)}],
      added |-> [l \in Level |-> b.added[l] \cup files(l)]]

\* Builder::SaveTo.
SaveTo(b, base) ==
  [l \in Level |-> FileOrder({f \in ToSet(base[l]) \cup b.added[l] : f.number \notin b.deleted[l]})]

\* Finalize: the level that needs a compaction most, and whether it needs one.
\* Scores are compared as fractions: files of level 0 to their trigger, bytes
\* of a level to its limit.
MaxBytesForLevel(l) ==
  LET result[n \in Level] == IF n <= 1 THEN MaxBytesForLevel1 ELSE 10 * result[n - 1]
  IN result[l]
Score(v, l) ==
  IF l = 0 THEN [num |-> Len(v[0]), den |-> kL0_CompactionTrigger]
           ELSE [num |-> TotalFileSize(v[l]), den |-> MaxBytesForLevel(l)]

Finalize(v) ==
  LET Above(a, b) == a.num * b.den > b.num * a.den
      best == CHOOSE l \in 0..(kNumLevels - 2) :
                /\ \A m \in 0..(kNumLevels - 2) : ~Above(Score(v, m), Score(v, l))
                /\ \A m \in 0..(l - 1) : Above(Score(v, l), Score(v, m))
  IN [level |-> best, due |-> Score(v, best).num >= Score(v, best).den]
=============================================================================
