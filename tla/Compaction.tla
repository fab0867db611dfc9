----------------------------- MODULE Compaction -----------------------------
(***************************************************************************)
(* leveldb's levels over time: VersionSet and Compaction (db/version_set.cc) *)
(* and the part of DBImpl (db/db_impl.cc) that writes tables and compacts  *)
(* them. A compaction runs without the mutex: while it does, writes go on, *)
(* snapshots come and go, and a full memtable is still written to a table. *)
(*                                                                         *)
(* history is every entry that was ever written. What a read at a snapshot *)
(* has to see is defined by it alone.                                      *)
(***************************************************************************)
EXTENDS Version

CONSTANTS
  MaxFile,      \* bound on file numbers
  MaxSnapshots  \* bound on the snapshots at a time

ASSUME FileAssumption == MaxFile \in Nat /\ MaxSnapshots \in Nat

VARIABLES
  levels,         \* current_->files_
  compact_pointer,\* where the next compaction of a level starts, <<>> or a key
  file_to_compact,\* file that used up its seeks, with its level, or <<>>
  next_file,      \* next_file_number_
  last_sequence,
  memtable,       \* entries that are only in the memtable and the log
  snapshots,      \* sequence numbers of the snapshots
  job,            \* the compaction under way, or <<>>
  manifest,       \* what Recover would read: builder, pointers, next file
  history,        \* every entry written
  split,          \* user keys that two files of one level > 0 have shared
  undercut        \* a table was put below a manual compaction under way

compactionVars == <<levels, compact_pointer, file_to_compact, next_file, last_sequence,
                    memtable, snapshots, job, manifest, history, split, undercut>>

-----------------------------------------------------------------------------
(* LogAndApply and Recover. *)

\* User keys that adjacent files of a level > 0 share.
SharedKeys(v) ==
  UNION {{k \in Key : \E i \in 1..(Len(v[l]) - 1) :
            v[l][i].largest.key = k /\ v[l][i + 1].smallest.key = k} : l \in Level \ {0}}

\* Mutant: deletions of files are not written to the manifest.
RecordWithoutDeletions(b, edit) == Apply(b, [edit EXCEPT !.deleted = {}])

\* What Recover reads of the files once edit is in the manifest.
ManifestRecord(b, edit) == Apply(b, edit)

\* LogAndApply(edit) when the manifest is written: the new version, and the
\* record in the manifest. A new version has no file to compact for its seeks.
LogAndApply(deleted, added, pointers, next) ==
  LET edit == [deleted |-> deleted, added |-> added]
      v == SaveTo(Apply(EmptyBuilder, edit), levels)
  IN /\ levels' = v
     /\ split' = split \cup SharedKeys(v)
     /\ next_file' = next
     /\ manifest' = [builder |-> ManifestRecord(manifest.builder, edit),
                     pointer |-> [l \in Level |-> IF pointers[l] # <<>> THEN pointers[l]
                                                                       ELSE manifest.pointer[l]],
                     next |-> next]
     /\ file_to_compact' = <<>>

\* WriteSnapshot: the first record of a manifest holds every file.
WriteSnapshot(v) ==
  Apply(EmptyBuilder,
        [deleted |-> {}, added |-> UNION {{[level |-> l, file |-> f] : f \in ToSet(v[l])}
                                              : l \in Level}])

NoPointers == [l \in Level |-> <<>>]

CompactionInit ==
  /\ levels = NoFiles
  /\ compact_pointer = NoPointers
  /\ file_to_compact = <<>>
  /\ next_file = 1
  /\ last_sequence = 0
  /\ memtable = {}
  /\ snapshots = {}
  /\ job = <<>>
  /\ manifest = [builder |-> EmptyBuilder, pointer |-> NoPointers, next |-> 1]
  /\ history = {}
  /\ split = {}
  /\ undercut = FALSE

-----------------------------------------------------------------------------
(* Writes, reads and snapshots. *)

\* A Put, or a Delete of a key that was put, has reached the memtable.
WriteEntry ==
  /\ last_sequence < MaxSeq
  /\ \E k \in Key, t \in {"value", "deletion"} :
       /\ t = "deletion" => k \in {e.key : e \in history}
       /\ LET e == [key |-> k, seq |-> last_sequence + 1, type |-> t]
          IN memtable' = memtable \cup {e} /\ history' = history \cup {e}
  /\ last_sequence' = last_sequence + 1
  /\ UNCHANGED <<levels, compact_pointer, file_to_compact, next_file, snapshots, job,
                 manifest, split, undercut>>

SnapshotNumber == last_sequence

GetSnapshot ==
  /\ SnapshotNumber \notin snapshots /\ Cardinality(snapshots) < MaxSnapshots
  /\ snapshots' = snapshots \cup {SnapshotNumber}
  /\ UNCHANGED <<levels, compact_pointer, file_to_compact, next_file, last_sequence,
                 memtable, job, manifest, history, split, undercut>>

ReleaseSnapshot ==
  /\ \E s \in snapshots : snapshots' = snapshots \ {s}
  /\ UNCHANGED <<levels, compact_pointer, file_to_compact, next_file, last_sequence,
                 memtable, job, manifest, history, split, undercut>>

\* UpdateStats after a Get or a sampled read: the seek it charges may be the
\* last one allowed to the file, which then has to be compacted.
UpdateStats(seek_file) ==
  /\ seek_file # <<>>
  /\ file_to_compact = <<>>
  /\ file_to_compact' = seek_file
  /\ UNCHANGED <<levels, compact_pointer, next_file, last_sequence, memtable, snapshots, job,
                 manifest, history, split, undercut>>

\* The sequence numbers a read may use: a snapshot's, or the last.
ReadPoints == snapshots \cup {last_sequence}

GetKey ==
  \E k \in Key, s \in ReadPoints :
    /\ {e \in memtable : e.key = k /\ e.seq <= s} = {}
    /\ UpdateStats(VersionGet(levels, k, s).seek_file)

RecordReadSample ==
  \E e \in AllEntries(levels) : UpdateStats(ReadSample(levels, e))

-----------------------------------------------------------------------------
(* The memtable becomes a table. *)

\* CompactMemTable and WriteLevel0Table, also in the middle of a compaction.
CompactMemTable ==
  LET f == FileMetaData(next_file, memtable)
      level == PickLevelForMemTableOutput(levels, f.smallest.key, f.largest.key)
  IN /\ memtable # {}
     /\ next_file <= MaxFile
     /\ LogAndApply({}, {[level |-> level, file |-> f]}, NoPointers, next_file + 1)
     /\ memtable' = {}
     /\ undercut' = (undercut \/ (job # <<>> /\ job[1].manual /\ level > job[1].level))
     /\ UNCHANGED <<compact_pointer, last_sequence, snapshots, job, history>>

-----------------------------------------------------------------------------
(* What a compaction reads. *)

GetRange(files) ==
  LET all == EntriesOf(files)
  IN [start |-> First(all), limit |-> Final(all)]

Overlapping(l, r) == GetOverlappingInputs(levels, l, r.start.key, r.limit.key)

\* More files of the level may be compacted if that adds none of the next.
Expand(inputs0, inputs1, expanded0, expanded1) ==
  /\ inputs1 # <<>>
  /\ Len(expanded0) > Len(inputs0)
  /\ TotalFileSize(inputs1) + TotalFileSize(expanded0) < kExpandedCompactionByteSizeLimit
  /\ Len(expanded1) = Len(inputs1)

NextLevelInputs(l, inputs0) == Overlapping(l + 1, GetRange(inputs0))

\* SetupOtherInputs: the files of the next level, and the grandparents.
SetupOtherInputs(l, inputs0) ==
  LET inputs1 == NextLevelInputs(l, inputs0)
      expanded0 == Overlapping(l, GetRange(inputs0 \o inputs1))
      expanded1 == NextLevelInputs(l, expanded0)
      grow == Expand(inputs0, inputs1, expanded0, expanded1)
      in0 == IF grow THEN expanded0 ELSE inputs0
      in1 == IF grow THEN expanded1 ELSE inputs1
  IN [level |-> l, inputs0 |-> in0, inputs1 |-> in1,
      grandparents |-> IF l + 2 < kNumLevels THEN Overlapping(l + 2, GetRange(in0 \o in1)) ELSE <<>>,
      pointer |-> GetRange(in0).limit,
      deeper |-> UNION {ToSet(levels[m]) : m \in (l + 2)..(kNumLevels - 1)},
      smallest_snapshot |-> IF snapshots = {} THEN last_sequence ELSE Min(snapshots)]

\* PickCompaction: a level with too much data first, from its compact pointer
\* on, then a file that costs too many seeks.
PickedInputs ==
  LET due == Finalize(levels)
      l == IF due.due THEN due.level ELSE file_to_compact[1].level
      after == {f \in ToSet(levels[l]) : \/ compact_pointer[l] = <<>>
                                         \/ Before(compact_pointer[l][1], f.largest)}
      picked == IF ~due.due THEN file_to_compact[1].file
                ELSE IF after # {} THEN FileOrder(after)[1] ELSE levels[l][1]
  IN [level |-> l,
      inputs0 |-> IF l = 0 THEN Overlapping(0, GetRange(<<picked>>)) ELSE <<picked>>]

\* CompactRange: the files of a level in a range, not too many at once unless
\* they may overlap.
RangeInputs(l, begin, end) ==
  LET files == GetOverlappingInputs(levels, l, begin, end)
      enough == {i \in DOMAIN files : TotalFileSize(SubSeq(files, 1, i)) >= kTargetFileSize}
  IN IF l > 0 /\ enough # {} THEN SubSeq(files, 1, Min(enough)) ELSE files

IsTrivialMove(c) ==
  /\ Len(c.inputs0) = 1
  /\ c.inputs1 = <<>>
  /\ TotalFileSize(c.grandparents) <= kMaxGrandParentOverlapBytes

InputDeletions(c) ==
  {[level |-> c.level, number |-> f.number] : f \in ToSet(c.inputs0)}
    \cup {[level |-> c.level + 1, number |-> f.number] : f \in ToSet(c.inputs1)}

\* The pointer moves at once, also for a compaction that fails later.
MovePointer(c) == compact_pointer' = [compact_pointer EXCEPT ![c.level] = <<c.pointer>>]
EditPointer(c) == [NoPointers EXCEPT ![c.level] = <<c.pointer>>]

\* Begin(c): BackgroundCompaction has its inputs and lets go of the mutex.
Begin(c, manual) ==
  /\ job' = <<[manual |-> manual, c |-> c, level |-> c.level]>>
  /\ MovePointer(c)
  /\ UNCHANGED <<levels, file_to_compact, next_file, last_sequence, memtable, snapshots,
                 manifest, history, split, undercut>>

\* Mutant: a second compaction may start.
NeverBusy == TRUE

\* MaybeScheduleCompaction: no compaction is scheduled or runs.
Idle == job = <<>>

NeedsCompaction == Finalize(levels).due \/ file_to_compact # <<>>

\* BackgroundCompaction: a compaction, or the move of a single file.
PickCompaction ==
  /\ Idle /\ NeedsCompaction
  /\ LET p == PickedInputs
         c == SetupOtherInputs(p.level, p.inputs0)
     IN IF IsTrivialMove(c)
          THEN /\ LogAndApply(InputDeletions(c),
                              {[level |-> c.level + 1, file |-> Head(c.inputs0)]},
                              EditPointer(c), next_file)
               /\ MovePointer(c)
               /\ UNCHANGED <<last_sequence, memtable, snapshots, job, history, undercut>>
          ELSE Begin(c, FALSE)

\* One round of a manual compaction (DB::CompactRange, TEST_CompactRange).
ManualInputs(l) ==
  (UNION {{RangeInputs(l, b, e) : b \in 0..MaxKey} : e \in 1..NoEnd}) \ {<<>>}

CompactRange ==
  /\ Idle
  /\ \E l \in 0..(kNumLevels - 2) :
       \E inputs \in ManualInputs(l) :
         Begin(SetupOtherInputs(l, inputs), TRUE)

-----------------------------------------------------------------------------
(* What a compaction writes. *)

\* IsBaseLevelForKey, in the version the compaction started from.
IsBaseLevelForKey(c, k) ==
  \A f \in c.deeper : ~(f.smallest.key <= k /\ k <= f.largest.key)

\* Mutant: every deletion marker a snapshot does not need is dropped.
DropDeletions(c, e, last) ==
  \/ last <= c.smallest_snapshot
  \/ e.type = "deletion" /\ e.seq <= c.smallest_snapshot

\* Rule (A), hidden by a newer entry every snapshot sees, and the rule for
\* deletion markers. last is the sequence number of the previous entry of the
\* user key, kMaxSequenceNumber for the first.
Drops(c, e, last) ==
  \/ last <= c.smallest_snapshot
  \/ /\ e.type = "deletion"
     /\ e.seq <= c.smallest_snapshot
     /\ IsBaseLevelForKey(c, e.key)

\* ShouldStopBefore: the grandparents passed, and whether the output overlaps
\* too many of their bytes.
ShouldStopBefore(c, a, e) ==
  LET passed == Cardinality({i \in DOMAIN c.grandparents : Before(c.grandparents[i].largest, e)})
      bytes == a.overlapped + (IF a.seen_key
                 THEN TotalFileSize(SubSeq(c.grandparents, a.grandparent_index + 1, passed)) ELSE 0)
      stop == bytes > kMaxGrandParentOverlapBytes
  IN [a EXCEPT !.grandparent_index = passed, !.seen_key = TRUE,
               !.overlapped = IF stop THEN 0 ELSE bytes,
               !.done = IF stop /\ a.output # {} THEN Append(@, a.output) ELSE @,
               !.output = IF stop THEN {} ELSE @]

NoOutput == [done |-> <<>>, output |-> {}, user_key |-> 0, last |-> MaxSeq + 1,
             grandparent_index |-> 0, seen_key |-> FALSE, overlapped |-> 0]

\* A turn of the loop of DoCompactionWork: the entry e goes to the output at
\* hand, which is closed when it is full.
CompactEntry(c, a0, e) ==
  LET a == ShouldStopBefore(c, a0, e)
      last == IF e.key # a.user_key THEN MaxSeq + 1 ELSE a.last
      output == IF Drops(c, e, last) THEN a.output ELSE a.output \cup {e}
      full == Cardinality(output) >= kTargetFileSize
  IN [a EXCEPT !.user_key = e.key, !.last = e.seq,
               !.done = IF full THEN Append(@, output) ELSE @,
               !.output = IF full THEN {} ELSE output]

\* The loop over the merged inputs: the entries of the output tables.
DoCompactionWork(c) ==
  LET entries == InOrder(EntriesOf(c.inputs0 \o c.inputs1), Before)
      loop[i \in 0..Len(entries)] ==
        IF i = 0 THEN NoOutput ELSE CompactEntry(c, loop[i - 1], entries[i])
      end == loop[Len(entries)]
  IN IF end.output = {} THEN end.done ELSE Append(end.done, end.output)

\* InstallCompactionResults.
FinishCompaction ==
  /\ job # <<>>
  /\ LET c == job[1].c
         outputs == DoCompactionWork(c)
         files == {[level |-> c.level + 1,
                    file |-> FileMetaData(next_file + i - 1, outputs[i])]
                     : i \in DOMAIN outputs}
     IN /\ next_file + Len(outputs) - 1 <= MaxFile
        /\ LogAndApply(InputDeletions(c), files, EditPointer(c), next_file + Len(outputs))
  /\ job' = <<>>
  /\ UNCHANGED <<compact_pointer, last_sequence, memtable, snapshots, history, undercut>>

\* The process stops, with or without a compaction under way, and the database
\* is opened again: Recover replays the manifest, RecoverLogFile writes the
\* memtable to a table of level 0 and a new manifest starts with a snapshot of
\* the version.
Reopen ==
  /\ LET f == FileMetaData(manifest.next + 1, memtable)
         added == IF memtable = {} THEN {} ELSE {[level |-> 0, file |-> f]}
         v == SaveTo(Apply(manifest.builder, [deleted |-> {}, added |-> added]), NoFiles)
     IN /\ manifest.next + 1 <= MaxFile
        /\ levels' = v
        /\ manifest' = [builder |-> WriteSnapshot(v), pointer |-> manifest.pointer,
                        next |-> manifest.next + 2]
        /\ next_file' = manifest.next + 2
  /\ compact_pointer' = manifest.pointer
  /\ file_to_compact' = <<>> /\ memtable' = {} /\ snapshots' = {} /\ job' = <<>>
  /\ UNCHANGED <<last_sequence, history, split, undercut>>

CompactionNext ==
  \/ WriteEntry \/ GetSnapshot \/ ReleaseSnapshot \/ GetKey \/ RecordReadSample
  \/ CompactMemTable \/ PickCompaction \/ CompactRange \/ FinishCompaction \/ Reopen

CompactionSpec == CompactionInit /\ [][CompactionNext]_compactionVars

-----------------------------------------------------------------------------
(* Properties. *)

\* Type invariant of the levels and of the compaction under way.
CompactionTypeOK ==
  /\ \A l \in Level : \A f \in ToSet(levels[l]) :
       f.entries \subseteq Entry /\ f.entries # {} /\ f.number \in 1..MaxFile
  /\ memtable \subseteq Entry /\ history \subseteq Entry
  /\ snapshots \subseteq 0..last_sequence
  /\ next_file \in 1..(MaxFile + 2)
  /\ Len(job) <= 1 /\ Len(file_to_compact) <= 1

\* What a read of k at sequence number s has to return.
Reference(k, s) ==
  LET seen == {e \in history : e.key = k /\ e.seq <= s}
  IN IF seen = {} THEN {} ELSE {e \in {Newest(seen)} : e.type = "value"}

Values(found) == {e \in found : e.type = "value"}

\* Files of a level below level 0 are sorted and disjoint, as the assertion of
\* MaybeAddFile says, also when a memtable was written to a table during a
\* compaction, unless that compaction was a manual one.
LevelsDisjoint ==
  /\ CompactionTypeOK
  /\ undercut \/ \A l \in Level \ {0} : \A i \in 1..(Len(levels[l]) - 1) :
                   Before(levels[l][i].largest, levels[l][i + 1].smallest)

\* A Get returns the newest value its snapshot may see and no deleted one,
\* across flushes, moves, compactions and restarts, unless two files of a
\* level have shared the user key.
GetSeesNewest ==
  undercut \/ \A s \in ReadPoints, k \in Key \ split :
    LET mem == {e \in memtable : e.key = k /\ e.seq <= s}
        found == IF mem # {} THEN {Newest(mem)} ELSE VersionGet(levels, k, s).found
    IN Values(found) = Reference(k, s)

\* An iterator, which merges all levels, sees the same: no compaction loses a
\* value that a snapshot needs or uncovers a deleted one, with the same
\* exceptions. (Where files of a level overlap, the search for the files of the
\* next level misses some, and a deletion may be installed beside the value it
\* hides and be dropped by the next compaction.)
VisibleInLevels(s, k) ==
  LET seen == {e \in memtable \cup AllEntries(levels) : e.key = k /\ e.seq <= s}
  IN IF seen = {} THEN {} ELSE Values({Newest(seen)})

IteratorSeesNewest ==
  undercut \/ \A s \in ReadPoints, k \in Key \ split : VisibleInLevels(s, k) = Reference(k, s)

\* Recover would rebuild exactly the current version from the manifest.
ManifestIsCurrent == SaveTo(manifest.builder, NoFiles) = levels

\* The inputs of a compaction under way stay in the current version until its
\* results are installed: nothing else deletes them.
InputsStayLive ==
  job # <<>> => /\ ToSet(job[1].c.inputs0) \subseteq ToSet(levels[job[1].level])
                /\ ToSet(job[1].c.inputs1) \subseteq ToSet(levels[job[1].level + 1])

\* The comment in DoCompactionWork on deletion markers: one that is dropped
\* is obsolete. Then no user key that was deleted is visible again.
DeletedStaysDeleted ==
  \A k \in Key : Reference(k, last_sequence) = {} => VisibleInLevels(last_sequence, k) = {}
=============================================================================
