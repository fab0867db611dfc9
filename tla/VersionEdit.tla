----------------------------- MODULE VersionEdit -----------------------------
(***************************************************************************)
(* db/version_edit.cc: the records of the MANIFEST.  An edit is filled by  *)
(* its setters, encoded, and what is found later (all of it, a part of it  *)
(* or something after it) is decoded.                                      *)
(***************************************************************************)
EXTENDS Coding

CONSTANTS EditNumbers,   \* file and sequence numbers and sizes
          EditKeys,      \* encoded internal keys, and comparator names
          EditLevels,    \* kNumLevels
          MaxCalls,      \* calls of setters
          Junk           \* byte sequences found behind a record

VARIABLES edit,          \* the edit being built
          calls,         \* setter calls made
          record,        \* its encoding, as found
          found,         \* "building", "whole", "cut" or "longer"
          decoded        \* the result of DecodeFrom

editVars == <<edit, calls, record, found, decoded>>

Levels == 0..(EditLevels - 1)
FileMeta == [level : Levels, number : EditNumbers, size : EditNumbers,
             smallest : EditKeys, largest : EditKeys]

\* VersionEdit::Clear; an item that is not set is <<>>.
Cleared == [comparator |-> <<>>, logNumber |-> <<>>, prevLogNumber |-> <<>>,
            nextFile |-> <<>>, lastSequence |-> <<>>,
            compactPointers |-> <<>>, deleted |-> {}, newFiles |-> <<>>]

-----------------------------------------------------------------------------
\* EncodeTo.
Put64(tag, item) == IF item = <<>> THEN <<>> ELSE <<tag>> \o PutVarint(item[1])

RECURSIVE PutPointers(_), PutDeleted(_), PutFiles(_)
PutPointers(p) ==
    IF p = <<>> THEN <<>>
    ELSE <<5>> \o PutVarint(p[1].level) \o PutLengthPrefixedSlice(p[1].key)
               \o PutPointers(Tail(p))

\* std::set: by level, then by number.
PutDeleted(d) ==
    IF d = {} THEN <<>>
    ELSE LET x == CHOOSE x \in d : \A y \in d :
                      (x.level < y.level) \/ (x.level = y.level /\ x.number <= y.number)
         IN <<6>> \o PutVarint(x.level) \o PutVarint(x.number) \o PutDeleted(d \ {x})

PutFiles(f) ==
    IF f = <<>> THEN <<>>
    ELSE <<7>> \o PutVarint(f[1].level) \o PutVarint(f[1].number) \o PutVarint(f[1].size)
               \o PutLengthPrefixedSlice(f[1].smallest)
               \o PutLengthPrefixedSlice(f[1].largest) \o PutFiles(Tail(f))

EncodeTo(e) ==
    (IF e.comparator = <<>> THEN <<>> ELSE <<1>> \o PutLengthPrefixedSlice(e.comparator[1]))
        \o Put64(2, e.logNumber) \o Put64(9, e.prevLogNumber)
        \o Put64(3, e.nextFile) \o Put64(4, e.lastSequence)
        \o PutPointers(e.compactPointers) \o PutDeleted(e.deleted) \o PutFiles(e.newFiles)

-----------------------------------------------------------------------------
\* DecodeFrom.
GetLevel(input) ==
    LET g == GetVarint32(input) IN IF g.ok /\ g.v < EditLevels THEN g ELSE NotGot(input)

\* Get the parts of an item one after the other: a sequence of kinds.
RECURSIVE GetParts(_, _, _)
GetParts(input, kinds, parts) ==
    IF kinds = <<>> THEN Got(parts, input)
    ELSE LET g == CASE kinds[1] = "level"  -> GetLevel(input)
                    [] kinds[1] = "number" -> GetVarint64(input)
                    [] kinds[1] = "key"    -> GetLengthPrefixedSlice(input)
         IN IF g.ok THEN GetParts(g.rest, Tail(kinds), Append(parts, g.v)) ELSE g

Kinds(tag) ==
    CASE tag = 1 -> <<"key">>
      [] tag \in {2, 3, 4, 9} -> <<"number">>
      [] tag = 5 -> <<"level", "key">>
      [] tag = 6 -> <<"level", "number">>
      [] tag = 7 -> <<"level", "number", "number", "key", "key">>

With(e, tag, p) ==
    CASE tag = 1 -> [e EXCEPT !.comparator = p]
      [] tag = 2 -> [e EXCEPT !.logNumber = p]
      [] tag = 9 -> [e EXCEPT !.prevLogNumber = p]
      [] tag = 3 -> [e EXCEPT !.nextFile = p]
      [] tag = 4 -> [e EXCEPT !.lastSequence = p]
      [] tag = 5 -> [e EXCEPT !.compactPointers = Append(@, [level |-> p[1], key |-> p[2]])]
      [] tag = 6 -> [e EXCEPT !.deleted = @ \cup {[level |-> p[1], number |-> p[2]]}]
      [] tag = 7 -> [e EXCEPT !.newFiles = Append(@, [level |-> p[1], number |-> p[2],
                               size |-> p[3], smallest |-> p[4], largest |-> p[5]])]

RECURSIVE DecodeFrom(_, _)
DecodeFrom(input, e) ==
    LET t == GetVarint32(input)
        g == GetParts(t.rest, Kinds(t.v), <<>>)
    IN IF ~t.ok THEN [ok |-> input = <<>>, edit |-> e]
       ELSE IF t.v \notin {1, 2, 3, 4, 5, 6, 7, 9} THEN [ok |-> FALSE, edit |-> e]
       ELSE IF ~g.ok THEN [ok |-> FALSE, edit |-> e]
       ELSE DecodeFrom(g.rest, With(e, t.v, g.v))

-----------------------------------------------------------------------------
NoResult == [ok |-> FALSE, edit |-> Cleared]

EditInit == /\ edit = Cleared
            /\ calls = 0
            /\ record = <<>>
            /\ found = "building"
            /\ decoded = NoResult

Set(e) == /\ found = "building"
          /\ calls < MaxCalls
          /\ calls' = calls + 1
          /\ edit' = e
          /\ UNCHANGED <<record, found, decoded>>

SetComparatorName == \E k \in EditKeys : Set([edit EXCEPT !.comparator = <<k>>])
SetLogNumber == \E n \in EditNumbers : Set([edit EXCEPT !.logNumber = <<n>>])
SetPrevLogNumber == \E n \in EditNumbers : Set([edit EXCEPT !.prevLogNumber = <<n>>])
SetNextFile == \E n \in EditNumbers : Set([edit EXCEPT !.nextFile = <<n>>])
SetLastSequence == \E n \in EditNumbers : Set([edit EXCEPT !.lastSequence = <<n>>])
SetCompactPointer ==
    \E p \in [level : Levels, key : EditKeys] :
        Set([edit EXCEPT !.compactPointers = Append(@, p)])
AddFile == \E f \in FileMeta : Set([edit EXCEPT !.newFiles = Append(@, f)])
DeleteFile == \E d \in [level : Levels, number : EditNumbers] :
                  Set([edit EXCEPT !.deleted = @ \cup {d}])

\* The record is read back, whole or not, by VersionSet::Recover.
ReadBack ==
    /\ found = "building"
    /\ LET bytes == EncodeTo(edit)
       IN \/ /\ record' = bytes
             /\ found' = "whole"
          \/ /\ \E n \in 0..(Len(bytes) - 1) : record' = SubSeq(bytes, 1, n)
             /\ found' = "cut"
          \/ /\ \E j \in Junk : record' = bytes \o j
             /\ found' = "longer"
    /\ decoded' = DecodeFrom(record', Cleared)
    /\ UNCHANGED <<edit, calls>>

EditNext == \/ SetComparatorName \/ SetLogNumber \/ SetPrevLogNumber
            \/ SetNextFile \/ SetLastSequence \/ SetCompactPointer
            \/ AddFile \/ DeleteFile \/ ReadBack

(***************************************************************************)
(* Whatever setters were called, DecodeFrom gives back the edit EncodeTo   *)
(* wrote (version_edit.cc:41, 109).                                        *)
(***************************************************************************)
EditRoundTrip ==
    found = "whole" => decoded = [ok |-> TRUE, edit |-> edit]

(***************************************************************************)
(* A part of a record is refused, or it ends between two items and says    *)
(* what its bytes say: no file with a shorter key or another number comes  *)
(* out of it (coding.cc:180, version_edit.cc:88-105).                      *)
(***************************************************************************)
CutEditInventsNothing ==
    (found = "cut" /\ decoded.ok) => EncodeTo(decoded.edit) = record

(***************************************************************************)
(* Bytes behind the record that are no item (an unfinished tag, a tag of   *)
(* another version, a level there is not) make the whole record corrupt    *)
(* (version_edit.cc:194-207).                                              *)
(***************************************************************************)
JunkIsCorruption == found = "longer" => ~decoded.ok

\* A MANIFEST record decodes to the edit it encodes, or not at all.
EditsDecode ==
  /\ EditRoundTrip
  /\ CutEditInventsNothing
  /\ JunkIsCorruption
=============================================================================
