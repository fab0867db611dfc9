----------------------------- MODULE VersionRefs -----------------------------
(***************************************************************************)
(* Who keeps what alive in db/version_set.cc: the references of Version    *)
(* and FileMetaData, and the list of versions that AddLiveFiles walks to   *)
(* find the files that must not be deleted.  Every action runs under the   *)
(* mutex; LogAndApply gives it up between building a version and           *)
(* installing it.                                                          *)
(***************************************************************************)
EXTENDS Naturals, Sequences, FiniteSets

CONSTANTS RefReaders,     \* Gets and iterators
          MaxVersions,    \* Version objects alive at once
          MaxFiles,       \* FileMetaData objects alive at once
          MaxFileNumber   \* file numbers

ASSUME RefAssumption == IsFiniteSet(RefReaders) /\ MaxVersions \in Nat /\ MaxFiles \in Nat

VARIABLES version,   \* the Version objects: refs_, files_ (objects), prev_, next_
          meta,      \* the FileMetaData objects: refs and number
          current,   \* current_
          pending,   \* the version LogAndApply has built and not installed, or 0
          pins,      \* the version each reader holds, or 0
          inputs,    \* the input_version_ of the compaction, or 0
          nextNumber \* next_file_number_

refVars == <<version, meta, current, pending, pins, inputs, nextNumber>>

\* Version 0 is dummy_versions_, the head of the list.
Dummy == 0
Free(n, f) == (1..n) \ DOMAIN f
Lowest(S) == CHOOSE x \in S : \A y \in S : x <= y
Put(f, k, x) == [i \in DOMAIN f \cup {k} |-> IF i = k THEN x ELSE f[i]]
Cut(f, S) == [i \in DOMAIN f \ S |-> f[i]]

\* Files lose one reference; those without any are deleted.
DropFiles(m, S) ==
    LET d == [i \in DOMAIN m |-> IF i \in S THEN [m[i] EXCEPT !.refs = @ - 1] ELSE m[i]]
    IN Cut(d, {i \in DOMAIN d : d[i].refs = 0})

\* ~Version, of a version that is in the list or stands alone.
Unlinked(v, x) ==
    IF v[x].next = x THEN Cut(v, {x})
    ELSE Cut([v EXCEPT ![v[x].prev].next = v[x].next, ![v[x].next].prev = v[x].prev], {x})

\* Version::Ref.
Ref(v, x) == [v EXCEPT ![x].refs = @ + 1]
\* Version::Unref; h holds the versions and the files.
UnrefVersion(h, x) ==
    IF h.v[x].refs > 1 THEN [h EXCEPT !.v[x].refs = @ - 1]
    ELSE [v |-> Unlinked(h.v, x), m |-> DropFiles(h.m, h.v[x].files)]

Heap == [v |-> version, m |-> meta]
Holds(h) == version' = h.v /\ meta' = h.m

\* The version is not reached from the one before it (a mistake).
AppendUnlinked(h, x) ==
    LET g == IF current = 0 THEN h ELSE UnrefVersion(h, current)
        last == g.v[Dummy].prev
        r == [g.v EXCEPT ![x].refs = 1, ![x].prev = last, ![x].next = Dummy]
    IN [g EXCEPT !.v = [r EXCEPT ![Dummy].prev = x]]

\* AppendVersion: the old current version loses a reference, the new one is
\* put at the end of the list.
AppendVersion(h, x) ==
    LET g == IF current = 0 THEN h ELSE UnrefVersion(h, current)
        last == g.v[Dummy].prev
        r == [g.v EXCEPT ![x].refs = 1, ![x].prev = last, ![x].next = Dummy]
    IN [g EXCEPT !.v = [r EXCEPT ![last].next = x, ![Dummy].prev = x]]

\* AddLiveFiles: the numbers of the files of every version in the list.  The
\* walk from x along next_ meets what every set closed under next_ holds.
ListedFrom(v, x) == {y \in DOMAIN v \ {x} :
                        \A S \in SUBSET DOMAIN v :
                            (x \in S /\ \A z \in S : v[z].next \in S) => y \in S}
AddLiveFiles == {meta[f].number : f \in UNION {version[x].files : x \in ListedFrom(version, Dummy)}}

-----------------------------------------------------------------------------
\* VersionSet::VersionSet appends an empty version.
RefInit ==
    /\ version = [x \in {0, 1} |-> [refs |-> x, files |-> {}, prev |-> 1 - x, next |-> 1 - x]]
    /\ meta = <<>>
    /\ current = 1 /\ pending = 0 /\ inputs = 0
    /\ pins = [r \in RefReaders |-> 0]
    /\ nextNumber = 1

\* Get, NewInternalIterator, GetApproximateSizes and the flush of a memtable
\* take a reference on the current version.
PinVersion(r) ==
    /\ current # 0 /\ pins[r] = 0
    /\ pins' = [pins EXCEPT ![r] = current]
    /\ version' = Ref(version, current)
    /\ UNCHANGED <<meta, current, pending, inputs, nextNumber>>

\* Get ends, or the cleanup of an iterator runs.
UnpinVersion(r) ==
    /\ pins[r] # 0
    /\ pins' = [pins EXCEPT ![r] = 0]
    /\ Holds(UnrefVersion(Heap, pins[r]))
    /\ UNCHANGED <<current, pending, inputs, nextNumber>>

\* PickCompaction and CompactRange.
PickInputs ==
    /\ current # 0 /\ inputs = 0
    /\ inputs' = current
    /\ version' = Ref(version, current)
    /\ UNCHANGED <<meta, current, pending, pins, nextNumber>>

\* ReleaseInputs, or ~Compaction after a compaction that moved a file.
ReleaseInputs ==
    /\ inputs # 0
    /\ inputs' = 0
    /\ Holds(UnrefVersion(Heap, inputs))
    /\ UNCHANGED <<current, pending, pins, nextNumber>>

\* Builder: the base version is held, every added file is a new object with
\* one reference, the files that are kept get one from the new version, and
\* the references of the builder are dropped.
BuildVersion(deleted, numbers) ==
    LET x == Lowest(Free(MaxVersions, version))
        \* one added file here: its object
        o == Lowest(Free(MaxFiles, meta))
        kept == {f \in version[current].files : meta[f].number \notin deleted}
        m == [f \in DOMAIN meta |-> IF f \in kept THEN [meta[f] EXCEPT !.refs = @ + 1] ELSE meta[f]]
        news == IF numbers = {} THEN {} ELSE {o}
        made == IF numbers = {} THEN m
                ELSE DropFiles(Put(m, o, [refs |-> 2, number |-> Lowest(numbers)]), {o})
    IN /\ version' = Put(version, x, [refs |-> 0, files |-> kept \cup news, prev |-> x, next |-> x])
       /\ meta' = made
       /\ pending' = x

\* LogAndApply up to the point where it releases the mutex.  The edit deletes
\* files of the current version, and adds a file, with a new number or (a
\* trivial move) with that of a deleted one.
LogAndApplyBuilds ==
    /\ current # 0 /\ pending = 0
    /\ Free(MaxVersions, version) # {}
    /\ \E deleted \in SUBSET {meta[f].number : f \in version[current].files} :
           \/ BuildVersion(deleted, {}) /\ UNCHANGED nextNumber
           \/ /\ Free(MaxFiles, meta) # {} /\ nextNumber <= MaxFileNumber
              /\ BuildVersion(deleted, {nextNumber})
              /\ nextNumber' = nextNumber + 1
           \/ /\ Free(MaxFiles, meta) # {}
              /\ \E n \in deleted : BuildVersion(deleted, {n})
              /\ UNCHANGED nextNumber
    /\ UNCHANGED <<current, pins, inputs>>

LogAndApplyInstalls ==
    /\ pending # 0
    /\ Holds(AppendVersion(Heap, pending))
    /\ current' = pending /\ pending' = 0
    /\ UNCHANGED <<pins, inputs, nextNumber>>

\* The MANIFEST could not be written: delete v.
LogAndApplyFails ==
    /\ pending # 0
    /\ Holds([v |-> Unlinked(version, pending), m |-> DropFiles(meta, version[pending].files)])
    /\ pending' = 0
    /\ UNCHANGED <<current, pins, inputs, nextNumber>>

\* ~DBImpl waits for the background thread; iterators are gone.
CloseVersions ==
    /\ current # 0 /\ pending = 0 /\ inputs = 0
    /\ \A r \in RefReaders : pins[r] = 0
    /\ Holds(UnrefVersion(Heap, current))
    /\ current' = 0
    /\ UNCHANGED <<pending, pins, inputs, nextNumber>>

RefNext == \/ \E r \in RefReaders : PinVersion(r) \/ UnpinVersion(r)
           \/ PickInputs \/ ReleaseInputs
           \/ LogAndApplyBuilds \/ LogAndApplyInstalls \/ LogAndApplyFails
           \/ CloseVersions

RefSpec == RefInit /\ [][RefNext]_refVars

-----------------------------------------------------------------------------
Held == ({pins[r] : r \in RefReaders} \cup {inputs, current}) \ {0}

(***************************************************************************)
(* Whatever is installed or fails meanwhile, the version a reader or a     *)
(* compaction works on, and the files it names, are there, and             *)
(* DeleteObsoleteFiles does not take them for garbage: they are found by   *)
(* walking the list (version_set.cc:1137, db_impl.cc:229).                 *)
(***************************************************************************)
HeldVersionsAreLive ==
    \A x \in Held : /\ x \in DOMAIN version
                    /\ version[x].files \subseteq DOMAIN meta
                    /\ {meta[f].number : f \in version[x].files} \subseteq AddLiveFiles

(***************************************************************************)
(* Nothing is kept longer: a version has one reference for each that holds *)
(* it, a file one for each version, and closing leaves an empty list       *)
(* (the assertion version_set.cc:789).                                     *)
(***************************************************************************)
ReferencesAreExact ==
    /\ \A x \in DOMAIN version \ {Dummy} :
           LET holders == Cardinality({r \in RefReaders : pins[r] = x})
                              + (IF inputs = x THEN 1 ELSE 0) + (IF current = x THEN 1 ELSE 0)
           IN version[x].refs = holders /\ (holders = 0 => pending = x)
    /\ \A f \in DOMAIN meta :
           meta[f].refs = Cardinality({x \in DOMAIN version : f \in version[x].files})
    /\ (current = 0 => version[Dummy].next = Dummy /\ DOMAIN meta = {})

\* A version lives exactly as long as somebody refers to it.
ReferencesAreRight ==
  /\ HeldVersionsAreLive
  /\ ReferencesAreExact
=============================================================================
