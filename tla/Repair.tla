------------------------------- MODULE Repair -------------------------------
(***************************************************************************)
(* db/repair.cc: the Repairer, run on a directory whose MANIFEST is lost,  *)
(* with damaged logs and tables, failing calls and crashes at any step     *)
(* after which it is run again.                                            *)
(*                                                                         *)
(* An entry is a key with its sequence number.  A file is the entries it   *)
(* holds, in the pieces (log records, table blocks) that are read as one;  *)
(* a piece is "good", "bad" (reported: a short record, a block that does   *)
(* not read) or, in a log, "mangled": the log is read without checksums,   *)
(* so a changed record may be taken for a batch, here of the entry         *)
(* Garbage.  Logs and tables are taken in the order of their numbers: the  *)
(* properties do not depend on the order in which the directory is read.   *)
(* A number found under both table names is scanned twice in the code, to  *)
(* the effect of once.                                                     *)
(***************************************************************************)
EXTENDS Integers, Sequences, FiniteSets
LOCAL INSTANCE FiniteSetsExt

CONSTANTS Pieces,       \* the states of a piece of a log or table
          RepairCrashes,  \* repairs cut short
          RepairFailures  \* calls that fail

VARIABLES dir,      \* the directory: a function from names to files
          lost,     \* the files in dbname/lost, by name too
          rep,      \* the Repairer
          original, \* ghost: readable entries of the directory at first
          failures, \* calls that failed so far
          stops     \* crashes so far

repairVars == <<dir, lost, rep, original, failures, stops>>

Name(type, n) == [type |-> type, number |-> n]
CurrentFile == Name("CURRENT", 0)

Block(entries, state) == [entries |-> entries, state |-> state]
Garbage == <<"garbage", 0>>

CanRead(file) == UNION {b.entries : b \in {c \in file : c.state = "good"}}
Intact(file) == \A b \in file : b.state = "good"

\* The entries of the log's memtable: a mangled record may decode.
Replayed(file) ==
    CanRead(file) \cup (IF \E b \in file : b.state = "mangled"
                         THEN {Garbage} ELSE {})

NewRepairer ==
    [at |-> "find", logs |-> {}, numbers |-> {}, manifests |-> {},
     tables |-> {}, next |-> 1, work |-> 0, copied |-> {}]

\* A file whose builder did not write a footer: Table::Open refuses it.
Unfinished == {Block({}, "bad")}

\* What an earlier repair of the same directory archived as table 2.
Archived == [f \in {Name("ldb", 2)} |-> {Block({<<"c", 1>>}, "good")}]

\* A database with a table, under the old name or the new, and two logs.
RepairInit ==
    /\ \E s, t, u \in Pieces \ {"mangled"}, m \in Pieces, suffix \in {"sst", "ldb"} :
          dir = [f \in {Name("MANIFEST", 1), Name(suffix, 2),
                        Name("log", 3), Name("log", 4)} |->
                   CASE f.number = 1 -> {}
                     [] f.number = 2 -> {Block({<<"a", 1>>}, s), Block({<<"b", 2>>}, t)}
                     [] f.number = 3 -> {Block({<<"b", 3>>}, u)}
                     [] f.number = 4 -> {Block({<<"a", 4>>}, m)}]
    /\ lost = Archived
    /\ rep = NewRepairer
    /\ original = UNION {CanRead(dir[f]) : f \in DOMAIN dir}
    /\ failures = 0
    /\ stops = 0

-----------------------------------------------------------------------------
WithFile(f, file) == [g \in DOMAIN dir \cup {f} |-> IF g = f THEN file ELSE dir[g]]
Without(f) == [g \in DOMAIN dir \ {f} |-> dir[g]]
Renamed(f, g) == [h \in (DOMAIN dir \ {f}) \cup {g} |->
                     IF h = g THEN dir[f] ELSE dir[h]]

\* ArchiveFile that deletes the file (a mistake).
DeleteInstead(S) == dir' = [g \in DOMAIN dir \ S |-> dir[g]] /\ UNCHANGED lost

\* ArchiveFile, for those files of S that exist: rename to the same name in
\* lost/, over a file that was archived under that name before.
ArchiveFile(S) ==
    LET moved == S \cap DOMAIN dir
    IN /\ dir' = [g \in DOMAIN dir \ S |-> dir[g]]
       /\ lost' = [g \in DOMAIN lost \cup moved |->
                      IF g \in moved THEN dir[g] ELSE lost[g]]

Quiet == UNCHANGED <<original, stops>>

\* A call fails: the Repairer goes on, some of the data stays behind.
Failure == failures < RepairFailures /\ failures' = failures + 1

\* FindFiles.  The numbers of descriptors and of the files in lost/ do not
\* count for the next file number.
NumbersFound(n) == {f.number : f \in {g \in DOMAIN dir : g.type # "MANIFEST"}} \cup n

FindFiles ==
    /\ rep.at = "find"
    /\ LET of(types) == {f \in DOMAIN dir : f.type \in types}
       IN rep' = [rep EXCEPT !.at = "logs",
                             !.logs = {f.number : f \in of({"log"})},
                             !.numbers = {f.number : f \in of({"sst", "ldb"})},
                             !.manifests = of({"MANIFEST"}),
                             !.next = Max(NumbersFound({0})) + 1]
    /\ Quiet /\ UNCHANGED <<dir, lost, failures>>

\* ConvertLogToTable: an empty memtable makes no file; an error of
\* BuildTable deletes the file and is ignored.
ConvertLogToTable ==
    /\ rep.at = "logs"
    /\ rep.logs # {}
    /\ LET n == Min(rep.logs)
           entries == Replayed(dir[Name("log", n)])
       IN   \/ /\ rep' = [rep EXCEPT !.at = "archive", !.work = n,
                                     !.next = @ + 1,
                                     !.numbers = IF entries = {} THEN @
                                                 ELSE @ \cup {rep.next}]
               /\ dir' = IF entries = {} THEN dir
                         ELSE WithFile(Name("ldb", rep.next), {Block(entries, "good")})
               /\ UNCHANGED failures
            \/ /\ rep' = [rep EXCEPT !.at = "archive", !.work = n, !.next = @ + 1]
               /\ Failure /\ UNCHANGED dir
    /\ Quiet /\ UNCHANGED lost

ArchiveLog ==
    /\ rep.at = "archive"
    /\ \/ ArchiveFile({Name("log", rep.work)}) /\ UNCHANGED failures
       \/ UNCHANGED <<dir, lost>> /\ Failure
    /\ rep' = [rep EXCEPT !.at = "logs", !.logs = @ \ {rep.work}]
    /\ Quiet

LogsDone ==
    /\ rep.at = "logs"
    /\ rep.logs = {}
    /\ rep' = [rep EXCEPT !.at = "scan"]
    /\ Quiet /\ UNCHANGED <<dir, lost, failures>>

\* ScanTable looks for NNNNNN.ldb, then for NNNNNN.sst.
TableFile(n) == IF Name("ldb", n) \in DOMAIN dir THEN Name("ldb", n)
                                                  ELSE Name("sst", n)

ScanTable ==
    /\ rep.at = "scan"
    /\ rep.numbers # {}
    /\ LET n == Min(rep.numbers)
       IN rep' = IF Intact(dir[TableFile(n)])
                 THEN [rep EXCEPT !.numbers = @ \ {n}, !.tables = @ \cup {n}]
                 ELSE [rep EXCEPT !.at = "copy", !.work = n]
    /\ Quiet /\ UNCHANGED <<dir, lost, failures>>

\* GetFileSize fails for both names: archived and dropped, under both.
ScanMissing ==
    /\ rep.at = "scan"
    /\ rep.numbers # {}
    /\ LET n == Min(rep.numbers)
       IN /\ Failure
          /\ ArchiveFile({Name("ldb", n), Name("sst", n)})
          /\ rep' = [rep EXCEPT !.numbers = @ \ {n}]
    /\ Quiet

\* RepairTable copies what can be read to a new file ...
CopyTable ==
    /\ rep.at = "copy"
    /\ \/ /\ dir' = WithFile(Name("ldb", rep.next), Unfinished)
          /\ rep' = [rep EXCEPT !.at = "move", !.next = @ + 1]
          /\ UNCHANGED failures
       \/ /\ rep' = [rep EXCEPT !.at = "scan", !.numbers = @ \ {rep.work}, !.next = @ + 1]
          /\ Failure /\ UNCHANGED dir
    /\ Quiet /\ UNCHANGED lost

CopyFile == Name("ldb", rep.next - 1)

\* ... archives the source, and only then finishes the copy ...
MoveSource ==
    /\ rep.at = "move"
    /\ rep' = [rep EXCEPT !.at = "finish",
                          !.copied = CanRead(dir[TableFile(rep.work)])]
    /\ \/ ArchiveFile({TableFile(rep.work)}) /\ UNCHANGED failures
       \/ UNCHANGED <<dir, lost>> /\ Failure
    /\ Quiet

\* ... which takes the place of the source, unless nothing was read.
FinishCopy ==
    /\ rep.at = "finish"
    /\ LET done == [rep EXCEPT !.at = "scan", !.numbers = @ \ {rep.work}]
       IN \/ /\ rep.copied # {}
             /\ dir' = WithFile(CopyFile, {Block(rep.copied, "good")})
             /\ rep' = [rep EXCEPT !.at = "install"]
             /\ UNCHANGED failures
          \/ /\ rep.copied = {}   \* Abandon: the unfinished copy stays in the directory
             /\ rep' = done
             /\ UNCHANGED <<dir, failures>>
          \/ dir' = Without(CopyFile) /\ rep' = done /\ Failure
    /\ Quiet /\ UNCHANGED lost

InstallCopy ==
    /\ rep.at = "install"
    /\ LET done == [rep EXCEPT !.at = "scan", !.numbers = @ \ {rep.work}]
       IN \/ /\ dir' = Renamed(CopyFile, Name("ldb", rep.work))
             /\ rep' = [done EXCEPT !.tables = @ \cup {rep.work}]
             /\ UNCHANGED failures
          \/ dir' = Without(CopyFile) /\ rep' = done /\ Failure
    /\ Quiet /\ UNCHANGED lost

TablesDone ==
    /\ rep.at = "scan"
    /\ rep.numbers = {}
    /\ rep' = [rep EXCEPT !.at = "describe"]
    /\ Quiet /\ UNCHANGED <<dir, lost, failures>>

Sequences(n) == {e[2] : e \in CanRead(dir[TableFile(n)])}

LastSequenceOf(n) == Max({0} \cup Sequences(n))

\* WriteDescriptor: the edit is written to a temporary file, the old
\* manifests go to lost/, the temporary file becomes MANIFEST-000001.
Edit == [tables |-> rep.tables, next |-> rep.next, log |-> 0,
         last |-> Max({0} \cup {LastSequenceOf(n) : n \in rep.tables})]

WriteDescriptor ==
    /\ rep.at = "describe"
    /\ \/ /\ dir' = WithFile(Name("dbtmp", 1), {Edit})
          /\ rep' = [rep EXCEPT !.at = "manifests"]
          /\ UNCHANGED failures
       \/ rep' = [rep EXCEPT !.at = "failed"] /\ Failure /\ UNCHANGED dir
    /\ Quiet /\ UNCHANGED lost

ArchiveManifest ==
    /\ rep.at = "manifests"
    /\ \E f \in rep.manifests : /\ ArchiveFile({f})
                                /\ rep' = [rep EXCEPT !.manifests = @ \ {f}]
    /\ Quiet /\ UNCHANGED failures

InstallDescriptor ==
    /\ rep.at = "manifests"
    /\ rep.manifests = {}
    /\ \/ /\ dir' = Renamed(Name("dbtmp", 1), Name("MANIFEST", 1))
          /\ rep' = [rep EXCEPT !.at = "current"]
          /\ UNCHANGED failures
       \/ /\ dir' = Without(Name("dbtmp", 1))
          /\ rep' = [rep EXCEPT !.at = "failed"]
          /\ Failure
    /\ Quiet /\ UNCHANGED lost

SetCurrentToFirst ==
    /\ rep.at = "current"
    /\ \/ /\ dir' = WithFile(CurrentFile, {"MANIFEST-000001"})
          /\ rep' = [rep EXCEPT !.at = "done"]
          /\ UNCHANGED failures
       \/ rep' = [rep EXCEPT !.at = "failed"] /\ Failure /\ UNCHANGED dir
    /\ Quiet /\ UNCHANGED lost

\* The repair is cut short, or failed, and is run again.
RunAgain ==
    /\ stops < RepairCrashes
    /\ rep.at # "done"
    /\ stops' = stops + 1
    /\ rep' = NewRepairer
    /\ UNCHANGED <<dir, lost, original, failures>>

RepairNext ==
    \/ FindFiles \/ ConvertLogToTable \/ ArchiveLog \/ LogsDone
    \/ ScanTable \/ ScanMissing \/ CopyTable \/ MoveSource \/ FinishCopy
    \/ InstallCopy \/ TablesDone \/ WriteDescriptor \/ ArchiveManifest
    \/ InstallDescriptor \/ SetCurrentToFirst \/ RunAgain

RepairSpec == RepairInit /\ [][RepairNext]_repairVars

-----------------------------------------------------------------------------
DataFiles(files) == {files[f] : f \in {g \in DOMAIN files : g.type \in {"sst", "ldb", "log"}}}
OnDevice == UNION {CanRead(f) : f \in DataFiles(dir) \cup DataFiles(lost)}
Installed == UNION {CanRead(dir[TableFile(n)]) : n \in rep.tables}

(***************************************************************************)
(* Whatever fails and whenever the repair stops, every entry that could be *)
(* read in the directory at first can still be read from a file of the     *)
(* directory or of lost/. The Repairer destroys only what an earlier       *)
(* repair archived, by archiving a file of the same name (repair.cc:449):  *)
(* that never takes the last copy of an entry of this directory, also when *)
(* a number is used again because its file was archived (:133).            *)
(***************************************************************************)
NothingIsDestroyed == original \subseteq OnDevice

(***************************************************************************)
(* A repair in which no call failed and that was not cut short ends with   *)
(* every readable entry in a table of the new MANIFEST, those of .sst      *)
(* files and of logs included (repair.cc:71).                              *)
(***************************************************************************)
RepairIsComplete ==
    (rep.at = "done" /\ failures = 0 /\ stops = 0) => original \subseteq Installed

(***************************************************************************)
(* The database a repair leaves behind can be opened and written to: every *)
(* table of the MANIFEST exists and reads, no log or table of the          *)
(* directory has a number that will be handed out again, and no table      *)
(* holds a sequence number that will be given to a new write               *)
(* (repair.cc:374).                                                        *)
(***************************************************************************)
RepairedOpens ==
    rep.at = "done" =>
        \A e \in dir[Name("MANIFEST", 1)] :
            /\ \A n \in e.tables :
                 /\ TableFile(n) \in DOMAIN dir
                 /\ Intact(dir[TableFile(n)])
                 /\ \A s \in Sequences(n) : s <= e.last
            /\ \A f \in DOMAIN dir : f.number < e.next \/ f.type = "MANIFEST"

\* A repair, however often interrupted, loses no readable entry.
RepairLosesNothing ==
  /\ NothingIsDestroyed
  /\ RepairIsComplete
  /\ RepairedOpens
=============================================================================
