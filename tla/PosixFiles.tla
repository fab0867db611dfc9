----------------------------- MODULE PosixFiles -----------------------------
(***************************************************************************)
(* util/env_posix.cc, the files: what PosixWritableFile and the directory  *)
(* calls keep when the process or the machine stops, and the three callers *)
(* that depend on it: a table added to the MANIFEST, a new MANIFEST put in *)
(* place by SetCurrentFile (db/filename.cc, util/env.cc), a log record.    *)
(*                                                                         *)
(* A file is what was given to fwrite, the prefix that left the stdio      *)
(* buffer (cached) and the prefix known to be on the disk (disk).  The     *)
(* buffer and the kernel may write more at any time, so a crash keeps any  *)
(* longer prefix.  The directory is the sequence of its states since the   *)
(* last fsync of it; the file system makes them durable in order, and a    *)
(* machine that stops comes back with one of them.  Data nobody synced is  *)
(* assumed not to reach the disk before an earlier change of the directory *)
(* does (a MANIFEST record appended but not synced would otherwise be      *)
(* found without the table it names).                                      *)
(***************************************************************************)
EXTENDS Naturals, Sequences, FiniteSetsExt

CONSTANTS MaxNumber,    \* file numbers handed out
          MaxCrashes,   \* crashes of the process or of the machine
          MaxLog        \* records appended to the log

VARIABLES inode,    \* the files, by inode number
          names,    \* the directory: its states since the last fsync
          job,      \* the file being written, and how far
          acked,    \* ghost: tables whose MANIFEST record was synced
          promised, \* ghost: log records flushed and synced
          crashes   \* crashes so far

fileVars == <<inode, names, job, acked, promised, crashes>>

CURRENT == <<"CURRENT", 0>>
Log == <<"log", 0>>
Manifest(n) == <<"MANIFEST", n>>
Ldb(n) == <<"ldb", n>>
Temp(n) == <<"dbtmp", n>>

Dir == names[Len(names)]
Bound(f) == f \in DOMAIN Dir
Node(f) == inode[Dir[f]]
Contents(f) == Node(f).data

SetNode(f, node) == [inode EXCEPT ![Dir[f]] = node]

(***************************************************************************)
(* The calls.  fopen(.., "w") empties a file that exists: until the        *)
(* directory is synced a crash shows the old file or the new one.          *)
(***************************************************************************)
NewWritableFile(f) ==
    /\ inode' = Append(inode, [data |-> <<>>, cached |-> 0, disk |-> 0])
    /\ names' = Append(names, [g \in DOMAIN Dir \cup {f} |->
                                  IF g = f THEN Len(inode) + 1 ELSE Dir[g]])

AppendData(f, d) ==
    /\ inode' = SetNode(f, [Node(f) EXCEPT !.data = @ \o d])
    /\ UNCHANGED names

Flush(f) ==
    /\ inode' = SetNode(f, [Node(f) EXCEPT !.cached = Len(Contents(f))])
    /\ UNCHANGED names

\* SyncDirIfManifest that leaves the directory alone (a mistake).
NoDirSync(f) == UNCHANGED names

\* A MANIFEST may only become durable after the files it names.
SyncDirIfManifest(f) ==
    names' = IF f[1] = "MANIFEST" THEN <<Dir>> ELSE names

Sync(f) ==
    /\ SyncDirIfManifest(f)
    /\ LET n == Len(Contents(f))
       IN inode' = SetNode(f, [data |-> Contents(f), cached |-> n, disk |-> n])

EnvDeleteFile(f) ==
    /\ names' = IF Bound(f)
                THEN Append(names, [g \in DOMAIN Dir \ {f} |-> Dir[g]])
                ELSE names
    /\ UNCHANGED inode

RenameFile(f, g) ==
    /\ names' = Append(names, [h \in (DOMAIN Dir \ {f}) \cup {g} |->
                                  IF h = g THEN Dir[f] ELSE Dir[h]])
    /\ UNCHANGED inode

-----------------------------------------------------------------------------
\* The recovered database: the MANIFEST that CURRENT names and its tables.
Line(n) == <<n, "newline">>
CurrentNumber == Contents(CURRENT)[1]
Recorded == {Contents(Manifest(CurrentNumber))[i] :
                    i \in 1..Len(Contents(Manifest(CurrentNumber)))}

FileWriting(what, at, f, d, n) ==
    [what |-> what, at |-> at, file |-> f, data |-> d, number |-> n]
At(step) == job' = [job EXCEPT !.at = step]
Resting(n) == FileWriting("none", "idle", Log, <<>>, n)
Stopped == FileWriting("none", "stopped", Log, <<>>, job.number)

FileInit ==
    /\ inode = <<[data |-> Line(1), cached |-> 2, disk |-> 2],
                 [data |-> <<>>, cached |-> 0, disk |-> 0],
                 [data |-> <<>>, cached |-> 0, disk |-> 0]>>
    /\ names = << [f \in {CURRENT, Manifest(1), Log} |->
                     IF f = CURRENT THEN 1 ELSE IF f = Log THEN 3 ELSE 2] >>
    /\ job = Resting(2)
    /\ acked = {}
    /\ promised = [flushed |-> 0, synced |-> 0]
    /\ crashes = 0

Ghosts == <<acked, promised, crashes>>

\* A log record: Append and Flush (log::Writer), Sync when the write asks.
WriteLog ==
    /\ job.at = "idle"
    /\ Len(Contents(Log)) < MaxLog
    /\ job' = FileWriting("log", "append", Log, <<"record">>, job.number)
    /\ UNCHANGED <<inode, names, Ghosts>>

\* BuildTable: a new file, synced and closed before it is recorded.
WriteTable ==
    /\ job.at = "idle"
    /\ job.number < MaxNumber
    /\ job' = FileWriting("table", "new", Ldb(job.number), <<"half", "half">>,
                      job.number)
    /\ UNCHANGED <<inode, names, Ghosts>>

\* What follows each call that succeeded.
AfterAppend == At(IF job.what = "log" THEN "flush" ELSE "sync")

NewFile ==
    /\ job.at = "new"
    /\ NewWritableFile(job.file)
    /\ At("append")
    /\ UNCHANGED Ghosts

AppendFile ==
    /\ job.at = "append"
    /\ AppendData(job.file, job.data)
    /\ AfterAppend
    /\ UNCHANGED Ghosts

FlushFile ==
    /\ job.at = "flush"
    /\ Flush(job.file)
    /\ promised' = [promised EXCEPT !.flushed = Len(Contents(Log))]
    /\ \/ At("sync")
       \/ job' = Resting(job.number)
    /\ UNCHANGED <<acked, crashes>>

SyncFile ==
    /\ job.at = "sync"
    /\ Sync(job.file)
    /\ \/ /\ job.what = "log"
          /\ promised' = [promised EXCEPT !.synced = Len(Contents(Log))]
          /\ job' = Resting(job.number)
          /\ UNCHANGED acked
       \/ /\ job.what = "record"
          /\ acked' = Recorded
          /\ job' = Resting(job.number)
          /\ UNCHANGED promised
       \/ /\ job.what = "manifest"   \* SetCurrentFile
          /\ job' = FileWriting("current", "new", Temp(job.number),
                            Line(job.number), job.number)
          /\ UNCHANGED <<acked, promised>>
       \/ /\ job.what \in {"table", "current"}
          /\ At("close")
          /\ UNCHANGED <<acked, promised>>
    /\ UNCHANGED crashes

\* fclose writes the buffer out.  A closed table is recorded; a closed
\* temporary file becomes CURRENT.
CloseFile ==
    /\ job.at = "close"
    /\ Flush(job.file)
    /\ job' = IF job.what = "table"
              THEN FileWriting("record", "append", Manifest(CurrentNumber),
                           <<job.number>>, job.number + 1)
              ELSE [job EXCEPT !.at = "rename"]
    /\ UNCHANGED Ghosts

SetCurrent ==
    /\ job.at = "rename"
    /\ RenameFile(job.file, CURRENT)
    /\ At("clean")
    /\ UNCHANGED Ghosts

\* DeleteObsoleteFiles: everything CURRENT does not lead to.
Obsolete == DOMAIN Dir \ ({CURRENT, Log, Manifest(CurrentNumber)}
                              \cup {Ldb(n) : n \in Recorded})

Clean ==
    /\ job.at = "clean"
    /\ IF Obsolete = {}
       THEN job' = Resting(job.number + 1) /\ UNCHANGED <<inode, names>>
       ELSE \E f \in Obsolete : EnvDeleteFile(f) /\ UNCHANGED job
    /\ UNCHANGED Ghosts

\* A call fails, fwrite having taken part of the data; the caller deletes
\* the file it was creating, and the database takes no further write.
CallFails ==
    /\ job.at \in {"new", "append", "flush", "sync", "close", "rename"}
    /\ job' = [Stopped EXCEPT !.file = job.file, !.what = job.what,
                              !.at = IF job.what \in {"log", "record"}
                                     THEN "stopped" ELSE "undo"]
    /\ \/ UNCHANGED <<inode, names>>
       \/ /\ job.at = "append"
          /\ AppendData(job.file, SubSeq(job.data, 1, Len(job.data) - 1))
    /\ UNCHANGED Ghosts

UndoFile ==
    /\ job.at = "undo"
    /\ EnvDeleteFile(job.file)
    /\ job' = IF job.what = "current"
              THEN [job EXCEPT !.what = "manifest", !.file = Manifest(job.number)]
              ELSE Stopped
    /\ UNCHANGED Ghosts

-----------------------------------------------------------------------------
Named(d) == {d[f] : f \in DOMAIN d}

\* The files of directory d after a crash: each keeps some prefix between
\* what the crash may not take and what was written; the others are gone.
Survivors(d, kept(_), most(_)) ==
    LET loose == {i \in Named(d) : kept(i) < most(i)}
        length(len, i) == IF i \in loose THEN len[i] ELSE kept(i)
    IN {[i \in DOMAIN inode |->
           LET n == IF i \in Named(d) THEN length(len, i) ELSE 0
           IN [data |-> SubSeq(inode[i].data, 1, n), cached |-> n, disk |-> n]] :
        len \in {l \in [loose -> 0..Max({Len(inode[i].data) : i \in DOMAIN inode})] :
                    \A i \in loose : l[i] \in kept(i)..most(i)}}

Written(i) == Len(inode[i].data)
Cached(i) == inode[i].cached
OnDisk(i) == inode[i].disk

\* The process stops: what left the stdio buffers is there.  Files without a
\* name are not gone yet: a machine that stops later may find an older state
\* of the directory.
ProcessCrash ==
    /\ crashes < MaxCrashes
    /\ \E after \in Survivors(Dir, Cached, Written) :
          inode' = [i \in DOMAIN inode |->
                      IF i \in Named(Dir) THEN [after[i] EXCEPT !.disk = inode[i].disk]
                                          ELSE inode[i]]
    /\ job' = FileWriting("none", "closed", Log, <<>>, 0)
    /\ crashes' = crashes + 1
    /\ UNCHANGED <<names, acked, promised>>

\* The machine stops: one of the directory's states, and the synced data.
MachineCrash ==
    /\ crashes < MaxCrashes
    /\ \E k \in 1..Len(names) :
         /\ inode' \in IF k = Len(names)
                       THEN Survivors(Dir, OnDisk, Written)
                       ELSE Survivors(names[k], OnDisk, OnDisk)
         /\ names' = <<names[k]>>
    /\ promised' = [promised EXCEPT !.flushed = promised.synced]
    /\ job' = FileWriting("none", "closed", Log, <<>>, 0)
    /\ crashes' = crashes + 1
    /\ UNCHANGED acked

\* WriteSnapshot: the new MANIFEST starts with all that is recorded.
Snapshot == Contents(Manifest(CurrentNumber))

\* VersionSet::Recover: ReadFileToString(CURRENT) reads until an empty
\* fragment; a read error fails this Open, not the database.  The next file
\* number comes from the MANIFEST, so a file left by the crash may be
\* created again.
Reopen ==
    /\ job.at = "closed"
    /\ LET n == Max({CurrentNumber} \cup Recorded) + 1
       IN /\ n < MaxNumber
          /\ job' = FileWriting("manifest", "new", Manifest(n), Snapshot, n)
    /\ promised' = [flushed |-> Len(Contents(Log)), synced |-> promised.synced]
    /\ UNCHANGED <<inode, names, acked, crashes>>

FileNext ==
    \/ WriteLog \/ WriteTable
    \/ NewFile \/ AppendFile \/ FlushFile \/ SyncFile \/ CloseFile
    \/ SetCurrent \/ Clean \/ CallFails \/ UndoFile
    \/ ProcessCrash \/ MachineCrash \/ Reopen

FileSpec == FileInit /\ [][FileNext]_fileVars

-----------------------------------------------------------------------------
(***************************************************************************)
(* Whenever the database is to be opened again, CURRENT is a whole line    *)
(* that names an existing MANIFEST, and every table this MANIFEST records  *)
(* exists with all of its data (env_posix.cc:243, filename.cc:134: the     *)
(* temporary file is synced before the rename, the directory before the    *)
(* MANIFEST).                                                              *)
(***************************************************************************)
CurrentLeadsToTheData ==
    job.at = "closed" =>
        /\ Bound(CURRENT)
        /\ Len(Contents(CURRENT)) = 2
        /\ Bound(Manifest(CurrentNumber))
        /\ \A n \in Recorded : Bound(Ldb(n)) /\ Len(Contents(Ldb(n))) = 2

(***************************************************************************)
(* A table whose MANIFEST record was synced is still recorded after any    *)
(* sequence of crashes, whichever MANIFEST is in place by then             *)
(* (PosixWritableFile::Sync, LogAndApply).                                 *)
(***************************************************************************)
SyncedRecordsSurvive ==
    (job.at = "closed" /\ Bound(CURRENT) /\ Bound(Manifest(CurrentNumber)))
        => acked \subseteq Recorded

(***************************************************************************)
(* A log record that was flushed survives the process, one that was synced *)
(* survives the machine (env_posix.cc:208 and :242).                       *)
(***************************************************************************)
LogKeepsItsPromise ==
    job.at = "closed" => Len(Contents(Log)) >= promised.flushed

\* The files keep what the database was promised across crashes.
FilesSurvive ==
  /\ CurrentLeadsToTheData
  /\ SyncedRecordsSurvive
  /\ LogKeepsItsPromise
=============================================================================
