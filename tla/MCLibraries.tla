---------------------------- MODULE MCLibraries ----------------------------
(***************************************************************************)
(* The parts leveldb's database is built from, and nanopb, each run by     *)
(* itself on a small instance: part says which, the others rest in an      *)
(* initial state.                                                          *)
(***************************************************************************)
EXTENDS LogFormat, Iterators, Table, LRUCache, MemTable, Arena, PosixFiles,
        PosixEnv, PosixLogger, Repair, Crc32c, VersionEdit, FileNames,
        VersionRefs, CApi, MCPb

CONSTANTS t1, t2, r1, r2, p1, p2

VARIABLE part

\* Constants of the instances.
MCHashOf == [k \in {"a", "b", "c"} |-> CASE k = "a" -> 0 [] k = "b" -> 1 [] k = "c" -> 2]
MCTableKeys == {<<0, 2>>, <<0, 1>>, <<0, 2, 1>>, <<1, 1, 2>>, <<3, 3, 1>>}
MCEditKeys == {<<5>>, <<5, 6>>}
MCJunk == {<<128>>, <<8>>, <<6, 2, 1>>, <<7, 0, 1>>}
MCChunks == LET byte(k) == <<0..7, {}, {3, 5}, {7}, {0}>>[(k % 5) + 1]
            IN {[i \in 1..n |-> byte(i * m)] : n \in {0, 1, 2, 3, 4, 7, 11}, m \in {1, 2}}

Parts == {"log", "iterator", "table", "cache", "memtable", "arena", "files", "env",
          "logger", "repair", "crc", "edit", "names", "refs", "capi", "nanopb"}

-----------------------------------------------------------------------------
\* Parts with several initial states rest in one of them.
IterRests == /\ memtable = {} /\ table = <<>> /\ snapshot = IterEntries
             /\ iterator = NewDBIter /\ at = 0 /\ scan = FALSE
TableRests == /\ builder = NewBuilder([blockSize |-> CHOOSE b \in BlockSizes : TRUE,
                                       interval |-> CHOOSE i \in Intervals : TRUE, filter |-> FALSE])
              /\ addedKeys = <<>> /\ damage = NoDamage /\ cursor = NoCursor /\ place = 0
RepairRests == /\ dir = [f \in {Name("MANIFEST", 1)} |-> {}] /\ lost = Archived /\ rep = NewRepairer
               /\ original = {} /\ failures = 0 /\ stops = 0
PbRests == /\ type = 1 /\ msg = <<>> /\ more = <<>> /\ stage = "wire" /\ wire = <<>>
           /\ room = 0 /\ mishap = "none" /\ result = IStream(<<>>, 0, TRUE)

LibrariesInit ==
    /\ part \in Parts
    /\ LogInit /\ CacheInit /\ MemInit /\ ArenaInit /\ FileInit /\ EnvInit /\ LoggerInit
    /\ CrcInit /\ EditInit /\ NamesInit /\ RefInit /\ CApiInit
    /\ IF part = "iterator" THEN IterInit ELSE IterRests
    /\ IF part = "table" THEN TableInit ELSE TableRests
    /\ IF part = "repair" THEN RepairInit ELSE RepairRests
    /\ IF part = "nanopb" THEN PbInit ELSE PbRests

\* The variables of all parts but one.
codeVars == <<crcVars, editVars, nameVars, loggerVars, capiVars, pbVars>>
diskVars == <<logVars, tableVars, fileVars, repairVars>>
coreVars == <<iterVars, cacheVars, memVars, arenaVars, envVars, refVars>>

LibrariesNext ==
    \/ /\ part = "log" /\ LogNext
       /\ UNCHANGED <<part, tableVars, fileVars, repairVars, codeVars, coreVars>>
    \/ /\ part = "table" /\ TableNext
       /\ UNCHANGED <<part, logVars, fileVars, repairVars, codeVars, coreVars>>
    \/ /\ part = "files" /\ FileNext
       /\ UNCHANGED <<part, logVars, tableVars, repairVars, codeVars, coreVars>>
    \/ /\ part = "repair" /\ RepairNext
       /\ UNCHANGED <<part, logVars, tableVars, fileVars, codeVars, coreVars>>
    \/ /\ part = "iterator" /\ IterNext
       /\ UNCHANGED <<part, diskVars, codeVars, cacheVars, memVars, arenaVars, envVars, refVars>>
    \/ /\ part = "cache" /\ CacheNext
       /\ UNCHANGED <<part, diskVars, codeVars, iterVars, memVars, arenaVars, envVars, refVars>>
    \/ /\ part = "memtable" /\ MemNext
       /\ UNCHANGED <<part, diskVars, codeVars, iterVars, cacheVars, arenaVars, envVars, refVars>>
    \/ /\ part = "arena" /\ ArenaNext
       /\ UNCHANGED <<part, diskVars, codeVars, iterVars, cacheVars, memVars, envVars, refVars>>
    \/ /\ part = "env" /\ EnvNext
       /\ UNCHANGED <<part, diskVars, codeVars, iterVars, cacheVars, memVars, arenaVars, refVars>>
    \/ /\ part = "refs" /\ RefNext
       /\ UNCHANGED <<part, diskVars, codeVars, iterVars, cacheVars, memVars, arenaVars, envVars>>
    \/ /\ part = "crc" /\ CrcNext
       /\ UNCHANGED <<part, diskVars, coreVars, editVars, nameVars, loggerVars, capiVars, pbVars>>
    \/ /\ part = "edit" /\ EditNext
       /\ UNCHANGED <<part, diskVars, coreVars, crcVars, nameVars, loggerVars, capiVars, pbVars>>
    \/ /\ part = "names" /\ NamesNext
       /\ UNCHANGED <<part, diskVars, coreVars, crcVars, editVars, loggerVars, capiVars, pbVars>>
    \/ /\ part = "logger" /\ LoggerNext
       /\ UNCHANGED <<part, diskVars, coreVars, crcVars, editVars, nameVars, capiVars, pbVars>>
    \/ /\ part = "capi" /\ CApiNext
       /\ UNCHANGED <<part, diskVars, coreVars, crcVars, editVars, nameVars, loggerVars, pbVars>>
    \/ /\ part = "nanopb" /\ PbNext
       /\ UNCHANGED <<part, diskVars, coreVars, crcVars, editVars, nameVars, loggerVars, capiVars>>
=============================================================================
