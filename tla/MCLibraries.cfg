CONSTANTS
  kBlockSize = 7
  kHeaderSize = 3
  RecordSize = {0, 2, 5}
  MaxRecords = 3
  InitialOffset = {0, 6, 9}
  IterKeys = 2
  IterEntries = 3
  IterWrites = 1
  MaxByte = 3
  MaxTag = 9
  HashHalf = 8
  BitsPerKey = 2
  MinBits = 4
  ByteBits = 4
  Probes = 2
  TableKeys <- MCTableKeys
  MaxEntries = 3
  MaxChanges = 1
  BlockSizes = {12}
  Intervals = {1, 2}
  FilterBase = 8
  DamageKinds = {"structure", "key", "value", "type", "crc"}
  t1 = t1
  t2 = t2
  r1 = r1
  r2 = r2
  p1 = p1
  p2 = p2
  Threads = {t1, t2}
  CacheKeys = {"a", "b", "c"}
  HashOf <- MCHashOf
  Charges = {1, 2}
  Capacity = 2
  InitialLength = 1
  UserKeys = {1, 2}
  MaxSequence = 2
  MaxBatch = 2
  MaxHeight = 2
  ArenaBlock = 16
  Align = 4
  Sizes = {1, 3, 4, 5}
  MaxAllocs = 5
  MaxNumber = 5
  MaxCrashes = 2
  MaxLog = 1
  Readers = {r1, r2}
  Processes = {p1, p2}
  MmapLimit = 1
  MaxJobs = 2
  Pieces = {"good", "bad", "mangled"}
  RepairCrashes = 1
  RepairFailures = 2
  Chunks <- MCChunks
  MaxChunks = 2
  Bits32 = 10
  Bits64 = 16
  EditNumbers = {1, 2000}
  EditKeys <- MCEditKeys
  EditLevels = 2
  MaxCalls = 2
  Junk <- MCJunk
  kMaxUint64 = 25
  MinDigits = 2
  MaxDigits = 3
  RefReaders = {r1, r2}
  MaxVersions = 3
  MaxFiles = 2
  MaxFileNumber = 2
  MaxStrings = 3
  MaxHandles = 1
  MaxOutcomes = 5
  SmallBuffer = 4
  LargeBuffer = 8
  MaxLine = 10
  Bits <- MCBits
  Fixed32 = 2
  Fixed64 = 3
  WordBits = 2
  SkipChunk = 2
  MessageTypes <- MCTypes
  Unknown <- MCUnknown
  RawBytes = {0, 8, 10, 18, 2, 130, 200}
  MaxRaw = 4
  MaxSize = 1000
INIT LibrariesInit
NEXT LibrariesNext
CHECK_DEADLOCK FALSE
INVARIANTS
  LogReadsBack
  IteratorIsRight
  TableIsRight
  CacheIsRight
  MemTableIsRight
  ObjectsAreDisjoint
  FilesSurvive
  SharedEnvIsSafe
  LinesAreWhole
  RepairLosesNothing
  ChecksumsTellDamage
  EditsDecode
  NamesAreUnambiguous
  ReferencesAreRight
  CallersKnow
  MessagesArriveWhole
