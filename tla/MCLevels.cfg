SPECIFICATION CompactionSpec
CONSTANTS
 MaxKey = 3
 MaxSeq = 3
 kNumLevels = 3
 kMaxMemCompactLevel = 1
 kL0_CompactionTrigger = 2
 MaxBytesForLevel1 = 2
 kTargetFileSize = 2
 kMaxGrandParentOverlapBytes = 2
 kExpandedCompactionByteSizeLimit = 5
 MaxFile = 5
 MaxSnapshots = 1
INVARIANTS LevelsDisjoint IteratorSeesNewest GetSeesNewest ManifestIsCurrent InputsStayLive
CHECK_DEADLOCK FALSE
