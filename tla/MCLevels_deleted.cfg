SPECIFICATION CompactionSpec
CONSTANTS
 MaxKey = 3
 MaxSeq = 3
 kNumLevels = 3
 kMaxMemCompactLevel = 1
 kL0_CompactionTrigger = 2
 MaxBytesForLevel1 = 2
 kTargetFileSize = 2
 kMaxGrandParentOverlapBytes = 2
 kExpandedCompactionByteSizeLimit = 5
 MaxFile = 6
 MaxSnapshots = 1
INVARIANT DeletedStaysDeleted
CHECK_DEADLOCK FALSE
