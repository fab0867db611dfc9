SPECIFICATION DBSpec
CONSTANTS
 Plans <- MCPlans
 MaxFile = 10
 paranoid_checks = TRUE
 SilentFaults = FALSE
 WriteBuffer = 0
 MaxGroup = 2
 kL0_CompactionTrigger = 1
 kL0_SlowdownWritesTrigger = 2
 kL0_StopWritesTrigger = 2
INVARIANTS AcknowledgedSurvives NeededFilesExist ReaderSeesItsSnapshot WritesAreSerial AlwaysRecoverable
CHECK_DEADLOCK FALSE
PROPERTIES CallsReturn RefinesAtomicStore
