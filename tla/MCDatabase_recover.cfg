SPECIFICATION DBSpec
CONSTANTS
 Plans <- RecoverPlans
 MaxFile = 10
 paranoid_checks = TRUE
 SilentFaults = TRUE
 WriteBuffer = 0
 MaxGroup = 2
 kL0_CompactionTrigger = 1
 kL0_SlowdownWritesTrigger = 2
 kL0_StopWritesTrigger = 2
INVARIANT AcknowledgedSurvives
CHECK_DEADLOCK FALSE
