SPECIFICATION FairSpec
CONSTANTS
  KeepLogs = FALSE
  MaxSessions = 2
  MaxTicks = 3
  MaxFaults = 1
INVARIANTS LineKept UploadsGoHome RefusedOnlyAfterFault
PROPERTIES SessionTurnsOver
CHECK_DEADLOCK FALSE
