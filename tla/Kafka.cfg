SPECIFICATION FairSpec
CONSTANTS
  r1 = r1
  r2 = r2
  Keys = {r1, r2}
  Hash <- MCHash
  Parts = 2
  MaxParts = 3
  SelfFlush = 2
  MaxBatch = 3
  MaxMsgs = 4
  MaxFaults = 2
INVARIANTS LostOnlyByDeadline OnePartitionPerKey NewestLast
PROPERTIES EventuallySettled
CHECK_DEADLOCK FALSE
