SPECIFICATION LiveSpec
CONSTANTS
  Workers = {w1, w2}
  w1 = w1
  w2 = w2
  MaxFailures = 2
  MaxCtl = 2
  MaxFaults = 3
INVARIANTS OneStream PauseHolds
PROPERTIES ShutdownCompletes 
CHECK_DEADLOCK FALSE
