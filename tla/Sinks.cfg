SPECIFICATION Spec
CONSTANTS
  Keys = {k1, k2}
  k1 = k1
  k2 = k2
  Paths = {p1}
  p1 = p1
  NoPath = NoPath
  UploadTasks = 2
  ImportBatch = 2
  MaxBatch = 3
  MaxMsgs = 4
  MaxSecond = 2
  MaxFaults = 1
INVARIANTS AckedStored NewestLast ObjectNewest
PROPERTIES ImplementsPromise
CHECK_DEADLOCK FALSE
