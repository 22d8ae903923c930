SPECIFICATION Spec
CONSTANTS
  Keys = {k1}
  MaxMsgs = 3
  MaxDeliver = 2
  MaxAckPending = 2
  Kind = "sql"
  QueueCap = 2
  FetchBatch = 2
  MaxFaults = 2
INVARIANTS HandoffInOrder NeverStranded DrainLeavesNothing
PROPERTY ImplementsPromise
CHECK_DEADLOCK FALSE
