SPECIFICATION Spec
CONSTANTS
  Keys = {k1}
  MaxMsgs = 2
  MaxDeliver = 2
  MaxAckPending = 2
  Kind = "sql"
  QueueCap = 2
  FetchBatch = 2
  MaxFaults = 1
INVARIANTS TableCurrent
CHECK_DEADLOCK FALSE
