SPECIFICATION RestartSpec
CONSTANTS
  Keys = {k1}
  MaxMsgs = 2
  MaxDeliver = 3
  MaxAckPending = 2
  Kind = "eventhub"
  QueueCap = 2
  FetchBatch = 2
  MaxFaults = 1
  MaxFailures = 2
PROPERTIES EndedWorkerExits EventuallySettled
CHECK_DEADLOCK FALSE
