SPECIFICATION Spec
CONSTANTS
  a = a
  b = b
  c = c
  Tables = {a, b}
  Selections <- Full
  NoData = {}
  Flusher = TRUE
  Deadline = FALSE
  MaxRetries = 1
  MaxRuns = 2
INVARIANTS CutoffsComplete
CHECK_DEADLOCK FALSE
