SPECIFICATION Spec
CONSTANTS
  a = a
  b = b
  c = c
  Tables = {a, b, c}
  Selections <- Disjoint
  NoData = {c}
  Flusher = FALSE
  Deadline = TRUE
  MaxRetries = 1
  MaxRuns = 3
INVARIANTS MarkedIsLoaded
CHECK_DEADLOCK FALSE
