SPECIFICATION LiveSpec
CONSTANTS
  a = a
  b = b
  c = c
  Tables = {a, b}
  Selections <- Overlapping
  NoData = {}
  Flusher = TRUE
  Deadline = FALSE
  MaxRetries = 1
  MaxRuns = 3
INVARIANTS MarkedIsLoaded SuccessMeansLoaded NoSilentGiveUp CutoffNotAhead
PROPERTIES DoneUndisturbed RecallMinimal RunEnds
CHECK_DEADLOCK FALSE
