SPECIFICATION FairSpec
CONSTANTS
  MaxVersion = 3
  Columns = {"x", "c"}
  IntColumns = {"x"}
  MaxEvents = 3
  Cols <- MCCols
  Configs <- MCConfigs
  MaxBatch = 2
  MaxFaults = 1
INVARIANTS BufferFits RowCurrent HistoryTrue ViewsServeIfCalm
PROPERTIES NothingDropped EventuallySettledAll
CHECK_DEADLOCK FALSE
