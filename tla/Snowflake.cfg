SPECIFICATION Spec
CONSTANTS
  Orders = {TRUE, FALSE}
  MaxEvents = 4
  MaxBatch = 3
  MaxFaults = 2
INVARIANTS CombineFaithful AckedStays RowCurrent
PROPERTIES NoStaleUpdate
CHECK_DEADLOCK FALSE
