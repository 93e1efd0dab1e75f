SPECIFICATION Spec
CONSTANTS
  NArrays = 2
  NaN = NaN
  MaxPartitions = 2
  MaxRows = 2
  MaxValue = 1
  Inputs <- SmallInputs
INVARIANTS OutputSorted MergesEachRowOnce
CHECK_DEADLOCK FALSE
