SPECIFICATION Spec
CONSTANTS
  NInstances = 3
  MinSplitBytes = 2
  Reads <- SmallReads
INVARIANTS Balanced UnitsReadOnce ListsLeadToElements TypeOK NoWriteRaces
PROPERTIES ReadsAtomically NoWriteAfterReturn
CHECK_DEADLOCK FALSE
