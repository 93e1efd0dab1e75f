SPECIFICATION FairSpec
CONSTANTS
  Clients = {c1, c2}
  NInstances = 2
  Costs = {1, 2}
  MaxTasks = 3
INVARIANT TypeOK
INVARIANT LoadIsOutstandingWork
INVARIANT NoNegativeLoad
INVARIANT ChoosesLeastLoaded
CHECK_DEADLOCK FALSE
PROPERTY LoadsReturnToZero
