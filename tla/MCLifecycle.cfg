SPECIFICATION FairSpec
CONSTANTS
  Clients = {c1, c2}
  NInstances = 2
  Proxies = {root}
  Root = root
  NoProxy = none
INVARIANT TypeOK
INVARIANT NoUseAfterFree
INVARIANT NoDroppedTask
INVARIANT TableOpenWhileRunning
INVARIANT EarlyTasksServed
INVARIANT ClosedMeansClosed
PROPERTY NoOpenTableDestroyed
CHECK_DEADLOCK FALSE
PROPERTY CallsReturn
PROPERTY CloseReturns
PROPERTY PoolsReclaimed
