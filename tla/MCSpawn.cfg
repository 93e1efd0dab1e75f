SPECIFICATION FairSpec
CONSTANTS
  Clients = {c1}
  NInstances = 2
  Proxies = {root, q1}
  Root = root
  NoProxy = none
CHECK_DEADLOCK FALSE
INVARIANT NoUseAfterFree
PROPERTY NoOpenTableDestroyed
PROPERTY CloseReturns
PROPERTY PoolsReclaimed
INVARIANT NoDroppedTask
