SPECIFICATION FairSpec
CONSTANTS
  Clients = {c1}
  NInstances = 2
  Proxies = {root, q1, q2}
  Root = root
  NoProxy = none
PROPERTY CloseReturns
CHECK_DEADLOCK FALSE
