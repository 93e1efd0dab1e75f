SPECIFICATION Spec
CONSTANTS
  Clients = {c1, c2}
  MaxInstances = 2
  MaxCalls <- CallBounds
  CallsMade <- UpdatesOfEach
  InitialTables <- SmallTables
  TaqlWriters = {1, 2}
PROPERTY WritesNeedOneInstance
CHECK_DEADLOCK FALSE
