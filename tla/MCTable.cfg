SPECIFICATION FairSpec
CONSTANTS
  Clients = {c1, c2}
  MaxInstances = 2
  MaxCalls <- CallBounds
  CallsMade <- CallsOfEach
  InitialTables <- SmallTables
  TaqlWriters = {1}
INVARIANT NoColumnTooShort
PROPERTIES TakesEffectAtOnce CallsReturn
CHECK_DEADLOCK FALSE
