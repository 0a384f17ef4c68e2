SPECIFICATION FairSpec
CONSTANTS
  Threads = {t1, t2, t3}
  Objects = {o1, o2, o3}
  Null = Null
  None = None
INVARIANTS
  OneObject
  ObjectsOwned
PROPERTIES
  EveryGetReturns
CHECK_DEADLOCK FALSE
