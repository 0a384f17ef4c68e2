\* Two threads share an object, its user data and its callbacks.
SPECIFICATION FairSpec
CONSTANTS
  Thread = {t1, t2}
  Key = {k1, k2}
  Data = {d1, d2}
  None = None
  MaxRefs = 2
  MaxDepth = 2
INVARIANTS
  DataOwned
  ObjectAlive
  CallbacksUnlocked
PROPERTIES
  EveryCallReturns
