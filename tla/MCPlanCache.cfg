SPECIFICATION FairSpec
CONSTANTS
  Threads = {t1, t2}
  Keys = {k1, k2, k3}
  Shapeless = {k3}
  Nodes = {n1, n2}
  Plans = {p1, p2, p3}
  Empty = Empty
  None = None
INVARIANTS
  NoKeyCachedTwice
  NoNodeLost
  ReferencesAccountedFor
  NothingDangling
PROPERTIES
  ImplementsMemo
  EveryCallReturns
CHECK_DEADLOCK FALSE
