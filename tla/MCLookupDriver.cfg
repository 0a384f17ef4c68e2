SPECIFICATION FairSpec
CONSTANTS
  N = 4
  MaxLen = 5
  Contexts = {"c1", "c2"}
  MaxContext = 4
  MaxMatch = 3
  MaxRecords = 2
  MaxNesting = 2
  MaxOps = 3
INVARIANTS
  PositionsInText
  PositionsFollowGlyphs
PROPERTIES
  ApplicationsAdvance
  LookupEnds
CHECK_DEADLOCK FALSE
