SPECIFICATION Spec
CONSTANTS
  s1 = s1
  s2 = s2
  Sets = {s1, s2}
  Codepoints <- MCCodepoints
  Ranges <- MCRanges
  PageBits = 1
  Step = 1
  Capacities = {0, 2}
  MaxFailed = 1
SYMMETRY MCSymmetry
INVARIANTS
  PopulationIsNumberOfNumbers
CHECK_DEADLOCK FALSE
