SPECIFICATION Spec
CONSTANTS
  k1 = k1
  k2 = k2
  k3 = k3
  k4 = k4
  k5 = k5
  k6 = k6
  Keys <- MCKeys
  Values = {v, w}
  ContentOf <- MCContentOf
  HashOf <- MCHashOf
  None = None
  Slack = 1
  Width = 6
  MinPopulation = 0
  MaxPopulation = 6
  MaxMallocs = 2
INVARIANTS
  OneSlotPerContent
  SearchEnds
PROPERTIES
  ImplementsMap
CHECK_DEADLOCK FALSE
SYMMETRY MCSymmetry
