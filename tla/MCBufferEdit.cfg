SPECIFICATION EditSpec
CONSTANTS
  a = a
  zero = zero
  uninit = uninit
  Codepoints = {a}
  AddCps = {a}
  GlyphIds = {a}
  Replacements <- MCReplacements
  Sources <- MCSources
  ZeroCp = zero
  Uninit = uninit
  ClusterValues = {1, 2}
  MaxBufferLen = 3
  AllocSizes = {0, 2, 4}
  Capacity = 4
INVARIANTS
  BufferInv
  FlagsAnnounced
PROPERTIES
  ClustersStayMonotone
  LeastClusterSurvives
  CursorSteps
CHECK_DEADLOCK FALSE
