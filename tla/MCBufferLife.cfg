SPECIFICATION Spec
CONSTANTS
  a = a
  zero = zero
  uninit = uninit
  Codepoints = {a}
  AddCps = {a}
  GlyphIds = {a}
  Replacements <- MCReplacements
  Sources <- MCSources
  ZeroCp = zero
  Uninit = uninit
  ClusterValues = {1, 2}
  MaxBufferLen = 2
  AllocSizes = {0, 2, 3}
  Capacity = 3
PROPERTIES
  ImplementsCursor
CHECK_DEADLOCK FALSE
