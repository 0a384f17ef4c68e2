SPECIFICATION Spec
CONSTANTS
  Blob = {b1, b2, b3}
  Block = {k1, k2}
  Content <- MCContent
  None = None
  MaxHeld = 3
  NumFile = 1
  NumOffsets = 3
  Spoils <- MCSpoils
  MaxOps = 5
  MaxEdits = 1
SYMMETRY Symmetry
INVARIANTS
  ReferencesAccountedFor
  BytesAlive
  AcceptedIsSane
PROPERTIES
  FrozenBytes
CHECK_DEADLOCK FALSE
