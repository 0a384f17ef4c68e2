SPECIFICATION Spec
CONSTANTS
  Values = {0, 1}
  FirstSize = 2
  Extra = 1
  MaxSize = 4
  MaxOffset = 2
  MaxDepth = 3
  MaxHeld = 1
  MaxFailed = 1
INVARIANTS
  AssertsHold
  SharingExact
  LinksToPacked
  TableReadsBack
CHECK_DEADLOCK FALSE
