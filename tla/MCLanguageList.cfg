SPECIFICATION FairSpec
CONSTANTS
  fa = fa
  Fa = Fa
  en = en
  Names <- MCNames
  Tags <- MCTags
  Canon <- MCCanon
  Threads = {t1, t2}
  Items = {i1, i2, i3}
  None = None
INVARIANTS
  NoLanguageTwice
  NothingDangling
PROPERTIES
  EveryCallReturns
CHECK_DEADLOCK FALSE
