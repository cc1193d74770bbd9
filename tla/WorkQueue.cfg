SPECIFICATION FairSpec
CONSTANTS
  Item = {i1, i2, i3}
  Server = {s1, s2, s3}
  destroyer = destroyer
  NULL = NULL
  parallelism = 2
INVARIANTS
  CounterExact
  ItemsOnce
  NoOrphan
  DestroyedClean
PROPERTIES
  Served
  DestroyReturns
