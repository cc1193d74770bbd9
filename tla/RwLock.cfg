SPECIFICATION FairSpec
CONSTANTS
  Thread = {t1, t2, t3, t4}
  Cancellable = {t1, t2, t3, t4}
INVARIANTS
  LockInv
  ReadersAwake
  NoStranded
PROPERTIES
  LockProgress
