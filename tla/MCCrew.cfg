SPECIFICATION FairSpec
CONSTANTS
  Worker = {w1, w2, w3}
  Client = {"first", "second"}
  Root <- MCRoot
  Entries <- MCEntries
  Dir = {"top", "sub"}
INVARIANTS
  CountExact
  StartComplete
PROPERTIES
  StartReturns
