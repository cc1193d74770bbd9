SPECIFICATION FairSpec
CONSTANTS
  CLIENT_THREADS = 3
  WRITES = 2
  LINES = 2
INVARIANTS
  RequestLives
  AllWritten
PROPERTIES
  MainReturns
