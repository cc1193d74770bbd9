SPECIFICATION MainSpec
CONSTANTS
  Thread = {0, 1, 2, 3}
  THREADS = 4
  Rounds = 6
  INLOOPS = 2
INVARIANTS
  Together
  OneSerial
  SerialAlone
  FinalValues
PROPERTIES
  Terminates
