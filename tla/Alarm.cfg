SPECIFICATION FairSpec
CONSTANTS
  Alarms = {a1, a2, a3}
  Seconds = {0, 1, 2, 3}
  NULL = NULL
  MaxTime = 5
INVARIANTS
  SleepsUntilEarliest
PROPERTIES
  IsAlarmClock
  AllPrinted
