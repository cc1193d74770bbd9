SPECIFICATION FairSpec
CONSTANTS
  Thread = {main, t1}
  main = main
  idle = idle
  Sem = {}
  Mutex = {}
  UTimer = {x}
  sched_list = sched_list
  timer_list = timer_list
  NULL = NULL
  TickUs = 2
  SchedUs = 1
  UINT_MAX = 50
  ULLONG_MAX = 14
  SleepUs = {3}
  WaitUs = {}
  TimerUs = {1, 3}
  SemInit = 0
  MaxCount = 1
  MaxDepth = 1
INVARIANTS
  NoSelfWake
PROPERTIES
  ReadyRuns
  SleeperRuns
