SPECIFICATION Spec
CONSTANTS
  Thread = {main, t1, t2}
  main = main
  idle = idle
  Sem = {s}
  Mutex = {m}
  UTimer = {}
  sched_list = sched_list
  timer_list = timer_list
  NULL = NULL
  TickUs = 2
  SchedUs = 1
  UINT_MAX = 50
  ULLONG_MAX = 9
  SleepUs = {}
  WaitUs = {0, 50}
  TimerUs = {}
  SemInit = 0
  MaxCount = 2
  MaxDepth = 2
SYMMETRY Symmetry
INVARIANTS
  TypeOK
  MutexOwnership
  NoLostWakeup
