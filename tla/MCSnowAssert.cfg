SPECIFICATION Spec
CONSTANTS
  Thread = {main, t1}
  main = main
  idle = idle
  Sem = {}
  Mutex = {m}
  UTimer = {}
  sched_list = sched_list
  timer_list = timer_list
  NULL = NULL
  TickUs = 2
  SchedUs = 1
  UINT_MAX = 50
  ULLONG_MAX = 7
  SleepUs = {}
  WaitUs = {50}
  TimerUs = {}
  SemInit = 0
  MaxCount = 1
  MaxDepth = 1
PROPERTIES
  MutexPutAssert
