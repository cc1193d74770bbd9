SPECIFICATION TimelySpec
CONSTANTS
  Thread = {main, t1}
  main = main
  idle = idle
  Sem = {s}
  Mutex = {m}
  UTimer = {x}
  sched_list = sched_list
  timer_list = timer_list
  NULL = NULL
  TickUs = 2
  SchedUs = 1
  UINT_MAX = 50
  ULLONG_MAX = 7
  SleepUs = {1}
  WaitUs = {3, 50}
  TimerUs = {1}
  SemInit = 0
  MaxCount = 1
  MaxDepth = 1
INVARIANTS
  ListInv
  ThreadPlaced
  TimersSorted
PROPERTIES
  IsRoundRobin
