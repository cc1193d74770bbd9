SPECIFICATION ListSpec
CONSTANTS
  ListHead = {sched_list, wait_list}
  Item = {n1, n2, n3, n4, n5}
INVARIANT
  LinkedIsReachable
PROPERTIES
  IsFifoLists
  OpsAgree
