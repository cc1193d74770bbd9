SPECIFICATION FairSpec
CONSTANTS
  stages = 2
  Value = {1, 3, 5, 7}
  Collector = {c1}
PROPERTIES
  IsPipeFifo
  ResultReturns
  StartReturns
