SPECIFICATION FairSpec
CONSTANTS
  t1 = t1
  t2 = t2
  t3 = t3
  t4 = t4
  Task <- MCTask
  Concurrency = 2
PROPERTIES
  NoOvertaking
  EveryCallSettles
  PoolRefined
CHECK_DEADLOCK FALSE
