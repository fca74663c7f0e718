SPECIFICATION LiveSpec
CONSTANTS
  k1 = k1
  k2 = k2
  w1 = w1
  w2 = w2
  p1 = p1
  Keys <- MCKeys2
  GroupOf <- MCGroups2
  Pools = {p1}
  Workers <- MCOneWorker
  PoolOf <- MCAlone
  Lease = 1
  Batch = 2
  MaxAttempts = 2
  Backoffs = {1}
  Delays = {0}
  CompletedRetention = 1
  DeadRetention = 0
  ReapBatch = 1
  MaxStall = 0
  MaxRows = 2
  MaxTime = 6
  MaxFaults = 1
PROPERTIES
  EventuallyEnds
  ShutdownEnds
  NothingDropped
