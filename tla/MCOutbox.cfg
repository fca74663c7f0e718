SPECIFICATION Spec
SYMMETRY MCSymmetry
CONSTANTS
  k1 = k1
  k2 = k2
  w1 = w1
  w2 = w2
  p1 = p1
  Keys <- MCKeys2
  GroupOf <- MCGroups2
  Pools <- MCWorkers
  Workers <- MCWorkers
  PoolOf <- MCTwoPools
  Lease = 1
  Batch = 1
  MaxAttempts = 2
  Backoffs = {1}
  Delays = {0}
  CompletedRetention = 0
  DeadRetention = 0
  ReapBatch = 0
  MaxStall = 1
  MaxRows = 2
  MaxTime = 2
  MaxFaults = 1
INVARIANTS
  LeaseExclusive
  LostOnlyByOverrun
  HeadFirst
  GroupSerial
  EndsOnce
  SuspensionStopsDrain
PROPERTY QueueSpec
