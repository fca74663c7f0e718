SPECIFICATION Spec
SYMMETRY MCSymmetry
CONSTANTS
  r1 = r1  k1 = k1  w1 = w1  w2 = w2  o1 = o1
  Recipients = {r1}
  Kinds = {k1}
  MessageIds = {1, 2}
  Workers = {w1, w2}
  Operators = {o1}
  Providers = 2
  Limit = 1
  Window = 2
  DedupWindow = 1
  MaxStall = 1
  MaxResends = 1
  Last = 3
  MaxTime = 2
  MaxFaults = 1
INVARIANTS OneMailAsRecorded PendingIsQueued RateHolds
CHECK_DEADLOCK FALSE
