SPECIFICATION PoolSpec
CONSTANTS
  w1 = w1  w2 = w2
  A = A  B = B  e1 = e1  e2 = e2
  Workers = {w1, w2}
  Calls = {1, 2, 3, 4, 5}
  KeyOf <- MCKeyOf
  PerEnv = 2
  PerTenant = 2
  Global = 4
  MaxFaults = 2
INVARIANT ShedForOwnFill
PROPERTIES NoHeadOfLine EveryWaitEnds
CHECK_DEADLOCK FALSE
