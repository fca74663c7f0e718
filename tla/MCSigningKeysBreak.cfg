SPECIFICATION Spec
CONSTANTS
  j1 = j1  j2 = j2  n1 = n1  n2 = n2  r1 = r1
  Jobs = {j1}
  Nodes = {n1}
  Parties = {r1}
  Cadence = 5
  Lead = 4
  Lifetime = 1
  Buffer = 3
  EntryTtl = 2
  CacheTtl = 1
  AdminScale = 1000
  MaxStall = 1
  MaxKeys = 3
  MaxBreaks = 1
  MaxTime = 10
INVARIANT BreakGlassWithdraws
CHECK_DEADLOCK FALSE
