SPECIFICATION Spec
CONSTANTS
  c1 = c1  t1 = t1  e1 = e1  l1 = l1  f1 = f1  p1 = p1
  Sessions = {1, 2}
  Clients = {c1}
  Streams = {t1}
  Workers = {e1, l1, f1, p1}
  Serves <- OneEach
  Ceiling = 1
  Last = 4
  MaxEdits = 1
  MaxFaults = 1
INVARIANTS NoLogoutLost OneToken NoSignalLost
PROPERTY EventuallyTold
CHECK_DEADLOCK FALSE
