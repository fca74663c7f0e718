SPECIFICATION Spec
CONSTANTS
  w1 = w1  w2 = w2
  Workers = {w1}
  Users = {2, 3}
  Groups = {1}
  Members <- Everyone
  Limit = 2
  MaxEvents = 2
  MaxFaults = 1
  MaxFailures = 4
INVARIANT CaughtUpIsSynced
PROPERTY EventuallyCaughtUp
CHECK_DEADLOCK FALSE
