SPECIFICATION Spec
CONSTANTS
  w1 = w1  w2 = w2
  Workers = {w1, w2}
  Users = {2, 3}
  Groups = {1}
  Members <- Everyone
  Limit = 1
  MaxEvents = 2
  MaxFaults = 0
  MaxFailures = 2
SYMMETRY Replicas
VIEW ReadState
INVARIANTS NoEventLost BackfillSkipsNobody
PROPERTY CursorNeverBack
CHECK_DEADLOCK FALSE
