SPECIFICATION Spec
SYMMETRY MCSymmetry
VIEW ReadState
CONSTANTS
  u1 = u1
  u2 = u2
  s1 = s1
  s2 = s2
  g1 = g1
  c1 = c1
  p1 = p1
  p2 = p2
  NONE = NONE
  Users = {u1, u2}
  Sessions = {s1, s2}
  Clients = {c1}
  Grants = {g1}
  ClientOf <- MCOneClient
  Procs = {p1, p2}
  MaxTokens = 3
  Grace = 1
  CodeGrace = 0
  MaxTime = 1
  MaxLapses = 1
  Fates = {"fenced"}
  Kills = {TRUE}
CHECK_DEADLOCK FALSE
INVARIANTS
  NoOrphan
  SameSubject
  EventPerEnd
  SingleLeaf
  CodeOnce
  ReuseOnce
