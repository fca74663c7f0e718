SPECIFICATION Spec
CONSTANTS
  u1 = u1  u2 = u2  f1 = f1  p1 = p1  p2 = p2
  Users = {u1, u2}
  Flows = {f1}
  Requests = {p1, p2}
  Base = 1
  Increment = 1
  MaxAttempts = 1
  Lifetime = 2
  MaxTime = 3
  MaxStall = 1
  MaxInterval = 1
  MaxSignIns = 1
  MaxFaults = 1
INVARIANTS OneApprovalOneIssue FencedGetsNothing DevicePolledApart
PROPERTY DecisionStands
SYMMETRY MCSymmetry
CHECK_DEADLOCK FALSE
