SPECIFICATION Spec
CONSTANTS
  r1 = r1
  Readers = {r1}
  Limit = 1
  MaxRows = 3
  MaxXid = 3
INVARIANTS EventsInCommitOrder Accounted
PROPERTY EventuallyPassed
CHECK_DEADLOCK FALSE
