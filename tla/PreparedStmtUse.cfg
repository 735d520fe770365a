SPECIFICATION LiveSpec
CONSTANTS
  c1 = c1
  c2 = c2
  c3 = c3
  p1 = p1
  p2 = p2
  Calls = {c1, c2, c3}
  Closers = {p1, p2}
CHECK_DEADLOCK FALSE
INVARIANTS
  NotDeletedInUse
  ActiveCountsCalls
PROPERTIES
  CloseReturns
