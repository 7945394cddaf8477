SPECIFICATION Spec
CONSTANTS
  r1 = r1
  r2 = r2
  r3 = r3
  r4 = r4
  a = a
  b = b
  NoRequest = NoRequest
  Requests <- MCRequests
  Isolates <- MCIsolates
  IsolateOf <- MCIsolateOf
  Limit = 2
  Window = 2
  MaxTime = 2
SYMMETRY MCSymmetry
INVARIANTS
  ServedInOrder
  IsolateNeverExceedsLimit
  NobodyStranded
CHECK_DEADLOCK FALSE
