SPECIFICATION Spec
CONSTANTS
  r1 = r1
  r2 = r2
  r3 = r3
  r4 = r4
  Requests <- TwoRequests
  Size <- OneLarger
  MaxConcurrency = 2
  MaxInFlightBytes = 2
  MaxQueueBytes = 2
  MaxQueueRequests = 1
  StackLimit = 2
  NoRequest = NoRequest
INVARIANTS
  EveryPermitReturned
CHECK_DEADLOCK FALSE
