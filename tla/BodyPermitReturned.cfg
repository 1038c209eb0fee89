SPECIFICATION Spec
CONSTANTS
  r1 = r1
  r2 = r2
  r3 = r3
  r4 = r4
  r5 = r5
  Requests <- ThreeRequests
  Size <- MCSize
  MaxConcurrency = 2
  MaxQueueBytes = 3
  MaxQueueRequests = 2
  PoolThreads = 1
  StackLimit = 1
  NoRequest = NoRequest
INVARIANTS
  BodyPermitsReturned
\* Every download may be answered: then nothing is left to do.
CHECK_DEADLOCK FALSE
