SPECIFICATION FairSpec
CONSTANTS
  r1 = r1
  r2 = r2
  r3 = r3
  r4 = r4
  Requests <- FourRequests
  Size <- TooLarge
  MaxConcurrency = 2
  MaxInFlightBytes = 2
  MaxQueueBytes = 5
  MaxQueueRequests = 2
  StackLimit = 1
  NoRequest = NoRequest
CONSTRAINT Arrivals
INVARIANTS
  PermitsConserved
  ReservationsConserved
  UploadHasOneFate
  NoLostWakeup
PROPERTIES
  FirstComeFirstServed
  EveryRequestAnswered
\* Every request may be answered: then nothing is left to do.
CHECK_DEADLOCK FALSE
