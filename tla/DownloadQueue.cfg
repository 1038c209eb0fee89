SPECIFICATION FairSpec
CONSTANTS
  r1 = r1
  r2 = r2
  r3 = r3
  r4 = r4
  r5 = r5
  Requests <- FiveRequests
  Size <- MCSize
  MaxConcurrency = 2
  MaxQueueBytes = 3
  MaxQueueRequests = 2
  PoolThreads = 1
  StackLimit = 1
  NoRequest = NoRequest
CONSTRAINT Arrivals
INVARIANTS
  TypeOK
  PermitsConserved
  SlotsConserved
  BytesConserved
  QueueWithinLimit
  EntryHasOneFate
  NestedDrainIsNoop
  NoLostWakeup
PROPERTIES
  ImplementsService
  EveryRequestAnswered
\* Every download may be answered: then nothing is left to do.
CHECK_DEADLOCK FALSE
