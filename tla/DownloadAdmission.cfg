SPECIFICATION FairAdmissionSpec
CONSTANTS
  c1 = c1
  c2 = c2
  c3 = c3
  alice = alice
  proxy = proxy
  NoHeader = NoHeader
  Calls <- MCCalls
  Threads <- MCCalls
  Clients <- MCClients
  Forwarded <- MCForwarded
  Remote <- MCRemote
  MaxRequests = 1
  WindowMillis = 2
  MaxTime = 4
  MaxBytes = 2
  Sizes <- MCSizes
INVARIANTS
  WithinBudget
  WindowBound
  RefusalJustified
PROPERTIES
  WindowsApart
  SomeCallReturns
  ImplementsByteBudget
\* The clock stops, and every download comes to its end.
CHECK_DEADLOCK FALSE
