SPECIFICATION FairSpec
CONSTANTS
  m1 = m1
  m2 = m2
  Monitors <- TwoMonitors
  Word = 16
  CPUs = 2
  Loads <- Workload
  Inactive = 1
  MaxTime = 4
  MaxEvents = 2
  None = None
INVARIANTS
  RowsBelievable
  RatesTrue
  HeaderOnce
  TornLineIsLast
PROPERTIES
  StopsOnSignal
CHECK_DEADLOCK FALSE
