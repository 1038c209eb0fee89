SPECIFICATION Spec
CONSTANTS
  tool = tool
  loader = loader
  other = other
  Runs <- ThreeRuns
  Loaders <- Benchmarks
  Seeds <- TwoSeeds
  FileCount = 2
  Size = 2
INVARIANTS
  ListedAsStored
  SharedDirectory
  PreparedIsReused
\* When every run has ended or died, nothing is left to do.
CHECK_DEADLOCK FALSE
