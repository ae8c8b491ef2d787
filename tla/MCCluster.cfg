SPECIFICATION FairSpec
CONSTANTS
  IntMax = 7
  replicas = 2
  clients = 2
  ops_per_client = 2
  keys = 2
  crash_after = 1
  MaxFaults = 1
INVARIANTS TypeOK Agreement ReportsSuccess VictimNeverOvercounts
PROPERTIES TakesNothingBack EventuallyReported
