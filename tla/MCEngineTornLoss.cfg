CONSTANTS
  Clients = {c1}
  MaxSeq = 1
  MaxTs = 2
  MaxStops = 2
  snap_interval = 2
  CanTear = TRUE
  CallsOnMisread = TRUE
SPECIFICATION Spec
INVARIANTS AckedServed
