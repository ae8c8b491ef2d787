CONSTANTS
  Clients = {c1, c2}
  MaxSeq = 2
  MaxTs = 2
  MaxStops = 2
  snap_interval = 2
  CanTear = TRUE
  CallsOnMisread = FALSE
SPECIFICATION FairSpec
INVARIANTS TypeOK RecoveryInv ServesDurableOrder AckedRecoverable ExactlyOnce TimestampsIncrease ReplayBounded
PROPERTIES EventuallyReady ImplementsService
