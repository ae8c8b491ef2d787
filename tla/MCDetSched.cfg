SPECIFICATION FairSpec
CONSTANTS
  Threads <- MCThreads
  Locks <- MCLocks
  Conds <- MCConds
  Setups <- StrictAndBounded
  MAXT = 4
  MaxClock = 2
INVARIANTS TypeOK Deterministic OneTurn
PROPERTIES Finishes
