SPECIFICATION FairSpec
CONSTANTS
  Threads <- MCThreads
  Locks <- MCLocks
  Conds <- MCConds
  Setups <- StrictHolding
  MAXT = 4
  MaxClock = 2
PROPERTIES Finishes
