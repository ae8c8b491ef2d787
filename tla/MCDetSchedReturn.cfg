SPECIFICATION Spec
CONSTANTS
  Threads <- MCThreads
  Locks <- MCLocks
  Conds <- MCConds
  Setups <- StrictReturning
  MAXT = 4
  MaxClock = 2
INVARIANTS Deterministic
