SPECIFICATION Spec
CONSTANTS
  Base = 5
  Inputs <- MCInputs
  Kinds <- MCKinds
  snap_interval = 2
  MaxTimeouts = 1
INVARIANTS KilledRecovers
