SPECIFICATION Spec
CONSTANTS
  Keys <- OneKey
  DelKeys <- OneKeyDel
  Scenarios <- FailingBlind
  IntMax = 7
  MaxConn = 1
  MaxStops = 0
CHECK_DEADLOCK FALSE
INVARIANTS AckedWritesDurable
