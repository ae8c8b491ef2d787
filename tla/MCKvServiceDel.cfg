SPECIFICATION Spec
CONSTANTS
  Keys <- TwoKeys
  DelKeys <- DoubleDel
  Scenarios <- DeletingTwo
  IntMax = 7
  MaxConn = 1
  MaxStops = 0
CHECK_DEADLOCK FALSE
INVARIANTS SuppressesOnlyRepeats
