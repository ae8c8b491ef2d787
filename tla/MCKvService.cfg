SPECIFICATION FairSpec
CONSTANTS
  Keys <- OneKey
  DelKeys <- OneKeyDel
  Scenarios <- Serving
  IntMax = 7
  MaxConn = 2
  MaxStops = 1
CHECK_DEADLOCK FALSE
INVARIANTS TypeOK SuppressesOnlyRepeats TimestampsStrict PublicationsKept SubscribersComplete TransactionsHidden AckedWritesDurable
PROPERTIES ImplementsService EventuallyAnswered EventuallyStopped
