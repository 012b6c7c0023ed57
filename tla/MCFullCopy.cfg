SPECIFICATION FairSpec
CONSTANTS
  k1 = k1
  k2 = k2
  k3 = k3
  k4 = k4
  Keys = {k1, k2, k3, k4}
  Databases = 2
  DatabaseOf <- MCDatabaseOf
  MaxPipeline = 2
  WireSize = 1
  ReplySize = 1
  SingleLoop = FALSE
  MaxStream = 2
  SlaveLogs = TRUE
  Stocks <- MCStocks
  Written = {k1}
  MaxWrites = 2
  MaxKills = 1
CHECK_DEADLOCK FALSE
INVARIANT CopyIsComplete
PROPERTY SyncFromEnds
