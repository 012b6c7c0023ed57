SPECIFICATION FairSpec
CONSTANTS
  Names = {n1, n2}
  Values = {v1, v2}
  Empty = Empty
  NoMeta = NoMeta
  Threads = {t1, t2}
  NoThread = NoThread
  NoName = NoName
  NoCmd = NoCmd
  Stripe <- CommonStripe
  Indexes <- MCIndexes
  Databases = 2
  Database <- MCDatabase
  MaxArgs = 1
  MaxOps = 3
  MaxFaults = 1
CHECK_DEADLOCK FALSE
INVARIANTS TypeOK Contents ReadsAgree NoOrphans
PROPERTY CommandsEnd
