SPECIFICATION Spec
CONSTANTS
  Names = {n1}
  Values = {v1}
  Empty = Empty
  NoMeta = NoMeta
  Threads = {t1}
  NoThread = NoThread
  NoName = NoName
  NoCmd = NoCmd
  Stripe <- OwnStripe
  Indexes <- MCIndexes
  Databases = 2
  Database <- MCDatabase
  MaxArgs = 3
  MaxOps = 3
  MaxFaults = 0
CHECK_DEADLOCK FALSE
INVARIANT LPopReturnsFirst
