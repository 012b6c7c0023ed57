SPECIFICATION FairSpec
CONSTANTS
  Keys = {k1}
  Threads = {t1, t2}
  NoThread = NoThread
  NoValue = NoValue
  NoRecord = NoRecord
  NoCmd = NoCmd
  Stripe <- CommonStripe
  Pads = {0, 1}
  KeyDb <- OneDb
  RecordDb <- SecondDb
  LastDb = 1
  Seconds = {1}
  Commands = {"setex", "pfmerge", "del", "expire", "flushdb"}
  Kinds = {TRUE}
  MaxOps = 2
  MaxClock = 1
  Batch = 2
  MaxFaults = 1
INVARIANTS TypeOK NeverEarly NoLeak
PROPERTIES RecordsExpire CommandsEnd
