SPECIFICATION Spec
CONSTANTS
  Keys = {k1, k2}
  Threads = {t1, t2}
  NoThread = NoThread
  NoValue = NoValue
  NoRecord = NoRecord
  NoCmd = NoCmd
  Stripe <- CommonStripe
  Pads = {0}
  KeyDb <- OneDb
  RecordDb <- OneRecordDb
  LastDb = 0
  Seconds = {1}
  Commands = {"append", "pfadd", "incr", "pfmerge", "getset", "setnx", "setex", "set", "mset", "msetnx", "del", "expire", "flushdb"}
  Kinds = {TRUE, FALSE}
  MaxOps = 3
  MaxClock = 1
  Registers = {0}
  HashBits = 4
  Index <- OneIndex
  Zeros <- MCZeros
  Foreign = Foreign
  Letters = {1, 2}
  Nul = 0
  Missing = Missing
  MaxBytes = 3
CHECK_DEADLOCK FALSE
SYMMETRY Symmetry
INVARIANTS NoLostUpdate MutexesReleased CountsWhatWasAdded BytesAgree
