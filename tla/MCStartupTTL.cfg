SPECIFICATION Spec
CONSTANTS
  Texts = {"", "0", "1", "2", "3", "4", "-1", "yes", "host", "a", "b", "c"}
  Atoi <- MCAtoi
  Off = {"", "0"}
  NoText = ""
  HashLimit = 4
  IntLimit = 4
  Documents <- MCDocuments
  MaxThreadCount = 2
  DefaultThreadCount = 1
  ExitKey = 10
  TTL = TTL
  SyncThread = SyncThread
  TopKeyThread = TopKeyThread
  MaxSignals = 1
  MaxKills = 1
CHECK_DEADLOCK FALSE
INVARIANT TTLStopsBefore
