SPECIFICATION FairSpec
CONSTANTS
  Keys = {k1}
  Databases = {{k1}}
  Values = {v1, v2}
  Absent = Absent
  Torn = Torn
  NoRecord = NoRecord
  Threads = {t1}
  NoThread = NoThread
  NoMsg = NoMsg
  MaxFileItems = 2
  StreamItems = 2
  MaxWrites = 3
  MaxFaults = 1
  MaxPullFaults = 1
CHECK_DEADLOCK FALSE
INVARIANTS EveryRecordAccounted CursorOnDisk ReplicaEqualsMaster
PROPERTIES CatchesUp ImplementsLogShipping
