SPECIFICATION Spec
CONSTANTS
  Keys = {k1}
  Databases = {{k1}}
  Values = {v1}
  Absent = Absent
  Torn = Torn
  NoRecord = NoRecord
  Threads = {t1}
  NoThread = NoThread
  NoMsg = NoMsg
  MaxFileItems = 2
  StreamItems = 3
  MaxWrites = 3
  MaxFaults = 0
  MaxPullFaults = 0
CHECK_DEADLOCK FALSE
INVARIANT NothingPassedOver
