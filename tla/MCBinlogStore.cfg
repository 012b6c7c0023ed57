SPECIFICATION StoreSpec
CONSTANTS
  Keys = {k1, k2}
  Databases = {{k1}, {k2}}
  Values = {v1, v2}
  Absent = Absent
  Torn = Torn
  NoRecord = NoRecord
  Threads = {t1, t2}
  NoThread = NoThread
  MaxFileItems = 2
  MaxWrites = 4
  MaxFaults = 2
SYMMETRY Symmetry
CHECK_DEADLOCK FALSE
INVARIANTS StoreTypeOK LogReproducesDb RecordsAreListed
PROPERTY DurableRecordsStay
