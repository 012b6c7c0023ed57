SPECIFICATION Spec
CONSTANTS
  Fields = {0, 2, 3}
  Width <- MCWidth
  NoValue = NoValue
  n1 = n1
  n2 = n2
  Names = {n1, n2}
  Text = Text
  Blank = Blank
  NulFields = {3}
  Begins <- MCBegins
  NulValues <- MCNulValues
  Nil = Nil
  Error = Error
  Threads = {t1, t2}
  Kinds = {"hash", "set", "zset"}
  Targets <- MCTargets
  Stores <- MCStores
  FieldLists <- MCFieldLists
  SourceLists <- MCSourceLists
  Numbers = {1}
  Values = {1}
  Indexes = {0, 3}
  Top = 2
  Junk = {5}
  NoCmd = NoCmd
  MaxOps = 2
  MaxFaults = 1
CHECK_DEADLOCK FALSE
SYMMETRY Symmetry
INVARIANTS MembersKept SortedReadsAgree SetReadsAgree RepliesAgree
PROPERTIES AloneLikeRedis
