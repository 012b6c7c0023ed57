SPECIFICATION Spec
CONSTANTS
  c1 = c1
  c2 = c2
  c3 = c3
  Clients = {c1, c2, c3}
  Addresses = {"here", "there"}
  AddressOf <- MCAddressOf
  Loops = {1, 2}
  Commands <- MCCommands
  Scenarios <- MCScenarios
  None = None
  NoType = NoType
  Garbage = Garbage
  TopNames <- MCTopNames
  MaxKeyCnt = 3
  Slack = 2
  MaxAgains = 1
  MaxHangups = 1
CHECK_DEADLOCK FALSE
INVARIANTS AnsweredInOrder NoneForgotten RequestsCounted TopKeysKept
PROPERTIES EveryRequestAnswered
