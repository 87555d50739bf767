SPECIFICATION Spec
CONSTANTS
  r1 = r1
  r2 = r2
  r3 = r3
  l1 = l1
  l2 = l2
  l3 = l3
  Req <- MCReq3
  Terminal <- MCTerminal
  LoginId <- MCLoginId3
  Limit = 2
  MaxQueue = 1
  MaxRetries = 1
  LoginRetries = 0
  ReplayRetries = 1
  MaxSwitches = 1
SYMMETRY Symmetry3
INVARIANTS
  PendingBound
  OnePlace
  RetryBudget
  RefreshHasLogin
PROPERTIES
  ImplementsDesk
CHECK_DEADLOCK FALSE
