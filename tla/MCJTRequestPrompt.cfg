SPECIFICATION PromptSpec
CONSTANTS
  r1 = r1
  r2 = r2
  r3 = r3
  l1 = l1
  l2 = l2
  l3 = l3
  Req <- MCReq2
  Terminal <- MCTerminal
  LoginId <- MCLoginId3
  Limit = 1
  MaxQueue = 2
  MaxRetries = 1
  LoginRetries = 1
  ReplayRetries = 1
  MaxSwitches = 1
PROPERTIES
  QueuedIsSent
CHECK_DEADLOCK FALSE
