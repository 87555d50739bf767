SPECIFICATION FairSpec
CONSTANTS
  Byte = {"x", "ETX", "LF"}
  Socket = {s1, s2}
  MaxClients = 2
  MaxBytes = 4
INVARIANTS
  TypeOK
  MessagesOfScanner
PROPERTIES
  MessageArrives
CHECK_DEADLOCK FALSE
