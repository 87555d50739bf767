SPECIFICATION FairSpec
CONSTANTS
  Byte = {"x", "STX", "ETX", "LF", "CR"}
  Socket = {s1, s2}
  MaxClients = 2
  MaxBytes = 1
PROPERTIES
  StopEnds
CHECK_DEADLOCK FALSE
