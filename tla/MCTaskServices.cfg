SPECIFICATION FairSpec
CONSTANTS
  NoConn = NoConn
  NoFile = NoFile
  Conn = {d1, d2}
  PoolTask = {k1, k2, k3}
  LogMsg = {k1, k2}
  Handler = {k2}
  HoursPerDay = 2
  MaxClock = 2
  MaxOpenFails = 1
INVARIANTS
  ConnectionHasOneUser
  NoLostWakeup
  LineInItsHour
PROPERTIES
  ImplementsLogBook
  TaskEnds
  ClosingEnds
CHECK_DEADLOCK FALSE
