SPECIFICATION FairSpec
CONSTANTS
  NoSock = NoSock
  Handle = {h1, h2}
  Receiver = {v1, v2}
  MaxMessages = 2
  MaxBreaks = 1
  MaxDatagrams = 1
  MaxRuns = 1
INVARIANTS
  OneProducer
PROPERTIES
  NoCallbackAfterStop
  LinkComesBack
  CleanUpEnds
CHECK_DEADLOCK FALSE
