SPECIFICATION PicFairSpec
CONSTANTS
  c1 = c1
  c2 = c2
  p1 = p1
  p2 = p2
  q1 = q1
  Code = {c1, c2}
  Picture = {p1, p2, q1}
  CodeOf <- MCCodeOf
  NoRow = NoRow
  NoPicture = NoPicture
  FetchLimit = 2
  MaxRetries = 1
  MaxTrouble = 2
  MaxRemovals = 1
  MaxRestarts = 1
INVARIANTS
  MarkedWasStored
  MarkIsTrue
PROPERTY PendingIsSettled
CHECK_DEADLOCK FALSE
