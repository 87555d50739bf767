SPECIFICATION FairSpec
CONSTANTS
  c1 = c1
  p1 = p1
  f1 = f1
  f2 = f2
  f3 = f3
  t1 = t1
  t2 = t2
  t3 = t3
  Code = {c1}
  Picture = {p1}
  CodeOf <- MCCodeOf
  NoRow = NoRow
  NoPicture = NoPicture
  FetchLimit = 1
  MaxRetries = 1
  MaxTrouble = 0
  MaxRemovals = 0
  MaxRestarts = 2
  NoFile = NoFile
  File <- MCFile
  Rows <- MCRows
  MaxWatchTrouble = 2
  MaxWatchRestarts = 2
INVARIANTS OneFileAtATime EmptyIsBeingFilled
PROPERTY FileIsTaken
CHECK_DEADLOCK FALSE
