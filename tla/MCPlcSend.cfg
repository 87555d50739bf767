SPECIFICATION Spec
CONSTANTS
  Msg = {m1, m2, m3}
  BatchMax = 2
SYMMETRY Symmetry
INVARIANTS
  PortIsExclusive
  MessageInOnePlace
  StoredGoesFirst
CHECK_DEADLOCK FALSE
