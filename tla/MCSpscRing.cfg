SPECIFICATION FairSpec
CONSTANTS
  m1 = m1
  m2 = m2
  Item <- MCItem
  NoItem = NoItem
  Torn = Torn
  Cap = 4
  CounterMod = 8
  Batch = 2
  MaxDrops = 1
INVARIANTS
  NoSlotRace
PROPERTIES
  ImplementsFifo
  OldestIsPopped
  BatchIsHandled
