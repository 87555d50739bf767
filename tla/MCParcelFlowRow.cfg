SPECIFICATION Spec
CONSTANTS
  c1 = c1
  c2 = c2
  p1 = p1
  NoCode = NoCode
  NoNumber = NoNumber
  NoSlot = NoSlot
  NoRow = NoRow
  Empty = Empty
  Garbage = Garbage
  Code = {c1}
  Supply = {1, 2}
  MaxOrder = 2
  BatchMax = 2
  Terminal <- MCTerminal
  ArrivalSlot <- MCArrivalSlot
  DepartureSlot <- MCDepartureSlot
  DeliverySlots = {1}
  PackageSlots = {1}
  PdaSlots = {}
  Package = {p1}
  Plants <- MCPlantRow
  MaxScans = 3
  MaxFrames = 0
  MaxSwitches = 1
INVARIANT NumberFromRow
CHECK_DEADLOCK FALSE
