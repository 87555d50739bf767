SPECIFICATION FairSpec
CONSTANTS
  c1 = c1
  c2 = c2
  p1 = p1
  NoCode = NoCode
  NoNumber = NoNumber
  NoSlot = NoSlot
  NoRow = NoRow
  Empty = Empty
  Garbage = Garbage
  Code = {c1, c2}
  Supply = {1, 2}
  MaxOrder = 1
  BatchMax = 1
  Terminal <- MCTerminal
  ArrivalSlot <- MCArrivalSlot
  DepartureSlot <- MCDepartureSlot
  DeliverySlots = {1}
  PackageSlots = {1}
  PdaSlots = {2}
  Package = {p1}
  Plants <- MCPlants
  MaxScans = 3
  MaxFrames = 2
  MaxSwitches = 2
INVARIANTS SlotForCarrier AnnouncedFirst SlotRecorded SkippedByModeChange ReportedWasSent ReportedOnce
PROPERTY ScanGetsSlot
CHECK_DEADLOCK FALSE
