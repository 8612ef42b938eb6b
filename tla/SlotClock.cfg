CONSTANTS
  SlotTime = 7
  Minute = 2
  MaxLate = 1
  MaxDelay = 1
  LastTick = 8
SPECIFICATION Spec
CHECK_DEADLOCK FALSE
INVARIANTS
  TypeOK
  OwnSlot
  EverySlotHandled
  SavedEveryMinute
  OneThreadPerSlot
