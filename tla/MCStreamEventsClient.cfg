SPECIFICATION FairSpec
CONSTANTS
  Capacity = 2
  Window = 2
  MaxEvents = 4
  NoEvent = none
INVARIANTS StreamedInOrder
PROPERTY ShutdownCompletes
CHECK_DEADLOCK FALSE
