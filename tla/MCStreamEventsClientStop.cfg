SPECIFICATION FairSpec
CONSTANTS
  Capacity = 2
  Window = 2
  MaxEvents = 4
  NoEvent = none
PROPERTY CtrlCStops
CHECK_DEADLOCK FALSE
