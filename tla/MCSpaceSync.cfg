SPECIFICATION Spec
CONSTANTS
  Displays <- MCDisplays
  InitialSpaces <- MCInitialSpaces
  NewSpaces <- MCNewSpaces
  JumpTargets = {2}
  MaxPending = 1
  MaxCrossed = 2
  MaxChanges = 1
  None = None
INVARIANTS DockWhereAsked AbortExplained
PROPERTY WaitReturns
CHECK_DEADLOCK FALSE
