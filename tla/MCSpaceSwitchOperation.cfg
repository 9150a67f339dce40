SPECIFICATION FairSpec
CONSTANTS
  One = 10
  Defer = 2
  Origin = 10
  SoftMin = 0
  SoftMax = 20
  Targets <- MCTargets
INVARIANTS TypeOK GesturesWellFormed FlungForward CancelledOutward WithinLimits CloseToTarget CommitLandsOnTarget
PROPERTY MoveReturns
CHECK_DEADLOCK FALSE
