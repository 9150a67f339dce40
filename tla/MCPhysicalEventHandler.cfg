SPECIFICATION Spec
CONSTANTS
  One = 2
  Spaces = 2
  Positions <- MCPositions
  Progresses <- MCProgresses
  DaemonOptions <- MCOptions
  Preferences <- MCPreferences
  Keys <- MCKeys
INVARIANTS TargetIsSpace NoOrphan PassedOnlyWhenIdle DisabledAxisLeftAlone
CHECK_DEADLOCK FALSE
