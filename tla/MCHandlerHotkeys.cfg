SPECIFICATION Spec
CONSTANTS
  One = 2
  Spaces = 2
  Positions <- MCPositions
  Progresses <- MCProgresses
  DaemonOptions <- MCOptions
  Preferences <- MCPreferences
  Keys <- MCKeys
PROPERTY OnlyBoundKeysTaken
CHECK_DEADLOCK FALSE
