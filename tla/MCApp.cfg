SPECIFICATION AppSpec
CONSTANTS
  Options <- MCOptions
  NoEngine = nil
  MaxChanges = 3
  Durations <- MCDurations
  Curves <- MCCurves
  Framerates <- MCFramerates
  Unset = Unset
  Stored <- MCStored
  None = None
  Garbage = Garbage
INVARIANTS TypeOK OneEngine LatestSettings ChoicesKept EngineAsShown
PROPERTY StoppedStays
