SPECIFICATION SerializationSpec
CONSTANTS
  Cell = 32
  Narrow = 1
  Wide = 2
  IOHIDField = 1
  Grain = 2
  None = None
  Inputs <- MCInputs
  Gestures <- MCGestures
INVARIANTS ReadsWhatIsWritten AugmentKeepsRest ElementTellsGesture
CHECK_DEADLOCK FALSE
