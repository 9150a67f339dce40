SPECIFICATION FairSpec
CONSTANTS
  Writers = {w1, w2}
  Readers = {r1, r2}
  Values = {a, b}
  NoValue = none
  Capacity = 2
  MaxWritten = 3
INVARIANTS Bounded Fifo DrainedBeforeClosed
PROPERTY CloseUnblocks
CHECK_DEADLOCK FALSE
