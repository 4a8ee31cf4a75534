SPECIFICATION RacingSpec
CONSTANTS
  Procs = {1, 2}
  Frames = {1, 2, 3}
  Device = {}
  Heap = 0
  Slots = {1}
  Values = {0, 1}
  Root = {1}
INVARIANT FramesAreCounted
CHECK_DEADLOCK FALSE
