SPECIFICATION ProtectSpec
CONSTANTS
  Procs = {1, 2}
  Frames = {1, 2, 3}
  Device = {}
  Heap = 1
  Slots = {}
  Values = {0, 1}
  Root = {1}
INVARIANT Isolated
CHECK_DEADLOCK FALSE
