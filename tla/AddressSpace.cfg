SPECIFICATION AllSpec
CONSTANTS
  Procs = {1, 2, 3}
  Frames = {f1, f2, f3, f4}
  Device = {}
  Heap = 1
  Slots = {1}
  Values = {0, 1}
  Root = {1}
SYMMETRY FrameSymmetry
INVARIANTS TypeOK FramesAreCounted Isolated
PROPERTY ImplementsProcessMemory
CHECK_DEADLOCK FALSE
