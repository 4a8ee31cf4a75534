SPECIFICATION AllSpec
CONSTANTS
  g_bitmap_bits = 8
  Pool <- MCPool
  Reserved <- MCReserved
  g_highest_page = 6
  RefMax = 2
  MaxRun = 3
  WordBits = 2
  MaxSize = 7
  Maps <- MCMaps
  BitsPerFrame = 6
  RefsPerFrame = 3
  AddrMax = 30
INVARIANTS
  SearchesAreExact
  RangeIsWritten
  TablesFit
  BootLeavesPool
  TypeOK
  CountsAreReferences
  FreeMemoryIsExact
PROPERTY
  ImplementsFrameStore
CHECK_DEADLOCK FALSE
