SPECIFICATION Spec
CONSTANTS
  MemoryMaps <- MCMemoryMaps
  PageSize = 1
  HeapPages = 2
  MaxPages = 3
INVARIANTS
  AllocsDisjoint
  AllocsAvailable
  BitmapExact
  FirstFit
  NoneMeansNone
CHECK_DEADLOCK FALSE
