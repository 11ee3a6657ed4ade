SPECIFICATION Spec
CONSTANTS
  Procs = {p1, p2}
  Kernel = kernel
  NULL = NULL
  PageSize = 2
  NumEntries = 2
  Frames = {5000}
  Slots = {1048577}
  Grants = {1, 2}
  MaxPages = 3
  ReservedAt = {28}
  Reserves = {1}
  Watched = {0, 1, 2, 28}
INVARIANTS TypeOK TreeShape
PROPERTIES KernelPinned RefinesPageMap
CHECK_DEADLOCK FALSE
