SPECIFICATION Spec
CONSTANTS
  Regs = {r1}
  NumSymbols = 3
  PageSize = 2
  Sizes = {0, 1, 2, 3}
  MaxAddr = 5
INVARIANTS TypeOK RegionsPartition AccessInRegion
PROPERTIES RefinesHeap
CHECK_DEADLOCK FALSE
