SPECIFICATION Spec
CONSTANTS
  Cpus = {c1, c2}
  Pools = {k1}
  NumSymbols = 3
  PageSize = 2
  PoolSize = 2
  PoolAlign = 1
  Sizes = {1}
  Base = 2
  MaxAddr = 8
SYMMETRY Symmetry
INVARIANTS TypeOK KernelPartition ObjectsConserved GrantsListed
CHECK_DEADLOCK FALSE
