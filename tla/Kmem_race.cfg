SPECIFICATION Spec
CONSTANTS
  Cpus = {c1, c2}
  Pools = {k1}
  NumSymbols = 3
  PageSize = 2
  PoolSize = 2
  PoolAlign = 1
  Sizes = {1}
  Base = 2
  MaxAddr = 6
INVARIANTS GrantsKept
CHECK_DEADLOCK FALSE
