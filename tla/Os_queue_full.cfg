SPECIFICATION Spec
CONSTANTS
  NumProcs = 4
  MAX_PRIO = 2
  MAX_QUEUE_SIZE = 2
  NumCpus = 1
  TimeSlot = 1
  Workloads <- Pairs
  CfgPrios = {1}
  OwnPrios = {0}
  ULONG_MAX = 7
INVARIANTS
  QueuedOrOwned
