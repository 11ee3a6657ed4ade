SPECIFICATION Spec
CONSTANTS
  NumProcs = 3
  MAX_PRIO = 2
  MAX_QUEUE_SIZE = 3
  NumCpus = 2
  TimeSlot = 2
  Workloads <- Mixed
  CfgPrios = {0, 1}
  OwnPrios = {0}
  ULONG_MAX = 7
INVARIANTS
  OsTypeOK
  Ownership
  RunningListed
  NoProcessLost
PROPERTIES
  WorkConserving
  FreshQuantum
  SimulationEnds
  ImplementsLifecycle
