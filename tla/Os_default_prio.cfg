SPECIFICATION Spec
CONSTANTS
  NumProcs = 1
  MAX_PRIO = 2
  MAX_QUEUE_SIZE = 2
  NumCpus = 1
  TimeSlot = 1
  Workloads <- Single
  CfgPrios = {1, 7}
  OwnPrios = {0, 1}
  ULONG_MAX = 7
INVARIANTS
  DefaultPriorityHonoured
