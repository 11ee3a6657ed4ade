SPECIFICATION ClientsSpec
CONSTANTS
  NumProcs = 3
  MAX_PRIO = 3
  MAX_QUEUE_SIZE = 3
  NumClients = 2
INVARIANTS
  BoundedBypass
  HeldOrQueued
PROPERTIES
  NoStarvation
