SPECIFICATION Spec
CONSTANTS
  N = 3
  MaxTime = 3
INVARIANTS
  TypeOK
  LockStep
  DoneRaceFree
  NobodyStranded
  TimerInv
PROPERTIES
  StableTime
  RefinesSlotClock
  NextSlotReturns
  StopReturns
  ImplementsSlotClock
