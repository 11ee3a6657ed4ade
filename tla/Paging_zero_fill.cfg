SPECIFICATION Spec
CONSTANTS
  Procs = {p1}
  NumPages = 3
  NumFrames = 2
  NumSlots = 2
  FpnLimit = 8
  Values = {1}
  MaxKernelRun = 0
INVARIANTS ZeroFillOnDemand
CHECK_DEADLOCK FALSE
