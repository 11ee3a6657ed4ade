SPECIFICATION Spec
CONSTANTS
  Procs = {p1}
  NumPages = 3
  NumFrames = 1
  NumSlots = 1
  FpnLimit = 8
  Values = {1}
  MaxKernelRun = 0
INVARIANTS PresentTracked
CHECK_DEADLOCK FALSE
