SPECIFICATION Spec
CONSTANTS
  Procs = {p1, p2}
  NumPages = 2
  NumFrames = 2
  NumSlots = 2
  FpnLimit = 8
  Values = {v1, v2}
  MaxKernelRun = 2
SYMMETRY Symmetry
INVARIANTS TypeOK FrameExclusive SlotExclusive FifoPresent MemoryIntegrity KernelIntegrity
PROPERTY RefinesProcessMemory
CHECK_DEADLOCK FALSE
