SPECIFICATION Spec
CONSTANTS
  Kernels <- AllKernels
  Slot = {s1, s2}
  MaxLag = 2
INVARIANTS
  VcpuOrderSurvivesMerge
  EventsNameTheTask
  OperationsAreOneEvent
  
CHECK_DEADLOCK FALSE
