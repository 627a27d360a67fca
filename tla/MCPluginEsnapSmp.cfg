SPECIFICATION Spec
CONSTANTS
  Configs <- OnlyEsnapSmp
  w1 = w1
INVARIANTS
  EventSnapsLimited
CHECK_DEADLOCK FALSE
