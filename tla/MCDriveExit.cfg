SPECIFICATION SessionSpec
CONSTANTS
  Profiles <- MCProfiles
  MaxPrinted = 3
  PipeRoom = 2
INVARIANTS
  ExitIsUnexplained
CHECK_DEADLOCK FALSE
