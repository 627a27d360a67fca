SPECIFICATION FairSpec
CONSTANTS
  Profiles <- MCProfiles
  MaxPrinted = 3
  PipeRoom = 2

  
  
  
PROPERTIES
  SessionEnds
CHECK_DEADLOCK FALSE
