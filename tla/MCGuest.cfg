SPECIFICATION GuestSpec
CONSTANTS
  LastPage = 5
  Procs = {1, 2}
  Entry = {0, 1}
  VAddr <- MCVAddr
  MaxBirths = 2
  MaxUnseen = 1
  Task = {1, 2, 3, 4}
  FirstCap = 1
  Caps = {2, 9}
  MaxLost = 1
INVARIANTS
  
  SpacesAreReal
  OwnersAreReal
  TreeIsTrue
  LossIsTold
CHECK_DEADLOCK FALSE
