SPECIFICATION Spec
CONSTANTS
  Fn = {f, g, h, swtch}
  SwitchFn = swtch
  Vector = vec
  Watched = {f, g, swtch}
  Rated = {}
  NftSwitch = FALSE
  ZeroRa = TRUE
  Sibling = {h}
  Syscalls = TRUE
  Task = {0, 1}
  MaxFrames = 3
  MaxDepth = 4
INVARIANTS
  PathsAreReal

  
