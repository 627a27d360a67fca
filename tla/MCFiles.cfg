SPECIFICATION FilesSpec
CONSTANTS
  Product = {elf, image}
  Disk = {fs, extra}
  Required = {fs}
  Frames = 3
  Reports = {r1, r2}
  MaxExports = 2
  MaxInbox = 2
INVARIANTS
  NothingIsLost
  
  RecordedKernelIsFresh
  RecordedDisksAreClean
  SidecarDescribesVideo
  BrowsersAreClosed
PROPERTIES
  ExportEnds
CHECK_DEADLOCK FALSE
