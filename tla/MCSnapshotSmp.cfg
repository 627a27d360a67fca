SPECIFICATION Spec
CONSTANTS
  Page <- MCPage
  Content <- MCContent
  BodyLen <- MCBodyLen
  Data = {a}
  Zero = zero
  Unseen = unseen
  PageCount = 2
  ChunkPages = 1
  MaxRamBytes = 100
  Smp = TRUE
  ReadsMayFail = TRUE
  MayBeKilled = TRUE
  MaxSnaps = 2
INVARIANTS
  UnflaggedSnapshotsAreExact
  RecordedPagesAreGenuine
CHECK_DEADLOCK FALSE
