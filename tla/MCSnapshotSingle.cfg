SPECIFICATION FairSpec
CONSTANTS
  Page <- MCPage
  Content <- MCContent
  BodyLen <- MCBodyLen
  Data = {a}
  Zero = zero
  Unseen = unseen
  PageCount = 3
  ChunkPages = 2
  MaxRamBytes = 8
  Smp = FALSE
  ReadsMayFail = TRUE
  MayBeKilled = FALSE
  MaxSnaps = 2
INVARIANTS
  ShadowIsReadersImage
  
PROPERTIES
  ImplementsHistory
  SnapshotEnds
