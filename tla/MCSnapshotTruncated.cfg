SPECIFICATION Spec
CONSTANTS
  Page <- MCPage
  Content <- MCContent
  BodyLen <- MCBodyLen
  Data = {a}
  Zero = zero
  Unseen = unseen
  PageCount = 3
  ChunkPages = 2
  MaxRamBytes = 6
  Smp = FALSE
  ReadsMayFail = FALSE
  MayBeKilled = FALSE
  MaxSnaps = 2
INVARIANTS
  CompleteStatesAreExact
