SPECIFICATION MCSpec
CONSTANTS
  FrameSize <- Sizes
  Value = {1}
  Results <- MCResults
  Slot = {s1}
  AreaSize = 11
  Redline = 9
  Ids <- MCIds
  Areas = {1, 2}
  MaxFrames = 4
  MaxNesting = 2
  Extent = {1, 2}
  Place = {p1}
  MaxWaiting = 3
  MaxWindings = 2
INVARIANTS
  WithinArea
  FramesMatch
  CStackMatches
  WindersFollow
  InOutAlternate
  SharedExtentsStay
PROPERTIES
  ImplementsControl
