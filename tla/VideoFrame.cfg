SPECIFICATION FairSpec
CONSTANTS
  Count = 3
  Size = {small, large}
  MaxFrames = 3
  MaxGens = 2
  MaxAhead = 1
  Preempted = FALSE
INVARIANTS DrawsLiveTexture NoTearing
PROPERTIES FrameShown
CHECK_DEADLOCK FALSE
