SPECIFICATION FairSpec
INVARIANTS TypeOK ClaimIsHonest BoardReachesDeck
PROPERTIES NoLiveLoadCancelled AttemptsAreSpaced Converges
CONSTANTS
  Video = {X, Y}
  None = None
  Never = Never
  Retry = 1
  Stuck = 2
  Cap = 2
  MaxTries = 2
  MaxMoves = 2
  WireLen = 1
  MaxStale = 1
CHECK_DEADLOCK FALSE
