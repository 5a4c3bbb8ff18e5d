SPECIFICATION FairSpec
CONSTANTS
  a = a
  b = b
  c = c
  Party = {a, b}
  Crowd = {c}
  Starter = a
  Sweep = {low, mid}
  Click = {cue}
  None = None
  MaxMoves = 2
  Scenes <- Programme
INVARIANT TypeOK
INVARIANT CrowdHearsTheLast
PROPERTY AnchorIsHeard
PROPERTY BoardReachesAll
CHECK_DEADLOCK FALSE
