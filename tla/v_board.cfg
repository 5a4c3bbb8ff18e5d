SPECIFICATION Spec
CONSTANTS
  a = a
  b = b
  c = c
  Party = {a, b}
  Crowd = {c}
  Starter = a
  Sweep = {low, mid}
  Click = {cue}
  None = None
  MaxMoves = 2
  Scenes <- Blip
PROPERTY BlipIsNoLeave
CHECK_DEADLOCK FALSE
