SPECIFICATION Spec
PROPERTY ListenersNeverAnchor
SYMMETRY Symmetry
CONSTANTS
  h = h
  g = g
  Device = {h, g}
  Sock = {s1, s2}
  Deck = {A, B}
  NoOne = NoOne
  Mobile = {g}
  Doors <- PubDoors
  Gates <- NoGates
  MaxListeners = 1
  LateFrames = FALSE
  Restarts = FALSE
CHECK_DEADLOCK FALSE
