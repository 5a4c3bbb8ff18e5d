SPECIFICATION FairSpec
INVARIANT DriveIsGranted
PROPERTY GraceDecides
CONSTANTS
  h = h
  g = g
  Device = {h, g}
  Sock = {s1, s2}
  Deck = {A, B}
  NoOne = NoOne
  Mobile = {g}
  Doors <- BothDoors
  Gates <- NoGates
  MaxListeners = 1
  LateFrames = FALSE
  Restarts = TRUE
CHECK_DEADLOCK FALSE
