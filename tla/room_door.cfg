SPECIFICATION Spec
INVARIANTS TypeOK OneOpenSocket DoorHeld BannedStayOut
PROPERTIES HouseSpec ClockGoesToAMember
SYMMETRY Symmetry
CONSTANTS
  h = h
  g = g
  Device = {h, g}
  Sock = {s1, s2}
  Deck = {A, B}
  NoOne = NoOne
  Mobile = {g}
  Doors <- AnyDoors
  Gates <- AllGates
  MaxListeners = 1
  LateFrames = TRUE
  Restarts = TRUE
CHECK_DEADLOCK FALSE
