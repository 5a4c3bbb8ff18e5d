SPECIFICATION Spec
CONSTANTS
  A = A
  B = B
  t = t
  u = u
  None = None
  Decks = {A}
  Tracks = {t, u}
  JobIds <- MCJobIds
  Kinds = {"load", "setting", "reanalyze", "request", "warm", "hold", "anchor", "share", "fault", "crash"}
  Total = 3
PROPERTY StemsOfTheTrack
CHECK_DEADLOCK FALSE
