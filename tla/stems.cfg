SPECIFICATION FairSpec
CONSTANTS
  A = A
  B = B
  t = t
  u = u
  None = None
  Decks = {A, B}
  Tracks = {t, u}
  JobIds <- MCJobIds
  Kinds = {"load", "setting", "reanalyze", "request", "warm", "hold", "anchor", "share", "fault", "crash"}
  Total = 3
INVARIANT TypeOK
INVARIANT SharedJobsRun
INVARIANT OneJobPerTrack
INVARIANT OneHeavyJob
PROPERTY SetsLandOnTheirTrack
PROPERTY CallsEnd
CHECK_DEADLOCK FALSE
