SPECIFICATION FairSpec
CONSTANTS
  t1 = t1 t2 = t2
  Tracks = {t1, t2}
  None = None
  Playlist <- MCPlaylist
  Start <- MCStart
  Wanted = {t1, t2}
  Ramp = 2
  Kinds = {"play", "pause", "put", "pick", "grab", "skip", "skipmix", "hold", "toggle", "now"}
  Total = 1
INVARIANTS TypeOK HoldsAreRemembered WaitsForALoad OffGivesBack
PROPERTIES MixEnds DeadAirEnds FollowsThePlayingDeck
CHECK_DEADLOCK FALSE
