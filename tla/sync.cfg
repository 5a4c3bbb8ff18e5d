SPECIFICATION FairSpec
CONSTANTS
  phone = phone
  desk = desk
  None = None
  Devices = {phone, desk}
  Kinds = {"colour", "rest", "early", "restart", "drop", "lose"}
  Total = 2
INVARIANT TypeOK
INVARIANT OneValuePerStamp
INVARIANT EditsAreOnTheirWay
PROPERTY AdoptsOnlyNewer
PROPERTY LastEditWins
CHECK_DEADLOCK FALSE
