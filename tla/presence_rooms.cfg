SPECIFICATION FairSpec
INVARIANTS TypeOK AttachedIsOnline NobodyIsForgotten
PROPERTY GoneIsOffline
CONSTANTS
  Account = {a}
  Room = {r1, r2}
  Never = Never
  Grace = 1
  MaxSockets = 2
  MaxWrites = 1
  Horizon = 2
CHECK_DEADLOCK FALSE
