SPECIFICATION Spec
CONSTANTS
  Servers = {1, 2, 3}
  NumClients <- OneBesidesLeader
  Key = {k}
  Value = {v}
  NoValue = NoValue
  StartTimes = {0}
  InitialLeader = 2
  MaxRequests <- NoRequests
  MaxFailures = 0
INVARIANTS
  FollowersRelayStart
CHECK_DEADLOCK FALSE
