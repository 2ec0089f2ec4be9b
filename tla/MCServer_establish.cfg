SPECIFICATION Spec
CONSTANTS
  Servers = {1, 2, 3}
  NumClients <- OneBesidesLeader
  Key = {k}
  Value = {v}
  NoValue = NoValue
  StartTimes = {t1, t2}
  InitialLeader = 2
  MaxRequests <- NoRequests
  MaxFailures = 1
SYMMETRY StartTimesAlike
INVARIANTS
  StartedOnce
  SameStart
  StrandedOnlyByLoss
PROPERTIES
  ConnectionsOnlyLostWhenClosed
CHECK_DEADLOCK FALSE
