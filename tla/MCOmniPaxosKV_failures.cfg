SPECIFICATION SystemSpec
CONSTANTS
  Servers = {1, 2}
  NumClients <- NoneAtLeader
  Key = {0, 1}
  Value = {0, 1}
  NoValue = NoValue
  StartTimes = {0}
  InitialLeader = 1
  MaxRequests <- TwoRequestsEach
  MaxFailures = 1
  Intervals = 2
INVARIANTS
  AnswersFollowLog
  RequestsAccountedFor
  FinishedMeansDecided
  ClientNeverPanics
CHECK_DEADLOCK FALSE
