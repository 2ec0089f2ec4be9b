SPECIFICATION FairSystemSpec
CONSTANTS
  Servers = {1, 2}
  NumClients <- NoneAtLeader
  Key = {0, 1}
  Value = {0, 1}
  NoValue = NoValue
  StartTimes = {0}
  InitialLeader = 1
  MaxRequests <- TwoRequestsEach
  MaxFailures = 0
  Intervals = 1
PROPERTIES
  ClientsAreForeseen
  EveryReplicaCatchesUp
  EveryClientFinishes
