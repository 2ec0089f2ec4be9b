SPECIFICATION Spec
CONSTANTS
  Servers = {1, 2}
  NumClients <- OneClientEach
  Key = {k}
  Value = {v}
  NoValue = NoValue
  StartTimes = {0}
  InitialLeader = 1
  MaxRequests <- OneRequestEach
  MaxFailures = 0
INVARIANTS
  TypeOK
  ReplicaMatchesLog
PROPERTIES
  Linearizable
