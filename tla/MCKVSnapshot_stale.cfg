SPECIFICATION SnapshotSpec
CONSTANTS
  Servers = {1}
  NumClients <- NoClients
  Key = {k1, k2}
  Value = {v1, v2}
  NoValue = NoValue
  StartTimes = {0}
  MaxLog = 4
INVARIANTS
  MergeIsMeaning
CHECK_DEADLOCK FALSE
