SPECIFICATION AloneSpec
CONSTANTS
  Callers = {a}
  DriftRates <- ThreeRates
  TicksPerSecond = 3
  Uncertainty = 2
  SyncPeriod = 5
  MaxTime = 16
  Clocks = 2
  MaxUncertainty = 1
  SamplePeriod = 1
  SimDuration = 3
  Second = 5
  Workloads <- TwoIntervals
  MaxInstant = 17
  Servers = {1}
  NumClients <- NoClients
  Key = {k1, k2}
  Value = {v1, v2}
  NoValue = NoValue
  StartTimes = {0}
  MaxLog = 4
INVARIANTS
  UncertaintyCoversError
  ReadIsRepeatable
  ResyncUpToDate
  FigureTellsTruth
  RequestsAsConfigured
  CreateIsMeaning
PROPERTIES
  KeepsPromise
  MergeKeepsMeaning
CHECK_DEADLOCK FALSE
