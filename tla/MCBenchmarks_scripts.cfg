SPECIFICATION BenchmarkSpec
CONSTANTS
  s1 = s1
  c1 = c1
  c2 = c2
  srv1 = srv1
  cli = cli
  Servers = {s1}
  Clients = {c1, c2}
  Scenarios <- AllScenarios
  Name = {srv1, cli}
  Server = {srv1}
  Address = {a1, a2, a3}
  Configs <- SmallConfigs
  NoAddress = NoAddress
  MaxFailures = 2
INVARIANTS
  AttemptsAgree
  RunsLeaveNothing
  ReadyAsConfigured
PROPERTIES
  SuccessIsGenuine
  RunReturns
  KeepsWhatFits
  ScriptsSucceed
CHECK_DEADLOCK FALSE
