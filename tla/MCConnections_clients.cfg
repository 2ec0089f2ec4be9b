SPECIFICATION ConnSpec
CONSTANTS
  Servers = {1, 2}
  Clients = {a, b, c}
  Home <- AllAtLowest
  NumClients <- AllExpected
  MaxFailures = 1
INVARIANTS
  IdsAreUnique
  ReadyAsServersBegin
  ClientsLoseNothing
  NewNeverStuck
PROPERTIES
  ConnectingMovesOn
CHECK_DEADLOCK FALSE
