SPECIFICATION FairConnSpec
CONSTANTS
  Servers = {1, 2, 3}
  Clients = {a}
  Home <- AllAtLowest
  NumClients <- AllExpected
  MaxFailures = 1
INVARIANTS
  PeersFindListener
PROPERTIES
  EveryServerReady
CHECK_DEADLOCK FALSE
