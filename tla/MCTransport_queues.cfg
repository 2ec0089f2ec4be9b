SPECIFICATION TransportSpec
CONSTANTS
  Servers = {1, 2}
  Clients = {a, b}
  Home <- AllAtLowest
  Loads <- AllLoads
INVARIANTS
  ClientHeldBack
  LossIsLocal
  NothingStuck
PROPERTIES
  ChannelsAreFifo
CHECK_DEADLOCK FALSE
