CONSTANTS
  Mappings <- BothWays
  Controllers = {controller}
  UdpMessages <- OneUdpMessage
  HostMessages = {}
  Events = {}
  Calls = {}
  Samples = {}
  Queries = {}
  enable_udp_transport = TRUE
  enable_e2e_validation = FALSE
SPECIFICATION FairSpec
PROPERTY StopReturns
CHECK_DEADLOCK FALSE
