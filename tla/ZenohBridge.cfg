CONSTANTS
  Mappings <- MCMappings
  Controllers = {controller1, controller2}
  UdpMessages <- OneUdpMessage
  HostMessages <- MCHostMessages
  Events <- MCEvents
  Calls <- MCCalls
  Samples <- MCSamples
  Queries <- MCQueries
  enable_udp_transport = TRUE
  enable_e2e_validation = TRUE
SYMMETRY ControllerSymmetry
SPECIFICATION Spec
INVARIANTS RunningIsComplete ReceiverHasTransport
\* stop() and the receive thread can wait for each other (see ZenohStopUdp.cfg).
CHECK_DEADLOCK FALSE
