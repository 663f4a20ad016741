CONSTANTS
  Receivers = {receiver1, receiver2}
  Injectors = {injector1}
  Messages <- MCMessages
  Samples <- MCSamples
  Mappings <- TelemetryFirst
  RosNamespace <- Namespace
  DefaultInstance = 7
  UseE2e = TRUE
  SessionMod = 2
  MaxNodes = 2
  StartsWhileRunning = FALSE
SPECIFICATION FairSpec
INVARIANT PublishersAreCurrent
PROPERTY ImplementsBridge
