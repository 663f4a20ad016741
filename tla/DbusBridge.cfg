CONSTANTS
  Receivers = {receiver}
  Subscribers = {subscriber}
  Injectors = {injector}
  Messages <- MCMessages
  Calls <- MCCalls
  Mappings <- MCMappings
  BusNamePrefix <- Prefix
  ObjectPathPrefix <- Prefix
  DefaultInstance = 7
  SessionMod = 2
  MaxConnections = 2
  MaxSwitches = 1
  HaveSystemd = TRUE
  BusFaults = TRUE
  StartsWhileRunning = FALSE
SPECIFICATION FairSpec
INVARIANTS BusUsedWhileOpen OneConnection
PROPERTY ImplementsBridge
