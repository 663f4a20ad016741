CONSTANTS
  Receivers = {receiver}
  Subscribers = {subscriber}
  Injectors = {injector}
  Messages <- MCMessages
  Calls <- MCCalls
  Mappings <- MCMappings
  BusNamePrefix <- Prefix
  ObjectPathPrefix <- Prefix
  DefaultInstance = 7
  SessionMod = 2
  MaxConnections = 2
  MaxSwitches = 0
  HaveSystemd = TRUE
  BusFaults = FALSE
  StartsWhileRunning = FALSE
SPECIFICATION Spec
INVARIANT MappedIsEmitted
