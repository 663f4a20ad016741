CONSTANTS
  udpThread = udpThread
  eventThread = eventThread
  appThread = appThread
  Receivers = {udpThread, eventThread}
  Source <- MCSource
  Flushers = {flusher1, flusher2}
  Controllers = {controller}
  Messages <- MCMessages
  Mappings <- MCMappings
  DefaultInstance = 7
  Capacity = 1
  HasTransport = TRUE
SPECIFICATION FairSpec
INVARIANTS TypeOK BufferBounded EachMessageOnce LifecycleConsistent StatsCountDirectPublishes
PROPERTIES ImplementsChannel FlushReturns
