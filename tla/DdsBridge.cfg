CONSTANTS
  Receivers = {receiver1, receiver2}
  Batches <- MCBatches
  Samples <- OneSample
  Mappings <- MCMappings
  UseE2e = TRUE
  AssumeTcpForRpc = TRUE
  DefaultInstance = 7
SPECIFICATION FairSpec
INVARIANTS ReaderThreadOwned RpcReliableUnlessShared EchoOnlyOnNamedTopics
PROPERTIES ImplementsBridge StopReturns
