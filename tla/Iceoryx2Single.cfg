CONSTANTS
  Gateways = {gateway}
  Mappings <- MCMappings
  Messages <- MCMessages
  Events <- MCEvents
  Calls <- MCCalls
  Envelopes <- MCEnvelopes
  kMaxDepth = 2
SPECIFICATION Spec
INVARIANTS StoppedIsReleased GroupsSubscribedOnce BusBounded EventsForwardedOnce
