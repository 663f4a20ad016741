CONSTANTS
  Messages <- ShortMessages
  Addresses <- MCAddresses
  KeyPrefixes <- MCPrefixes
  MaxPayload = 8
  BusNamePrefix <- Prefix
  ObjectPathPrefix <- Prefix
  RosNamespace <- Prefix
SPECIFICATION MCSpec
INVARIANTS CborRoundTrip KeysRoundTrip CrossingIsStable UnaryFailureVisible SampleAllOrNothing MessageCrosses NamesIdentify ConfigRoundTrip
\* An input is handled once.
CHECK_DEADLOCK FALSE
