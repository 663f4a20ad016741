CONSTANTS
  Messages <- LongMessages
  Addresses <- OneAddress
  KeyPrefixes <- OnePrefix
  MaxPayload = 8
  BusNamePrefix <- Prefix
  ObjectPathPrefix <- Prefix
  RosNamespace <- Prefix
SPECIFICATION MCSpec
INVARIANT CborRoundTrip
CHECK_DEADLOCK FALSE
