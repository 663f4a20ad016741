CONSTANTS
  Streams = {stream1, stream2}
  Wide = {stream2}
  Key <- MCKey
  Calls = {call1}
  Notifications <- TwoEvents
SPECIFICATION FairSpec
INVARIANTS TypeOK StreamIsFifo FinishedIsForgotten StreamsOnlyWhileServing
PROPERTIES CancelledStreamEnds StopReturns
