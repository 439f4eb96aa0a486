SPECIFICATION FairLogSpec
CONSTANTS
  Streams = {s1, s2}
  App = App
  Cap = 2
  Nobody = Nobody
INVARIANTS NoSendOnClosed
PROPERTIES LogReturns StreamEnds
