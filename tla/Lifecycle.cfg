SPECIFICATION FairSpec
CONSTANTS
  Requests = {r1, r2}
  Generated = {p1, p2}
  FromEnv = FromEnv
  Empty = Empty
  None = None
INVARIANTS OpenOnlyIfAsked StoredStays ExitIsTrue QueueStopsLast
PROPERTIES SignalEnds
