SPECIFICATION Spec
CONSTANTS
  Requests = {r1, r2}
  Tokens = {t1, t2, t3}
  MaxSessions = 2
  TTL = 2
  None = None
INVARIANTS EndedNotServed RefusedHasReason
