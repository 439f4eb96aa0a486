SPECIFICATION FairSpec
CONSTANTS
  Handlers = {h1, h2}
  Addresses = {a1, a2, a3}
  MaxAttempts = 2
  MaxEntries = 2
  MaxFailures = 3
  Block = 2
  Idle = 1
  Window = 1
  None = None
INVARIANTS BudgetExact StreakBounded
PROPERTIES BanStands BanEnds
