SPECIFICATION Spec
SYMMETRY WorkerSymmetry
CONSTRAINT FirstLife
CONSTANTS
  w1 = w1
  w2 = w2
  h1 = h1
  None = None
  Workers <- TwoWorkers
  Handlers <- OneHandler
  MaxTasks = 2
  MaxConc = 2
  Events = {"remove", "retry", "retry_all_failed", "clear_finished", "update", "shutdown", "crash"}
INVARIANTS
  SlotAccounting
  OneGoroutinePerTask
  NoLostWakeup
  ShutdownClosesAll
