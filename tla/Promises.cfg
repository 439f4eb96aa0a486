SPECIFICATION PromiseSpec
SYMMETRY WorkerSymmetry
CONSTANTS
  w1 = w1
  w2 = w2
  h1 = h1
  None = None
  Workers <- TwoWorkers
  Handlers <- OneHandler
  MaxTasks = 1
  MaxConc = 2
  Events = {"pause", "resume", "remove", "retry", "retry_all_failed", "clear_finished", "update", "crash", "crash_in_write", "save_error", "load_error"}
INVARIANTS
  RestartRestores
  AcknowledgedSurvives
  DoneStaysDone
PROPERTIES
  ImplementsTaskQueue
