SPECIFICATION FairSpec
CONSTANTS
  w1 = w1
  w2 = w2
  h1 = h1
  None = None
  Workers <- OneWorker
  Handlers <- OneHandler
  MaxTasks = 2
  MaxConc = 1
  Events = {"pause", "resume", "remove", "shutdown", "load_error"}
PROPERTIES
  PendingIsTaken
  ShutdownCompletes
