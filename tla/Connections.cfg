SPECIFICATION Spec
CONSTANTS
  Conns = {c1, c2}
  Hosts = {h1, h2}
  Keys = {k1, k2}
  EditTails = {"closed", "open"}
  None = None
INVARIANTS OneKeyPerHost OneLinePerHost FailedLeavesNothing
PROPERTIES AcceptedStaysAccepted
