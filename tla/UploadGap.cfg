SPECIFICATION Spec
CONSTANTS
  Contents <- OneFile
  VerifyBlocks = 1
  Window = 2
  MaxAttempts = 1
  Faults = {"linkdown"}
INVARIANTS
  NeverCorrupt
