SPECIFICATION FairSpec
CONSTANTS
  Contents <- Edits
  VerifyBlocks = 1
  Window = 2
  MaxAttempts = 2
  Faults <- AllFaults
INVARIANTS
  TypeOK
  PartialIsPrefix
PROPERTIES
  PublishedWhole
  SourceKept
  UploadEnds
