SPECIFICATION Spec
CONSTANTS
  FacetNames <- MCFacetNames
  NewSelectors <- MCNewSelectors
  OldSelectors <- MCOldSelectors
  ChunkSize = 2
  AccountLayerChunks = 3
  Skip = {"safe-batch"}
  Paths = {"safe"}
  EarlyGenerate = TRUE
  MaxFaults = 1
INVARIANTS VerifiedCutIsCurrent
CHECK_DEADLOCK FALSE
