SPECIFICATION FairSpec
CONSTANTS
  FacetNames <- MCFacetNames
  NewSelectors <- MCNewSelectors
  OldSelectors <- MCOldSelectors
  ChunkSize = 2
  AccountLayerChunks = 3
  Skip = {"safe-batch"}
  Paths = {"eoa", "safe", "timelock"}
  EarlyGenerate = FALSE
  MaxFaults = 3
INVARIANTS UnpausedIsWhole UpgradedIsReady
PROPERTIES UpgradeCompletes
CHECK_DEADLOCK FALSE
