SPECIFICATION FairSpec
CONSTANTS
  PartyA = {1, 2}
  PartyB = {1, 2}
  Histories <- McHistories
  MaxTrades = 2
  ChunkSize = 1
  PageSize = 2
  GapScanRange = 1
  SampleSize = 1
  ConnectionLimit = 2
  MaxRetries = 2
  MaxFaults = 1
  SkipPreCheck = {TRUE, FALSE}
  DryRun = {TRUE, FALSE}
INVARIANTS
  NeverOvercounted
PROPERTIES
  ResumesWhole
  MigratesOnlyPaused
  Resumes
CHECK_DEADLOCK FALSE
