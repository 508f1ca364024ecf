SPECIFICATION FairCheckSpec
CONSTANTS
  Configs <- McConfigs
  CoreFacets <- McCoreFacets
  CoreChunk = 2
  CoreLibraries <- McCoreLibraries
  AccountFacets <- McAccountFacets
  AccountChunk = 3
  FacetLibraries <- McFacetLibraries
  DiamondRoles <- McDiamondRoles
  Parameters <- McParameters
  MaxInterrupts = 1
  MaxPending = 2
INVARIANTS
  SkippedTook
  WiringAgrees
  TemplateModes
  CompletedPassesCheck
  CleanCheckMeansReady
  VerifiedOrListed
PROPERTY
  Completes
CHECK_DEADLOCK FALSE
