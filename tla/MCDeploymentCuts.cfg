SPECIFICATION CheckSpec
CONSTANTS
  Configs <- McConfigs
  CoreFacets <- McCoreFacets
  CoreChunk = 2
  CoreLibraries <- McCoreLibraries
  AccountFacets <- McAccountFacets
  AccountChunk = 3
  FacetLibraries <- McFacetLibraries
  DiamondRoles <- McDiamondRoles
  Parameters <- McParameters
  MaxInterrupts = 1
  MaxPending = 2
INVARIANT
  CutsComplete
CHECK_DEADLOCK FALSE
