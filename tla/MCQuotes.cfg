SPECIFICATION Spec
CONSTANTS
  a1 = a1
  a2 = a2
  b1 = b1
  b2 = b2
  PartyA = {a1}
  PartyB = {b1, b2}
  Zero = Zero
  CrossPartyB = {b2}
  Offers <- MixedOffers
  Prices = {3, 8}
  Upnls = {0}
  InitialAllocation = 15
  MaxQuotes = 2
  MaxTime = 1
  Switches = {"emergencyMode", "symbolValid"}
  Lifetimes = {0}
  CloseOrderTypes = {"LIMIT", "MARKET"}
  OpenFeeRate = 2
  CloseFeeRate = 1
  FeeScale = 4
  MinQuoteValue = 2
  MaxLeverage = 3
  PendingQuotesValidLength = 2
  MaxPartyAConnectionLimit = 1
  ForceCancelCooldown = 0
  ForceCancelCloseCooldown = 0
INVARIANTS
  TypeOK
  RequestWithinOpen
  ListsMatchStatus
  PoolsMatchQuotes
  ConnectionsMatch
  ListsBounded
  ExpiryAlwaysPossible
  ClaimsBacked
  FeesReserved
CHECK_DEADLOCK FALSE
