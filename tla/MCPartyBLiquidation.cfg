SPECIFICATION FairLiquidationSpec
CONSTANTS
  a1 = a1
  a2 = a2
  b1 = b1
  b2 = b2
  PartyA = {a1, a2}
  PartyB = {b1}
  Zero = Zero
  CrossPartyB = {}
  Offers <- PairOffers
  Prices = {3}
  Upnls = {0}
  InitialAllocation = 12
  MaxQuotes = 2
  MaxTime = 1
  Switches = {"emergencyMode", "symbolValid"}
  Lifetimes = {0}
  CloseOrderTypes = {"LIMIT"}
  OpenFeeRate = 1
  CloseFeeRate = 1
  FeeScale = 4
  MinQuoteValue = 2
  MaxLeverage = 3
  PendingQuotesValidLength = 2
  MaxPartyAConnectionLimit = 1
  ForceCancelCooldown = 0
  ForceCancelCloseCooldown = 0
  LiquidationUpnls <- SeizingUpnls
  LiquidatorShare = 1
INVARIANTS
  PoolsMatchLivePairs
  SharesBacked
PROPERTIES
  LifecycleKept
  PairFrozen
  EndsClean
  CancelRequestEnds
  CloseRequestEnds
CHECK_DEADLOCK FALSE
