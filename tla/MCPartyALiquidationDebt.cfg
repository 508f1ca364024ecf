SPECIFICATION Spec
CONSTANTS
  a1 = a1
  a2 = a2
  b1 = b1
  b2 = b2
  Zero = Zero
  PartyA = {a1, a2}
  PartyB = {b1, b2}
  CrossPartyB = {}
  QuoteIds <- OverdueQuoteIds
  Book <- OverdueBook
  PartyAAllocation <- OverdueAllocation
  PartyBAllocation <- OverdueBuckets
  Resolutions = {}
  FreeBalance = 0
  Prices = {1}
  Excess = {}
  Amounts = {1}
  MaxTransfers = 0
  MaxLiquidationProfitPerPosition = 1
  UintModulus = 1000000
INVARIANTS
  ClaimsBacked
CHECK_DEADLOCK FALSE
