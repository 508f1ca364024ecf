SPECIFICATION Spec
CONSTANTS
  a1 = a1
  a2 = a2
  b1 = b1
  b2 = b2
  Zero = Zero
  PartyA = {a1, a2}
  PartyB = {b1, b2}
  CrossPartyB = {b2}
  QuoteIds <- MCQuoteIds
  Book <- MCBook
  PartyAAllocation <- MCPartyAAllocation
  PartyBAllocation <- MCPartyBAllocation
  Resolutions = {2}
  FreeBalance = 6
  Prices = {3, 2, 1}
  Excess = {2}
  Amounts = {6}
  MaxTransfers = 1
  MaxLiquidationProfitPerPosition = 1
  UintModulus = 1000000
INVARIANTS
  SettlementsMatch
  SettlementsCovered
PROPERTIES
  LiquidationEnds
CHECK_DEADLOCK FALSE
