SPECIFICATION FairSpec
CONSTANTS
  u1 = u1
  pool = pool
  b1 = b1
  User = {u1}
  InvalidBridgedAmountsPool = u1
  Bridge = {b1}
  Scale = 1
  Amounts = {1}
  PledgeAmounts = {}
  InitialTokens = 1
  MaxTokens = 1
  MaxDebt = 1
  MaxBridgeTransactions = 0
  MaxExternalTransfers = 0
  MaxTime = 2
  WithdrawCooldownPeriod = 1
  DeallocateDebounceTime = 1
  BalanceLimitPerUser = 1
  LegacyWithdrawalDeprecated = TRUE
  Suspendable = {u1}
  Paused = {"internalTransfer", "externalTransfer"}
  PartsOffered <- AllKinds
  MaxRequests = 2
  SpeedUpWhitelist = {u1}
  NewCooldowns = {1}
  MinWithdrawCooldown = 0
  PureVirtualCancelBlackout = 1
INVARIANTS
  TypeOK
  ReserveMatchesRequests
  ClaimsBacked
  ReserveBacked
PROPERTIES
  SettledIsFinal
  ClassicIsPaid
CHECK_DEADLOCK FALSE
