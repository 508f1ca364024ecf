SPECIFICATION Spec
CONSTANTS
  u1 = u1
  pool = pool
  b1 = b1
  User = {u1, pool}
  InvalidBridgedAmountsPool = pool
  Bridge = {b1}
  Scale = 2
  Amounts = {1}
  PledgeAmounts = {1}
  InitialTokens = 1
  MaxTokens = 2
  MaxDebt = 1
  MaxBridgeTransactions = 1
  MaxExternalTransfers = 1
  MaxTime = 1
  WithdrawCooldownPeriod = 1
  DeallocateDebounceTime = 1
  BalanceLimitPerUser = 1
  LegacyWithdrawalDeprecated = FALSE
  Suspendable = {u1}
  Paused = {}
  PartsOffered <- ClassicOnly
  MaxRequests = 0
  SpeedUpWhitelist = {u1}
  NewCooldowns = {0}
  MinWithdrawCooldown = 0
  PureVirtualCancelBlackout = 1
INVARIANTS
  ClaimsBacked
CHECK_DEADLOCK FALSE
