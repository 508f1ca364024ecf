SPECIFICATION Spec
CONSTANTS
  u1 = u1
  pool = pool
  b1 = b1
  User = {u1}
  InvalidBridgedAmountsPool = u1
  Bridge = {}
  Scale = 1
  Amounts = {1}
  PledgeAmounts = {}
  InitialTokens = 1
  MaxTokens = 1
  MaxDebt = 0
  MaxBridgeTransactions = 0
  MaxExternalTransfers = 0
  MaxTime = 1
  WithdrawCooldownPeriod = 1
  DeallocateDebounceTime = 1
  BalanceLimitPerUser = 1
  LegacyWithdrawalDeprecated = TRUE
  Suspendable = {u1}
  Paused = {"internalTransfer", "externalTransfer"}
  PartsOffered <- VirtualOnly
  MaxRequests = 2
  SpeedUpWhitelist = {u1}
  NewCooldowns = {0, 2}
  MinWithdrawCooldown = 0
  PureVirtualCancelBlackout = 1
INVARIANTS
  PendingCancels
CHECK_DEADLOCK FALSE
