----------------------------- MODULE Collateral -----------------------------
(***************************************************************************)
(* The free collateral of the diamond and everything that spends it beside *)
(* trading: deposits, allocations, transfers, bridges, external transfers, *)
(* pledges and the legacy withdrawal.  They all share one token balance of *)
(* the contract and one counter, withdrawLockedBalance, of what is already *)
(* promised.  Withdrawal requests are added in Withdraw.                   *)
(*                                                                         *)
(* Internal balances have 18 decimals, tokens the collateral's: one token  *)
(* is Scale units.  A virtual provider credits balances without tokens and *)
(* pays out elsewhere; providersDebt is its side of the books, which the   *)
(* contract does not keep.  Roles and registries of providers and relayers *)
(* restrict callers and are left out, the registry of bridges decides a    *)
(* payment and is not.  Pledges are those in the collateral token;         *)
(* PledgeAmounts = {} stands for pledges in other tokens only.             *)
(***************************************************************************)
EXTENDS Sums

CONSTANTS
  User,                       \* accounts, the pool of invalid bridged amounts among them
  InvalidBridgedAmountsPool,
  Bridge,
  Scale,                      \* units of balance per token
  Amounts,                    \* amounts of one call
  PledgeAmounts,
  InitialTokens,              \* what each user has deposited at the start
  MaxTokens,                  \* bound on the contract's token balance
  MaxDebt,                    \* bound on what providers owe
  MaxBridgeTransactions, MaxExternalTransfers,
  MaxTime,
  WithdrawCooldownPeriod, DeallocateDebounceTime, BalanceLimitPerUser,
  LegacyWithdrawalDeprecated,
  Suspendable,                \* the users that may be suspended
  Paused                      \* which pauses are on

ASSUME AccountsAssumption ==
  /\ IsFiniteSet(User) /\ InvalidBridgedAmountsPool \in User
  /\ Scale \in Nat \ {0}
  /\ Amounts \subseteq Nat \ {0} /\ PledgeAmounts \subseteq Nat \ {0}
  /\ InitialTokens \in Nat /\ MaxTokens \in Nat /\ MaxDebt \in Nat
  /\ MaxBridgeTransactions \in Nat /\ MaxExternalTransfers \in Nat /\ MaxTime \in Nat
  /\ WithdrawCooldownPeriod \in Nat /\ DeallocateDebounceTime \in Nat
  /\ BalanceLimitPerUser \in Nat
  /\ LegacyWithdrawalDeprecated \in BOOLEAN /\ Suspendable \subseteq User
  /\ Paused \subseteq {"accounting", "internalTransfer", "externalTransfer"}

VARIABLES
  balances, allocatedBalances,       \* [User -> units]
  deallocateTimestamp,
  suspendedAddresses,                \* the set of suspended users
  tokenBalance,                      \* collateral.balanceOf(address(this))
  withdrawLockedBalance,             \* tokens promised
  bridges,                           \* registered bridges
  bridgeTransactions,                \* NoTransaction for ids not yet used
  externalTransfers,
  pledgeDeposit, pledgeWithdrawalRequests,    \* [User -> tokens], 0 for none
  providersDebt,
  now

accounts  == <<balances, allocatedBalances, deallocateTimestamp>>
promises  == <<bridgeTransactions, externalTransfers>>
pledges   == <<pledgeDeposit, pledgeWithdrawalRequests>>
registers == <<suspendedAddresses, bridges, now>>
collateralVars ==
  <<accounts, tokenBalance, withdrawLockedBalance, promises, pledges, registers, providersDebt>>

BridgeTransactionIds == 1..MaxBridgeTransactions
ExternalTransferIds  == 1..MaxExternalTransfers

BridgeTransactionType ==
  [status : {"NONE", "RECEIVED", "SUSPENDED", "WITHDRAWN"}, user : User,
   bridge : Bridge \cup {"none"}, amount : Nat, timestamp : Nat]
ExternalTransferType ==
  [status : {"NONE", "PENDING", "COMPLETED", "CANCELED"}, sender : User, amount : Nat]

NoTransaction == [status |-> "NONE", user |-> InvalidBridgedAmountsPool, bridge |-> "none",
                  amount |-> 0, timestamp |-> 0]
NoTransfer    == [status |-> "NONE", sender |-> InvalidBridgedAmountsPool, amount |-> 0]

----------------------------------------------------------------------------

To18Decimals(n) == n * Scale

\* A pause of accounting stops the other two as well.
NotPaused(what) == {what, "accounting"} \cap Paused = {}
NotSuspended(u) == u \notin suspendedAddresses

Mutant_Available_IgnoresLock(n) == tokenBalance >= n

\* balanceOf(this) - withdrawLockedBalance >= n, the subtraction being checked.
Available(n) == tokenBalance >= withdrawLockedBalance + n

Mutant_Debit_Unchecked(u, n) == balances' = [balances EXCEPT ![u] = @ - n]

Credit(u, n) == balances' = [balances EXCEPT ![u] = @ + n]
Debit(u, n)  == balances[u] >= n /\ balances' = [balances EXCEPT ![u] = @ - n]

\* Records are numbered in the order they are made: id is the first not yet used.
IsNext(id, records) ==
  records[id].status = "NONE" /\ \A earlier \in 1..id - 1 : records[earlier].status # "NONE"

\* What a step on balances alone leaves as it is.
OnlyBalances == UNCHANGED <<tokenBalance, withdrawLockedBalance, promises, pledges,
                            registers, providersDebt>>

----------------------------------------------------------------------------
(* Accounts.                                                               *)

Deposit(u, n) ==
  /\ NotPaused("accounting")
  /\ tokenBalance + n <= MaxTokens
  /\ tokenBalance' = tokenBalance + n
  /\ Credit(u, To18Decimals(n))
  /\ UNCHANGED <<allocatedBalances, deallocateTimestamp, withdrawLockedBalance, promises,
                 pledges, registers, providersDebt>>

\* depositAndAllocate and depositAndAllocateFor.
DepositAndAllocate(u, n) ==
  /\ NotPaused("accounting") /\ NotSuspended(u)
  /\ tokenBalance + n <= MaxTokens
  /\ tokenBalance' = tokenBalance + n
  /\ allocatedBalances[u] + To18Decimals(n) <= BalanceLimitPerUser
  /\ allocatedBalances' = [allocatedBalances EXCEPT ![u] = @ + To18Decimals(n)]
  /\ UNCHANGED <<balances, deallocateTimestamp, withdrawLockedBalance, promises, pledges,
                 registers, providersDebt>>

VirtualDepositFor(u, n) ==
  /\ NotPaused("accounting")
  /\ providersDebt + n <= MaxDebt
  /\ Credit(u, n)
  /\ providersDebt' = providersDebt + n
  /\ UNCHANGED <<allocatedBalances, deallocateTimestamp, tokenBalance,
                 withdrawLockedBalance, promises, pledges, registers>>

VirtualDepositAndAllocateFor(u, n) ==
  /\ NotPaused("accounting")
  /\ providersDebt + n <= MaxDebt
  /\ allocatedBalances[u] + n <= BalanceLimitPerUser
  /\ allocatedBalances' = [allocatedBalances EXCEPT ![u] = @ + n]
  /\ providersDebt' = providersDebt + n
  /\ UNCHANGED <<balances, deallocateTimestamp, tokenBalance, withdrawLockedBalance,
                 promises, pledges, registers>>

DepositVirtualFunds(n) ==
  /\ NotPaused("accounting")
  /\ tokenBalance + n <= MaxTokens
  /\ tokenBalance' = tokenBalance + n
  /\ providersDebt' = providersDebt - To18Decimals(n)
  /\ UNCHANGED <<accounts, withdrawLockedBalance, promises, pledges, registers>>

\* The withdrawal without a request, until it is deprecated.
LegacyWithdraw(u, n) ==
  /\ NotPaused("accounting") /\ ~LegacyWithdrawalDeprecated
  /\ NotSuspended(u)
  /\ now >= deallocateTimestamp[u] + WithdrawCooldownPeriod
  /\ Available(n)
  /\ Debit(u, To18Decimals(n))
  /\ tokenBalance' = tokenBalance - n
  /\ UNCHANGED <<allocatedBalances, deallocateTimestamp, withdrawLockedBalance, promises,
                 pledges, registers, providersDebt>>

WithdrawSuspendedUserFunds(u, recipient, n) ==
  /\ NotPaused("accounting")
  /\ ~NotSuspended(u)
  /\ balances[u] >= To18Decimals(n)
  /\ balances' = [x \in User |->
       balances[x] - (IF x = u THEN To18Decimals(n) ELSE 0)
                   + (IF x = recipient THEN To18Decimals(n) ELSE 0)]
  /\ UNCHANGED <<allocatedBalances, deallocateTimestamp>> /\ OnlyBalances

DeallocateSuspendedUserFunds(u, n) ==
  /\ NotPaused("accounting")
  /\ ~NotSuspended(u)
  /\ allocatedBalances[u] >= n
  /\ allocatedBalances' = [allocatedBalances EXCEPT ![u] = @ - n]
  /\ Credit(u, n)
  /\ UNCHANGED deallocateTimestamp /\ OnlyBalances

Allocate(u, n) ==
  /\ NotPaused("accounting")
  /\ NotSuspended(u)
  /\ allocatedBalances[u] + n <= BalanceLimitPerUser
  /\ Debit(u, n)
  /\ allocatedBalances' = [allocatedBalances EXCEPT ![u] = @ + n]
  /\ UNCHANGED deallocateTimestamp /\ OnlyBalances

\* The oracle's verdict on the trading side is favourable.
Deallocate(u, n) ==
  /\ NotPaused("accounting")
  /\ now >= deallocateTimestamp[u] + DeallocateDebounceTime
  /\ allocatedBalances[u] >= n
  /\ allocatedBalances' = [allocatedBalances EXCEPT ![u] = @ - n]
  /\ Credit(u, n)
  /\ deallocateTimestamp' = [deallocateTimestamp EXCEPT ![u] = now]
  /\ OnlyBalances

\* For an account without positions, without a signature and without a debounce.
ZeroUpnlDeallocate(u, n) ==
  /\ allocatedBalances[u] >= n
  /\ allocatedBalances' = [allocatedBalances EXCEPT ![u] = @ - n]
  /\ Credit(u, n)
  /\ deallocateTimestamp' = [deallocateTimestamp EXCEPT ![u] = now]
  /\ OnlyBalances

InternalTransfer(u, v, n) ==
  /\ NotPaused("internalTransfer")
  /\ NotSuspended(u) /\ NotSuspended(v)
  /\ allocatedBalances[v] + n <= BalanceLimitPerUser
  /\ Debit(u, n)
  /\ allocatedBalances' = [allocatedBalances EXCEPT ![v] = @ + n]
  /\ UNCHANGED deallocateTimestamp /\ OnlyBalances

\* What the account layer calls for a virtual account that pays its parent.
InternalTransferToBalance(u, v, n) ==
  /\ balances[u] >= n
  /\ balances' = [x \in User |->
       balances[x] - (IF x = u THEN n ELSE 0) + (IF x = v THEN n ELSE 0)]
  /\ deallocateTimestamp' = [deallocateTimestamp EXCEPT ![v] = now]
  /\ UNCHANGED allocatedBalances /\ OnlyBalances

SuspendedAddress(u) ==
  /\ suspendedAddresses' = suspendedAddresses \cup {u}
  /\ UNCHANGED <<accounts, tokenBalance, withdrawLockedBalance, promises, pledges, bridges,
                 now, providersDebt>>

UnsuspendedAddress(u) ==
  /\ suspendedAddresses' = suspendedAddresses \ {u}
  /\ UNCHANGED <<accounts, tokenBalance, withdrawLockedBalance, promises, pledges, bridges,
                 now, providersDebt>>

----------------------------------------------------------------------------
(* Bridges.                                                                *)

TransferToBridge(u, n, b, t) ==
  /\ NotPaused("accounting") /\ NotSuspended(u)
  /\ b \in bridges
  /\ Debit(u, To18Decimals(n))
  /\ Available(n)
  /\ withdrawLockedBalance' = withdrawLockedBalance + n
  /\ IsNext(t, bridgeTransactions)
  /\ bridgeTransactions' =
       [bridgeTransactions EXCEPT ![t] =
          [status |-> "RECEIVED", user |-> u, bridge |-> b, amount |-> n, timestamp |-> now]]
  /\ UNCHANGED <<allocatedBalances, deallocateTimestamp, tokenBalance, externalTransfers,
                 pledges, registers, providersDebt>>

Payable(t, b) ==
  /\ bridgeTransactions[t].status = "RECEIVED"
  /\ bridgeTransactions[t].bridge = b

\* One or several transactions of bridge b in one call.
WithdrawReceivedBridgeValues(b, S) ==
  LET total == Total(S, [t \in S |-> bridgeTransactions[t].amount]) IN
  /\ NotPaused("accounting")
  /\ b \in bridges
  /\ S # {}
  /\ \A t \in S : /\ Payable(t, b)
                  /\ now >= WithdrawCooldownPeriod + bridgeTransactions[t].timestamp
  /\ bridgeTransactions' = [t \in BridgeTransactionIds |->
       IF t \in S THEN [bridgeTransactions[t] EXCEPT !.status = "WITHDRAWN"]
                  ELSE bridgeTransactions[t]]
  /\ withdrawLockedBalance >= total
  /\ withdrawLockedBalance' = withdrawLockedBalance - total
  /\ tokenBalance >= total
  /\ tokenBalance' = tokenBalance - total
  /\ UNCHANGED <<accounts, externalTransfers, pledges, registers, providersDebt>>

SuspendBridgeTransaction(t) ==
  /\ bridgeTransactions[t].status = "RECEIVED"
  /\ bridgeTransactions' = [bridgeTransactions EXCEPT ![t].status = "SUSPENDED"]
  /\ UNCHANGED <<accounts, tokenBalance, withdrawLockedBalance, externalTransfers, pledges,
                 registers, providersDebt>>

InvalidPart(t, valid) == bridgeTransactions[t].amount - valid

\* What is not valid goes to the pool's account and is no longer promised.
RestoreBridgeTransaction(t, valid) ==
  /\ bridgeTransactions[t].status = "SUSPENDED"
  /\ valid <= bridgeTransactions[t].amount
  /\ Credit(InvalidBridgedAmountsPool, To18Decimals(bridgeTransactions[t].amount - valid))
  /\ withdrawLockedBalance >= InvalidPart(t, valid)
  /\ withdrawLockedBalance' = withdrawLockedBalance - InvalidPart(t, valid)
  /\ bridgeTransactions' =
       [bridgeTransactions EXCEPT ![t].status = "RECEIVED", ![t].amount = valid]
  /\ UNCHANGED <<allocatedBalances, deallocateTimestamp, tokenBalance, externalTransfers,
                 pledges, registers, providersDebt>>

SetBridge(b) ==
  /\ bridges' \in {bridges \cup {b}, bridges \ {b}}
  /\ UNCHANGED <<accounts, tokenBalance, withdrawLockedBalance, promises, pledges,
                 suspendedAddresses, now, providersDebt>>

----------------------------------------------------------------------------
(* External transfers.                                                     *)

ExternalTransfer(u, n) ==
  /\ NotPaused("externalTransfer") /\ NotSuspended(u)
  /\ Debit(u, To18Decimals(n))
  /\ Available(n)
  /\ tokenBalance' = tokenBalance - n
  /\ UNCHANGED <<allocatedBalances, deallocateTimestamp, withdrawLockedBalance, promises,
                 pledges, registers, providersDebt>>

VirtualExternalTransfer(u, n, i) ==
  /\ NotPaused("externalTransfer") /\ NotSuspended(u)
  /\ Debit(u, To18Decimals(n))
  /\ IsNext(i, externalTransfers)
  /\ externalTransfers' = [externalTransfers EXCEPT ![i] =
                             [status |-> "PENDING", sender |-> u, amount |-> n]]
  /\ UNCHANGED <<allocatedBalances, deallocateTimestamp, tokenBalance,
                 withdrawLockedBalance, bridgeTransactions, pledges, registers, providersDebt>>

\* The provider takes over what it now credits elsewhere.
AcceptVirtualExternalTransfer(i) ==
  /\ NotPaused("externalTransfer")
  /\ externalTransfers[i].status = "PENDING"
  /\ externalTransfers' = [externalTransfers EXCEPT ![i].status = "COMPLETED"]
  /\ providersDebt' = providersDebt - To18Decimals(externalTransfers[i].amount)
  /\ UNCHANGED <<accounts, tokenBalance, withdrawLockedBalance, bridgeTransactions, pledges,
                 registers>>

Mutant_MayCancelTransfer_Completed(i) ==
  /\ NotSuspended(externalTransfers[i].sender)
  /\ externalTransfers[i].status \in {"PENDING", "COMPLETED"}

MayCancelTransfer(i) ==
  /\ NotSuspended(externalTransfers[i].sender)
  /\ externalTransfers[i].status = "PENDING"

CancelVirtualExternalTransfer(i) ==
  /\ NotPaused("externalTransfer")
  /\ MayCancelTransfer(i)
  /\ Credit(externalTransfers[i].sender, To18Decimals(externalTransfers[i].amount))
  /\ externalTransfers' = [externalTransfers EXCEPT ![i].status = "CANCELED"]
  /\ UNCHANGED <<allocatedBalances, deallocateTimestamp, tokenBalance,
                 withdrawLockedBalance, bridgeTransactions, pledges, registers, providersDebt>>

----------------------------------------------------------------------------
(* Pledges in the collateral token.                                        *)

OnlyPledges == UNCHANGED <<accounts, withdrawLockedBalance, promises, registers, providersDebt>>

DepositPledge(u, n) ==
  /\ NotPaused("accounting") /\ NotSuspended(u)
  /\ tokenBalance + n <= MaxTokens
  /\ tokenBalance' = tokenBalance + n
  /\ pledgeDeposit' = [pledgeDeposit EXCEPT ![u] = @ + n]
  /\ UNCHANGED pledgeWithdrawalRequests /\ OnlyPledges

RequestPledgeWithdraw(u, n) ==
  /\ NotPaused("accounting") /\ NotSuspended(u)
  /\ pledgeWithdrawalRequests[u] = 0
  /\ pledgeDeposit[u] >= n
  /\ pledgeWithdrawalRequests' = [pledgeWithdrawalRequests EXCEPT ![u] = n]
  /\ UNCHANGED <<tokenBalance, pledgeDeposit>> /\ OnlyPledges

CancelPledgeWithdraw(u) ==
  /\ NotPaused("accounting") /\ NotSuspended(u)
  /\ pledgeWithdrawalRequests[u] # 0
  /\ pledgeWithdrawalRequests' = [pledgeWithdrawalRequests EXCEPT ![u] = 0]
  /\ UNCHANGED <<tokenBalance, pledgeDeposit>> /\ OnlyPledges

\* The manager may grant less than was asked for; the request is gone either way.
AcceptPledgeWithdraw(u, n) ==
  /\ NotPaused("accounting")
  /\ pledgeWithdrawalRequests[u] # 0 /\ pledgeWithdrawalRequests[u] >= n
  /\ pledgeDeposit[u] >= n
  /\ pledgeDeposit' = [pledgeDeposit EXCEPT ![u] = @ - n]
  /\ pledgeWithdrawalRequests' = [pledgeWithdrawalRequests EXCEPT ![u] = 0]
  /\ tokenBalance >= n
  /\ tokenBalance' = tokenBalance - n
  /\ OnlyPledges

SlashPledge(u, n) ==
  /\ NotPaused("accounting")
  /\ pledgeDeposit[u] >= n
  /\ pledgeDeposit' = [pledgeDeposit EXCEPT ![u] = @ - n]
  /\ tokenBalance >= n
  /\ tokenBalance' = tokenBalance - n
  /\ UNCHANGED pledgeWithdrawalRequests /\ OnlyPledges

----------------------------------------------------------------------------

CollateralTick ==
  /\ now < MaxTime
  /\ now' = now + 1
  /\ UNCHANGED <<accounts, tokenBalance, withdrawLockedBalance, promises, pledges,
                 suspendedAddresses, bridges, providersDebt>>

CollateralInit ==
  /\ balances = [u \in User |-> To18Decimals(InitialTokens)]
  /\ allocatedBalances = [u \in User |-> 0]
  /\ deallocateTimestamp = [u \in User |-> 0]
  /\ suspendedAddresses = {}
  /\ tokenBalance = InitialTokens * Cardinality(User)
  /\ withdrawLockedBalance = 0
  /\ bridges = Bridge
  /\ bridgeTransactions = [t \in BridgeTransactionIds |-> NoTransaction]
  /\ externalTransfers = [i \in ExternalTransferIds |-> NoTransfer]
  /\ pledgeDeposit = [u \in User |-> 0]
  /\ pledgeWithdrawalRequests = [u \in User |-> 0]
  /\ providersDebt = 0
  /\ now = 0

AccountStep ==
  \/ \E n \in Amounts : DepositVirtualFunds(n)
  \/ \E u \in User, n \in Amounts :
       \/ Deposit(u, n) \/ DepositAndAllocate(u, n)
       \/ VirtualDepositFor(u, n) \/ VirtualDepositAndAllocateFor(u, n)
       \/ LegacyWithdraw(u, n)
       \/ DeallocateSuspendedUserFunds(u, n) \/ Allocate(u, n) \/ Deallocate(u, n)
       \/ ZeroUpnlDeallocate(u, n)
  \/ \E u, v \in User, n \in Amounts :
       \/ WithdrawSuspendedUserFunds(u, v, n)
       \/ InternalTransfer(u, v, n) \/ InternalTransferToBalance(u, v, n)
  \/ \E u \in Suspendable : SuspendedAddress(u) \/ UnsuspendedAddress(u)

BridgeStep ==
  \/ \E u \in User, n \in Amounts, b \in Bridge, t \in BridgeTransactionIds :
       TransferToBridge(u, n, b, t)
  \/ \E b \in Bridge, S \in SUBSET BridgeTransactionIds : WithdrawReceivedBridgeValues(b, S)
  \/ \E t \in BridgeTransactionIds :
       \/ SuspendBridgeTransaction(t)
       \/ \E valid \in 0..bridgeTransactions[t].amount : RestoreBridgeTransaction(t, valid)
  \/ \E b \in Bridge : SetBridge(b)

ExternalTransferStep ==
  \/ \E u \in User, n \in Amounts : ExternalTransfer(u, n)
  \/ \E u \in User, n \in Amounts, i \in ExternalTransferIds : VirtualExternalTransfer(u, n, i)
  \/ \E i \in ExternalTransferIds :
       AcceptVirtualExternalTransfer(i) \/ CancelVirtualExternalTransfer(i)

PledgeStep ==
  \E u \in User :
    \/ CancelPledgeWithdraw(u)
    \/ \E n \in PledgeAmounts :
         \/ DepositPledge(u, n) \/ RequestPledgeWithdraw(u, n)
         \/ SlashPledge(u, n)
    \/ \E n \in PledgeAmounts \cup {0} : AcceptPledgeWithdraw(u, n)

CollateralStep ==
  AccountStep \/ BridgeStep \/ ExternalTransferStep \/ PledgeStep \/ CollateralTick
=============================================================================
