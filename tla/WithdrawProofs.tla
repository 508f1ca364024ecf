--------------------------- MODULE WithdrawProofs ---------------------------
(***************************************************************************)
(* That the reserve of Withdraw is exact and backed, that a settled        *)
(* request is final, and that what everybody may claim of the contract is  *)
(* what it holds, for every set of users, bridges, amounts and parts.      *)
(***************************************************************************)
EXTENDS Withdraw, SumsProofs

----------------------------------------------------------------------------
(* Types.                                                                  *)

LEMMA ScaledNat ==
  ASSUME NEW n \in Nat
  PROVE  To18Decimals(n) \in Nat
BY AccountsAssumption DEF To18Decimals

LEMMA CreditType ==
  ASSUME TypeOK, NEW u \in User, NEW n \in Nat, Credit(u, n)
  PROVE  balances' \in [User -> Nat]
BY DEF TypeOK, Credit

LEMMA DebitType ==
  ASSUME TypeOK, NEW u \in User, NEW n \in Nat, Debit(u, n)
  PROVE  balances' \in [User -> Nat]
BY DEF TypeOK, Debit

\* Steps that change nothing but balances and who holds them.
LEMMA OnlyBalancesType ==
  ASSUME TypeOK, OnlyBalances, UNCHANGED requestVars,
         balances' \in [User -> Nat], allocatedBalances' \in [User -> Nat],
         deallocateTimestamp' \in [User -> 0..MaxTime]
  PROVE  TypeOK'
BY DEF TypeOK, OnlyBalances, requestVars, promises, pledges, registers

LEMMA AccountType ==
  ASSUME TypeOK, UNCHANGED requestVars,
         NEW u \in User, NEW v \in User, NEW n \in Amounts,
         \/ Allocate(u, n) \/ Deallocate(u, n) \/ ZeroUpnlDeallocate(u, n)
         \/ DeallocateSuspendedUserFunds(u, n) \/ WithdrawSuspendedUserFunds(u, v, n)
         \/ InternalTransfer(u, v, n) \/ InternalTransferToBalance(u, v, n)
  PROVE  TypeOK'
<1>0. n \in Nat /\ To18Decimals(n) \in Nat
  BY AccountsAssumption, ScaledNat
<1>00. /\ balances \in [User -> Nat] /\ allocatedBalances \in [User -> Nat]
       /\ deallocateTimestamp \in [User -> 0..MaxTime] /\ now \in 0..MaxTime
  BY DEF TypeOK
<1>1. CASE Allocate(u, n)
  BY <1>0, <1>00, <1>1, DebitType, OnlyBalancesType DEF Allocate
<1>2. CASE Deallocate(u, n)
  BY <1>0, <1>00, <1>2, CreditType, OnlyBalancesType DEF Deallocate
<1>3. CASE ZeroUpnlDeallocate(u, n)
  BY <1>0, <1>00, <1>3, CreditType, OnlyBalancesType DEF ZeroUpnlDeallocate
<1>4. CASE DeallocateSuspendedUserFunds(u, n)
  BY <1>0, <1>00, <1>4, CreditType, OnlyBalancesType DEF DeallocateSuspendedUserFunds
<1>5. CASE WithdrawSuspendedUserFunds(u, v, n)
  <2>1. balances' \in [User -> Nat]
    BY <1>0, <1>00, <1>5 DEF WithdrawSuspendedUserFunds
  <2>. QED
    BY <1>00, <1>5, <2>1, OnlyBalancesType DEF WithdrawSuspendedUserFunds
<1>6. CASE InternalTransfer(u, v, n)
  BY <1>0, <1>00, <1>6, DebitType, OnlyBalancesType DEF InternalTransfer
<1>7. CASE InternalTransferToBalance(u, v, n)
  <2>1. balances' \in [User -> Nat]
    BY <1>0, <1>00, <1>7 DEF InternalTransferToBalance
  <2>. QED
    BY <1>00, <1>7, <2>1, OnlyBalancesType DEF InternalTransferToBalance
<1>. QED
  BY <1>1, <1>2, <1>3, <1>4, <1>5, <1>6, <1>7

LEMMA FundsType ==
  ASSUME TypeOK, UNCHANGED requestVars, NEW u \in User, NEW n \in Amounts,
         \/ Deposit(u, n) \/ DepositAndAllocate(u, n) \/ DepositVirtualFunds(n)
         \/ VirtualDepositFor(u, n) \/ VirtualDepositAndAllocateFor(u, n)
         \/ LegacyWithdraw(u, n) \/ ExternalTransfer(u, n)
  PROVE  TypeOK'
<1>0. n \in Nat /\ To18Decimals(n) \in Nat
  BY AccountsAssumption, ScaledNat
<1>. USE DEF TypeOK, requestVars, promises, pledges, registers, accounts
<1>1. CASE Deposit(u, n)
  BY <1>0, <1>1, CreditType DEF Deposit
<1>2. CASE DepositAndAllocate(u, n)
  BY <1>0, <1>2 DEF DepositAndAllocate
<1>3. CASE DepositVirtualFunds(n)
  BY <1>0, <1>3 DEF DepositVirtualFunds
<1>4. CASE VirtualDepositFor(u, n)
  BY <1>0, <1>4, CreditType DEF VirtualDepositFor
<1>5. CASE VirtualDepositAndAllocateFor(u, n)
  BY <1>0, <1>5 DEF VirtualDepositAndAllocateFor
<1>6. CASE LegacyWithdraw(u, n)
  BY <1>0, <1>6, DebitType DEF LegacyWithdraw, Available
<1>7. CASE ExternalTransfer(u, n)
  BY <1>0, <1>7, DebitType DEF ExternalTransfer, Available
<1>. QED
  BY <1>1, <1>2, <1>3, <1>4, <1>5, <1>6, <1>7

LEMMA BridgeTransactionFields ==
  ASSUME TypeOK, NEW t \in BridgeTransactionIds
  PROVE  /\ bridgeTransactions[t] \in BridgeTransactionType
         /\ bridgeTransactions[t].amount \in Nat
BY DEF TypeOK, BridgeTransactionType

\* The total of a batch, counted in the contract's records.
LEMMA BatchTotal ==
  ASSUME TypeOK, NEW S \in SUBSET BridgeTransactionIds
  PROVE  Total(S, [t \in S |-> bridgeTransactions[t].amount]) \in Nat
<1>1. IsFiniteSet(S)
  <2>1. IsFiniteSet(BridgeTransactionIds)
    BY AccountsAssumption, FS_Interval DEF BridgeTransactionIds
  <2>. QED
    BY <2>1, FS_Subset
<1>2. \A t \in S : [x \in S |-> bridgeTransactions[x].amount][t] \in Nat
  BY BridgeTransactionFields
<1>. QED
  BY <1>1, <1>2, UnitsFinite

LEMMA BridgeTransactionUpdate ==
  ASSUME NEW r \in BridgeTransactionType, NEW n \in Nat,
         NEW status \in {"NONE", "RECEIVED", "SUSPENDED", "WITHDRAWN"}
  PROVE  /\ [r EXCEPT !.status = status] \in BridgeTransactionType
         /\ [r EXCEPT !.status = status, !.amount = n] \in BridgeTransactionType
BY DEF BridgeTransactionType

LEMMA BridgeType ==
  ASSUME TypeOK, UNCHANGED requestVars, BridgeStep
  PROVE  TypeOK'
<1>. USE DEF requestVars, pledges, registers, accounts, promises
<1>1. ASSUME NEW u \in User, NEW n \in Amounts, NEW b \in Bridge,
             NEW t \in BridgeTransactionIds, TransferToBridge(u, n, b, t)
      PROVE  TypeOK'
  <2>1. n \in Nat /\ To18Decimals(n) \in Nat
    BY AccountsAssumption, ScaledNat
  <2>2. balances' \in [User -> Nat]
    BY <1>1, <2>1, DebitType DEF TransferToBridge
  <2>3. bridgeTransactions' \in [BridgeTransactionIds -> BridgeTransactionType]
    <3>1. now \in Nat
      BY DEF TypeOK
    <3>2. [status |-> "RECEIVED", user |-> u, bridge |-> b, amount |-> n, timestamp |-> now]
            \in BridgeTransactionType
      BY <2>1, <3>1 DEF BridgeTransactionType
    <3>. QED
      BY <1>1, <3>2 DEF TransferToBridge, TypeOK
  <2>. QED
    BY <1>1, <2>1, <2>2, <2>3 DEF TransferToBridge, TypeOK
<1>2. ASSUME NEW b \in Bridge, NEW S \in SUBSET BridgeTransactionIds,
             WithdrawReceivedBridgeValues(b, S)
      PROVE  TypeOK'
  <2>. DEFINE total == Total(S, [t \in S |-> bridgeTransactions[t].amount])
  <2>1. total \in Nat
    BY BatchTotal
  <2>2. bridgeTransactions' \in [BridgeTransactionIds -> BridgeTransactionType]
    BY <1>2, BridgeTransactionFields, BridgeTransactionUpdate DEF WithdrawReceivedBridgeValues
  <2>3. /\ withdrawLockedBalance' = withdrawLockedBalance - total
        /\ withdrawLockedBalance >= total
        /\ tokenBalance' = tokenBalance - total /\ tokenBalance >= total
    BY <1>2 DEF WithdrawReceivedBridgeValues
  <2>4. withdrawLockedBalance' \in Nat /\ tokenBalance' \in Nat
    BY <2>1, <2>3 DEF TypeOK
  <2>. HIDE DEF total
  <2>. QED
    BY <1>2, <2>2, <2>4 DEF WithdrawReceivedBridgeValues, TypeOK
<1>3. ASSUME NEW t \in BridgeTransactionIds, SuspendBridgeTransaction(t)
      PROVE  TypeOK'
  <2>1. bridgeTransactions' \in [BridgeTransactionIds -> BridgeTransactionType]
    <3>1. bridgeTransactions' = [bridgeTransactions EXCEPT ![t] =
                                   [bridgeTransactions[t] EXCEPT !.status = "SUSPENDED"]]
      BY <1>3 DEF SuspendBridgeTransaction
    <3>2. [bridgeTransactions[t] EXCEPT !.status = "SUSPENDED"] \in BridgeTransactionType
      BY BridgeTransactionFields, BridgeTransactionUpdate
    <3>. QED
      BY <3>1, <3>2 DEF TypeOK
  <2>. QED
    BY <1>3, <2>1 DEF SuspendBridgeTransaction, TypeOK
<1>4. ASSUME NEW t \in BridgeTransactionIds,
             NEW valid \in 0..bridgeTransactions[t].amount, RestoreBridgeTransaction(t, valid)
      PROVE  TypeOK'
  <2>1. bridgeTransactions[t].amount \in Nat
    BY BridgeTransactionFields
  <2>2. valid \in Nat /\ InvalidPart(t, valid) \in Nat
    BY <2>1 DEF InvalidPart
  <2>3. bridgeTransactions' \in [BridgeTransactionIds -> BridgeTransactionType]
    <3>. DEFINE r == [bridgeTransactions[t] EXCEPT !.status = "RECEIVED", !.amount = valid]
    <3>1. bridgeTransactions' = [bridgeTransactions EXCEPT ![t] = r]
      BY <1>4 DEF RestoreBridgeTransaction
    <3>2. r \in BridgeTransactionType
      BY <2>2, BridgeTransactionFields, BridgeTransactionUpdate
    <3>. HIDE DEF r
    <3>. QED
      BY <3>1, <3>2 DEF TypeOK
  <2>4. balances' \in [User -> Nat]
    <3>1. To18Decimals(InvalidPart(t, valid)) \in Nat
      BY <2>2, ScaledNat
    <3>. QED
      BY AccountsAssumption, <1>4, <3>1, CreditType DEF RestoreBridgeTransaction, InvalidPart
  <2>5. withdrawLockedBalance' \in Nat
    BY <1>4, <2>2 DEF RestoreBridgeTransaction, TypeOK
  <2>. QED
    BY <1>4, <2>3, <2>4, <2>5 DEF RestoreBridgeTransaction, TypeOK
<1>5. ASSUME NEW b \in Bridge, SetBridge(b)
      PROVE  TypeOK'
  BY <1>5 DEF SetBridge, TypeOK
<1>. QED
  BY <1>1, <1>2, <1>3, <1>4, <1>5 DEF BridgeStep

LEMMA TransferUpdate ==
  ASSUME TypeOK, NEW i \in ExternalTransferIds, NEW status \in {"COMPLETED", "CANCELED"},
         externalTransfers' = [externalTransfers EXCEPT ![i].status = status]
  PROVE  externalTransfers' \in [ExternalTransferIds -> ExternalTransferType]
<1>1. [externalTransfers[i] EXCEPT !.status = status] \in ExternalTransferType
  <2>1. externalTransfers[i] \in ExternalTransferType
    BY DEF TypeOK
  <2>. QED
    BY <2>1 DEF ExternalTransferType
<1>2. externalTransfers' = [externalTransfers EXCEPT ![i] =
                              [externalTransfers[i] EXCEPT !.status = status]]
  OBVIOUS
<1>. QED
  BY <1>1, <1>2 DEF TypeOK

LEMMA TransfersType ==
  ASSUME TypeOK, UNCHANGED requestVars, ExternalTransferStep
  PROVE  TypeOK'
<1>1. ASSUME NEW u \in User, NEW n \in Amounts, ExternalTransfer(u, n)
      PROVE  TypeOK'
  BY <1>1, FundsType
<1>2. ASSUME NEW u \in User, NEW n \in Amounts, NEW i \in ExternalTransferIds,
             VirtualExternalTransfer(u, n, i)
      PROVE  TypeOK'
  <2>1. n \in Nat /\ To18Decimals(n) \in Nat
    BY AccountsAssumption, ScaledNat
  <2>2. balances' \in [User -> Nat]
    BY <1>2, <2>1, DebitType DEF VirtualExternalTransfer
  <2>3. externalTransfers' \in [ExternalTransferIds -> ExternalTransferType]
    BY <1>2, <2>1 DEF VirtualExternalTransfer, TypeOK, ExternalTransferType
  <2>. QED
    BY <1>2, <2>2, <2>3
    DEF VirtualExternalTransfer, TypeOK, requestVars, pledges, registers
<1>3. ASSUME NEW i \in ExternalTransferIds, AcceptVirtualExternalTransfer(i)
      PROVE  TypeOK'
  <2>1. externalTransfers' \in [ExternalTransferIds -> ExternalTransferType]
    BY <1>3, TransferUpdate DEF AcceptVirtualExternalTransfer
  <2>2. externalTransfers[i].amount \in Nat
    BY DEF TypeOK, ExternalTransferType
  <2>3. To18Decimals(externalTransfers[i].amount) \in Nat
    BY <2>2, ScaledNat
  <2>4. providersDebt' \in Int
    BY <1>3, <2>3 DEF AcceptVirtualExternalTransfer, TypeOK
  <2>. QED
    BY <1>3, <2>1, <2>4
    DEF AcceptVirtualExternalTransfer, TypeOK, requestVars, pledges, registers, accounts
<1>4. ASSUME NEW i \in ExternalTransferIds, CancelVirtualExternalTransfer(i)
      PROVE  TypeOK'
  <2>1. externalTransfers' \in [ExternalTransferIds -> ExternalTransferType]
    BY <1>4, TransferUpdate DEF CancelVirtualExternalTransfer
  <2>2. externalTransfers[i].amount \in Nat /\ externalTransfers[i].sender \in User
    BY DEF TypeOK, ExternalTransferType
  <2>3. To18Decimals(externalTransfers[i].amount) \in Nat
    BY <2>2, ScaledNat
  <2>4. balances' \in [User -> Nat]
    BY <1>4, <2>2, <2>3, CreditType DEF CancelVirtualExternalTransfer
  <2>. QED
    BY <1>4, <2>1, <2>4
    DEF CancelVirtualExternalTransfer, TypeOK, requestVars, pledges, registers
<1>. QED
  BY <1>1, <1>2, <1>3, <1>4 DEF ExternalTransferStep

LEMMA PledgeType ==
  ASSUME TypeOK, UNCHANGED requestVars, PledgeStep
  PROVE  TypeOK'
<1>. USE DEF TypeOK, requestVars, accounts, promises, registers, OnlyPledges
<1>1. ASSUME NEW u \in User, CancelPledgeWithdraw(u) PROVE TypeOK'
  BY <1>1 DEF CancelPledgeWithdraw
<1>2. ASSUME NEW u \in User, NEW n \in PledgeAmounts, DepositPledge(u, n) PROVE TypeOK'
  BY AccountsAssumption, <1>2 DEF DepositPledge
<1>3. ASSUME NEW u \in User, NEW n \in PledgeAmounts, RequestPledgeWithdraw(u, n)
      PROVE  TypeOK'
  BY AccountsAssumption, <1>3 DEF RequestPledgeWithdraw
<1>4. ASSUME NEW u \in User, NEW n \in PledgeAmounts, SlashPledge(u, n) PROVE TypeOK'
  BY AccountsAssumption, <1>4 DEF SlashPledge
<1>5. ASSUME NEW u \in User, NEW n \in PledgeAmounts \cup {0}, AcceptPledgeWithdraw(u, n)
      PROVE  TypeOK'
  BY AccountsAssumption, <1>5 DEF AcceptPledgeWithdraw
<1>. QED
  BY <1>1, <1>2, <1>3, <1>4, <1>5 DEF PledgeStep

LEMMA CollateralType ==
  ASSUME TypeOK, UNCHANGED requestVars, CollateralStep
  PROVE  TypeOK'
<1>1. CASE AccountStep
  <2>1. ASSUME NEW n \in Amounts, DepositVirtualFunds(n) PROVE TypeOK'
    <3>1. InvalidBridgedAmountsPool \in User
      BY AccountsAssumption
    <3>. QED
      BY <2>1, <3>1, FundsType
  <2>2. ASSUME NEW u \in Suspendable, SuspendedAddress(u) \/ UnsuspendedAddress(u)
        PROVE  TypeOK'
    BY AccountsAssumption, <2>2 DEF SuspendedAddress, UnsuspendedAddress, TypeOK, requestVars, accounts,
                promises, pledges
  <2>. QED
    BY <1>1, <2>1, <2>2, AccountType, FundsType DEF AccountStep
<1>2. CASE CollateralTick
  BY AccountsAssumption, <1>2 DEF CollateralTick, TypeOK, requestVars, accounts, promises, pledges
<1>. QED
  BY <1>1, <1>2, BridgeType, TransfersType, PledgeType DEF CollateralStep

LEMMA PartsNat ==
  ASSUME NEW p \in PartsType
  PROVE  /\ Own(p) \in Nat /\ ByOthers(p) \in Nat /\ TotalAmount(p) \in Nat
         /\ Unlocked(p) = Own(p)
BY DEF PartsType, Own, ByOthers, TotalAmount, Unlocked

LEMMA RequestFields ==
  ASSUME TypeOK, NEW u \in User, NEW i \in RequestIds
  PROVE  /\ withdrawRequests[u][i] \in RequestType
         /\ withdrawRequests[u][i].parts \in PartsType
BY DEF TypeOK, RequestType

LEMMA RequestUpdate ==
  ASSUME TypeOK, NEW u \in User, NEW i \in RequestIds, NEW r \in RequestType,
         withdrawRequests' = [withdrawRequests EXCEPT ![u][i] = r]
  PROVE  withdrawRequests' \in [User -> [RequestIds -> RequestType]]
BY DEF TypeOK

LEMMA StatusUpdate ==
  ASSUME NEW r \in RequestType, NEW status \in OpenRequest \cup Released
  PROVE  [r EXCEPT !.status = status] \in RequestType
BY DEF RequestType

LEMMA SpeedUpUpdate ==
  ASSUME NEW r \in RequestType, NEW c \in NewCooldowns
  PROVE  LET s == [r EXCEPT !.cooldownEndTime = r.timestamp + c,
                            !.isCooldownModified = TRUE]
         IN  s \in RequestType /\ s.status = r.status /\ s.parts = r.parts
<1>1. r.timestamp + c \in Nat
  BY RequestsAssumption DEF RequestType
<1>. QED
  BY <1>1 DEF RequestType

LEMMA SettleType ==
  ASSUME TypeOK, NEW u \in User, NEW i \in RequestIds, NEW status \in Released,
         Settle(u, i, status)
  PROVE  withdrawRequests' \in [User -> [RequestIds -> RequestType]]
<1>1. withdrawRequests' = [withdrawRequests EXCEPT ![u][i] =
                             [withdrawRequests[u][i] EXCEPT !.status = status]]
  BY DEF Settle
<1>2. [withdrawRequests[u][i] EXCEPT !.status = status] \in RequestType
  BY RequestFields, StatusUpdate
<1>. QED
  BY <1>1, <1>2, RequestUpdate

LEMMA RefundType ==
  ASSUME TypeOK, NEW u \in User, NEW i \in RequestIds, NEW status \in Released,
         Refund(u, i, status)
  PROVE  TypeOK'
<1>. DEFINE p == withdrawRequests[u][i].parts
<1>1. p \in PartsType
  BY RequestFields
<1>. HIDE DEF p
<1>2. To18Decimals(TotalAmount(p)) \in Nat /\ Unlocked(p) \in Nat
  BY <1>1, PartsNat, ScaledNat
<1>3. /\ withdrawLockedBalance >= Unlocked(p)
      /\ withdrawLockedBalance' = withdrawLockedBalance - Unlocked(p)
      /\ Credit(u, To18Decimals(TotalAmount(p)))
      /\ Settle(u, i, status)
      /\ UNCHANGED <<tokenBalance, providersDebt>>
  BY DEF Refund, p
<1>4. balances' \in [User -> Nat]
  BY <1>2, <1>3, CreditType
<1>5. withdrawLockedBalance' \in Nat
  BY <1>2, <1>3 DEF TypeOK
<1>6. withdrawRequests' \in [User -> [RequestIds -> RequestType]]
  BY <1>3, SettleType
<1>. QED
  BY <1>3, <1>4, <1>5, <1>6 DEF Settle, TypeOK, promises, pledges, registers

LEMMA UpdateType ==
  ASSUME TypeOK, NEW u \in User, NEW i \in RequestIds, NEW r \in RequestType,
         UpdateRequest(u, i, r)
  PROVE  TypeOK'
<1>1. withdrawRequests' \in [User -> [RequestIds -> RequestType]]
  BY RequestUpdate DEF UpdateRequest
<1>. QED
  BY <1>1 DEF UpdateRequest, TypeOK, collateralVars, accounts, promises, pledges, registers

\* Each step of a request is a new request, a payment, a refund or an update of the
\* record alone, and only an open request is paid, refunded or updated.
LEMMA RequestStepKinds ==
  ASSUME TypeOK, RequestStep
  PROVE  \/ \E u \in User, p \in PartsOffered, speedUp \in BOOLEAN :
              InitiateWithdraw(u, p, speedUp)
         \/ \E u \in User, i \in RequestIds :
              /\ withdrawRequests[u][i].status \in OpenRequest
              /\ \/ FinalizeWithdrawRequest(u, i)
                 \/ \E status \in Released : Refund(u, i, status)
                 \/ \E r \in RequestType :
                      /\ r.status \in OpenRequest /\ r.parts = withdrawRequests[u][i].parts
                      /\ UpdateRequest(u, i, r)
<1>. SUFFICES ASSUME NEW u \in User, NEW i \in RequestIds,
                     \/ FinalizeWithdrawRequest(u, i)
                     \/ AcceptWithdrawRequest(u, i) \/ RejectWithdrawRequest(u, i)
                     \/ RequestCancelWithdraw(u, i) \/ ForceCancelWithdraw(u, i)
                     \/ AcceptWithdrawCancelRequest(u, i) \/ SuspendWithdrawRequest(u, i)
                     \/ \E c \in NewCooldowns : AcceptSpeedUpRequest(u, i, c)
              PROVE  /\ withdrawRequests[u][i].status \in OpenRequest
                     /\ \/ FinalizeWithdrawRequest(u, i)
                        \/ \E status \in Released : Refund(u, i, status)
                        \/ \E r \in RequestType :
                             /\ r.status \in OpenRequest
                             /\ r.parts = withdrawRequests[u][i].parts
                             /\ UpdateRequest(u, i, r)
  BY DEF RequestStep
<1>. DEFINE old == withdrawRequests[u][i]
<1>0. old \in RequestType
  BY RequestFields
<1>00. ASSUME NEW status \in OpenRequest
       PROVE  LET r == [old EXCEPT !.status = status] IN
              r \in RequestType /\ r.status \in OpenRequest /\ r.parts = old.parts
  BY <1>0, StatusUpdate DEF RequestType
<1>. USE DEF OpenRequest, Released, Settled
<1>1. CASE FinalizeWithdrawRequest(u, i)
  BY <1>1 DEF FinalizeWithdrawRequest, MayFinalize
<1>2. CASE AcceptWithdrawRequest(u, i)
  <2>1. UpdateRequest(u, i, [old EXCEPT !.status = "PROVIDER_ACCEPTED"])
    BY <1>2 DEF AcceptWithdrawRequest
  <2>. QED
    BY <1>2, <1>00, <2>1 DEF AcceptWithdrawRequest
<1>3. CASE RejectWithdrawRequest(u, i)
  BY <1>3 DEF RejectWithdrawRequest
<1>4. CASE RequestCancelWithdraw(u, i)
  <2>1. \/ Refund(u, i, "CANCELLED")
        \/ UpdateRequest(u, i, [old EXCEPT !.status = "CANCEL_REQUESTED"])
    BY <1>4 DEF RequestCancelWithdraw
  <2>. QED
    BY <1>4, <1>00, <2>1 DEF RequestCancelWithdraw
<1>5. CASE ForceCancelWithdraw(u, i)
  BY <1>5 DEF ForceCancelWithdraw
<1>6. CASE AcceptWithdrawCancelRequest(u, i)
  BY <1>6 DEF AcceptWithdrawCancelRequest, MayAcceptCancel
<1>7. CASE SuspendWithdrawRequest(u, i)
  BY <1>7 DEF SuspendWithdrawRequest
<1>8. ASSUME NEW c \in NewCooldowns, AcceptSpeedUpRequest(u, i, c)
      PROVE  /\ old.status \in OpenRequest
             /\ \E r \in RequestType : /\ r.status \in OpenRequest /\ r.parts = old.parts
                                       /\ UpdateRequest(u, i, r)
  <2>. DEFINE r == [old EXCEPT !.cooldownEndTime = old.timestamp + c,
                               !.isCooldownModified = TRUE]
  <2>1. UpdateRequest(u, i, r) /\ old.status \in OpenRequest
    BY <1>8 DEF AcceptSpeedUpRequest
  <2>2. r \in RequestType /\ r.status = old.status /\ r.parts = old.parts
    BY <1>0, SpeedUpUpdate
  <2>. QED
    BY <2>1, <2>2
<1>. QED
  BY <1>1, <1>2, <1>3, <1>4, <1>5, <1>6, <1>7, <1>8

LEMMA InitiateType ==
  ASSUME TypeOK, NEW u \in User, NEW p \in PartsOffered, NEW speedUp \in BOOLEAN,
         InitiateWithdraw(u, p, speedUp)
  PROVE  TypeOK'
<1>. DEFINE id == lastWithdrawRequestId[u] + 1
            r == [status |-> "PENDING", parts |-> p, timestamp |-> now,
                  cooldownEndTime |-> CooldownEnd(u), speedUp |-> speedUp,
                  isCooldownModified |-> FALSE]
<1>1. p \in PartsType /\ Own(p) \in Nat /\ To18Decimals(TotalAmount(p)) \in Nat
  BY RequestsAssumption, PartsNat, ScaledNat
<1>2. CooldownEnd(u) \in Nat /\ now \in Nat
  BY AccountsAssumption DEF TypeOK, CooldownEnd
<1>3. r \in RequestType
  BY <1>1, <1>2 DEF RequestType, OpenRequest
<1>4. id \in RequestIds /\ withdrawRequests' = [withdrawRequests EXCEPT ![u][id] = r]
  BY DEF InitiateWithdraw
<1>. HIDE DEF id, r
<1>5. lastWithdrawRequestId' \in [User -> 0..MaxRequests]
  <2>1. lastWithdrawRequestId' = [lastWithdrawRequestId EXCEPT ![u] = id]
    BY DEF InitiateWithdraw, id
  <2>2. lastWithdrawRequestId \in [User -> 0..MaxRequests]
    BY DEF TypeOK
  <2>3. id \in 0..MaxRequests
    BY <1>4 DEF RequestIds
  <2>. QED
    BY <2>1, <2>2, <2>3
<1>6. withdrawRequests' \in [User -> [RequestIds -> RequestType]]
  BY <1>3, <1>4, RequestUpdate
<1>7. balances' \in [User -> Nat]
  BY <1>1, DebitType DEF InitiateWithdraw
<1>8. withdrawLockedBalance' \in Nat
  BY <1>1 DEF InitiateWithdraw, TypeOK
<1>. QED
  BY <1>5, <1>6, <1>7, <1>8
  DEF InitiateWithdraw, TypeOK, promises, pledges, registers

LEMMA FinalizeType ==
  ASSUME TypeOK, NEW u \in User, NEW i \in RequestIds, FinalizeWithdrawRequest(u, i)
  PROVE  TypeOK'
<1>. DEFINE p == withdrawRequests[u][i].parts
<1>1. p \in PartsType
  BY RequestFields
<1>. HIDE DEF p
<1>2. Own(p) \in Nat /\ Unlocked(p) = Own(p) /\ To18Decimals(ByOthers(p)) \in Nat
  BY <1>1, PartsNat, ScaledNat
<1>3. /\ tokenBalance >= Own(p) /\ tokenBalance' = tokenBalance - Own(p)
      /\ withdrawLockedBalance >= Unlocked(p)
      /\ withdrawLockedBalance' = withdrawLockedBalance - Unlocked(p)
      /\ providersDebt' = providersDebt - To18Decimals(ByOthers(p))
      /\ Settle(u, i, "COMPLETED")
      /\ UNCHANGED balances
  BY DEF FinalizeWithdrawRequest, p
<1>4. /\ tokenBalance' \in Nat /\ withdrawLockedBalance' \in Nat /\ providersDebt' \in Int
  BY <1>2, <1>3 DEF TypeOK
<1>5. withdrawRequests' \in [User -> [RequestIds -> RequestType]]
  BY <1>3, SettleType DEF Released, Settled
<1>. QED
  BY <1>3, <1>4, <1>5 DEF Settle, TypeOK, promises, pledges, registers

LEMMA TypeInit ==
  ASSUME Init
  PROVE  TypeOK
<1>1. tokenBalance \in Nat
  <2>1. Cardinality(User) \in Nat
    BY AccountsAssumption, FS_CardinalityType
  <2>2. tokenBalance = InitialTokens * Cardinality(User)
    BY DEF Init, CollateralInit
  <2>3. \A k, n \in Nat : k * n \in Nat
    OBVIOUS
  <2>. QED
    BY AccountsAssumption, <2>1, <2>2, <2>3, Zenon
<1>2. balances \in [User -> Nat]
  BY AccountsAssumption, ScaledNat DEF Init, CollateralInit
<1>3. /\ bridgeTransactions \in [BridgeTransactionIds -> BridgeTransactionType]
      /\ externalTransfers \in [ExternalTransferIds -> ExternalTransferType]
  BY AccountsAssumption DEF Init, CollateralInit, NoTransaction, NoTransfer, BridgeTransactionType,
         ExternalTransferType
<1>4. withdrawRequests \in [User -> [RequestIds -> RequestType]]
  BY DEF Init, NoRequest, NoParts, RequestType, PartsType
<1>. QED
  BY AccountsAssumption, RequestsAssumption, <1>1, <1>2, <1>3, <1>4 DEF Init, CollateralInit, TypeOK

LEMMA TypeStep ==
  ASSUME TypeOK, [Next]_withdrawVars
  PROVE  TypeOK'
<1>1. CASE RequestStep
  BY <1>1, RequestStepKinds, InitiateType, FinalizeType, RefundType, UpdateType
<1>2. CASE CollateralStep /\ UNCHANGED requestVars
  BY <1>2, CollateralType
<1>3. CASE UNCHANGED withdrawVars
  BY <1>3 DEF withdrawVars, collateralVars, requestVars, accounts, promises, pledges,
              registers, TypeOK
<1>. QED
  BY <1>1, <1>2, <1>3 DEF Next

\* Balances, reserves and records keep their types: no subtraction of the contract
\* goes below zero and no record leaves the statuses the code declares.
THEOREM TypeCorrect == Spec => []TypeOK
<1>1. Init => TypeOK
  BY TypeInit
<1>2. TypeOK /\ [Next]_withdrawVars => TypeOK'
  BY TypeStep
<1>. QED
  BY <1>1, <1>2, PTL DEF Spec

----------------------------------------------------------------------------
(* The reserve.                                                            *)

\* Ids are given out in order, so a new request overwrites none.
IdsFresh ==
  \A u \in User, i \in RequestIds :
    i > lastWithdrawRequestId[u] => withdrawRequests[u][i].status = "NONE"

ReserveInv == TypeOK /\ IdsFresh /\ ReserveMatchesRequests

RequestPromise == Total(User \X RequestIds, RequestLock)
BridgePromise  == Total(BridgeTransactionIds, BridgeLock)

\* A step that reserves or releases for bridges alone.
ReserveFollowsBridges ==
  withdrawLockedBalance' = (withdrawLockedBalance - BridgePromise) + BridgePromise'

LEMMA ReservedNat ==
  ASSUME NEW r \in RequestType
  PROVE  Reserved(r) \in Nat
<1>1. r.parts \in PartsType
  BY DEF RequestType
<1>. QED
  BY <1>1, PartsNat DEF Reserved

LEMMA UnpaidNat ==
  ASSUME NEW r \in BridgeTransactionType
  PROVE  Unpaid(r) \in Nat
BY DEF BridgeTransactionType, Unpaid

LEMMA LocksFinite ==
  /\ IsFiniteSet(User \X RequestIds) /\ IsFiniteSet(BridgeTransactionIds)
<1>1. IsFiniteSet(RequestIds) /\ IsFiniteSet(BridgeTransactionIds)
  BY AccountsAssumption, RequestsAssumption, FS_Interval DEF RequestIds, BridgeTransactionIds
<1>. QED
  BY AccountsAssumption, <1>1, FS_Product

LEMMA RequestLockNat ==
  ASSUME TypeOK
  PROVE  /\ \A x \in User \X RequestIds : RequestLock[x] \in Nat
         /\ RequestPromise \in Nat
<1>1. \A x \in User \X RequestIds : RequestLock[x] \in Nat
  BY RequestFields, ReservedNat DEF RequestLock
<1>. QED
  BY <1>1, LocksFinite, UnitsFinite DEF RequestPromise

LEMMA BridgeLockNat ==
  ASSUME TypeOK
  PROVE  /\ \A t \in BridgeTransactionIds : BridgeLock[t] \in Nat
         /\ BridgePromise \in Nat
<1>1. \A t \in BridgeTransactionIds : BridgeLock[t] \in Nat
  BY BridgeTransactionFields, UnpaidNat DEF BridgeLock
<1>. QED
  BY <1>1, LocksFinite, UnitsFinite DEF BridgePromise

LEMMA RequestPromiseUpdate ==
  ASSUME TypeOK, NEW u \in User, NEW i \in RequestIds, NEW r \in RequestType,
         withdrawRequests' = [withdrawRequests EXCEPT ![u][i] = r]
  PROVE  RequestPromise' = RequestPromise - Reserved(withdrawRequests[u][i]) + Reserved(r)
<1>. DEFINE X == User \X RequestIds
            x == <<u, i>>
            f == RequestLock
            g == RequestLock'
<1>0. withdrawRequests \in [User -> [RequestIds -> RequestType]]
  BY DEF TypeOK
<1>1. \A y \in X : withdrawRequests'[y[1]][y[2]] =
                     IF y = x THEN r ELSE withdrawRequests[y[1]][y[2]]
  BY <1>0
<1>2. \A y \in X : g[y] = IF y = x THEN Reserved(r) ELSE f[y]
  BY <1>1 DEF RequestLock, Reserved
<1>3. x \in X /\ f[x] = Reserved(withdrawRequests[u][i])
  BY DEF RequestLock
<1>4. \A y \in X : f[y] \in Nat /\ g[y] \in Nat
  BY <1>2, RequestLockNat, ReservedNat
<1>5. g[x] = Reserved(r) /\ \A y \in X \ {x} : f[y] = g[y]
  BY <1>2, <1>3
<1>6. IsFiniteSet(X)
  BY LocksFinite
<1>7. RequestPromise = Total(X, f) /\ RequestPromise' = Total(X, g)
  BY DEF RequestPromise
<1>. HIDE DEF X, x, f, g
<1>8. Total(X, g) = Total(X, f) - f[x] + g[x]
  BY <1>3, <1>4, <1>5, <1>6, TotalUpdate, SMTT(60)
<1>. QED
  BY <1>3, <1>5, <1>7, <1>8

LEMMA BridgePromiseUpdate ==
  ASSUME TypeOK, NEW t \in BridgeTransactionIds, NEW r \in BridgeTransactionType,
         bridgeTransactions' = [bridgeTransactions EXCEPT ![t] = r]
  PROVE  BridgePromise' = BridgePromise - Unpaid(bridgeTransactions[t]) + Unpaid(r)
<1>. DEFINE X == BridgeTransactionIds
            x == t
            f == BridgeLock
            g == BridgeLock'
<1>0. bridgeTransactions \in [BridgeTransactionIds -> BridgeTransactionType]
  BY DEF TypeOK
<1>1. \A y \in X : bridgeTransactions'[y] = IF y = x THEN r ELSE bridgeTransactions[y]
  BY <1>0
<1>2. \A y \in X : g[y] = IF y = x THEN Unpaid(r) ELSE f[y]
  BY <1>1 DEF BridgeLock, Unpaid
<1>3. f[x] = Unpaid(bridgeTransactions[t])
  BY DEF BridgeLock
<1>4. \A y \in X : f[y] \in Nat /\ g[y] \in Nat
  BY <1>2, BridgeLockNat, UnpaidNat
<1>5. g[x] = Unpaid(r) /\ \A y \in X \ {x} : f[y] = g[y]
  BY <1>2
<1>6. IsFiniteSet(X) /\ x \in X
  BY LocksFinite
<1>7. BridgePromise = Total(X, f) /\ BridgePromise' = Total(X, g)
  BY DEF BridgePromise
<1>. HIDE DEF X, x, f, g
<1>8. Total(X, g) = Total(X, f) - f[x] + g[x]
  BY <1>4, <1>5, <1>6, TotalUpdate, SMTT(60)
<1>. QED
  BY <1>3, <1>5, <1>7, <1>8

\* A batch takes out of the promise what it pays.
LEMMA BridgePromiseBatch ==
  ASSUME TypeOK, NEW b \in Bridge, NEW S \in SUBSET BridgeTransactionIds,
         WithdrawReceivedBridgeValues(b, S)
  PROVE  BridgePromise' =
           BridgePromise - Total(S, [t \in S |-> bridgeTransactions[t].amount])
<1>. DEFINE X == BridgeTransactionIds
            f == BridgeLock
            g == BridgeLock'
            a == [t \in S |-> bridgeTransactions[t].amount]
<1>1. \A t \in S : f[t] = a[t]
  BY DEF BridgeLock, Unpaid, WithdrawReceivedBridgeValues, Payable
<1>2. \A t \in X : g[t] = IF t \in S THEN 0 ELSE f[t]
  <2>1. \A t \in X : bridgeTransactions'[t] =
          IF t \in S THEN [bridgeTransactions[t] EXCEPT !.status = "WITHDRAWN"]
                     ELSE bridgeTransactions[t]
    BY DEF WithdrawReceivedBridgeValues
  <2>2. \A t \in X : Unpaid([bridgeTransactions[t] EXCEPT !.status = "WITHDRAWN"]) = 0
    BY BridgeTransactionFields DEF Unpaid, BridgeTransactionType
  <2>. QED
    BY <2>1, <2>2 DEF BridgeLock, Unpaid
<1>3. \A t \in X : f[t] \in Nat /\ g[t] \in Nat
  BY <1>2, BridgeLockNat
<1>4. IsFiniteSet(X) /\ S \in SUBSET X
  BY LocksFinite
<1>5. BridgePromise = Total(X, f) /\ BridgePromise' = Total(X, g)
  BY DEF BridgePromise
<1>6. Total(S, a) \in Nat
  BY BatchTotal
<1>. HIDE DEF X, f, g, a
<1>7. Total(X, f) = Total(S, f) + Total(X \ S, f)
  BY <1>3, <1>4, TotalSplit
<1>8. Total(X, g) = Total(S, g) + Total(X \ S, g)
  BY <1>3, <1>4, TotalSplit
<1>9. Total(S, f) = Total(S, a)
  BY <1>1, TotalSame
<1>10. Total(S, g) = 0
  BY <1>2, <1>4, TotalNone
<1>11. Total(X \ S, f) = Total(X \ S, g)
  BY <1>2, TotalSame
<1>12. Total(X \ S, f) \in Nat
  BY <1>3, <1>4, UnitsFinite, FS_Subset
<1>. QED
  BY <1>5, <1>6, <1>7, <1>8, <1>9, <1>10, <1>11, <1>12 DEF a

LEMMA InitiateKeepsReserve ==
  ASSUME ReserveInv, NEW u \in User, NEW p \in PartsOffered, NEW speedUp \in BOOLEAN,
         InitiateWithdraw(u, p, speedUp)
  PROVE  IdsFresh' /\ ReserveMatchesRequests'
<1>. DEFINE id == lastWithdrawRequestId[u] + 1
            r == [status |-> "PENDING", parts |-> p, timestamp |-> now,
                  cooldownEndTime |-> CooldownEnd(u), speedUp |-> speedUp,
                  isCooldownModified |-> FALSE]
<1>0. TypeOK /\ withdrawLockedBalance \in Nat
  BY DEF ReserveInv, TypeOK
<1>1. p \in PartsType /\ Own(p) \in Nat
  BY RequestsAssumption, PartsNat
<1>2. r \in RequestType /\ Reserved(r) = Own(p)
  <2>1. CooldownEnd(u) \in Nat /\ now \in Nat
    BY AccountsAssumption, <1>0 DEF TypeOK, CooldownEnd
  <2>. QED
    BY <1>1, <2>1 DEF RequestType, OpenRequest, Reserved
<1>3. /\ id \in RequestIds /\ withdrawRequests' = [withdrawRequests EXCEPT ![u][id] = r]
      /\ lastWithdrawRequestId' = [lastWithdrawRequestId EXCEPT ![u] = id]
      /\ withdrawLockedBalance' = withdrawLockedBalance + Own(p)
      /\ bridgeTransactions' = bridgeTransactions
  BY DEF InitiateWithdraw, promises
<1>4. lastWithdrawRequestId \in [User -> 0..MaxRequests]
  BY <1>0 DEF TypeOK
<1>5. withdrawRequests[u][id].status = "NONE"
  <2>1. id > lastWithdrawRequestId[u]
    BY <1>4
  <2>. HIDE DEF id
  <2>. QED
    BY <1>3, <2>1 DEF ReserveInv, IdsFresh
<1>6. IdsFresh'
  <2>. SUFFICES ASSUME NEW v \in User, NEW i \in RequestIds, i > lastWithdrawRequestId'[v]
                PROVE  withdrawRequests'[v][i].status = "NONE"
    BY DEF IdsFresh
  <2>1. i > lastWithdrawRequestId[v] /\ ~(v = u /\ i = id)
    BY <1>3, <1>4 DEF RequestIds
  <2>. HIDE DEF id, r
  <2>2. withdrawRequests'[v][i] = withdrawRequests[v][i]
    BY <1>0, <1>3, <2>1 DEF TypeOK
  <2>. QED
    BY <2>1, <2>2 DEF ReserveInv, IdsFresh
<1>. HIDE DEF id, r
<1>7. RequestPromise' = RequestPromise - Reserved(withdrawRequests[u][id]) + Reserved(r)
  BY <1>0, <1>2, <1>3, RequestPromiseUpdate
<1>8. Reserved(withdrawRequests[u][id]) = 0
  BY <1>5 DEF Reserved, OpenRequest
<1>9. BridgePromise' = BridgePromise
  BY <1>3 DEF BridgePromise, BridgeLock
<1>10. RequestPromise \in Nat /\ BridgePromise \in Nat
  BY <1>0, RequestLockNat, BridgeLockNat
<1>11. withdrawLockedBalance = RequestPromise + BridgePromise
  BY DEF ReserveInv, ReserveMatchesRequests, RequestPromise, BridgePromise
<1>12. withdrawLockedBalance' = RequestPromise' + BridgePromise'
  BY <1>1, <1>2, <1>3, <1>7, <1>8, <1>9, <1>10, <1>11
<1>. QED
  BY <1>6, <1>12 DEF ReserveMatchesRequests, RequestPromise, BridgePromise

\* A record that goes on keeps its reservation; one that is settled gives it back.
LEMMA RecordKeepsReserve ==
  ASSUME ReserveInv, NEW u \in User, NEW i \in RequestIds, NEW r \in RequestType,
         withdrawRequests[u][i].status \in OpenRequest,
         withdrawRequests' = [withdrawRequests EXCEPT ![u][i] = r],
         withdrawLockedBalance' =
           withdrawLockedBalance - Reserved(withdrawRequests[u][i]) + Reserved(r),
         UNCHANGED <<lastWithdrawRequestId, bridgeTransactions>>
  PROVE  IdsFresh' /\ ReserveMatchesRequests'
<1>0. TypeOK
  BY DEF ReserveInv
<1>1. IdsFresh'
  <2>. SUFFICES ASSUME NEW v \in User, NEW j \in RequestIds, j > lastWithdrawRequestId[v]
                PROVE  withdrawRequests'[v][j].status = "NONE"
    BY DEF IdsFresh
  <2>1. withdrawRequests[v][j].status = "NONE"
    BY DEF ReserveInv, IdsFresh
  <2>2. ~(v = u /\ j = i)
    BY <2>1 DEF OpenRequest
  <2>. QED
    BY <1>0, <2>1, <2>2 DEF TypeOK
<1>2. RequestPromise' = RequestPromise - Reserved(withdrawRequests[u][i]) + Reserved(r)
  BY <1>0, RequestPromiseUpdate
<1>3. BridgePromise' = BridgePromise
  BY DEF BridgePromise, BridgeLock
<1>4. RequestPromise \in Nat /\ BridgePromise \in Nat
  BY <1>0, RequestLockNat, BridgeLockNat
<1>5. withdrawLockedBalance = RequestPromise + BridgePromise
  BY DEF ReserveInv, ReserveMatchesRequests, RequestPromise, BridgePromise
<1>6. Reserved(r) \in Nat /\ Reserved(withdrawRequests[u][i]) \in Nat
  BY <1>0, ReservedNat, RequestFields
<1>7. withdrawLockedBalance' = RequestPromise' + BridgePromise'
  BY <1>2, <1>3, <1>4, <1>5, <1>6
<1>. QED
  BY <1>1, <1>7 DEF ReserveMatchesRequests, RequestPromise, BridgePromise

LEMMA SettlementKeepsReserve ==
  ASSUME ReserveInv, NEW u \in User, NEW i \in RequestIds, NEW status \in Released,
         withdrawRequests[u][i].status \in OpenRequest,
         Settle(u, i, status),
         withdrawLockedBalance' =
           withdrawLockedBalance - Unlocked(withdrawRequests[u][i].parts)
  PROVE  IdsFresh' /\ ReserveMatchesRequests'
<1>. DEFINE old == withdrawRequests[u][i]
            r == [old EXCEPT !.status = status]
<1>0. TypeOK /\ withdrawLockedBalance \in Nat
  BY DEF ReserveInv, TypeOK
<1>1. old \in RequestType /\ r \in RequestType
  BY <1>0, RequestFields, StatusUpdate
<1>2. withdrawRequests' = [withdrawRequests EXCEPT ![u][i] = r]
  BY DEF Settle
<1>3. r.status = status
  BY <1>1 DEF RequestType
<1>4. Reserved(r) = 0
  BY <1>3 DEF Reserved, OpenRequest, Released, Settled
<1>5. Reserved(old) = Unlocked(old.parts)
  BY DEF Reserved, Unlocked
<1>6. Reserved(old) \in Nat
  BY <1>1, ReservedNat
<1>7. withdrawLockedBalance' = withdrawLockedBalance - Reserved(old) + Reserved(r)
  BY <1>0, <1>4, <1>5, <1>6
<1>. HIDE DEF r
<1>. QED
  BY <1>1, <1>2, <1>7, RecordKeepsReserve DEF Settle, promises

LEMMA RequestKeepsReserve ==
  ASSUME ReserveInv, RequestStep
  PROVE  IdsFresh' /\ ReserveMatchesRequests'
<1>0. TypeOK /\ withdrawLockedBalance \in Nat
  BY DEF ReserveInv, TypeOK
<1>1. ASSUME NEW u \in User, NEW i \in RequestIds,
             withdrawRequests[u][i].status \in OpenRequest, FinalizeWithdrawRequest(u, i)
      PROVE  IdsFresh' /\ ReserveMatchesRequests'
  BY <1>1, SettlementKeepsReserve DEF FinalizeWithdrawRequest, Released, Settled
<1>2. ASSUME NEW u \in User, NEW i \in RequestIds, NEW status \in Released,
             withdrawRequests[u][i].status \in OpenRequest, Refund(u, i, status)
      PROVE  IdsFresh' /\ ReserveMatchesRequests'
  BY <1>2, SettlementKeepsReserve DEF Refund
<1>3. ASSUME NEW u \in User, NEW i \in RequestIds, NEW r \in RequestType,
             withdrawRequests[u][i].status \in OpenRequest, r.status \in OpenRequest,
             r.parts = withdrawRequests[u][i].parts, UpdateRequest(u, i, r)
      PROVE  IdsFresh' /\ ReserveMatchesRequests'
  <2>1. Reserved(r) = Reserved(withdrawRequests[u][i]) /\ Reserved(r) \in Nat
    BY <1>3, ReservedNat DEF Reserved
  <2>2. withdrawLockedBalance' =
          withdrawLockedBalance - Reserved(withdrawRequests[u][i]) + Reserved(r)
    BY <1>0, <1>3, <2>1 DEF UpdateRequest, collateralVars
  <2>. QED
    BY <1>3, <2>2, RecordKeepsReserve DEF UpdateRequest, collateralVars, promises
<1>. QED
  BY <1>0, <1>1, <1>2, <1>3, RequestStepKinds, InitiateKeepsReserve

\* Only bridges and requests touch the reserve.
LEMMA ReserveUntouched ==
  ASSUME AccountStep \/ ExternalTransferStep \/ PledgeStep \/ CollateralTick
  PROVE  UNCHANGED <<withdrawLockedBalance, bridgeTransactions>>
<1>1. CASE AccountStep
  BY <1>1 DEF AccountStep, Deposit, DepositAndAllocate, VirtualDepositFor,
       VirtualDepositAndAllocateFor, DepositVirtualFunds, LegacyWithdraw,
       WithdrawSuspendedUserFunds, DeallocateSuspendedUserFunds, Allocate, Deallocate,
       ZeroUpnlDeallocate, InternalTransfer, InternalTransferToBalance, SuspendedAddress,
       UnsuspendedAddress, OnlyBalances, promises
<1>2. CASE ExternalTransferStep
  BY <1>2 DEF ExternalTransferStep, ExternalTransfer, VirtualExternalTransfer,
       AcceptVirtualExternalTransfer, CancelVirtualExternalTransfer, promises
<1>3. CASE PledgeStep
  BY <1>3 DEF PledgeStep, DepositPledge, RequestPledgeWithdraw, CancelPledgeWithdraw,
       AcceptPledgeWithdraw, SlashPledge, OnlyPledges, promises
<1>4. CASE CollateralTick
  BY <1>4 DEF CollateralTick, promises
<1>. QED
  BY <1>1, <1>2, <1>3, <1>4

LEMMA BridgeKeepsReserve ==
  ASSUME TypeOK, BridgeStep
  PROVE  ReserveFollowsBridges
<1>. USE DEF ReserveFollowsBridges
<1>0. /\ withdrawLockedBalance \in Nat /\ BridgePromise \in Nat
      /\ bridgeTransactions \in [BridgeTransactionIds -> BridgeTransactionType]
  BY BridgeLockNat DEF TypeOK
<1>1. ASSUME NEW u \in User, NEW n \in Amounts, NEW b \in Bridge,
             NEW t \in BridgeTransactionIds, TransferToBridge(u, n, b, t)
      PROVE  ReserveFollowsBridges
  <2>. DEFINE r == [status |-> "RECEIVED", user |-> u, bridge |-> b, amount |-> n,
                    timestamp |-> now]
  <2>1. n \in Nat /\ now \in Nat
    BY AccountsAssumption DEF TypeOK
  <2>2. r \in BridgeTransactionType /\ Unpaid(r) = n
    BY <2>1 DEF BridgeTransactionType, Unpaid
  <2>3. Unpaid(bridgeTransactions[t]) = 0
    BY <1>1 DEF TransferToBridge, IsNext, Unpaid
  <2>4. /\ bridgeTransactions' = [bridgeTransactions EXCEPT ![t] = r]
        /\ withdrawLockedBalance' = withdrawLockedBalance + n
    BY <1>1 DEF TransferToBridge
  <2>. HIDE DEF r
  <2>5. BridgePromise' = BridgePromise - Unpaid(bridgeTransactions[t]) + Unpaid(r)
    BY <2>2, <2>4, BridgePromiseUpdate
  <2>. QED
    BY <1>0, <2>1, <2>2, <2>3, <2>4, <2>5
<1>2. ASSUME NEW b \in Bridge, NEW S \in SUBSET BridgeTransactionIds,
             WithdrawReceivedBridgeValues(b, S)
      PROVE  ReserveFollowsBridges
  <2>. DEFINE total == Total(S, [t \in S |-> bridgeTransactions[t].amount])
  <2>1. total \in Nat /\ BridgePromise' = BridgePromise - total
    BY <1>2, BatchTotal, BridgePromiseBatch
  <2>2. withdrawLockedBalance' = withdrawLockedBalance - total
    BY <1>2 DEF WithdrawReceivedBridgeValues
  <2>. HIDE DEF total
  <2>. QED
    BY <1>0, <2>1, <2>2
<1>3. ASSUME NEW t \in BridgeTransactionIds, SuspendBridgeTransaction(t)
      PROVE  ReserveFollowsBridges
  <2>. DEFINE r == [bridgeTransactions[t] EXCEPT !.status = "SUSPENDED"]
  <2>1. /\ r \in BridgeTransactionType
        /\ bridgeTransactions' = [bridgeTransactions EXCEPT ![t] = r]
    BY <1>3, BridgeTransactionFields, BridgeTransactionUpdate DEF SuspendBridgeTransaction
  <2>2. Unpaid(r) = Unpaid(bridgeTransactions[t]) /\ Unpaid(r) \in Nat
    <3>1. r.status = "SUSPENDED" /\ r.amount = bridgeTransactions[t].amount
      BY BridgeTransactionFields DEF BridgeTransactionType
    <3>2. bridgeTransactions[t].status = "RECEIVED"
      BY <1>3 DEF SuspendBridgeTransaction
    <3>. QED
      BY <3>1, <3>2, BridgeTransactionFields DEF Unpaid
  <2>3. UNCHANGED withdrawLockedBalance
    BY <1>3 DEF SuspendBridgeTransaction
  <2>. HIDE DEF r
  <2>4. BridgePromise' = BridgePromise - Unpaid(bridgeTransactions[t]) + Unpaid(r)
    BY <2>1, BridgePromiseUpdate
  <2>. QED
    BY <1>0, <2>2, <2>3, <2>4
<1>4. ASSUME NEW t \in BridgeTransactionIds,
             NEW valid \in 0..bridgeTransactions[t].amount, RestoreBridgeTransaction(t, valid)
      PROVE  ReserveFollowsBridges
  <2>. DEFINE r == [bridgeTransactions[t] EXCEPT !.status = "RECEIVED", !.amount = valid]
  <2>0. bridgeTransactions[t].amount \in Nat /\ valid \in Nat
    BY BridgeTransactionFields
  <2>1. /\ r \in BridgeTransactionType
        /\ bridgeTransactions' = [bridgeTransactions EXCEPT ![t] = r]
    BY <1>4, <2>0, BridgeTransactionFields, BridgeTransactionUpdate
    DEF RestoreBridgeTransaction
  <2>2. Unpaid(r) = valid /\ Unpaid(bridgeTransactions[t]) = bridgeTransactions[t].amount
    <3>1. r.status = "RECEIVED" /\ r.amount = valid
      BY BridgeTransactionFields DEF BridgeTransactionType
    <3>2. bridgeTransactions[t].status = "SUSPENDED"
      BY <1>4 DEF RestoreBridgeTransaction
    <3>. QED
      BY <3>1, <3>2 DEF Unpaid
  <2>3. withdrawLockedBalance' = withdrawLockedBalance - InvalidPart(t, valid)
    BY <1>4 DEF RestoreBridgeTransaction
  <2>. HIDE DEF r
  <2>4. BridgePromise' = BridgePromise - Unpaid(bridgeTransactions[t]) + Unpaid(r)
    BY <2>1, BridgePromiseUpdate
  <2>. QED
    BY <1>0, <2>0, <2>2, <2>3, <2>4 DEF InvalidPart
<1>5. ASSUME NEW b \in Bridge, SetBridge(b)
      PROVE  ReserveFollowsBridges
  <2>1. UNCHANGED withdrawLockedBalance /\ BridgePromise' = BridgePromise
    BY <1>5 DEF SetBridge, promises, BridgePromise, BridgeLock
  <2>. QED
    BY <1>0, <2>1
<1>. QED
  BY <1>1, <1>2, <1>3, <1>4, <1>5 DEF BridgeStep

LEMMA ReserveStep ==
  ASSUME ReserveInv, [Next]_withdrawVars
  PROVE  ReserveInv'
<1>. USE DEF ReserveFollowsBridges
<1>0. TypeOK /\ TypeOK'
  BY TypeStep DEF ReserveInv
<1>. SUFFICES IdsFresh' /\ ReserveMatchesRequests'
  BY <1>0 DEF ReserveInv
<1>1. CASE RequestStep
  BY <1>1, RequestKeepsReserve
<1>2. ASSUME UNCHANGED requestVars,
             ReserveFollowsBridges
      PROVE  IdsFresh' /\ ReserveMatchesRequests'
  <2>1. IdsFresh' /\ RequestPromise' = RequestPromise
    BY <1>2 DEF requestVars, ReserveInv, IdsFresh, RequestPromise, RequestLock
  <2>2. withdrawLockedBalance = RequestPromise + BridgePromise
    BY DEF ReserveInv, ReserveMatchesRequests, RequestPromise, BridgePromise
  <2>3. RequestPromise \in Nat /\ BridgePromise \in Nat /\ withdrawLockedBalance \in Nat
    BY <1>0, RequestLockNat, BridgeLockNat DEF TypeOK
  <2>4. withdrawLockedBalance - BridgePromise = RequestPromise
    BY <2>2, <2>3
  <2>5. withdrawLockedBalance' = RequestPromise' + BridgePromise'
    BY <1>2, <2>1, <2>4
  <2>. QED
    BY <2>1, <2>5 DEF ReserveMatchesRequests, RequestPromise, BridgePromise
<1>3. CASE CollateralStep /\ UNCHANGED requestVars
  <2>1. ASSUME UNCHANGED <<withdrawLockedBalance, bridgeTransactions>>
        PROVE  ReserveFollowsBridges
    <3>1. BridgePromise' = BridgePromise
      BY <2>1 DEF BridgePromise, BridgeLock
    <3>. QED
      BY <1>0, <2>1, <3>1, BridgeLockNat DEF TypeOK
  <2>. QED
    BY <1>0, <1>2, <1>3, <2>1, ReserveUntouched, BridgeKeepsReserve DEF CollateralStep
<1>4. CASE UNCHANGED withdrawVars
  <2>1. UNCHANGED requestVars
    BY <1>4 DEF withdrawVars
  <2>2. ReserveFollowsBridges
    <3>1. UNCHANGED withdrawLockedBalance /\ BridgePromise' = BridgePromise
      BY <1>4 DEF withdrawVars, collateralVars, promises, BridgePromise, BridgeLock
    <3>. QED
      BY <1>0, <3>1, BridgeLockNat DEF TypeOK
  <2>. QED
    BY <1>2, <2>1, <2>2
<1>. QED
  BY <1>1, <1>3, <1>4 DEF Next

LEMMA ReserveInit ==
  ASSUME Init
  PROVE  ReserveInv
<1>1. IdsFresh
  BY DEF Init, NoRequest, IdsFresh
<1>2. RequestPromise = 0
  <2>1. \A x \in User \X RequestIds : RequestLock[x] = 0
    BY DEF Init, NoRequest, RequestLock, Reserved, OpenRequest
  <2>. QED
    BY <2>1, TotalNone DEF RequestPromise
<1>3. BridgePromise = 0
  <2>1. \A t \in BridgeTransactionIds : BridgeLock[t] = 0
    BY DEF Init, CollateralInit, NoTransaction, BridgeLock, Unpaid
  <2>. QED
    BY <2>1, TotalNone DEF BridgePromise
<1>4. withdrawLockedBalance = 0
  BY DEF Init, CollateralInit
<1>5. withdrawLockedBalance = RequestPromise + BridgePromise
  BY <1>2, <1>3, <1>4
<1>. QED
  BY <1>1, <1>5, TypeInit DEF ReserveInv, ReserveMatchesRequests, RequestPromise,
                              BridgePromise

LEMMA ReserveInvariant == Spec => []ReserveInv
<1>1. Init => ReserveInv
  BY ReserveInit
<1>2. ReserveInv /\ [Next]_withdrawVars => ReserveInv'
  BY ReserveStep
<1>. QED
  BY <1>1, <1>2, PTL DEF Spec

\* The counter of promised tokens is, to the token, what the open requests and the
\* unpaid bridge transactions will take: no race of finalize, cancel, reject, suspend
\* and restore releases a reservation twice or leaves one behind.
THEOREM ReserveExact == Spec => []ReserveMatchesRequests
<1>1. ReserveInv => ReserveMatchesRequests
  BY DEF ReserveInv
<1>. QED
  BY <1>1, ReserveInvariant, PTL

----------------------------------------------------------------------------
(* Settled and suspended requests.                                         *)

LEMMA SettledStep ==
  ASSUME ReserveInv, [Next]_withdrawVars,
         NEW u \in User, NEW i \in RequestIds, withdrawRequests[u][i].status \in Released
  PROVE  withdrawRequests'[u][i] = withdrawRequests[u][i]
<1>0. TypeOK /\ withdrawRequests \in [User -> [RequestIds -> RequestType]]
  BY DEF ReserveInv, TypeOK
<1>1. ASSUME NEW v \in User, NEW j \in RequestIds, NEW r,
             withdrawRequests' = [withdrawRequests EXCEPT ![v][j] = r],
             withdrawRequests[v][j].status \notin Released
      PROVE  withdrawRequests'[u][i] = withdrawRequests[u][i]
  BY <1>0, <1>1
<1>2. CASE RequestStep
  <2>1. ASSUME NEW v \in User, NEW p \in PartsOffered, NEW speedUp \in BOOLEAN,
               InitiateWithdraw(v, p, speedUp)
        PROVE  withdrawRequests'[u][i] = withdrawRequests[u][i]
    <3>. DEFINE id == lastWithdrawRequestId[v] + 1
    <3>1. id \in RequestIds /\ id > lastWithdrawRequestId[v]
      BY <1>0, <2>1 DEF InitiateWithdraw, TypeOK
    <3>2. \E r : withdrawRequests' = [withdrawRequests EXCEPT ![v][id] = r]
      BY <2>1 DEF InitiateWithdraw
    <3>. HIDE DEF id
    <3>3. withdrawRequests[v][id].status \notin Released
      BY <3>1 DEF ReserveInv, IdsFresh, Released, Settled
    <3>. QED
      BY <1>1, <3>1, <3>2, <3>3
  <2>2. ASSUME NEW v \in User, NEW j \in RequestIds,
               withdrawRequests[v][j].status \in OpenRequest,
               \/ FinalizeWithdrawRequest(v, j)
               \/ \E status \in Released : Refund(v, j, status)
               \/ \E r \in RequestType : UpdateRequest(v, j, r)
        PROVE  withdrawRequests'[u][i] = withdrawRequests[u][i]
    <3>1. \E r : withdrawRequests' = [withdrawRequests EXCEPT ![v][j] = r]
      BY <2>2 DEF FinalizeWithdrawRequest, Refund, Settle, UpdateRequest
    <3>2. withdrawRequests[v][j].status \notin Released
      BY <2>2 DEF OpenRequest, Released, Settled
    <3>. QED
      BY <1>1, <3>1, <3>2
  <2>. QED
    BY <1>0, <1>2, <2>1, <2>2, RequestStepKinds
<1>3. CASE UNCHANGED requestVars
  BY <1>3 DEF requestVars
<1>4. CASE UNCHANGED withdrawVars
  BY <1>3, <1>4 DEF withdrawVars
<1>. QED
  BY <1>2, <1>3, <1>4 DEF Next

\* A request in a terminal status never changes again, whoever answers late and in
\* what order: in particular it is paid or refunded at most once.
THEOREM SettledForGood == Spec => SettledIsFinal
<1>1. ReserveInv /\ [Next]_withdrawVars =>
        [\A u \in User, i \in RequestIds :
           withdrawRequests[u][i].status \in Settled =>
             withdrawRequests'[u][i] = withdrawRequests[u][i]]_withdrawVars
  BY SettledStep DEF Released
<1>. QED
  BY <1>1, ReserveInvariant, PTL DEF Spec, SettledIsFinal

----------------------------------------------------------------------------
(* Backing.                                                                *)

LEMMA BackedRequestStep ==
  ASSUME TypeOK, ReserveBacked, RequestStep
  PROVE  ReserveBacked'
<1>. USE DEF ReserveBacked
<1>0. tokenBalance \in Nat /\ withdrawLockedBalance \in Nat
  BY DEF TypeOK
<1>1. ASSUME NEW u \in User, NEW p \in PartsOffered, NEW speedUp \in BOOLEAN,
             InitiateWithdraw(u, p, speedUp)
      PROVE  ReserveBacked'
  BY <1>1 DEF InitiateWithdraw, Available
<1>2. ASSUME NEW u \in User, NEW i \in RequestIds
      PROVE  /\ Own(withdrawRequests[u][i].parts) \in Nat
             /\ Unlocked(withdrawRequests[u][i].parts) = Own(withdrawRequests[u][i].parts)
  BY RequestFields, PartsNat
<1>3. ASSUME NEW u \in User, NEW i \in RequestIds, FinalizeWithdrawRequest(u, i)
      PROVE  ReserveBacked'
  BY <1>0, <1>2, <1>3 DEF FinalizeWithdrawRequest
<1>4. ASSUME NEW u \in User, NEW i \in RequestIds, NEW status \in Released,
             Refund(u, i, status)
      PROVE  ReserveBacked'
  BY <1>0, <1>2, <1>4 DEF Refund
<1>5. ASSUME NEW u \in User, NEW i \in RequestIds, NEW r \in RequestType,
             UpdateRequest(u, i, r)
      PROVE  ReserveBacked'
  BY <1>5 DEF UpdateRequest, collateralVars
<1>. QED
  BY <1>1, <1>3, <1>4, <1>5, RequestStepKinds

LEMMA BackedBridgeStep ==
  ASSUME TypeOK, ReserveBacked, BridgeStep
  PROVE  ReserveBacked'
<1>. USE DEF ReserveBacked
<1>0. tokenBalance \in Nat /\ withdrawLockedBalance \in Nat
  BY DEF TypeOK
<1>1. ASSUME NEW u \in User, NEW n \in Amounts, NEW b \in Bridge,
             NEW t \in BridgeTransactionIds, TransferToBridge(u, n, b, t)
      PROVE  ReserveBacked'
  BY <1>1 DEF TransferToBridge, Available
<1>2. ASSUME NEW b \in Bridge, NEW S \in SUBSET BridgeTransactionIds,
             WithdrawReceivedBridgeValues(b, S)
      PROVE  ReserveBacked'
  <2>. DEFINE total == Total(S, [t \in S |-> bridgeTransactions[t].amount])
  <2>1. /\ withdrawLockedBalance' = withdrawLockedBalance - total
        /\ tokenBalance' = tokenBalance - total
    BY <1>2 DEF WithdrawReceivedBridgeValues
  <2>2. total \in Nat
    BY BatchTotal
  <2>. HIDE DEF total
  <2>. QED
    BY <1>0, <2>1, <2>2
<1>3. ASSUME NEW t \in BridgeTransactionIds, SuspendBridgeTransaction(t)
      PROVE  ReserveBacked'
  BY <1>3 DEF SuspendBridgeTransaction
<1>4. ASSUME NEW t \in BridgeTransactionIds,
             NEW valid \in 0..bridgeTransactions[t].amount, RestoreBridgeTransaction(t, valid)
      PROVE  ReserveBacked'
  <2>1. InvalidPart(t, valid) \in Nat
    BY BridgeTransactionFields DEF InvalidPart
  <2>. QED
    BY <1>0, <1>4, <2>1 DEF RestoreBridgeTransaction
<1>5. ASSUME NEW b \in Bridge, SetBridge(b)
      PROVE  ReserveBacked'
  BY <1>5 DEF SetBridge
<1>. QED
  BY <1>1, <1>2, <1>3, <1>4, <1>5 DEF BridgeStep

LEMMA BackedOtherStep ==
  ASSUME TypeOK, ReserveBacked, PledgeAmounts = {},
         AccountStep \/ ExternalTransferStep \/ PledgeStep \/ CollateralTick
  PROVE  ReserveBacked'
<1>. USE DEF ReserveBacked
<1>0. /\ tokenBalance \in Nat /\ withdrawLockedBalance \in Nat
      /\ UNCHANGED withdrawLockedBalance
  BY ReserveUntouched DEF TypeOK
<1>1. CASE AccountStep
  <2>1. tokenBalance' >= tokenBalance \/ tokenBalance' >= withdrawLockedBalance
    BY AccountsAssumption, <1>0, <1>1 DEF AccountStep, Deposit, DepositAndAllocate, VirtualDepositFor,
       VirtualDepositAndAllocateFor, DepositVirtualFunds, LegacyWithdraw, Available,
       WithdrawSuspendedUserFunds, DeallocateSuspendedUserFunds, Allocate, Deallocate,
       ZeroUpnlDeallocate, InternalTransfer, InternalTransferToBalance, SuspendedAddress,
       UnsuspendedAddress, OnlyBalances
  <2>2. tokenBalance' \in Int
    BY AccountsAssumption, <1>0, <1>1 DEF AccountStep, Deposit, DepositAndAllocate, VirtualDepositFor,
       VirtualDepositAndAllocateFor, DepositVirtualFunds, LegacyWithdraw,
       WithdrawSuspendedUserFunds, DeallocateSuspendedUserFunds, Allocate, Deallocate,
       ZeroUpnlDeallocate, InternalTransfer, InternalTransferToBalance, SuspendedAddress,
       UnsuspendedAddress, OnlyBalances
  <2>. QED
    BY <1>0, <2>1, <2>2
<1>2. CASE ExternalTransferStep
  BY AccountsAssumption, <1>0, <1>2 DEF ExternalTransferStep, ExternalTransfer, Available,
       VirtualExternalTransfer, AcceptVirtualExternalTransfer, CancelVirtualExternalTransfer
<1>3. CASE PledgeStep
  <2>1. \E u \in User : CancelPledgeWithdraw(u) \/ AcceptPledgeWithdraw(u, 0)
    BY <1>3 DEF PledgeStep
  <2>. QED
    BY <1>0, <2>1 DEF CancelPledgeWithdraw, AcceptPledgeWithdraw
<1>4. CASE CollateralTick
  BY <1>0, <1>4 DEF CollateralTick
<1>. QED
  BY <1>1, <1>2, <1>3, <1>4

\* As long as nobody pledges the collateral token, every promised token is in the
\* contract: the checks of withdrawals, transfers and bridges protect each other's
\* reservations, and no payment can fail for want of tokens.
THEOREM BackedWithoutPledges ==
  ASSUME PledgeAmounts = {}
  PROVE  Spec => []ReserveBacked
<1>1. Init => TypeOK /\ ReserveBacked
  <2>1. ASSUME Init PROVE TypeOK /\ ReserveBacked
    BY <2>1, TypeInit DEF Init, CollateralInit, ReserveBacked, TypeOK
  <2>. QED
    BY <2>1
<1>2. TypeOK /\ ReserveBacked /\ [Next]_withdrawVars => (TypeOK /\ ReserveBacked)'
  <2>. SUFFICES ASSUME TypeOK, ReserveBacked, [Next]_withdrawVars
                PROVE  ReserveBacked'
    BY TypeStep
  <2>1. CASE UNCHANGED withdrawVars
    BY <2>1 DEF withdrawVars, collateralVars, ReserveBacked
  <2>. QED
    BY <2>1, BackedRequestStep, BackedBridgeStep, BackedOtherStep DEF Next, CollateralStep
<1>. QED
  BY <1>1, <1>2, PTL DEF Spec

----------------------------------------------------------------------------
(* Conservation.  Each handler moves some number of tokens in or out of the *)
(* contract, or in or out of a promise, and as many units of balance.       *)

BalanceSum   == Total(User, balances)
AllocatedSum == Total(User, allocatedBalances)
PledgeSum    == Total(User, pledgeDeposit)
DebitSum     == Total(User \X RequestIds, DebitLock)
TransferSum  == Total(ExternalTransferIds, TransferLock)

\* What users hold of the contract's own money, in units, and the tokens it stands
\* for: those that are neither pledged nor promised.
Held == BalanceSum + AllocatedSum - providersDebt
Free == tokenBalance - PledgeSum - DebitSum - BridgePromise - TransferSum

\* n tokens come in, or stop being promised, and are credited.
Moves(n) == n \in Int /\ Free' = Free + n /\ Held' = Held + To18Decimals(n)

----------------------------------------------------------------------------
(* Sums.                                                                   *)

LEMMA ScaleAdds ==
  ASSUME NEW m \in Int, NEW n \in Int
  PROVE  /\ To18Decimals(m) \in Int
         /\ To18Decimals(m + n) = To18Decimals(m) + To18Decimals(n)
         /\ To18Decimals(m - n) = To18Decimals(m) - To18Decimals(n)
         /\ To18Decimals(-n) = 0 - To18Decimals(n)
         /\ To18Decimals(0) = 0
<1>1. Scale \in Int
  BY AccountsAssumption
<1>. QED  BY <1>1 DEF To18Decimals

LEMMA TransfersFinite == IsFiniteSet(ExternalTransferIds)
BY AccountsAssumption, FS_Interval DEF ExternalTransferIds

LEMMA DebitedNat ==
  ASSUME NEW r \in RequestType
  PROVE  Debited(r) \in Nat
<1>1. r.parts \in PartsType
  BY DEF RequestType
<1>. QED  BY <1>1, PartsNat DEF Debited

LEMMA UnansweredNat ==
  ASSUME NEW t \in ExternalTransferType
  PROVE  Unanswered(t) \in Nat
BY DEF ExternalTransferType, Unanswered

LEMMA SumsNat ==
  ASSUME TypeOK
  PROVE  /\ BalanceSum \in Nat /\ AllocatedSum \in Nat /\ PledgeSum \in Nat
         /\ DebitSum \in Nat /\ TransferSum \in Nat /\ BridgePromise \in Nat
         /\ Held \in Int /\ Free \in Int
<1>1. BalanceSum \in Nat /\ AllocatedSum \in Nat /\ PledgeSum \in Nat
  BY AccountsAssumption, UnitsFinite DEF TypeOK, BalanceSum, AllocatedSum, PledgeSum
<1>2. DebitSum \in Nat
  <2>1. \A x \in User \X RequestIds : DebitLock[x] \in Nat
    BY RequestFields, DebitedNat DEF DebitLock
  <2>. QED  BY <2>1, LocksFinite, UnitsFinite DEF DebitSum
<1>3. TransferSum \in Nat
  <2>1. \A i \in ExternalTransferIds : TransferLock[i] \in Nat
    BY UnansweredNat DEF TypeOK, TransferLock
  <2>. QED  BY <2>1, TransfersFinite, UnitsFinite DEF TransferSum
<1>4. BridgePromise \in Nat
  BY BridgeLockNat
<1>5. providersDebt \in Int /\ tokenBalance \in Int
  BY DEF TypeOK
<1>. QED  BY <1>1, <1>2, <1>3, <1>4, <1>5 DEF Held, Free

\* The same of both ends of a step.
BooksTyped ==
  /\ BalanceSum \in Nat /\ AllocatedSum \in Nat /\ PledgeSum \in Nat
  /\ DebitSum \in Nat /\ TransferSum \in Nat /\ BridgePromise \in Nat
  /\ providersDebt \in Int /\ tokenBalance \in Nat

LEMMA BooksAreTyped == TypeOK => BooksTyped
BY SumsNat DEF TypeOK, BooksTyped

LEMMA SumsNatNext ==
  ASSUME TypeOK'
  PROVE  /\ BalanceSum' \in Nat /\ AllocatedSum' \in Nat /\ PledgeSum' \in Nat
         /\ DebitSum' \in Nat /\ TransferSum' \in Nat /\ BridgePromise' \in Nat
         /\ providersDebt' \in Int /\ tokenBalance' \in Nat
<1>1. BooksTyped'
  BY BooksAreTyped, PTL
<1>. QED  BY <1>1 DEF BooksTyped

LEMMA ClaimsAre ==
  ASSUME TypeOK
  PROVE  ClaimsBacked <=> Held = To18Decimals(Free)
<1>. DEFINE P == DebitSum + BridgePromise + TransferSum
            N == tokenBalance - PledgeSum
<1>1. /\ P \in Int /\ N \in Int /\ Free = N - P
      /\ BalanceSum + AllocatedSum \in Int /\ providersDebt \in Int
  BY SumsNat DEF TypeOK, Free
<1>2. ClaimsBacked <=>
        BalanceSum + AllocatedSum + To18Decimals(P) = To18Decimals(N) + providersDebt
  BY DEF ClaimsBacked, BalanceSum, AllocatedSum, DebitSum, BridgePromise, TransferSum, PledgeSum
<1>. HIDE DEF P, N
<1>3. /\ To18Decimals(Free) = To18Decimals(N) - To18Decimals(P)
      /\ To18Decimals(N) \in Int /\ To18Decimals(P) \in Int
  BY <1>1, ScaleAdds
<1>4. BalanceSum \in Int /\ AllocatedSum \in Int
  BY SumsNat
<1>. QED  BY <1>1, <1>2, <1>3, <1>4 DEF Held

LEMMA MovesKeep ==
  ASSUME TypeOK, TypeOK', ClaimsBacked, NEW n, Moves(n)
  PROVE  ClaimsBacked'
<1>1. Free \in Int /\ n \in Int
  BY SumsNat DEF Moves
<1>2. Held = To18Decimals(Free)
  BY ClaimsAre
<1>3. To18Decimals(Free + n) = To18Decimals(Free) + To18Decimals(n)
  BY <1>1, ScaleAdds
<1>4. Held' = To18Decimals(Free')
  BY <1>2, <1>3 DEF Moves
<1>5. To18Decimals(Free)' = To18Decimals(Free')
  BY DEF To18Decimals
<1>6. (Held = To18Decimals(Free))'
  BY <1>4, <1>5
<1>. QED  BY <1>6, ClaimsAre, PTL

----------------------------------------------------------------------------
(* What the steps change of each sum.                                      *)

\* One user's summand changes.
LEMMA OneUser ==
  ASSUME NEW f \in [User -> Nat], NEW g \in [User -> Nat], NEW u \in User,
         \A x \in User : x # u => g[x] = f[x]
  PROVE  Total(User, g) = Total(User, f) - f[u] + g[u]
<1>1. \A x \in User : f[x] \in Nat /\ g[x] \in Nat
  OBVIOUS
<1>2. \A x \in User \ {u} : f[x] = g[x]
  OBVIOUS
<1>. QED  BY <1>1, <1>2, AccountsAssumption, TotalUpdate

LEMMA UserGains ==
  ASSUME NEW f \in [User -> Nat], NEW g, NEW u \in User, NEW n \in Nat,
         g = [f EXCEPT ![u] = @ + n]
  PROVE  g \in [User -> Nat] /\ Total(User, g) = Total(User, f) + n
<1>1. g \in [User -> Nat] /\ g[u] = f[u] + n /\ \A x \in User : x # u => g[x] = f[x]
  OBVIOUS
<1>2. Total(User, g) = Total(User, f) - f[u] + g[u]
  BY <1>1, OneUser
<1>3. Total(User, f) \in Nat /\ f[u] \in Nat
  BY AccountsAssumption, UnitsFinite
<1>. QED  BY <1>1, <1>2, <1>3

LEMMA UserLoses ==
  ASSUME NEW f \in [User -> Nat], NEW g, NEW u \in User, NEW n \in Nat, f[u] >= n,
         g = [f EXCEPT ![u] = @ - n]
  PROVE  g \in [User -> Nat] /\ Total(User, g) = Total(User, f) - n
<1>1. g \in [User -> Nat] /\ g[u] = f[u] - n /\ \A x \in User : x # u => g[x] = f[x]
  OBVIOUS
<1>2. Total(User, g) = Total(User, f) - f[u] + g[u]
  BY <1>1, OneUser
<1>3. Total(User, f) \in Nat /\ f[u] \in Nat
  BY AccountsAssumption, UnitsFinite
<1>. QED  BY <1>1, <1>2, <1>3

\* One user pays another, or himself.
LEMMA UserPays ==
  ASSUME NEW f \in [User -> Nat], NEW g \in [User -> Nat],
         NEW u \in User, NEW v \in User, NEW n \in Nat, f[u] >= n,
         \A x \in User : g[x] = f[x] - (IF x = u THEN n ELSE 0) + (IF x = v THEN n ELSE 0)
  PROVE  Total(User, g) = Total(User, f)
<1>. DEFINE h == [f EXCEPT ![u] = @ - n]
<1>1. h \in [User -> Nat] /\ Total(User, h) = Total(User, f) - n
  BY UserLoses
<1>2. \A x \in User : f[x] \in Nat /\ h[x] = f[x] - IF x = u THEN n ELSE 0
  OBVIOUS
<1>. HIDE DEF h
<1>3. \A x \in User : g[x] = h[x] + IF x = v THEN n ELSE 0
  BY <1>2
<1>4. \A x \in User : x # v => g[x] = h[x]
  BY <1>1, <1>3
<1>5. Total(User, g) = Total(User, h) - h[v] + g[v]
  BY <1>1, <1>4, OneUser
<1>6. Total(User, f) \in Nat /\ h[v] \in Nat /\ g[v] = h[v] + n
  BY <1>1, <1>3, AccountsAssumption, UnitsFinite
<1>. QED  BY <1>1, <1>5, <1>6

LEMMA SumTypes ==
  ASSUME TypeOK
  PROVE  /\ balances \in [User -> Nat] /\ allocatedBalances \in [User -> Nat]
         /\ pledgeDeposit \in [User -> Nat] /\ tokenBalance \in Nat /\ providersDebt \in Int
BY DEF TypeOK

LEMMA CreditSum ==
  ASSUME TypeOK, NEW u \in User, NEW n \in Nat, Credit(u, n)
  PROVE  BalanceSum' = BalanceSum + n
<1>1. balances' = [balances EXCEPT ![u] = @ + n] /\ balances \in [User -> Nat]
  BY SumTypes DEF Credit
<1>2. /\ balances' \in [User -> Nat] /\ balances'[u] = balances[u] + n
      /\ \A x \in User : x # u => balances'[x] = balances[x]
  BY <1>1
<1>3. Total(User, balances') = Total(User, balances) - balances[u] + balances'[u]
  BY <1>1, <1>2, OneUser
<1>4. BalanceSum \in Nat /\ balances[u] \in Nat
  BY <1>1, SumsNat
<1>. QED  BY <1>2, <1>3, <1>4 DEF BalanceSum

LEMMA DebitsSum ==
  ASSUME TypeOK, NEW u \in User, NEW n \in Nat, Debit(u, n)
  PROVE  BalanceSum' = BalanceSum - n
<1>1. /\ balances' = [balances EXCEPT ![u] = @ - n] /\ balances \in [User -> Nat]
      /\ balances[u] >= n
  BY SumTypes DEF Debit
<1>2. Total(User, balances') = Total(User, balances) - n
  BY <1>1, UserLoses
<1>. QED  BY <1>2 DEF BalanceSum

\* A sum whose summands stay, stays.
LEMMA SumsStay ==
  /\ UNCHANGED balances => BalanceSum' = BalanceSum
  /\ UNCHANGED allocatedBalances => AllocatedSum' = AllocatedSum
  /\ UNCHANGED pledgeDeposit => PledgeSum' = PledgeSum
  /\ UNCHANGED withdrawRequests => DebitSum' = DebitSum
  /\ UNCHANGED bridgeTransactions => BridgePromise' = BridgePromise
  /\ UNCHANGED externalTransfers => TransferSum' = TransferSum
BY DEF BalanceSum, AllocatedSum, PledgeSum, DebitSum, BridgePromise, TransferSum,
       DebitLock, BridgeLock, TransferLock

LEMMA TransferMoves ==
  ASSUME TypeOK, TypeOK', NEW i \in ExternalTransferIds,
         \A j \in ExternalTransferIds : j # i => externalTransfers'[j] = externalTransfers[j]
  PROVE  TransferSum' =
           TransferSum - Unanswered(externalTransfers[i]) + Unanswered(externalTransfers'[i])
<1>. DEFINE X == ExternalTransferIds
            f == TransferLock
            g == [j \in X |-> Unanswered(externalTransfers'[j])]
<1>1. \A j \in X : f[j] \in Nat /\ g[j] \in Nat
  BY UnansweredNat DEF TypeOK, TransferLock
<1>2. \A j \in X \ {i} : f[j] = g[j]
  BY DEF TransferLock
<1>3. f[i] = Unanswered(externalTransfers[i]) /\ g[i] = Unanswered(externalTransfers'[i])
  BY DEF TransferLock
<1>4. TransferSum = Total(X, f) /\ TransferSum' = Total(X, g)
  BY DEF TransferSum, TransferLock, Unanswered
<1>5. IsFiniteSet(X) /\ i \in X
  BY TransfersFinite
<1>. HIDE DEF f, g
<1>. HIDE DEF X
<1>6. Total(X, g) = Total(X, f) - f[i] + g[i]
  BY <1>1, <1>2, <1>5, TotalUpdate
<1>. QED  BY <1>3, <1>4, <1>6

LEMMA DebitMoves ==
  ASSUME TypeOK, NEW u \in User, NEW i \in RequestIds, NEW r \in RequestType,
         withdrawRequests' = [withdrawRequests EXCEPT ![u][i] = r]
  PROVE  DebitSum' = DebitSum - Debited(withdrawRequests[u][i]) + Debited(r)
<1>. DEFINE X == User \X RequestIds
            x == <<u, i>>
            f == DebitLock
            g == [y \in X |-> Debited(withdrawRequests'[y[1]][y[2]])]
<1>0. withdrawRequests \in [User -> [RequestIds -> RequestType]]
  BY DEF TypeOK
<1>1. \A y \in X : withdrawRequests'[y[1]][y[2]] =
                     IF y = x THEN r ELSE withdrawRequests[y[1]][y[2]]
  BY <1>0
<1>2. \A y \in X : g[y] = IF y = x THEN Debited(r) ELSE f[y]
  BY <1>1 DEF DebitLock
<1>3. x \in X /\ f[x] = Debited(withdrawRequests[u][i]) /\ g[x] = Debited(r)
  BY <1>2 DEF DebitLock
<1>4. \A y \in X : f[y] \in Nat
  BY RequestFields, DebitedNat DEF DebitLock
<1>5. \A y \in X : f[y] \in Nat /\ g[y] \in Nat
  BY <1>2, <1>4, DebitedNat
<1>6. \A y \in X \ {x} : f[y] = g[y]
  BY <1>2
<1>7. IsFiniteSet(X)
  BY LocksFinite
<1>8. DebitSum = Total(X, f) /\ DebitSum' = Total(X, g)
  BY DEF DebitSum, DebitLock, Debited
<1>. HIDE DEF X, x, f, g
<1>9. Total(X, g) = Total(X, f) - f[x] + g[x]
  BY <1>3, <1>5, <1>6, <1>7, TotalUpdate, SMTT(60)
<1>. QED  BY <1>3, <1>8, <1>9

LEMMA AllocatedMoves ==
  ASSUME TypeOK, TypeOK', NEW u \in User, NEW n \in Nat
  PROVE  /\ allocatedBalances' = [allocatedBalances EXCEPT ![u] = @ + n]
              => AllocatedSum' = AllocatedSum + n
         /\ allocatedBalances' = [allocatedBalances EXCEPT ![u] = @ - n]
              => AllocatedSum' = AllocatedSum - n
<1>1. allocatedBalances \in [User -> Nat] /\ allocatedBalances' \in [User -> Nat]
  BY DEF TypeOK
<1>2. ASSUME \A x \in User : x # u => allocatedBalances'[x] = allocatedBalances[x]
      PROVE  AllocatedSum' = AllocatedSum - allocatedBalances[u] + allocatedBalances'[u]
  BY <1>1, <1>2, OneUser DEF AllocatedSum
<1>3. AllocatedSum \in Nat /\ allocatedBalances[u] \in Nat
  BY <1>1, SumsNat
<1>. QED  BY <1>1, <1>2, <1>3

LEMMA PledgeMoves ==
  ASSUME TypeOK, TypeOK', NEW u \in User, NEW n \in Nat
  PROVE  /\ pledgeDeposit' = [pledgeDeposit EXCEPT ![u] = @ + n] => PledgeSum' = PledgeSum + n
         /\ pledgeDeposit' = [pledgeDeposit EXCEPT ![u] = @ - n] => PledgeSum' = PledgeSum - n
<1>1. pledgeDeposit \in [User -> Nat] /\ pledgeDeposit' \in [User -> Nat]
  BY DEF TypeOK
<1>2. ASSUME \A x \in User : x # u => pledgeDeposit'[x] = pledgeDeposit[x]
      PROVE  PledgeSum' = PledgeSum - pledgeDeposit[u] + pledgeDeposit'[u]
  BY <1>1, <1>2, OneUser DEF PledgeSum
<1>3. PledgeSum \in Nat /\ pledgeDeposit[u] \in Nat
  BY <1>1, SumsNat
<1>. QED  BY <1>1, <1>2, <1>3

----------------------------------------------------------------------------
(* The handlers.                                                           *)

\* Some tokens come in or go out.
Balanced == \E n : Moves(n)

\* k tokens come in, l are promised or pledged, and the balances follow.
LEMMA BooksBalance ==
  ASSUME TypeOK, TypeOK', NEW k \in Int, NEW l \in Int,
         tokenBalance' = tokenBalance + k,
         PledgeSum' + DebitSum' + BridgePromise' + TransferSum'
           = PledgeSum + DebitSum + BridgePromise + TransferSum + l,
         BalanceSum' + AllocatedSum' - providersDebt'
           = BalanceSum + AllocatedSum - providersDebt + (To18Decimals(k) - To18Decimals(l))
  PROVE  Balanced
<1>1. k - l \in Int /\ To18Decimals(k - l) = To18Decimals(k) - To18Decimals(l)
  BY ScaleAdds
<1>2. Held' = Held + To18Decimals(k - l)
  BY <1>1 DEF Held
<1>3. /\ PledgeSum \in Int /\ DebitSum \in Int /\ BridgePromise \in Int
      /\ TransferSum \in Int /\ tokenBalance \in Int
  BY SumsNat DEF TypeOK
<1>. DEFINE A == PledgeSum + DebitSum + BridgePromise + TransferSum
            B == PledgeSum' + DebitSum' + BridgePromise' + TransferSum'
<1>4. Free = tokenBalance - A /\ A \in Int
  BY <1>3 DEF Free
<1>5. Free' = tokenBalance' - B /\ B \in Int /\ tokenBalance' \in Int
  BY SumsNatNext DEF Free
<1>6. B = A + l
  OBVIOUS
<1>. HIDE DEF A, B
<1>7. Free' = Free + (k - l)
  BY <1>3, <1>4, <1>5, <1>6
<1>. QED  BY <1>1, <1>2, <1>7 DEF Balanced, Moves

\* Nothing that counts changes, or one user pays another.
LEMMA NothingMoves ==
  ASSUME TypeOK, TypeOK', UNCHANGED <<tokenBalance, pledgeDeposit, withdrawRequests,
                                      bridgeTransactions, externalTransfers, providersDebt>>,
         BalanceSum' + AllocatedSum' = BalanceSum + AllocatedSum
  PROVE  Balanced
<1>1. /\ PledgeSum \in Int /\ DebitSum \in Int /\ BridgePromise \in Int
      /\ TransferSum \in Int /\ tokenBalance \in Int /\ providersDebt \in Int
      /\ BalanceSum \in Int /\ AllocatedSum \in Int
  BY SumsNat DEF TypeOK
<1>2. /\ PledgeSum' = PledgeSum /\ DebitSum' = DebitSum /\ BridgePromise' = BridgePromise
      /\ TransferSum' = TransferSum
  BY SumsStay
<1>3. To18Decimals(0) = 0 /\ 0 \in Int
  BY ScaleAdds
<1>4. Free' = Free + 0
  BY <1>1, <1>2 DEF Free
<1>5. Held \in Int /\ Held' = Held
  <2>1. Held' = BalanceSum' + AllocatedSum' - providersDebt' /\ providersDebt' = providersDebt
    BY SumsNatNext DEF Held
  <2>2. Held = BalanceSum + AllocatedSum - providersDebt /\ Held \in Int
    BY <1>1 DEF Held
  <2>. QED  BY <1>1, <2>1, <2>2, SumsNatNext
<1>. QED  BY <1>3, <1>4, <1>5 DEF Balanced, Moves

LEMMA UserStep ==
  ASSUME TypeOK, TypeOK', UNCHANGED requestVars,
         NEW u \in User, NEW v \in User, NEW n \in Amounts,
         \/ Allocate(u, n) \/ Deallocate(u, n) \/ ZeroUpnlDeallocate(u, n)
         \/ DeallocateSuspendedUserFunds(u, n) \/ WithdrawSuspendedUserFunds(u, v, n)
         \/ InternalTransfer(u, v, n) \/ InternalTransferToBalance(u, v, n)
  PROVE  Balanced
<1>1. n \in Nat /\ To18Decimals(n) \in Nat
  BY AccountsAssumption, ScaledNat
<1>2. UNCHANGED <<tokenBalance, pledgeDeposit, withdrawRequests, bridgeTransactions,
                  externalTransfers, providersDebt>>
  BY DEF Allocate, Deallocate, ZeroUpnlDeallocate, DeallocateSuspendedUserFunds,
         WithdrawSuspendedUserFunds, InternalTransfer, InternalTransferToBalance,
         OnlyBalances, promises, pledges, requestVars
<1>3. BalanceSum \in Nat /\ AllocatedSum \in Nat
  BY SumsNat
<1>. SUFFICES BalanceSum' + AllocatedSum' = BalanceSum + AllocatedSum
  BY <1>2, NothingMoves
<1>4. CASE Allocate(u, n) \/ InternalTransfer(u, v, n)
  <2>1. BalanceSum' = BalanceSum - n
    BY <1>1, <1>4, DebitsSum DEF Allocate, InternalTransfer
  <2>2. AllocatedSum' = AllocatedSum + n
    BY <1>1, <1>4, AllocatedMoves DEF Allocate, InternalTransfer
  <2>. QED  BY <1>1, <1>3, <2>1, <2>2
<1>5. CASE Deallocate(u, n) \/ ZeroUpnlDeallocate(u, n) \/ DeallocateSuspendedUserFunds(u, n)
  <2>1. BalanceSum' = BalanceSum + n
    BY <1>1, <1>5, CreditSum DEF Deallocate, ZeroUpnlDeallocate, DeallocateSuspendedUserFunds
  <2>2. AllocatedSum' = AllocatedSum - n
    BY <1>1, <1>5, AllocatedMoves
       DEF Deallocate, ZeroUpnlDeallocate, DeallocateSuspendedUserFunds
  <2>. QED  BY <1>1, <1>3, <2>1, <2>2
<1>6. CASE WithdrawSuspendedUserFunds(u, v, n) \/ InternalTransferToBalance(u, v, n)
  <2>. PICK m \in Nat :
         /\ balances[u] >= m
         /\ balances' = [x \in User |-> balances[x] - (IF x = u THEN m ELSE 0)
                                          + (IF x = v THEN m ELSE 0)]
    BY <1>1, <1>6 DEF WithdrawSuspendedUserFunds, InternalTransferToBalance
  <2>1. Total(User, balances') = Total(User, balances)
    <3>1. balances \in [User -> Nat] /\ balances' \in [User -> Nat]
      BY DEF TypeOK
    <3>. QED  BY <3>1, UserPays
  <2>2. AllocatedSum' = AllocatedSum
    BY <1>6, SumsStay DEF WithdrawSuspendedUserFunds, InternalTransferToBalance
  <2>. QED  BY <1>3, <2>1, <2>2 DEF BalanceSum
<1>. QED  BY <1>4, <1>5, <1>6

LEMMA FundsStep ==
  ASSUME TypeOK, TypeOK', UNCHANGED requestVars, NEW u \in User, NEW n \in Amounts,
         \/ Deposit(u, n) \/ DepositAndAllocate(u, n) \/ DepositVirtualFunds(n)
         \/ VirtualDepositFor(u, n) \/ VirtualDepositAndAllocateFor(u, n)
         \/ LegacyWithdraw(u, n) \/ ExternalTransfer(u, n)
  PROVE  Balanced
<1>. DEFINE m == To18Decimals(n)
<1>1. n \in Nat /\ m \in Nat
  BY AccountsAssumption, ScaledNat
<1>2. /\ UNCHANGED <<pledgeDeposit, withdrawRequests, bridgeTransactions, externalTransfers>>
  BY DEF Deposit, DepositAndAllocate, DepositVirtualFunds, VirtualDepositFor,
         VirtualDepositAndAllocateFor, LegacyWithdraw, ExternalTransfer, promises, pledges,
         requestVars
<1>3. /\ PledgeSum' = PledgeSum /\ DebitSum' = DebitSum /\ BridgePromise' = BridgePromise
      /\ TransferSum' = TransferSum
  BY <1>2, SumsStay
<1>4. /\ BalanceSum \in Int /\ AllocatedSum \in Int /\ PledgeSum \in Int /\ DebitSum \in Int
      /\ BridgePromise \in Int /\ TransferSum \in Int /\ tokenBalance \in Int
      /\ providersDebt \in Int
  BY SumsNat, SumTypes
<1>. SUFFICES \E k \in Int :
                /\ tokenBalance' = tokenBalance + k
                /\ BalanceSum' + AllocatedSum' - providersDebt'
                     = BalanceSum + AllocatedSum - providersDebt + To18Decimals(k)
  BY <1>3, <1>4 DEF Balanced, Moves, Held, Free
<1>5. To18Decimals(0) = 0 /\ To18Decimals(-n) = 0 - m
  BY <1>1, ScaleAdds
<1>. HIDE DEF m
<1>6. CASE Deposit(u, n)
  <2>1. BalanceSum' = BalanceSum + m
    BY <1>1, <1>6, CreditSum DEF Deposit, m
  <2>2. AllocatedSum' = AllocatedSum /\ providersDebt' = providersDebt
    BY <1>6, SumsStay DEF Deposit
  <2>3. tokenBalance' = tokenBalance + n
    BY <1>6 DEF Deposit
  <2>. QED  BY <1>1, <1>4, <2>1, <2>2, <2>3 DEF m
<1>7. CASE DepositAndAllocate(u, n)
  <2>1. AllocatedSum' = AllocatedSum + m
    BY <1>1, <1>7, AllocatedMoves DEF DepositAndAllocate, m
  <2>2. BalanceSum' = BalanceSum /\ providersDebt' = providersDebt
    BY <1>7, SumsStay DEF DepositAndAllocate
  <2>3. tokenBalance' = tokenBalance + n
    BY <1>7 DEF DepositAndAllocate
  <2>. QED  BY <1>1, <1>4, <2>1, <2>2, <2>3 DEF m
<1>8. CASE DepositVirtualFunds(n)
  <2>1. AllocatedSum' = AllocatedSum /\ BalanceSum' = BalanceSum
    BY <1>8, SumsStay DEF DepositVirtualFunds, accounts
  <2>2. tokenBalance' = tokenBalance + n /\ providersDebt' = providersDebt - m
    BY <1>8 DEF DepositVirtualFunds, m
  <2>. QED  BY <1>1, <1>4, <2>1, <2>2 DEF m
<1>9. CASE VirtualDepositFor(u, n)
  <2>1. BalanceSum' = BalanceSum + n
    BY <1>1, <1>9, CreditSum DEF VirtualDepositFor
  <2>2. AllocatedSum' = AllocatedSum /\ providersDebt' = providersDebt + n
    BY <1>9, SumsStay DEF VirtualDepositFor
  <2>3. tokenBalance' = tokenBalance + 0
    BY <1>4, <1>9 DEF VirtualDepositFor
  <2>. QED  BY <1>1, <1>4, <1>5, <2>1, <2>2, <2>3
<1>10. CASE VirtualDepositAndAllocateFor(u, n)
  <2>1. AllocatedSum' = AllocatedSum + n
    BY <1>1, <1>10, AllocatedMoves DEF VirtualDepositAndAllocateFor
  <2>2. BalanceSum' = BalanceSum /\ providersDebt' = providersDebt + n
    BY <1>10, SumsStay DEF VirtualDepositAndAllocateFor
  <2>3. tokenBalance' = tokenBalance + 0
    BY <1>4, <1>10 DEF VirtualDepositAndAllocateFor
  <2>. QED  BY <1>1, <1>4, <1>5, <2>1, <2>2, <2>3
<1>11. CASE LegacyWithdraw(u, n) \/ ExternalTransfer(u, n)
  <2>1. BalanceSum' = BalanceSum - m
    BY <1>1, <1>11, DebitsSum DEF LegacyWithdraw, ExternalTransfer, m
  <2>2. AllocatedSum' = AllocatedSum /\ providersDebt' = providersDebt
    BY <1>11, SumsStay DEF LegacyWithdraw, ExternalTransfer
  <2>3. -n \in Int /\ tokenBalance' = tokenBalance + (-n)
    BY <1>1, <1>4, <1>11 DEF LegacyWithdraw, ExternalTransfer
  <2>4. BalanceSum' + AllocatedSum' - providersDebt'
          = BalanceSum + AllocatedSum - providersDebt + To18Decimals(-n)
    BY <1>1, <1>4, <1>5, <2>1, <2>2
  <2>. QED  BY <2>3, <2>4
<1>. QED  BY <1>6, <1>7, <1>8, <1>9, <1>10, <1>11

LEMMA BridgeBooks ==
  ASSUME TypeOK, TypeOK', UNCHANGED requestVars, BridgeStep
  PROVE  Balanced
<1>1. /\ BalanceSum \in Int /\ AllocatedSum \in Int /\ PledgeSum \in Int /\ DebitSum \in Int
      /\ BridgePromise \in Int /\ TransferSum \in Int /\ tokenBalance \in Int
      /\ providersDebt \in Int
  BY SumsNat, SumTypes
<1>2. /\ UNCHANGED <<allocatedBalances, pledgeDeposit>>
      /\ UNCHANGED <<withdrawRequests, externalTransfers>> /\ UNCHANGED providersDebt
  BY DEF BridgeStep, TransferToBridge, WithdrawReceivedBridgeValues, requestVars,
         SuspendBridgeTransaction, RestoreBridgeTransaction, SetBridge, accounts, promises,
         pledges
<1>3. /\ AllocatedSum' = AllocatedSum /\ PledgeSum' = PledgeSum /\ DebitSum' = DebitSum
      /\ TransferSum' = TransferSum /\ providersDebt' = providersDebt
  BY <1>2, SumsStay
<1>4. ASSUME NEW k \in Int, NEW l \in Int, tokenBalance' = tokenBalance + k,
             BridgePromise' = BridgePromise + l,
             BalanceSum' = BalanceSum + (To18Decimals(k) - To18Decimals(l))
      PROVE  Balanced
  <2>1. PledgeSum' + DebitSum' + BridgePromise' + TransferSum'
          = PledgeSum + DebitSum + BridgePromise + TransferSum + l
    BY <1>1, <1>3, <1>4
  <2>2. To18Decimals(k) - To18Decimals(l) \in Int
    BY ScaleAdds
  <2>3. BalanceSum' + AllocatedSum' - providersDebt'
          = BalanceSum + AllocatedSum - providersDebt + (To18Decimals(k) - To18Decimals(l))
    BY <1>1, <1>3, <1>4, <2>2
  <2>. QED  BY <1>4, <2>1, <2>3, BooksBalance
<1>5. To18Decimals(0) = 0
  BY ScaleAdds
<1>6. ASSUME NEW u \in User, NEW n \in Amounts, NEW b \in Bridge,
             NEW t \in BridgeTransactionIds, TransferToBridge(u, n, b, t)
      PROVE  Balanced
  <2>. DEFINE r == [status |-> "RECEIVED", user |-> u, bridge |-> b, amount |-> n,
                    timestamp |-> now]
  <2>1. n \in Nat /\ To18Decimals(n) \in Nat
    BY AccountsAssumption, ScaledNat
  <2>2. /\ Unpaid(bridgeTransactions[t]) = 0 /\ Unpaid(r) = n
        /\ bridgeTransactions' = [bridgeTransactions EXCEPT ![t] = r]
        /\ tokenBalance' = tokenBalance + 0
    BY <1>1, <1>6 DEF TransferToBridge, IsNext, Unpaid
  <2>3. r \in BridgeTransactionType
    BY <2>1 DEF TypeOK, BridgeTransactionType
  <2>. HIDE DEF r
  <2>4. BridgePromise' = BridgePromise - Unpaid(bridgeTransactions[t]) + Unpaid(r)
    BY <2>2, <2>3, BridgePromiseUpdate
  <2>5. BridgePromise' = BridgePromise + n
    BY <1>1, <2>1, <2>2, <2>4
  <2>6. BalanceSum' = BalanceSum - To18Decimals(n)
    BY <1>6, <2>1, DebitsSum DEF TransferToBridge
  <2>7. BalanceSum' = BalanceSum + (To18Decimals(0) - To18Decimals(n))
    BY <1>1, <1>5, <2>1, <2>6
  <2>. QED  BY <1>4, <2>1, <2>2, <2>5, <2>7
<1>7. ASSUME NEW b \in Bridge, NEW S \in SUBSET BridgeTransactionIds,
             WithdrawReceivedBridgeValues(b, S)
      PROVE  Balanced
  <2>. DEFINE total == Total(S, [t \in S |-> bridgeTransactions[t].amount])
  <2>1. total \in Nat
    BY BatchTotal
  <2>2. BridgePromise' = BridgePromise - total
    BY <1>7, BridgePromiseBatch
  <2>3. tokenBalance' = tokenBalance - total /\ UNCHANGED balances
    BY <1>7 DEF WithdrawReceivedBridgeValues, accounts
  <2>4. BalanceSum' = BalanceSum
    BY <2>3, SumsStay
  <2>. HIDE DEF total
  <2>5. To18Decimals(-total) \in Int /\ -total \in Int
    BY <2>1, ScaleAdds
  <2>6. /\ tokenBalance' = tokenBalance + (-total) /\ BridgePromise' = BridgePromise + (-total)
        /\ BalanceSum' = BalanceSum + (To18Decimals(-total) - To18Decimals(-total))
    BY <1>1, <2>1, <2>2, <2>3, <2>4, <2>5
  <2>. QED  BY <1>4, <2>5, <2>6
<1>8. ASSUME NEW t \in BridgeTransactionIds, SuspendBridgeTransaction(t)
      PROVE  Balanced
  <2>. DEFINE r == [bridgeTransactions[t] EXCEPT !.status = "SUSPENDED"]
  <2>1. /\ r \in BridgeTransactionType
        /\ bridgeTransactions' = [bridgeTransactions EXCEPT ![t] = r]
    BY <1>8, BridgeTransactionFields, BridgeTransactionUpdate DEF SuspendBridgeTransaction
  <2>2. Unpaid(r) = Unpaid(bridgeTransactions[t]) /\ Unpaid(r) \in Nat
    <3>1. r.status = "SUSPENDED" /\ r.amount = bridgeTransactions[t].amount
      BY BridgeTransactionFields DEF BridgeTransactionType
    <3>2. bridgeTransactions[t].status = "RECEIVED"
      BY <1>8 DEF SuspendBridgeTransaction
    <3>. QED  BY <3>1, <3>2, BridgeTransactionFields DEF Unpaid
  <2>3. UNCHANGED tokenBalance /\ UNCHANGED balances
    BY <1>8 DEF SuspendBridgeTransaction, accounts
  <2>. HIDE DEF r
  <2>4. BridgePromise' = BridgePromise - Unpaid(bridgeTransactions[t]) + Unpaid(r)
    BY <2>1, BridgePromiseUpdate
  <2>5. /\ BridgePromise' = BridgePromise + 0 /\ tokenBalance' = tokenBalance + 0
        /\ BalanceSum' = BalanceSum + (To18Decimals(0) - To18Decimals(0))
    BY <1>1, <1>5, <2>2, <2>3, <2>4, SumsStay
  <2>. QED  BY <1>4, <2>5
<1>9. ASSUME NEW t \in BridgeTransactionIds,
             NEW valid \in 0..bridgeTransactions[t].amount, RestoreBridgeTransaction(t, valid)
      PROVE  Balanced
  <2>. DEFINE r == [bridgeTransactions[t] EXCEPT !.status = "RECEIVED", !.amount = valid]
              n == InvalidPart(t, valid)
  <2>0. bridgeTransactions[t].amount \in Nat /\ valid \in Nat
    BY BridgeTransactionFields
  <2>1. /\ r \in BridgeTransactionType
        /\ bridgeTransactions' = [bridgeTransactions EXCEPT ![t] = r]
    BY <1>9, <2>0, BridgeTransactionFields, BridgeTransactionUpdate
    DEF RestoreBridgeTransaction
  <2>2. /\ Unpaid(r) = valid /\ Unpaid(bridgeTransactions[t]) = bridgeTransactions[t].amount
    <3>1. r.status = "RECEIVED" /\ r.amount = valid
      BY BridgeTransactionFields DEF BridgeTransactionType
    <3>2. bridgeTransactions[t].status = "SUSPENDED"
      BY <1>9 DEF RestoreBridgeTransaction
    <3>. QED  BY <3>1, <3>2 DEF Unpaid
  <2>3. n \in Nat /\ n = bridgeTransactions[t].amount - valid
    BY <2>0 DEF InvalidPart
  <2>. HIDE DEF r
  <2>4. BridgePromise' = BridgePromise - Unpaid(bridgeTransactions[t]) + Unpaid(r)
    BY <2>1, BridgePromiseUpdate
  <2>5. tokenBalance' = tokenBalance + 0 /\ BridgePromise' = BridgePromise + (-n) /\ -n \in Int
    BY <1>1, <1>9, <2>0, <2>2, <2>3, <2>4 DEF RestoreBridgeTransaction
  <2>6. BalanceSum' = BalanceSum + To18Decimals(n)
    <3>1. Credit(InvalidBridgedAmountsPool, To18Decimals(n)) /\ To18Decimals(n) \in Nat
      BY <1>9, <2>3, ScaledNat DEF RestoreBridgeTransaction, InvalidPart
    <3>2. InvalidBridgedAmountsPool \in User
      BY AccountsAssumption
    <3>. HIDE DEF n
    <3>. QED  BY <3>1, <3>2, CreditSum
  <2>. HIDE DEF n
  <2>7. BalanceSum' = BalanceSum + (To18Decimals(0) - To18Decimals(-n))
    <3>1. n \in Int
      BY <2>3
    <3>2. To18Decimals(-n) = 0 - To18Decimals(n) /\ To18Decimals(n) \in Int
      BY <3>1, ScaleAdds
    <3>. QED  BY <1>1, <1>5, <2>6, <3>2
  <2>. QED  BY <1>4, <2>5, <2>7
<1>10. ASSUME NEW b \in Bridge, SetBridge(b)
       PROVE  Balanced
  <2>1. UNCHANGED tokenBalance /\ UNCHANGED balances /\ UNCHANGED bridgeTransactions
    BY <1>10 DEF SetBridge, promises, accounts
  <2>2. /\ BridgePromise' = BridgePromise + 0 /\ tokenBalance' = tokenBalance + 0
        /\ BalanceSum' = BalanceSum + (To18Decimals(0) - To18Decimals(0))
    BY <1>1, <1>5, <2>1, SumsStay
  <2>. QED  BY <1>4, <2>2
<1>. QED  BY <1>6, <1>7, <1>8, <1>9, <1>10 DEF BridgeStep

LEMMA TransferBooks ==
  ASSUME TypeOK, TypeOK', UNCHANGED requestVars, ExternalTransferStep
  PROVE  Balanced
<1>1. /\ BalanceSum \in Int /\ AllocatedSum \in Int /\ PledgeSum \in Int /\ DebitSum \in Int
      /\ BridgePromise \in Int /\ TransferSum \in Int /\ tokenBalance \in Int
      /\ providersDebt \in Int
  BY SumsNat, SumTypes
<1>2. To18Decimals(0) = 0
  BY ScaleAdds
<1>3. ASSUME NEW i \in ExternalTransferIds,
             \/ \E u \in User, n \in Amounts : VirtualExternalTransfer(u, n, i)
             \/ AcceptVirtualExternalTransfer(i) \/ CancelVirtualExternalTransfer(i)
      PROVE  Balanced
  <2>. DEFINE old == externalTransfers[i]
              new == externalTransfers'[i]
  <2>1. /\ UNCHANGED <<allocatedBalances, pledgeDeposit>>
        /\ UNCHANGED <<withdrawRequests, bridgeTransactions>>
    BY <1>3 DEF VirtualExternalTransfer, AcceptVirtualExternalTransfer, requestVars,
                CancelVirtualExternalTransfer, accounts, pledges
  <2>2. /\ AllocatedSum' = AllocatedSum /\ PledgeSum' = PledgeSum /\ DebitSum' = DebitSum
        /\ BridgePromise' = BridgePromise
    BY <2>1, SumsStay
  <2>3. tokenBalance' = tokenBalance + 0
    BY <1>1, <1>3 DEF VirtualExternalTransfer, AcceptVirtualExternalTransfer,
                CancelVirtualExternalTransfer
  <2>4. \A j \in ExternalTransferIds : j # i => externalTransfers'[j] = externalTransfers[j]
    BY <1>3 DEF VirtualExternalTransfer, AcceptVirtualExternalTransfer,
                CancelVirtualExternalTransfer, TypeOK
  <2>5. TransferSum' = TransferSum - Unanswered(old) + Unanswered(new)
    BY <2>4, TransferMoves
  <2>6. old \in ExternalTransferType /\ old.amount \in Nat /\ old.sender \in User
    BY DEF TypeOK, ExternalTransferType
  <2>7. ASSUME NEW l \in Int, Unanswered(new) - Unanswered(old) = l,
               Unanswered(old) \in Nat, Unanswered(new) \in Nat,
               BalanceSum' - providersDebt' = BalanceSum - providersDebt - To18Decimals(l)
        PROVE  Balanced
    <3>1. TransferSum' = TransferSum + l
      BY <1>1, <2>5, <2>7
    <3>2. PledgeSum' + DebitSum' + BridgePromise' + TransferSum'
            = PledgeSum + DebitSum + BridgePromise + TransferSum + l
      BY <1>1, <2>2, <2>7, <3>1
    <3>3. To18Decimals(l) \in Int
      BY ScaleAdds
    <3>4. BalanceSum' + AllocatedSum' - providersDebt'
            = BalanceSum + AllocatedSum - providersDebt + (To18Decimals(0) - To18Decimals(l))
      BY <1>1, <1>2, <2>2, <2>7, <3>3, SumsNatNext
    <3>. QED  BY <2>3, <2>7, <3>2, <3>4, BooksBalance
  <2>8. CASE \E u \in User, n \in Amounts : VirtualExternalTransfer(u, n, i)
    <3>. PICK u \in User, n \in Amounts : VirtualExternalTransfer(u, n, i)
      BY <2>8
    <3>1. n \in Nat /\ To18Decimals(n) \in Nat
      BY AccountsAssumption, ScaledNat
    <3>2. /\ old.status = "NONE" /\ new = [status |-> "PENDING", sender |-> u, amount |-> n]
      BY DEF VirtualExternalTransfer, IsNext, TypeOK
    <3>3. Unanswered(old) = 0 /\ Unanswered(new) = n
      BY <3>2 DEF Unanswered
    <3>4. BalanceSum' = BalanceSum - To18Decimals(n) /\ providersDebt' = providersDebt
      BY <3>1, DebitsSum DEF VirtualExternalTransfer
    <3>. HIDE DEF old, new
    <3>5. Unanswered(new) - Unanswered(old) = n
      BY <3>1, <3>3
    <3>6. BalanceSum' - providersDebt' = BalanceSum - providersDebt - To18Decimals(n)
      BY <1>1, <3>1, <3>4
    <3>. QED  BY <2>7, <3>1, <3>3, <3>5, <3>6
  <2>9. CASE AcceptVirtualExternalTransfer(i) \/ CancelVirtualExternalTransfer(i)
    <3>. DEFINE n == old.amount
    <3>1. n \in Nat /\ To18Decimals(n) \in Nat
      BY <2>6, ScaledNat
    <3>2. old.status = "PENDING" /\ new.status \in {"COMPLETED", "CANCELED"}
      BY <2>6, <2>9 DEF AcceptVirtualExternalTransfer, CancelVirtualExternalTransfer,
                  MayCancelTransfer, TypeOK, ExternalTransferType
    <3>3. Unanswered(old) = n /\ Unanswered(new) = 0
      BY <3>2 DEF Unanswered
    <3>4. \/ BalanceSum' = BalanceSum /\ providersDebt' = providersDebt - To18Decimals(n)
          \/ BalanceSum' = BalanceSum + To18Decimals(n) /\ providersDebt' = providersDebt
      <4>1. CASE AcceptVirtualExternalTransfer(i)
        BY <4>1, SumsStay DEF AcceptVirtualExternalTransfer, accounts
      <4>2. CASE CancelVirtualExternalTransfer(i)
        <5>1. Credit(old.sender, To18Decimals(n)) /\ providersDebt' = providersDebt
          BY <4>2 DEF CancelVirtualExternalTransfer
        <5>. HIDE DEF n, old
        <5>. QED  BY <2>6, <3>1, <5>1, CreditSum
      <4>. QED  BY <2>9, <4>1, <4>2
    <3>. HIDE DEF n, old, new
    <3>5. -n \in Int /\ Unanswered(new) - Unanswered(old) = -n
      BY <3>1, <3>3
    <3>6. To18Decimals(-n) = 0 - To18Decimals(n)
      BY <3>1, ScaleAdds
    <3>7. BalanceSum' - providersDebt' = BalanceSum - providersDebt - To18Decimals(-n)
      BY <1>1, <3>1, <3>4, <3>6
    <3>. QED  BY <2>7, <3>1, <3>3, <3>5, <3>7
  <2>. QED  BY <1>3, <2>8, <2>9
<1>. QED  BY <1>3, FundsStep DEF ExternalTransferStep

LEMMA PledgeBooks ==
  ASSUME TypeOK, TypeOK', UNCHANGED requestVars, PledgeStep
  PROVE  Balanced
<1>1. /\ BalanceSum \in Int /\ AllocatedSum \in Int /\ PledgeSum \in Int /\ DebitSum \in Int
      /\ BridgePromise \in Int /\ TransferSum \in Int /\ tokenBalance \in Int
      /\ providersDebt \in Int
  BY SumsNat, SumTypes
<1>2. /\ UNCHANGED <<balances, allocatedBalances>> /\ UNCHANGED providersDebt
      /\ UNCHANGED <<withdrawRequests, externalTransfers, bridgeTransactions>>
  BY DEF PledgeStep, CancelPledgeWithdraw, DepositPledge, RequestPledgeWithdraw, SlashPledge,
         AcceptPledgeWithdraw, OnlyPledges, accounts, promises, requestVars
<1>3. /\ AllocatedSum' = AllocatedSum /\ BalanceSum' = BalanceSum /\ DebitSum' = DebitSum
      /\ TransferSum' = TransferSum /\ BridgePromise' = BridgePromise
      /\ providersDebt' = providersDebt
  BY <1>2, SumsStay
\* The contract gains or loses with the pledges.
<1>4. ASSUME NEW l \in Int, tokenBalance' = tokenBalance + l, PledgeSum' = PledgeSum + l
      PROVE  Balanced
  <2>1. PledgeSum' + DebitSum' + BridgePromise' + TransferSum'
          = PledgeSum + DebitSum + BridgePromise + TransferSum + l
    BY <1>1, <1>3, <1>4
  <2>2. To18Decimals(l) \in Int
    BY ScaleAdds
  <2>3. BalanceSum' + AllocatedSum' - providersDebt'
          = BalanceSum + AllocatedSum - providersDebt + (To18Decimals(l) - To18Decimals(l))
    BY <1>1, <1>3, <2>2
  <2>. QED  BY <1>4, <2>1, <2>3, BooksBalance
<1>5. ASSUME UNCHANGED tokenBalance, UNCHANGED pledgeDeposit
      PROVE  Balanced
  <2>1. tokenBalance' = tokenBalance + 0 /\ PledgeSum' = PledgeSum + 0
    BY <1>1, <1>5, SumsStay
  <2>. QED  BY <1>4, <2>1
<1>6. ASSUME NEW u \in User, CancelPledgeWithdraw(u)
      PROVE  Balanced
  BY <1>5, <1>6 DEF CancelPledgeWithdraw
<1>7. ASSUME NEW u \in User, NEW n \in PledgeAmounts, RequestPledgeWithdraw(u, n)
      PROVE  Balanced
  BY <1>5, <1>7 DEF RequestPledgeWithdraw
<1>8. ASSUME NEW u \in User, NEW n \in PledgeAmounts, DepositPledge(u, n)
      PROVE  Balanced
  <2>1. n \in Nat /\ tokenBalance' = tokenBalance + n
    BY <1>8, AccountsAssumption DEF DepositPledge
  <2>2. PledgeSum' = PledgeSum + n
    BY <1>8, <2>1, PledgeMoves DEF DepositPledge
  <2>. QED  BY <1>4, <2>1, <2>2
<1>9. ASSUME NEW u \in User, NEW n \in PledgeAmounts \cup {0},
             SlashPledge(u, n) \/ AcceptPledgeWithdraw(u, n)
      PROVE  Balanced
  <2>1. n \in Nat /\ tokenBalance' = tokenBalance - n
    BY <1>9, AccountsAssumption DEF SlashPledge, AcceptPledgeWithdraw
  <2>2. PledgeSum' = PledgeSum - n
    BY <1>9, <2>1, PledgeMoves DEF SlashPledge, AcceptPledgeWithdraw
  <2>3. -n \in Int /\ tokenBalance' = tokenBalance + (-n) /\ PledgeSum' = PledgeSum + (-n)
    BY <1>1, <2>1, <2>2
  <2>. QED  BY <1>4, <2>3
<1>. QED  BY <1>6, <1>7, <1>8, <1>9 DEF PledgeStep

LEMMA CollateralBooks ==
  ASSUME TypeOK, TypeOK', UNCHANGED requestVars, CollateralStep
  PROVE  Balanced
<1>1. ASSUME UNCHANGED <<balances, allocatedBalances>>,
             UNCHANGED <<tokenBalance, pledgeDeposit, withdrawRequests, bridgeTransactions,
                         externalTransfers, providersDebt>>
      PROVE  Balanced
  <2>1. BalanceSum' = BalanceSum /\ AllocatedSum' = AllocatedSum
    BY <1>1, SumsStay
  <2>. QED  BY <1>1, <2>1, NothingMoves
<1>2. CASE AccountStep
  <2>1. ASSUME NEW n \in Amounts, DepositVirtualFunds(n)
        PROVE  Balanced
    BY <2>1, AccountsAssumption, FundsStep
  <2>2. ASSUME NEW u \in Suspendable, SuspendedAddress(u) \/ UnsuspendedAddress(u)
        PROVE  Balanced
    BY <1>1, <2>2 DEF SuspendedAddress, UnsuspendedAddress, accounts, promises, pledges,
                      requestVars
  <2>. QED  BY <1>2, <2>1, <2>2, UserStep, FundsStep DEF AccountStep
<1>3. CASE CollateralTick
  BY <1>1, <1>3 DEF CollateralTick, accounts, promises, pledges, requestVars
<1>. QED  BY <1>2, <1>3, BridgeBooks, TransferBooks, PledgeBooks DEF CollateralStep

\* A request's record changes, with the user's balance and the contract's tokens.
LEMMA RequestBooks ==
  ASSUME ReserveInv, TypeOK', RequestStep
  PROVE  Balanced
<1>0. TypeOK
  BY DEF ReserveInv
<1>1. /\ BalanceSum \in Int /\ AllocatedSum \in Int /\ PledgeSum \in Int /\ DebitSum \in Int
      /\ BridgePromise \in Int /\ TransferSum \in Int /\ tokenBalance \in Int
      /\ providersDebt \in Int
  BY <1>0, SumsNat, SumTypes
<1>2. To18Decimals(0) = 0
  BY ScaleAdds
<1>3. ASSUME NEW k \in Int, NEW l \in Int, tokenBalance' = tokenBalance + k,
             DebitSum' = DebitSum + l,
             UNCHANGED <<allocatedBalances, promises, pledges>>,
             BalanceSum' - providersDebt'
               = BalanceSum - providersDebt + (To18Decimals(k) - To18Decimals(l))
      PROVE  Balanced
  <2>1. /\ AllocatedSum' = AllocatedSum /\ PledgeSum' = PledgeSum
        /\ BridgePromise' = BridgePromise /\ TransferSum' = TransferSum
    BY <1>3, SumsStay DEF promises, pledges
  <2>2. PledgeSum' + DebitSum' + BridgePromise' + TransferSum'
          = PledgeSum + DebitSum + BridgePromise + TransferSum + l
    BY <1>1, <1>3, <2>1
  <2>3. To18Decimals(k) - To18Decimals(l) \in Int
    BY ScaleAdds
  <2>4. BalanceSum' + AllocatedSum' - providersDebt'
          = BalanceSum + AllocatedSum - providersDebt + (To18Decimals(k) - To18Decimals(l))
    BY <1>1, <1>3, <2>1, <2>3, SumsNatNext
  <2>. QED  BY <1>0, <1>3, <2>2, <2>4, BooksBalance
<1>4. ASSUME NEW u \in User, NEW p \in PartsOffered, NEW speedUp \in BOOLEAN,
             InitiateWithdraw(u, p, speedUp)
      PROVE  Balanced
  <2>. DEFINE id == lastWithdrawRequestId[u] + 1
              r == [status |-> "PENDING", parts |-> p, timestamp |-> now,
                    cooldownEndTime |-> CooldownEnd(u), speedUp |-> speedUp,
                    isCooldownModified |-> FALSE]
              n == TotalAmount(p)
  <2>1. p \in PartsType /\ n \in Nat
    BY RequestsAssumption, PartsNat
  <2>2. r \in RequestType /\ Debited(r) = n
    <3>1. CooldownEnd(u) \in Nat /\ now \in Nat
      BY <1>0, AccountsAssumption DEF TypeOK, CooldownEnd
    <3>. QED  BY <2>1, <3>1 DEF RequestType, OpenRequest, Debited
  <2>3. /\ id \in RequestIds /\ withdrawRequests' = [withdrawRequests EXCEPT ![u][id] = r]
        /\ Debit(u, To18Decimals(n)) /\ providersDebt' = providersDebt
        /\ tokenBalance' = tokenBalance + 0
        /\ UNCHANGED <<allocatedBalances, promises, pledges>>
    BY <1>1, <1>4 DEF InitiateWithdraw
  <2>4. Debited(withdrawRequests[u][id]) = 0
    <3>1. id > lastWithdrawRequestId[u]
      BY <1>0 DEF TypeOK
    <3>. HIDE DEF id
    <3>2. withdrawRequests[u][id].status = "NONE"
      BY <2>3, <3>1 DEF ReserveInv, IdsFresh
    <3>. QED  BY <3>2 DEF Debited, OpenRequest
  <2>. HIDE DEF id, r, n
  <2>5. DebitSum' = DebitSum - Debited(withdrawRequests[u][id]) + Debited(r)
    BY <1>0, <2>2, <2>3, DebitMoves
  <2>6. DebitSum' = DebitSum + n
    BY <1>1, <2>1, <2>2, <2>4, <2>5
  <2>7. To18Decimals(n) \in Nat
    BY <2>1, ScaledNat
  <2>8. BalanceSum' = BalanceSum - To18Decimals(n)
    BY <1>0, <2>3, <2>7, DebitsSum
  <2>9. BalanceSum' - providersDebt'
          = BalanceSum - providersDebt + (To18Decimals(0) - To18Decimals(n))
    BY <1>1, <1>2, <2>3, <2>7, <2>8
  <2>. QED  BY <1>3, <2>1, <2>3, <2>6, <2>9
<1>5. ASSUME NEW u \in User, NEW i \in RequestIds, NEW r \in RequestType,
             withdrawRequests' = [withdrawRequests EXCEPT ![u][i] = r],
             withdrawRequests[u][i].status \in OpenRequest,
             r.parts = withdrawRequests[u][i].parts
      PROVE  LET n == TotalAmount(withdrawRequests[u][i].parts) IN
             /\ n \in Nat
             /\ r.status \in OpenRequest => DebitSum' = DebitSum + 0
             /\ r.status \notin OpenRequest => DebitSum' = DebitSum + (-n)
  <2>. DEFINE old == withdrawRequests[u][i]
              n == TotalAmount(old.parts)
  <2>1. n \in Nat
    BY <1>0, RequestFields, PartsNat
  <2>2. Debited(old) = n /\ Debited(r) = IF r.status \in OpenRequest THEN n ELSE 0
    BY <1>5 DEF Debited
  <2>3. DebitSum' = DebitSum - Debited(old) + Debited(r)
    BY <1>0, <1>5, DebitMoves
  <2>. HIDE DEF old, n
  <2>4. /\ r.status \in OpenRequest => DebitSum' = DebitSum + 0
        /\ r.status \notin OpenRequest => DebitSum' = DebitSum + (-n)
    BY <1>1, <2>1, <2>2, <2>3
  <2>. QED  BY <2>1, <2>4 DEF n, old
<1>6. ASSUME NEW u \in User, NEW i \in RequestIds,
             withdrawRequests[u][i].status \in OpenRequest,
             NEW status \in Released, Settle(u, i, status)
      PROVE  LET n == TotalAmount(withdrawRequests[u][i].parts) IN
             n \in Nat /\ DebitSum' = DebitSum + (-n)
  <2>. DEFINE old == withdrawRequests[u][i]
              r == [old EXCEPT !.status = status]
  <2>1. withdrawRequests' = [withdrawRequests EXCEPT ![u][i] = r]
    BY <1>6 DEF Settle
  <2>2. old \in RequestType
    BY <1>0, RequestFields
  <2>3. r \in RequestType /\ r.parts = old.parts /\ r.status = status
    BY <2>2, StatusUpdate DEF RequestType
  <2>4. status \notin OpenRequest
    BY DEF Released, Settled, OpenRequest
  <2>. HIDE DEF r
  <2>. QED  BY <1>5, <1>6, <2>1, <2>3, <2>4
<1>7. ASSUME NEW u \in User, NEW i \in RequestIds,
             withdrawRequests[u][i].status \in OpenRequest, FinalizeWithdrawRequest(u, i)
      PROVE  Balanced
  <2>. DEFINE p == withdrawRequests[u][i].parts
  <2>1. /\ Settle(u, i, "COMPLETED") /\ UNCHANGED balances
        /\ tokenBalance' = tokenBalance - Own(p)
        /\ providersDebt' = providersDebt - To18Decimals(ByOthers(p))
    BY <1>7 DEF FinalizeWithdrawRequest
  <2>2. "COMPLETED" \in Released
    BY DEF Released, Settled
  <2>3. TotalAmount(p) \in Nat /\ DebitSum' = DebitSum + (-TotalAmount(p))
    BY <1>6, <1>7, <2>1, <2>2
  <2>4. p \in PartsType /\ Own(p) \in Nat /\ ByOthers(p) \in Nat
    BY <1>0, RequestFields, PartsNat
  <2>. HIDE DEF p
  <2>5. TotalAmount(p) = Own(p) + ByOthers(p)
    BY DEF TotalAmount
  <2>6. /\ To18Decimals(-Own(p)) - To18Decimals(-TotalAmount(p)) = To18Decimals(ByOthers(p))
        /\ To18Decimals(ByOthers(p)) \in Int
    <3>1. ASSUME NEW a \in Nat, NEW b \in Nat
          PROVE  /\ To18Decimals(-a) - To18Decimals(-(a + b)) = To18Decimals(b)
                 /\ To18Decimals(b) \in Int
      <4>1. /\ To18Decimals(-a) = 0 - To18Decimals(a)
            /\ To18Decimals(-(a + b)) = 0 - To18Decimals(a + b)
            /\ To18Decimals(a + b) = To18Decimals(a) + To18Decimals(b)
            /\ To18Decimals(a) \in Int /\ To18Decimals(b) \in Int
        BY ScaleAdds
      <4>. QED  BY <4>1
    <3>. QED  BY <2>4, <2>5, <3>1
  <2>7. BalanceSum' - providersDebt' = BalanceSum - providersDebt
          + (To18Decimals(-Own(p)) - To18Decimals(-TotalAmount(p)))
    BY <1>1, <2>1, <2>6, SumsStay
  <2>8. /\ -Own(p) \in Int /\ -TotalAmount(p) \in Int
        /\ tokenBalance' = tokenBalance + (-Own(p))
    BY <1>1, <2>1, <2>3, <2>4
  <2>9. UNCHANGED <<allocatedBalances, promises, pledges>>
    BY <2>1 DEF Settle
  <2>. QED  BY <1>3, <2>3, <2>7, <2>8, <2>9
<1>8. ASSUME NEW u \in User, NEW i \in RequestIds,
             withdrawRequests[u][i].status \in OpenRequest,
             NEW status \in Released, Refund(u, i, status)
      PROVE  Balanced
  <2>. DEFINE n == TotalAmount(withdrawRequests[u][i].parts)
  <2>1. /\ Settle(u, i, status) /\ Credit(u, To18Decimals(n))
        /\ providersDebt' = providersDebt /\ tokenBalance' = tokenBalance + 0
    BY <1>1, <1>8 DEF Refund
  <2>2. n \in Nat /\ DebitSum' = DebitSum + (-n)
    BY <1>6, <1>8, <2>1
  <2>. HIDE DEF n
  <2>3. To18Decimals(n) \in Nat
    BY <2>2, ScaledNat
  <2>4. BalanceSum' = BalanceSum + To18Decimals(n)
    BY <1>0, <2>1, <2>3, CreditSum
  <2>5. To18Decimals(-n) = 0 - To18Decimals(n) /\ -n \in Int
    BY <2>2, ScaleAdds
  <2>6. BalanceSum' - providersDebt'
          = BalanceSum - providersDebt + (To18Decimals(0) - To18Decimals(-n))
    BY <1>1, <1>2, <2>1, <2>3, <2>4, <2>5
  <2>7. UNCHANGED <<allocatedBalances, promises, pledges>>
    BY <2>1 DEF Settle
  <2>. QED  BY <1>3, <2>1, <2>2, <2>5, <2>6, <2>7
<1>9. ASSUME NEW u \in User, NEW i \in RequestIds,
             withdrawRequests[u][i].status \in OpenRequest,
             NEW r \in RequestType, r.status \in OpenRequest,
             r.parts = withdrawRequests[u][i].parts, UpdateRequest(u, i, r)
      PROVE  Balanced
  <2>1. /\ withdrawRequests' = [withdrawRequests EXCEPT ![u][i] = r]
        /\ UNCHANGED balances /\ UNCHANGED providersDebt /\ UNCHANGED tokenBalance
        /\ UNCHANGED <<allocatedBalances, promises, pledges>>
    BY <1>9 DEF UpdateRequest, collateralVars, accounts
  <2>2. DebitSum' = DebitSum + 0
    BY <1>5, <1>9, <2>1
  <2>3. tokenBalance' = tokenBalance + 0 /\ BalanceSum' - providersDebt'
          = BalanceSum - providersDebt + (To18Decimals(0) - To18Decimals(0))
    BY <1>1, <1>2, <2>1, SumsStay
  <2>. QED  BY <1>3, <2>1, <2>2, <2>3
<1>. QED  BY <1>0, <1>4, <1>7, <1>8, <1>9, RequestStepKinds

----------------------------------------------------------------------------

LEMMA ClaimsInit ==
  ASSUME Init
  PROVE  ClaimsBacked
<1>1. TypeOK
  BY TypeInit
<1>. DEFINE c == Cardinality(User)
<1>2. c \in Nat /\ IsFiniteSet(User)
  BY AccountsAssumption, FS_CardinalityType
<1>3. tokenBalance = InitialTokens * c /\ providersDebt = 0
  BY DEF Init, CollateralInit
<1>4. BalanceSum = To18Decimals(InitialTokens) * c
  <2>1. To18Decimals(InitialTokens) \in Nat
    BY AccountsAssumption, ScaledNat
  <2>2. \A u \in User : balances[u] = To18Decimals(InitialTokens)
    BY DEF Init, CollateralInit
  <2>. QED  BY <1>2, <2>1, <2>2, TotalConst DEF BalanceSum
<1>5. AllocatedSum = 0 /\ PledgeSum = 0
  <2>1. \A u \in User : allocatedBalances[u] = 0
    BY DEF Init, CollateralInit
  <2>2. \A u \in User : pledgeDeposit[u] = 0
    BY DEF Init, CollateralInit
  <2>. QED  BY <2>1, <2>2, TotalNone DEF AllocatedSum, PledgeSum
<1>6. DebitSum = 0
  <2>1. \A x \in User \X RequestIds : DebitLock[x] = 0
    BY DEF Init, NoRequest, DebitLock, Debited, OpenRequest
  <2>. QED  BY <2>1, TotalNone DEF DebitSum
<1>7. BridgePromise = 0
  <2>1. \A t \in BridgeTransactionIds : BridgeLock[t] = 0
    BY DEF Init, CollateralInit, NoTransaction, BridgeLock, Unpaid
  <2>. QED  BY <2>1, TotalNone DEF BridgePromise
<1>8. TransferSum = 0
  <2>1. \A i \in ExternalTransferIds : TransferLock[i] = 0
    BY DEF Init, CollateralInit, NoTransfer, TransferLock, Unanswered
  <2>. QED  BY <2>1, TotalNone DEF TransferSum
<1>9. Free = InitialTokens * c
  <2>1. InitialTokens * c \in Int
    BY <1>1, <1>3 DEF TypeOK
  <2>. QED  BY <1>3, <1>5, <1>6, <1>7, <1>8, <2>1 DEF Free
<1>10. Held = To18Decimals(InitialTokens) * c
  BY <1>1, <1>3, <1>4, <1>5, SumsNat DEF Held
<1>. HIDE DEF c
<1>11. To18Decimals(InitialTokens) * c = To18Decimals(InitialTokens * c)
  <2>1. \A a, b, d \in Int : (a * b) * d = (a * d) * b
    OBVIOUS
  <2>. QED  BY <1>2, <2>1, AccountsAssumption DEF To18Decimals
<1>. QED  BY <1>1, <1>9, <1>10, <1>11, ClaimsAre

LEMMA ClaimsStep ==
  ASSUME ReserveInv, ClaimsBacked, [Next]_withdrawVars
  PROVE  ClaimsBacked'
<1>1. TypeOK /\ TypeOK'
  BY TypeStep DEF ReserveInv
<1>2. CASE UNCHANGED withdrawVars
  BY <1>2 DEF withdrawVars, collateralVars, requestVars, accounts, promises, pledges,
              ClaimsBacked, DebitLock, BridgeLock, TransferLock
<1>3. CASE Next
  <2>1. Balanced
    BY <1>1, <1>3, RequestBooks, CollateralBooks DEF Next
  <2>. QED  BY <1>1, <2>1, MovesKeep DEF Balanced
<1>. QED  BY <1>2, <1>3

\* Whatever races, what users, bridges, requests and transfers may claim is to the
\* unit what the contract holds beside the pledges plus what virtual providers owe:
\* no withdrawal is both paid and refunded, no restored or suspended bridge payment
\* and no answered transfer creates collateral or loses it.
THEOREM ClaimsCorrect == Spec => []ClaimsBacked
<1>1. Init => ClaimsBacked
  BY ClaimsInit
<1>2. ReserveInv /\ ClaimsBacked /\ [Next]_withdrawVars => ClaimsBacked'
  BY ClaimsStep
<1>. QED  BY <1>1, <1>2, ReserveInvariant, PTL DEF Spec

=============================================================================
