------------------------------ MODULE Withdraw ------------------------------
(***************************************************************************)
(* Withdrawal requests over the free collateral of Collateral.  A request  *)
(* is debited when it is made and reserves the tokens the contract itself  *)
(* will pay; the user, a provider, an administrator and, once the cooldown *)
(* is over, anybody then race to settle it.                                *)
(*                                                                         *)
(* Every part of a request is classic (paid by the contract to a receiver),*)
(* express (paid by the contract to the express provider), virtual (paid   *)
(* elsewhere by the virtual provider) or both of the last two, and every   *)
(* sum the handlers take is over one of these kinds: a request's parts are *)
(* the totals of the four.  One provider of each sort stands for all.  A   *)
(* provider's callback may revert, and then so does the call: the step     *)
(* does not happen.                                                        *)
(***************************************************************************)
EXTENDS Collateral

CONSTANTS
  PartsOffered,               \* the parts of the requests users make
  MaxRequests,                \* bound on lastWithdrawRequestId
  SpeedUpWhitelist,
  NewCooldowns,               \* what an administrator may grant on speed-up
  MinWithdrawCooldown, PureVirtualCancelBlackout

PartsType == [classic : Nat, express : Nat, virtual : Nat, virtualExpress : Nat]

ASSUME RequestsAssumption ==
  /\ PartsOffered \subseteq PartsType /\ MaxRequests \in Nat
  /\ SpeedUpWhitelist \subseteq User /\ NewCooldowns \subseteq Nat
  /\ MinWithdrawCooldown \in Nat /\ PureVirtualCancelBlackout \in Nat

VARIABLES withdrawRequests, lastWithdrawRequestId        \* [User]

requestVars  == <<withdrawRequests, lastWithdrawRequestId>>
withdrawVars == <<collateralVars, requestVars>>

RequestIds == 1..MaxRequests

\* A SUSPENDED request is refunded like a settled one and yet counted as unfinished.
OpenRequest == {"PENDING", "PROVIDER_ACCEPTED", "CANCEL_REQUESTED"}
Settled     == {"COMPLETED", "CANCELLED", "PROVIDER_REJECTED"}
Released    == Settled \cup {"SUSPENDED"}

RequestType ==
  [status : {"NONE"} \cup OpenRequest \cup Released, parts : PartsType, timestamp : Nat,
   cooldownEndTime : Nat, speedUp : BOOLEAN, isCooldownModified : BOOLEAN]

NoParts   == [classic |-> 0, express |-> 0, virtual |-> 0, virtualExpress |-> 0]
NoRequest == [status |-> "NONE", parts |-> NoParts, timestamp |-> 0, cooldownEndTime |-> 0,
              speedUp |-> FALSE, isCooldownModified |-> FALSE]

----------------------------------------------------------------------------

Own(p)         == p.classic + p.express         \* totalAmount - totalVirtualAmount
ByOthers(p)    == p.virtual + p.virtualExpress  \* totalVirtualAmount
TotalAmount(p) == Own(p) + ByOthers(p)

\* _selectProvider: an express part anywhere makes its provider the one that answers.
ProviderOf(p) ==
  IF p.express + p.virtualExpress > 0 THEN "express"
  ELSE IF p.virtual > 0 THEN "virtual" ELSE "none"
PureVirtual(p) == ProviderOf(p) = "virtual"

CooldownEnd(u) ==
  LET end == deallocateTimestamp[u] + WithdrawCooldownPeriod
  IN  IF end < now THEN now ELSE end

\* Only the requests, and what a settlement moves, change.
Settle(u, i, status) ==
  /\ withdrawRequests' = [withdrawRequests EXCEPT ![u][i].status = status]
  /\ UNCHANGED <<allocatedBalances, deallocateTimestamp, promises, pledges, registers,
                 lastWithdrawRequestId>>

Mutant_Unlocked_All(p) == TotalAmount(p)

\* What leaves the reserve with a request.
Unlocked(p) == Own(p)

\* _unlockAndRefund, and the status that goes with it.
Refund(u, i, status) ==
  LET p == withdrawRequests[u][i].parts IN
  /\ withdrawLockedBalance >= Unlocked(p)
  /\ withdrawLockedBalance' = withdrawLockedBalance - Unlocked(p)
  /\ Credit(u, To18Decimals(TotalAmount(p)))
  /\ Settle(u, i, status)
  /\ UNCHANGED <<tokenBalance, providersDebt>>

UpdateRequest(u, i, r) ==
  /\ withdrawRequests' = [withdrawRequests EXCEPT ![u][i] = r]
  /\ UNCHANGED <<collateralVars, lastWithdrawRequestId>>

InitiateWithdraw(u, p, speedUp) ==
  LET id == lastWithdrawRequestId[u] + 1 IN
  /\ NotSuspended(u)
  /\ TotalAmount(p) > 0
  /\ speedUp => u \in SpeedUpWhitelist /\ ProviderOf(p) # "express"
  /\ Debit(u, To18Decimals(TotalAmount(p)))
  /\ Available(Own(p))
  /\ withdrawLockedBalance' = withdrawLockedBalance + Own(p)
  /\ id \in RequestIds
  /\ lastWithdrawRequestId' = [lastWithdrawRequestId EXCEPT ![u] = id]
  /\ withdrawRequests' = [withdrawRequests EXCEPT ![u][id] =
       [status |-> "PENDING", parts |-> p, timestamp |-> now,
        cooldownEndTime |-> CooldownEnd(u), speedUp |-> speedUp,
        isCooldownModified |-> FALSE]]
  /\ UNCHANGED <<allocatedBalances, deallocateTimestamp, tokenBalance, promises, pledges,
                 registers, providersDebt>>

Mutant_MayFinalize_Again(r) ==
  /\ now >= r.cooldownEndTime
  /\ IF ProviderOf(r.parts) = "none" THEN r.status \in {"PENDING", "COMPLETED"}
     ELSE r.status \in {"PROVIDER_ACCEPTED", "CANCEL_REQUESTED"}

Mutant_MayFinalize_AnsweredOnly(r) ==
  /\ now >= r.cooldownEndTime
  /\ r.status \in {"PROVIDER_ACCEPTED", "CANCEL_REQUESTED"}

MayFinalize(r) ==
  /\ now >= r.cooldownEndTime
  /\ IF ProviderOf(r.parts) = "none" THEN r.status = "PENDING"
     ELSE r.status \in {"PROVIDER_ACCEPTED", "CANCEL_REQUESTED"}

\* Open to anybody.  What the providers pay elsewhere is off their books.
FinalizeWithdrawRequest(u, i) ==
  LET p == withdrawRequests[u][i].parts IN
  /\ NotSuspended(u)
  /\ MayFinalize(withdrawRequests[u][i])
  /\ tokenBalance >= Own(p)
  /\ tokenBalance' = tokenBalance - Own(p)
  /\ withdrawLockedBalance >= Unlocked(p)
  /\ withdrawLockedBalance' = withdrawLockedBalance - Unlocked(p)
  /\ providersDebt' = providersDebt - To18Decimals(ByOthers(p))
  /\ Settle(u, i, "COMPLETED")
  /\ UNCHANGED balances

AcceptWithdrawRequest(u, i) ==
  LET r == withdrawRequests[u][i] IN
  /\ NotSuspended(u)
  /\ r.status = "PENDING" /\ ProviderOf(r.parts) # "none"
  /\ UpdateRequest(u, i, [r EXCEPT !.status = "PROVIDER_ACCEPTED"])

RejectWithdrawRequest(u, i) ==
  LET r == withdrawRequests[u][i] IN
  /\ NotSuspended(u)
  /\ r.status = "PENDING" /\ ProviderOf(r.parts) # "none"
  /\ Refund(u, i, "PROVIDER_REJECTED")

\* A pure virtual request cannot be cancelled close to, or after, its cooldown.
Blackout(r) ==
  /\ PureVirtual(r.parts) /\ PureVirtualCancelBlackout > 0
  /\ now + PureVirtualCancelBlackout >= r.cooldownEndTime

RequestCancelWithdraw(u, i) ==
  LET r == withdrawRequests[u][i] IN
  /\ NotSuspended(u)
  /\ r.status \in {"PENDING", "PROVIDER_ACCEPTED"}
  /\ ~Blackout(r)
  /\ IF r.status = "PENDING" \/ PureVirtual(r.parts)
     THEN Refund(u, i, "CANCELLED")
     ELSE UpdateRequest(u, i, [r EXCEPT !.status = "CANCEL_REQUESTED"])

ForceCancelWithdraw(u, i) ==
  LET r == withdrawRequests[u][i] IN
  /\ NotSuspended(u)
  /\ r.status \in OpenRequest
  /\ now < r.cooldownEndTime
  /\ Refund(u, i, "CANCELLED")

Mutant_MayAcceptCancel_AnyAnswered(r) == r.status \in {"CANCEL_REQUESTED", "COMPLETED"}
MayAcceptCancel(r) == r.status = "CANCEL_REQUESTED"

AcceptWithdrawCancelRequest(u, i) ==
  /\ NotSuspended(u)
  /\ MayAcceptCancel(withdrawRequests[u][i])
  /\ ProviderOf(withdrawRequests[u][i].parts) # "none"
  /\ Refund(u, i, "CANCELLED")

SuspendWithdrawRequest(u, i) ==
  /\ ~NotSuspended(u)
  /\ withdrawRequests[u][i].status \in OpenRequest
  /\ Refund(u, i, "SUSPENDED")

\* The cooldown is counted from the request, whatever it was before.
AcceptSpeedUpRequest(u, i, newCooldown) ==
  LET r == withdrawRequests[u][i] IN
  /\ NotSuspended(u)
  /\ r.speedUp /\ ~r.isCooldownModified
  /\ u \in SpeedUpWhitelist
  /\ r.status \in {"PENDING", "PROVIDER_ACCEPTED"}
  /\ newCooldown >= MinWithdrawCooldown
  /\ UpdateRequest(u, i, [r EXCEPT !.cooldownEndTime = r.timestamp + newCooldown,
                                   !.isCooldownModified = TRUE])

Init ==
  /\ CollateralInit
  /\ withdrawRequests = [u \in User |-> [i \in RequestIds |-> NoRequest]]
  /\ lastWithdrawRequestId = [u \in User |-> 0]

RequestStep ==
  \/ \E u \in User, p \in PartsOffered, speedUp \in BOOLEAN : InitiateWithdraw(u, p, speedUp)
  \/ \E u \in User, i \in RequestIds :
       \/ FinalizeWithdrawRequest(u, i)
       \/ AcceptWithdrawRequest(u, i) \/ RejectWithdrawRequest(u, i)
       \/ RequestCancelWithdraw(u, i) \/ ForceCancelWithdraw(u, i)
       \/ AcceptWithdrawCancelRequest(u, i) \/ SuspendWithdrawRequest(u, i)
       \/ \E c \in NewCooldowns : AcceptSpeedUpRequest(u, i, c)

Next == RequestStep \/ (CollateralStep /\ UNCHANGED requestVars)

Spec == Init /\ [][Next]_withdrawVars

\* Time passes, and somebody - the beneficiary, if nobody else - keeps calling
\* finalizeWithdrawRequest.  Nothing is assumed of providers and administrators.
FairSpec ==
  /\ Spec
  /\ WF_withdrawVars(CollateralTick /\ UNCHANGED requestVars)
  /\ \A u \in User, i \in RequestIds : WF_withdrawVars(FinalizeWithdrawRequest(u, i))

----------------------------------------------------------------------------
(* Properties.                                                             *)

TypeOK ==
  /\ balances \in [User -> Nat] /\ allocatedBalances \in [User -> Nat]
  /\ deallocateTimestamp \in [User -> 0..MaxTime]
  /\ suspendedAddresses \subseteq User /\ bridges \subseteq Bridge
  /\ tokenBalance \in Nat /\ withdrawLockedBalance \in Nat
  /\ bridgeTransactions \in [BridgeTransactionIds -> BridgeTransactionType]
  /\ externalTransfers \in [ExternalTransferIds -> ExternalTransferType]
  /\ pledgeDeposit \in [User -> Nat] /\ pledgeWithdrawalRequests \in [User -> Nat]
  /\ providersDebt \in Int
  /\ now \in 0..MaxTime
  /\ withdrawRequests \in [User -> [RequestIds -> RequestType]]
  /\ lastWithdrawRequestId \in [User -> 0..MaxRequests]

\* The tokens a request, or a bridge transaction, still has a right to.
Reserved(r) == IF r.status \in OpenRequest THEN Own(r.parts) ELSE 0
Unpaid(t)   == IF t.status \in {"RECEIVED", "SUSPENDED"} THEN t.amount ELSE 0

\* The tokens' worth somebody was debited for and has not yet been given.
Debited(r)    == IF r.status \in OpenRequest THEN TotalAmount(r.parts) ELSE 0
Unanswered(t) == IF t.status = "PENDING" THEN t.amount ELSE 0

RequestLock == [x \in User \X RequestIds |-> Reserved(withdrawRequests[x[1]][x[2]])]
BridgeLock  == [t \in BridgeTransactionIds |-> Unpaid(bridgeTransactions[t])]

\* The one counter that withdrawals and bridges share is what the open requests
\* and the unpaid bridge transactions will take out of the contract, to the token:
\* each reservation is released once, whichever of its racing settlements wins.
ReserveMatchesRequests ==
  withdrawLockedBalance = Total(User \X RequestIds, RequestLock)
                          + Total(BridgeTransactionIds, BridgeLock)

\* What the requests still open, and the transfers no provider has answered, took
\* off their users' balances.
DebitLock    == [x \in User \X RequestIds |-> Debited(withdrawRequests[x[1]][x[2]])]
TransferLock == [i \in ExternalTransferIds |-> Unanswered(externalTransfers[i])]

\* Whatever races, what users, bridges, requests and transfers may claim is exactly
\* what the contract holds beside the pledges, plus what virtual providers owe:
\* nothing is paid and refunded, and nothing is lost between a debit and its
\* settlement.
ClaimsBacked ==
  Total(User, balances) + Total(User, allocatedBalances)
    + To18Decimals(Total(User \X RequestIds, DebitLock)
                     + Total(BridgeTransactionIds, BridgeLock)
                     + Total(ExternalTransferIds, TransferLock))
  = To18Decimals(tokenBalance - Total(User, pledgeDeposit)) + providersDebt

\* What is reserved is in the contract: no withdrawal, transfer or bridge payment
\* spends the tokens promised to another.
ReserveBacked == tokenBalance >= withdrawLockedBalance

\* A request in a terminal status is paid or refunded once, and no provider or
\* administrator who answers late touches it again.
SettledIsFinal ==
  [][\A u \in User, i \in RequestIds :
       withdrawRequests[u][i].status \in Settled =>
         withdrawRequests'[u][i] = withdrawRequests[u][i]]_withdrawVars

\* A request that needs no provider is paid once its cooldown is over unless it is
\* settled otherwise or its user is suspended: the tokens are there, and a speed-up
\* cannot postpone it for ever (the clock must have room for the cooldowns).
ClassicIsPaid ==
  \A u \in User, i \in RequestIds :
    LET r == withdrawRequests[u][i] IN
    (/\ r.status = "PENDING" /\ ProviderOf(r.parts) = "none"
     /\ r.cooldownEndTime <= MaxTime
     /\ \A c \in NewCooldowns : r.timestamp + c <= MaxTime)
      ~> (withdrawRequests[u][i].status \in Settled \/ u \in suspendedAddresses)

\* What docs/v0.8.5/withdraw-system.md says of a pure virtual request before its
\* provider accepts: "Cancels immediately".
PendingCancels ==
  \A u \in User, i \in RequestIds :
    LET r == withdrawRequests[u][i] IN
    r.status = "PENDING" /\ PureVirtual(r.parts) /\ NotSuspended(u) =>
      ENABLED RequestCancelWithdraw(u, i)
=============================================================================
