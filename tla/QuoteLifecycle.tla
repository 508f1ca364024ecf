--------------------------- MODULE QuoteLifecycle ---------------------------
(***************************************************************************)
(* What the trading core promises about one quote id, apart from money:    *)
(* an id is offered once, held by one partyB at a time, becomes a position *)
(* with the partyB that held it, and ends for good.  A partial fill splits *)
(* an id in two; a liquidation may end many ids at once, none of them a    *)
(* quote nobody held; a template of the instant layer is the only way to a *)
(* position without having been offered.                                   *)
(***************************************************************************)
CONSTANTS Id, Holder, Nobody

VARIABLES phase, holder

Phase == {"unused", "offered", "held", "live", "over"}

LInit ==
  /\ phase = [q \in Id |-> "unused"]
  /\ holder = [q \in Id |-> Nobody]

Become(q, p, b) ==
  /\ phase' = [phase EXCEPT ![q] = p]
  /\ holder' = [holder EXCEPT ![q] = b]

Offer(q)      == phase[q] = "unused" /\ Become(q, "offered", Nobody)
Hold(q, b)    == phase[q] = "offered" /\ Become(q, "held", b)
Release(q)    == phase[q] = "held" /\ Become(q, "offered", Nobody)
Withdraw(q)   == phase[q] \in {"offered", "held"} /\ Become(q, "over", holder[q])
Fill(q)       == phase[q] = "held" /\ Become(q, "live", holder[q])
Take(q, b)    == phase[q] = "unused" /\ Become(q, "live", b)
Finish(q)     == phase[q] = "live" /\ Become(q, "over", holder[q])

\* All of S, held or live with b, end at once.
Liquidate(S, b) ==
  /\ \A q \in S : phase[q] \in {"held", "live"} /\ holder[q] = b
  /\ phase' = [q \in Id |-> IF q \in S THEN "over" ELSE phase[q]]
  /\ UNCHANGED holder

\* q is filled in part; the rest goes on as r, or is over at once.
FillPart(q, r, p) ==
  /\ phase[q] = "held" /\ phase[r] = "unused"
  /\ phase' = [phase EXCEPT ![q] = "live", ![r] = p]
  /\ UNCHANGED holder

LNext ==
  \/ \E q \in Id : Offer(q) \/ Release(q) \/ Withdraw(q) \/ Fill(q) \/ Finish(q)
  \/ \E q \in Id, b \in Holder : Hold(q, b) \/ Take(q, b)
  \/ \E b \in Holder : \E S \in SUBSET {q \in Id : holder[q] = b} : Liquidate(S, b)
  \/ \E q, r \in Id, p \in {"offered", "over"} : FillPart(q, r, p)

LSpec == LInit /\ [][LNext]_<<phase, holder>>
=============================================================================
