----------------------------- MODULE MCWithdraw -----------------------------
(***************************************************************************)
(* Instances of Withdraw for TLC.                                          *)
(***************************************************************************)
EXTENDS Withdraw

CONSTANTS u1, pool, b1

Classic       == [classic |-> 1, express |-> 0, virtual |-> 0, virtualExpress |-> 0]
Express       == [classic |-> 1, express |-> 1, virtual |-> 0, virtualExpress |-> 0]
Virtual       == [classic |-> 0, express |-> 0, virtual |-> 1, virtualExpress |-> 0]
Mixed         == [classic |-> 1, express |-> 0, virtual |-> 1, virtualExpress |-> 0]
VirtualOnward == [classic |-> 0, express |-> 0, virtual |-> 0, virtualExpress |-> 1]

AllKinds    == {Classic, Express, Virtual, Mixed, VirtualOnward}
ClassicOnly == {Classic}
VirtualOnly == {Virtual}
=============================================================================
