------------------------- MODULE MCPartyBLiquidation -------------------------
(***************************************************************************)
(* Instances of PartyBLiquidation for TLC.                                 *)
(***************************************************************************)
EXTENDS PartyBLiquidation, MCQuotes

\* With 12 allocated and 5 or 3 locked: insolvent with margin left, and without.
SeizingUpnls == {-8, -14}
=============================================================================
