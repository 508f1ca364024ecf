---------------------------- MODULE MCMigration ----------------------------
(* The market when the upgrade begins: a position and a pending quote of     *)
(* different partyAs, a position and a locked quote with different partyBs,  *)
(* or positions of two partyAs with one partyB.                              *)
EXTENDS Migration

At(status, a, b) == [status |-> status, partyA |-> a, partyB |-> b]
McTwoQuotes == { <<At("OPENED", 1, 1), At("PENDING", 2, 0)>>, <<At("OPENED", 1, 2), At("LOCKED", 1, 1)>> }
McHistories == McTwoQuotes \cup { <<At("OPENED", 1, 1), At("OPENED", 2, 1)>> }
=============================================================================
