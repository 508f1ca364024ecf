-------------------------------- MODULE Sums --------------------------------
(***************************************************************************)
(* Sums over finite sets, counted unit by unit: the cardinality of a union *)
(* of disjoint pieces, one for every summand.  Facts about it follow from  *)
(* facts about cardinalities, without an induction of their own.           *)
(***************************************************************************)
EXTENDS Integers, FiniteSets

Units(S, f) == UNION {{i} \X (1..f[i]) : i \in S}

\* The sum of the naturals f[i], for i in S.
Total(S, f) == Cardinality(Units(S, f))
=============================================================================
