------------------------------- MODULE Totals -------------------------------
(***************************************************************************)
(* Sums of natural-valued functions.  The total of f is written as the     *)
(* number of its units: one pair <<x, i>> for each i in 1 .. f[x].  A sum  *)
(* written this way needs no recursion, so that theorems about it follow   *)
(* from facts about cardinality.                                           *)
(***************************************************************************)
EXTENDS Naturals, FiniteSets

Units(f) == UNION { {x} \X (1 .. f[x]) : x \in DOMAIN f }

Total(f) == Cardinality(Units(f))
=============================================================================
