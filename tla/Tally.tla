------------------------------- MODULE Tally -------------------------------
(***************************************************************************)
(* Sums of balances, defined without recursion: the sum of a function into *)
(* the naturals is the number of units its values consist of.              *)
(***************************************************************************)
EXTENDS Integers, FiniteSets

UnitsOf(f) == UNION {{x} \X (1..f[x]) : x \in DOMAIN f}

Sum(f) == Cardinality(UnitsOf(f))
=============================================================================
