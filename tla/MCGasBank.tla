----------------------------- MODULE MCGasBank -----------------------------
(* A small instance of GasBank for TLC. *)
EXTENDS GasBank, TLC

MCOrigins == Accounts \X Prices

\* Node identifiers and accounts are only compared for equality.
Symmetry == Permutations(NodeIds) \cup Permutations(Accounts)
=============================================================================
