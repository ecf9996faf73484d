----------------------------- MODULE MCGasTree -----------------------------
(* Small instances of GasTree for TLC. *)
EXTENDS GasTreeLoop, TLC

\* Node identifiers are only compared for equality.
Symmetry == Permutations(NodeIds)
=============================================================================
