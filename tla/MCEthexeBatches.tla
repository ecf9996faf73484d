-------------------------- MODULE MCEthexeBatches --------------------------
(* Small instances of EthexeBatches for TLC. *)
EXTENDS EthexeBatches, TLC

CONSTANTS v1, v2

TwoValidators == <<v1, v2>>

\* With two signatures needed of two, nothing is committed unless the limits are equal.
MCDelay == [v \in Members |-> 2]

\* Each validator has a limit of its own.
OwnDelay == [v \in Members |-> IF v = v1 THEN 2 ELSE 1]

MCPeriod == [v \in Members |-> 1]
=============================================================================
