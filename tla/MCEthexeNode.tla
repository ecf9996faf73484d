---------------------------- MODULE MCEthexeNode ----------------------------
(* Two small trees of Ethereum blocks for EthexeNode, one of them with MBs. *)
EXTENDS EthexeNode

CONSTANTS c, d

\* Block 1 requests a code, block 2 above it reports it validated.
Line == [parent |-> <<0, 1>>, requested |-> <<{c}, {}>>, validated |-> <<{}, {c}>>]

\* A fork above block 1 whose two sides validate different codes.
Fork == [parent |-> <<0, 1, 1, 2>>,
         requested |-> <<{c}, {d}, {}, {}>>,
         validated |-> <<{}, {}, {c}, {c, d}>>]

MCTrees == {Line, Fork}

\* On the line the first MB advances to block 1 and the second to block 2.
MCDecisions(tree) == IF tree = Line THEN {<<1, 2>>} ELSE {<<>>}

=============================================================================
