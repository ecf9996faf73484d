--------------------------- MODULE MCMessageFlow ---------------------------
EXTENDS MessageFlow, TLC
CONSTANTS m1, m2
MessageSymmetry == Permutations(Messages)
=============================================================================
