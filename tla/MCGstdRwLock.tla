---------------------------- MODULE MCGstdRwLock ----------------------------
EXTENDS GstdRwLock, TLC
MessageSymmetry == Permutations(Messages)
=============================================================================
