--------------------------- MODULE MCReservations ---------------------------
EXTENDS Reservations, TLC
CONSTANTS m1, m2
MessageSymmetry == Permutations(Messages)
=============================================================================
