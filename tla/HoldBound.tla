----------------------------- MODULE HoldBound -----------------------------
(***************************************************************************)
(* Rent for keeping a message in a storage: how many blocks a given amount *)
(* of gas buys, how much is locked for a hold, and how much of the lock is *)
(* charged when the hold ends (HoldBoundBuilder, HoldBound and             *)
(* charge_for_hold of pallet-gear).  Block numbers and gas stay far below  *)
(* the widths of their types; only the saturation at zero is kept.         *)
(***************************************************************************)
EXTENDS Integers

CONSTANT ReserveFor \* blocks a task may be late and still be paid for

ASSUME ReserveForAssumption == ReserveFor \in Nat

SaturatingSub(a, b) == IF a < b THEN 0 ELSE a - b
Least(a, b) == IF a < b THEN a ELSE b

\* The blocks at which the task of a hold is expected.
HoldDuration(now, duration) == now + duration
HoldMaximumFor(now, gas, cost) ==
    SaturatingSub(now + gas \div (IF cost = 0 THEN 1 ELSE cost), ReserveFor)

\* Mutant: the blocks a task may be late are not paid for.
LockAmountNoReserve(now, expected, cost) == SaturatingSub(expected, now) * cost

LockAmount(now, expected, cost) == SaturatingSub(expected + ReserveFor, now) * cost

\* What is due for a hold that ends now, before it is cut to the locked amount.
DueFor(now, hold, cost) ==
    SaturatingSub(Least(now, hold.finish + ReserveFor), hold.start) * cost

ChargeFor(now, hold, cost, prepaid) == Least(prepaid, DueFor(now, hold, cost))

\* What Ext requires of the gas counter before it lets a message wait or be delayed.
RentFor(blocks, cost) == (ReserveFor + blocks) * cost
=============================================================================
