---------------------------- MODULE ArrivalOrder ----------------------------
(***************************************************************************)
(* What the message queue promises: dispatches are handled one at a time,  *)
(* each exactly once, in the order in which they were queued. Putting a    *)
(* dispatch back because the block ran out of gas allowance is invisible.  *)
(***************************************************************************)
EXTENDS Sequences

CONSTANT Ids

VARIABLE waiting \* the dispatches not handled yet, the next one first

Init == waiting = <<>>

Arrive(m) ==
    /\ \A i \in DOMAIN waiting : waiting[i] # m
    /\ waiting' = Append(waiting, m)

Handle == waiting # <<>> /\ waiting' = Tail(waiting)

\* The runtime API drops the queue before it estimates gas.
Clear == waiting' = <<>>

Next == (\E m \in Ids : Arrive(m)) \/ Handle \/ Clear

Spec == Init /\ [][Next]_waiting
=============================================================================
