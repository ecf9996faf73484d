---------------------------- MODULE GstdRuntime -----------------------------
(***************************************************************************)
(* What the locks of gstd share: the messages of one program, and where    *)
(* the runtime of the chain keeps each of them.  None is Option::None.     *)
(***************************************************************************)
EXTENDS Storage

CONSTANT Messages

VARIABLE place  \* of a message: new, queue, wait, signal or gone

\* The place of every message once m is put to where and the ones in woken are woken.
Moved(m, where, woken) ==
    [x \in Messages |-> IF x = m THEN where
                        ELSE IF x \in woken /\ place[x] = "wait" THEN "queue" ELSE place[x]]

=============================================================================
