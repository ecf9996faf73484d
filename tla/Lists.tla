------------------------------- MODULE Lists -------------------------------
(***************************************************************************)
(* Operators on sequences, as SequencesExt has them.  The modules that are *)
(* proved about take them from here: every definition in reach of a proof  *)
(* is one more that the prover carries.                                    *)
(***************************************************************************)
EXTENDS Integers, FiniteSets, Sequences, Functions

\* The members of s.
ToSet(s) == Range(s)

\* The members of the finite set S in some order.
SetToSeq(S) == CHOOSE s \in [1..Cardinality(S) -> S] : IsInjective(s)

\* s without its last member, and that member.
Front(s) == SubSeq(s, 1, Len(s) - 1)
Last(s) == s[Len(s)]

\* s without its i-th member.
RemoveAt(s, i) == SubSeq(s, 1, i - 1) \o SubSeq(s, i + 1, Len(s))

\* The members of s that are in S, in their order.
OnlyIn(s, S) ==
    LET upTo[i \in 0..Len(s)] ==
          IF i = 0 THEN <<>>
          ELSE IF s[i] \in S THEN Append(upTo[i - 1], s[i]) ELSE upTo[i - 1]
    IN  upTo[Len(s)]
=============================================================================
