---------------------------- MODULE GasTreeLoop ----------------------------
(***************************************************************************)
(* TreeImpl::consume step by step: the climb to the ancestor patron and    *)
(* the loop that removes consumed ancestors, with the caught value handed  *)
(* from one to the other and an internal error wherever the code returns   *)
(* one.  GasTree!Consume says in one formula what these loops leave in the *)
(* storage.                                                                *)
(***************************************************************************)
EXTENDS GasTree, Sequences

Blocked == [kind |-> "Blocked", value |-> 0]
Missed == [kind |-> "Missed", value |-> 0]
CaughtOf(value) == [kind |-> "Caught", value |-> value]
IsCaught(out) == out.kind = "Caught"
IsBlocked(out) == out.kind = "Blocked"

Remove(t, k) == [x \in DOMAIN t \ {k} |-> t[x]]

\* find_ancestor_patron, from the parent on: NoNode if there is none.
RECURSIVE PatronFrom(_, _)
PatronFrom(t, k) ==
    IF IsPatron(t[k]) THEN k
    ELSE IF t[k].kind \in RootKinds THEN NoNode ELSE PatronFrom(t, t[k].parent)

FindAncestorPatron(t, node) ==
    IF node.kind = "Specified" THEN PatronFrom(t, node.parent) ELSE NoNode

\* Mutant: a patron further up is not looked for.
CatchValueHere(t, node) ==
    IF IsPatron(node) \/ node.kind = "Unspecified"
    THEN [tree |-> t, node |-> node, out |-> Blocked]
    ELSE [tree |-> t, node |-> [node EXCEPT !.held["value"] = 0],
          out |-> CaughtOf(node.held["value"])]

\* The node is the copy in memory, the patron is written to the storage.
CatchValue(t, node) ==
    LET patron == FindAncestorPatron(t, node)
        value == node.held["value"]
        emptied == [node EXCEPT !.held["value"] = 0]
    IN  IF IsPatron(node) \/ node.kind = "Unspecified"
        THEN [tree |-> t, node |-> node, out |-> Blocked]
        ELSE IF patron # NoNode
        THEN [tree |-> Credit(t, patron, "value", value), node |-> emptied, out |-> Missed]
        ELSE [tree |-> t, node |-> emptied, out |-> CaughtOf(value)]

DecreaseParentsRef(t, node) ==
    IF node.parent = NoNode THEN t
    ELSE IF node.kind = "Specified" THEN [t EXCEPT ![node.parent].spec = @ - 1]
    ELSE [t EXCEPT ![node.parent].unspec = @ - 1]

Refs(node) == node.spec + node.unspec

\* What a procedure leaves: the storage, the caught amounts and whether the code
\* returned an internal error.
Result(t, caught, ok) == [tree |-> t, caught |-> caught, ok |-> ok]

\* One pass of the loop per consumed ancestor without children.
RECURSIVE RemoveAncestors(_, _, _, _)
RemoveAncestors(t, k, output, caught) ==
    LET c == IF IsBlocked(output) THEN CatchValue(t, t[k])
             ELSE [tree |-> t, node |-> t[k], out |-> output]
        all == caught \o (IF caught = <<>> /\ IsCaught(c.out) THEN <<c.out.value>> ELSE <<>>)
        removed == Remove(DecreaseParentsRef(c.tree, c.node), k)
    IN  IF IsPatron(t[k]) THEN Result(t, caught, TRUE)
        ELSE IF IsBlocked(c.out) THEN Result(t, caught, FALSE)
        ELSE IF t[k].spec # 0 THEN Result(Put(c.tree, k, c.node), all, TRUE)
        ELSE IF t[k].kind \in RootKinds THEN Result(removed, all, IsCaught(c.out))
        ELSE RemoveAncestors(removed, t[k].parent, c.out, all)

TryRemoveConsumedAncestors(t, k, output) ==
    RemoveAncestors(t, k, IF IsCaught(output) THEN CaughtOf(0) ELSE output, <<>>)

ConsumeOutput(out) == IF IsCaught(out) THEN <<out.value>> ELSE <<>>

ConsumeLoop(t, k) ==
    LET c == CatchValue(t, Marked(t, k)[k])
        removed == Remove(DecreaseParentsRef(c.tree, c.node), k)
        up == TryRemoveConsumedAncestors(removed, c.node.parent, c.out)
    IN  IF Refs(c.node) # 0
        THEN Result(Put(c.tree, k, c.node), ConsumeOutput(c.out), c.node.kind \in ParentKinds)
        ELSE IF c.node.kind \in RootKinds \cup {"Cut"}
        THEN Result(removed, ConsumeOutput(c.out), IsCaught(c.out))
        ELSE IF c.node.kind = "Unspecified"
        THEN [up EXCEPT !.ok = @ /\ IsBlocked(c.out)]
        ELSE Result(up.tree, ConsumeOutput(c.out),
                    /\ up.ok /\ ~IsBlocked(c.out)
                    /\ IF IsCaught(c.out) THEN up.caught = <<0>> ELSE up.caught = <<>>)

IsConsumable(k) ==
    ~tree[k].consumed /\ \A s \in Slots \ {"value"} : tree[k].held[s] = 0

\* In every state and for every node that can be consumed, the loops of the code end
\* without an internal error, leave the storage GasTree!Consume describes and report
\* the value it takes out of the total.
LoopsAgree ==
    \A k \in DOMAIN tree : IsConsumable(k) =>
        LET r == ConsumeLoop(tree, k)
            t == Marked(tree, k)
            s == CatchSource(t, k)
            outcomes == {<<C, R>> \in (SUBSET DOMAIN t) \X (SUBSET DOMAIN t) :
                            /\ IF s = NoNode THEN C = {} ELSE IsClimb(t, s, C)
                            /\ IsRemoval(t, k, R)}
        IN  /\ r.ok /\ Cardinality(outcomes) = 1
            /\ \A o \in outcomes :
                  /\ r.tree = Pruned(Caught(t, s, o[1]), o[2])
                  /\ CaughtValue(t, s, o[1]) = IF r.caught = <<>> THEN 0 ELSE r.caught[1]
=============================================================================
