------------------------------ MODULE GasTree ------------------------------
(***************************************************************************)
(* The gas tree of vara/common/src/gas_provider: every message, delayed    *)
(* dispatch, mailbox letter and gas reservation of the chain owns a node,  *)
(* and the nodes of one external transaction form a tree through which the *)
(* unused gas flows back to the account that bought it.                    *)
(*                                                                         *)
(* The tree is the storage map of TreeImpl: a function whose domain is the *)
(* set of existing keys. The three kinds of money a GasNode holds (value,  *)
(* one lock per LockId, system_reserve) are the slots of one function,     *)
(* node.held. An operation that returns an error leaves the storage as it  *)
(* was; it is not a step.                                                  *)
(***************************************************************************)
EXTENDS Tally

CONSTANTS
    NodeIds,      \* message and reservation identifiers
    Origins,      \* accounts that buy gas (ExternalId)
    LockIds,      \* members of the enum LockId
    NoNode,       \* "no parent", "no root"
    NoOrigin,     \* local nodes carry no external data
    MaxBalance    \* the largest Balance: u64::MAX in the runtime

ASSUME NodesAssumption == NoNode \notin NodeIds /\ NoOrigin \notin Origins
ASSUME LockIdsAssumption ==
    IsFiniteSet(LockIds) /\ LockIds \cap {"value", "system"} = {}
ASSUME BalanceAssumption == MaxBalance \in Nat

VARIABLES
    tree,     \* StorageMap: GasNodes by key
    total     \* TotalValue

vars == <<tree, total>>

Slots == {"value", "system"} \cup LockIds

\* Kinds that carry refs and the consumed flag, and may be a parent.
ParentKinds == {"External", "Reserved", "Specified"}
RootKinds == {"External", "Reserved"}
LocalKinds == {"Specified", "Unspecified"}
Kinds == ParentKinds \cup {"Cut", "Unspecified"}

GasNode ==
    [kind : Kinds, origin : Origins \cup {NoOrigin},
     parent : NodeIds \cup {NoNode}, root : NodeIds \cup {NoNode},
     held : [Slots -> Nat], spec : Nat, unspec : Nat,
     consumed : BOOLEAN, deposit : BOOLEAN]

\* A fresh GasNode: nothing locked or reserved, no children, not consumed.
NewNode(kind, origin, parent, root, value, deposit) ==
    [kind |-> kind, origin |-> origin, parent |-> parent, root |-> root,
     held |-> [s \in Slots |-> IF s = "value" THEN value ELSE 0],
     spec |-> 0, unspec |-> 0, consumed |-> FALSE, deposit |-> deposit]

IsPatron(node) ==
    node.kind \in ParentKinds /\ (~node.consumed \/ node.unspec # 0)

\* node_with_value: the key whose value the node at k lives on.
Holder(t, k) == IF t[k].kind = "Unspecified" THEN t[k].parent ELSE k

\* root_id().unwrap_or(key): the node that carries the external data.
RootOf(t, k) == IF t[k].root = NoNode THEN k ELSE t[k].root
OriginOf(t, k) == t[RootOf(t, k)].origin

Put(t, k, node) == [x \in DOMAIN t \cup {k} |-> IF x = k THEN node ELSE t[x]]

Debit(t, k, slot, amount) == [t EXCEPT ![k].held[slot] = @ - amount]
Credit(t, k, slot, amount) == [t EXCEPT ![k].held[slot] = @ + amount]

\* Moves an amount between two slots, of one node or of two.
Transfer(t, from, slot, to, toSlot, amount) ==
    Credit(Debit(t, from, slot, amount), to, toSlot, amount)

-----------------------------------------------------------------------------
\* consume: what happens to the tree when the node at k is consumed

\* mark_consumed, for the kinds that have the flag.
Marked(t, k) == [t EXCEPT ![k].consumed = t[k].kind \in ParentKinds]

\* The keys find_ancestor_patron visits from s: the parent of s, and the parent
\* of every visited local node that is no patron. In a tree there is one such
\* set.
IsClimb(t, s, C) ==
    /\ C \subseteq DOMAIN t
    /\ \A x \in DOMAIN t :
          x \in C <=> \E y \in C \cup {s} :
                         /\ t[y].kind = "Specified" /\ t[y].parent = x
                         /\ y = s \/ ~IsPatron(t[y])

\* Mutant: deletes k in spite of its children.
RemovalIgnoresRefs(t, k, R) == R = {k}

\* The nodes consume deletes: k itself if it has no children, and then, on the
\* way up, each consumed node whose only child has just been deleted.
IsRemoval(t, k, R) ==
    /\ R \subseteq DOMAIN t
    /\ k \in R <=> t[k].spec + t[k].unspec = 0
    /\ \A x \in DOMAIN t \ {k} :
          x \in R <=> /\ t[x].consumed
                      /\ t[x].spec + t[x].unspec = 1
                      /\ \E y \in R : t[y].parent = x

\* Mutant: consuming an unspecified node never looks at its parent's value.
CatchSourceOwn(t, k) ==
    IF t[k].kind = "Unspecified" \/ t[k].unspec # 0 THEN NoNode ELSE k

\* The node catch_value empties, or NoNode if the value is blocked: k itself
\* unless it stays a patron; for an unspecified k, the parent it leaves behind
\* consumed and without unspecified children.
CatchSource(t, k) ==
    LET p == t[k].parent
    IN  IF t[k].kind # "Unspecified"
        THEN IF t[k].kind # "Cut" /\ t[k].unspec # 0 THEN NoNode ELSE k
        ELSE IF t[p].consumed /\ t[p].unspec = 1 THEN p ELSE NoNode

\* The patrons among the climbed nodes: at most one, the nearest.
Patrons(t, C) == {x \in C : IsPatron(t[x])}

\* What consume hands back to the origin; 0 when nothing was caught.
CaughtValue(t, s, C) ==
    IF s # NoNode /\ Patrons(t, C) = {} THEN t[s].held["value"] ELSE 0

\* Mutant: the value is zeroed but the patron is not credited.
CaughtNoCredit(t, s, C) ==
    IF s = NoNode THEN t ELSE [t EXCEPT ![s].held["value"] = 0]

\* The value of s is zeroed, and moved to the patron if there is one.
Caught(t, s, C) ==
    IF s = NoNode THEN t
    ELSE [x \in DOMAIN t |->
            IF x = s THEN [t[x] EXCEPT !.held["value"] = 0]
            ELSE IF x \in Patrons(t, C)
                 THEN [t[x] EXCEPT !.held["value"] = @ + t[s].held["value"]]
                 ELSE t[x]]

\* Mutant: the parents' counters are left alone.
PrunedKeepsRefs(t, R) == [x \in DOMAIN t \ R |-> t[x]]

\* decrease_parents_ref for every deleted node, and the deletion itself.
Pruned(t, R) ==
    LET Gone(x, kind) == {y \in R : t[y].parent = x /\ t[y].kind = kind}
    IN  [x \in DOMAIN t \ R |->
            [t[x] EXCEPT !.spec = @ - Cardinality(Gone(x, "Specified")),
                         !.unspec = @ - Cardinality(Gone(x, "Unspecified"))]]

-----------------------------------------------------------------------------
Init == tree = [k \in {} |-> 0] /\ total = 0

\* Tree::create. The overflow of TotalValue is an error its callers turn into a
\* panic of the whole extrinsic, which leaves the storage as it was.
Create(o, k, amount) ==
    /\ k \notin DOMAIN tree
    /\ total + amount <= MaxBalance
    /\ tree' = Put(tree, k, NewNode("External", o, NoNode, NoNode, amount, FALSE))
    /\ total' = total + amount

\* create_from_with_value: its checks, the withdrawal from the node that holds
\* the value, and the spec ref that only a specified child counts for.
CreateFrom(k, new, amount, node) ==
    LET h == Holder(tree, k)
    IN  /\ k \in DOMAIN tree /\ new \notin DOMAIN tree
        /\ tree[h].kind # "Cut"
        /\ amount <= tree[h].held["value"]
        /\ tree' = Put([Debit(tree, h, "value", amount) EXCEPT
                          ![h].spec = IF node.kind = "Specified" THEN @ + 1 ELSE @],
                       new, node)
        /\ UNCHANGED total

SplitWithValue(k, new, amount) ==
    CreateFrom(k, new, amount,
        NewNode("Specified", NoOrigin, Holder(tree, k),
                RootOf(tree, Holder(tree, k)), amount, FALSE))

Split(k, new) ==
    LET h == Holder(tree, k)
    IN  /\ k \in DOMAIN tree /\ new \notin DOMAIN tree
        /\ tree[h].kind # "Cut"
        /\ tree' = Put([tree EXCEPT ![h].unspec = @ + 1], new,
                       NewNode("Unspecified", NoOrigin, h, RootOf(tree, h), 0, FALSE))
        /\ UNCHANGED total

Cut(k, new, amount) ==
    CreateFrom(k, new, amount,
        NewNode("Cut", OriginOf(tree, k), NoNode, NoNode, amount, FALSE))

CreateDeposit(k, new, amount) ==
    CreateFrom(k, new, amount,
        NewNode("External", OriginOf(tree, k), NoNode, NoNode, amount, TRUE))

Reserve(k, new, amount) ==
    CreateFrom(k, new, amount,
        NewNode("Reserved", OriginOf(tree, k), NoNode, NoNode, amount, FALSE))

\* Allowed on a consumed node too.
Spend(k, amount) ==
    /\ k \in DOMAIN tree
    /\ amount <= tree[Holder(tree, k)].held["value"]
    /\ tree' = Debit(tree, Holder(tree, k), "value", amount)
    /\ total' = total - amount

Lock(k, id, amount) ==
    /\ k \in DOMAIN tree /\ ~tree[k].consumed
    /\ amount <= tree[Holder(tree, k)].held["value"]
    /\ tree' = Transfer(tree, Holder(tree, k), "value", k, id, amount)
    /\ UNCHANGED total

Unlock(k, id, amount) ==
    /\ k \in DOMAIN tree /\ ~tree[k].consumed
    /\ amount <= tree[k].held[id]
    /\ tree' = Transfer(tree, k, id, Holder(tree, k), "value", amount)
    /\ UNCHANGED total

IsSystemReservable(node) == node.kind \in {"External", "Specified", "Unspecified"}

SystemReserve(k, amount) ==
    /\ k \in DOMAIN tree /\ IsSystemReservable(tree[k]) /\ ~tree[k].consumed
    /\ amount <= tree[Holder(tree, k)].held["value"]
    /\ tree' = Transfer(tree, Holder(tree, k), "value", k, "system", amount)
    /\ UNCHANGED total

SystemUnreserve(k) ==
    /\ k \in DOMAIN tree /\ IsSystemReservable(tree[k]) /\ ~tree[k].consumed
    /\ tree' = Transfer(tree, k, "system", Holder(tree, k), "value",
                        tree[k].held["system"])
    /\ UNCHANGED total

Consume(k) ==
    /\ k \in DOMAIN tree /\ ~tree[k].consumed
    /\ \A id \in LockIds : tree[k].held[id] = 0
    /\ tree[k].held["system"] = 0
    /\ LET t == Marked(tree, k)
           s == CatchSource(t, k)
       IN  \E C, R \in SUBSET DOMAIN t :
              /\ IF s = NoNode THEN C = {} ELSE IsClimb(t, s, C)
              /\ IsRemoval(t, k, R)
              /\ tree' = Pruned(Caught(t, s, C), R)
              /\ total' = total - CaughtValue(t, s, C)

Next ==
    \/ \E k \in NodeIds, amount \in 0..MaxBalance :
          \/ \E o \in Origins : Create(o, k, amount)
          \/ \E new \in NodeIds :
                \/ SplitWithValue(k, new, amount)
                \/ Cut(k, new, amount)
                \/ CreateDeposit(k, new, amount)
                \/ Reserve(k, new, amount)
          \/ Spend(k, amount)
          \/ \E id \in LockIds : Lock(k, id, amount) \/ Unlock(k, id, amount)
          \/ SystemReserve(k, amount)
    \/ \E k \in NodeIds :
          \/ \E new \in NodeIds : Split(k, new)
          \/ SystemUnreserve(k)
          \/ Consume(k)

Spec == Init /\ [][Next]_vars

-----------------------------------------------------------------------------
(***************************************************************************)
(* Properties. The numbers are those of the list of invariants in          *)
(* gas_provider/property_tests/mod.rs.                                     *)
(***************************************************************************)

\* Every key maps to a well-formed GasNode and the total fits a Balance.
TypeOK ==
    /\ DOMAIN tree \subseteq NodeIds
    /\ tree \in [DOMAIN tree -> GasNode]
    /\ total \in 0..MaxBalance

Children(t, k, kind) == {c \in DOMAIN t : t[c].kind = kind /\ t[c].parent = k}

\* 4, 5, 6: exactly the local nodes have a parent, it exists, and it is of a
\* kind that holds value, so node_with_value never reports parent_is_lost or
\* unexpected_node_type.
ParentHoldsValue ==
    \A k \in DOMAIN tree :
        IF tree[k].kind \in LocalKinds
        THEN /\ tree[k].parent \in DOMAIN tree
             /\ tree[tree[k].parent].kind \in ParentKinds
        ELSE tree[k].parent = NoNode

\* 2, 3, 8: the two counters of a node are the numbers of its children of each
\* kind, so that a node is deleted neither early (a child would lose its
\* parent) nor never.
RefsMatchChildren ==
    \A k \in DOMAIN tree :
        /\ tree[k].spec = Cardinality(Children(tree, k, "Specified"))
        /\ tree[k].unspec = Cardinality(Children(tree, k, "Unspecified"))

\* 7: between calls a consumed node has children: it is kept for them only.
NoConsumedLeaf ==
    \A k \in DOMAIN tree :
        tree[k].consumed => tree[k].spec + tree[k].unspec > 0

\* 9: the root of a local node is in storage as long as the node is, is the one
\* its parent belongs to, and carries the external data get_origin_node needs.
RootOutlivesDescendants ==
    \A k \in DOMAIN tree :
        IF tree[k].kind \in LocalKinds
        THEN /\ tree[k].root \in DOMAIN tree
             /\ tree[tree[k].root].kind \in RootKinds
             /\ tree[k].root = RootOf(tree, tree[k].parent)
        ELSE tree[k].root = NoNode

\* 12, 13: what a consumed node still holds, it holds as value for its
\* unspecified children: without them its value is zero, and nothing is locked
\* or reserved in it.
ConsumedIsDrained ==
    \A k \in DOMAIN tree : tree[k].consumed =>
        /\ \A s \in Slots \ {"value"} : tree[k].held[s] = 0
        /\ tree[k].unspec = 0 => tree[k].held["value"] = 0

\* What the tree is for: the gas of a node can always be traced to the node it is drawn
\* from and to the account that bought it, however its ancestors were consumed.
LineageStands == ParentHoldsValue /\ RootOutlivesDescendants

\* A consumed node is kept only as long as children need it, and no gas is stuck in it
\* that no child can spend.
ConsumedServesChildren == NoConsumedLeaf /\ ConsumedIsDrained

\* total_value() of every node, and of all of them together.
GasOf(t) == [k \in DOMAIN t |-> Sum(t[k].held)]
GasIn(t) == Sum(GasOf(t))

\* TotalValue is the gas in the tree: no operation, and no cascade of deletions
\* with its value catching, loses gas or makes any; total never underflows.
TotalIsHeld == total = GasIn(tree)

\* 1, 11: a step deletes, besides the key consume was called with, only nodes
\* that were consumed before; in particular no cut and no unspecified node is
\* deleted in a cascade.
CascadeDeletesConsumed ==
    [][\E key \in NodeIds :
         \A k \in DOMAIN tree \ DOMAIN tree' :
            k = key \/ (tree[k].consumed /\ tree[k].kind \in ParentKinds)]_vars
=============================================================================
