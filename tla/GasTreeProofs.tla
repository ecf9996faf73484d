--------------------------- MODULE GasTreeProofs ----------------------------
(***************************************************************************)
(* GasTree is correct for every set of node identifiers and every Balance: *)
(* its structure (invariants 2 to 9 and 12 of the code's property tests)   *)
(* and the conservation of gas are invariant; and the gas accounts of      *)
(* GasBank hold at any time what the gas in the tree was bought for.       *)
(*                                                                         *)
(* The order is: chains in a tree, gas in slots and nodes, operations that *)
(* move gas or add a node, consume, the theorems on the tree, the bank.    *)
(***************************************************************************)
EXTENDS GasBank, TallyTheorems, NaturalsInduction

\* Zenon proves most leaves; the others need arithmetic or records.
USE ZenonT(5), SMTT(90)

\* Kinds that hold no value or have no children carry neither.
Shaped ==
    \A k \in DOMAIN tree :
        /\ tree[k].kind \notin ParentKinds => ~tree[k].consumed
        /\ tree[k].kind = "Unspecified" => tree[k].held["value"] = 0

\* Following parents ends: each node lies one level below its parent.
Ranked ==
    \E d \in [DOMAIN tree -> Nat] :
        \A k \in DOMAIN tree :
            tree[k].kind \in LocalKinds => d[k] = d[tree[k].parent] + 1

\* What depends on the links and counters of the nodes only.
Structure ==
    /\ ParentHoldsValue /\ RefsMatchChildren /\ NoConsumedLeaf
    /\ RootOutlivesDescendants /\ Ranked

\* The inductive invariant.
IInv ==
    /\ TypeOK /\ IsFiniteSet(DOMAIN tree)
    /\ Structure /\ Shaped /\ ConsumedIsDrained /\ TotalIsHeld

-----------------------------------------------------------------------------
\* Chains of parents

\* A bounded nonempty set of ranked elements has a highest one.
LEMMA HighestExists ==
  ASSUME NEW S, NEW d \in [S -> Nat], NEW X, X \subseteq S, X # {},
         NEW b \in Nat, \A x \in S : d[x] <= b
  PROVE  \E x \in X : \A y \in X : d[y] <= d[x]
<1> DEFINE H == {b - d[x] : x \in X}
           R == OpToRel(<, Nat)
<1>1. H \subseteq Nat /\ H # {}
  BY SMTT(90)
<1>2. IsWellFoundedOn(R, Nat)
  BY NatLessThanWellFounded, Zenon
<1>3. PICK m \in H : \A n \in H : ~(<<n, m>> \in R)
  <2> HIDE DEF H, R
  <2> QED  BY <1>1, <1>2, WFMin, Zenon
<1>4. PICK x \in X : m = b - d[x]
  OBVIOUS
<1>5. ASSUME NEW y \in X PROVE d[y] <= d[x]
  <2>1. b - d[y] \in H /\ b - d[y] \in Nat /\ m \in Nat
    BY <1>1
  <2>2. ~(b - d[y] < m)
    BY <1>3, <2>1, Zenon DEF OpToRel
  <2> QED  BY SMTT(90), <1>4, <2>1, <2>2
<1> QED  BY <1>5

\* A nonempty set of ranked elements has a lowest one.
LEMMA LowestExists ==
  ASSUME NEW S, NEW d \in [S -> Nat], NEW X, X \subseteq S, X # {}
  PROVE  \E x \in X : \A y \in X : d[x] <= d[y]
<1> DEFINE H == {d[x] : x \in X}
           R == OpToRel(<, Nat)
<1>1. H \subseteq Nat /\ H # {}
  OBVIOUS
<1>2. IsWellFoundedOn(R, Nat)
  BY NatLessThanWellFounded, Zenon
<1>3. PICK m \in H : \A n \in H : ~(<<n, m>> \in R)
  <2> HIDE DEF H, R
  <2> QED  BY <1>1, <1>2, WFMin, Zenon
<1>4. PICK x \in X : m = d[x]
  OBVIOUS
<1>5. ASSUME NEW y \in X PROVE d[x] <= d[y]
  <2>1. d[y] \in H /\ d[y] \in Nat /\ m \in Nat
    BY <1>1
  <2>2. ~(d[y] < m)
    BY <1>3, <2>1, Zenon DEF OpToRel
  <2> QED  BY SMTT(90), <1>4, <2>1, <2>2
<1> QED  BY <1>5

\* If every element of X has a child in X then X is empty.
LEMMA NoEndlessDescent ==
  ASSUME NEW S, IsFiniteSet(S), NEW d \in [S -> Nat], NEW X, X \subseteq S,
         \A x \in X : \E y \in X : d[y] = d[x] + 1
  PROVE  X = {}
<1> SUFFICES ASSUME X # {} PROVE FALSE
  OBVIOUS
<1>1. Sum(d) \in Nat /\ \A x \in S : d[x] <= Sum(d)
  BY SumType, SumBound
<1>2. PICK x \in X : \A y \in X : d[y] <= d[x]
  BY <1>1, HighestExists, Zenon
<1> QED  BY SMTT(90), <1>2

\* A set grown upwards from b, each element the parent of another one or of b,
\* lies above b.
LEMMA ChainIsAbove ==
  ASSUME NEW S, IsFiniteSet(S), NEW d \in [S -> Nat], NEW X, X \subseteq S,
         NEW b \in S, \A x \in X : \E y \in X \cup {b} : d[y] = d[x] + 1
  PROVE  \A x \in X : d[x] < d[b]
<1> DEFINE Y == {x \in X : d[x] >= d[b]}
<1>1. \A x \in Y : \E y \in Y : d[y] = d[x] + 1
  BY SMTT(90)
<1>2. Y = {}
  <2> HIDE DEF Y
  <2>1. Y \subseteq S
    BY DEF Y
  <2> QED  BY SMTT(90), <1>1, <2>1, NoEndlessDescent
<1> QED  BY SMTT(90), <1>2

\* Such a set, par being the parents.
IsChain(S, d, X, b, par) ==
    /\ IsFiniteSet(S) /\ d \in [S -> Nat] /\ X \subseteq S /\ b \in S
    /\ \A x \in X : \E y \in X \cup {b} : par[y] = x /\ d[y] = d[x] + 1

\* It lies above b and has one element at each level.
LEMMA ChainIsLinear ==
  ASSUME NEW S, NEW d, NEW X, NEW b, NEW par, IsChain(S, d, X, b, par)
  PROVE  /\ \A x \in X : d[x] < d[b]
         /\ \A x, y \in X : d[x] = d[y] => x = y
<1> USE DEF IsChain
<1>0. \A x \in X : d[x] < d[b]
  <2>1. \A x \in X : \E y \in X \cup {b} : d[y] = d[x] + 1
    OBVIOUS
  <2> QED  BY <2>1, ChainIsAbove, Zenon
<1> DEFINE Y == {x \in X : \E y \in X : d[x] = d[y] /\ x # y}
<1>1. ASSUME NEW x \in Y PROVE \E z \in Y : d[z] = d[x] + 1
  <2>1. PICK y \in X : d[x] = d[y] /\ x # y
    OBVIOUS
  <2>2. PICK u \in X \cup {b} : par[u] = x /\ d[u] = d[x] + 1
    OBVIOUS
  <2>3. PICK v \in X \cup {b} : par[v] = y /\ d[v] = d[y] + 1
    OBVIOUS
  <2>4. u # v /\ d[u] = d[v]
    BY <2>1, <2>2, <2>3
  <2>5. u \in X /\ v \in X
    BY SMTT(90), <1>0, <2>4
  <2> QED  BY <2>2, <2>4, <2>5
<1>2. Y = {}
  <2> HIDE DEF Y
  <2>1. Y \subseteq S
    BY DEF Y
  <2> QED  BY SMTT(90), <1>1, <2>1, NoEndlessDescent
<1> QED  BY <1>0, <1>2

-----------------------------------------------------------------------------
\* Money

\* A node has finitely many slots.
LEMMA SlotsFinite == IsFiniteSet(Slots)
<1>1. IsFiniteSet({"value"}) /\ IsFiniteSet({"system"})
  BY FS_Singleton
<1>2. IsFiniteSet({"value"} \cup {"system"})
  BY ONLY <1>1, FS_Union, Zenon
<1>3. IsFiniteSet({"value", "system"})
  <2>1. {"value", "system"} = {"value"} \cup {"system"}
    OBVIOUS
  <2> QED  BY <1>2, <2>1
<1> QED  BY ONLY <1>3, FS_Union, LockIdsAssumption, Zenon DEF Slots

\* GasOf is a balance sheet.
LEMMA GasOfType ==
  ASSUME NEW D, NEW t \in [D -> GasNode]
  PROVE  GasOf(t) \in [D -> Nat]
<1>1. ASSUME NEW x \in D PROVE Sum(t[x].held) \in Nat
  <2>1. t[x].held \in [Slots -> Nat]
    BY DEF GasNode
  <2> QED  BY <2>1, SlotsFinite, SumType
<1> QED  BY <1>1 DEF GasOf

\* Two trees whose nodes hold the same, node by node, except for one.
LEMMA GasInChange ==
  ASSUME NEW D, IsFiniteSet(D), NEW t \in [D -> GasNode], NEW u \in [D -> GasNode],
         NEW a \in D, \A x \in D \ {a} : u[x].held = t[x].held
  PROVE  /\ GasIn(t) \in Nat /\ GasIn(u) \in Nat
         /\ Sum(t[a].held) \in Nat /\ Sum(u[a].held) \in Nat
         /\ GasIn(u) + Sum(t[a].held) = GasIn(t) + Sum(u[a].held)
<1>1. GasOf(t) \in [D -> Nat] /\ GasOf(u) \in [D -> Nat]
  BY GasOfType
<1>2. \A x \in D \ {a} : GasOf(u)[x] = GasOf(t)[x]
  BY DEF GasOf
<1>3. GasOf(t)[a] = Sum(t[a].held) /\ GasOf(u)[a] = Sum(u[a].held)
  BY DEF GasOf
<1>4. Sum(GasOf(u)) + GasOf(t)[a] = Sum(GasOf(t)) + GasOf(u)[a]
  BY ONLY IsFiniteSet(D), <1>1, <1>2, a \in D, SumChange
<1>5. Sum(GasOf(t)) \in Nat /\ Sum(GasOf(u)) \in Nat
  BY <1>1, SumType
<1> QED  BY <1>1, <1>3, <1>4, <1>5 DEF GasIn

\* A node stays a node when what it holds changes.
LEMMA HeldType ==
  ASSUME NEW n \in GasNode, NEW h \in [Slots -> Nat]
  PROVE  [n EXCEPT !.held = h] \in GasNode
  BY DEF GasNode

\* Taking an amount out of one slot of a node.
LEMMA DebitGas ==
  ASSUME NEW D, IsFiniteSet(D), NEW t \in [D -> GasNode], NEW a \in D,
         NEW s \in Slots, NEW v \in Nat, v <= t[a].held[s]
  PROVE  /\ Debit(t, a, s, v) \in [D -> GasNode]
         /\ GasIn(t) \in Nat
         /\ GasIn(Debit(t, a, s, v)) + v = GasIn(t)
<1> DEFINE u == Debit(t, a, s, v)
<1>1. t[a].held \in [Slots -> Nat]
  BY DEF GasNode
<1>2. u[a].held \in [Slots -> Nat] /\ u[a].held = [t[a].held EXCEPT ![s] = @ - v]
  BY SMTT(90), <1>1 DEF Debit, GasNode
<1>3. u \in [D -> GasNode]
  <2>1. u = [t EXCEPT ![a] = [t[a] EXCEPT !.held = u[a].held]]
    BY <1>2 DEF Debit
  <2>2. [t[a] EXCEPT !.held = u[a].held] \in GasNode
    BY <1>2, HeldType
  <2> HIDE DEF u
  <2> QED  BY <2>1, <2>2
<1>4. \A x \in D \ {a} : u[x].held = t[x].held
  BY DEF Debit
<1>5. Sum(u[a].held) + t[a].held[s] = Sum(t[a].held) + u[a].held[s]
  <2>1. \A x \in Slots \ {s} : u[a].held[x] = t[a].held[x]
    BY <1>1, <1>2
  <2> QED  BY ONLY <1>1, <1>2, <2>1, s \in Slots, SlotsFinite, SumChange
<1>6. u[a].held[s] = t[a].held[s] - v /\ t[a].held[s] \in Nat
  BY <1>1, <1>2
<1>7. /\ GasIn(t) \in Nat /\ GasIn(u) \in Nat
      /\ Sum(t[a].held) \in Nat /\ Sum(u[a].held) \in Nat
      /\ GasIn(u) + Sum(t[a].held) = GasIn(t) + Sum(u[a].held)
  BY ONLY IsFiniteSet(D), t \in [D -> GasNode], <1>3, <1>4, a \in D, GasInChange
<1> HIDE DEF u
<1>8. GasIn(u) + v = GasIn(t)
  BY SMTT(90), <1>5, <1>6, <1>7
<1> QED  BY <1>3, <1>7, <1>8 DEF u

\* Putting an amount into one slot of a node.
LEMMA CreditGas ==
  ASSUME NEW D, IsFiniteSet(D), NEW t \in [D -> GasNode], NEW a \in D,
         NEW s \in Slots, NEW v \in Nat
  PROVE  /\ Credit(t, a, s, v) \in [D -> GasNode]
         /\ GasIn(t) \in Nat
         /\ GasIn(Credit(t, a, s, v)) = GasIn(t) + v
<1> DEFINE u == Credit(t, a, s, v)
<1>1. t[a].held \in [Slots -> Nat]
  BY DEF GasNode
<1>2. u[a].held \in [Slots -> Nat] /\ u[a].held = [t[a].held EXCEPT ![s] = @ + v]
  BY SMTT(90), <1>1 DEF Credit, GasNode
<1>3. u \in [D -> GasNode]
  <2>1. u = [t EXCEPT ![a] = [t[a] EXCEPT !.held = u[a].held]]
    BY <1>2 DEF Credit
  <2>2. [t[a] EXCEPT !.held = u[a].held] \in GasNode
    BY <1>2, HeldType
  <2> HIDE DEF u
  <2> QED  BY <2>1, <2>2
<1>4. \A x \in D \ {a} : u[x].held = t[x].held
  BY DEF Credit
<1>5. Sum(u[a].held) + t[a].held[s] = Sum(t[a].held) + u[a].held[s]
  <2>1. \A x \in Slots \ {s} : u[a].held[x] = t[a].held[x]
    BY <1>1, <1>2
  <2> QED  BY ONLY <1>1, <1>2, <2>1, s \in Slots, SlotsFinite, SumChange
<1>6. u[a].held[s] = t[a].held[s] + v /\ t[a].held[s] \in Nat
  BY <1>1, <1>2
<1>7. /\ GasIn(t) \in Nat /\ GasIn(u) \in Nat
      /\ Sum(t[a].held) \in Nat /\ Sum(u[a].held) \in Nat
      /\ GasIn(u) + Sum(t[a].held) = GasIn(t) + Sum(u[a].held)
  BY ONLY IsFiniteSet(D), t \in [D -> GasNode], <1>3, <1>4, a \in D, GasInChange
<1> HIDE DEF u
<1>8. GasIn(u) = GasIn(t) + v
  BY SMTT(90), <1>5, <1>6, <1>7
<1> QED  BY <1>3, <1>7, <1>8 DEF u

\* Adding a node.
LEMMA PutGas ==
  ASSUME NEW D, IsFiniteSet(D), NEW t \in [D -> GasNode],
         NEW k \in NodeIds, k \notin D, NEW node \in GasNode
  PROVE  /\ Put(t, k, node) \in [D \cup {k} -> GasNode]
         /\ IsFiniteSet(D \cup {k})
         /\ GasIn(t) \in Nat
         /\ GasIn(Put(t, k, node)) = GasIn(t) + Sum(node.held)
<1> DEFINE u == Put(t, k, node)
           S == D \cup {k}
<1>1. IsFiniteSet(S)
  BY FS_AddElement
<1>2. u \in [S -> GasNode]
  BY DEF Put
<1>3. GasOf(u) \in [S -> Nat] /\ GasOf(t) \in [D -> Nat]
  BY <1>2, GasOfType
<1>4. \A x \in D : GasOf(t)[x] = GasOf(u)[x]
  BY DEF GasOf, Put
<1>5. S \ {k} = D
  OBVIOUS
<1>6. GasOf(u)[k] = Sum(node.held)
  BY DEF GasOf, Put
<1>7. Sum(GasOf(u)) = Sum(GasOf(t)) + GasOf(u)[k]
  <2>1. k \in S
    OBVIOUS
  <2> HIDE DEF S, u
  <2>2. /\ GasOf(t) \in [S \ {k} -> Nat]
        /\ \A x \in S \ {k} : GasOf(t)[x] = GasOf(u)[x]
    BY <1>3, <1>4, <1>5
  <2> QED  BY ONLY <1>1, <1>3, <2>1, <2>2, SumSplit
<1>8. Sum(GasOf(t)) \in Nat
  BY <1>3, SumType
<1>9. GasIn(u) = GasIn(t) + Sum(node.held) /\ GasIn(t) \in Nat
  BY <1>6, <1>7, <1>8 DEF GasIn
<1> QED  BY ONLY <1>1, <1>2, <1>9

\* A fresh node holds its value and nothing else.
LEMMA NewNodeGas ==
  ASSUME NEW v \in Nat
  PROVE  Sum([s \in Slots |-> IF s = "value" THEN v ELSE 0]) = v
<1> DEFINE h == [s \in Slots |-> IF s = "value" THEN v ELSE 0]
           z == [s \in Slots |-> 0]
<1>2. h \in [Slots -> Nat] /\ z \in [Slots -> Nat] /\ "value" \in Slots
  BY DEF Slots
<1>3. \A s \in Slots \ {"value"} : h[s] = z[s]
  OBVIOUS
<1>4. Sum(z) = 0
  BY <1>2, SumZero
<1>5. Sum(h) \in Nat
  BY <1>2, SlotsFinite, SumType
<1>6. h["value"] = v /\ z["value"] = 0
  BY <1>2
<1>7. Sum(h) + z["value"] = Sum(z) + h["value"]
  <2> HIDE DEF h, z
  <2> QED  BY <1>2, <1>3, SlotsFinite, SumChange
<1>8. Sum(h) = v
  <2> HIDE DEF h, z
  <2> QED  BY SMTT(90), <1>4, <1>5, <1>6, <1>7
<1> QED  BY <1>8

-----------------------------------------------------------------------------
\* Steps that move money and leave the links alone

\* The trees agree on everything Structure looks at.
SameLinks(t, u) ==
    /\ DOMAIN u = DOMAIN t
    /\ \A x \in DOMAIN t :
          /\ u[x].kind = t[x].kind /\ u[x].parent = t[x].parent
          /\ u[x].root = t[x].root /\ u[x].origin = t[x].origin /\ u[x].consumed = t[x].consumed
          /\ u[x].spec = t[x].spec /\ u[x].unspec = t[x].unspec

\* Moving money leaves the links alone.
LEMMA DebitLinks ==
  ASSUME NEW t, NEW a \in DOMAIN t, NEW s, NEW v,
         t \in [DOMAIN t -> GasNode]
  PROVE  SameLinks(t, Debit(t, a, s, v)) /\ SameLinks(t, Credit(t, a, s, v))
  BY DEF SameLinks, Debit, Credit, GasNode

\* The structure depends on the links only.
LEMMA SameLinksStructure ==
  ASSUME Structure, SameLinks(tree, tree')
  PROVE  Structure'
<1>1. ParentHoldsValue'
  BY SMTT(90) DEF Structure, ParentHoldsValue, SameLinks
<1>2. RefsMatchChildren'
  <2>1. \A x, kind : Children(tree', x, kind) = Children(tree, x, kind)
    BY DEF Children, SameLinks
  <2> QED  BY SMTT(90), <2>1 DEF Structure, RefsMatchChildren, SameLinks
<1>3. NoConsumedLeaf'
  BY DEF Structure, NoConsumedLeaf, SameLinks
<1>4. RootOutlivesDescendants'
  <2>1. \A x \in DOMAIN tree : RootOf(tree', x) = RootOf(tree, x)
    BY DEF RootOf, SameLinks
  <2> QED  BY SMTT(90), <2>1 DEF Structure, RootOutlivesDescendants, ParentHoldsValue, SameLinks
<1>5. Ranked'
  BY SMTT(90) DEF Structure, Ranked, SameLinks
<1> QED  BY <1>1, <1>2, <1>3, <1>4, <1>5 DEF Structure

\* The value a node lives on is held by an existing node that is not drained.
LEMMA HolderFacts ==
  ASSUME IInv, NEW k \in DOMAIN tree
  PROVE  /\ Holder(tree, k) \in DOMAIN tree
         /\ tree[Holder(tree, k)].kind # "Unspecified"
         /\ tree[k].kind = "Unspecified" => tree[Holder(tree, k)].kind \in ParentKinds
         /\ ~tree[k].consumed /\ tree[Holder(tree, k)].consumed
               => tree[Holder(tree, k)].unspec # 0
<1>1. CASE tree[k].kind # "Unspecified"
  BY <1>1 DEF Holder
<1>2. CASE tree[k].kind = "Unspecified"
  <2> DEFINE p == tree[k].parent
             Ch == Children(tree, p, "Unspecified")
  <2>1. p \in DOMAIN tree /\ tree[p].kind \in ParentKinds /\ Holder(tree, k) = p
    BY <1>2 DEF IInv, Structure, ParentHoldsValue, LocalKinds, Holder
  <2>2. k \in Ch /\ IsFiniteSet(Ch)
    <3>1. Ch \subseteq DOMAIN tree
      BY DEF Children
    <3> QED  BY <1>2, <3>1, FS_Subset DEF Children, IInv
  <2>3. Cardinality(Ch) # 0
    BY <2>2, FS_EmptySet
  <2>4. tree[p].unspec = Cardinality(Ch)
    BY <2>1 DEF IInv, Structure, RefsMatchChildren
  <2> QED  BY <2>1, <2>3, <2>4 DEF ParentKinds
<1> QED  BY <1>1, <1>2

\* What a step that only moves money has to respect.
LEMMA MoneyStep ==
  ASSUME IInv, SameLinks(tree, tree'), tree' \in [DOMAIN tree -> GasNode],
         \A x \in DOMAIN tree : tree[x].consumed =>
            /\ \A s \in Slots \ {"value"} : tree'[x].held[s] = tree[x].held[s]
            /\ tree[x].unspec = 0 => tree'[x].held["value"] <= tree[x].held["value"],
         \A x \in DOMAIN tree : tree[x].kind = "Unspecified" =>
            tree'[x].held["value"] = tree[x].held["value"],
         total' = GasIn(tree'), total' \in Nat, total' <= total
  PROVE  IInv'
<1>1. TypeOK'
  BY SMTT(90), BalanceAssumption DEF IInv, TypeOK, SameLinks
<1>2. IsFiniteSet(DOMAIN tree')
  BY DEF IInv, SameLinks
<1>3. Structure'
  BY SameLinksStructure DEF IInv
<1>4. Shaped'
  BY DEF IInv, Shaped, SameLinks
<1>5. ConsumedIsDrained'
  <2> SUFFICES ASSUME NEW x \in DOMAIN tree, tree[x].consumed
               PROVE  /\ \A s \in Slots \ {"value"} : tree'[x].held[s] = 0
                      /\ tree[x].unspec = 0 => tree'[x].held["value"] = 0
    BY DEF ConsumedIsDrained, SameLinks
  <2>1. \A s \in Slots \ {"value"} : tree'[x].held[s] = 0
    BY SMTT(90) DEF IInv, ConsumedIsDrained
  <2>2. tree'[x].held["value"] \in Nat
    BY DEF GasNode, Slots
  <2> QED  BY SMTT(90), <2>1, <2>2 DEF IInv, ConsumedIsDrained
<1> QED  BY <1>1, <1>2, <1>3, <1>4, <1>5 DEF IInv, TotalIsHeld

\* Spending keeps the invariant.
LEMMA SpendStep ==
  ASSUME IInv, NEW k \in NodeIds, NEW v \in Nat, Spend(k, v)
  PROVE  IInv'
<1> DEFINE h == Holder(tree, k)
<1>1. /\ h \in DOMAIN tree /\ v <= tree[h].held["value"]
      /\ tree' = Debit(tree, h, "value", v) /\ total' = total - v
      /\ tree[h].kind # "Unspecified"
  BY HolderFacts DEF Spend
<1>2. /\ tree \in [DOMAIN tree -> GasNode] /\ IsFiniteSet(DOMAIN tree)
      /\ total = GasIn(tree) /\ "value" \in Slots
  BY DEF IInv, TypeOK, TotalIsHeld, Slots
<1> HIDE DEF h
<1>3. /\ tree' \in [DOMAIN tree -> GasNode] /\ GasIn(tree) \in Nat
      /\ GasIn(tree') + v = GasIn(tree)
  BY SMTT(90), <1>1, <1>2, DebitGas
<1>4. SameLinks(tree, tree')
  BY <1>1, <1>2, DebitLinks
<1>5. \A x \in DOMAIN tree :
        /\ \A s \in Slots \ {"value"} : tree'[x].held[s] = tree[x].held[s]
        /\ x # h => tree'[x].held["value"] = tree[x].held["value"]
        /\ tree'[x].held["value"] <= tree[x].held["value"]
  BY SMTT(90), <1>1, <1>2 DEF Debit, GasNode
<1>6. GasIn(tree') \in Nat
  <2>1. GasOf(tree') \in [DOMAIN tree -> Nat]
    BY <1>3, GasOfType
  <2> QED  BY <1>2, <2>1, SumType DEF GasIn
<1>7. total' = GasIn(tree') /\ total' \in Nat /\ total' <= total
  BY SMTT(90), <1>1, <1>2, <1>3, <1>6
<1> QED  BY <1>1, <1>3, <1>4, <1>5, <1>7, MoneyStep

\* Locking and reserving take from the holder and give to a slot of k.
LEMMA LockingStep ==
  ASSUME IInv, NEW k \in DOMAIN tree, NEW s \in Slots \ {"value"}, NEW v \in Nat,
         ~tree[k].consumed, v <= tree[Holder(tree, k)].held["value"],
         tree' = Transfer(tree, Holder(tree, k), "value", k, s, v),
         UNCHANGED total
  PROVE  IInv'
<1> DEFINE h == Holder(tree, k)
           u == Debit(tree, h, "value", v)
<1>1. /\ h \in DOMAIN tree /\ tree[h].kind # "Unspecified"
      /\ tree' = Credit(u, k, s, v)
  BY HolderFacts DEF Transfer
<1>2. /\ tree \in [DOMAIN tree -> GasNode] /\ IsFiniteSet(DOMAIN tree)
      /\ total = GasIn(tree) /\ "value" \in Slots
  BY DEF IInv, TypeOK, TotalIsHeld, Slots
<1>3. /\ u \in [DOMAIN tree -> GasNode] /\ GasIn(tree) \in Nat
      /\ GasIn(u) + v = GasIn(tree)
  BY SMTT(90), <1>1, <1>2, DebitGas
<1>4. SameLinks(tree, u)
  BY <1>1, <1>2, DebitLinks
<1>5. \A x \in DOMAIN tree :
        /\ \A r \in Slots \ {"value"} : u[x].held[r] = tree[x].held[r]
        /\ x # h => u[x].held["value"] = tree[x].held["value"]
        /\ u[x].held["value"] <= tree[x].held["value"]
  BY SMTT(90), <1>1, <1>2 DEF Debit, GasNode
<1> HIDE DEF u, h
<1>6. /\ tree' \in [DOMAIN tree -> GasNode] /\ GasIn(u) \in Nat
      /\ GasIn(tree') = GasIn(u) + v
  BY SMTT(90), <1>1, <1>2, <1>3, CreditGas
<1>7. SameLinks(u, tree')
  BY <1>1, <1>3, DebitLinks
<1>8. SameLinks(tree, tree')
  BY SMTT(90), <1>4, <1>7 DEF SameLinks
<1>9. \A x \in DOMAIN tree :
        /\ x # k => tree'[x].held = u[x].held
        /\ tree'[x].held["value"] = u[x].held["value"]
  BY SMTT(90), <1>1, <1>2, <1>3 DEF Credit, GasNode
<1> QED  BY SMTT(90), <1>1, <1>2, <1>3, <1>5, <1>6, <1>8, <1>9, MoneyStep

\* Unlocking and unreserving give back to the holder.
LEMMA UnlockingStep ==
  ASSUME IInv, NEW k \in DOMAIN tree, NEW s \in Slots \ {"value"}, NEW v \in Nat,
         ~tree[k].consumed, v <= tree[k].held[s],
         tree' = Transfer(tree, k, s, Holder(tree, k), "value", v),
         UNCHANGED total
  PROVE  IInv'
<1> DEFINE h == Holder(tree, k)
           u == Debit(tree, k, s, v)
<1>1. /\ h \in DOMAIN tree /\ tree[h].kind # "Unspecified"
      /\ tree[h].consumed => tree[h].unspec # 0
      /\ tree' = Credit(u, h, "value", v)
  BY HolderFacts DEF Transfer
<1>2. /\ tree \in [DOMAIN tree -> GasNode] /\ IsFiniteSet(DOMAIN tree)
      /\ total = GasIn(tree) /\ "value" \in Slots
  BY DEF IInv, TypeOK, TotalIsHeld, Slots
<1>3. /\ u \in [DOMAIN tree -> GasNode] /\ GasIn(tree) \in Nat
      /\ GasIn(u) + v = GasIn(tree)
  BY SMTT(90), <1>1, <1>2, DebitGas
<1>4. SameLinks(tree, u)
  BY <1>1, <1>2, DebitLinks
<1>5. \A x \in DOMAIN tree :
        /\ x # k => u[x].held = tree[x].held
        /\ u[x].held["value"] = tree[x].held["value"]
  BY <1>1, <1>2 DEF Debit, GasNode
<1> HIDE DEF u, h
<1>6. /\ tree' \in [DOMAIN tree -> GasNode] /\ GasIn(u) \in Nat
      /\ GasIn(tree') = GasIn(u) + v
  BY SMTT(90), <1>1, <1>2, <1>3, CreditGas
<1>7. SameLinks(u, tree')
  BY <1>1, <1>3, DebitLinks
<1>8. SameLinks(tree, tree')
  BY SMTT(90), <1>4, <1>7 DEF SameLinks
<1>9. \A x \in DOMAIN tree :
        /\ x # h => tree'[x].held = u[x].held
        /\ \A r \in Slots \ {"value"} : tree'[x].held[r] = u[x].held[r]
  BY SMTT(90), <1>1, <1>2, <1>3 DEF Credit, GasNode
<1>10. \A x \in DOMAIN tree : tree[x].consumed /\ tree[x].unspec = 0 =>
          tree'[x].held["value"] <= tree[x].held["value"]
  <2>1. \A x \in DOMAIN tree : tree[x].held["value"] \in Nat
    BY <1>2 DEF GasNode
  <2> QED  BY SMTT(90), <1>1, <1>5, <1>9, <2>1
<1> QED  BY SMTT(90), <1>1, <1>2, <1>3, <1>5, <1>6, <1>8, <1>9, <1>10, MoneyStep

-----------------------------------------------------------------------------
\* Steps that add a node

\* The root of any node exists and is of a root kind.
LEMMA RootFacts ==
  ASSUME IInv, NEW k \in DOMAIN tree, tree[k].kind # "Cut"
  PROVE  /\ RootOf(tree, k) \in DOMAIN tree
         /\ tree[RootOf(tree, k)].kind \in RootKinds
<1>1. NoNode \notin DOMAIN tree
  BY NodesAssumption DEF IInv, TypeOK
<1>2. tree[k].kind \in Kinds
  BY DEF IInv, TypeOK, GasNode
<1>3. CASE tree[k].kind \in LocalKinds
  BY <1>1, <1>3 DEF IInv, Structure, RootOutlivesDescendants, RootOf
<1>4. CASE tree[k].kind \notin LocalKinds
  <2>1. RootOf(tree, k) = k
    BY <1>4 DEF IInv, Structure, RootOutlivesDescendants, RootOf
  <2> QED  BY <1>2, <1>4, <2>1 DEF Kinds, ParentKinds, LocalKinds, RootKinds
<1> QED  BY <1>3, <1>4

\* A new root (external, cut or reserved) is linked to nothing.
LEMMA AddRoot ==
  ASSUME IInv, NEW t, SameLinks(tree, t), NEW new \in NodeIds, new \notin DOMAIN tree,
         NEW node, node.kind \in {"External", "Cut", "Reserved"},
         node.parent = NoNode, node.root = NoNode, ~node.consumed,
         node.spec = 0, node.unspec = 0, tree' = Put(t, new, node)
  PROVE  Structure'
<1>1. /\ DOMAIN tree' = DOMAIN tree \cup {new} /\ tree'[new] = node
      /\ \A x \in DOMAIN tree : tree'[x] = t[x]
  BY DEF Put, SameLinks
<1>2. /\ new # NoNode /\ node.kind \notin LocalKinds
      /\ \A x \in DOMAIN tree : x # new
  BY NodesAssumption DEF LocalKinds
<1>3. ParentHoldsValue'
  BY SMTT(90), <1>1, <1>2 DEF IInv, Structure, ParentHoldsValue, SameLinks
<1>4. ASSUME NEW x \in NodeIds, NEW kind \in LocalKinds
      PROVE  Children(tree', x, kind) = IF x = new THEN {} ELSE Children(tree, x, kind)
  BY SMTT(90), <1>1, <1>2, <1>4 DEF IInv, Structure, ParentHoldsValue, SameLinks, Children
<1>5. RefsMatchChildren'
  <2>1. DOMAIN tree \subseteq NodeIds /\ {"Specified", "Unspecified"} \subseteq LocalKinds
    BY DEF IInv, TypeOK, LocalKinds
  <2>2. ASSUME NEW x \in DOMAIN tree
        PROVE  /\ tree'[x].spec = Cardinality(Children(tree', x, "Specified"))
               /\ tree'[x].unspec = Cardinality(Children(tree', x, "Unspecified"))
    BY SMTT(90), <1>1, <1>2, <1>4, <2>1 DEF IInv, Structure, RefsMatchChildren, SameLinks
  <2>3. /\ node.spec = Cardinality(Children(tree', new, "Specified"))
        /\ node.unspec = Cardinality(Children(tree', new, "Unspecified"))
    BY <1>4, <2>1, FS_EmptySet, SMTT(90)
  <2> QED  BY <1>1, <2>2, <2>3 DEF RefsMatchChildren
<1>6. NoConsumedLeaf'
  BY SMTT(90), <1>1 DEF IInv, Structure, NoConsumedLeaf, SameLinks
<1>7. RootOutlivesDescendants'
  <2>1. \A x \in DOMAIN tree : RootOf(tree', x) = RootOf(tree, x)
    BY <1>1 DEF RootOf, SameLinks
  <2> QED  BY SMTT(90), <1>1, <1>2, <2>1
           DEF IInv, Structure, RootOutlivesDescendants, ParentHoldsValue, SameLinks
<1>8. Ranked'
  <2>1. PICK d \in [DOMAIN tree -> Nat] : \A k \in DOMAIN tree :
            tree[k].kind \in LocalKinds => d[k] = d[tree[k].parent] + 1
    BY DEF IInv, Structure, Ranked
  <2> DEFINE e == [x \in DOMAIN tree' |-> IF x = new THEN 0 ELSE d[x]]
  <2>2. e \in [DOMAIN tree' -> Nat]
    BY <1>1
  <2>3. \A k \in DOMAIN tree' :
           tree'[k].kind \in LocalKinds => e[k] = e[tree'[k].parent] + 1
    BY SMTT(90), <1>1, <1>2, <2>1 DEF IInv, Structure, ParentHoldsValue, SameLinks
  <2> QED  BY <2>2, <2>3, Zenon DEF Ranked
<1> QED  BY <1>3, <1>5, <1>6, <1>7, <1>8 DEF Structure

\* A new local node is counted by its parent h and belongs to h's root.
LEMMA AddChild ==
  ASSUME IInv, NEW h \in DOMAIN tree, tree[h].kind \in ParentKinds,
         NEW t, DOMAIN t = DOMAIN tree,
         NEW new \in NodeIds, new \notin DOMAIN tree,
         NEW node, node.kind \in LocalKinds, node.parent = h,
         node.root = RootOf(tree, h), ~node.consumed, node.spec = 0, node.unspec = 0,
         \A x \in DOMAIN tree :
            /\ t[x].kind = tree[x].kind /\ t[x].parent = tree[x].parent
            /\ t[x].root = tree[x].root /\ t[x].consumed = tree[x].consumed
            /\ t[x].spec = IF x = h /\ node.kind = "Specified"
                            THEN tree[x].spec + 1 ELSE tree[x].spec
            /\ t[x].unspec = IF x = h /\ node.kind = "Unspecified"
                              THEN tree[x].unspec + 1 ELSE tree[x].unspec,
         tree' = Put(t, new, node)
  PROVE  Structure'
<1>1. /\ DOMAIN tree' = DOMAIN tree \cup {new} /\ tree'[new] = node
      /\ \A x \in DOMAIN tree : tree'[x] = t[x]
  BY DEF Put
<1>2. /\ new # NoNode /\ h # new /\ \A x \in DOMAIN tree : x # new
  BY NodesAssumption
<1>3. ParentHoldsValue'
  BY SMTT(90), <1>1, <1>2 DEF IInv, Structure, ParentHoldsValue
<1>4. ASSUME NEW x \in NodeIds, NEW kind \in LocalKinds
      PROVE  Children(tree', x, kind) =
                IF x = new THEN {}
                ELSE IF x = h /\ node.kind = kind THEN Children(tree, x, kind) \cup {new}
                ELSE Children(tree, x, kind)
  BY SMTT(90), <1>1, <1>2, <1>4 DEF IInv, Structure, ParentHoldsValue, Children
<1>5. RefsMatchChildren'
  <2>1. DOMAIN tree \subseteq NodeIds /\ LocalKinds = {"Specified", "Unspecified"}
    BY DEF IInv, TypeOK, LocalKinds
  <2>2. ASSUME NEW x, NEW kind
        PROVE  /\ IsFiniteSet(Children(tree, x, kind))
               /\ new \notin Children(tree, x, kind)
               /\ Cardinality(Children(tree, x, kind) \cup {new})
                     = Cardinality(Children(tree, x, kind)) + 1
    <3>1. Children(tree, x, kind) \subseteq DOMAIN tree
      BY DEF Children
    <3>2. IsFiniteSet(Children(tree, x, kind))
      BY <3>1, FS_Subset DEF IInv
    <3> QED  BY <3>1, <3>2, FS_AddElement, Zenon
  <2>3. ASSUME NEW x \in DOMAIN tree
        PROVE  /\ tree'[x].spec = Cardinality(Children(tree', x, "Specified"))
               /\ tree'[x].unspec = Cardinality(Children(tree', x, "Unspecified"))
    <3>1. /\ tree[x].spec = Cardinality(Children(tree, x, "Specified"))
          /\ tree[x].unspec = Cardinality(Children(tree, x, "Unspecified"))
      BY DEF IInv, Structure, RefsMatchChildren
    <3>2. x # new /\ x \in NodeIds
      BY <2>1
    <3> QED  BY SMTT(90), <1>1, <1>4, <2>1, <2>2, <3>1, <3>2
  <2>4. /\ node.spec = Cardinality(Children(tree', new, "Specified"))
        /\ node.unspec = Cardinality(Children(tree', new, "Unspecified"))
    BY <1>4, <2>1, FS_EmptySet, Zenon
  <2> QED  BY <1>1, <2>3, <2>4 DEF RefsMatchChildren
<1>6. NoConsumedLeaf'
  <2>1. \A x \in DOMAIN tree : tree[x].spec \in Nat /\ tree[x].unspec \in Nat
    BY DEF IInv, TypeOK, GasNode
  <2> QED  BY SMTT(90), <1>1, <2>1 DEF IInv, Structure, NoConsumedLeaf
<1>7. RootOutlivesDescendants'
  <2>1. \A x \in DOMAIN tree : RootOf(tree', x) = RootOf(tree, x)
    BY <1>1 DEF RootOf
  <2>2. RootOf(tree, h) \in DOMAIN tree /\ tree[RootOf(tree, h)].kind \in RootKinds
    BY RootFacts DEF ParentKinds
  <2> QED  BY SMTT(90), <1>1, <1>2, <2>1, <2>2
           DEF IInv, Structure, RootOutlivesDescendants, ParentHoldsValue
<1>8. Ranked'
  <2>1. PICK d \in [DOMAIN tree -> Nat] : \A k \in DOMAIN tree :
            tree[k].kind \in LocalKinds => d[k] = d[tree[k].parent] + 1
    BY DEF IInv, Structure, Ranked
  <2> DEFINE e == [x \in DOMAIN tree' |-> IF x = new THEN d[h] + 1 ELSE d[x]]
  <2>2. e \in [DOMAIN tree' -> Nat]
    BY SMTT(90), <1>1
  <2>3. \A k \in DOMAIN tree' :
           tree'[k].kind \in LocalKinds => e[k] = e[tree'[k].parent] + 1
    BY SMTT(90), <1>1, <1>2, <2>1 DEF IInv, Structure, ParentHoldsValue
  <2> QED  BY <2>2, <2>3, Zenon DEF Ranked
<1> QED  BY <1>3, <1>5, <1>6, <1>7, <1>8 DEF Structure

\* Gas is counted by what the nodes hold.
LEMMA GasInSame ==
  ASSUME NEW t, NEW u, DOMAIN u = DOMAIN t, \A x \in DOMAIN t : u[x].held = t[x].held
  PROVE  GasIn(u) = GasIn(t)
<1>1. GasOf(u) = GasOf(t)
  BY DEF GasOf
<1> QED  BY <1>1 DEF GasIn

\* What a step that adds a node has to respect besides the structure.
LEMMA AddStep ==
  ASSUME IInv, NEW t \in [DOMAIN tree -> GasNode],
         NEW new \in NodeIds, new \notin DOMAIN tree, NEW node \in GasNode,
         tree' = Put(t, new, node), Structure', ~node.consumed,
         node.kind = "Unspecified" => node.held["value"] = 0,
         \A x \in DOMAIN tree :
            /\ t[x].kind = tree[x].kind /\ t[x].consumed = tree[x].consumed
            /\ t[x].unspec = 0 => tree[x].unspec = 0
            /\ \A s \in Slots \ {"value"} : t[x].held[s] = tree[x].held[s]
            /\ t[x].held["value"] <= tree[x].held["value"],
         total' = GasIn(t) + Sum(node.held), total' \in 0..MaxBalance
  PROVE  IInv'
<1>1. /\ DOMAIN tree' = DOMAIN tree \cup {new} /\ tree'[new] = node
      /\ \A x \in DOMAIN tree : tree'[x] = t[x]
  BY DEF Put
<1>2. /\ tree' \in [DOMAIN tree \cup {new} -> GasNode]
      /\ IsFiniteSet(DOMAIN tree \cup {new})
      /\ GasIn(tree') = GasIn(t) + Sum(node.held)
  <2>1. IsFiniteSet(DOMAIN tree)
    BY DEF IInv
  <2>2. /\ Put(t, new, node) \in [DOMAIN tree \cup {new} -> GasNode]
        /\ IsFiniteSet(DOMAIN tree \cup {new})
        /\ GasIn(Put(t, new, node)) = GasIn(t) + Sum(node.held)
    <3> DEFINE D == DOMAIN tree
    <3>1. IsFiniteSet(D) /\ t \in [D -> GasNode] /\ new \notin D
      BY <2>1
    <3> HIDE DEF D
    <3>2. /\ Put(t, new, node) \in [D \cup {new} -> GasNode]
          /\ IsFiniteSet(D \cup {new})
          /\ GasIn(t) \in Nat
          /\ GasIn(Put(t, new, node)) = GasIn(t) + Sum(node.held)
      BY ONLY <3>1, new \in NodeIds, node \in GasNode, PutGas
    <3> QED  BY <3>2 DEF D
  <2> QED  BY <2>2
<1>3. TypeOK'
  BY <1>1, <1>2 DEF IInv, TypeOK
<1>4. \A x \in DOMAIN tree : t[x].held["value"] \in Nat /\ tree[x].held["value"] \in Nat
  BY SMTT(90) DEF IInv, TypeOK, GasNode, Slots
<1>5. Shaped'
  BY SMTT(90), <1>1, <1>4 DEF IInv, Shaped
<1>6. ConsumedIsDrained'
  <2> SUFFICES ASSUME NEW x \in DOMAIN tree, tree[x].consumed
               PROVE  /\ \A s \in Slots \ {"value"} : t[x].held[s] = 0
                      /\ t[x].unspec = 0 => t[x].held["value"] = 0
    BY SMTT(90), <1>1 DEF ConsumedIsDrained
  <2> QED  BY SMTT(90), <1>4 DEF IInv, ConsumedIsDrained
<1> QED  BY <1>1, <1>2, <1>3, <1>5, <1>6 DEF IInv, TotalIsHeld

\* Creating a root keeps the invariant.
LEMMA CreateStep ==
  ASSUME IInv, NEW o \in Origins, NEW k \in NodeIds, NEW v \in Nat, Create(o, k, v)
  PROVE  IInv'
<1> DEFINE node == NewNode("External", o, NoNode, NoNode, v, FALSE)
<1>1. node \in GasNode /\ Sum(node.held) = v
  <2>1. "External" \in Kinds /\ FALSE \in BOOLEAN
    BY DEF Kinds, ParentKinds
  <2>2. o \in Origins \cup {NoOrigin} /\ NoNode \in NodeIds \cup {NoNode}
    OBVIOUS
  <2>3. node \in GasNode
    BY <2>1, <2>2 DEF NewNode, GasNode
  <2>4. node.held = [s \in Slots |-> IF s = "value" THEN v ELSE 0]
    BY DEF NewNode
  <2>5. Sum(node.held) = v
    BY ONLY <2>4, v \in Nat, NewNodeGas, Zenon
  <2> QED  BY <2>3, <2>5, Zenon
<1>2. /\ node.kind = "External" /\ node.parent = NoNode /\ node.root = NoNode
      /\ ~node.consumed /\ node.spec = 0 /\ node.unspec = 0
  BY DEF NewNode
<1>3. /\ k \notin DOMAIN tree /\ tree' = Put(tree, k, node)
      /\ total' = total + v /\ total + v <= MaxBalance
  BY DEF Create
<1>4. tree \in [DOMAIN tree -> GasNode] /\ total \in Nat /\ total = GasIn(tree)
  BY SMTT(90), BalanceAssumption DEF IInv, TypeOK, TotalIsHeld
<1>5. SameLinks(tree, tree)
  BY DEF SameLinks
<1> HIDE DEF node
<1>6. Structure'
  BY SMTT(90), <1>2, <1>3, <1>5, AddRoot
<1>7. \A x \in DOMAIN tree : tree[x].held["value"] <= tree[x].held["value"]
  BY SMTT(90), <1>4 DEF GasNode, Slots
<1> QED  BY SMTT(90), <1>1, <1>2, <1>3, <1>4, <1>6, <1>7, BalanceAssumption, AddStep

\* cut, create_deposit and reserve.
LEMMA CreateFromRootStep ==
  ASSUME IInv, NEW k \in NodeIds, NEW new \in NodeIds, NEW v \in Nat,
         NEW kind \in {"External", "Cut", "Reserved"}, NEW dep \in BOOLEAN,
         CreateFrom(k, new, v, NewNode(kind, OriginOf(tree, k), NoNode, NoNode, v, dep))
  PROVE  IInv'
<1> DEFINE node == NewNode(kind, OriginOf(tree, k), NoNode, NoNode, v, dep)
           h == Holder(tree, k)
           u == Debit(tree, h, "value", v)
           t == [u EXCEPT ![h].spec = IF node.kind = "Specified" THEN @ + 1 ELSE @]
<1>1. /\ k \in DOMAIN tree /\ new \notin DOMAIN tree /\ tree[h].kind # "Cut"
      /\ v <= tree[h].held["value"] /\ tree' = Put(t, new, node) /\ UNCHANGED total
  BY DEF CreateFrom
<1>2. h \in DOMAIN tree
  BY <1>1, HolderFacts
<1>3. OriginOf(tree, k) \in Origins \cup {NoOrigin}
  <2>1. tree[k].kind # "Cut"
    BY <1>1 DEF Holder
  <2> QED  BY <1>1, <2>1, RootFacts DEF OriginOf, IInv, TypeOK, GasNode
<1>4. node \in GasNode /\ Sum(node.held) = v
  <2>1. kind \in Kinds /\ NoNode \in NodeIds \cup {NoNode}
    BY DEF Kinds, ParentKinds
  <2>3. node \in GasNode
    BY <1>3, <2>1 DEF NewNode, GasNode
  <2>4. node.held = [s \in Slots |-> IF s = "value" THEN v ELSE 0]
    BY DEF NewNode
  <2>5. Sum(node.held) = v
    BY ONLY <2>4, v \in Nat, NewNodeGas
  <2> QED  BY <2>3, <2>5
<1>5. /\ node.kind = kind /\ node.parent = NoNode /\ node.root = NoNode
      /\ ~node.consumed /\ node.spec = 0 /\ node.unspec = 0
  BY DEF NewNode
<1>6. /\ tree \in [DOMAIN tree -> GasNode] /\ IsFiniteSet(DOMAIN tree)
      /\ total \in 0..MaxBalance /\ total = GasIn(tree) /\ "value" \in Slots
  BY DEF IInv, TypeOK, TotalIsHeld, Slots
<1>7. /\ u \in [DOMAIN tree -> GasNode] /\ GasIn(u) + v = GasIn(tree)
  BY SMTT(90), <1>1, <1>2, <1>6, DebitGas
<1>8. SameLinks(tree, u)
  BY <1>2, <1>6, DebitLinks
<1>9. \A x \in DOMAIN tree :
        /\ \A s \in Slots \ {"value"} : u[x].held[s] = tree[x].held[s]
        /\ u[x].held["value"] <= tree[x].held["value"]
  BY SMTT(90), <1>1, <1>2, <1>6 DEF Debit, GasNode
<1>10. t = u
  <2> HIDE DEF u, node, h
  <2>1. t = [u EXCEPT ![h].spec = u[h].spec]
    BY <1>5, Zenon
  <2>2. u[h] \in GasNode
    BY <1>2, <1>7
  <2>3. [u[h] EXCEPT !.spec = u[h].spec] = u[h]
    BY <2>2 DEF GasNode
  <2> QED  BY <1>2, <1>7, <2>1, <2>3
<1> HIDE DEF u, h, node, t
<1>11. Structure'
  BY SMTT(90), <1>1, <1>5, <1>8, <1>10, AddRoot
<1>12. total' = GasIn(u) + Sum(node.held)
  BY <1>1, <1>4, <1>6, <1>7
<1>13. node.kind # "Unspecified"
  BY <1>5
<1> QED  BY SMTT(90), <1>1, <1>4, <1>5, <1>6, <1>7, <1>8, <1>9, <1>10, <1>11, <1>12, <1>13, AddStep
         DEF SameLinks

\* Splitting off a specified node keeps the invariant.
LEMMA SplitWithValueStep ==
  ASSUME IInv, NEW k \in NodeIds, NEW new \in NodeIds, NEW v \in Nat,
         SplitWithValue(k, new, v)
  PROVE  IInv'
<1> DEFINE h == Holder(tree, k)
           node == NewNode("Specified", NoOrigin, h, RootOf(tree, h), v, FALSE)
           u == Debit(tree, h, "value", v)
           t == [u EXCEPT ![h].spec = @ + 1]
<1>1. /\ node.kind = "Specified" /\ node.parent = h /\ node.root = RootOf(tree, h)
      /\ ~node.consumed /\ node.spec = 0 /\ node.unspec = 0
  BY DEF NewNode
<1>2. /\ k \in DOMAIN tree /\ new \notin DOMAIN tree /\ tree[h].kind # "Cut"
      /\ v <= tree[h].held["value"] /\ tree' = Put(t, new, node) /\ UNCHANGED total
  BY <1>1 DEF SplitWithValue, CreateFrom
<1>3. h \in DOMAIN tree /\ tree[h].kind \in ParentKinds
  BY <1>2, HolderFacts DEF IInv, TypeOK, GasNode, Kinds
<1>4. /\ tree \in [DOMAIN tree -> GasNode] /\ IsFiniteSet(DOMAIN tree)
      /\ DOMAIN tree \subseteq NodeIds /\ total \in 0..MaxBalance
      /\ total = GasIn(tree) /\ "value" \in Slots
  BY DEF IInv, TypeOK, TotalIsHeld, Slots
<1>5. node \in GasNode /\ Sum(node.held) = v
  <2>1. /\ "Specified" \in Kinds /\ NoOrigin \in Origins \cup {NoOrigin}
        /\ FALSE \in BOOLEAN /\ h \in NodeIds \cup {NoNode}
    BY <1>3, <1>4 DEF Kinds, ParentKinds
  <2>2. RootOf(tree, h) \in NodeIds \cup {NoNode}
    BY <1>2, <1>3, <1>4, RootFacts
  <2>3. node \in GasNode
    BY <2>1, <2>2 DEF NewNode, GasNode
  <2>4. node.held = [s \in Slots |-> IF s = "value" THEN v ELSE 0]
    BY DEF NewNode
  <2>5. Sum(node.held) = v
    BY ONLY <2>4, v \in Nat, NewNodeGas, Zenon
  <2> QED  BY <2>3, <2>5, Zenon
<1>6. u \in [DOMAIN tree -> GasNode] /\ GasIn(u) + v = GasIn(tree)
  BY SMTT(90), <1>2, <1>3, <1>4, DebitGas
<1>7. SameLinks(tree, u)
  BY <1>3, <1>4, DebitLinks
<1>8. \A x \in DOMAIN tree :
        /\ \A s \in Slots \ {"value"} : u[x].held[s] = tree[x].held[s]
        /\ u[x].held["value"] <= tree[x].held["value"]
  BY SMTT(90), <1>2, <1>3, <1>4 DEF Debit, GasNode
<1> HIDE DEF u, h, node
<1>9. t \in [DOMAIN tree -> GasNode]
  <2>1. [u[h] EXCEPT !.spec = u[h].spec + 1] \in GasNode
    BY SMTT(90), <1>3, <1>6 DEF GasNode
  <2> QED  BY <1>3, <1>6, <2>1
<1>10. /\ DOMAIN t = DOMAIN tree
       /\ \A x \in DOMAIN tree :
            /\ t[x].kind = tree[x].kind /\ t[x].parent = tree[x].parent
            /\ t[x].root = tree[x].root /\ t[x].consumed = tree[x].consumed
            /\ t[x].spec = IF x = h THEN tree[x].spec + 1 ELSE tree[x].spec
            /\ t[x].unspec = tree[x].unspec /\ t[x].held = u[x].held
  BY SMTT(90), <1>3, <1>6, <1>7 DEF SameLinks, GasNode
<1> HIDE DEF t
<1>11. Structure'
  <2>1. node.kind \in LocalKinds /\ node.kind # "Unspecified"
    BY <1>1 DEF LocalKinds
  <2> QED  BY SMTT(90), <1>1, <1>2, <1>3, <1>10, <2>1, AddChild
<1>12. GasIn(t) = GasIn(u)
  BY <1>6, <1>10, GasInSame
<1>13. total' = GasIn(t) + Sum(node.held)
  BY <1>2, <1>4, <1>5, <1>6, <1>12
<1> QED  BY SMTT(90), <1>1, <1>2, <1>4, <1>5, <1>8, <1>9, <1>10, <1>11, <1>13, AddStep

\* Splitting off an unspecified node keeps the invariant.
LEMMA SplitStep ==
  ASSUME IInv, NEW k \in NodeIds, NEW new \in NodeIds, Split(k, new)
  PROVE  IInv'
<1> DEFINE h == Holder(tree, k)
           node == NewNode("Unspecified", NoOrigin, h, RootOf(tree, h), 0, FALSE)
           t == [tree EXCEPT ![h].unspec = @ + 1]
<1>1. /\ node.kind = "Unspecified" /\ node.parent = h /\ node.root = RootOf(tree, h)
      /\ ~node.consumed /\ node.spec = 0 /\ node.unspec = 0
      /\ node.held["value"] = 0
  BY DEF NewNode, Slots
<1>2. /\ k \in DOMAIN tree /\ new \notin DOMAIN tree /\ tree[h].kind # "Cut"
      /\ tree' = Put(t, new, node) /\ UNCHANGED total
  BY DEF Split
<1>3. h \in DOMAIN tree /\ tree[h].kind \in ParentKinds
  BY <1>2, HolderFacts DEF IInv, TypeOK, GasNode, Kinds
<1>4. /\ tree \in [DOMAIN tree -> GasNode] /\ IsFiniteSet(DOMAIN tree)
      /\ DOMAIN tree \subseteq NodeIds /\ total \in 0..MaxBalance
      /\ total = GasIn(tree) /\ "value" \in Slots
  BY DEF IInv, TypeOK, TotalIsHeld, Slots
<1>5. node \in GasNode /\ Sum(node.held) = 0
  <2>1. h \in NodeIds /\ RootOf(tree, h) \in NodeIds
    BY <1>2, <1>3, <1>4, RootFacts
  <2>2. node \in GasNode
    BY <2>1 DEF NewNode, GasNode, Kinds
  <2>3. node.held \in [Slots -> Nat] /\ \A s \in Slots : node.held[s] = 0
    BY DEF NewNode
  <2> HIDE DEF node
  <2> QED  BY <2>2, <2>3, SumZero
<1> HIDE DEF h, node
<1>6. t \in [DOMAIN tree -> GasNode]
  <2>1. [tree[h] EXCEPT !.unspec = tree[h].unspec + 1] \in GasNode
    BY SMTT(90), <1>3, <1>4 DEF GasNode
  <2> QED  BY <1>3, <1>4, <2>1
<1>7. /\ DOMAIN t = DOMAIN tree
      /\ \A x \in DOMAIN tree :
            /\ t[x].kind = tree[x].kind /\ t[x].parent = tree[x].parent
            /\ t[x].root = tree[x].root /\ t[x].consumed = tree[x].consumed
            /\ t[x].unspec = IF x = h THEN tree[x].unspec + 1 ELSE tree[x].unspec
            /\ t[x].spec = tree[x].spec /\ t[x].held = tree[x].held
  BY <1>3, <1>4 DEF GasNode
<1> HIDE DEF t
<1>8. Structure'
  <2>1. node.kind \in LocalKinds /\ node.kind # "Specified"
    BY <1>1 DEF LocalKinds
  <2>2. \A x \in DOMAIN tree :
            /\ t[x].kind = tree[x].kind /\ t[x].parent = tree[x].parent
            /\ t[x].root = tree[x].root /\ t[x].consumed = tree[x].consumed
            /\ t[x].spec = IF x = h /\ node.kind = "Specified"
                            THEN tree[x].spec + 1 ELSE tree[x].spec
            /\ t[x].unspec = IF x = h /\ node.kind = "Unspecified"
                              THEN tree[x].unspec + 1 ELSE tree[x].unspec
    BY <1>1, <1>7, <2>1
  <2> QED  BY ONLY IInv, new \in NodeIds, <1>1, <1>2, <1>3, <1>7, <2>1, <2>2, AddChild
<1>9. GasIn(t) = GasIn(tree)
  BY <1>7, GasInSame
<1>10. total' = GasIn(t) + Sum(node.held)
  BY SMTT(90), <1>2, <1>4, <1>5, <1>9
<1>11. \A x \in DOMAIN tree :
         /\ t[x].unspec = 0 => tree[x].unspec = 0
         /\ t[x].held["value"] <= tree[x].held["value"]
  BY SMTT(90), <1>4, <1>7 DEF GasNode
<1> QED  BY SMTT(90), <1>1, <1>2, <1>4, <1>5, <1>6, <1>7, <1>8, <1>10, <1>11, AddStep

-----------------------------------------------------------------------------
(* Consume *)

\* A consume of k that empties s, climbs C and deletes R.
Consuming(k, s, C, R) ==
    /\ k \in DOMAIN tree /\ ~tree[k].consumed
    /\ \A id \in LockIds : tree[k].held[id] = 0
    /\ tree[k].held["system"] = 0
    /\ s = CatchSource(Marked(tree, k), k)
    /\ IF s = NoNode THEN C = {} ELSE IsClimb(Marked(tree, k), s, C)
    /\ IsRemoval(Marked(tree, k), k, R)

\* A node stays a node when its flag changes.
LEMMA ConsumedType ==
  ASSUME NEW n \in GasNode, NEW b \in BOOLEAN
  PROVE  [n EXCEPT !.consumed = b] \in GasNode
  BY DEF GasNode

\* Marking k changes the flag of k and nothing else.
LEMMA MarkedFacts ==
  ASSUME IInv, NEW k \in DOMAIN tree
  PROVE  LET t == Marked(tree, k)
         IN  /\ DOMAIN t = DOMAIN tree /\ t \in [DOMAIN tree -> GasNode]
             /\ \A x \in DOMAIN tree :
                  /\ t[x].kind = tree[x].kind /\ t[x].parent = tree[x].parent
                  /\ t[x].root = tree[x].root /\ t[x].origin = tree[x].origin /\ t[x].held = tree[x].held
                  /\ t[x].spec = tree[x].spec /\ t[x].unspec = tree[x].unspec
                  /\ x # k => t[x].consumed = tree[x].consumed
             /\ t[k].consumed = (tree[k].kind \in ParentKinds)
<1> DEFINE t == Marked(tree, k)
<1>1. tree \in [DOMAIN tree -> GasNode]
  BY DEF IInv, TypeOK
<1>2. [tree[k] EXCEPT !.consumed = tree[k].kind \in ParentKinds] \in GasNode
  <2> DEFINE b == tree[k].kind \in ParentKinds
  <2>1. b \in BOOLEAN /\ tree[k] \in GasNode
    BY SMTT(90), <1>1
  <2> HIDE DEF b
  <2>2. [tree[k] EXCEPT !.consumed = b] \in GasNode
    BY <2>1, ConsumedType
  <2> QED  BY <2>2, Zenon DEF b
<1>3. t = [tree EXCEPT ![k] = [tree[k] EXCEPT !.consumed = tree[k].kind \in ParentKinds]]
  BY DEF Marked
<1>4. DOMAIN t = DOMAIN tree /\ t \in [DOMAIN tree -> GasNode]
  BY <1>1, <1>2, <1>3
<1>5. \A x \in DOMAIN tree \ {k} : t[x] = tree[x]
  BY <1>3
<1>6. /\ t[k].kind = tree[k].kind /\ t[k].parent = tree[k].parent
      /\ t[k].root = tree[k].root /\ t[k].origin = tree[k].origin /\ t[k].held = tree[k].held
      /\ t[k].spec = tree[k].spec /\ t[k].unspec = tree[k].unspec
  BY <1>1, <1>3 DEF GasNode
<1>7. t[k].consumed = (tree[k].kind \in ParentKinds)
  BY <1>1, <1>3 DEF GasNode
<1> HIDE DEF t
<1>8. \A x \in DOMAIN tree :
         /\ t[x].kind = tree[x].kind /\ t[x].parent = tree[x].parent
         /\ t[x].root = tree[x].root /\ t[x].origin = tree[x].origin /\ t[x].held = tree[x].held
         /\ t[x].spec = tree[x].spec /\ t[x].unspec = tree[x].unspec
         /\ x # k => t[x].consumed = tree[x].consumed
  BY <1>5, <1>6
<1> QED  BY <1>4, <1>7, <1>8 DEF t

\* The children of a node, of both kinds, are spec + unspec many.
LEMMA ChildCount ==
  ASSUME IInv, NEW x \in DOMAIN tree
  PROVE  LET Ch == {c \in DOMAIN tree : tree[c].parent = x}
         IN  IsFiniteSet(Ch) /\ Cardinality(Ch) = tree[x].spec + tree[x].unspec
<1> DEFINE Ch == {c \in DOMAIN tree : tree[c].parent = x}
           A == Children(tree, x, "Specified")
           B == Children(tree, x, "Unspecified")
<1>1. IsFiniteSet(A) /\ IsFiniteSet(B) /\ IsFiniteSet(Ch)
  <2>1. A \subseteq DOMAIN tree /\ B \subseteq DOMAIN tree /\ Ch \subseteq DOMAIN tree
    BY DEF Children
  <2> HIDE DEF A, B, Ch
  <2> QED  BY <2>1, FS_Subset DEF IInv
<1>2. Ch = A \cup B
  <2>1. x # NoNode
    BY NodesAssumption DEF IInv, TypeOK
  <2> QED  BY <2>1 DEF Children, IInv, Structure, ParentHoldsValue, LocalKinds
<1>3. Cardinality(A \cap B) = 0
  <2>1. A \cap B = {}
    BY DEF Children
  <2> QED  BY <2>1, FS_EmptySet
<1>4. Cardinality(A) = tree[x].spec /\ Cardinality(B) = tree[x].unspec
  BY DEF IInv, Structure, RefsMatchChildren
<1>5. tree[x].spec \in Nat /\ tree[x].unspec \in Nat
  BY DEF IInv, TypeOK, GasNode
<1> HIDE DEF A, B, Ch
<1>6. Cardinality(A \cup B) = Cardinality(A) + Cardinality(B) - Cardinality(A \cap B)
  BY <1>1, FS_Union
<1>7. Cardinality(Ch) = tree[x].spec + tree[x].unspec
  BY SMTT(90), <1>2, <1>3, <1>4, <1>5, <1>6
<1> QED  BY <1>1, <1>7 DEF Ch

\* Only k can be an unspecified node of R; the others were consumed.
LEMMA RemovalKinds ==
  ASSUME IInv, NEW k, NEW s, NEW C, NEW R, Consuming(k, s, C, R), NEW y \in R
  PROVE  /\ y \in DOMAIN tree
         /\ y # k => tree[y].consumed /\ tree[y].kind \in ParentKinds
         /\ tree[y].kind = "Unspecified" => y = k
<1>1. y \in DOMAIN tree /\ k \in DOMAIN tree
  BY MarkedFacts DEF Consuming, IsRemoval
<1>2. y # k => tree[y].consumed
  BY SMTT(90), <1>1, MarkedFacts DEF Consuming, IsRemoval
<1> QED  BY <1>1, <1>2 DEF IInv, Shaped, ParentKinds

\* A deleted node has no child that stays.
LEMMA RemovalClosed ==
  ASSUME IInv, NEW k, NEW s, NEW C, NEW R, Consuming(k, s, C, R),
         NEW c \in DOMAIN tree, tree[c].parent \in R
  PROVE  c \in R
<1> DEFINE x == tree[c].parent
           Ch == {e \in DOMAIN tree : tree[e].parent = x}
           t == Marked(tree, k)
<1>1. x \in DOMAIN tree /\ k \in DOMAIN tree
  BY RemovalKinds DEF Consuming
<1>2. IsFiniteSet(Ch) /\ Cardinality(Ch) = tree[x].spec + tree[x].unspec
  BY <1>1, ChildCount
<1>3. c \in Ch
  OBVIOUS
<1>4. /\ DOMAIN t = DOMAIN tree
      /\ \A e \in DOMAIN tree :
            /\ t[e].parent = tree[e].parent
            /\ t[e].spec = tree[e].spec /\ t[e].unspec = tree[e].unspec
  BY <1>1, MarkedFacts
<1>5. IsRemoval(t, k, R)
  BY DEF Consuming
<1> HIDE DEF t, Ch
<1>6. CASE x = k
  <2>1. Cardinality(Ch) = 0
    BY <1>1, <1>2, <1>4, <1>5, <1>6 DEF IsRemoval
  <2> QED  BY <1>2, <1>3, <2>1, FS_EmptySet
<1>7. CASE x # k
  <2>1. Cardinality(Ch) = 1
    BY <1>1, <1>2, <1>4, <1>5, <1>7 DEF IsRemoval
  <2>2. PICK y \in R : t[y].parent = x
    BY <1>1, <1>4, <1>5, <1>7 DEF IsRemoval
  <2>3. y \in Ch
    BY <1>4, <1>5, <2>2 DEF IsRemoval, Ch
  <2>4. PICK z : Ch = {z}
    BY <1>2, <2>1, FS_Singleton, Zenon
  <2> QED  BY <1>3, <2>2, <2>3, <2>4
<1> QED  BY <1>6, <1>7

\* The depth of a node, as Ranked provides it.
IsDepth(d) ==
    /\ d \in [DOMAIN tree -> Nat]
    /\ \A x \in DOMAIN tree : tree[x].kind \in LocalKinds => d[x] = d[tree[x].parent] + 1

\* A node whose parent is in storage lies one level below it.
LEMMA DepthOfChild ==
  ASSUME IInv, NEW d, IsDepth(d), NEW x \in DOMAIN tree, tree[x].parent \in DOMAIN tree
  PROVE  d[x] = d[tree[x].parent] + 1 /\ tree[x].kind \in LocalKinds
<1>1. tree[x].parent # NoNode
  BY NodesAssumption DEF IInv, TypeOK
<1> QED  BY <1>1 DEF IInv, Structure, ParentHoldsValue, IsDepth

\* The rule of IsRemoval, told of the tree before the mark.
LEMMA RemovalRule ==
  ASSUME IInv, NEW k, NEW s, NEW C, NEW R, Consuming(k, s, C, R)
  PROVE  /\ R \subseteq DOMAIN tree /\ k \in DOMAIN tree
         /\ k \in R <=> tree[k].spec + tree[k].unspec = 0
         /\ \A x \in DOMAIN tree \ {k} :
               x \in R <=> /\ tree[x].consumed
                           /\ tree[x].spec + tree[x].unspec = 1
                           /\ \E y \in R : tree[y].parent = x
<1> DEFINE t == Marked(tree, k)
<1>1. k \in DOMAIN tree /\ IsRemoval(t, k, R)
  BY DEF Consuming
<1>2. /\ DOMAIN t = DOMAIN tree
      /\ \A x \in DOMAIN tree :
           /\ t[x].parent = tree[x].parent
           /\ t[x].spec = tree[x].spec /\ t[x].unspec = tree[x].unspec
           /\ x # k => t[x].consumed = tree[x].consumed
  BY <1>1, MarkedFacts
<1> HIDE DEF t
<1> QED  BY SMTT(90), <1>1, <1>2 DEF IsRemoval

\* The deleted nodes form a path up from k.
LEMMA RemovalChain ==
  ASSUME IInv, NEW k, NEW s, NEW C, NEW R, Consuming(k, s, C, R),
         NEW d, IsDepth(d)
  PROVE  /\ k \notin R => R = {}
         /\ \A x \in R : x # k => d[x] < d[k]
         /\ \A x, y \in R : d[x] = d[y] => x = y
<1> DEFINE D == DOMAIN tree
           X == R \ {k}
           par == [x \in D |-> tree[x].parent]
<1>1. IsFiniteSet(D) /\ d \in [D -> Nat] /\ k \in D /\ R \subseteq D
  BY RemovalRule DEF IInv, IsDepth
<1>2. \A x \in X : \E y \in R : par[y] = x /\ d[y] = d[x] + 1
  BY SMTT(90), <1>1, RemovalRule, DepthOfChild
<1> HIDE DEF D, par
<1>3. k \notin R => R = {}
  <2> SUFFICES ASSUME k \notin R PROVE R = {}
    OBVIOUS
  <2>1. \A x \in R : \E y \in R : d[y] = d[x] + 1
    BY <1>2
  <2> QED  BY ONLY <1>1, <2>1, NoEndlessDescent
<1>4. IsChain(D, d, X, k, par)
  BY <1>1, <1>2 DEF IsChain
<1> HIDE DEF X
<1>5. /\ \A x \in X : d[x] < d[k]
      /\ \A x, y \in X : d[x] = d[y] => x = y
  BY <1>4, ChainIsLinear
<1>6. X \subseteq D
  BY <1>4 DEF IsChain
<1>7. \A x, y \in R : d[x] = d[y] => x = y
  BY SMTT(90), <1>1, <1>5, <1>6 DEF X
<1> QED  BY <1>3, <1>5, <1>7 DEF X

\* What catch_value empties is k, or the parent an unspecified k leaves.
IsSource(s, k) ==
    /\ s # NoNode => s \in DOMAIN tree /\ tree[s].kind # "Unspecified"
    /\ s # NoNode /\ s # k => s = tree[k].parent
    /\ tree[k].kind # "Unspecified" /\ tree[k].unspec = 0 => s = k
    /\ tree[k].kind = "Unspecified" =>
         /\ tree[k].parent \in DOMAIN tree
         /\ tree[tree[k].parent].consumed /\ tree[tree[k].parent].unspec = 1
               => s = tree[k].parent
         /\ s # k
    /\ s = k => tree[k].unspec = 0

\* CatchSource picks just that.
LEMMA SourceFacts ==
  ASSUME IInv, NEW k, NEW s, NEW C, NEW R, Consuming(k, s, C, R)
  PROVE  IsSource(s, k)
<1> DEFINE t == Marked(tree, k)
           p == tree[k].parent
<1>1. k \in DOMAIN tree /\ s = CatchSource(t, k)
  BY DEF Consuming
<1>2. \A x \in DOMAIN tree :
           /\ t[x].parent = tree[x].parent /\ t[x].kind = tree[x].kind
           /\ t[x].unspec = tree[x].unspec
           /\ x # k => t[x].consumed = tree[x].consumed
  BY <1>1, MarkedFacts
<1>3. NoNode \notin DOMAIN tree
  BY NodesAssumption DEF IInv, TypeOK
<1> HIDE DEF t
<1>4. CASE tree[k].kind # "Unspecified"
  <2>1. s = IF tree[k].kind # "Cut" /\ tree[k].unspec # 0 THEN NoNode ELSE k
    BY <1>1, <1>2, <1>4 DEF CatchSource
  <2>2. tree[k].kind = "Cut" => tree[k].unspec = 0
    <3>1. Children(tree, k, "Unspecified") = {} \/ tree[k].kind \in ParentKinds
      BY DEF IInv, Structure, ParentHoldsValue, LocalKinds, Children
    <3> QED  BY <1>1, <3>1, FS_EmptySet DEF IInv, Structure, RefsMatchChildren, ParentKinds
  <2> QED  BY <1>1, <1>3, <1>4, <2>1, <2>2 DEF IsSource
<1>5. CASE tree[k].kind = "Unspecified"
  <2>1. p \in DOMAIN tree /\ tree[p].kind \in ParentKinds
    BY <1>1, <1>5 DEF IInv, Structure, ParentHoldsValue, LocalKinds
  <2>2. p # k /\ tree[p].kind # "Unspecified"
    BY <1>5, <2>1 DEF ParentKinds
  <2>3. s = IF tree[p].consumed /\ tree[p].unspec = 1 THEN p ELSE NoNode
    BY ONLY SMTT(90), <1>1, <1>2, <1>5, <2>1, <2>2 DEF CatchSource
  <2> QED  BY <1>1, <1>3, <1>5, <2>1, <2>2, <2>3 DEF IsSource
<1> QED  BY <1>4, <1>5

\* A deleted node that still held value for an unspecified child held it for k,
\* and is then the one whose value is caught.
LEMMA RemovedHolder ==
  ASSUME IInv, NEW k, NEW s, NEW C, NEW R, Consuming(k, s, C, R),
         NEW x \in R, x # k, tree[x].unspec # 0
  PROVE  s = x
<1>1. /\ x \in DOMAIN tree /\ R \subseteq DOMAIN tree
      /\ tree[x].consumed /\ tree[x].spec + tree[x].unspec = 1
  BY RemovalRule
<1>2. PICK y \in R : tree[y].parent = x
  BY SMTT(90), RemovalRule
<1>3. tree[x].spec = 0 /\ tree[x].unspec = 1
  BY SMTT(90), <1>1 DEF IInv, TypeOK, GasNode
<1>4. tree[y].kind \in LocalKinds
  <2>1. x # NoNode
    BY <1>1, NodesAssumption DEF IInv, TypeOK
  <2> QED  BY <1>1, <1>2, <2>1 DEF IInv, Structure, ParentHoldsValue
<1>5. y \notin Children(tree, x, "Specified")
  <2>1. Children(tree, x, "Specified") \subseteq DOMAIN tree
    BY DEF Children
  <2>2. Cardinality(Children(tree, x, "Specified")) = 0
    BY <1>1, <1>3 DEF IInv, Structure, RefsMatchChildren
  <2>3. IsFiniteSet(Children(tree, x, "Specified"))
    BY <2>1, FS_Subset DEF IInv
  <2> QED  BY <2>2, <2>3, FS_EmptySet
<1>6. tree[y].kind = "Unspecified"
  BY <1>1, <1>2, <1>4, <1>5 DEF Children, LocalKinds
<1>7. y = k
  BY <1>6, RemovalKinds
<1> QED  BY SMTT(90), <1>1, <1>2, <1>3, <1>6, <1>7, SourceFacts DEF IsSource

\* The climbed nodes form a path up from s with at most one patron, which is
\* neither s nor k and is not deleted.
LEMMA PatronFacts ==
  ASSUME IInv, NEW k, NEW s, NEW C, NEW R, Consuming(k, s, C, R), s # NoNode,
         NEW p \in Patrons(Marked(tree, k), C)
  PROVE  /\ p \in DOMAIN tree /\ p # s /\ p # k /\ p \notin R
         /\ tree[p].kind \in ParentKinds
         /\ tree[p].consumed => tree[p].unspec # 0
         /\ \A q \in Patrons(Marked(tree, k), C) : q = p
<1> DEFINE D == DOMAIN tree
           t == Marked(tree, k)
           par == [x \in D |-> tree[x].parent]
<1>1. PICK d : IsDepth(d)
  BY DEF IInv, Structure, Ranked, IsDepth
<1>2. s \in D /\ k \in D /\ (s # k => s = tree[k].parent)
  BY SourceFacts DEF Consuming, IsSource
<1>3. /\ DOMAIN t = D
      /\ \A x \in D : /\ t[x].kind = tree[x].kind /\ t[x].parent = tree[x].parent
                      /\ t[x].unspec = tree[x].unspec
                      /\ x # k => t[x].consumed = tree[x].consumed
  BY <1>2, MarkedFacts
<1>4. IsClimb(t, s, C)
  BY DEF Consuming
<1> HIDE DEF t
<1>5. /\ C \subseteq D
      /\ \A x \in C : \E y \in C \cup {s} :
            tree[y].parent = x /\ (y = s \/ ~IsPatron(t[y]))
  BY SMTT(90), <1>2, <1>3, <1>4 DEF IsClimb
<1>6. /\ IsFiniteSet(D) /\ d \in [D -> Nat]
      /\ \A y \in D : tree[y].parent \in D => d[y] = d[tree[y].parent] + 1
  BY <1>1, DepthOfChild DEF IInv, IsDepth
<1>7. \A x \in C : \E y \in C \cup {s} :
            par[y] = x /\ d[y] = d[x] + 1 /\ (y = s \/ ~IsPatron(t[y]))
  BY SMTT(90), <1>2, <1>5, <1>6
<1> HIDE DEF par, D
<1>8. IsChain(D, d, C, s, par)
  BY <1>2, <1>5, <1>6, <1>7 DEF IsChain
<1>9. /\ \A x \in C : d[x] < d[s]
      /\ \A x, y \in C : d[x] = d[y] => x = y
  BY <1>8, ChainIsLinear
<1>10. ASSUME NEW q \in C, IsPatron(t[q]), NEW x \in C PROVE ~(d[x] < d[q])
  <2> DEFINE Y == {z \in C : d[z] < d[q]}
  <2>1. ASSUME NEW z \in Y PROVE \E y \in Y : d[y] = d[z] + 1
    <3>1. PICK y \in C \cup {s} : d[y] = d[z] + 1 /\ (y = s \/ ~IsPatron(t[y]))
      BY <1>7
    <3>2. d[y] \in Nat /\ d[q] \in Nat /\ d[s] \in Nat /\ d[z] \in Nat
      BY <1>2, <1>5, <1>6
    <3>3. y # s
      BY SMTT(90), <1>9, <3>1, <3>2
    <3>4. y # q
      BY <1>10, <3>1, <3>3
    <3> QED  BY SMTT(90), <1>9, <3>1, <3>2, <3>3, <3>4
  <2>2. Y \subseteq D
    BY <1>5
  <2> HIDE DEF Y
  <2>3. Y = {}
    BY <1>6, <2>1, <2>2, NoEndlessDescent
  <2> QED  BY <2>3 DEF Y
<1>11. p \in C /\ IsPatron(t[p])
  BY DEF Patrons, t
<1>12. \A q \in Patrons(t, C) : q = p
  <2> SUFFICES ASSUME NEW q \in C, IsPatron(t[q]) PROVE q = p
    BY DEF Patrons
  <2>1. ~(d[p] < d[q]) /\ ~(d[q] < d[p])
    BY <1>10, <1>11
  <2>2. d[p] \in Nat /\ d[q] \in Nat
    BY <1>5, <1>6, <1>11
  <2> QED  BY SMTT(90), <1>9, <1>11, <2>1, <2>2
<1>13. p \in D /\ p # s
  <2>1. d[p] < d[s] /\ d[s] \in Nat
    BY <1>2, <1>6, <1>9, <1>11
  <2> QED  BY SMTT(90), <1>5, <1>11, <2>1
<1>14. p # k
  <2>1. CASE s = k
    BY <1>13, <2>1
  <2>2. CASE s # k
    <3>1. d[k] = d[s] + 1 /\ d[p] < d[s]
      BY <1>2, <1>6, <1>9, <1>11, <2>2
    <3> QED  BY SMTT(90), <1>2, <1>6, <3>1
  <2> QED  BY <2>1, <2>2
<1>15. tree[p].kind \in ParentKinds /\ (tree[p].consumed => tree[p].unspec # 0)
  BY <1>3, <1>11, <1>13, <1>14 DEF IsPatron
<1>16. p \notin R
  <2> SUFFICES ASSUME p \in R PROVE FALSE
    OBVIOUS
  <2>1. tree[p].consumed
    BY <1>14, RemovalKinds
  <2> QED  BY SMTT(90), <1>13, <1>14, <1>15, <2>1, RemovedHolder
<1> QED  BY <1>12, <1>13, <1>14, <1>15, <1>16 DEF t, D

\* u is the tree after k is marked and the value of s is caught: only flags and
\* values differ, and only those that may.
IsCaught(u, k, s, P) ==
    /\ DOMAIN u = DOMAIN tree /\ u \in [DOMAIN tree -> GasNode]
    /\ \A x \in DOMAIN tree :
         /\ u[x].kind = tree[x].kind /\ u[x].parent = tree[x].parent
         /\ u[x].root = tree[x].root /\ u[x].origin = tree[x].origin
         /\ u[x].spec = tree[x].spec /\ u[x].unspec = tree[x].unspec
         /\ x # k => u[x].consumed = tree[x].consumed
         /\ \A r \in Slots \ {"value"} : u[x].held[r] = tree[x].held[r]
         /\ x # s /\ (s = NoNode \/ x \notin P)
               => u[x].held["value"] = tree[x].held["value"]
    /\ u[k].consumed = (tree[k].kind \in ParentKinds)
    /\ s # NoNode => u[s].held["value"] = 0
    /\ s # NoNode => \A x \in P \ {s} : u[x].held["value"]
                                          = tree[x].held["value"] + tree[s].held["value"]

\* Caught yields just that.
LEMMA CaughtFacts ==
  ASSUME IInv, NEW k, NEW s, NEW C, NEW R, Consuming(k, s, C, R)
  PROVE  IsCaught(Caught(Marked(tree, k), s, C), k, s, Patrons(Marked(tree, k), C))
<1> DEFINE t == Marked(tree, k)
           u == Caught(t, s, C)
           D == DOMAIN tree
<1>1. k \in D
  BY DEF Consuming
<1>2. /\ DOMAIN t = D /\ t \in [D -> GasNode]
      /\ \A x \in D :
           /\ t[x].kind = tree[x].kind /\ t[x].parent = tree[x].parent
           /\ t[x].root = tree[x].root /\ t[x].origin = tree[x].origin /\ t[x].held = tree[x].held
           /\ t[x].spec = tree[x].spec /\ t[x].unspec = tree[x].unspec
           /\ x # k => t[x].consumed = tree[x].consumed
      /\ t[k].consumed = (tree[k].kind \in ParentKinds)
  BY <1>1, MarkedFacts
<1> HIDE DEF t
<1>3. CASE s = NoNode
  <2>1. u = t
    BY <1>3 DEF Caught
  <2> HIDE DEF u
  <2>2. IsCaught(u, k, s, Patrons(t, C))
    BY <1>2, <1>3, <2>1 DEF IsCaught
  <2> QED  BY <2>2 DEF u, t
<1>4. CASE s # NoNode
  <2> DEFINE h == [x \in D |->
                     IF x = s THEN [t[x].held EXCEPT !["value"] = 0]
                     ELSE IF x \in Patrons(t, C)
                          THEN [t[x].held EXCEPT !["value"] = @ + t[s].held["value"]]
                          ELSE t[x].held]
  <2>1. s \in D /\ "value" \in Slots
    BY <1>4, SourceFacts DEF Slots, IsSource
  <2>2. \A x \in D : t[x].held \in [Slots -> Nat]
    BY <1>2 DEF GasNode
  <2>3. h \in [D -> [Slots -> Nat]]
    <3>1. ASSUME NEW x \in D PROVE h[x] \in [Slots -> Nat]
      BY SMTT(90), <2>1, <2>2
    <3> QED  BY <3>1
  <2>4. u = [x \in D |-> [t[x] EXCEPT !.held = h[x]]]
    <3>1. ASSUME NEW x \in D
          PROVE  (IF x = s THEN [t[x] EXCEPT !.held["value"] = 0]
                  ELSE IF x \in Patrons(t, C)
                       THEN [t[x] EXCEPT !.held["value"] = @ + t[s].held["value"]]
                       ELSE t[x])
                 = [t[x] EXCEPT !.held = h[x]]
      <4>1. [t[x] EXCEPT !.held = t[x].held] = t[x]
        BY <1>2 DEF GasNode
      <4> QED  BY <4>1
    <3> QED  BY <1>2, <1>4, <3>1, Zenon DEF Caught
  <2>5. \A x \in D : [t[x] EXCEPT !.held = h[x]] \in GasNode
    BY <1>2, <2>3, HeldType, Zenon
  <2>6. \A x \in D : \A r \in Slots \ {"value"} : h[x][r] = t[x].held[r]
    BY <2>1, <2>2
  <2>7. /\ h[s]["value"] = 0
        /\ \A x \in D : x # s /\ x \notin Patrons(t, C)
                           => h[x]["value"] = t[x].held["value"]
        /\ \A x \in D : x # s /\ x \in Patrons(t, C)
                           => h[x]["value"] = t[x].held["value"] + t[s].held["value"]
    BY <2>1, <2>2
  <2> HIDE DEF u, h
  <2>8. /\ DOMAIN u = D /\ u \in [D -> GasNode]
    BY <2>4, <2>5
  <2>9. \A x \in D :
           /\ u[x].kind = t[x].kind /\ u[x].parent = t[x].parent
           /\ u[x].root = t[x].root /\ u[x].origin = t[x].origin /\ u[x].held = h[x]
           /\ u[x].spec = t[x].spec /\ u[x].unspec = t[x].unspec
           /\ u[x].consumed = t[x].consumed
    BY SMTT(90), <1>2, <2>4 DEF GasNode
  <2>10. \A x \in D :
           /\ u[x].kind = tree[x].kind /\ u[x].parent = tree[x].parent
           /\ u[x].root = tree[x].root /\ u[x].origin = tree[x].origin
           /\ u[x].spec = tree[x].spec /\ u[x].unspec = tree[x].unspec
           /\ x # k => u[x].consumed = tree[x].consumed
           /\ \A r \in Slots \ {"value"} : u[x].held[r] = tree[x].held[r]
           /\ x # s /\ (s = NoNode \/ x \notin Patrons(t, C))
                 => u[x].held["value"] = tree[x].held["value"]
    BY SMTT(90), <1>2, <1>4, <2>6, <2>7, <2>9
  <2>11. u[k].consumed = (tree[k].kind \in ParentKinds)
    BY <1>1, <1>2, <2>9
  <2>12. u[s].held["value"] = 0
    BY <2>1, <2>7, <2>9
  <2>14. \A x \in Patrons(t, C) \ {s} : u[x].held["value"]
                                          = tree[x].held["value"] + tree[s].held["value"]
    <3>1. Patrons(t, C) \subseteq D
      BY <1>4, PatronFacts DEF t
    <3> QED  BY <1>2, <2>1, <2>7, <2>9, <3>1
  <2>13. IsCaught(u, k, s, Patrons(t, C))
    BY <1>4, <2>8, <2>10, <2>11, <2>12, <2>14 DEF IsCaught
  <2> QED  BY <2>13 DEF u, t
<1> QED  BY <1>3, <1>4

\* What leaves the tree is what consume hands back to the origin.
LEMMA CaughtGas ==
  ASSUME IInv, NEW k, NEW s, NEW C, NEW R, Consuming(k, s, C, R)
  PROVE  LET t == Marked(tree, k)
             u == Caught(t, s, C)
         IN  /\ CaughtValue(t, s, C) \in Nat
             /\ GasIn(u) \in Nat /\ GasIn(tree) \in Nat
             /\ GasIn(u) + CaughtValue(t, s, C) = GasIn(tree)
<1> DEFINE t == Marked(tree, k)
           u == Caught(t, s, C)
           D == DOMAIN tree
           v == t[s].held["value"]
           w == Debit(t, s, "value", v)
<1>1. k \in D /\ IsFiniteSet(D) /\ "value" \in Slots
  BY DEF Consuming, IInv, Slots
<1>2. /\ DOMAIN t = D /\ t \in [D -> GasNode]
      /\ \A x \in D : t[x].held = tree[x].held
  BY <1>1, MarkedFacts
<1> HIDE DEF t
<1>3. GasIn(t) = GasIn(tree)
  BY <1>2, GasInSame
<1>4. GasIn(t) \in Nat
  <2>1. GasOf(t) \in [D -> Nat]
    BY <1>2, GasOfType
  <2> QED  BY <1>1, <2>1, SumType DEF GasIn
<1>5. CASE s = NoNode
  <2>1. u = t /\ CaughtValue(t, s, C) = 0
    BY <1>5 DEF Caught, CaughtValue
  <2> HIDE DEF u
  <2>2. GasIn(u) + CaughtValue(t, s, C) = GasIn(tree)
    BY SMTT(90), <1>3, <1>4, <2>1
  <2> QED  BY SMTT(90), <1>3, <1>4, <2>1, <2>2 DEF u, t
<1>6. CASE s # NoNode
  <2>1. s \in D /\ t[s].held \in [Slots -> Nat] /\ v \in Nat
    BY SMTT(90), <1>1, <1>2, <1>6, SourceFacts DEF GasNode, IsSource
  <2>2. w \in [D -> GasNode] /\ GasIn(w) + v = GasIn(t)
    BY SMTT(90), <1>1, <1>2, <2>1, DebitGas
  <2>3. GasIn(w) \in Nat
    <3>1. GasOf(w) \in [D -> Nat]
      BY <2>2, GasOfType
    <3> QED  BY <1>1, <3>1, SumType DEF GasIn
  <2>4. \A x \in D : w[x].held = IF x = s THEN [t[x].held EXCEPT !["value"] = 0]
                                 ELSE t[x].held
    BY SMTT(90), <1>2, <2>1 DEF Debit, GasNode
  <2>5. /\ DOMAIN u = D
        /\ \A x \in D : u[x].held =
              IF x = s THEN [t[x].held EXCEPT !["value"] = 0]
              ELSE IF x \in Patrons(t, C) THEN [t[x].held EXCEPT !["value"] = @ + v]
              ELSE t[x].held
    BY <1>2, <1>6, <2>1 DEF Caught, GasNode
  <2> HIDE DEF u, w, v
  <2>6. CASE Patrons(t, C) = {}
    <3>1. DOMAIN w = D /\ \A x \in D : u[x].held = w[x].held
      BY <2>2, <2>4, <2>5, <2>6, Zenon
    <3>2. GasIn(u) = GasIn(w)
      BY <2>5, <3>1, GasInSame
    <3>3. CaughtValue(t, s, C) = v
      BY <1>6, <2>6 DEF CaughtValue, v
    <3>4. /\ CaughtValue(t, s, C) \in Nat
          /\ GasIn(u) \in Nat /\ GasIn(tree) \in Nat
          /\ GasIn(u) + CaughtValue(t, s, C) = GasIn(tree)
      BY <1>3, <1>4, <2>1, <2>2, <2>3, <3>2, <3>3
    <3> QED  BY <3>4 DEF u, t
  <2>7. CASE Patrons(t, C) # {}
    <3>1. PICK p : p \in Patrons(t, C)
      BY <2>7
    <3>2. p \in D /\ p # s /\ Patrons(t, C) = {p}
      BY SMTT(90), <1>6, <3>1, PatronFacts DEF t
    <3> DEFINE z == Credit(w, p, "value", v)
    <3>3. z \in [D -> GasNode] /\ GasIn(z) = GasIn(w) + v
      BY SMTT(90), <1>1, <2>1, <2>2, <3>2, CreditGas
    <3>4. \A x \in D : z[x].held = IF x = p THEN [w[x].held EXCEPT !["value"] = @ + v]
                                   ELSE w[x].held
      BY <2>2, <3>2 DEF Credit, GasNode
    <3> HIDE DEF z
    <3>5. DOMAIN z = D /\ \A x \in D : u[x].held = z[x].held
      <4>1. DOMAIN z = D
        BY <3>3
      <4>2. ASSUME NEW x \in D PROVE u[x].held = z[x].held
        <5>1. CASE x = p
          <6>1. u[p].held = [t[p].held EXCEPT !["value"] = @ + v]
            BY <2>5, <3>2, Zenon
          <6>2. w[p].held = t[p].held
            BY <2>4, <3>2, Zenon
          <6>3. z[p].held = [w[p].held EXCEPT !["value"] = @ + v]
            BY <3>2, <3>4
          <6> QED  BY <5>1, <6>1, <6>2, <6>3
        <5>2. CASE x # p
          BY <2>4, <2>5, <3>2, <3>4, <5>2, Zenon
        <5> QED  BY <5>1, <5>2
      <4> QED  BY <4>1, <4>2
    <3>6. GasIn(u) = GasIn(z)
      BY <2>5, <3>5, GasInSame
    <3>7. CaughtValue(t, s, C) = 0
      BY <1>6, <2>7 DEF CaughtValue
    <3>8. /\ CaughtValue(t, s, C) \in Nat
          /\ GasIn(u) \in Nat /\ GasIn(tree) \in Nat
          /\ GasIn(u) + CaughtValue(t, s, C) = GasIn(tree)
      BY SMTT(90), <1>3, <1>4, <2>1, <2>2, <2>3, <3>3, <3>6, <3>7
    <3> QED  BY <3>8 DEF u, t
  <2> QED  BY <2>6, <2>7
<1> QED  BY <1>5, <1>6

\* A deleted node holds nothing when it goes.
LEMMA RemovedIsEmpty ==
  ASSUME IInv, NEW k, NEW s, NEW C, NEW R, Consuming(k, s, C, R), NEW x \in R,
         NEW r \in Slots
  PROVE  Caught(Marked(tree, k), s, C)[x].held[r] = 0
<1> DEFINE t == Marked(tree, k)
           u == Caught(t, s, C)
<1>1. /\ x \in DOMAIN tree /\ k \in DOMAIN tree
      /\ (x # k => tree[x].consumed)
  BY RemovalRule, RemovalKinds
<1>2. /\ \A i \in Slots \ {"value"} : u[x].held[i] = tree[x].held[i]
      /\ x # s => u[x].held["value"] = tree[x].held["value"]
      /\ s # NoNode => u[s].held["value"] = 0
  <2>1. s # NoNode => x \notin Patrons(t, C)
    BY PatronFacts
  <2>2. IsCaught(u, k, s, Patrons(t, C))
    BY CaughtFacts
  <2> HIDE DEF u, t
  <2> QED  BY <1>1, <2>1, <2>2 DEF IsCaught
<1> HIDE DEF u, t
<1>3. s = x => s # NoNode
  BY <1>1, NodesAssumption DEF IInv, TypeOK
<1>4. CASE x # k
  <2>1. \A i \in Slots \ {"value"} : u[x].held[i] = 0
    BY <1>1, <1>2, <1>4 DEF IInv, ConsumedIsDrained
  <2>2. CASE tree[x].unspec = 0
    BY <1>1, <1>2, <1>3, <1>4, <2>1, <2>2 DEF IInv, ConsumedIsDrained, u, t
  <2>3. CASE tree[x].unspec # 0
    BY SMTT(90), <1>2, <1>3, <1>4, <2>1, <2>3, RemovedHolder DEF u, t
  <2> QED  BY <2>2, <2>3
<1>5. CASE x = k
  <2>1. \A i \in Slots \ {"value"} : tree[k].held[i] = 0
    BY DEF Consuming, Slots
  <2>2. tree[k].unspec = 0
    BY SMTT(90), <1>1, <1>5, RemovalRule DEF IInv, TypeOK, GasNode
  <2>3. CASE tree[k].kind = "Unspecified"
    <3>1. tree[k].held["value"] = 0 /\ s # k
      BY <1>1, <2>3, SourceFacts DEF IInv, Shaped, IsSource
    <3> QED  BY <1>2, <1>5, <2>1, <3>1 DEF u, t
  <2>4. CASE tree[k].kind # "Unspecified"
    <3>1. s = k
      BY <2>2, <2>4, SourceFacts DEF IsSource
    <3> QED  BY <1>2, <1>3, <1>5, <2>1, <3>1 DEF u, t
  <2> QED  BY <2>3, <2>4
<1> QED  BY <1>4, <1>5

\* The children of x of one kind that are deleted.
Gone(R, x, kind) == {y \in R : tree[y].parent = x /\ tree[y].kind = kind}

\* At most one child of a node is deleted; an unspecified one is k.
LEMMA GoneFacts ==
  ASSUME IInv, NEW k, NEW s, NEW C, NEW R, Consuming(k, s, C, R),
         NEW x \in DOMAIN tree
  PROVE  LET a == Cardinality(Gone(R, x, "Specified"))
             b == Cardinality(Gone(R, x, "Unspecified"))
         IN  /\ IsFiniteSet(Gone(R, x, "Specified"))
             /\ IsFiniteSet(Gone(R, x, "Unspecified"))
             /\ a \in Nat /\ b \in Nat /\ a + b <= 1
             /\ a <= tree[x].spec /\ b <= tree[x].unspec
             /\ (\A y \in R : tree[y].parent # x) => a = 0 /\ b = 0
             /\ b # 0 => /\ k \in R /\ tree[k].parent = x
                         /\ tree[k].kind = "Unspecified"
<1> DEFINE A == Gone(R, x, "Specified")
           B == Gone(R, x, "Unspecified")
           AC == Children(tree, x, "Specified")
           BC == Children(tree, x, "Unspecified")
<1>1. PICK d : IsDepth(d)
  BY DEF IInv, Structure, Ranked, IsDepth
<1>2. R \subseteq DOMAIN tree
  BY RemovalRule
<1>3. A \subseteq AC /\ B \subseteq BC
  BY <1>2 DEF Gone, Children
<1>4. IsFiniteSet(AC) /\ IsFiniteSet(BC)
  <2>1. AC \subseteq DOMAIN tree /\ BC \subseteq DOMAIN tree
    BY DEF Children
  <2> HIDE DEF AC, BC
  <2> QED  BY <2>1, FS_Subset DEF IInv
<1>5. Cardinality(AC) = tree[x].spec /\ Cardinality(BC) = tree[x].unspec
  BY DEF IInv, Structure, RefsMatchChildren
<1>6. \A y, z \in R : tree[y].parent = x /\ tree[z].parent = x => y = z
  <2> SUFFICES ASSUME NEW y \in R, NEW z \in R, tree[y].parent = x, tree[z].parent = x
               PROVE  y = z
    OBVIOUS
  <2>1. d[y] = d[x] + 1 /\ d[z] = d[x] + 1
    BY <1>1, <1>2, DepthOfChild
  <2> QED  BY <1>1, <2>1, RemovalChain
<1>7. IsFiniteSet(A) /\ IsFiniteSet(B)
  <2> HIDE DEF A, B, AC, BC
  <2> QED  BY <1>3, <1>4, FS_Subset
<1>8. Cardinality(A) \in Nat /\ Cardinality(B) \in Nat
  BY <1>7, FS_CardinalityType
<1>9. Cardinality(A) <= tree[x].spec /\ Cardinality(B) <= tree[x].unspec
  <2> HIDE DEF A, B, AC, BC
  <2> QED  BY <1>3, <1>4, <1>5, FS_Subset
<1>10. (\A y \in R : tree[y].parent # x) => Cardinality(A) = 0 /\ Cardinality(B) = 0
  BY FS_EmptySet DEF Gone
<1>11. Cardinality(B) # 0 => k \in R /\ tree[k].parent = x /\ tree[k].kind = "Unspecified"
  <2> SUFFICES ASSUME Cardinality(B) # 0
               PROVE  k \in R /\ tree[k].parent = x /\ tree[k].kind = "Unspecified"
    OBVIOUS
  <2>1. B # {}
    BY FS_EmptySet
  <2>2. PICK y \in R : tree[y].parent = x /\ tree[y].kind = "Unspecified"
    BY <2>1 DEF Gone
  <2> QED  BY SMTT(90), <2>2, RemovalKinds
<1>12. Cardinality(A) + Cardinality(B) <= 1
  <2>1. CASE \E y \in R : tree[y].parent = x
    <3>1. PICK y \in R : tree[y].parent = x
      BY <2>1
    <3>2. (A \subseteq {y} /\ B = {}) \/ (B \subseteq {y} /\ A = {})
      BY <1>6, <3>1 DEF Gone
    <3>3. IsFiniteSet({y}) /\ Cardinality({y}) = 1 /\ Cardinality({}) = 0
      BY FS_Singleton, FS_EmptySet, Zenon
    <3> HIDE DEF A, B
    <3>4. \A S \in SUBSET {y} : Cardinality(S) <= 1
      BY <3>3, FS_Subset
    <3>5. CASE A \subseteq {y} /\ B = {}
      <4>1. Cardinality(A) <= 1 /\ Cardinality(B) = 0
        BY <3>3, <3>4, <3>5
      <4> QED  BY SMTT(90), <1>8, <4>1
    <3>6. CASE B \subseteq {y} /\ A = {}
      <4>1. Cardinality(B) <= 1 /\ Cardinality(A) = 0
        BY <3>3, <3>4, <3>6
      <4> QED  BY SMTT(90), <1>8, <4>1
    <3> QED  BY <3>2, <3>5, <3>6
  <2>2. CASE \A y \in R : tree[y].parent # x
    BY SMTT(90), <1>10, <2>2
  <2> QED  BY <2>1, <2>2
<1> QED  BY <1>7, <1>8, <1>9, <1>10, <1>11, <1>12

\* What is left of u when R is deleted: the other nodes, with their counters.
LeavesOf(u, R) ==
    /\ DOMAIN tree' = DOMAIN tree \ R
    /\ tree' \in [DOMAIN tree \ R -> GasNode]
    /\ \A x \in DOMAIN tree \ R :
         /\ tree'[x].kind = tree[x].kind /\ tree'[x].parent = tree[x].parent
         /\ tree'[x].root = tree[x].root /\ tree'[x].origin = tree[x].origin
         /\ tree'[x].held = u[x].held /\ tree'[x].consumed = u[x].consumed
         /\ tree'[x].spec = tree[x].spec - Cardinality(Gone(R, x, "Specified"))
         /\ tree'[x].unspec = tree[x].unspec - Cardinality(Gone(R, x, "Unspecified"))

\* Pruned leaves just that.
LEMMA PrunedFacts ==
  ASSUME IInv, NEW k, NEW s, NEW C, NEW R, Consuming(k, s, C, R),
         tree' = Pruned(Caught(Marked(tree, k), s, C), R)
  PROVE  LeavesOf(Caught(Marked(tree, k), s, C), R)
<1> DEFINE u == Caught(Marked(tree, k), s, C)
           E == DOMAIN tree \ R
           f == [x \in E |-> tree[x].spec - Cardinality(Gone(R, x, "Specified"))]
           g == [x \in E |-> tree[x].unspec - Cardinality(Gone(R, x, "Unspecified"))]
<1>1. /\ DOMAIN u = DOMAIN tree /\ u \in [DOMAIN tree -> GasNode]
      /\ \A x \in DOMAIN tree :
           /\ u[x].kind = tree[x].kind /\ u[x].parent = tree[x].parent
           /\ u[x].root = tree[x].root /\ u[x].origin = tree[x].origin
           /\ u[x].spec = tree[x].spec /\ u[x].unspec = tree[x].unspec
  <2>1. IsCaught(u, k, s, Patrons(Marked(tree, k), C))
    BY CaughtFacts
  <2> HIDE DEF u
  <2> QED  BY <2>1 DEF IsCaught
<1>2. R \subseteq DOMAIN tree
  BY RemovalRule
<1> HIDE DEF u
<1>3. \A x, kind : {y \in R : u[y].parent = x /\ u[y].kind = kind} = Gone(R, x, kind)
  BY <1>1, <1>2 DEF Gone
<1>4. tree' = [x \in E |-> [u[x] EXCEPT !.spec = f[x], !.unspec = g[x]]]
  <2>1. tree' = Pruned(u, R)
    BY DEF u
  <2>2. tree' = [x \in DOMAIN u \ R |->
                   [u[x] EXCEPT !.spec = u[x].spec
                                  - Cardinality({y \in R : u[y].parent = x /\ u[y].kind = "Specified"}),
                                !.unspec = u[x].unspec
                                  - Cardinality({y \in R : u[y].parent = x /\ u[y].kind = "Unspecified"})]]
    BY <2>1, Zenon DEF Pruned
  <2>3. \A x \in E :
          /\ f[x] = u[x].spec
                - Cardinality({y \in R : u[y].parent = x /\ u[y].kind = "Specified"})
          /\ g[x] = u[x].unspec
                - Cardinality({y \in R : u[y].parent = x /\ u[y].kind = "Unspecified"})
    BY <1>1, <1>3, Zenon
  <2> HIDE DEF f, g
  <2> QED  BY <1>1, <2>2, <2>3, Zenon
<1>5. \A x \in E : f[x] \in Nat /\ g[x] \in Nat
  <2> SUFFICES ASSUME NEW x \in E PROVE f[x] \in Nat /\ g[x] \in Nat
    OBVIOUS
  <2>1. tree[x].spec \in Nat /\ tree[x].unspec \in Nat
    BY DEF IInv, TypeOK, GasNode
  <2>2. /\ Cardinality(Gone(R, x, "Specified")) \in Nat
        /\ Cardinality(Gone(R, x, "Unspecified")) \in Nat
        /\ Cardinality(Gone(R, x, "Specified")) <= tree[x].spec
        /\ Cardinality(Gone(R, x, "Unspecified")) <= tree[x].unspec
    BY GoneFacts
  <2> QED  BY SMTT(90), <2>1, <2>2
<1>6. \A x \in E : /\ f[x] = tree[x].spec - Cardinality(Gone(R, x, "Specified"))
                   /\ g[x] = tree[x].unspec - Cardinality(Gone(R, x, "Unspecified"))
  OBVIOUS
<1> HIDE DEF f, g
<1>7. \A x \in E : [u[x] EXCEPT !.spec = f[x], !.unspec = g[x]] \in GasNode
  <2> SUFFICES ASSUME NEW x \in E, NEW a \in Nat, NEW b \in Nat
               PROVE  [u[x] EXCEPT !.spec = a, !.unspec = b] \in GasNode
    BY <1>5, Zenon
  <2>1. u[x] \in GasNode
    BY <1>1
  <2> QED  BY <2>1, Zenon DEF GasNode
<1>8. DOMAIN tree' = E /\ tree' \in [E -> GasNode]
  BY <1>4, <1>7, Zenon
<1>9. \A x \in E :
         /\ tree'[x].kind = u[x].kind /\ tree'[x].parent = u[x].parent
         /\ tree'[x].root = u[x].root /\ tree'[x].origin = u[x].origin /\ tree'[x].held = u[x].held
         /\ tree'[x].consumed = u[x].consumed
         /\ tree'[x].spec = f[x] /\ tree'[x].unspec = g[x]
  <2> SUFFICES ASSUME NEW x \in E
               PROVE  /\ tree'[x].kind = u[x].kind /\ tree'[x].parent = u[x].parent
                      /\ tree'[x].root = u[x].root /\ tree'[x].origin = u[x].origin /\ tree'[x].held = u[x].held
                      /\ tree'[x].consumed = u[x].consumed
                      /\ tree'[x].spec = f[x] /\ tree'[x].unspec = g[x]
    OBVIOUS
  <2>1. tree'[x] = [u[x] EXCEPT !.spec = f[x], !.unspec = g[x]]
    BY <1>4, Zenon
  <2>2. u[x] \in GasNode
    BY <1>1
  <2> QED  BY ONLY <2>1, <2>2 DEF GasNode
<1> HIDE DEF E
<1>10. \A x \in E :
         /\ tree'[x].kind = tree[x].kind /\ tree'[x].parent = tree[x].parent
         /\ tree'[x].root = tree[x].root /\ tree'[x].origin = tree[x].origin
         /\ tree'[x].held = u[x].held /\ tree'[x].consumed = u[x].consumed
         /\ tree'[x].spec = tree[x].spec - Cardinality(Gone(R, x, "Specified"))
         /\ tree'[x].unspec = tree[x].unspec - Cardinality(Gone(R, x, "Unspecified"))
  <2>1. E \subseteq DOMAIN tree
    BY DEF E
  <2> QED  BY ONLY SMTT(90), <1>1, <1>6, <1>9, <2>1
<1>11. LeavesOf(u, R)
  BY ONLY <1>8, <1>10 DEF LeavesOf, E
<1> QED  BY <1>11 DEF u

\* Consume keeps the structure.
LEMMA ConsumeStructure ==
  ASSUME IInv, NEW k, NEW s, NEW C, NEW R, Consuming(k, s, C, R),
         tree' = Pruned(Caught(Marked(tree, k), s, C), R)
  PROVE  Structure'
<1> DEFINE u == Caught(Marked(tree, k), s, C)
           E == DOMAIN tree \ R
           a(x) == Cardinality(Gone(R, x, "Specified"))
           b(x) == Cardinality(Gone(R, x, "Unspecified"))
<1>1. /\ DOMAIN tree' = E
      /\ \A x \in E :
           /\ tree'[x].kind = tree[x].kind /\ tree'[x].parent = tree[x].parent
           /\ tree'[x].root = tree[x].root
           /\ tree'[x].spec = tree[x].spec - a(x)
           /\ tree'[x].unspec = tree[x].unspec - b(x)
           /\ x # k => tree'[x].consumed = tree[x].consumed
  <2>0. LeavesOf(u, R)
    BY PrunedFacts
  <2>1. /\ DOMAIN tree' = DOMAIN tree \ R
        /\ \A x \in DOMAIN tree \ R :
             /\ tree'[x].kind = tree[x].kind /\ tree'[x].parent = tree[x].parent
             /\ tree'[x].root = tree[x].root /\ tree'[x].consumed = u[x].consumed
             /\ tree'[x].spec = tree[x].spec - Cardinality(Gone(R, x, "Specified"))
             /\ tree'[x].unspec = tree[x].unspec - Cardinality(Gone(R, x, "Unspecified"))
    BY ONLY <2>0 DEF LeavesOf
  <2>2. \A x \in DOMAIN tree : x # k => u[x].consumed = tree[x].consumed
    <3>1. IsCaught(u, k, s, Patrons(Marked(tree, k), C))
      BY CaughtFacts
    <3> HIDE DEF u
    <3> QED  BY <3>1 DEF IsCaught
  <2> HIDE DEF u
  <2> QED  BY <2>1, <2>2
<1>2. \A x \in DOMAIN tree : tree[x].parent \in R => x \in R
  BY RemovalClosed
<1>3. R \subseteq DOMAIN tree /\ k \in DOMAIN tree
  BY RemovalRule
<1>4. PICK d : IsDepth(d)
  BY DEF IInv, Structure, Ranked, IsDepth
<1>5. NoNode \notin DOMAIN tree
  BY NodesAssumption DEF IInv, TypeOK
<1>6. ParentHoldsValue'
  <2> SUFFICES ASSUME NEW x \in E
               PROVE  IF tree[x].kind \in LocalKinds
                      THEN /\ tree[x].parent \in E
                           /\ tree'[tree[x].parent].kind \in ParentKinds
                      ELSE tree[x].parent = NoNode
    BY <1>1 DEF ParentHoldsValue
  <2>1. IF tree[x].kind \in LocalKinds
        THEN /\ tree[x].parent \in DOMAIN tree
             /\ tree[tree[x].parent].kind \in ParentKinds
        ELSE tree[x].parent = NoNode
    BY DEF IInv, Structure, ParentHoldsValue
  <2>2. tree[x].parent \notin R
    BY <1>2
  <2> QED  BY <1>1, <2>1, <2>2
<1>7. RefsMatchChildren'
  <2> SUFFICES ASSUME NEW x \in E
               PROVE  /\ tree'[x].spec = Cardinality(Children(tree', x, "Specified"))
                      /\ tree'[x].unspec = Cardinality(Children(tree', x, "Unspecified"))
    BY <1>1 DEF RefsMatchChildren
  <2>1. ASSUME NEW kind
        PROVE  Cardinality(Children(tree', x, kind)) =
                 Cardinality(Children(tree, x, kind)) - Cardinality(Gone(R, x, kind))
    <3> DEFINE Ch == Children(tree, x, kind)
    <3>1. Ch \subseteq DOMAIN tree
      BY DEF Children
    <3>2. Children(tree', x, kind) = Ch \ R
      BY <1>1 DEF Children
    <3>3. Ch \cap R = Gone(R, x, kind)
      BY <1>3 DEF Children, Gone
    <3> HIDE DEF Ch
    <3>4. IsFiniteSet(Ch)
      BY <3>1, FS_Subset DEF IInv
    <3>5. Cardinality(Ch \ R) = Cardinality(Ch) - Cardinality(Ch \cap R)
      BY <3>4, FS_Difference
    <3> QED  BY <3>2, <3>3, <3>5 DEF Ch
  <2>2. /\ tree[x].spec = Cardinality(Children(tree, x, "Specified"))
        /\ tree[x].unspec = Cardinality(Children(tree, x, "Unspecified"))
    BY DEF IInv, Structure, RefsMatchChildren
  <2> QED  BY <1>1, <2>1, <2>2
<1>8. NoConsumedLeaf'
  <2> SUFFICES ASSUME NEW x \in E, tree'[x].consumed
               PROVE  tree'[x].spec + tree'[x].unspec > 0
    BY <1>1 DEF NoConsumedLeaf
  <2>1. /\ a(x) \in Nat /\ b(x) \in Nat /\ a(x) + b(x) <= 1
        /\ (\A y \in R : tree[y].parent # x) => a(x) = 0 /\ b(x) = 0
    BY GoneFacts
  <2>2. tree[x].spec \in Nat /\ tree[x].unspec \in Nat
    BY DEF IInv, TypeOK, GasNode
  <2>3. /\ tree'[x].spec = tree[x].spec - a(x)
        /\ tree'[x].unspec = tree[x].unspec - b(x)
    BY <1>1
  <2> HIDE DEF a, b
  <2>4. CASE x = k
    <3>1. R = {}
      BY <1>4, <2>4, RemovalChain
    <3>2. tree[x].spec + tree[x].unspec # 0
      BY <2>4, RemovalRule
    <3> QED  BY SMTT(90), <2>1, <2>2, <2>3, <3>1, <3>2
  <2>5. CASE x # k
    <3>1. tree[x].consumed
      BY <1>1, <2>5
    <3>2. tree[x].spec + tree[x].unspec > 0
      BY <3>1 DEF IInv, Structure, NoConsumedLeaf
    <3>3. (\E y \in R : tree[y].parent = x) => tree[x].spec + tree[x].unspec # 1
      BY <2>5, <3>1, RemovalRule
    <3>4. CASE \E y \in R : tree[y].parent = x
      BY SMTT(90), <2>1, <2>2, <2>3, <3>2, <3>3, <3>4
    <3>5. CASE \A y \in R : tree[y].parent # x
      BY SMTT(90), <2>1, <2>2, <2>3, <3>2, <3>5
    <3> QED  BY <3>4, <3>5
  <2> QED  BY <2>4, <2>5
<1>9. Ranked'
  <2> DEFINE e == [x \in E |-> d[x]]
  <2>1. e \in [DOMAIN tree' -> Nat]
    BY <1>1, <1>4 DEF IsDepth
  <2>2. ASSUME NEW x \in DOMAIN tree', tree'[x].kind \in LocalKinds
        PROVE  e[x] = e[tree'[x].parent] + 1
    <3>1. tree[x].parent \in E
      BY <1>1, <1>6, <2>2 DEF ParentHoldsValue
    <3> QED  BY <1>1, <1>4, <2>2, <3>1 DEF IsDepth
  <2> HIDE DEF e
  <2> QED  BY <2>1, <2>2 DEF Ranked
<1>10. \A x \in E : tree[x].kind \in LocalKinds => tree[x].root \notin R
  <2> DEFINE Y == {x \in E : tree[x].kind \in LocalKinds /\ tree[x].root \in R}
  <2>1. ASSUME NEW x \in Y PROVE \E y \in Y : d[y] < d[x]
    <3> DEFINE p == tree[x].parent
    <3>1. p \in E /\ tree[p].kind \in ParentKinds /\ d[x] = d[p] + 1
      <4>1. /\ tree[x].parent \in DOMAIN tree
            /\ tree[tree[x].parent].kind \in ParentKinds
        BY DEF IInv, Structure, ParentHoldsValue
      <4>2. d[x] = d[p] + 1
        BY <1>4 DEF IsDepth
      <4> QED  BY <1>2, <4>1, <4>2
    <3>2. tree[x].root = RootOf(tree, p)
      BY DEF IInv, Structure, RootOutlivesDescendants
    <3>3. tree[p].kind \in LocalKinds
      <4> SUFFICES ASSUME tree[p].kind \notin LocalKinds PROVE FALSE
        OBVIOUS
      <4>1. tree[p].root = NoNode
        BY <3>1 DEF IInv, Structure, RootOutlivesDescendants
      <4> QED  BY <3>1, <3>2, <4>1 DEF RootOf
    <3>4. tree[p].root \in DOMAIN tree
      BY <3>1, <3>3 DEF IInv, Structure, RootOutlivesDescendants
    <3>5. p \in Y
      BY <1>5, <3>1, <3>2, <3>3, <3>4 DEF RootOf
    <3>6. d[x] \in Nat /\ d[p] \in Nat
      BY <1>4, <3>1 DEF IsDepth
    <3> QED  BY SMTT(90), <3>1, <3>5, <3>6
  <2>2. Y \subseteq DOMAIN tree /\ d \in [DOMAIN tree -> Nat]
    BY <1>4 DEF IsDepth
  <2> HIDE DEF Y
  <2>3. Y = {}
    <3> SUFFICES ASSUME Y # {} PROVE FALSE
      OBVIOUS
    <3>1. PICK x \in Y : \A y \in Y : d[x] <= d[y]
      BY <2>2, LowestExists
    <3>2. PICK y \in Y : d[y] < d[x]
      BY <2>1
    <3> QED  BY SMTT(90), <2>2, <3>1, <3>2
  <2> QED  BY <2>3 DEF Y
<1>11. RootOutlivesDescendants'
  <2>1. \A x \in E : RootOf(tree', x) = RootOf(tree, x)
    BY <1>1 DEF RootOf
  <2> SUFFICES ASSUME NEW x \in E
               PROVE  IF tree[x].kind \in LocalKinds
                      THEN /\ tree[x].root \in E
                           /\ tree'[tree[x].root].kind \in RootKinds
                           /\ tree[x].root = RootOf(tree', tree[x].parent)
                      ELSE tree[x].root = NoNode
    BY <1>1 DEF RootOutlivesDescendants
  <2>2. IF tree[x].kind \in LocalKinds
        THEN /\ tree[x].root \in DOMAIN tree
             /\ tree[tree[x].root].kind \in RootKinds
             /\ tree[x].root = RootOf(tree, tree[x].parent)
        ELSE tree[x].root = NoNode
    BY DEF IInv, Structure, RootOutlivesDescendants
  <2>3. tree[x].kind \in LocalKinds => tree[x].parent \in E
    BY <1>2 DEF IInv, Structure, ParentHoldsValue
  <2>4. tree[x].kind \in LocalKinds => tree[x].root \in E
    BY <1>10, <2>2
  <2> QED  BY <1>1, <2>1, <2>2, <2>3, <2>4
<1> QED  BY <1>6, <1>7, <1>8, <1>9, <1>11 DEF Structure

\* Consume keeps the invariant.
LEMMA ConsumeStep ==
  ASSUME IInv, NEW k \in NodeIds, Consume(k)
  PROVE  IInv'
<1> DEFINE t == Marked(tree, k)
           s == CatchSource(t, k)
           D == DOMAIN tree
<1>1. PICK C, R : /\ Consuming(k, s, C, R)
                  /\ tree' = Pruned(Caught(t, s, C), R)
                  /\ total' = total - CaughtValue(t, s, C)
  BY DEF Consume, Consuming
<1> DEFINE u == Caught(t, s, C)
<1>2. LeavesOf(u, R)
  BY <1>1, PrunedFacts
<1>3. R \subseteq D /\ k \in D
  BY <1>1, RemovalRule
<1>4. /\ u \in [D -> GasNode]
      /\ \A x \in D :
            /\ u[x].kind = tree[x].kind
            /\ x # k => u[x].consumed = tree[x].consumed
            /\ \A r \in Slots \ {"value"} : u[x].held[r] = tree[x].held[r]
            /\ x # s /\ (s = NoNode \/ x \notin Patrons(t, C))
                  => u[x].held["value"] = tree[x].held["value"]
      /\ u[k].consumed = (tree[k].kind \in ParentKinds)
      /\ s # NoNode => u[s].held["value"] = 0
  <2>1. IsCaught(u, k, s, Patrons(t, C))
    BY <1>1, CaughtFacts
  <2> HIDE DEF u, t, s
  <2> QED  BY <1>3, <2>1 DEF IsCaught
<1>5. ASSUME NEW x \in R, NEW r \in Slots PROVE u[x].held[r] = 0
  BY SMTT(90), <1>1, RemovedIsEmpty
<1>6. /\ CaughtValue(t, s, C) \in Nat /\ GasIn(u) \in Nat
      /\ GasIn(tree) \in Nat /\ GasIn(u) + CaughtValue(t, s, C) = GasIn(tree)
  BY <1>1, CaughtGas
<1>7. Structure'
  BY <1>1, ConsumeStructure
<1> HIDE DEF u
<1>8. /\ DOMAIN tree' = D \ R /\ tree' \in [D \ R -> GasNode]
      /\ \A x \in D \ R :
           /\ tree'[x].kind = tree[x].kind
           /\ tree'[x].held = u[x].held /\ tree'[x].consumed = u[x].consumed
           /\ tree'[x].unspec = tree[x].unspec - Cardinality(Gone(R, x, "Unspecified"))
  BY <1>2 DEF LeavesOf
<1>9. IsFiniteSet(D) /\ IsFiniteSet(D \ R)
  BY FS_Subset DEF IInv
<1>10. GasIn(tree') = GasIn(u)
  <2> DEFINE f == GasOf(u)
             g == GasOf(tree')
  <2>1. f \in [D -> Nat] /\ g \in [D \ R -> Nat]
    BY <1>4, <1>8, GasOfType
  <2>2. \A x \in D \ R : g[x] = f[x]
    BY <1>4, <1>8 DEF GasOf
  <2>3. \A x \in D \ (D \ R) : f[x] = 0
    <3> SUFFICES ASSUME NEW x \in R PROVE Sum(u[x].held) = 0
      BY <1>3, <1>4 DEF GasOf
    <3>1. u[x].held \in [Slots -> Nat]
      BY <1>3, <1>4 DEF GasNode
    <3> QED  BY <1>5, <3>1, SumZero
  <2> HIDE DEF f, g
  <2>4. Sum(g) = Sum(f)
    <3>1. D \ R \subseteq D
      OBVIOUS
    <3> QED  BY ONLY <2>1, <2>2, <2>3, <3>1, SumDropZeros
  <2> QED  BY <2>4 DEF f, g, GasIn
<1>11. TotalIsHeld' /\ total' \in Nat /\ total' <= total
  <2>1. total = GasIn(tree)
    BY DEF IInv, TotalIsHeld
  <2> QED  BY SMTT(90), <1>1, <1>6, <1>10, <2>1 DEF TotalIsHeld
<1>12. TypeOK'
  <2>1. total' \in 0..MaxBalance
    BY SMTT(90), <1>11, BalanceAssumption DEF IInv, TypeOK
  <2> QED  BY <1>8, <2>1 DEF IInv, TypeOK
<1>13. Shaped'
  <2> SUFFICES ASSUME NEW x \in D \ R
               PROVE  /\ tree[x].kind \notin ParentKinds => ~u[x].consumed
                      /\ tree[x].kind = "Unspecified" => u[x].held["value"] = 0
    BY <1>8 DEF Shaped
  <2>1. tree[x].kind \notin ParentKinds => ~u[x].consumed
    BY <1>4, Zenon DEF IInv, Shaped
  <2>2. ASSUME tree[x].kind = "Unspecified" PROVE u[x].held["value"] = 0
    <3>1. x # NoNode
      BY NodesAssumption DEF IInv, TypeOK
    <3>2. x # s
      BY <1>1, <2>2, <3>1, SourceFacts DEF IsSource
    <3>3. s = NoNode \/ x \notin Patrons(t, C)
      BY SMTT(90), <1>1, <2>2, PatronFacts DEF ParentKinds
    <3> QED  BY <1>4, <2>2, <3>2, <3>3 DEF IInv, Shaped
  <2> QED  BY <2>1, <2>2
<1>14. ConsumedIsDrained'
  <2> SUFFICES ASSUME NEW x \in D \ R, u[x].consumed
               PROVE  /\ \A r \in Slots \ {"value"} : u[x].held[r] = 0
                      /\ tree'[x].unspec = 0 => u[x].held["value"] = 0
    BY SMTT(90), <1>8 DEF ConsumedIsDrained
  <2>1. \A r \in Slots \ {"value"} : tree[x].held[r] = 0
    <3>1. CASE x = k
      BY <1>1, <3>1 DEF Consuming, Slots
    <3>2. CASE x # k
      BY <1>4, <3>2 DEF IInv, ConsumedIsDrained
    <3> QED  BY <3>1, <3>2
  <2>2. s = x => s # NoNode
    BY NodesAssumption DEF IInv, TypeOK
  <2>3. ASSUME tree'[x].unspec = 0 PROVE u[x].held["value"] = 0
    <3> DEFINE b == Cardinality(Gone(R, x, "Unspecified"))
    <3>1. /\ b \in Nat /\ b <= 1
          /\ b # 0 => k \in R /\ tree[k].parent = x /\ tree[k].kind = "Unspecified"
      <4>1. /\ Cardinality(Gone(R, x, "Specified")) \in Nat /\ b \in Nat
            /\ Cardinality(Gone(R, x, "Specified")) + b <= 1
            /\ b # 0 => k \in R /\ tree[k].parent = x /\ tree[k].kind = "Unspecified"
        <5>1. IInv /\ Consuming(k, s, C, R) /\ x \in DOMAIN tree  BY <1>1
        <5> HIDE DEF s, t
        <5> QED  BY ONLY <5>1, GoneFacts
      <4> QED  BY SMTT(90), <4>1
    <3>2. tree[x].unspec \in Nat /\ tree[x].unspec = b
      <4>1. tree[x].unspec \in Nat
        BY DEF IInv, TypeOK, GasNode
      <4>2. tree'[x].unspec = tree[x].unspec - b
        BY <1>8
      <4> HIDE DEF b
      <4> QED  BY SMTT(90), <2>3, <3>1, <4>1, <4>2
    <3> HIDE DEF b
    <3>3. CASE x = k
      <4>1. tree[k].kind \in ParentKinds /\ tree[k].unspec = 0
        BY <1>4, <3>1, <3>2, <3>3, Zenon
      <4>2. s = k
        BY <1>1, <4>1, SourceFacts DEF ParentKinds, IsSource
      <4> QED  BY <1>4, <2>2, <3>3, <4>2
    <3>4. CASE x # k /\ b = 0
      <4>1. tree[x].consumed /\ tree[x].unspec = 0
        BY <1>4, <3>2, <3>4
      <4>2. tree[x].held["value"] = 0
        BY <4>1 DEF IInv, ConsumedIsDrained
      <4>3. s = NoNode \/ x \notin Patrons(t, C)
        <5>1. IInv /\ Consuming(k, s, C, R)  BY <1>1
        <5> QED  BY ONLY <4>1, <5>1, PatronFacts
      <4> QED  BY <1>4, <2>2, <4>2, <4>3
    <3>5. CASE x # k /\ b # 0
      <4>1. tree[x].consumed /\ tree[x].unspec = 1
        <5>1. tree[x].consumed  BY <1>4, <3>5
        <5>2. tree[x].unspec = 1  BY ONLY SMTT(90), <3>1, <3>2, <3>5
        <5> QED  BY <5>1, <5>2
      <4>2. s = x
        <5>1. IsSource(s, k)  BY <1>1, SourceFacts
        <5>2. tree[k].parent = x /\ tree[k].kind = "Unspecified"  BY <3>1, <3>5
        <5> QED  BY ONLY <4>1, <5>1, <5>2 DEF IsSource
      <4> QED  BY <1>4, <2>2, <4>2
    <3> QED  BY <3>3, <3>4, <3>5
  <2> QED  BY <1>4, <2>1, <2>3
<1> QED  BY <1>7, <1>8, <1>9, <1>11, <1>12, <1>13, <1>14 DEF IInv

-----------------------------------------------------------------------------
\* The theorems

\* An empty tree satisfies the invariant.
LEMMA InitInvariant ==
  ASSUME Init
  PROVE  IInv
<1>1. DOMAIN tree = {} /\ total = 0
  BY DEF Init
<1>2. tree \in [DOMAIN tree -> GasNode]
  BY <1>1 DEF Init
<1>3. TypeOK /\ IsFiniteSet(DOMAIN tree)
  BY SMTT(90), <1>1, <1>2, FS_EmptySet, BalanceAssumption DEF TypeOK
<1>4. Structure
  <2>1. Ranked
    <3>1. [x \in {} |-> 0] \in [DOMAIN tree -> Nat]
      BY <1>1
    <3> QED  BY <1>1, <3>1, Zenon DEF Ranked
  <2> QED  BY <1>1, <2>1 DEF Structure, ParentHoldsValue, RefsMatchChildren,
                             NoConsumedLeaf, RootOutlivesDescendants
<1>5. TotalIsHeld
  <2>1. GasOf(tree) \in [DOMAIN tree -> Nat]
    BY <1>2, GasOfType
  <2>2. GasIn(tree) = 0
    BY <1>1, <2>1, SumZero DEF GasIn
  <2> QED  BY <1>1, <2>2 DEF TotalIsHeld
<1> QED  BY <1>1, <1>3, <1>4, <1>5 DEF IInv, Shaped, ConsumedIsDrained

\* Every operation keeps the invariant.
LEMMA NextInvariant ==
  ASSUME IInv, Next
  PROVE  IInv'
<1>1. 0..MaxBalance \subseteq Nat
  BY SMTT(90), BalanceAssumption
<1>2. ASSUME NEW o \in Origins, NEW k \in NodeIds, NEW v \in 0..MaxBalance, Create(o, k, v)
      PROVE  IInv'
  BY <1>1, <1>2, CreateStep
<1>3. ASSUME NEW k \in NodeIds, NEW new \in NodeIds, NEW v \in 0..MaxBalance,
             SplitWithValue(k, new, v)
      PROVE  IInv'
  BY <1>1, <1>3, SplitWithValueStep
<1>4. ASSUME NEW k \in NodeIds, NEW new \in NodeIds, NEW v \in 0..MaxBalance,
             Cut(k, new, v) \/ CreateDeposit(k, new, v) \/ Reserve(k, new, v)
      PROVE  IInv'
  <2>1. CASE Cut(k, new, v)
    BY <1>1, <2>1, CreateFromRootStep, Zenon DEF Cut
  <2>2. CASE CreateDeposit(k, new, v)
    BY <1>1, <2>2, CreateFromRootStep, Zenon DEF CreateDeposit
  <2>3. CASE Reserve(k, new, v)
    BY <1>1, <2>3, CreateFromRootStep, Zenon DEF Reserve
  <2> QED  BY <1>4, <2>1, <2>2, <2>3
<1>5. ASSUME NEW k \in NodeIds, NEW v \in 0..MaxBalance, Spend(k, v)
      PROVE  IInv'
  BY <1>1, <1>5, SpendStep
<1>6. ASSUME NEW k \in NodeIds, NEW v \in 0..MaxBalance, NEW id \in LockIds,
             Lock(k, id, v) \/ Unlock(k, id, v)
      PROVE  IInv'
  <2>1. id \in Slots \ {"value"}
    BY LockIdsAssumption DEF Slots
  <2>2. CASE Lock(k, id, v)
    BY <1>1, <2>1, <2>2, LockingStep DEF Lock
  <2>3. CASE Unlock(k, id, v)
    BY <1>1, <2>1, <2>3, UnlockingStep DEF Unlock
  <2> QED  BY <1>6, <2>2, <2>3
<1>7. "system" \in Slots \ {"value"}
  BY DEF Slots
<1>8. ASSUME NEW k \in NodeIds, NEW v \in 0..MaxBalance, SystemReserve(k, v)
      PROVE  IInv'
  BY <1>1, <1>7, <1>8, LockingStep DEF SystemReserve
<1>9. ASSUME NEW k \in NodeIds, SystemUnreserve(k)
      PROVE  IInv'
  <2>1. k \in DOMAIN tree
    BY <1>9 DEF SystemUnreserve
  <2>2. tree[k].held["system"] \in Nat
    BY <1>7, <2>1 DEF IInv, TypeOK, GasNode
  <2> DEFINE v == tree[k].held["system"]
  <2>3. /\ ~tree[k].consumed /\ UNCHANGED total
        /\ tree' = Transfer(tree, k, "system", Holder(tree, k), "value", v)
    BY <1>9 DEF SystemUnreserve
  <2>4. v <= tree[k].held["system"]
    BY SMTT(90), <2>2
  <2> HIDE DEF v
  <2>5. v \in Nat
    BY <2>2 DEF v
  <2> QED  BY ONLY IInv, <1>7, <2>1, <2>3, <2>4, <2>5, UnlockingStep
<1>10. ASSUME NEW k \in NodeIds, NEW new \in NodeIds, Split(k, new)
       PROVE  IInv'
  BY <1>10, SplitStep
<1>11. ASSUME NEW k \in NodeIds, Consume(k)
       PROVE  IInv'
  BY <1>11, ConsumeStep
<1> QED  BY <1>2, <1>3, <1>4, <1>5, <1>6, <1>8, <1>9, <1>10, <1>11 DEF Next

\* The inductive invariant holds in every behaviour of the gas tree.
THEOREM Invariance == Spec => []IInv
<1>1. Init => IInv
  BY InitInvariant
<1>2. IInv /\ [Next]_vars => IInv'
  <2> SUFFICES ASSUME IInv, [Next]_vars PROVE IInv'
    OBVIOUS
  <2>1. CASE Next
    BY <2>1, NextInvariant
  <2>2. CASE UNCHANGED vars
    BY <2>2 DEF vars, IInv, TypeOK, Structure, Shaped, ParentHoldsValue,
         RefsMatchChildren, NoConsumedLeaf, RootOutlivesDescendants, Ranked,
         ConsumedIsDrained, TotalIsHeld
  <2> QED  BY <2>1, <2>2
<1> QED  BY <1>1, <1>2, PTL DEF Spec

\* No operation but consume deletes a node.
LEMMA OthersKeepNodes ==
  ASSUME IInv, NEW k, NEW new, NEW v, NEW id, NEW o,
         \/ Create(o, k, v) \/ SplitWithValue(k, new, v) \/ Cut(k, new, v)
         \/ CreateDeposit(k, new, v) \/ Reserve(k, new, v) \/ Split(k, new)
         \/ Spend(k, v) \/ Lock(k, id, v) \/ Unlock(k, id, v)
         \/ SystemReserve(k, v) \/ SystemUnreserve(k)
  PROVE  DOMAIN tree \ DOMAIN tree' = {}
<1>1. \A t, x, n : DOMAIN t \subseteq DOMAIN Put(t, x, n)
  BY DEF Put
<1>2. \A t, x, s, a : DOMAIN Debit(t, x, s, a) = DOMAIN t /\ DOMAIN Credit(t, x, s, a) = DOMAIN t
  BY DEF Debit, Credit
<1>3. CASE Create(o, k, v)
  BY <1>1, <1>3, Zenon DEF Create
<1>4. \A node : CreateFrom(k, new, v, node) => DOMAIN tree \ DOMAIN tree' = {}
  BY SMTT(90), <1>1, <1>2 DEF CreateFrom
<1>5. CASE \/ SplitWithValue(k, new, v) \/ Cut(k, new, v)
           \/ CreateDeposit(k, new, v) \/ Reserve(k, new, v)
  BY <1>4, <1>5, Zenon DEF SplitWithValue, Cut, CreateDeposit, Reserve
<1>6. CASE Split(k, new)
  BY <1>1, <1>6, Zenon DEF Split
<1>7. CASE \/ Spend(k, v) \/ Lock(k, id, v) \/ Unlock(k, id, v)
           \/ SystemReserve(k, v) \/ SystemUnreserve(k)
  <2>1. \A t, a, i, b, j, w : DOMAIN Transfer(t, a, i, b, j, w) = DOMAIN t
    BY ONLY SMTT(90), <1>2 DEF Transfer
  <2>2. CASE Spend(k, v)
    BY ONLY SMTT(90), <1>2, <2>2 DEF Spend
  <2>3. CASE Lock(k, id, v)
    BY ONLY SMTT(90), <2>1, <2>3 DEF Lock
  <2>4. CASE Unlock(k, id, v)
    BY ONLY SMTT(90), <2>1, <2>4 DEF Unlock
  <2>5. CASE SystemReserve(k, v)
    BY ONLY SMTT(90), <2>1, <2>5 DEF SystemReserve
  <2>6. CASE SystemUnreserve(k)
    BY ONLY SMTT(90), <2>1, <2>6 DEF SystemUnreserve
  <2> QED  BY <1>7, <2>2, <2>3, <2>4, <2>5, <2>6
<1> QED  BY <1>3, <1>5, <1>6, <1>7

\* Every key maps to a well-formed node and the total fits a Balance.
THEOREM TypeCorrect == Spec => []TypeOK
<1>1. IInv => TypeOK
  BY DEF IInv
<1> QED  BY <1>1, Invariance, PTL

\* TotalValue is the gas in the tree after any sequence of create, split, cut,
\* deposit, reserve, spend, lock, unlock and consume: gas is conserved.
THEOREM GasConserved == Spec => []TotalIsHeld
<1>1. IInv => TotalIsHeld
  BY DEF IInv
<1> QED  BY <1>1, Invariance, PTL

\* The reference counters of every node count its children.
THEOREM RefsAreExact == Spec => []RefsMatchChildren
<1>1. IInv => RefsMatchChildren
  BY DEF IInv, Structure
<1> QED  BY <1>1, Invariance, PTL

\* No node ever loses its parent or its root, whatever is consumed: node_with_value and
\* get_origin_node never fail.
THEOREM LineageStays == Spec => []LineageStands
<1>1. IInv => LineageStands
  BY DEF IInv, Structure, LineageStands
<1> QED  BY <1>1, Invariance, PTL

\* A consumed node is in storage only if it has children, and has gas only for
\* unspecified ones.
THEOREM NoLeak == Spec => []ConsumedServesChildren
<1>1. IInv => ConsumedServesChildren
  BY DEF IInv, Structure, ConsumedServesChildren
<1> QED  BY <1>1, Invariance, PTL

\* A cascade of deletions takes, besides the consumed key, only nodes that were
\* consumed before.
THEOREM CascadeIsClean == Spec => CascadeDeletesConsumed
<1> DEFINE A == \E key \in NodeIds : \A k \in DOMAIN tree \ DOMAIN tree' :
                   k = key \/ (tree[k].consumed /\ tree[k].kind \in ParentKinds)
<1>1. IInv /\ [Next]_vars => [A]_vars
  <2> SUFFICES ASSUME IInv, Next PROVE A
    BY DEF vars
  <2>1. CASE \E k \in NodeIds : Consume(k)
    <3>1. PICK k \in NodeIds : Consume(k)
      BY <2>1
    <3>2. PICK s, C, R : /\ Consuming(k, s, C, R)
                         /\ tree' = Pruned(Caught(Marked(tree, k), s, C), R)
      BY <3>1 DEF Consume, Consuming
    <3>3. DOMAIN tree' = DOMAIN tree \ R
      BY <3>2, PrunedFacts, Zenon DEF LeavesOf
    <3>4. \A x \in R : x = k \/ (tree[x].consumed /\ tree[x].kind \in ParentKinds)
      BY <3>2, RemovalKinds
    <3> QED  BY <3>3, <3>4
  <2>2. CASE ~\E k \in NodeIds : Consume(k)
    <3>1. PICK k \in NodeIds : TRUE
      BY DEF Next
    <3>2. DOMAIN tree \ DOMAIN tree' = {}
      BY <2>2, OthersKeepNodes, Zenon DEF Next
    <3> QED  BY <3>1, <3>2
  <2> QED  BY <2>1, <2>2
<1> QED  BY <1>1, Invariance, PTL DEF Spec, CascadeDeletesConsumed

-----------------------------------------------------------------------------
(* What the gas in the tree is worth to an account *)

\* What an amount of gas of origin o is worth to account a.
Worth(o, v, a) == IF o[1] = a THEN v * o[2] ELSE 0

\* What the gas of each node is worth to account a, given gas and origin of every node.
Worths(gas, origins, a) == [k \in DOMAIN gas |-> Worth(origins[k], gas[k], a)]

\* What they are worth together.
Owed(gas, origins, a) == Sum(Worths(gas, origins, a))

\* Prices are natural numbers, and so is what gas is worth.
LEMMA WorthType ==
  ASSUME NEW o \in Origins, NEW v \in Nat, NEW a
  PROVE  Worth(o, v, a) \in Nat
<1>1. o[2] \in Nat  BY OriginsAssumption
<1>2. v * o[2] \in Nat  BY SMTT(90), <1>1
<1> QED  BY <1>2 DEF Worth

\* Gas is worth the sum of its parts.
LEMMA WorthAdds ==
  ASSUME NEW o \in Origins, NEW v \in Nat, NEW w \in Nat, NEW a
  PROVE  Worth(o, v + w, a) = Worth(o, v, a) + Worth(o, w, a)
<1>1. o[2] \in Nat  BY OriginsAssumption
<1>2. \A p \in Nat : (v + w) * p = v * p + w * p  BY SMTT(90)
<1>3. v * o[2] + w * o[2] \in Nat  BY SMTT(90), <1>1
<1> QED  BY SMTT(90), <1>1, <1>2, <1>3 DEF Worth

\* Worths has its type.
LEMMA WorthsType ==
  ASSUME NEW D, NEW gas \in [D -> Nat], NEW origins \in [D -> Origins], NEW a
  PROVE  Worths(gas, origins, a) \in [D -> Nat]
BY WorthType DEF Worths

\* Nodes without gas change nothing: they may come or go.
LEMMA OwedOfMore ==
  ASSUME NEW D, NEW E, E \subseteq D, NEW gas \in [D -> Nat], NEW origins \in [D -> Origins],
         NEW rest \in [E -> Nat], NEW from \in [E -> Origins],
         \A k \in E : rest[k] = gas[k] /\ from[k] = origins[k],
         \A k \in D \ E : gas[k] = 0, NEW a
  PROVE  Owed(rest, from, a) = Owed(gas, origins, a)
<1> DEFINE f == Worths(gas, origins, a)
           g == Worths(rest, from, a)
<1>1. f \in [D -> Nat] /\ g \in [E -> Nat]  BY WorthsType
<1>2. \A k \in E : g[k] = f[k]  BY DEF Worths
<1>3. \A k \in D \ E : f[k] = 0
  <2> SUFFICES ASSUME NEW k \in D \ E PROVE Worth(origins[k], 0, a) = 0
    BY DEF Worths
  <2>1. origins[k][2] \in Nat  BY OriginsAssumption
  <2> QED  BY SMTT(90), <2>1 DEF Worth
<1> HIDE DEF f, g
<1>4. Sum(g) = Sum(f)  BY ONLY E \subseteq D, <1>1, <1>2, <1>3, SumDropZeros
<1> QED  BY <1>4 DEF f, g, Owed

\* Node x has v more gas, the others what they had.
Gains(D, gas, more, x, v) ==
  /\ gas \in [D -> Nat] /\ more \in [D -> Nat] /\ x \in D /\ v \in Nat
  /\ more[x] = gas[x] + v /\ \A k \in D \ {x} : more[k] = gas[k]

\* Gas that enters a node is owed in addition, and gas that leaves it no more.
LEMMA OwedMore ==
  ASSUME NEW D, IsFiniteSet(D), NEW gas, NEW more, NEW x, NEW v, Gains(D, gas, more, x, v),
         NEW origins \in [D -> Origins], NEW a
  PROVE  /\ Owed(more, origins, a) \in Nat /\ Owed(gas, origins, a) \in Nat
         /\ Owed(more, origins, a) = Owed(gas, origins, a) + Worth(origins[x], v, a)
<1> USE DEF Gains
<1> DEFINE f == Worths(gas, origins, a)
           g == Worths(more, origins, a)
<1>2. f \in [D -> Nat] /\ g \in [D -> Nat]  BY WorthsType
<1>3. \A k \in D \ {x} : g[k] = f[k]  BY DEF Worths
<1>4. g[x] = f[x] + Worth(origins[x], v, a)
  BY SMTT(90), WorthAdds DEF Worths
<1>5. Worth(origins[x], v, a) \in Nat  BY WorthType
<1> HIDE DEF f, g
<1>6. Sum(g) + f[x] = Sum(f) + g[x]  BY SMTT(90), <1>2, <1>3, SumChange
<1>7. Sum(f) \in Nat /\ Sum(g) \in Nat /\ f[x] \in Nat  BY <1>2, SumType
<1>8. Sum(g) = Sum(f) + Worth(origins[x], v, a)  BY SMTT(90), <1>4, <1>5, <1>6, <1>7
<1> QED  BY <1>7, <1>8 DEF f, g, Owed

\* Gas that moves between nodes of one origin is owed to the same account: x had v more
\* than less says, and y has v more now.
LEMMA OwedMoved ==
  ASSUME NEW D, IsFiniteSet(D), NEW less, NEW gas, NEW moved, NEW x, NEW y, NEW v,
         Gains(D, less, gas, x, v), Gains(D, less, moved, y, v),
         NEW origins \in [D -> Origins], origins[x] = origins[y], NEW a
  PROVE  Owed(moved, origins, a) = Owed(gas, origins, a)
<1>2. Owed(gas, origins, a) = Owed(less, origins, a) + Worth(origins[x], v, a)
  BY ONLY Gains(D, less, gas, x, v), IsFiniteSet(D), origins \in [D -> Origins], OwedMore
<1>3. Owed(moved, origins, a) = Owed(less, origins, a) + Worth(origins[y], v, a)
  BY ONLY Gains(D, less, moved, y, v), IsFiniteSet(D), origins \in [D -> Origins], OwedMore
<1> QED  BY <1>2, <1>3

-----------------------------------------------------------------------------
(* The gas of the nodes after each piece of a step. *)

\* Debit and Credit change the gas of one node by as much.
LEMMA CreditNode ==
  ASSUME NEW D, NEW t \in [D -> GasNode], NEW u \in [D -> GasNode], NEW x \in D,
         NEW s \in Slots, NEW v \in Nat, u[x].held[s] = t[x].held[s] + v,
         \A r \in Slots \ {s} : u[x].held[r] = t[x].held[r]
  PROVE  GasOf(u)[x] = GasOf(t)[x] + v
<1> DEFINE f == t[x].held
           g == u[x].held
<1>1. f \in [Slots -> Nat] /\ g \in [Slots -> Nat]  BY DEF GasNode
<1>2. g[s] = f[s] + v /\ \A r \in Slots \ {s} : g[r] = f[r]  OBVIOUS
<1> HIDE DEF f, g
<1>3. Sum(g) + f[s] = Sum(f) + g[s]  BY SMTT(90), <1>1, <1>2, SlotsFinite, SumChange
<1>4. Sum(f) \in Nat /\ Sum(g) \in Nat /\ f[s] \in Nat  BY <1>1, SlotsFinite, SumType
<1>5. Sum(g) = Sum(f) + v  BY SMTT(90), <1>2, <1>3, <1>4
<1> QED  BY <1>5 DEF f, g, GasOf

\* A node that holds in every slot what it held has the gas it had.
LEMMA SameNode ==
  ASSUME NEW D, NEW t \in [D -> GasNode], NEW u \in [D -> GasNode], NEW x \in D,
         \A r \in Slots : u[x].held[r] = t[x].held[r]
  PROVE  GasOf(u)[x] = GasOf(t)[x]
<1>1. t[x].held \in [Slots -> Nat] /\ u[x].held \in [Slots -> Nat]  BY DEF GasNode
<1>2. u[x].held = t[x].held  BY SMTT(90), <1>1
<1> QED  BY <1>2 DEF GasOf

\* What Debit takes out of a slot the node has less of.
LEMMA DebitGains ==
  ASSUME NEW D, IsFiniteSet(D), NEW t \in [D -> GasNode], NEW x \in D, NEW s \in Slots,
         NEW v \in Nat, v <= t[x].held[s]
  PROVE  /\ Debit(t, x, s, v) \in [D -> GasNode]
         /\ Gains(D, GasOf(Debit(t, x, s, v)), GasOf(t), x, v)
<1> DEFINE u == Debit(t, x, s, v)
<1>1. u \in [D -> GasNode]  BY DebitGas
<1>2. t[x].held \in [Slots -> Nat]  BY DEF GasNode
<1>3. /\ t[x].held[s] = u[x].held[s] + v
      /\ \A r \in Slots \ {s} : t[x].held[r] = u[x].held[r]
      /\ \A y \in D \ {x} : u[y] = t[y]
  BY SMTT(90), <1>2 DEF Debit, GasNode
<1> HIDE DEF u
<1>4. GasOf(t)[x] = GasOf(u)[x] + v  BY SMTT(90), <1>1, <1>3, CreditNode
<1>5. \A y \in D \ {x} : GasOf(t)[y] = GasOf(u)[y]  BY <1>1, <1>3 DEF GasOf
<1>6. GasOf(t) \in [D -> Nat] /\ GasOf(u) \in [D -> Nat]  BY <1>1, GasOfType
<1>7. Gains(D, GasOf(u), GasOf(t), x, v)  BY <1>4, <1>5, <1>6 DEF Gains
<1> QED  BY <1>1, <1>7 DEF u

\* What Credit adds to a slot the node has more of.
LEMMA CreditGains ==
  ASSUME NEW D, IsFiniteSet(D), NEW t \in [D -> GasNode], NEW x \in D, NEW s \in Slots,
         NEW v \in Nat
  PROVE  /\ Credit(t, x, s, v) \in [D -> GasNode]
         /\ Gains(D, GasOf(t), GasOf(Credit(t, x, s, v)), x, v)
<1> DEFINE u == Credit(t, x, s, v)
<1>1. u \in [D -> GasNode]  BY CreditGas
<1>2. t[x].held \in [Slots -> Nat]  BY DEF GasNode
<1>3. /\ u[x].held[s] = t[x].held[s] + v
      /\ \A r \in Slots \ {s} : u[x].held[r] = t[x].held[r]
      /\ \A y \in D \ {x} : u[y] = t[y]
  BY <1>2 DEF Credit, GasNode
<1> HIDE DEF u
<1>4. GasOf(u)[x] = GasOf(t)[x] + v  BY SMTT(90), <1>1, <1>3, CreditNode
<1>5. \A y \in D \ {x} : GasOf(u)[y] = GasOf(t)[y]  BY <1>1, <1>3 DEF GasOf
<1>6. GasOf(t) \in [D -> Nat] /\ GasOf(u) \in [D -> Nat]  BY <1>1, GasOfType
<1>7. Gains(D, GasOf(t), GasOf(u), x, v)  BY <1>4, <1>5, <1>6 DEF Gains
<1> QED  BY <1>1, <1>7 DEF u

-----------------------------------------------------------------------------
(* Where the gas of a node comes from. *)

\* Every local node has its root in the tree, and every other one its origin.
Rooted(t) ==
    /\ NoNode \notin DOMAIN t
    /\ \A x \in DOMAIN t :
          IF t[x].kind \in LocalKinds
          THEN t[x].root \in DOMAIN t /\ t[t[x].root].kind \in RootKinds
          ELSE t[x].root = NoNode /\ t[x].origin \in Origins

\* The origins of the nodes of t.
OriginsIn(t) == [x \in DOMAIN t |-> OriginOf(t, x)]

\* Then get_origin_node finds one for every node.
LEMMA OriginsType ==
  ASSUME NEW t, Rooted(t)
  PROVE  OriginsIn(t) \in [DOMAIN t -> Origins]
<1> SUFFICES ASSUME NEW x \in DOMAIN t PROVE OriginOf(t, x) \in Origins
  BY DEF OriginsIn
<1>1. CASE t[x].kind \in LocalKinds
  <2>1. RootOf(t, x) \in DOMAIN t /\ t[RootOf(t, x)].kind \notin LocalKinds
    BY <1>1 DEF Rooted, RootOf, RootKinds, LocalKinds
  <2> QED  BY <2>1 DEF Rooted, OriginOf
<1>2. CASE t[x].kind \notin LocalKinds
  BY <1>2 DEF Rooted, RootOf, OriginOf
<1> QED  BY <1>1, <1>2

\* The nodes two trees share have kind, root and origin in common.
SameRoots(t, u) ==
    \A x \in DOMAIN t \cap DOMAIN u :
        u[x].kind = t[x].kind /\ u[x].root = t[x].root /\ u[x].origin = t[x].origin

\* Then the shared nodes draw on the same origins.
LEMMA OriginsKept ==
  ASSUME NEW t, NEW u, Rooted(t), Rooted(u), SameRoots(t, u)
  PROVE  \A x \in DOMAIN t \cap DOMAIN u : OriginsIn(u)[x] = OriginsIn(t)[x]
<1> SUFFICES ASSUME NEW x \in DOMAIN t \cap DOMAIN u PROVE OriginOf(u, x) = OriginOf(t, x)
  BY DEF OriginsIn
<1>1. RootOf(u, x) = RootOf(t, x)  BY DEF SameRoots, RootOf
<1>2. RootOf(t, x) \in DOMAIN t /\ RootOf(u, x) \in DOMAIN u
  BY DEF Rooted, RootOf
<1> QED  BY <1>1, <1>2 DEF SameRoots, OriginOf

\* A node that is not local has an origin.
Sourced == \A x \in DOMAIN tree : tree[x].kind \notin LocalKinds => tree[x].origin \in Origins

\* What the tree's invariant says of roots.
LEMMA TreeIsRooted ==
  ASSUME IInv, Sourced
  PROVE  Rooted(tree)
<1>1. NoNode \notin DOMAIN tree  BY NodesAssumption DEF IInv, TypeOK
<1> QED  BY <1>1 DEF IInv, Structure, RootOutlivesDescendants, Sourced, Rooted

\* The same after a step.
LEMMA NextTreeIsRooted ==
  ASSUME IInv', Sourced'
  PROVE  Rooted(tree')
<1>1. NoNode \notin DOMAIN tree'  BY NodesAssumption DEF IInv, TypeOK
<1> QED  BY <1>1 DEF IInv, Structure, RootOutlivesDescendants, Sourced, Rooted

\* A local node draws on the origin of its parent.
LEMMA ParentRoot ==
  ASSUME IInv, NEW x \in DOMAIN tree, tree[x].kind \in LocalKinds
  PROVE  RootOf(tree, x) = RootOf(tree, tree[x].parent)
<1>1. NoNode \notin DOMAIN tree  BY NodesAssumption DEF IInv, TypeOK
<1> QED  BY <1>1 DEF IInv, Structure, RootOutlivesDescendants, RootOf

\* So does a node on that of the node whose value it lives on.
LEMMA HolderOrigin ==
  ASSUME IInv, NEW k \in DOMAIN tree
  PROVE  OriginOf(tree, Holder(tree, k)) = OriginOf(tree, k)
<1>1. CASE tree[k].kind = "Unspecified"
  BY <1>1, ParentRoot DEF Holder, OriginOf, LocalKinds
<1>2. CASE tree[k].kind # "Unspecified"
  BY <1>2 DEF Holder
<1> QED  BY <1>1, <1>2

\* The patron that inherits the value of s has the origin of s.
LEMMA PatronOrigin ==
  ASSUME IInv, NEW k, NEW s, NEW C, NEW R, Consuming(k, s, C, R), s # NoNode,
         NEW p \in Patrons(Marked(tree, k), C)
  PROVE  OriginOf(tree, p) = OriginOf(tree, s)
<1> DEFINE D == DOMAIN tree
           t == Marked(tree, k)
           X == {x \in C : RootOf(tree, x) # RootOf(tree, s)}
<1>1. PICK d : IsDepth(d)
  BY DEF IInv, Structure, Ranked, IsDepth
<1>2. s \in D /\ k \in D
  BY SourceFacts DEF Consuming, IsSource
<1>3. /\ DOMAIN t = D
      /\ \A x \in D : t[x].kind = tree[x].kind /\ t[x].parent = tree[x].parent
  BY <1>2, MarkedFacts
<1>4. IsClimb(t, s, C)
  BY DEF Consuming
<1> HIDE DEF t
<1>5. /\ C \subseteq D
      /\ \A x \in C : \E y \in C \cup {s} : tree[y].parent = x /\ tree[y].kind = "Specified"
  BY SMTT(90), <1>2, <1>3, <1>4 DEF IsClimb
<1>6. IsFiniteSet(D) /\ d \in [D -> Nat]
  BY <1>1 DEF IInv, IsDepth
<1>7. ASSUME NEW x \in X PROVE \E y \in X : d[y] = d[x] + 1
  <2>1. PICK y \in C \cup {s} : tree[y].parent = x /\ tree[y].kind = "Specified"
    BY <1>5
  <2>2. RootOf(tree, y) = RootOf(tree, x)
    BY <1>2, <1>5, <2>1, ParentRoot DEF LocalKinds
  <2>3. y \in X
    BY <2>1, <2>2
  <2>4. d[y] = d[x] + 1
    BY <1>1, <1>2, <1>5, <2>1, DepthOfChild
  <2> QED  BY <2>3, <2>4
<1>8. X \subseteq D
  BY <1>5
<1> HIDE DEF X, D
<1>9. X = {}
  BY ONLY <1>6, <1>7, <1>8, NoEndlessDescent
<1> QED  BY <1>9 DEF X, Patrons, OriginOf

-----------------------------------------------------------------------------
(* What every operation leaves owed. *)

\* What the gas in the tree is worth to account a.
OwedTo(a) == Owed(GasOf(tree), OriginsIn(tree), a)

\* No node comes or goes, and the links stay.
LEMMA LinksKeepOrigins ==
  ASSUME IInv, Sourced, IInv', SameLinks(tree, tree')
  PROVE  /\ Sourced' /\ OriginsIn(tree') = OriginsIn(tree)
         /\ OriginsIn(tree) \in [DOMAIN tree -> Origins]
<1>1. Sourced'  BY DEF Sourced, SameLinks
<1>2. Rooted(tree) /\ Rooted(tree')  BY <1>1, TreeIsRooted, NextTreeIsRooted
<1>3. SameRoots(tree, tree') /\ DOMAIN tree' = DOMAIN tree  BY DEF SameLinks, SameRoots
<1>4. /\ OriginsIn(tree) \in [DOMAIN tree -> Origins]
      /\ OriginsIn(tree') \in [DOMAIN tree' -> Origins]
  BY <1>2, OriginsType
<1>5. \A x \in DOMAIN tree : OriginsIn(tree')[x] = OriginsIn(tree)[x]
  BY <1>2, <1>3, OriginsKept
<1> QED  BY SMTT(90), <1>1, <1>3, <1>4, <1>5

\* Moving gas between slots of nodes of one origin, as lock, unlock and the system
\* reservation do, changes nothing that is owed.
LEMMA TransferOwed ==
  ASSUME IInv, Sourced, IInv', NEW x \in DOMAIN tree, NEW y \in DOMAIN tree,
         OriginOf(tree, x) = OriginOf(tree, y), NEW s \in Slots, NEW r \in Slots,
         NEW v \in Nat, v <= tree[x].held[s], tree' = Transfer(tree, x, s, y, r, v), NEW a
  PROVE  Sourced' /\ OwedTo(a)' = OwedTo(a)
<1> DEFINE D == DOMAIN tree
           u == Debit(tree, x, s, v)
<1>1. IsFiniteSet(D) /\ tree \in [D -> GasNode]  BY DEF IInv, TypeOK
<1>2. u \in [D -> GasNode] /\ Gains(D, GasOf(u), GasOf(tree), x, v)  BY <1>1, DebitGains
<1>3. SameLinks(tree, u)  BY <1>1, DebitLinks
<1>4. tree' = Credit(u, y, r, v)  BY DEF Transfer
<1> HIDE DEF u
<1>5. Gains(D, GasOf(u), GasOf(tree'), y, v)  BY SMTT(90), <1>1, <1>2, <1>4, CreditGains
<1>6. SameLinks(tree, tree')
  <2>1. SameLinks(u, tree')  BY <1>2, <1>4, DebitLinks
  <2> QED  BY ONLY SMTT(90), <1>3, <2>1 DEF SameLinks
<1>7. /\ Sourced' /\ OriginsIn(tree') = OriginsIn(tree)
      /\ OriginsIn(tree) \in [D -> Origins]
  BY <1>6, LinksKeepOrigins
<1>8. OriginsIn(tree)[x] = OriginsIn(tree)[y]  BY DEF OriginsIn
<1> HIDE DEF D
<1>9. Owed(GasOf(tree'), OriginsIn(tree), a) = Owed(GasOf(tree), OriginsIn(tree), a)
  BY ONLY <1>1, <1>2, <1>5, <1>7, <1>8, OwedMoved
<1> QED  BY <1>7, <1>9 DEF OwedTo

\* Spending takes from what is owed to the node's origin what the gas was bought for.
LEMMA SpendOwed ==
  ASSUME IInv, Sourced, NEW k \in NodeIds, NEW v \in Nat, Spend(k, v), NEW a
  PROVE  /\ Sourced' /\ OwedTo(a)' \in Nat
         /\ OwedTo(a) = OwedTo(a)' + Worth(OriginOf(tree, k), v, a)
<1> DEFINE D == DOMAIN tree
           h == Holder(tree, k)
<1>1. IsFiniteSet(D) /\ tree \in [D -> GasNode]  BY DEF IInv, TypeOK
<1>2. /\ h \in D /\ v <= tree[h].held["value"] /\ "value" \in Slots
      /\ tree' = Debit(tree, h, "value", v) /\ k \in D
  BY HolderFacts DEF Spend, Slots
<1>3. IInv'  BY SpendStep
<1> HIDE DEF h
<1>4. Gains(D, GasOf(tree'), GasOf(tree), h, v)  BY <1>1, <1>2, DebitGains
<1>5. SameLinks(tree, tree')  BY <1>1, <1>2, DebitLinks
<1>6. /\ Sourced' /\ OriginsIn(tree') = OriginsIn(tree)
      /\ OriginsIn(tree) \in [D -> Origins]
  BY <1>3, <1>5, LinksKeepOrigins
<1>7. OriginsIn(tree)[h] = OriginOf(tree, k)  BY <1>2, HolderOrigin DEF OriginsIn, h
<1> HIDE DEF D
<1>8. /\ Owed(GasOf(tree'), OriginsIn(tree), a) \in Nat
      /\ Owed(GasOf(tree), OriginsIn(tree), a)
           = Owed(GasOf(tree'), OriginsIn(tree), a) + Worth(OriginsIn(tree)[h], v, a)
  BY ONLY <1>1, <1>4, <1>6, OwedMore
<1> QED  BY <1>6, <1>7, <1>8 DEF OwedTo

\* A step that adds one node and lets the others keep kind, root and origin.
Adds(new) ==
    /\ new \notin DOMAIN tree /\ DOMAIN tree' = DOMAIN tree \cup {new}
    /\ SameRoots(tree, tree')
    /\ tree'[new].kind \notin LocalKinds => tree'[new].origin \in Origins

\* The gas before the step, the new node included.
Before(new) ==
    [x \in DOMAIN tree \cup {new} |-> IF x = new THEN 0 ELSE GasOf(tree)[x]]

\* The new node is empty before, so nothing is owed for it.
LEMMA AddedOwed ==
  ASSUME IInv, Sourced, IInv', NEW new, Adds(new)
  PROVE  /\ Sourced'
         /\ Before(new) \in [DOMAIN tree' -> Nat] /\ GasOf(tree') \in [DOMAIN tree' -> Nat]
         /\ IsFiniteSet(DOMAIN tree')
         /\ OriginsIn(tree') \in [DOMAIN tree' -> Origins]
         /\ \A x \in DOMAIN tree : OriginsIn(tree')[x] = OriginsIn(tree)[x]
         /\ \A a : Owed(Before(new), OriginsIn(tree'), a) = OwedTo(a)
<1> DEFINE D == DOMAIN tree
           E == DOMAIN tree'
<1>1. Sourced'  BY DEF Sourced, Adds, SameRoots
<1>2. Rooted(tree) /\ Rooted(tree')  BY <1>1, TreeIsRooted, NextTreeIsRooted
<1>3. D \subseteq E /\ E = D \cup {new} /\ new \notin D  BY DEF Adds
<1>4. OriginsIn(tree) \in [D -> Origins] /\ OriginsIn(tree') \in [E -> Origins]
  BY <1>2, OriginsType
<1>5. \A x \in D : OriginsIn(tree')[x] = OriginsIn(tree)[x]
  <2>1. \A x \in D \cap E : OriginsIn(tree')[x] = OriginsIn(tree)[x]
    BY <1>2, OriginsKept DEF Adds
  <2> QED  BY <1>3, <2>1
<1>6. GasOf(tree) \in [D -> Nat] /\ GasOf(tree') \in [E -> Nat]
  <2>1. tree \in [D -> GasNode] /\ tree' \in [E -> GasNode]  BY DEF IInv, TypeOK
  <2> QED  BY <2>1, GasOfType
<1>7. Before(new) \in [E -> Nat]  BY <1>3, <1>6 DEF Before
<1>8. /\ \A x \in D : GasOf(tree)[x] = Before(new)[x] /\ OriginsIn(tree)[x] = OriginsIn(tree')[x]
      /\ \A x \in E \ D : Before(new)[x] = 0
  BY <1>3, <1>5 DEF Before
<1>9. IsFiniteSet(E)  BY DEF IInv
<1> HIDE DEF D, E
<1>10. \A a : Owed(GasOf(tree), OriginsIn(tree), a) = Owed(Before(new), OriginsIn(tree'), a)
  BY ONLY <1>3, <1>4, <1>6, <1>7, <1>8, OwedOfMore
<1> QED  BY <1>1, <1>4, <1>5, <1>6, <1>7, <1>9, <1>10 DEF OwedTo, D, E

\* A new node has the value it was given, and the others keep kind, root and origin.
LEMMA PutAdds ==
  ASSUME IInv, NEW t \in [DOMAIN tree -> GasNode], NEW new, new \notin DOMAIN tree, NEW node,
         \A x \in DOMAIN tree : /\ t[x].kind = tree[x].kind /\ t[x].root = tree[x].root
                                /\ t[x].origin = tree[x].origin,
         node.kind \notin LocalKinds => node.origin \in Origins,
         tree' = Put(t, new, node)
  PROVE  /\ Adds(new) /\ tree'[new] = node
         /\ \A x \in DOMAIN tree : tree'[x] = t[x]
<1>1. DOMAIN t = DOMAIN tree  OBVIOUS
<1>2. /\ DOMAIN tree' = DOMAIN tree \cup {new} /\ tree'[new] = node
      /\ \A x \in DOMAIN tree : tree'[x] = t[x]
  BY <1>1 DEF Put
<1>3. Adds(new)  BY <1>2 DEF Adds, SameRoots
<1> QED  BY <1>2, <1>3

\* Creating a node of amount v from gas bought for origin o is owed to it in addition.
LEMMA CreateOwed ==
  ASSUME IInv, Sourced, NEW o \in Origins, NEW k \in NodeIds, NEW v \in Nat, Create(o, k, v),
         NEW a
  PROVE  /\ Sourced' /\ OwedTo(a) \in Nat
         /\ OwedTo(a)' = OwedTo(a) + Worth(o, v, a)
<1> DEFINE node == NewNode("External", o, NoNode, NoNode, v, FALSE)
           E == DOMAIN tree'
<1>1. IInv'  BY CreateStep
<1>2. /\ node.kind = "External" /\ node.origin = o /\ node.root = NoNode
      /\ node.held = [s \in Slots |-> IF s = "value" THEN v ELSE 0]
  BY DEF NewNode
<1>3. k \notin DOMAIN tree /\ tree' = Put(tree, k, node)  BY DEF Create
<1>4. tree \in [DOMAIN tree -> GasNode]  BY DEF IInv, TypeOK
<1> HIDE DEF node
<1>5. Adds(k) /\ tree'[k] = node /\ \A x \in DOMAIN tree : tree'[x] = tree[x]
  BY <1>2, <1>3, <1>4, PutAdds
<1>6. GasOf(tree')[k] = v
  <2>1. k \in DOMAIN tree'  BY <1>5 DEF Adds
  <2> QED  BY <1>2, <1>5, <2>1, NewNodeGas DEF GasOf
<1>7. /\ Sourced'
      /\ Before(k) \in [E -> Nat] /\ GasOf(tree') \in [E -> Nat]
      /\ IsFiniteSet(E) /\ OriginsIn(tree') \in [E -> Origins]
      /\ Owed(Before(k), OriginsIn(tree'), a) = OwedTo(a)
  BY <1>1, <1>5, AddedOwed
<1>8. OriginsIn(tree')[k] = o
  BY <1>2, <1>5 DEF Adds, OriginsIn, OriginOf, RootOf
<1>9. Gains(E, Before(k), GasOf(tree'), k, v)
  <2>1. \A x \in DOMAIN tree : GasOf(tree')[x] = GasOf(tree)[x]
    BY <1>5 DEF GasOf, Adds
  <2>2. E = DOMAIN tree \cup {k} /\ k \notin DOMAIN tree  BY <1>5 DEF Adds
  <2>3. Before(k)[k] = 0 /\ \A x \in DOMAIN tree : Before(k)[x] = GasOf(tree)[x]
    BY <2>2 DEF Before
  <2> HIDE DEF E
  <2> QED  BY SMTT(90), <1>6, <1>7, <2>1, <2>2, <2>3 DEF Gains
<1> HIDE DEF E
<1>10. /\ Owed(Before(k), OriginsIn(tree'), a) \in Nat
       /\ Owed(GasOf(tree'), OriginsIn(tree'), a)
            = Owed(Before(k), OriginsIn(tree'), a) + Worth(OriginsIn(tree')[k], v, a)
  BY ONLY <1>7, <1>9, OwedMore
<1> QED  BY <1>7, <1>8, <1>10 DEF OwedTo

\* The node a created one is drawn from, less the value and with the ref it may count.
LEMMA DrawnFacts ==
  ASSUME IInv, NEW k, NEW new, NEW v \in Nat, NEW node, CreateFrom(k, new, v, node)
  PROVE  /\ Holder(tree, k) \in DOMAIN tree /\ tree[Holder(tree, k)].kind # "Cut"
         /\ new \notin DOMAIN tree
         /\ \E t \in [DOMAIN tree -> GasNode] :
              /\ tree' = Put(t, new, node)
              /\ \A x \in DOMAIN tree :
                    /\ t[x].kind = tree[x].kind /\ t[x].root = tree[x].root
                    /\ t[x].origin = tree[x].origin
              /\ Gains(DOMAIN tree, GasOf(t), GasOf(tree), Holder(tree, k), v)
<1> DEFINE D == DOMAIN tree
           h == Holder(tree, k)
           u == Debit(tree, h, "value", v)
           n == IF node.kind = "Specified" THEN u[h].spec + 1 ELSE u[h].spec
           t == [u EXCEPT ![h].spec = IF node.kind = "Specified" THEN @ + 1 ELSE @]
<1>1. /\ k \in D /\ new \notin D /\ tree[h].kind # "Cut"
      /\ v <= tree[h].held["value"] /\ tree' = Put(t, new, node) /\ "value" \in Slots
  BY DEF CreateFrom, Slots
<1>2. h \in D /\ IsFiniteSet(D) /\ tree \in [D -> GasNode]
  BY <1>1, HolderFacts DEF IInv, TypeOK
<1>3. u \in [D -> GasNode] /\ Gains(D, GasOf(u), GasOf(tree), h, v)
  BY <1>1, <1>2, DebitGains
<1>4. SameLinks(tree, u)  BY <1>2, DebitLinks
<1>5. t = [u EXCEPT ![h].spec = n]  BY Zenon
<1> HIDE DEF t, u, h
<1>6. u[h] \in GasNode /\ n \in Nat  BY SMTT(90), <1>2, <1>3 DEF GasNode
<1> HIDE DEF n
<1>7. [u[h] EXCEPT !.spec = n] \in GasNode  BY <1>6 DEF GasNode
<1>8. t \in [D -> GasNode]  BY <1>2, <1>3, <1>5, <1>7
<1>9. \A x \in D : /\ t[x].kind = u[x].kind /\ t[x].root = u[x].root
                   /\ t[x].origin = u[x].origin /\ t[x].held = u[x].held
  BY <1>2, <1>3, <1>5, <1>6 DEF GasNode
<1>10. GasOf(t) = GasOf(u)  BY <1>3, <1>8, <1>9 DEF GasOf
<1>11. \A x \in D : /\ t[x].kind = tree[x].kind /\ t[x].root = tree[x].root
                    /\ t[x].origin = tree[x].origin
  BY <1>4, <1>9 DEF SameLinks
<1>12. Gains(D, GasOf(t), GasOf(tree), h, v)  BY <1>3, <1>10
<1> QED  BY <1>1, <1>2, <1>8, <1>11, <1>12 DEF h

\* A node created from another one draws on the origin of the other: either it is local
\* and belongs to the same root, or it carries that root's external data.
DrawsOn(k, node) ==
    \/ node.kind \in LocalKinds /\ node.root = RootOf(tree, Holder(tree, k))
    \/ node.kind \notin LocalKinds /\ node.root = NoNode /\ node.origin = OriginOf(tree, k)

\* So create_from_with_value leaves what is owed as it was.
LEMMA CreateFromOwed ==
  ASSUME IInv, Sourced, IInv', NEW k \in NodeIds, NEW new \in NodeIds, NEW v \in Nat,
         NEW node, CreateFrom(k, new, v, node), DrawsOn(k, node),
         node.held = [s \in Slots |-> IF s = "value" THEN v ELSE 0], NEW a
  PROVE  Sourced' /\ OwedTo(a)' = OwedTo(a)
<1> DEFINE D == DOMAIN tree
           E == DOMAIN tree'
           h == Holder(tree, k)
<1>0. h \in D /\ tree[h].kind # "Cut" /\ new \notin D
  BY DrawnFacts
<1>1. PICK t \in [D -> GasNode] :
        /\ tree' = Put(t, new, node)
        /\ \A x \in D : /\ t[x].kind = tree[x].kind /\ t[x].root = tree[x].root
                        /\ t[x].origin = tree[x].origin
        /\ Gains(D, GasOf(t), GasOf(tree), h, v)
  BY SMTT(90), DrawnFacts
<1>2. k \in D  BY DEF CreateFrom
<1>3. OriginOf(tree, k) \in Origins /\ OriginOf(tree, h) = OriginOf(tree, k)
  <2>1. OriginsIn(tree) \in [D -> Origins]  BY TreeIsRooted, OriginsType
  <2> QED  BY <1>2, <2>1, HolderOrigin DEF OriginsIn
<1>4. Adds(new) /\ tree'[new] = node /\ \A x \in D : tree'[x] = t[x]
  <2>1. node.kind \notin LocalKinds => node.origin \in Origins  BY <1>3 DEF DrawsOn
  <2> QED  BY <1>0, <1>1, <2>1, PutAdds
<1>5. GasOf(tree')[new] = v /\ \A x \in D : GasOf(tree')[x] = GasOf(t)[x]
  <2>1. E = D \cup {new}  BY <1>4 DEF Adds
  <2> QED  BY <1>1, <1>4, <2>1, NewNodeGas DEF GasOf
<1>6. /\ Sourced'
      /\ Before(new) \in [E -> Nat] /\ GasOf(tree') \in [E -> Nat]
      /\ IsFiniteSet(E) /\ OriginsIn(tree') \in [E -> Origins]
      /\ \A x \in D : OriginsIn(tree')[x] = OriginsIn(tree)[x]
      /\ Owed(Before(new), OriginsIn(tree'), a) = OwedTo(a)
  BY <1>4, AddedOwed
<1>7. OriginsIn(tree')[new] = OriginOf(tree, h)
  <2>1. new \in E  BY <1>4 DEF Adds
  <2>2. CASE node.kind \notin LocalKinds
    BY <1>3, <1>4, <2>1, <2>2 DEF OriginsIn, OriginOf, RootOf, DrawsOn
  <2>3. CASE node.kind \in LocalKinds
    <3>1. RootOf(tree, h) \in D  BY <1>0, RootFacts
    <3>2. RootOf(tree, h) # NoNode  BY <3>1, NodesAssumption DEF IInv, TypeOK
    <3>3. RootOf(tree', new) = RootOf(tree, h)
      BY <1>4, <2>3, <3>2 DEF DrawsOn, RootOf
    <3> QED  BY SMTT(90), <1>1, <1>4, <2>1, <3>1, <3>3 DEF OriginsIn, OriginOf
  <2> QED  BY <2>2, <2>3
<1>8. OriginsIn(tree')[h] = OriginsIn(tree')[new]
  BY <1>0, <1>6, <1>7 DEF OriginsIn
<1> DEFINE less == [Before(new) EXCEPT ![h] = GasOf(t)[h]]
<1>9. Gains(E, less, Before(new), h, v) /\ Gains(E, less, GasOf(tree'), new, v)
  <2>1. E = D \cup {new} /\ new \notin D  BY <1>4 DEF Adds
  <2>2. /\ GasOf(t) \in [D -> Nat] /\ GasOf(tree)[h] = GasOf(t)[h] + v
        /\ \A x \in D \ {h} : GasOf(tree)[x] = GasOf(t)[x]
    BY <1>1 DEF Gains
  <2>3. Before(new)[new] = 0 /\ \A x \in D : Before(new)[x] = GasOf(tree)[x]
    BY <2>1 DEF Before
  <2>4. h \in D  BY <1>0
  <2> HIDE DEF D, E, h
  <2> QED  BY ONLY SMTT(90), <1>5, <1>6, <2>1, <2>2, <2>3, <2>4 DEF Gains
<1> HIDE DEF less, E
<1>10. Owed(GasOf(tree'), OriginsIn(tree'), a) = Owed(Before(new), OriginsIn(tree'), a)
  BY ONLY <1>6, <1>8, <1>9, OwedMoved
<1> QED  BY <1>6, <1>10 DEF OwedTo

\* Splitting off an unspecified node moves no gas.
LEMMA SplitOwed ==
  ASSUME IInv, Sourced, NEW k \in NodeIds, NEW new \in NodeIds, Split(k, new), NEW a
  PROVE  Sourced' /\ OwedTo(a)' = OwedTo(a)
<1> DEFINE D == DOMAIN tree
           E == DOMAIN tree'
           h == Holder(tree, k)
           node == NewNode("Unspecified", NoOrigin, h, RootOf(tree, h), 0, FALSE)
           t == [tree EXCEPT ![h].unspec = @ + 1]
<1>1. k \in D /\ new \notin D /\ tree' = Put(t, new, node)  BY DEF Split
<1>2. IInv'  BY SplitStep
<1>3. h \in D /\ tree \in [D -> GasNode]  BY <1>1, HolderFacts DEF IInv, TypeOK
<1>4. /\ node.kind = "Unspecified"
      /\ node.held = [s \in Slots |-> IF s = "value" THEN 0 ELSE 0]
  BY DEF NewNode
<1> HIDE DEF h, node
<1>5. t \in [D -> GasNode]
  <2>1. tree[h] \in GasNode /\ tree[h].unspec + 1 \in Nat  BY SMTT(90), <1>3 DEF GasNode
  <2>2. [tree[h] EXCEPT !.unspec = tree[h].unspec + 1] \in GasNode  BY <2>1 DEF GasNode
  <2> QED  BY <1>3, <2>2
<1>6. \A x \in D : /\ t[x].kind = tree[x].kind /\ t[x].root = tree[x].root
                   /\ t[x].origin = tree[x].origin /\ t[x].held = tree[x].held
  BY <1>3 DEF GasNode
<1> HIDE DEF t
<1>7. Adds(new) /\ tree'[new] = node /\ \A x \in D : tree'[x] = t[x]
  BY <1>1, <1>4, <1>5, <1>6, PutAdds DEF LocalKinds
<1>8. /\ Sourced'
      /\ Before(new) \in [E -> Nat] /\ GasOf(tree') \in [E -> Nat]
      /\ Owed(Before(new), OriginsIn(tree'), a) = OwedTo(a)
  BY <1>2, <1>7, AddedOwed
<1>9. GasOf(tree') = Before(new)
  <2>1. E = D \cup {new} /\ new \notin D  BY <1>7 DEF Adds
  <2>2. Sum(node.held) = 0  BY ONLY <1>4, 0 \in Nat, NewNodeGas
  <2>3. \A x \in E : GasOf(tree')[x] = Before(new)[x]
    BY <1>6, <1>7, <2>1, <2>2 DEF GasOf, Before
  <2> HIDE DEF E
  <2> QED  BY SMTT(90), <1>8, <2>3
<1> QED  BY <1>8, <1>9 DEF OwedTo

\* What Caught does to the gas of the nodes: that of s goes to the patron, or out.
LEMMA CaughtOwed ==
  ASSUME IInv, Sourced, NEW k, NEW s, NEW C, NEW R, Consuming(k, s, C, R), NEW a
  PROVE  LET t == Marked(tree, k)
         IN  /\ Owed(GasOf(Caught(t, s, C)), OriginsIn(tree), a) \in Nat
             /\ OwedTo(a) = Owed(GasOf(Caught(t, s, C)), OriginsIn(tree), a)
                             + Worth(OriginOf(tree, k), CaughtValue(t, s, C), a)
<1> DEFINE D == DOMAIN tree
           t == Marked(tree, k)
           u == Caught(t, s, C)
           P == Patrons(t, C)
           v == tree[s].held["value"]
           o == OriginOf(tree, k)
<1>1. k \in D /\ IsFiniteSet(D) /\ "value" \in Slots /\ tree \in [D -> GasNode]
  BY DEF Consuming, IInv, TypeOK, Slots
<1>2. IsCaught(u, k, s, P)  BY CaughtFacts
<1>3. \A x \in D : t[x].held = tree[x].held  BY <1>1, MarkedFacts
<1>4. OriginsIn(tree) \in [D -> Origins]  BY TreeIsRooted, OriginsType
<1>5. s # NoNode => s \in D /\ OriginsIn(tree)[s] = o
  <2> SUFFICES ASSUME s # NoNode PROVE s \in D /\ OriginOf(tree, s) = o
    BY DEF OriginsIn
  <2>1. s \in D /\ (s # k => s = tree[k].parent) /\ IsSource(s, k)
    BY SourceFacts DEF IsSource
  <2>2. CASE s = k
    BY <2>1, <2>2
  <2>3. CASE s # k
    <3>1. tree[k].kind \in LocalKinds
      <4>1. tree[k].parent # NoNode  BY <2>1, <2>3
      <4> QED  BY <1>1, <4>1 DEF IInv, Structure, ParentHoldsValue
    <3> QED  BY <1>1, <2>1, <2>3, <3>1, ParentRoot DEF OriginOf
  <2> QED  BY <2>2, <2>3
<1>6. /\ u \in [D -> GasNode]
      /\ \A x \in D : /\ \A r \in Slots \ {"value"} : u[x].held[r] = tree[x].held[r]
                      /\ x # s /\ (s = NoNode \/ x \notin P)
                            => u[x].held["value"] = tree[x].held["value"]
      /\ s # NoNode => u[s].held["value"] = 0
      /\ s # NoNode => \A x \in P \ {s} : u[x].held["value"] = tree[x].held["value"] + v
  BY <1>2 DEF IsCaught
<1>7. GasOf(u) \in [D -> Nat] /\ GasOf(tree) \in [D -> Nat]  BY <1>1, <1>6, GasOfType
<1>8. ASSUME NEW x \in D, x # s, s = NoNode \/ x \notin P PROVE GasOf(u)[x] = GasOf(tree)[x]
  <2>1. \A r \in Slots : u[x].held[r] = tree[x].held[r]  BY <1>6, <1>8
  <2> HIDE DEF u, D
  <2> QED  BY ONLY <1>1, <1>6, <1>8, <2>1, SameNode
<1>9. o \in Origins /\ Worth(o, 0, a) = 0
  <2>1. o \in Origins  BY <1>1, <1>4 DEF OriginsIn
  <2>2. o[2] \in Nat  BY <2>1, OriginsAssumption
  <2> QED  BY SMTT(90), <2>1, <2>2 DEF Worth
<1> DEFINE c == CaughtValue(t, s, C)
           before == Owed(GasOf(tree), OriginsIn(tree), a)
           after == Owed(GasOf(u), OriginsIn(tree), a)
<1> SUFFICES after \in Nat /\ before = after + Worth(o, c, a)
  BY DEF OwedTo
<1>10. before \in Nat
  <2>1. Gains(D, GasOf(tree), GasOf(tree), k, 0)  BY SMTT(90), <1>1, <1>7 DEF Gains
  <2> HIDE DEF D
  <2> QED  BY ONLY <1>1, <1>4, <2>1, OwedMore
<1>11. CASE s = NoNode
  <2>1. c = 0  BY <1>11 DEF CaughtValue
  <2>2. GasOf(u) = GasOf(tree)
    <3>1. \A x \in D : x # s  BY <1>11, NodesAssumption DEF IInv, TypeOK
    <3>2. \A x \in D : GasOf(u)[x] = GasOf(tree)[x]  BY <1>8, <1>11, <3>1
    <3> HIDE DEF u, D
    <3> QED  BY SMTT(90), <1>7, <3>2
  <2> HIDE DEF u, c
  <2> QED  BY SMTT(90), <1>9, <1>10, <2>1, <2>2
<1>12. CASE s # NoNode
  <2>1. s \in D /\ OriginsIn(tree)[s] = o /\ v \in Nat /\ s \in D
    BY <1>1, <1>5, <1>12 DEF GasNode
  <2>2. GasOf(tree)[s] = GasOf(u)[s] + v
    <3>1. tree[s].held["value"] = u[s].held["value"] + v
      <4>1. u[s].held["value"] = 0  BY <1>6, <1>12
      <4> HIDE DEF u
      <4> QED  BY ONLY SMTT(90), <2>1, <4>1
    <3>2. \A r \in Slots \ {"value"} : tree[s].held[r] = u[s].held[r]  BY <1>6, <2>1
    <3> HIDE DEF u, D, v
    <3> QED  BY ONLY <1>1, <1>6, <2>1, <3>1, <3>2, CreditNode
  <2>3. CASE P = {}
    <3>1. c = v  BY <1>3, <1>12, <2>1, <2>3 DEF CaughtValue
    <3>2. Gains(D, GasOf(u), GasOf(tree), s, v)
      <4>1. \A x \in D \ {s} : GasOf(tree)[x] = GasOf(u)[x]  BY <1>8, <2>3
      <4> HIDE DEF u, D, v, P
      <4> QED  BY <1>7, <2>1, <2>2, <4>1 DEF Gains
    <3> HIDE DEF u, c, v, D, o
    <3>3. /\ Owed(GasOf(u), OriginsIn(tree), a) \in Nat
          /\ Owed(GasOf(tree), OriginsIn(tree), a)
               = Owed(GasOf(u), OriginsIn(tree), a) + Worth(OriginsIn(tree)[s], v, a)
      BY ONLY <1>1, <1>4, <3>2, OwedMore
    <3> QED  BY <2>1, <3>1, <3>3
  <2>4. CASE P # {}
    <3>1. PICK p : p \in P  BY <2>4
    <3>2. p \in D /\ p # s /\ \A q \in P : q = p  BY <1>12, <3>1, PatronFacts
    <3>3. OriginsIn(tree)[p] = OriginsIn(tree)[s]
      BY SMTT(90), <1>12, <2>1, <3>1, <3>2, PatronOrigin DEF OriginsIn
    <3>4. c = 0  BY <2>4 DEF CaughtValue
    <3>5. GasOf(u)[p] = GasOf(tree)[p] + v
      <4>1. u[p].held["value"] = tree[p].held["value"] + v  BY <1>6, <1>12, <3>1, <3>2
      <4>2. \A r \in Slots \ {"value"} : u[p].held[r] = tree[p].held[r]  BY <1>6, <3>2
      <4> HIDE DEF u, D, v, P
      <4> QED  BY ONLY <1>1, <1>6, <2>1, <3>2, <4>1, <4>2, CreditNode
    <3> DEFINE less == [GasOf(tree) EXCEPT ![s] = GasOf(u)[s]]
    <3>6. \A x \in D \ {s, p} : GasOf(u)[x] = GasOf(tree)[x]  BY <1>8, <3>2
    <3> HIDE DEF u, c, v, D, o, P
    <3>7. Gains(D, less, GasOf(tree), s, v)
      BY <1>7, <2>1, <2>2 DEF Gains
    <3>8. Gains(D, less, GasOf(u), p, v)
      BY <1>7, <2>1, <3>2, <3>5, <3>6 DEF Gains
    <3> HIDE DEF less
    <3>9. Owed(GasOf(u), OriginsIn(tree), a) = Owed(GasOf(tree), OriginsIn(tree), a)
      BY ONLY <1>1, <1>4, <3>3, <3>7, <3>8, OwedMoved
    <3> QED  BY SMTT(90), <1>9, <1>10, <3>4, <3>9
  <2> QED  BY <2>3, <2>4
<1> QED  BY <1>11, <1>12

\* Consuming a node takes from what is owed to its origin what left the tree, and the
\* nodes it deletes are empty by then.
LEMMA ConsumeOwed ==
  ASSUME IInv, Sourced, NEW k \in NodeIds, Consume(k), NEW a
  PROVE  /\ Sourced' /\ OwedTo(a)' \in Nat /\ total - total' \in Nat
         /\ OwedTo(a) = OwedTo(a)' + Worth(OriginOf(tree, k), total - total', a)
<1> DEFINE t == Marked(tree, k)
           s == CatchSource(t, k)
           D == DOMAIN tree
<1>1. PICK C, R : /\ Consuming(k, s, C, R)
                  /\ tree' = Pruned(Caught(t, s, C), R)
                  /\ total' = total - CaughtValue(t, s, C)
  BY DEF Consume, Consuming
<1> DEFINE u == Caught(t, s, C)
           E == D \ R
           c == CaughtValue(t, s, C)
<1>2. LeavesOf(u, R)  BY <1>1, PrunedFacts
<1>3. IInv'  BY ConsumeStep
<1>4. IsCaught(u, k, s, Patrons(t, C))  BY <1>1, CaughtFacts
<1>5. \A x \in R : \A r \in Slots : u[x].held[r] = 0
  <2>1. IInv /\ Consuming(k, s, C, R)  BY <1>1
  <2> QED  BY ONLY <2>1, RemovedIsEmpty
<1>6. R \subseteq D  BY <1>1, RemovalRule
<1>7. c \in Nat  BY <1>1, CaughtGas
<1>8. /\ Owed(GasOf(u), OriginsIn(tree), a) \in Nat
      /\ OwedTo(a) = Owed(GasOf(u), OriginsIn(tree), a) + Worth(OriginOf(tree, k), c, a)
  BY <1>1, CaughtOwed
<1>9. total - total' = c
  <2>1. total \in Int  BY SMTT(90) DEF IInv, TypeOK
  <2> HIDE DEF c
  <2> QED  BY SMTT(90), <1>1, <1>7, <2>1 DEF c
<1> HIDE DEF u, t, s, c
<1>10. /\ DOMAIN tree' = E /\ u \in [D -> GasNode] /\ tree' \in [E -> GasNode]
       /\ \A x \in E : /\ tree'[x].kind = tree[x].kind /\ tree'[x].root = tree[x].root
                       /\ tree'[x].origin = tree[x].origin /\ tree'[x].held = u[x].held
  BY <1>2, <1>4 DEF LeavesOf, IsCaught
<1>11. Sourced'  BY <1>10 DEF Sourced
<1>12. Rooted(tree) /\ Rooted(tree')  BY <1>3, <1>11, TreeIsRooted, NextTreeIsRooted
<1>13. OriginsIn(tree) \in [D -> Origins] /\ OriginsIn(tree') \in [E -> Origins]
  BY <1>10, <1>12, OriginsType
<1>14. \A x \in E : OriginsIn(tree')[x] = OriginsIn(tree)[x]
  <2>1. SameRoots(tree, tree')  BY <1>10 DEF SameRoots
  <2>2. \A x \in DOMAIN tree \cap DOMAIN tree' : OriginsIn(tree')[x] = OriginsIn(tree)[x]
    BY <1>12, <2>1, OriginsKept
  <2> QED  BY <1>10, <2>2
<1>15. GasOf(u) \in [D -> Nat] /\ GasOf(tree') \in [E -> Nat]  BY <1>10, GasOfType
<1>16. \A x \in E : GasOf(tree')[x] = GasOf(u)[x]  BY <1>10 DEF GasOf
<1>17. \A x \in D \ E : GasOf(u)[x] = 0
  <2> SUFFICES ASSUME NEW x \in R PROVE Sum(u[x].held) = 0
    BY <1>6, <1>10 DEF GasOf
  <2>1. u[x].held \in [Slots -> Nat]  BY <1>6, <1>10 DEF GasNode
  <2> QED  BY <1>5, <2>1, SumZero
<1>18. E \subseteq D  OBVIOUS
<1> HIDE DEF D, E
<1>19. Owed(GasOf(tree'), OriginsIn(tree'), a) = Owed(GasOf(u), OriginsIn(tree), a)
  BY ONLY <1>13, <1>14, <1>15, <1>16, <1>17, <1>18, OwedOfMore
<1> QED  BY <1>7, <1>8, <1>9, <1>11, <1>19 DEF OwedTo

-----------------------------------------------------------------------------
(* The bank and the tree. *)

\* The inductive invariant of the two together.
BInv ==
    /\ IInv /\ Sourced /\ price \in Prices
    /\ deposited = [a \in Accounts |-> OwedTo(a)]

\* What is paid into or out of the account of origin o is what the gas is worth to it.
LEMMA Paid ==
  ASSUME NEW o \in Origins, NEW c \in Nat, BInv
  PROVE  /\ (\A a \in Accounts : OwedTo(a)' = OwedTo(a) + Worth(o, c, a))
            /\ (\A a \in Accounts : OwedTo(a) \in Nat)
            /\ deposited' = [deposited EXCEPT ![o[1]] = @ + c * o[2]]
              => deposited' = [a \in Accounts |-> OwedTo(a)']
         /\ (\A a \in Accounts : OwedTo(a)' \in Nat /\ OwedTo(a) = OwedTo(a)' + Worth(o, c, a))
            /\ deposited' = [deposited EXCEPT ![o[1]] = @ - c * o[2]]
              => deposited' = [a \in Accounts |-> OwedTo(a)']
<1> DEFINE w == c * o[2]
           owed == [a \in Accounts |-> OwedTo(a)]
           next == [a \in Accounts |-> OwedTo(a)']
<1>1. o[1] \in Accounts /\ o[2] \in Nat  BY OriginsAssumption
<1>2. w \in Nat  BY SMTT(90), <1>1
<1>3. \A a : Worth(o, c, a) = IF o[1] = a THEN w ELSE 0  BY DEF Worth
<1>4. deposited = owed  BY DEF BInv
<1>5. \A a \in Accounts : owed[a] = OwedTo(a) /\ next[a] = OwedTo(a)'  OBVIOUS
<1>6. DOMAIN owed = Accounts /\ DOMAIN next = Accounts  OBVIOUS
<1>7. next = [a \in Accounts |-> next[a]]  OBVIOUS
<1> HIDE DEF owed, next, w
<1>8. ASSUME \A a \in Accounts : OwedTo(a)' = OwedTo(a) + Worth(o, c, a),
             \A a \in Accounts : OwedTo(a) \in Nat, deposited' = [deposited EXCEPT ![o[1]] = @ + w]
      PROVE  deposited' = next
  <2>1. \A a \in Accounts : deposited'[a] = next[a]
    BY SMTT(90), <1>1, <1>2, <1>3, <1>4, <1>5, <1>6, <1>8
  <2>2. deposited' = [a \in Accounts |-> deposited'[a]]  BY <1>4, <1>8 DEF owed
  <2> QED  BY <1>7, <2>1, <2>2
<1>9. ASSUME \A a \in Accounts : OwedTo(a)' \in Nat /\ OwedTo(a) = OwedTo(a)' + Worth(o, c, a),
             deposited' = [deposited EXCEPT ![o[1]] = @ - w]
      PROVE  deposited' = next
  <2>1. \A a \in Accounts : deposited'[a] = next[a]
    BY SMTT(90), <1>1, <1>2, <1>3, <1>4, <1>5, <1>6, <1>9
  <2>2. deposited' = [a \in Accounts |-> deposited'[a]]  BY <1>4, <1>9 DEF owed
  <2> QED  BY <1>7, <2>1, <2>2
<1> QED  BY <1>8, <1>9 DEF next, w

\* Operations within the tree move gas between nodes of one origin.
LEMMA WithinTreeOwed ==
  ASSUME IInv, Sourced, WithinTree, NEW a
  PROVE  IInv' /\ Sourced' /\ OwedTo(a)' = OwedTo(a)
<1>1. 0..MaxBalance \subseteq Nat  BY SMTT(90), BalanceAssumption
<1>2. IInv'
  <2>1. Next  BY DEF WithinTree, Next
  <2> QED  BY <2>1, NextInvariant
<1>3. ASSUME NEW k \in NodeIds, NEW new \in NodeIds, NEW v \in Nat, NEW node,
             CreateFrom(k, new, v, node), DrawsOn(k, node),
             node.held = [s \in Slots |-> IF s = "value" THEN v ELSE 0]
      PROVE  Sourced' /\ OwedTo(a)' = OwedTo(a)
  BY <1>2, <1>3, CreateFromOwed
<1>4. ASSUME NEW k \in NodeIds, NEW new \in NodeIds, NEW v \in 0..MaxBalance,
             \/ SplitWithValue(k, new, v) \/ Cut(k, new, v)
             \/ CreateDeposit(k, new, v) \/ Reserve(k, new, v)
      PROVE  Sourced' /\ OwedTo(a)' = OwedTo(a)
  <2> DEFINE Drawn(kind, deposit) == NewNode(kind, OriginOf(tree, k), NoNode, NoNode, v, deposit)
             part == NewNode("Specified", NoOrigin, Holder(tree, k),
                             RootOf(tree, Holder(tree, k)), v, FALSE)
  <2>1. /\ DrawsOn(k, part)
        /\ part.held = [s \in Slots |-> IF s = "value" THEN v ELSE 0]
    BY DEF NewNode, DrawsOn, LocalKinds
  <2>2. ASSUME NEW kind \in {"External", "Cut", "Reserved"}, NEW deposit
        PROVE  /\ DrawsOn(k, Drawn(kind, deposit))
               /\ Drawn(kind, deposit).held = [s \in Slots |-> IF s = "value" THEN v ELSE 0]
    BY DEF NewNode, DrawsOn, LocalKinds
  <2>3. \/ CreateFrom(k, new, v, part) \/ CreateFrom(k, new, v, Drawn("Cut", FALSE))
        \/ CreateFrom(k, new, v, Drawn("External", TRUE))
        \/ CreateFrom(k, new, v, Drawn("Reserved", FALSE))
    BY <1>4, Zenon DEF SplitWithValue, Cut, CreateDeposit, Reserve
  <2> HIDE DEF part, Drawn
  <2>4. v \in Nat  BY <1>1
  <2> QED  BY <1>3, <2>1, <2>2, <2>3, <2>4, Zenon
<1>5. ASSUME NEW k \in NodeIds, NEW new \in NodeIds, Split(k, new)
      PROVE  Sourced' /\ OwedTo(a)' = OwedTo(a)
  BY <1>5, SplitOwed
<1>6. ASSUME NEW k \in DOMAIN tree, NEW s \in Slots, NEW v \in Nat,
             \/ /\ v <= tree[Holder(tree, k)].held["value"]
                /\ tree' = Transfer(tree, Holder(tree, k), "value", k, s, v)
             \/ /\ v <= tree[k].held[s]
                /\ tree' = Transfer(tree, k, s, Holder(tree, k), "value", v)
      PROVE  Sourced' /\ OwedTo(a)' = OwedTo(a)
  <2>1. Holder(tree, k) \in DOMAIN tree /\ OriginOf(tree, Holder(tree, k)) = OriginOf(tree, k)
    BY HolderFacts, HolderOrigin
  <2>2. "value" \in Slots  BY DEF Slots
  <2>3. CASE /\ v <= tree[Holder(tree, k)].held["value"]
             /\ tree' = Transfer(tree, Holder(tree, k), "value", k, s, v)
    BY <1>2, <2>1, <2>2, <2>3, TransferOwed
  <2>4. CASE /\ v <= tree[k].held[s]
             /\ tree' = Transfer(tree, k, s, Holder(tree, k), "value", v)
    BY <1>2, <2>1, <2>2, <2>4, TransferOwed
  <2> QED  BY <1>6, <2>3, <2>4
<1>7. LockIds \subseteq Slots /\ "system" \in Slots  BY DEF Slots
<1>8. ASSUME NEW k \in NodeIds, NEW id \in LockIds, NEW v \in 0..MaxBalance,
             \/ Lock(k, id, v) \/ Unlock(k, id, v) \/ SystemReserve(k, v) \/ SystemUnreserve(k)
      PROVE  Sourced' /\ OwedTo(a)' = OwedTo(a)
  <2>1. k \in DOMAIN tree /\ v \in Nat
    BY <1>1, <1>8 DEF Lock, Unlock, SystemReserve, SystemUnreserve
  <2>2. CASE Lock(k, id, v)  BY <1>6, <1>7, <2>1, <2>2 DEF Lock
  <2>3. CASE Unlock(k, id, v)  BY <1>6, <1>7, <2>1, <2>3 DEF Unlock
  <2>4. CASE SystemReserve(k, v)  BY <1>6, <1>7, <2>1, <2>4 DEF SystemReserve
  <2>5. CASE SystemUnreserve(k)
    <3> DEFINE w == tree[k].held["system"]
    <3>1. w \in Nat  BY <1>7, <2>1 DEF IInv, TypeOK, GasNode
    <3>2. w <= tree[k].held["system"]  BY SMTT(90), <3>1
    <3>3. tree' = Transfer(tree, k, "system", Holder(tree, k), "value", w)
      BY <2>5 DEF SystemUnreserve
    <3> HIDE DEF w
    <3> QED  BY <1>6, <1>7, <2>1, <3>1, <3>2, <3>3
  <2> QED  BY <1>8, <2>2, <2>3, <2>4, <2>5
<1> QED  BY <1>2, <1>4, <1>5, <1>8 DEF WithinTree

\* The bank pays in and out exactly what the gas of the tree gains and loses.
LEMMA BankStep ==
  ASSUME BInv, BankNext
  PROVE  BInv'
<1>1. 0..MaxBalance \subseteq Nat  BY SMTT(90), BalanceAssumption
<1>2. IInv /\ Sourced /\ price \in Prices /\ deposited = [a \in Accounts |-> OwedTo(a)]
  BY DEF BInv
<1>3. ASSUME NEW k \in DOMAIN tree PROVE OriginOf(tree, k) \in Origins
  <2>1. OriginsIn(tree) \in [DOMAIN tree -> Origins]  BY <1>2, TreeIsRooted, OriginsType
  <2> QED  BY <2>1 DEF OriginsIn
<1>4. ASSUME NEW a \in Accounts, NEW k \in NodeIds, NEW v \in 0..MaxBalance,
             DepositAndCreate(a, k, v)
      PROVE  BInv'
  <2> DEFINE o == <<a, price>>
  <2>1. o \in Origins /\ o[1] = a /\ o[2] = price /\ v \in Nat
    BY <1>1, <1>2, OriginsAssumption
  <2>2. /\ Create(o, k, v) /\ price' = price
        /\ deposited' = [deposited EXCEPT ![o[1]] = @ + v * o[2]]
    BY <1>4, <2>1 DEF DepositAndCreate
  <2> HIDE DEF o
  <2>3. IInv'  BY <1>2, <2>1, <2>2, CreateStep
  <2>4. \A b : Sourced' /\ OwedTo(b) \in Nat /\ OwedTo(b)' = OwedTo(b) + Worth(o, v, b)
    BY <1>2, <2>1, <2>2, CreateOwed
  <2>5. deposited' = [b \in Accounts |-> OwedTo(b)']  BY <2>1, <2>2, <2>4, Paid
  <2> QED  BY <1>2, <2>2, <2>3, <2>4, <2>5 DEF BInv
<1>5. ASSUME NEW k \in NodeIds, NEW v \in 0..MaxBalance, SpendGas(k, v)
      PROVE  BInv'
  <2> DEFINE o == OriginOf(tree, k)
  <2>1. Spend(k, v) /\ k \in DOMAIN tree /\ v \in Nat  BY <1>1, <1>5 DEF SpendGas, Spend
  <2>2. price' = price /\ deposited' = [deposited EXCEPT ![o[1]] = @ - v * o[2]]
    BY <1>5 DEF SpendGas
  <2>3. IInv'  BY <1>2, <2>1, SpendStep
  <2>4. \A b : Sourced' /\ OwedTo(b)' \in Nat /\ OwedTo(b) = OwedTo(b)' + Worth(o, v, b)
    BY <1>2, <2>1, SpendOwed
  <2>5. o \in Origins  BY <1>3, <2>1
  <2> HIDE DEF o
  <2>6. deposited' = [b \in Accounts |-> OwedTo(b)']  BY <2>1, <2>2, <2>4, <2>5, Paid
  <2> QED  BY <1>2, <2>2, <2>3, <2>4, <2>6 DEF BInv
<1>6. ASSUME NEW k \in NodeIds, ConsumeAndRetrieve(k)
      PROVE  BInv'
  <2> DEFINE o == OriginOf(tree, k)
             c == total - total'
  <2>1. Consume(k) /\ k \in DOMAIN tree  BY <1>6 DEF ConsumeAndRetrieve, Consume
  <2>2. price' = price /\ deposited' = [deposited EXCEPT ![o[1]] = @ - c * o[2]]
    BY <1>6 DEF ConsumeAndRetrieve
  <2>3. IInv'  BY <1>2, <2>1, ConsumeStep
  <2>4. \A b : /\ Sourced' /\ OwedTo(b)' \in Nat /\ c \in Nat
               /\ OwedTo(b) = OwedTo(b)' + Worth(o, c, b)
    BY <1>2, <2>1, ConsumeOwed
  <2>5. o \in Origins  BY <1>3, <2>1
  <2> HIDE DEF o, c
  <2>6. deposited' = [b \in Accounts |-> OwedTo(b)']  BY <2>2, <2>4, <2>5, Paid
  <2> QED  BY <1>2, <2>2, <2>3, <2>4, <2>6 DEF BInv
<1>7. CASE WithinTree
  <2>1. price' = price /\ deposited' = deposited  BY <1>7 DEF WithinTree
  <2>2. \A a : IInv' /\ Sourced' /\ OwedTo(a)' = OwedTo(a)  BY <1>2, <1>7, WithinTreeOwed
  <2> QED  BY <1>2, <2>1, <2>2 DEF BInv
<1>8. ASSUME NEW p \in Prices, SetMultiplier(p)
      PROVE  BInv'
  <2>1. UNCHANGED vars /\ price' = p /\ deposited' = deposited
    BY <1>8 DEF SetMultiplier, vars
  <2>2. IInv'  BY <1>2, <2>1 DEF vars, IInv, TypeOK, Structure, Shaped, ParentHoldsValue,
         RefsMatchChildren, NoConsumedLeaf, RootOutlivesDescendants, Ranked,
         ConsumedIsDrained, TotalIsHeld
  <2> QED  BY <1>2, <2>1, <2>2 DEF vars, BInv, Sourced, OwedTo
<1> QED  BY <1>4, <1>5, <1>6, <1>7, <1>8 DEF BankNext

\* What the invariant says account by account.
LEMMA OwedIsHeld ==
  ASSUME BInv
  PROVE  DepositsMatchGas
<1> SUFFICES ASSUME NEW a \in Accounts
             PROVE  OwedTo(a) = Sum([k \in {x \in DOMAIN tree : OriginOf(tree, x)[1] = a}
                                        |-> ValueOf(k)])
  BY DEF BInv, DepositsMatchGas
<1> DEFINE D == DOMAIN tree
           E == {x \in D : OriginOf(tree, x)[1] = a}
           f == Worths(GasOf(tree), OriginsIn(tree), a)
           g == [k \in E |-> ValueOf(k)]
<1>1. GasOf(tree) \in [D -> Nat] /\ OriginsIn(tree) \in [D -> Origins]
  <2>1. tree \in [D -> GasNode]  BY DEF BInv, IInv, TypeOK
  <2> QED  BY <2>1, GasOfType, TreeIsRooted, OriginsType DEF BInv
<1>2. f \in [D -> Nat]  BY <1>1, WorthsType
<1>3. /\ \A k \in E : g[k] = f[k]
      /\ \A k \in D \ E : f[k] = 0
  BY <1>1 DEF Worths, Worth, ValueOf, OriginsIn
<1>4. g \in [E -> Nat]  BY <1>2, <1>3
<1>5. E \subseteq D  OBVIOUS
<1> HIDE DEF D, E, f, g
<1>6. Sum(g) = Sum(f)  BY ONLY <1>2, <1>3, <1>4, <1>5, SumDropZeros
<1> QED  BY <1>6 DEF OwedTo, Owed, f, g, D, E

\* The bank holds for every account exactly what the gas of its nodes was bought for, at
\* whatever multipliers and however the gas moved through the tree since: spend_gas and
\* withdraw_gas never find too little, and nothing is left over.
THEOREM BankMatchesTree == BankSpec => []DepositsMatchGas
<1>1. BankInit => BInv
  <2> SUFFICES ASSUME BankInit PROVE BInv
    OBVIOUS
  <2>1. IInv /\ DOMAIN tree = {}  BY InitInvariant DEF BankInit, Init
  <2>2. Sourced  BY <2>1 DEF Sourced
  <2>3. ASSUME NEW a \in Accounts PROVE OwedTo(a) = 0
    <3>1. GasOf(tree) \in [{} -> Nat] /\ OriginsIn(tree) \in [{} -> Origins]
      BY <2>1 DEF GasOf, OriginsIn
    <3>2. Worths(GasOf(tree), OriginsIn(tree), a) \in [{} -> Nat]  BY <3>1, WorthsType
    <3> QED  BY <3>2, SumZero DEF OwedTo, Owed
  <2> QED  BY <2>1, <2>2, <2>3 DEF BankInit, BInv
<1>2. BInv /\ [BankNext]_bankVars => BInv'
  <2> SUFFICES ASSUME BInv, [BankNext]_bankVars PROVE BInv'
    OBVIOUS
  <2>1. CASE BankNext
    BY <2>1, BankStep
  <2>2. CASE UNCHANGED bankVars
    BY <2>2 DEF bankVars, BInv, Sourced, OwedTo, IInv, TypeOK, Structure, Shaped,
         ParentHoldsValue, RefsMatchChildren, NoConsumedLeaf, RootOutlivesDescendants, Ranked,
         ConsumedIsDrained, TotalIsHeld
  <2> QED  BY <2>1, <2>2
<1>3. BInv => DepositsMatchGas  BY OwedIsHeld
<1> QED  BY <1>1, <1>2, <1>3, PTL DEF BankSpec
=============================================================================
