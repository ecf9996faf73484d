--------------------------- MODULE TallyTheorems ---------------------------
(***************************************************************************)
(* What the conservation proofs need to know of Sum: its type, and how it  *)
(* changes when one value changes, when a point is added or removed, and   *)
(* when points with value 0 are dropped.                                   *)
(***************************************************************************)
EXTENDS Tally, FiniteSetTheorems, TLAPS

\* Membership in UnitsOf, spelt out once for the provers.
LEMMA UnitsOfMember ==
  ASSUME NEW S, NEW f \in [S -> Nat], NEW u
  PROVE  u \in UnitsOf(f) <=> \E x \in S : u \in {x} \X (1..f[x])
  BY DEF UnitsOf

\* The units of one account are as many as its balance.
LEMMA UnitsOfPoint ==
  ASSUME NEW x, NEW n \in Nat
  PROVE  IsFiniteSet({x} \X (1..n)) /\ Cardinality({x} \X (1..n)) = n
<1>1. IsFiniteSet({x}) /\ Cardinality({x}) = 1
  BY FS_Singleton
<1>2. IsFiniteSet(1..n) /\ Cardinality(1..n) = n
  <2>1. 1 \in Int /\ n \in Int
    OBVIOUS
  <2> QED  BY <2>1, FS_Interval
<1>3. /\ IsFiniteSet({x} \X (1..n))
      /\ Cardinality({x} \X (1..n)) = Cardinality({x}) * Cardinality(1..n)
  BY ONLY <1>1, <1>2, FS_Product
<1> QED  BY <1>1, <1>2, <1>3

\* Finitely many accounts hold finitely many units.
LEMMA UnitsOfFinite ==
  ASSUME NEW S, IsFiniteSet(S), NEW f \in [S -> Nat]
  PROVE  IsFiniteSet(UnitsOf(f))
<1> DEFINE U == {{x} \X (1..f[x]) : x \in S}
           h == [x \in S |-> {x} \X (1..f[x])]
<1>1. h \in Surjection(S, U)
  BY DEF Surjection
<1>2. IsFiniteSet(U)
  BY ONLY <1>1, IsFiniteSet(S), FS_Surjection
<1>3. ASSUME NEW T \in U PROVE IsFiniteSet(T)
  <2>1. PICK x \in S : T = {x} \X (1..f[x])
    BY <1>3
  <2>2. f[x] \in Nat
    OBVIOUS
  <2> QED  BY <2>1, <2>2, UnitsOfPoint
<1>4. IsFiniteSet(UNION U)
  BY ONLY <1>2, <1>3, FS_UNION
<1> QED  BY <1>4 DEF UnitsOf

\* The sum of finitely many naturals is a natural number.
THEOREM SumType ==
  ASSUME NEW S, IsFiniteSet(S), NEW f \in [S -> Nat]
  PROVE  Sum(f) \in Nat
  BY UnitsOfFinite, FS_CardinalityType DEF Sum

\* Splitting one account off a sum.
THEOREM SumSplit ==
  ASSUME NEW S, IsFiniteSet(S), NEW f \in [S -> Nat], NEW a \in S,
         NEW g \in [S \ {a} -> Nat], \A x \in S \ {a} : g[x] = f[x]
  PROVE  Sum(f) = Sum(g) + f[a]
<1> DEFINE P == {a} \X (1..f[a])
<1>1. IsFiniteSet(UnitsOf(g))
  <2>1. IsFiniteSet(S \ {a})
    BY FS_RemoveElement
  <2> QED  BY <2>1, UnitsOfFinite
<1>2. IsFiniteSet(P) /\ Cardinality(P) = f[a]
  BY UnitsOfPoint
<1>3. UnitsOf(f) = UnitsOf(g) \cup P
  <2>1. ASSUME NEW u \in UnitsOf(f) PROVE u \in UnitsOf(g) \cup P
    <3>1. PICK x \in S : u \in {x} \X (1..f[x])
      BY <2>1, UnitsOfMember
    <3> QED  BY <3>1, UnitsOfMember
  <2>2. ASSUME NEW u \in UnitsOf(g) PROVE u \in UnitsOf(f)
    <3>1. PICK x \in S \ {a} : u \in {x} \X (1..g[x])
      BY <2>2, UnitsOfMember
    <3> QED  BY <3>1, UnitsOfMember
  <2>3. P \subseteq UnitsOf(f)
    BY UnitsOfMember
  <2> QED  BY <2>1, <2>2, <2>3
<1>4. UnitsOf(g) \cap P = {}
  <2> SUFFICES ASSUME NEW u \in UnitsOf(g), u \in P PROVE FALSE
    OBVIOUS
  <2>1. PICK x \in S \ {a} : u \in {x} \X (1..g[x])
    BY UnitsOfMember
  <2> QED  BY <2>1
<1>5. Cardinality(UnitsOf(g) \cup P) =
         Cardinality(UnitsOf(g)) + Cardinality(P) - Cardinality(UnitsOf(g) \cap P)
  BY ONLY <1>1, <1>2, FS_Union
<1>6. Cardinality(UnitsOf(g) \cap P) = 0
  BY <1>4, FS_EmptySet
<1>7. Cardinality(UnitsOf(g)) \in Nat
  BY <1>1, FS_CardinalityType
<1> QED  BY <1>2, <1>3, <1>5, <1>6, <1>7 DEF Sum

\* Changing the value of one account changes the sum by as much.
THEOREM SumChange ==
  ASSUME NEW S, IsFiniteSet(S), NEW f \in [S -> Nat], NEW g \in [S -> Nat],
         NEW a \in S, \A x \in S \ {a} : g[x] = f[x]
  PROVE  Sum(g) + f[a] = Sum(f) + g[a]
<1> DEFINE h == [x \in S \ {a} |-> f[x]]
<1>1. h \in [S \ {a} -> Nat]
  OBVIOUS
<1>2. Sum(f) = Sum(h) + f[a]
  BY <1>1, SumSplit
<1>3. Sum(g) = Sum(h) + g[a]
  BY <1>1, SumSplit
<1>4. Sum(h) \in Nat
  <2>1. IsFiniteSet(S \ {a})
    BY FS_RemoveElement
  <2> QED  BY <1>1, <2>1, SumType
<1> QED  BY <1>2, <1>3, <1>4

\* No account holds more than the sum.
THEOREM SumBound ==
  ASSUME NEW S, IsFiniteSet(S), NEW f \in [S -> Nat], NEW a \in S
  PROVE  f[a] <= Sum(f)
<1> DEFINE h == [x \in S \ {a} |-> f[x]]
<1>1. h \in [S \ {a} -> Nat]
  OBVIOUS
<1>2. Sum(f) = Sum(h) + f[a]
  BY <1>1, SumSplit
<1>3. Sum(h) \in Nat
  <2>1. IsFiniteSet(S \ {a})
    BY FS_RemoveElement
  <2> QED  BY <1>1, <2>1, SumType
<1> QED  BY <1>2, <1>3

\* Accounts that hold nothing can be left out of a sum.
THEOREM SumDropZeros ==
  ASSUME NEW S, NEW T, T \subseteq S, NEW f \in [S -> Nat], NEW g \in [T -> Nat],
         \A x \in T : g[x] = f[x], \A x \in S \ T : f[x] = 0
  PROVE  Sum(g) = Sum(f)
<1>1. ASSUME NEW u \in UnitsOf(f) PROVE u \in UnitsOf(g)
  <2>1. PICK x \in S : u \in {x} \X (1..f[x])
    BY <1>1, UnitsOfMember
  <2> QED  BY <2>1, UnitsOfMember
<1>2. ASSUME NEW u \in UnitsOf(g) PROVE u \in UnitsOf(f)
  <2>1. PICK x \in T : u \in {x} \X (1..g[x])
    BY <1>2, UnitsOfMember
  <2> QED  BY <2>1, UnitsOfMember
<1>3. UnitsOf(f) = UnitsOf(g)
  BY <1>1, <1>2
<1> QED  BY <1>3 DEF Sum

\* A sum of zeros is zero.
THEOREM SumZero ==
  ASSUME NEW S, NEW f \in [S -> Nat], \A x \in S : f[x] = 0
  PROVE  Sum(f) = 0
<1>1. UnitsOf(f) = {}
  <2> SUFFICES ASSUME NEW u \in UnitsOf(f) PROVE FALSE
    OBVIOUS
  <2>1. PICK x \in S : u \in {x} \X (1..f[x])
    BY UnitsOfMember
  <2> QED  BY <2>1
<1> QED  BY <1>1, FS_EmptySet DEF Sum
=============================================================================
