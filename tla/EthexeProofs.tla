---------------------------- MODULE EthexeProofs ----------------------------
(***************************************************************************)
(* Proofs about EthexePrepare and EthexeNode.  Three invariants, each of   *)
(* which rests on the ones before it: PrepareInv of the pipeline of        *)
(* Ethereum blocks, StoreInv of the block store, the database and the      *)
(* app's handler between its awaits, and ExecInv of the events held back   *)
(* and the blocks executed.                                                *)
(***************************************************************************)
EXTENDS EthexeNode, FiniteSetTheorems, NaturalsInduction, TLAPS

\* First-order leaves first, then arithmetic and records.
USE ZenonT(5), SMTT(90)

-----------------------------------------------------------------------------
(* Least and greatest numbers. *)

\* A set of naturals that is not empty has a least member.
LEMMA LeastNat ==
  ASSUME NEW T, T \subseteq Nat, T # {}
  PROVE  \E m \in T : \A n \in T : m <= n
<1>1. \E x \in T : \A y \in T : ~(<<y, x>> \in OpToRel(<, Nat))
  BY WFMin, NatLessThanWellFounded
<1>2. \E x \in T : \A y \in T : ~(y < x)  BY <1>1 DEF OpToRel
<1> QED  BY SMTT(90), <1>2

\* Max, as the walks of the store use it, is the greatest of a bounded set.
LEMMA MaxIs ==
  ASSUME NEW n \in Nat, NEW S, S \subseteq 0..n, S # {}
  PROVE  Max(S) \in S /\ Max(S) \in Nat /\ \A y \in S : y <= Max(S)
<1> DEFINE T == {n - x : x \in S}
<1>1. T \subseteq Nat /\ T # {}
  <2>1. \A x \in S : n - x \in Nat  BY SMTT(90)
  <2> QED  BY <2>1
<1>2. PICK m \in T : \A k \in T : m <= k
  <2> HIDE DEF T
  <2> QED  BY <1>1, LeastNat
<1>3. PICK x \in S : m = n - x  OBVIOUS
<1>4. x \in S /\ \A y \in S : x >= y
  <2> SUFFICES ASSUME NEW y \in S PROVE x >= y  OBVIOUS
  <2>1. m <= n - y  BY <1>2
  <2> QED  BY SMTT(90), <1>3, <2>1
<1>5. Max(S) \in S /\ \A y \in S : Max(S) >= y
  <2> HIDE DEF T
  <2> QED  BY ONLY <1>4, Zenon DEF Max
<1>6. Max(S) \in 0..n /\ \A y \in S : y \in 0..n  BY <1>5
<1> HIDE DEF T
<1> QED  BY SMTT(90), <1>5, <1>6

\* Min, as the drain of the pending events uses it, is the least of a set of naturals.
LEMMA MinIs ==
  ASSUME NEW S, S \subseteq Nat, S # {}
  PROVE  Min(S) \in S /\ \A y \in S : Min(S) <= y
<1>1. PICK m \in S : \A k \in S : m =< k  BY LeastNat
<1> QED  BY ONLY <1>1, Zenon DEF Min

-----------------------------------------------------------------------------
(* Chains of Ethereum blocks. *)

\* The recursion of ChainTo has a solution.
LEMMA ChainExists ==
  ASSUME NEW p \in Seq(Nat), \A b \in 1..Len(p) : p[b] \in 0..(b - 1)
  PROVE  \E f : f = [x \in 0..Len(p) |-> IF x = 0 THEN <<>> ELSE Append(f[p[x]], x)]
<1> DEFINE N == Len(p)
           Up(f, n) == \A x \in 0..n : f[x] = IF x = 0 THEN <<>> ELSE Append(f[p[x]], x)
           Bad == {n \in 0..N : ~ \E f \in [0..n -> Seq(Nat)] : Up(f, n)}
<1>1. N \in Nat  OBVIOUS
<1>2. Bad = {}
  <2> SUFFICES ASSUME Bad # {} PROVE FALSE  OBVIOUS
  <2>1. Bad \subseteq Nat  BY SMTT(90), <1>1
  <2>2. PICK n \in Bad : \A k \in Bad : n <= k
    <3> HIDE DEF Bad
    <3> QED  BY <2>1, LeastNat
  <2>3. n \in 0..N /\ ~ \E f \in [0..n -> Seq(Nat)] : Up(f, n)  OBVIOUS
  <2>4. n # 0
    <3> SUFFICES ASSUME n = 0 PROVE FALSE  OBVIOUS
    <3> DEFINE g == [x \in 0..0 |-> <<>>]
    <3>1. g \in [0..0 -> Seq(Nat)]  BY SMTT(90)
    <3>2. Up(g, 0)  BY SMTT(90)
    <3> QED  BY <2>3, <3>1, <3>2, Zenon
  <2>5. n - 1 \in 0..N /\ n \in Nat /\ n - 1 \in Nat  BY SMTT(90), <1>1, <2>3, <2>4
  <2>6. n - 1 \notin Bad
    <3> HIDE DEF Bad
    <3> QED  BY SMTT(90), <2>2, <2>5
  <2>7. PICK f \in [0..(n - 1) -> Seq(Nat)] : Up(f, n - 1)  BY <2>5, <2>6
  <2> DEFINE g == [x \in 0..n |-> IF x = n THEN Append(f[p[n]], n) ELSE f[x]]
  <2>8. p[n] \in 0..(n - 1)  BY SMTT(90), <2>3, <2>4, <2>5
  <2>9. \A x \in 0..n : x # n => x \in 0..(n - 1)  BY SMTT(90), <2>5
  <2>10. Append(f[p[n]], n) \in Seq(Nat)
    <3>1. f[p[n]] \in Seq(Nat)  BY <2>8
    <3> QED  BY SMTT(90), <3>1, <2>5
  <2>11. g \in [0..n -> Seq(Nat)]  BY <2>9, <2>10
  <2>12. Up(g, n)
    <3> SUFFICES ASSUME NEW x \in 0..n
                 PROVE  g[x] = IF x = 0 THEN <<>> ELSE Append(g[p[x]], x)
      OBVIOUS
    <3>1. CASE x = n
      <4>1. p[n] \in 0..n /\ p[n] # n  BY SMTT(90), <2>5, <2>8
      <4>2. g[p[n]] = f[p[n]] /\ g[n] = Append(f[p[n]], n)  BY <3>1, <4>1
      <4> QED  BY <2>4, <3>1, <4>2
    <3>2. CASE x # n /\ x = 0
      <4>1. x \in 0..(n - 1) /\ g[x] = f[x]  BY <2>9, <3>2
      <4> QED  BY <2>7, <3>2, <4>1
    <3>3. CASE x # n /\ x # 0
      <4>1. x \in 0..(n - 1) /\ g[x] = f[x]  BY <2>9, <3>3
      <4>2. f[x] = Append(f[p[x]], x)  BY <2>7, <3>3, <4>1
      <4>3. x \in 1..Len(p)  BY SMTT(90), <2>3, <3>3
      <4>4. p[x] \in 0..(x - 1)  BY <4>3
      <4>5. p[x] \in 0..n /\ p[x] # n  BY SMTT(90), <2>5, <4>1, <4>4
      <4>6. g[p[x]] = f[p[x]]  BY <4>5
      <4> QED  BY <3>3, <4>1, <4>2, <4>6
    <3> QED  BY <3>1, <3>2, <3>3
  <2> HIDE DEF g
  <2> QED  BY <2>3, <2>11, <2>12
<1>3. N \notin Bad  BY <1>2
<1>4. N \in 0..N  BY SMTT(90), <1>1
<1>5. PICK f \in [0..N -> Seq(Nat)] : Up(f, N)  BY <1>3, <1>4
<1>6. f = [x \in 0..N |-> IF x = 0 THEN <<>> ELSE Append(f[p[x]], x)]  BY <1>5
<1> QED  BY <1>6

\* ChainTo over a given tree.
ChainOf(p, b) ==
    LET up[x \in 0..Len(p)] == IF x = 0 THEN <<>> ELSE Append(up[p[x]], x)
    IN up[b]

\* The blocks of a tree have older parents.
IsTree(p) == p \in Seq(Nat) /\ \A b \in 1..Len(p) : p[b] \in 0..(b - 1)

\* A block's ancestors by their links: the chain ends in the block, every block
\* of it is the child of the one before, and the first is the child of the
\* start block.
IsChain(p, c, b) ==
    /\ c \in Seq(1..Len(p)) /\ Len(c) \in Nat
    /\ b # 0 => Len(c) > 0 /\ c[Len(c)] = b
    /\ b = 0 => c = <<>>
    /\ \A i \in 1..Len(c) : p[c[i]] = IF i = 1 THEN 0 ELSE c[i - 1]

\* ChainTo is that chain.
LEMMA ChainIs ==
  ASSUME NEW p, IsTree(p), NEW b \in 0..Len(p)
  PROVE  IsChain(p, ChainOf(p, b), b)
<1> DEFINE N == Len(p)
           Bad == {n \in 0..N : ~IsChain(p, ChainOf(p, n), n)}
<1>1. p \in Seq(Nat) /\ N \in Nat  BY DEF IsTree
<1>2. /\ ChainOf(p, 0) = <<>>
      /\ \A x \in 1..N : ChainOf(p, x) = Append(ChainOf(p, p[x]), x)
  <2> DEFINE up == CHOOSE f : f = [x \in 0..Len(p) |-> IF x = 0 THEN <<>> ELSE Append(f[p[x]], x)]
  <2>1. up = [x \in 0..Len(p) |-> IF x = 0 THEN <<>> ELSE Append(up[p[x]], x)]
    BY ChainExists, Zenon DEF IsTree
  <2>2. \A x : ChainOf(p, x) = up[x]  BY DEF ChainOf
  <2> HIDE DEF up
  <2>3. 0 \in 0..N /\ \A x \in 1..N : x \in 0..N /\ x # 0  BY SMTT(90), <1>1
  <2>4. up[0] = <<>>  BY <2>1, <2>3
  <2>5. \A x \in 1..N : up[x] = Append(up[p[x]], x)  BY <2>1, <2>3
  <2> QED  BY <2>2, <2>4, <2>5
<1>3. Bad = {}
  <2> SUFFICES ASSUME Bad # {} PROVE FALSE  OBVIOUS
  <2>1. Bad \subseteq Nat  BY SMTT(90), <1>1
  <2>2. PICK n \in Bad : \A k \in Bad : n <= k
    <3> HIDE DEF Bad
    <3> QED  BY <2>1, LeastNat
  <2>3. n \in 0..N /\ ~IsChain(p, ChainOf(p, n), n)  OBVIOUS
  <2>4. n # 0
    <3>1. IsChain(p, <<>>, 0)  BY SMTT(90), <1>1 DEF IsChain
    <3> QED  BY <1>2, <2>3, <3>1
  <2>5. n \in 1..N /\ n \in Nat  BY SMTT(90), <1>1, <2>3, <2>4
  <2>6. p[n] \in 0..(n - 1)  BY <2>5 DEF IsTree
  <2>7. p[n] \in 0..N /\ p[n] < n /\ p[n] \in Nat  BY SMTT(90), <1>1, <2>5, <2>6
  <2>8. p[n] \notin Bad
    <3> HIDE DEF Bad
    <3> QED  BY SMTT(90), <2>1, <2>2, <2>5, <2>7
  <2>9. IsChain(p, ChainOf(p, p[n]), p[n])  BY <2>7, <2>8
  <2> DEFINE c == ChainOf(p, p[n])
  <2>10. ChainOf(p, n) = Append(c, n)  BY <1>2, <2>5
  <2>11. IsChain(p, c, p[n])  BY <2>9
  <2> HIDE DEF c, Bad
  <2>12. IsChain(p, Append(c, n), n)
    <3>1. c \in Seq(1..N) /\ Len(c) \in Nat  BY <2>11 DEF IsChain
    <3>2. /\ Append(c, n) \in Seq(1..N) /\ Len(Append(c, n)) = Len(c) + 1
          /\ Append(c, n)[Len(c) + 1] = n
          /\ \A i \in 1..Len(c) : Append(c, n)[i] = c[i]
      BY SMTT(90), <3>1, <2>5
    <3> HIDE DEF N
    <3>3. ASSUME NEW i \in 1..(Len(c) + 1)
          PROVE  p[Append(c, n)[i]] = IF i = 1 THEN 0 ELSE Append(c, n)[i - 1]
      <4>1. CASE i \in 1..Len(c)
        <5>1. i # 1 => i - 1 \in 1..Len(c)  BY SMTT(90), <3>1, <4>1
        <5>2. p[c[i]] = IF i = 1 THEN 0 ELSE c[i - 1]  BY <2>11, <4>1 DEF IsChain
        <5> QED  BY <3>2, <4>1, <5>1, <5>2
      <4>2. CASE i = Len(c) + 1 /\ p[n] = 0
        <5>1. c = <<>>  BY <2>11, <4>2 DEF IsChain
        <5>2. i = 1  BY SMTT(90), <4>2, <5>1
        <5> QED  BY <3>2, <4>2, <5>2
      <4>3. CASE i = Len(c) + 1 /\ p[n] # 0
        <5>1. Len(c) > 0 /\ c[Len(c)] = p[n]  BY <2>11, <4>3 DEF IsChain
        <5>2. i # 1 /\ i - 1 = Len(c) /\ Len(c) \in 1..Len(c)  BY SMTT(90), <3>1, <4>3, <5>1
        <5> QED  BY <3>2, <4>3, <5>1, <5>2
      <4> QED  BY SMTT(90), <3>1, <4>1, <4>2, <4>3
    <3>4. Len(c) + 1 \in Nat /\ Len(c) + 1 > 0  BY SMTT(90), <3>1
    <3> QED  BY <2>4, <3>2, <3>3, <3>4 DEF IsChain, N
  <2> QED  BY <2>3, <2>10, <2>12
<1> QED  BY <1>3

\* Whatever has the parents of its members has their ancestors.
LEMMA ClosedHasChain ==
  ASSUME NEW p, IsTree(p), NEW S, NEW b \in 1..Len(p), b \in S,
         \A x \in S : p[x] = 0 \/ p[x] \in S
  PROVE  ToSet(ChainOf(p, b)) \subseteq S
<1> DEFINE c == ChainOf(p, b)
           Bad == {Len(c) - i : i \in {j \in 1..Len(c) : c[j] \notin S}}
<1>1. IsChain(p, c, b)
  <2>1. b \in 0..Len(p)  BY SMTT(90) DEF IsTree
  <2> QED  BY <2>1, ChainIs
<1> HIDE DEF c
<1>2. c \in Seq(1..Len(p)) /\ Len(c) \in Nat /\ b # 0  BY SMTT(90), <1>1 DEF IsChain, IsTree
<1>3. Bad = {}
  <2> SUFFICES ASSUME Bad # {} PROVE FALSE  OBVIOUS
  <2>1. Bad \subseteq Nat
    <3>1. \A i \in 1..Len(c) : Len(c) - i \in Nat  BY SMTT(90), <1>2
    <3> QED  BY <3>1
  <2>2. PICK m \in Bad : \A k \in Bad : m <= k
    <3> HIDE DEF Bad
    <3> QED  BY <2>1, LeastNat
  <2>3. PICK i \in 1..Len(c) : c[i] \notin S /\ m = Len(c) - i  OBVIOUS
  <2>4. i # Len(c)  BY <1>1, <1>2, <2>3 DEF IsChain
  <2>5. i + 1 \in 1..Len(c) /\ i + 1 # 1 /\ (i + 1) - 1 = i  BY SMTT(90), <1>2, <2>4
  <2>6. p[c[i + 1]] = c[i]  BY <1>1, <2>5, Zenon DEF IsChain
  <2>7. c[i] # 0  BY SMTT(90), <1>2
  <2>8. c[i + 1] \notin S  BY <2>3, <2>6, <2>7
  <2>9. Len(c) - (i + 1) \in Bad  BY <2>5, <2>8
  <2>10. m <= Len(c) - (i + 1)  BY <2>2, <2>9
  <2> HIDE DEF Bad
  <2> QED  BY SMTT(90), <1>2, <2>3, <2>10
<1>4. \A i \in 1..Len(c) : c[i] \in S  BY <1>3
<1> HIDE DEF Bad
<1>5. ToSet(c) \subseteq S  BY SMTT(90), <1>2, <1>4 DEF ToSet, Range
<1> QED  BY <1>5 DEF c

-----------------------------------------------------------------------------
(* The prepare pipeline. *)

\* The states of PrepareSubService.
PrepStates == [st : {"Start", "WaitingForBlock", "WaitingForCodes"},
               codes : SUBSET Codes, chain : Seq(Ebs(eth))]

\* The parent of a block about to be prepared is the start block or prepared.
ParentReady(b, done) == eth.parent[b] = 0 \/ eth.parent[b] \in done

\* The inductive invariant of prepare: parents are prepared before their
\* children with the codes they report, and the blocks of the chain that is
\* being prepared follow each other, above a prepared block, and report no code
\* that is neither known nor waited for.
PrepareInv ==
    /\ eth \in Trees
    /\ prepared \subseteq Ebs(eth) /\ input \in Seq(Ebs(eth)) /\ prep \in PrepStates
    /\ \A b \in prepared : ParentReady(b, prepared) /\ eth.validated[b] \subseteq known
    /\ prep.st = "WaitingForCodes" => prep.chain # <<>>
    /\ prep.chain # <<>> => ParentReady(prep.chain[1], prepared)
    /\ \A i \in 1..Len(prep.chain) :
        /\ i # 1 => eth.parent[prep.chain[i]] = prep.chain[i - 1]
        /\ eth.validated[prep.chain[i]] \subseteq known \cup prep.codes

\* The tree of the node is one of those considered.
LEMMA TreeIs ==
  ASSUME eth \in Trees
  PROVE  /\ IsTree(eth.parent)
         /\ Ebs(eth) = 1..Len(eth.parent) /\ Len(eth.parent) \in Nat
         /\ \A b \in Ebs(eth) : eth.validated[b] \subseteq Codes
         /\ \A b : ChainTo(b) = ChainOf(eth.parent, b)
<1>1. eth.parent \in Seq(Nat)  BY TreesAssumption
<1>2. Ebs(eth) = 1..Len(eth.parent) /\ Len(eth.parent) \in Nat  BY SMTT(90), <1>1 DEF Ebs
<1>3. \A b \in Ebs(eth) : eth.parent[b] \in 0..(b - 1) /\ eth.validated[b] \subseteq Codes
  BY TreesAssumption
<1>4. \A b : ChainTo(b) = ChainOf(eth.parent, b)  BY DEF ChainTo, ChainOf
<1> QED  BY <1>1, <1>2, <1>3, <1>4 DEF IsTree

\* The invariant gives the property: the ancestors of a prepared block are
\* prepared.
LEMMA PrepareInvReady ==
  ASSUME PrepareInv
  PROVE  PreparedIsReady
<1> SUFFICES ASSUME NEW b \in prepared
             PROVE  ToSet(ChainTo(b)) \subseteq prepared /\ eth.validated[b] \subseteq known
  BY DEF PreparedIsReady
<1>1. eth \in Trees /\ prepared \subseteq Ebs(eth)  BY DEF PrepareInv
<1>2. b \in 1..Len(eth.parent)  BY <1>1, TreeIs
<1>3. \A x \in prepared : eth.parent[x] = 0 \/ eth.parent[x] \in prepared
  BY DEF PrepareInv, ParentReady
<1>4. IsTree(eth.parent) /\ ChainTo(b) = ChainOf(eth.parent, b)  BY <1>1, TreeIs
<1>5. ToSet(ChainOf(eth.parent, b)) \subseteq prepared  BY <1>2, <1>3, <1>4, ClosedHasChain
<1> QED  BY <1>4, <1>5 DEF PrepareInv

\* Where the walk from a block down to the first prepared one ends.
DoneUpTo(b) == Max({i \in 1..Len(ChainTo(b)) : ChainTo(b)[i] \in prepared} \cup {0})

\* What collect_not_prepared_blocks_chain returns: a part of the block's chain,
\* above the start block or a prepared one.
LEMMA NotPreparedIs ==
  ASSUME PrepareInv, NEW b \in Ebs(eth)
  PROVE  /\ IsChain(eth.parent, ChainTo(b), b)
         /\ DoneUpTo(b) \in 0..Len(ChainTo(b))
         /\ DoneUpTo(b) # 0 => ChainTo(b)[DoneUpTo(b)] \in prepared
         /\ NotPreparedChain(b) = SubSeq(ChainTo(b), DoneUpTo(b) + 1, Len(ChainTo(b)))
<1> DEFINE c == ChainTo(b)
           D == {i \in 1..Len(c) : c[i] \in prepared} \cup {0}
<1>1. eth \in Trees  BY DEF PrepareInv
<1>2. IsTree(eth.parent) /\ c = ChainOf(eth.parent, b)  BY <1>1, TreeIs
<1>3. b \in 0..Len(eth.parent)
  <2>1. b \in 1..Len(eth.parent) /\ Len(eth.parent) \in Nat  BY <1>1, TreeIs
  <2> QED  BY SMTT(90), <2>1
<1>4. IsChain(eth.parent, c, b)
  <2>1. IsChain(eth.parent, ChainOf(eth.parent, b), b)  BY <1>2, <1>3, ChainIs
  <2> QED  BY <1>2, <2>1
<1>5. Len(c) \in Nat  BY <1>4 DEF IsChain
<1>6. D \subseteq 0..Len(c) /\ D # {}  BY SMTT(90), <1>5
<1>7. Max(D) \in D
  <2> HIDE DEF c, D
  <2> QED  BY <1>5, <1>6, MaxIs
<1>8. DoneUpTo(b) = Max(D)  BY DEF DoneUpTo
<1>9. NotPreparedChain(b) = SubSeq(c, Max(D) + 1, Len(c))  BY DEF NotPreparedChain
<1>10. Max(D) # 0 => c[Max(D)] \in prepared  BY <1>7
<1>11. Max(D) \in 0..Len(c)  BY <1>6, <1>7
<1> QED  BY <1>4, <1>8, <1>9, <1>10, <1>11

\* A block for which nothing is left to prepare is prepared.
LEMMA NothingToPrepare ==
  ASSUME PrepareInv, NEW b \in Ebs(eth), NotPreparedChain(b) = <<>>
  PROVE  b \in prepared
<1> DEFINE c == ChainTo(b)
           k == DoneUpTo(b)
<1>1. /\ IsChain(eth.parent, c, b) /\ k \in 0..Len(c)
      /\ k # 0 => c[k] \in prepared
      /\ SubSeq(c, k + 1, Len(c)) = <<>>
  BY NotPreparedIs
<1>2. b # 0
  <2>1. b \in 1..Len(eth.parent) /\ Len(eth.parent) \in Nat  BY TreeIs DEF PrepareInv
  <2> QED  BY SMTT(90), <2>1
<1> HIDE DEF c, k
<1>3. c \in Seq(1..Len(eth.parent)) /\ Len(c) \in Nat /\ Len(c) > 0 /\ c[Len(c)] = b
  BY <1>1, <1>2 DEF IsChain
<1>4. Len(SubSeq(c, k + 1, Len(c))) = Len(c) - k
  BY SMTT(90), <1>1, <1>3
<1>5. k = Len(c)
  <2>1. Len(<<>>) = 0  OBVIOUS
  <2>2. Len(c) - k = 0  BY <1>1, <1>4, <2>1
  <2>3. k \in 0..Len(c)  BY <1>1
  <2> QED  BY SMTT(90), <1>3, <2>2, <2>3
<1>6. k # 0  BY SMTT(90), <1>3, <1>5
<1> QED  BY <1>1, <1>3, <1>5, <1>6

\* Steps of the blob loader, and all steps that leave prepare alone.
LEMMA PrepareFrame ==
  ASSUME PrepareInv, UNCHANGED <<eth, prepared, known, input, prep>>
  PROVE  PrepareInv'
BY DEF PrepareInv, PrepStates, ParentReady, Ebs

\* The queue of blocks to prepare may grow and shrink.
LEMMA PrepareQueue ==
  ASSUME PrepareInv, UNCHANGED <<eth, prepared, known, prep>>, input' \in Seq(Ebs(eth))
  PROVE  PrepareInv'
BY DEF PrepareInv, PrepStates, ParentReady, Ebs

\* Observe announces a block.
LEMMA ObserveInv ==
  ASSUME PrepareInv, NEW b \in Ebs(eth), Observe(b)
  PROVE  PrepareInv'
<1>1. UNCHANGED <<eth, prepared, known, prep>> /\ input' = Append(input, b)  BY DEF Observe
<1>2. input \in Seq(Ebs(eth))  BY DEF PrepareInv
<1>3. input' \in Seq(Ebs(eth))  BY SMTT(90), <1>1, <1>2
<1> QED  BY <1>1, <1>3, PrepareQueue

\* A block is taken from the queue.
LEMMA TakenIs ==
  ASSUME PrepareInv, NEW b, NEW chain, TakeBlock(b, chain)
  PROVE  input' \in Seq(Ebs(eth))
<1>1. input \in Seq(Ebs(eth)) /\ input # <<>> /\ input' = SubSeq(input, 1, Len(input) - 1)
  BY DEF PrepareInv, TakeBlock, Front
<1> QED  BY SMTT(90), <1>1

\* AlreadyPrepared takes a block for which nothing is left to do.
LEMMA AlreadyPreparedInv ==
  ASSUME PrepareInv, NEW b \in Ebs(eth), AlreadyPrepared(b)
  PROVE  PrepareInv' /\ b \in prepared'
<1>1. TakeBlock(b, <<>>) /\ UNCHANGED <<eth, prepared, known, prep>>
  BY DEF AlreadyPrepared, prepareDb
<1>2. NotPreparedChain(b) = <<>>  BY <1>1 DEF TakeBlock
<1>3. b \in prepared  BY <1>2, NothingToPrepare
<1>4. input' \in Seq(Ebs(eth))  BY <1>1, TakenIs
<1> QED  BY <1>1, <1>3, <1>4, PrepareQueue

\* WaitForCodes begins a chain.
LEMMA WaitForCodesInv ==
  ASSUME PrepareInv, NEW b \in Ebs(eth), WaitForCodes(b, NotPreparedChain(b))
  PROVE  PrepareInv'
<1> DEFINE c == ChainTo(b)
           k == DoneUpTo(b)
           s == NotPreparedChain(b)
           p == eth.parent
<1>1. /\ UNCHANGED <<eth, prepared, known>> /\ s # <<>>
      /\ TakeBlock(b, s)
      /\ prep' = [st |-> "WaitingForCodes", codes |-> ValidatedIn(s), chain |-> s]
  BY DEF WaitForCodes, prepareDb
<1>2. /\ IsChain(p, c, b) /\ k \in 0..Len(c)
      /\ k # 0 => c[k] \in prepared
      /\ s = SubSeq(c, k + 1, Len(c))
  BY NotPreparedIs
<1>3. input' \in Seq(Ebs(eth))  BY <1>1, TakenIs
<1>4. Ebs(eth) = 1..Len(p) /\ \A x \in Ebs(eth) : eth.validated[x] \subseteq Codes
  BY TreeIs DEF PrepareInv
<1> HIDE DEF c, k, s
<1>5. c \in Seq(Ebs(eth)) /\ Len(c) \in Nat  BY <1>2, <1>4 DEF IsChain
<1>6. /\ s \in Seq(Ebs(eth)) /\ Len(s) = Len(c) - k
      /\ \A i \in 1..Len(s) : s[i] = c[k + i]
  BY SMTT(90), <1>2, <1>5
<1>7. Len(s) \in Nat /\ Len(s) > 0 /\ 1 \in 1..Len(s)  BY SMTT(90), <1>1, <1>6
<1>8. ASSUME NEW i \in 1..Len(s) PROVE p[s[i]] = IF k + i = 1 THEN 0 ELSE c[k + i - 1]
  <2>1. k + i \in 1..Len(c)  BY SMTT(90), <1>2, <1>5, <1>6
  <2>2. \A j \in 1..Len(c) : p[c[j]] = IF j = 1 THEN 0 ELSE c[j - 1]  BY <1>2 DEF IsChain
  <2>3. s[i] = c[k + i]  BY <1>6, Zenon
  <2> DEFINE j == k + i
  <2>4. s[i] = c[j] /\ j \in 1..Len(c)  BY <2>1, <2>3
  <2> HIDE DEF j
  <2>5. p[s[i]] = IF j = 1 THEN 0 ELSE c[j - 1]  BY ONLY <2>2, <2>4, Zenon
  <2>6. k + i - 1 = j - 1 /\ (k + i = 1 <=> j = 1)
    <3>1. k \in Nat /\ Len(s) \in Nat  BY <1>2, <1>7
    <3> QED  BY ONLY SMTT(90), <3>1 DEF j
  <2> QED  BY ONLY <2>5, <2>6, Zenon
<1>9. p[s[1]] = 0 \/ p[s[1]] \in prepared
  <2>1. CASE k = 0
    <3>1. k + 1 = 1  BY SMTT(90), <2>1
    <3> QED  BY <1>7, <1>8, <3>1
  <2>2. CASE k # 0
    <3>1. k + 1 # 1 /\ k + 1 - 1 = k  BY SMTT(90), <1>2, <2>2
    <3> QED  BY <1>2, <1>7, <1>8, <2>2, <3>1
  <2> QED  BY <2>1, <2>2
<1>10. ASSUME NEW i \in 1..Len(s), i # 1 PROVE p[s[i]] = s[i - 1]
  <2>1. i - 1 \in 1..Len(s) /\ k + i # 1 /\ k + (i - 1) = k + i - 1
    BY SMTT(90), <1>2, <1>7, <1>10
  <2> QED  BY <1>6, <1>8, <2>1
<1>11. ToSet(s) \subseteq Ebs(eth) /\ \A i \in 1..Len(s) : s[i] \in ToSet(s)
  BY SMTT(90), <1>6 DEF ToSet, Range
<1>12. ValidatedIn(s) \subseteq Codes  BY <1>4, <1>11 DEF ValidatedIn, Unknown
<1>13. \A i \in 1..Len(s) : eth.validated[s[i]] \subseteq known \cup ValidatedIn(s)
  BY <1>11 DEF ValidatedIn, Unknown
<1>14. prep' \in PrepStates  BY <1>1, <1>6, <1>12 DEF PrepStates
<1>15. prep'.chain = s /\ prep'.codes = ValidatedIn(s)  BY <1>1
<1>16. PrepStates' = PrepStates /\ Ebs(eth)' = Ebs(eth)  BY <1>1 DEF PrepStates, Ebs
<1>17. \A x, S : ParentReady(x, S)' <=> (p[x] = 0 \/ p[x] \in S')  BY <1>1 DEF ParentReady
<1>18. \A x, S : ParentReady(x, S) <=> (p[x] = 0 \/ p[x] \in S)  BY DEF ParentReady
<1> QED
  <2> HIDE DEF p
  <2>1. \A x \in prepared' : (p[x] = 0 \/ p[x] \in prepared') /\ eth'.validated[x] \subseteq known'
    BY <1>1, <1>18 DEF PrepareInv
  <2>2. \A i \in 1..Len(s) : i # 1 => p[s[i]] = s[i - 1]  BY <1>10
  <2> QED
    BY <1>1, <1>3, <1>7, <1>9, <1>13, <1>14, <1>15, <1>16, <2>1, <2>2
    DEF PrepareInv, ParentReady, p

\* PrepareOne prepares the oldest block of the chain.
LEMMA PrepareOneInv ==
  ASSUME PrepareInv, NEW b \in Ebs(eth), PrepareOne(b)
  PROVE  PrepareInv' /\ prepared \subseteq prepared' /\ b \in prepared'
<1> DEFINE s == prep.chain
           p == eth.parent
<1>1. /\ UNCHANGED <<eth, known, input>> /\ prep.st = "WaitingForCodes" /\ prep.codes = {}
      /\ b = Head(s) /\ prepared' = prepared \cup {b}
      /\ prep' = [prep EXCEPT !.chain = Tail(@),
                              !.st = IF Len(prep.chain) = 1 THEN "WaitingForBlock" ELSE @]
  BY DEF PrepareOne
<1>2. prep \in PrepStates /\ s \in Seq(Ebs(eth)) /\ s # <<>>  BY <1>1 DEF PrepareInv, PrepStates
<1>3. /\ prep' \in PrepStates /\ prep'.chain = Tail(s) /\ prep'.codes = {}
      /\ prep'.st = "WaitingForCodes" => Len(s) # 1
  <2>1. Tail(s) \in Seq(Ebs(eth))  BY SMTT(90), <1>2
  <2> QED  BY <1>1, <1>2, <2>1 DEF PrepStates
<1>4. Len(s) \in Nat /\ Len(s) > 0 /\ 1 \in 1..Len(s) /\ b = s[1]  BY SMTT(90), <1>1, <1>2
<1>5. Len(Tail(s)) = Len(s) - 1 /\ \A i \in 1..(Len(s) - 1) : Tail(s)[i] = s[i + 1]
  BY SMTT(90), <1>2, <1>4
<1>6. /\ p[s[1]] = 0 \/ p[s[1]] \in prepared
      /\ \A i \in 1..Len(s) : (i # 1 => p[s[i]] = s[i - 1]) /\ eth.validated[s[i]] \subseteq known
      /\ \A x \in prepared : (p[x] = 0 \/ p[x] \in prepared) /\ eth.validated[x] \subseteq known
      /\ eth \in Trees /\ prepared \subseteq Ebs(eth) /\ input \in Seq(Ebs(eth))
  BY <1>1, <1>2 DEF PrepareInv, ParentReady
<1> HIDE DEF s, p
<1>7. \A x \in prepared' : (p[x] = 0 \/ p[x] \in prepared') /\ eth.validated[x] \subseteq known
  BY <1>1, <1>4, <1>6
<1>8. ASSUME NEW i \in 1..Len(Tail(s))
      PROVE  /\ i + 1 \in 1..Len(s) /\ i + 1 # 1 /\ i + 1 - 1 = i
             /\ i # 1 => i - 1 \in 1..(Len(s) - 1) /\ (i - 1) + 1 = i
             /\ Tail(s)[i] = s[i + 1]
  BY SMTT(90), <1>4, <1>5
<1>9. ASSUME NEW i \in 1..Len(Tail(s))
      PROVE  /\ i # 1 => p[Tail(s)[i]] = Tail(s)[i - 1]
             /\ eth.validated[Tail(s)[i]] \subseteq known
  <2>1. i # 1 => Tail(s)[i - 1] = s[i]  BY <1>5, <1>8
  <2> QED  BY <1>6, <1>8, <2>1
<1>10. Tail(s) # <<>> => p[Tail(s)[1]] \in prepared'
  <2> SUFFICES ASSUME Tail(s) # <<>> PROVE p[Tail(s)[1]] \in prepared'  OBVIOUS
  <2>1. 1 \in 1..Len(Tail(s))
    <3>1. Tail(s) \in Seq(Ebs(eth))  BY SMTT(90), <1>2
    <3> QED  BY SMTT(90), <3>1
  <2>2. p[s[2]] = s[1] /\ Tail(s)[1] = s[2]
    <3>1. 2 \in 1..Len(s) /\ Tail(s)[1] = s[2]  BY SMTT(90), <1>8, <2>1
    <3>2. 2 # 1 /\ 2 - 1 = 1  OBVIOUS
    <3> QED  BY <1>6, <3>1, <3>2
  <2> QED  BY <1>1, <1>4, <2>2
<1>11. prep'.st = "WaitingForCodes" => Tail(s) # <<>>
  <2>1. Len(<<>>) = 0  OBVIOUS
  <2>2. Len(s) # 1 => Len(Tail(s)) # 0  BY SMTT(90), <1>4, <1>5
  <2> QED  BY <1>3, <2>1, <2>2
<1>12. PrepStates' = PrepStates /\ Ebs(eth)' = Ebs(eth) /\ eth'.parent = p
  BY <1>1 DEF PrepStates, Ebs, p
<1>13. prepared' \subseteq Ebs(eth)  BY <1>1, <1>6
<1>14. eth' = eth /\ eth'.parent = p /\ known' = known  BY <1>1, <1>12
<1>15. eth' \in Trees /\ prepared' \subseteq Ebs(eth)' /\ input' \in Seq(Ebs(eth)') /\ prep' \in PrepStates'
  BY <1>1, <1>3, <1>6, <1>12, <1>13
<1>16. \A x \in prepared' : ParentReady(x, prepared)' /\ eth'.validated[x] \subseteq known'
  BY ONLY <1>7, <1>14 DEF ParentReady
<1>17. prep'.chain # <<>> => ParentReady(prep.chain[1], prepared)'
  BY ONLY <1>3, <1>10, <1>14 DEF ParentReady
<1>18. \A i \in 1..Len(prep'.chain) :
         /\ i # 1 => eth'.parent[prep'.chain[i]] = prep'.chain[i - 1]
         /\ eth'.validated[prep'.chain[i]] \subseteq known' \cup prep'.codes
  BY ONLY <1>3, <1>9, <1>14
<1>19. prep'.st = "WaitingForCodes" => prep'.chain # <<>>  BY ONLY <1>3, <1>11
<1>20. prepared \subseteq prepared' /\ b \in prepared'  BY <1>1
<1> QED  BY ONLY ZenonT(20), SMTT(90), <1>15, <1>16, <1>17, <1>18, <1>19, <1>20 DEF PrepareInv

\* ProcessCode: a code becomes known, and prepare no longer waits for it.
LEMMA ProcessCodeInv ==
  ASSUME PrepareInv, NEW x \in Codes, ProcessCode(x)
  PROVE  PrepareInv'
<1>1. /\ UNCHANGED <<eth, prepared, input>> /\ known' = known \cup {x}
      /\ prep' = [prep EXCEPT !.codes = @ \ {x}]
  BY DEF ProcessCode
<1>2. prep \in PrepStates  BY DEF PrepareInv
<1>3. /\ prep' \in PrepStates /\ prep'.chain = prep.chain /\ prep'.st = prep.st
      /\ prep'.codes = prep.codes \ {x}
  BY <1>1, <1>2 DEF PrepStates
<1>4. known' \cup prep'.codes = known \cup prep.codes \cup {x}  BY <1>1, <1>3
<1>5. PrepStates' = PrepStates /\ Ebs(eth)' = Ebs(eth)  BY <1>1 DEF PrepStates, Ebs
<1>6. \A b \in prepared : eth.validated[b] \subseteq known'  BY <1>1 DEF PrepareInv
<1>7. \A i \in 1..Len(prep.chain) : eth.validated[prep.chain[i]] \subseteq known' \cup prep'.codes
  BY <1>4 DEF PrepareInv
<1> QED  BY <1>1, <1>3, <1>5, <1>6, <1>7 DEF PrepareInv, ParentReady

\* A restart forgets what prepare was doing.
LEMMA PrepareRestartInv ==
  ASSUME PrepareInv, PrepareRestart
  PROVE  PrepareInv'
<1>1. UNCHANGED <<eth, prepared, known>> /\ input' = <<>> /\ prep' = Start
  BY DEF PrepareRestart, prepareDb
<1>2. <<>> \in Seq(Ebs(eth))  BY SMTT(90)
<1>3. Start \in PrepStates /\ Start.chain = <<>> /\ Start.st = "Start"
  BY <1>2 DEF Start, PrepStates
<1>4. PrepStates' = PrepStates /\ Ebs(eth)' = Ebs(eth)  BY <1>1 DEF PrepStates, Ebs
<1>5. \A i \in 1..Len(<<>>) : FALSE  BY SMTT(90)
<1> QED  BY <1>1, <1>2, <1>3, <1>4, <1>5 DEF PrepareInv, ParentReady

-----------------------------------------------------------------------------
(* Chains of Malachite blocks. *)

\* AboveDecided over a given tree and given decisions.
AboveIn(p, d, m) ==
    LET last == IF m.height = 1 THEN 0 ELSE d[m.height - 1].adv
    IN m.adv = last \/ (m.adv # 0 /\ (last = 0 \/ last \in ToSet(ChainOf(p, m.adv))))

\* May be stored: its EB is at or above the one of the block decided before it.
Legal(m) == AboveIn(eth.parent, decided, m)

\* The network's decisions: one legal block for each height.
DecidedInv ==
    /\ eth \in Trees
    /\ decided \in Seq(Mbs)
    /\ \A h \in 1..MaxHeight : decided[h].height = h /\ Legal(decided[h])

\* AboveDecided is Legal.
LEMMA LegalIs ==
  ASSUME eth \in Trees, NEW m
  PROVE  AboveDecided(m) <=> Legal(m)
<1>1. \A b : ChainTo(b) = ChainOf(eth.parent, b)  BY TreeIs
<1>2. CASE m.height = 1
  BY <1>1, <1>2 DEF AboveDecided, LastAdvanced, IsDescendant, Legal, AboveIn
<1>3. CASE m.height # 1
  BY <1>1, <1>3 DEF AboveDecided, LastAdvanced, Parent, IsDescendant, Legal, AboveIn
<1> QED  BY <1>2, <1>3

\* Neither the tree nor the decisions change.
LEMMA DecidedFrame ==
  ASSUME UNCHANGED <<eth, decided>>
  PROVE  /\ Mbs' = Mbs /\ MaxHeight' = MaxHeight
         /\ DecidedInv => DecidedInv'
         /\ \A m : Legal(m)' <=> Legal(m)
<1>1. Mbs' = Mbs /\ MaxHeight' = MaxHeight  BY DEF Mbs, MaxHeight, Ebs
<1>2. \A m : Legal(m)' <=> Legal(m)  BY DEF Legal
<1> QED  BY <1>1, <1>2 DEF DecidedInv

\* The parts of a block.
LEMMA MbParts ==
  ASSUME DecidedInv
  PROVE  /\ MaxHeight \in Nat
         /\ \A h \in 1..MaxHeight : decided[h] \in Mbs
         /\ \A m \in Mbs : /\ m.height \in 1..MaxHeight /\ m.height \in Nat /\ m.height >= 1
                           /\ m.adv = 0 \/ m.adv \in Ebs(eth)
         /\ None \notin Mbs
<1>1. MaxHeight \in Nat  BY SMTT(90) DEF DecidedInv, MaxHeight
<1>2. \A h \in 1..MaxHeight : decided[h] \in Mbs  BY SMTT(90) DEF DecidedInv, MaxHeight
<1>3. ASSUME NEW m \in Mbs
      PROVE  /\ m.height \in 1..MaxHeight /\ m.height \in Nat /\ m.height >= 1
             /\ m.adv = 0 \/ m.adv \in Ebs(eth)
             /\ m \in [height : Nat, adv : Nat]
  <2>1. m.height \in 1..MaxHeight /\ m.adv \in {0} \cup Ebs(eth)  BY DEF Mbs
  <2>2. Ebs(eth) = 1..Len(eth.parent) /\ Len(eth.parent) \in Nat  BY TreeIs DEF DecidedInv
  <2>3. m.height \in Nat /\ m.height >= 1 /\ m.adv \in Nat  BY SMTT(90), <1>1, <2>1, <2>2
  <2>4. m \in [height : 1..MaxHeight, adv : {0} \cup Ebs(eth)]  BY DEF Mbs
  <2>5. m \in [height : Nat, adv : Nat]  BY SMTT(90), <2>3, <2>4
  <2> QED  BY <2>1, <2>3, <2>5
<1>4. None \notin Mbs  BY <1>3, NodeAssumption
<1> QED  BY <1>1, <1>2, <1>3, <1>4

\* Above: the decided blocks from a height on, and then the block itself.
LEMMA AboveIs ==
  ASSUME DecidedInv, NEW m \in Mbs, NEW low \in 0..(m.height - 1)
  PROVE  /\ Above(low, m) \in Seq(Mbs)
         /\ Len(Above(low, m)) = m.height - low /\ Len(Above(low, m)) \in Nat
         /\ \A i \in 1..(m.height - low) :
               /\ Above(low, m)[i].height = low + i
               /\ i < m.height - low => Above(low, m)[i] = decided[low + i]
               /\ i = m.height - low => Above(low, m)[i] = m
<1> DEFINE n == m.height - 1 - low
           a == [i \in 1..n |-> decided[low + i]]
           c == a \o <<m>>
<1>1. /\ MaxHeight \in Nat /\ m.height \in 1..MaxHeight /\ m.height \in Nat
      /\ \A h \in 1..MaxHeight : decided[h] \in Mbs
  BY MbParts
<1>2. n \in Nat /\ n + 1 = m.height - low /\ low \in Nat  BY SMTT(90), <1>1
<1>3. \A i \in 1..n : low + i \in 1..MaxHeight  BY SMTT(90), <1>1, <1>2
<1>4. \A i \in 1..n : decided[low + i] \in Mbs  BY <1>1, <1>3
<1>5. Above(low, m) = c  BY DEF Above
<1> HIDE DEF n
<1>6. a \in Seq(Mbs) /\ Len(a) = n /\ \A i \in 1..n : a[i] = decided[low + i]
  BY SMTT(90), <1>2, <1>4
<1> HIDE DEF a
<1>7. <<m>> \in Seq(Mbs) /\ Len(<<m>>) = 1 /\ <<m>>[1] = m  OBVIOUS
<1>8. c \in Seq(Mbs) /\ Len(c) = n + 1  BY SMTT(90), <1>2, <1>6, <1>7
<1>9. \A i \in 1..n : c[i] = decided[low + i]
  <2> SUFFICES ASSUME NEW i \in 1..n PROVE c[i] = decided[low + i]  OBVIOUS
  <2>1. c[i] = a[i]  BY SMTT(90), <1>2, <1>6, <1>7
  <2> QED  BY <1>6, <2>1
<1>10. c[n + 1] = m  BY SMTT(90), <1>2, <1>6, <1>7
<1> HIDE DEF c
<1>11. ASSUME NEW i \in 1..(m.height - low)
       PROVE  /\ c[i].height = low + i
              /\ i < m.height - low => c[i] = decided[low + i]
              /\ i = m.height - low => c[i] = m
  <2>1. CASE i \in 1..n
    <3>1. i # m.height - low  BY SMTT(90), <1>2, <2>1
    <3>2. decided[low + i].height = low + i  BY <1>3, <2>1 DEF DecidedInv
    <3> QED  BY <1>9, <2>1, <3>1, <3>2
  <2>2. CASE i = n + 1
    <3>1. i = m.height - low /\ ~(i < m.height - low)  BY SMTT(90), <1>1, <1>2, <2>2
    <3>2. m.height = low + i  BY SMTT(90), <1>1, <1>2, <2>2
    <3> QED  BY <1>10, <2>2, <3>1, <3>2
  <2> QED  BY SMTT(90), <1>2, <2>1, <2>2
<1>12. n + 1 \in Nat  BY SMTT(90), <1>2
<1> QED  BY <1>2, <1>5, <1>8, <1>11, <1>12

\* A part of a chain of blocks: every block but the last is the decided one of
\* its height, and the heights follow each other.
IsRun(c) ==
    /\ c \in Seq(Mbs) /\ Len(c) \in Nat /\ Len(c) > 0
    /\ \A i \in 1..Len(c) : /\ c[i].height = c[1].height + (i - 1)
                            /\ i < Len(c) => c[i] = decided[c[i].height]

\* What is above a height is such a part.
LEMMA AboveRuns ==
  ASSUME DecidedInv, NEW m \in Mbs, NEW low \in 0..(m.height - 1)
  PROVE  IsRun(Above(low, m)) /\ Above(low, m)[1].height = low + 1
<1> DEFINE c == Above(low, m)
           n == m.height - low
<1>1. /\ c \in Seq(Mbs) /\ Len(c) = n /\ Len(c) \in Nat
      /\ \A i \in 1..n : /\ c[i].height = low + i
                         /\ i < n => c[i] = decided[low + i]
  BY AboveIs
<1>2. m.height \in Nat /\ m.height >= 1  BY MbParts
<1>3. n > 0 /\ 1 \in 1..n /\ low \in Nat  BY SMTT(90), <1>2
<1> HIDE DEF c, n
<1>4. c[1].height = low + 1  BY <1>1, <1>3
<1>5. \A i \in 1..n : low + i = (low + 1) + (i - 1)  BY SMTT(90), <1>1, <1>3
<1>6. IsRun(c)  BY <1>1, <1>3, <1>4, <1>5 DEF IsRun
<1> QED  BY <1>4, <1>6 DEF c

\* How far a BlockEntry can get.
Entries == {"none", "stored", "saved", "finalized"}

\* The rest of a chain that is being saved: stored blocks above a saved one.
ToSave(e, c) ==
    /\ IsRun(c)
    /\ \A i \in 1..Len(c) : e[c[i]] = "stored"
    /\ c[1].height = 1 \/ Saved(e, decided[c[1].height - 1])

\* The rest of a chain that is being finalized: saved blocks with a certificate
\* above a finalized one.
ToFinalize(e, k, c) ==
    /\ IsRun(c)
    /\ \A i \in 1..Len(c) : e[c[i]] = "saved" /\ c[i] \in k
    /\ c[1].height = 1 \/ e[decided[c[1].height - 1]] = "finalized"

\* save_chain returns what is to be saved.
LEMMA SaveChainIs ==
  ASSUME DecidedInv, NEW e \in [Mbs -> Entries], NEW m \in Mbs, SaveChain(e, m) # <<>>
  PROVE  ToSave(e, SaveChain(e, m))
<1> DEFINE S == {h \in 1..(m.height - 1) : Saved(e, decided[h])} \cup {0}
           low == Max(S)
           c == Above(low, m)
           n == m.height - low
<1>1. m.height \in Nat /\ m.height >= 1 /\ m.height - 1 \in Nat
  <2>1. m.height \in Nat /\ m.height >= 1  BY MbParts
  <2> QED  BY SMTT(90), <2>1
<1>2. S \subseteq 0..(m.height - 1) /\ S # {}  BY SMTT(90), <1>1
<1>3. low \in S /\ low \in Nat /\ \A h \in S : h <= low
  <2> HIDE DEF S
  <2> QED  BY <1>1, <1>2, MaxIs
<1>4. /\ SaveChain(e, m) = c /\ ~Saved(e, m)
      /\ ~ \E x \in ToSet(c) : e[x] = "none"
  BY DEF SaveChain
<1>5. low \in 0..(m.height - 1)  BY <1>2, <1>3
<1>6. low # 0 => low \in 1..(m.height - 1) /\ Saved(e, decided[low])  BY <1>3
<1>7. ASSUME NEW h \in 1..(m.height - 1), h > low PROVE ~Saved(e, decided[h])
  <2>1. h \notin S
    <3> HIDE DEF S
    <3> QED  BY SMTT(90), <1>1, <1>3, <1>7
  <2> QED  BY <2>1
<1> HIDE DEF S, low
<1>8. IsRun(c) /\ c[1].height = low + 1  BY <1>5, AboveRuns
<1>9. /\ c \in Seq(Mbs) /\ Len(c) = n
      /\ \A i \in 1..n : /\ i < n => c[i] = decided[low + i]
                         /\ i = n => c[i] = m
  BY <1>5, AboveIs
<1> HIDE DEF c
<1>10. ASSUME NEW i \in 1..Len(c) PROVE e[c[i]] = "stored"
  <2>1. c[i] \in ToSet(c) /\ c[i] \in Mbs  BY SMTT(90), <1>9 DEF ToSet, Range
  <2>2. e[c[i]] \in Entries /\ e[c[i]] # "none"  BY <1>4, <2>1
  <2>3. ~Saved(e, c[i])
    <3>1. CASE i = n  BY <1>4, <1>9, <3>1
    <3>2. CASE i # n
      <4>1. low + i \in 1..(m.height - 1) /\ low + i > low /\ i < n
        BY SMTT(90), <1>1, <1>3, <1>9, <3>2
      <4> QED  BY <1>7, <1>9, <4>1
    <3> QED  BY <3>1, <3>2
  <2> QED  BY <2>2, <2>3 DEF Entries, Saved
<1>11. low # 0 => c[1].height - 1 = low  BY SMTT(90), <1>3, <1>8
<1>12. low = 0 => c[1].height = 1  BY SMTT(90), <1>8
<1> QED  BY <1>4, <1>6, <1>8, <1>10, <1>11, <1>12 DEF ToSave

\* finalize_chain returns what is to be finalized.
LEMMA FinalizeChainIs ==
  ASSUME DecidedInv, NEW e, NEW k, NEW m \in Mbs, FinalizeChain(e, k, m) # <<>>
  PROVE  ToFinalize(e, k, FinalizeChain(e, k, m))
<1> DEFINE S == {h \in 1..(m.height - 1) : e[decided[h]] = "finalized"} \cup {0}
           low == Max(S)
           c == Above(low, m)
<1>1. m.height \in Nat /\ m.height >= 1 /\ m.height - 1 \in Nat
  <2>1. m.height \in Nat /\ m.height >= 1  BY MbParts
  <2> QED  BY SMTT(90), <2>1
<1>2. S \subseteq 0..(m.height - 1) /\ S # {}  BY SMTT(90), <1>1
<1>3. low \in S /\ low \in Nat
  <2> HIDE DEF S
  <2> QED  BY <1>1, <1>2, MaxIs
<1>4. /\ FinalizeChain(e, k, m) = c
      /\ \A x \in ToSet(c) : e[x] = "saved" /\ x \in k
  BY DEF FinalizeChain
<1>5. low \in 0..(m.height - 1)  BY <1>2, <1>3
<1>6. low # 0 => e[decided[low]] = "finalized"  BY <1>3
<1> HIDE DEF S, low
<1>7. IsRun(c) /\ c[1].height = low + 1  BY <1>5, AboveRuns
<1> HIDE DEF c
<1>8. \A i \in 1..Len(c) : c[i] \in ToSet(c)  BY SMTT(90), <1>7 DEF ToSet, Range, IsRun
<1>9. low # 0 => c[1].height - 1 = low  BY SMTT(90), <1>3, <1>7
<1>10. low = 0 => c[1].height = 1  BY SMTT(90), <1>7
<1> QED  BY <1>4, <1>6, <1>7, <1>8, <1>9, <1>10 DEF ToFinalize

\* What the app's handler has still to do, between its awaits: the block it
\* stores next is legal; the chain it saves or finalizes goes on where the
\* store ends; and a block it is about to mark has been passed to the callback.
AppInv(a, e, k, ms, fin) ==
    \/ a = Idle
    \/ a \in [at : {"record"}, mb : Mbs] /\ Legal(a.mb)
    \/ a \in [at : {"ingest"}, mb : Mbs] /\ a.mb = decided[a.mb.height]
    \/ /\ a \in [at : {"save", "mark_saved"}, mb : Mbs, try : Seq(Mbs), todo : Seq(Mbs)]
       /\ ToSave(e, a.todo)
       /\ a.at = "mark_saved" => a.todo[1] \in ms
    \/ /\ a \in [at : {"finalize", "mark_finalized"}, mb : Mbs, try : Seq(Mbs), todo : Seq(Mbs)]
       /\ ToFinalize(e, k, a.todo)
       /\ a.at = "mark_finalized" => fin = a.todo[1]

\* The cascades go on with such a chain or end.
LEMMA CascadeIs ==
  ASSUME DecidedInv, NEW e \in [Mbs -> Entries], NEW k, NEW kind \in {"save", "finalize"},
         NEW m \in Mbs, NEW try \in Seq(Mbs), NEW todo \in Seq(Mbs), NEW ms, NEW fin,
         kind = "save" /\ todo # <<>> => ToSave(e, todo),
         kind = "finalize" /\ todo # <<>> => ToFinalize(e, k, todo),
         Cascade(kind, m, try, todo, e, k)
  PROVE  AppInv(app', e, k, ms, fin)
<1> DEFINE Chain(x) == IF kind = "save" THEN SaveChain(e, x) ELSE FinalizeChain(e, k, x)
           S == {j \in 1..Len(try) : Chain(try[j]) # <<>>} \cup {0}
           i == Max(S)
<1>1. \/ todo # <<>> /\ app' = [at |-> kind, mb |-> m, try |-> try, todo |-> todo]
      \/ i # 0 /\ app' = [at |-> kind, mb |-> m, try |-> SubSeq(try, 1, i - 1), todo |-> Chain(try[i])]
      \/ app' = Idle
  BY DEF Cascade
<1>2. Len(try) \in Nat  BY SMTT(90)
<1>3. S \subseteq 0..Len(try) /\ S # {}  BY SMTT(90), <1>2
<1>4. i \in S /\ i \in Nat
  <2> HIDE DEF S
  <2> QED  BY <1>2, <1>3, MaxIs
<1>5. i # 0 => i \in 1..Len(try) /\ Chain(try[i]) # <<>>  BY <1>4
<1> HIDE DEF S, i
<1>6. ASSUME NEW t \in Seq(Mbs), NEW c,
             app' = [at |-> kind, mb |-> m, try |-> t, todo |-> c],
             kind = "save" => ToSave(e, c), kind = "finalize" => ToFinalize(e, k, c)
      PROVE  AppInv(app', e, k, ms, fin)
  <2>1. c \in Seq(Mbs)  BY <1>6 DEF ToSave, ToFinalize, IsRun
  <2>2. CASE kind = "save"
    <3>1. /\ app' \in [at : {"save", "mark_saved"}, mb : Mbs, try : Seq(Mbs), todo : Seq(Mbs)]
          /\ app'.at = "save" /\ app'.todo = c
      BY <1>6, <2>1, <2>2
    <3> QED  BY <1>6, <2>2, <3>1 DEF AppInv
  <2>3. CASE kind = "finalize"
    <3>1. /\ app' \in [at : {"finalize", "mark_finalized"}, mb : Mbs, try : Seq(Mbs), todo : Seq(Mbs)]
          /\ app'.at = "finalize" /\ app'.todo = c
      BY <1>6, <2>1, <2>3
    <3> QED  BY <1>6, <2>3, <3>1 DEF AppInv
  <2> QED  BY <2>2, <2>3
<1>7. CASE todo # <<>> /\ app' = [at |-> kind, mb |-> m, try |-> try, todo |-> todo]
  BY <1>6, <1>7
<1>8. CASE i # 0 /\ app' = [at |-> kind, mb |-> m, try |-> SubSeq(try, 1, i - 1), todo |-> Chain(try[i])]
  <2>1. try[i] \in Mbs /\ SubSeq(try, 1, i - 1) \in Seq(Mbs)  BY SMTT(90), <1>5, <1>8
  <2>2. kind = "save" => ToSave(e, Chain(try[i]))  BY <1>5, <1>8, <2>1, SaveChainIs
  <2>3. kind = "finalize" => ToFinalize(e, k, Chain(try[i]))  BY <1>5, <1>8, <2>1, FinalizeChainIs
  <2> HIDE DEF Chain
  <2> QED  BY <1>6, <1>8, <2>1, <2>2, <2>3
<1>9. CASE app' = Idle  BY <1>9 DEF AppInv
<1> QED  BY <1>1, <1>7, <1>8, <1>9

-----------------------------------------------------------------------------
(* The two stores. *)

\* The store, as its entries e and certificates k say, follows the database:
\* what is saved is in it, with all blocks below; what is finalized is at or
\* below the latest finalized block; and all blocks below that one are finalized.
StoreOk(e, k, ms, fin) ==
    /\ e \in [Mbs -> Entries]
    /\ \A m \in k : m \in Mbs /\ m = decided[m.height]
    /\ ms \subseteq Mbs
    /\ \A m \in Mbs : Saved(e, m) => m \in ms
    /\ \A m \in Mbs : e[m] # "none" => Legal(m)
    /\ \A m \in ms : Legal(m) /\ \A h \in 1..(m.height - 1) : decided[h] \in ms
    /\ \A h \in 1..MaxHeight : e[decided[h]] = "finalized" => fin # None /\ fin.height >= h
    /\ fin # None => /\ fin \in Mbs /\ fin = decided[fin.height]
                     /\ \A h \in 1..(fin.height - 1) : e[decided[h]] = "finalized"

\* The inductive invariant of the stores and the app.
StoreInv ==
    /\ DecidedInv
    /\ StoreOk(entry, cert, mbs, latestFin)
    /\ AppInv(app, entry, cert, mbs, latestFin)

\* Of the new stores it is enough to look at the new values.
LEMMA StoreFrame ==
  ASSUME DecidedInv, UNCHANGED <<eth, decided>>,
         StoreOk(entry', cert', mbs', latestFin'),
         AppInv(app', entry', cert', mbs', latestFin')
  PROVE  StoreInv'
<1>1. /\ Mbs' = Mbs /\ MaxHeight' = MaxHeight /\ DecidedInv' /\ decided' = decided
      /\ \A m : Legal(m)' <=> Legal(m)
  BY DecidedFrame
<1>2. StoreOk(entry, cert, mbs, latestFin)'  BY <1>1 DEF StoreOk, Saved
<1>3. \A c : IsRun(c)' <=> IsRun(c)  BY <1>1 DEF IsRun
<1>4. \A e, c : ToSave(e, c)' <=> ToSave(e, c)  BY <1>1, <1>3 DEF ToSave, Saved
<1>5. \A e, k, c : ToFinalize(e, k, c)' <=> ToFinalize(e, k, c)  BY <1>1, <1>3 DEF ToFinalize
<1>6. AppInv(app, entry, cert, mbs, latestFin)'  BY <1>1, <1>4, <1>5 DEF AppInv
<1> QED  BY <1>1, <1>2, <1>6 DEF StoreInv

\* insert_block adds an entry, and no more.
LEMMA InsertOk ==
  ASSUME DecidedInv, NEW k, NEW ms, NEW fin, StoreOk(entry, k, ms, fin),
         NEW m \in Mbs, Legal(m)
  PROVE  StoreOk(Insert(m), k, ms, fin)
<1> DEFINE e == Insert(m)
<1>1. entry \in [Mbs -> Entries]  BY DEF StoreOk
<1>2. e = [entry EXCEPT ![m] = IF @ = "none" THEN "stored" ELSE @]  BY DEF Insert
<1> HIDE DEF e
<1>3. e \in [Mbs -> Entries]  BY <1>1, <1>2 DEF Entries
<1>4. ASSUME NEW x \in Mbs
      PROVE  /\ Saved(e, x) <=> Saved(entry, x)
             /\ e[x] = "finalized" <=> entry[x] = "finalized"
             /\ e[x] # "none" => Legal(x)
  <2>1. CASE x = m
    <3>1. e[x] = IF entry[x] = "none" THEN "stored" ELSE entry[x]  BY <1>1, <1>2, <2>1
    <3> QED  BY <2>1, <3>1 DEF Saved
  <2>2. CASE x # m
    <3>1. e[x] = entry[x]  BY <1>1, <1>2, <2>2
    <3> QED  BY <3>1 DEF Saved, StoreOk
  <2> QED  BY <2>1, <2>2
<1>5. \A h \in 1..MaxHeight : e[decided[h]] = "finalized" <=> entry[decided[h]] = "finalized"
  BY <1>4, MbParts
<1>6. fin # None => \A h \in 1..(fin.height - 1) : h \in 1..MaxHeight
  <2> SUFFICES ASSUME fin # None, NEW h \in 1..(fin.height - 1) PROVE h \in 1..MaxHeight
    OBVIOUS
  <2>1. fin \in Mbs  BY DEF StoreOk
  <2>2. fin.height \in 1..MaxHeight /\ MaxHeight \in Nat  BY <2>1, MbParts
  <2> QED  BY SMTT(90), <2>2
<1>7. StoreOk(e, k, ms, fin)  BY <1>3, <1>4, <1>5, <1>6 DEF StoreOk
<1> QED  BY <1>7 DEF e

\* The rest of a chain after its first block.
LEMMA RunTail ==
  ASSUME NEW c, IsRun(c), Tail(c) # <<>>
  PROVE  /\ IsRun(Tail(c)) /\ Tail(c)[1].height = c[1].height + 1
         /\ c[1] = decided[c[1].height]
         /\ \A i \in 1..Len(Tail(c)) :
               Tail(c)[i] = c[i + 1] /\ i + 1 \in 1..Len(c) /\ c[i + 1].height # c[1].height
<1> DEFINE t == Tail(c)
<1>1. c \in Seq(Mbs) /\ Len(c) \in Nat /\ Len(c) > 0  BY DEF IsRun
<1>2. t \in Seq(Mbs) /\ Len(t) = Len(c) - 1 /\ \A i \in 1..Len(t) : t[i] = c[i + 1]
  BY SMTT(90), <1>1
<1> HIDE DEF t
<1>3. Len(t) \in Nat /\ Len(t) > 0
  <2>1. t # <<>>  BY DEF t
  <2> QED  BY SMTT(90), <1>2, <2>1
<1>4. 1 \in 1..Len(c) /\ 1 \in 1..Len(t) /\ 1 < Len(c) /\ 2 \in 1..Len(c)
  BY SMTT(90), <1>1, <1>2, <1>3
<1>5. c[1].height \in Nat
  <2>1. c[1] \in Mbs  BY <1>1, <1>4
  <2>2. c[1].height \in 1..MaxHeight  BY <2>1 DEF Mbs
  <2> QED  BY SMTT(90), <2>2
<1>6. ASSUME NEW i \in 1..Len(t)
      PROVE  /\ i + 1 \in 1..Len(c) /\ t[i] = c[i + 1]
             /\ t[i].height = c[1].height + i
             /\ i < Len(t) => t[i] = decided[t[i].height]
  <2>1. i + 1 \in 1..Len(c) /\ (i < Len(t) => i + 1 < Len(c)) /\ (i + 1) - 1 = i
    BY SMTT(90), <1>1, <1>2
  <2>2. t[i] = c[i + 1]  BY <1>2
  <2>3. c[i + 1].height = c[1].height + ((i + 1) - 1)  BY <2>1, Zenon DEF IsRun
  <2>4. i + 1 < Len(c) => c[i + 1] = decided[c[i + 1].height]  BY <2>1 DEF IsRun
  <2> QED  BY <2>1, <2>2, <2>3, <2>4
<1>7. t[1].height = c[1].height + 1  BY <1>4, <1>6
<1>8. \A i \in 1..Len(t) : c[1].height + i = (c[1].height + 1) + (i - 1)
  BY SMTT(90), <1>3, <1>5
<1>9. \A i \in 1..Len(t) : t[i].height = t[1].height + (i - 1)  BY <1>6, <1>7, <1>8
<1>10. IsRun(t)  BY <1>2, <1>3, <1>6, <1>9 DEF IsRun
<1>11. c[1] = decided[c[1].height]  BY <1>4 DEF IsRun
<1>12. \A i \in 1..Len(t) : c[1].height + i # c[1].height  BY SMTT(90), <1>3, <1>5
<1>13. \A i \in 1..Len(t) : c[i + 1].height # c[1].height  BY <1>6, <1>12
<1> QED  BY <1>6, <1>7, <1>10, <1>11, <1>13 DEF t

\* mark_saved of the first block of a chain, which the database has.
LEMMA MarkSavedOk ==
  ASSUME DecidedInv, NEW k, NEW ms, NEW fin, StoreOk(entry, k, ms, fin),
         NEW c, ToSave(entry, c), c[1] \in ms,
         NEW e, e = [entry EXCEPT ![c[1]] = "saved"]
  PROVE  StoreOk(e, k, ms, fin) /\ (Tail(c) # <<>> => ToSave(e, Tail(c)))
<1> DEFINE m == c[1]
<1>1. entry \in [Mbs -> Entries]  BY DEF StoreOk
<1>2. c \in Seq(Mbs) /\ 1 \in 1..Len(c) /\ Len(c) \in Nat  BY SMTT(90) DEF ToSave, IsRun
<1>3. m \in Mbs /\ entry[m] = "stored"  BY <1>2 DEF ToSave
<1> HIDE DEF m
<1>4. e = [entry EXCEPT ![m] = "saved"]  BY DEF m
<1>5. e \in [Mbs -> Entries] /\ e[m] = "saved" /\ \A x \in Mbs : x # m => e[x] = entry[x]
  BY <1>1, <1>3, <1>4 DEF Entries
<1>6. StoreOk(e, k, ms, fin)
  <2>1. ASSUME NEW x \in Mbs
        PROVE  /\ Saved(e, x) => x \in ms
               /\ e[x] = "finalized" <=> entry[x] = "finalized"
               /\ e[x] # "none" => Legal(x)
    <3>1. CASE x = m
      <4>1. Legal(m) /\ m \in ms /\ e[x] = "saved" /\ entry[x] = "stored"
        BY <1>3, <1>5, <3>1 DEF StoreOk, m
      <4> QED  BY <3>1, <4>1
    <3>2. CASE x # m
      <4>1. e[x] = entry[x]  BY <1>5, <3>2
      <4> QED  BY <4>1 DEF Saved, StoreOk
    <3> QED  BY <3>1, <3>2
  <2>2. \A h \in 1..MaxHeight : e[decided[h]] = "finalized" <=> entry[decided[h]] = "finalized"
    BY <2>1, MbParts
  <2>3. fin # None => \A h \in 1..(fin.height - 1) : h \in 1..MaxHeight
    <3> SUFFICES ASSUME fin # None, NEW h \in 1..(fin.height - 1) PROVE h \in 1..MaxHeight
      OBVIOUS
    <3>1. fin \in Mbs  BY DEF StoreOk
    <3>2. fin.height \in 1..MaxHeight /\ MaxHeight \in Nat  BY <3>1, MbParts
    <3> QED  BY SMTT(90), <3>2
  <2> QED  BY <1>5, <2>1, <2>2, <2>3 DEF StoreOk
<1>7. ASSUME Tail(c) # <<>> PROVE ToSave(e, Tail(c))
  <2> DEFINE t == Tail(c)
  <2>1. /\ IsRun(t) /\ t[1].height = m.height + 1 /\ m = decided[m.height]
        /\ \A i \in 1..Len(t) : t[i] = c[i + 1] /\ i + 1 \in 1..Len(c) /\ c[i + 1].height # m.height
    BY <1>7, RunTail DEF ToSave, m
  <2> HIDE DEF t
  <2>2. ASSUME NEW i \in 1..Len(t) PROVE e[t[i]] = "stored"
    <3>1. c[i + 1] \in Mbs /\ c[i + 1] # m /\ entry[c[i + 1]] = "stored"
      BY <1>2, <2>1 DEF ToSave
    <3> QED  BY <1>5, <2>1, <3>1
  <2>3. t[1].height - 1 = m.height
    <3>1. m.height \in Nat  BY <1>3, MbParts
    <3> QED  BY SMTT(90), <2>1, <3>1
  <2>4. Saved(e, decided[t[1].height - 1])  BY <1>5, <2>1, <2>3 DEF Saved
  <2> QED  BY <2>1, <2>2, <2>4 DEF ToSave, t
<1> QED  BY <1>6, <1>7

\* mark_finalized of the first block of a chain, which the database has reached.
LEMMA MarkFinalizedOk ==
  ASSUME DecidedInv, NEW k, NEW ms, NEW fin, StoreOk(entry, k, ms, fin),
         NEW c, ToFinalize(entry, k, c), fin = c[1],
         NEW e, e = [entry EXCEPT ![c[1]] = "finalized"]
  PROVE  StoreOk(e, k, ms, fin) /\ (Tail(c) # <<>> => ToFinalize(e, k, Tail(c)))
<1> DEFINE m == c[1]
<1>1. entry \in [Mbs -> Entries]  BY DEF StoreOk
<1>2. c \in Seq(Mbs) /\ 1 \in 1..Len(c) /\ Len(c) \in Nat  BY SMTT(90) DEF ToFinalize, IsRun
<1>3. m \in Mbs /\ entry[m] = "saved" /\ m \in k  BY <1>2 DEF ToFinalize
<1> HIDE DEF m
<1>4. e = [entry EXCEPT ![m] = "finalized"] /\ fin = m  BY DEF m
<1>5. e \in [Mbs -> Entries] /\ e[m] = "finalized" /\ \A x \in Mbs : x # m => e[x] = entry[x]
  BY <1>1, <1>3, <1>4 DEF Entries
<1>6. m # None /\ m.height \in 1..MaxHeight /\ MaxHeight \in Nat  BY <1>3, MbParts
<1>7. StoreOk(e, k, ms, fin)
  <2>1. ASSUME NEW x \in Mbs
        PROVE  /\ Saved(e, x) <=> Saved(entry, x)
               /\ e[x] # "none" => Legal(x)
               /\ entry[x] = "finalized" => e[x] = "finalized"
               /\ e[x] = "finalized" => x = m \/ entry[x] = "finalized"
    <3>1. CASE x = m
      <4>1. Legal(m) /\ e[x] = "finalized" /\ entry[x] = "saved"
        BY <1>3, <1>5, <3>1 DEF StoreOk
      <4> QED  BY <3>1, <4>1 DEF Saved
    <3>2. CASE x # m
      <4>1. e[x] = entry[x]  BY <1>5, <3>2
      <4> QED  BY <4>1 DEF Saved, StoreOk
    <3> QED  BY <3>1, <3>2
  <2>2. ASSUME NEW h \in 1..MaxHeight, e[decided[h]] = "finalized"
        PROVE  fin # None /\ fin.height >= h
    <3>1. decided[h] \in Mbs /\ decided[h].height = h  BY MbParts DEF DecidedInv
    <3>2. CASE decided[h] = m
      <4>1. m.height >= h  BY SMTT(90), <1>6, <3>1, <3>2
      <4> QED  BY <1>4, <1>6, <4>1
    <3>3. CASE entry[decided[h]] = "finalized"  BY <3>3 DEF StoreOk
    <3> QED  BY <2>1, <2>2, <3>1, <3>2, <3>3
  <2>3. ASSUME NEW h \in 1..(fin.height - 1) PROVE e[decided[h]] = "finalized"
    <3>1. h \in 1..MaxHeight  BY SMTT(90), <1>4, <1>6
    <3>2. entry[decided[h]] = "finalized"  BY <1>4, <1>6 DEF StoreOk
    <3>3. decided[h] \in Mbs  BY <3>1, MbParts
    <3> QED  BY <2>1, <3>2, <3>3
  <2> QED  BY <1>5, <2>1, <2>2, <2>3 DEF StoreOk
<1>8. ASSUME Tail(c) # <<>> PROVE ToFinalize(e, k, Tail(c))
  <2> DEFINE t == Tail(c)
  <2>1. /\ IsRun(t) /\ t[1].height = m.height + 1 /\ m = decided[m.height]
        /\ \A i \in 1..Len(t) : t[i] = c[i + 1] /\ i + 1 \in 1..Len(c) /\ c[i + 1].height # m.height
    BY <1>8, RunTail DEF ToFinalize, m
  <2> HIDE DEF t
  <2>2. ASSUME NEW i \in 1..Len(t) PROVE e[t[i]] = "saved" /\ t[i] \in k
    <3>1. c[i + 1] \in Mbs /\ c[i + 1] # m /\ entry[c[i + 1]] = "saved" /\ c[i + 1] \in k
      BY <1>2, <2>1 DEF ToFinalize
    <3> QED  BY <1>5, <2>1, <3>1
  <2>3. t[1].height - 1 = m.height
    <3>1. m.height \in Nat  BY <1>3, MbParts
    <3> QED  BY SMTT(90), <2>1, <3>1
  <2>4. e[decided[t[1].height - 1]] = "finalized"  BY <1>5, <2>1, <2>3
  <2> QED  BY <2>1, <2>2, <2>4 DEF ToFinalize, t
<1> QED  BY <1>7, <1>8

\* process_mb_proposal of the first block of a chain.
LEMMA ProposalOk ==
  ASSUME DecidedInv, NEW k, NEW ms, NEW fin, StoreOk(entry, k, ms, fin),
         NEW c, ToSave(entry, c)
  PROVE  c[1] \in Mbs /\ StoreOk(entry, k, ms \cup {c[1]}, fin)
<1> DEFINE m == c[1]
<1>1. c \in Seq(Mbs) /\ 1 \in 1..Len(c)  BY SMTT(90) DEF ToSave, IsRun
<1>2. m \in Mbs /\ entry[m] = "stored"  BY <1>1 DEF ToSave
<1>3. Legal(m)  BY <1>2 DEF StoreOk
<1>4. /\ m.height \in 1..MaxHeight /\ m.height \in Nat /\ MaxHeight \in Nat
      /\ \A h \in 1..MaxHeight : decided[h] \in Mbs /\ decided[h].height = h
  BY <1>2, MbParts DEF DecidedInv
<1>5. m.height = 1 \/ Saved(entry, decided[m.height - 1])  BY DEF ToSave
<1> HIDE DEF m
<1>6. ASSUME NEW h \in 1..(m.height - 1) PROVE decided[h] \in ms
  <2>1. m.height # 1 /\ m.height - 1 \in 1..MaxHeight  BY SMTT(90), <1>4
  <2>2. decided[m.height - 1] \in ms  BY <1>4, <1>5, <2>1 DEF StoreOk
  <2>3. CASE h = m.height - 1  BY <2>2, <2>3
  <2>4. CASE h # m.height - 1
    <3>1. decided[m.height - 1].height = m.height - 1  BY <1>4, <2>1
    <3>2. h \in 1..((m.height - 1) - 1)  BY SMTT(90), <1>4, <2>4
    <3> QED  BY <2>2, <3>1, <3>2 DEF StoreOk
  <2> QED  BY <2>3, <2>4
<1>7. StoreOk(entry, k, ms \cup {m}, fin)  BY <1>2, <1>3, <1>6 DEF StoreOk
<1> QED  BY <1>2, <1>7 DEF m

\* process_mb_finalized of the first block of a chain: the latest finalized
\* block stays, or its child follows it.
LEMMA FinalizedOk ==
  ASSUME DecidedInv, NEW k, NEW ms, NEW fin, StoreOk(entry, k, ms, fin),
         NEW c, ToFinalize(entry, k, c)
  PROVE  /\ c[1] \in Mbs /\ c[1] \in ms /\ StoreOk(entry, k, ms, c[1])
         /\ c[1] # fin => c[1] = decided[c[1].height] /\ Parent(c[1]) = fin
<1> DEFINE m == c[1]
<1>1. c \in Seq(Mbs) /\ 1 \in 1..Len(c)  BY SMTT(90) DEF ToFinalize, IsRun
<1>2. m \in Mbs /\ entry[m] = "saved" /\ m \in k  BY <1>1 DEF ToFinalize
<1>3. m \in ms /\ m = decided[m.height]  BY <1>2 DEF StoreOk, Saved
<1>4. /\ m.height \in 1..MaxHeight /\ m.height \in Nat /\ MaxHeight \in Nat /\ m # None
  BY <1>2, MbParts
<1>5. m.height = 1 \/ entry[decided[m.height - 1]] = "finalized"  BY DEF ToFinalize
<1> HIDE DEF m
<1>6. m.height = 1 \/ (fin # None /\ fin.height >= m.height - 1)
  <2>1. m.height # 1 => m.height - 1 \in 1..MaxHeight  BY SMTT(90), <1>4
  <2> QED  BY <1>5, <2>1 DEF StoreOk
<1>7. fin # None => /\ fin.height \in Nat /\ fin.height \in 1..MaxHeight
                    /\ fin = decided[fin.height] /\ ~(fin.height > m.height)
  <2> SUFFICES ASSUME fin # None
               PROVE  /\ fin.height \in Nat /\ fin.height \in 1..MaxHeight
                      /\ fin = decided[fin.height] /\ ~(fin.height > m.height)
    OBVIOUS
  <2>1. fin \in Mbs /\ fin = decided[fin.height]  BY DEF StoreOk
  <2>2. fin.height \in Nat /\ fin.height \in 1..MaxHeight  BY <2>1, MbParts
  <2>3. m.height \notin 1..(fin.height - 1)  BY <1>2, <1>3 DEF StoreOk
  <2>4. ~(fin.height > m.height)  BY SMTT(90), <1>4, <2>2, <2>3
  <2> QED  BY <2>1, <2>2, <2>4
<1>8. CASE fin = m
  <2>1. StoreOk(entry, k, ms, m)  BY <1>8
  <2> QED  BY <1>2, <1>3, <1>8, <2>1 DEF m
<1>9. CASE fin # m
  <2>1. fin # None => fin.height # m.height  BY <1>3, <1>7, <1>9
  <2>2. fin # None => fin.height = m.height - 1 /\ m.height # 1
    <3>1. fin # None => fin.height >= 1  BY SMTT(90), <1>7, <1>4
    <3> QED  BY SMTT(90), <1>4, <1>6, <1>7, <2>1, <3>1
  <2>3. Parent(m) = fin
    <3>1. CASE fin = None  BY <1>6, <3>1 DEF Parent
    <3>2. CASE fin # None  BY <1>7, <2>2, <3>2 DEF Parent
    <3> QED  BY <3>1, <3>2
  <2>4. ASSUME NEW h \in 1..(m.height - 1) PROVE entry[decided[h]] = "finalized"
    <3>1. m.height # 1  BY SMTT(90), <1>4
    <3>2. fin # None /\ fin.height = m.height - 1  BY <1>6, <2>2, <3>1
    <3>3. CASE h = m.height - 1  BY <1>5, <3>1, <3>3
    <3>4. CASE h # m.height - 1
      <4>1. h \in 1..(fin.height - 1)  BY SMTT(90), <1>4, <3>2, <3>4
      <4> QED  BY <3>2, <4>1 DEF StoreOk
    <3> QED  BY <3>3, <3>4
  <2>5. ASSUME NEW h \in 1..MaxHeight, entry[decided[h]] = "finalized" PROVE m.height >= h
    <3>1. fin # None /\ fin.height >= h  BY <2>5 DEF StoreOk
    <3> QED  BY SMTT(90), <1>4, <1>7, <3>1
  <2>6. StoreOk(entry, k, ms, m)  BY <1>2, <1>3, <1>4, <2>4, <2>5 DEF StoreOk
  <2> QED  BY <1>2, <1>3, <2>3, <2>6 DEF m
<1> QED  BY <1>8, <1>9

\* children_of returns blocks.
LEMMA ChildrenAre ==
  ASSUME DecidedInv, NEW e, NEW m
  PROVE  ChildrenOf(e, m) \in Seq(Mbs)
<1> DEFINE S == {x \in Mbs : x.height = m.height + 1 /\ e[x] # "none"}
<1>1. IsFiniteSet(Mbs)
  <2> DEFINE A == 1..MaxHeight
             B == {0} \cup Ebs(eth)
             f == [q \in A \X B |-> [height |-> q[1], adv |-> q[2]]]
  <2>1. IsFiniteSet(A)
    <3>1. MaxHeight \in Nat /\ MaxHeight \in Int /\ 1 \in Int  BY SMTT(90), MbParts
    <3> QED  BY <3>1, FS_Interval
  <2>2. IsFiniteSet(B)
    <3>1. Ebs(eth) = 1..Len(eth.parent) /\ Len(eth.parent) \in Nat  BY TreeIs DEF DecidedInv
    <3>2. Len(eth.parent) \in Int /\ 0 \in Int /\ B = 0..Len(eth.parent)  BY SMTT(90), <3>1
    <3>3. IsFiniteSet(0..Len(eth.parent))  BY <3>2, FS_Interval
    <3> QED  BY <3>2, <3>3
  <2>3. IsFiniteSet(A \X B)  BY <2>1, <2>2, FS_Product
  <2>4. f \in Surjection(A \X B, Mbs)
    <3>1. f \in [A \X B -> Mbs]  BY DEF Mbs
    <3>2. \A x \in Mbs : <<x.height, x.adv>> \in A \X B /\ f[<<x.height, x.adv>>] = x  BY DEF Mbs
    <3> QED  BY <3>1, <3>2 DEF Surjection
  <2> HIDE DEF A, B, f
  <2> QED  BY <2>3, <2>4, FS_Surjection
<1>2. IsFiniteSet(S) /\ S \subseteq Mbs  BY <1>1, FS_Subset
<1> HIDE DEF S
<1>3. Cardinality(S) \in Nat /\ ExistsBijection(1..Cardinality(S), S)  BY <1>2, FS_CardinalityType
<1>4. PICK g : g \in Bijection(1..Cardinality(S), S)  BY <1>3 DEF ExistsBijection
<1>5. g \in [1..Cardinality(S) -> S] /\ IsInjective(g)
  BY <1>4 DEF Bijection, Injection, IsInjective
<1>6. SetToSeq(S) \in [1..Cardinality(S) -> S]  BY <1>5, Zenon DEF SetToSeq
<1>7. SetToSeq(S) \in Seq(Mbs)
  <2> DEFINE s == SetToSeq(S)
             n == Cardinality(S)
  <2>1. s \in [1..n -> S] /\ n \in Nat  BY <1>3, <1>6
  <2> HIDE DEF s, n
  <2>2. s \in Seq(S)  BY SMTT(90), <2>1
  <2>3. s \in Seq(Mbs)  BY SMTT(90), <1>2, <2>2
  <2> QED  BY <2>3 DEF s
<1>8. <<>> \in Seq(Mbs)  BY SMTT(90)
<1> QED  BY <1>7, <1>8 DEF ChildrenOf, S

\* Which part of AppInv holds at each step of the handler.
LEMMA AppAt ==
  ASSUME StoreInv
  PROVE  /\ app.at \in {"save", "mark_saved"} =>
              /\ app \in [at : {"save", "mark_saved"}, mb : Mbs, try : Seq(Mbs), todo : Seq(Mbs)]
              /\ ToSave(entry, app.todo)
              /\ app.at = "mark_saved" => app.todo[1] \in mbs
         /\ app.at \in {"finalize", "mark_finalized"} =>
              /\ app \in [at : {"finalize", "mark_finalized"}, mb : Mbs, try : Seq(Mbs), todo : Seq(Mbs)]
              /\ ToFinalize(entry, cert, app.todo)
              /\ app.at = "mark_finalized" => latestFin = app.todo[1]
         /\ \A m : app = [at |-> "record", mb |-> m] => m \in Mbs /\ Legal(m)
         /\ \A m : app = [at |-> "ingest", mb |-> m] => m \in Mbs /\ m = decided[m.height]
<1>1. AppInv(app, entry, cert, mbs, latestFin)  BY DEF StoreInv
<1>2. CASE app = Idle  BY <1>2 DEF Idle
<1>3. CASE app \in [at : {"record"}, mb : Mbs] /\ Legal(app.mb)  BY <1>3
<1>4. CASE app \in [at : {"ingest"}, mb : Mbs] /\ app.mb = decided[app.mb.height]  BY <1>4
<1>5. CASE /\ app \in [at : {"save", "mark_saved"}, mb : Mbs, try : Seq(Mbs), todo : Seq(Mbs)]
           /\ ToSave(entry, app.todo)
           /\ app.at = "mark_saved" => app.todo[1] \in mbs
  BY <1>5
<1>6. CASE /\ app \in [at : {"finalize", "mark_finalized"}, mb : Mbs, try : Seq(Mbs), todo : Seq(Mbs)]
           /\ ToFinalize(entry, cert, app.todo)
           /\ app.at = "mark_finalized" => latestFin = app.todo[1]
  BY <1>6
<1> QED  BY <1>1, <1>2, <1>3, <1>4, <1>5, <1>6 DEF AppInv

\* The first block of a chain.
LEMMA FirstIs ==
  ASSUME NEW c, IsRun(c)
  PROVE  Head(c) = c[1] /\ Tail(c) \in Seq(Mbs)
<1>1. c \in Seq(Mbs) /\ Len(c) > 0 /\ Len(c) \in Nat  BY DEF IsRun
<1> QED  BY SMTT(90), <1>1

\* record_assembled_block
LEMMA RecordInv ==
  ASSUME StoreInv, NEW m \in Mbs, Record(m)
  PROVE  StoreInv'
<1>1. /\ app = [at |-> "record", mb |-> m] /\ entry' = Insert(m)
      /\ Cascade("save", m, <<m>>, <<>>, entry', cert)
      /\ UNCHANGED <<eth, decided, cert, mbs, latestFin>>
  BY DEF Record, mbDb, prepareVars, prepareDb
<1>2. DecidedInv /\ StoreOk(entry, cert, mbs, latestFin)  BY DEF StoreInv
<1>3. Legal(m)  BY <1>1, AppAt
<1>4. StoreOk(entry', cert, mbs, latestFin)
  <2>1. StoreOk(Insert(m), cert, mbs, latestFin)  BY <1>2, <1>3, InsertOk
  <2> QED  BY <1>1, <2>1
<1>5. entry' \in [Mbs -> Entries]  BY <1>4 DEF StoreOk
<1>6. <<m>> \in Seq(Mbs) /\ <<>> \in Seq(Mbs)  BY SMTT(90)
<1>7. AppInv(app', entry', cert, mbs, latestFin)  BY <1>1, <1>2, <1>5, <1>6, CascadeIs
<1>8. /\ StoreOk(entry', cert', mbs', latestFin')
      /\ AppInv(app', entry', cert', mbs', latestFin')
  BY <1>1, <1>4, <1>7
<1> QED  BY <1>1, <1>2, <1>8, StoreFrame

\* ingest_finalized
LEMMA IngestInv ==
  ASSUME StoreInv, NEW m \in Mbs, Ingest(m)
  PROVE  StoreInv'
<1>1. /\ app = [at |-> "ingest", mb |-> m] /\ entry' = Insert(m) /\ cert' = cert \cup {m}
      /\ Cascade("finalize", m, <<m>>, <<>>, entry', cert')
      /\ UNCHANGED <<eth, decided, mbs, latestFin>>
  BY DEF Ingest, mbDb, prepareVars, prepareDb
<1>2. DecidedInv /\ StoreOk(entry, cert, mbs, latestFin)  BY DEF StoreInv
<1>3. m = decided[m.height]  BY <1>1, AppAt
<1>4. Legal(m)
  <2>1. m.height \in 1..MaxHeight  BY <1>2, MbParts
  <2>2. Legal(decided[m.height])  BY <1>2, <2>1 DEF DecidedInv
  <2> QED  BY <1>3, <2>2
<1>5. StoreOk(entry', cert', mbs, latestFin)
  <2>1. StoreOk(Insert(m), cert, mbs, latestFin)  BY <1>2, <1>4, InsertOk
  <2>2. StoreOk(entry', cert, mbs, latestFin)  BY <1>1, <2>1
  <2>3. \A x \in cert' : x \in Mbs /\ x = decided[x.height]  BY <1>1, <1>3, <2>2 DEF StoreOk
  <2> QED  BY <2>2, <2>3 DEF StoreOk
<1>6. entry' \in [Mbs -> Entries]  BY <1>5 DEF StoreOk
<1>7. <<m>> \in Seq(Mbs) /\ <<>> \in Seq(Mbs)  BY SMTT(90)
<1>8. AppInv(app', entry', cert', mbs, latestFin)  BY <1>1, <1>2, <1>6, <1>7, CascadeIs
<1>9. /\ StoreOk(entry', cert', mbs', latestFin')
      /\ AppInv(app', entry', cert', mbs', latestFin')
  BY <1>1, <1>5, <1>8
<1> QED  BY <1>1, <1>2, <1>9, StoreFrame

\* The callbacks of a chain.
LEMMA CallbackInv ==
  ASSUME StoreInv, Callback
  PROVE  /\ StoreInv'
         /\ latestFin' # latestFin =>
              latestFin' = decided[latestFin'.height] /\ Parent(latestFin') = latestFin
<1> DEFINE c == app.todo
<1>1. UNCHANGED <<eth, decided, entry, cert>>  BY DEF Callback, prepareVars, prepareDb
<1>2. DecidedInv /\ StoreOk(entry, cert, mbs, latestFin)  BY DEF StoreInv
<1>3. CASE app.at = "save"
  <2>1. /\ app \in [at : {"save", "mark_saved"}, mb : Mbs, try : Seq(Mbs), todo : Seq(Mbs)]
        /\ ToSave(entry, c)
    BY <1>3, AppAt
  <2>2. Head(c) = c[1]  BY <2>1, FirstIs DEF ToSave
  <2>3. mbs' = mbs \cup {c[1]} /\ latestFin' = latestFin /\ app' = [app EXCEPT !.at = "mark_saved"]
    BY <1>3, <2>2 DEF Callback, ProcessMbProposal
  <2>4. StoreOk(entry, cert, mbs', latestFin)  BY <1>2, <2>1, <2>3, ProposalOk
  <2>5. /\ app' \in [at : {"save", "mark_saved"}, mb : Mbs, try : Seq(Mbs), todo : Seq(Mbs)]
        /\ app'.todo = c /\ c[1] \in mbs'
    BY <2>1, <2>3
  <2>6. AppInv(app', entry, cert, mbs', latestFin')  BY <2>1, <2>5 DEF AppInv
  <2>7. /\ StoreOk(entry', cert', mbs', latestFin')
        /\ AppInv(app', entry', cert', mbs', latestFin')
    BY <1>1, <2>3, <2>4, <2>6
  <2> QED  BY <1>1, <1>2, <2>3, <2>7, StoreFrame
<1>4. CASE app.at = "finalize"
  <2>1. /\ app \in [at : {"finalize", "mark_finalized"}, mb : Mbs, try : Seq(Mbs), todo : Seq(Mbs)]
        /\ ToFinalize(entry, cert, c)
    BY <1>4, AppAt
  <2>2. Head(c) = c[1]  BY <2>1, FirstIs DEF ToFinalize
  <2>3. mbs' = mbs /\ latestFin' = c[1] /\ app' = [app EXCEPT !.at = "mark_finalized"]
    BY <1>4, <2>2 DEF Callback, ProcessMbFinalized
  <2>4. /\ StoreOk(entry, cert, mbs, c[1])
        /\ c[1] # latestFin => c[1] = decided[c[1].height] /\ Parent(c[1]) = latestFin
    BY <1>2, <2>1, FinalizedOk
  <2>5. /\ app' \in [at : {"finalize", "mark_finalized"}, mb : Mbs, try : Seq(Mbs), todo : Seq(Mbs)]
        /\ app'.todo = c
    BY <2>1, <2>3
  <2>6. AppInv(app', entry, cert, mbs, c[1])  BY <2>1, <2>5 DEF AppInv
  <2>7. /\ StoreOk(entry', cert', mbs', latestFin')
        /\ AppInv(app', entry', cert', mbs', latestFin')
    BY <1>1, <2>3, <2>4, <2>6
  <2> QED  BY <1>1, <1>2, <2>3, <2>4, <2>7, StoreFrame
<1> QED  BY <1>3, <1>4 DEF Callback

\* mark_saved and mark_finalized, with the cascade after them.
LEMMA MarkInv ==
  ASSUME StoreInv, Mark
  PROVE  StoreInv'
<1> DEFINE c == app.todo
           more(e) == app.try \o ChildrenOf(e, c[1])
<1>1. UNCHANGED <<eth, decided, cert, mbs, latestFin>>
  BY DEF Mark, prepareVars, prepareDb, mbDb
<1>2. DecidedInv /\ StoreOk(entry, cert, mbs, latestFin)  BY DEF StoreInv
<1>3. ASSUME NEW e, app.try \in Seq(Mbs) PROVE more(e) \in Seq(Mbs)
  <2>1. ChildrenOf(e, c[1]) \in Seq(Mbs)  BY <1>2, ChildrenAre
  <2> HIDE DEF c
  <2> QED  BY SMTT(90), <1>3, <2>1
<1>4. CASE app.at = "mark_saved"
  <2>1. /\ app \in [at : {"save", "mark_saved"}, mb : Mbs, try : Seq(Mbs), todo : Seq(Mbs)]
        /\ ToSave(entry, c) /\ c[1] \in mbs
    BY <1>4, AppAt
  <2>2. Head(c) = c[1] /\ Tail(c) \in Seq(Mbs)  BY <2>1, FirstIs DEF ToSave
  <2>3. /\ entry' = [entry EXCEPT ![c[1]] = "saved"]
        /\ Cascade("save", app.mb, more(entry'), Tail(c), entry', cert)
    BY <1>4, <2>2 DEF Mark
  <2>4. StoreOk(entry', cert, mbs, latestFin) /\ (Tail(c) # <<>> => ToSave(entry', Tail(c)))
    BY <1>2, <2>1, <2>3, MarkSavedOk
  <2>5. app.mb \in Mbs /\ more(entry') \in Seq(Mbs) /\ entry' \in [Mbs -> Entries]
    BY <1>3, <2>1, <2>4 DEF StoreOk
  <2> HIDE DEF more, c
  <2>6. AppInv(app', entry', cert, mbs, latestFin)
    BY <1>2, <2>2, <2>3, <2>4, <2>5, CascadeIs
  <2>7. /\ StoreOk(entry', cert', mbs', latestFin')
        /\ AppInv(app', entry', cert', mbs', latestFin')
    BY <1>1, <2>4, <2>6
  <2> QED  BY <1>1, <1>2, <2>7, StoreFrame
<1>5. CASE app.at = "mark_finalized"
  <2>1. /\ app \in [at : {"finalize", "mark_finalized"}, mb : Mbs, try : Seq(Mbs), todo : Seq(Mbs)]
        /\ ToFinalize(entry, cert, c) /\ latestFin = c[1]
    BY <1>5, AppAt
  <2>2. Head(c) = c[1] /\ Tail(c) \in Seq(Mbs)  BY <2>1, FirstIs DEF ToFinalize
  <2>3. /\ entry' = [entry EXCEPT ![c[1]] = "finalized"]
        /\ Cascade("finalize", app.mb, more(entry'), Tail(c), entry', cert)
    BY <1>5, <2>2 DEF Mark
  <2>4. /\ StoreOk(entry', cert, mbs, latestFin)
        /\ Tail(c) # <<>> => ToFinalize(entry', cert, Tail(c))
    BY <1>2, <2>1, <2>3, MarkFinalizedOk
  <2>5. app.mb \in Mbs /\ more(entry') \in Seq(Mbs) /\ entry' \in [Mbs -> Entries]
    BY <1>3, <2>1, <2>4 DEF StoreOk
  <2> HIDE DEF more, c
  <2>6. AppInv(app', entry', cert, mbs, latestFin)
    BY <1>2, <2>2, <2>3, <2>4, <2>5, CascadeIs
  <2>7. /\ StoreOk(entry', cert', mbs', latestFin')
        /\ AppInv(app', entry', cert', mbs', latestFin')
    BY <1>1, <2>4, <2>6
  <2> QED  BY <1>1, <1>2, <2>7, StoreFrame
<1> QED  BY <1>4, <1>5 DEF Mark

\* All other steps leave the stores alone, and the app idle, where it was, or
\* with a legal block to store.
LEMMA StoreOther ==
  ASSUME StoreInv, UNCHANGED <<eth, decided, entry, cert, mbs, latestFin>>,
         \/ UNCHANGED app
         \/ app' = Idle
         \/ \E m \in Mbs : app' = [at |-> "record", mb |-> m] /\ Legal(m)
         \/ \E m \in Mbs : app' = [at |-> "ingest", mb |-> m] /\ m = decided[m.height]
  PROVE  StoreInv'
<1>1. /\ DecidedInv /\ StoreOk(entry, cert, mbs, latestFin)
      /\ AppInv(app, entry, cert, mbs, latestFin)
  BY DEF StoreInv
<1>2. AppInv(app', entry, cert, mbs, latestFin)
  <2>1. CASE UNCHANGED app  BY <1>1, <2>1
  <2>2. CASE app' = Idle  BY <2>2 DEF AppInv
  <2>3. CASE \E m \in Mbs : app' = [at |-> "record", mb |-> m] /\ Legal(m)
    <3>1. app' \in [at : {"record"}, mb : Mbs] /\ Legal(app'.mb)  BY <2>3
    <3> QED  BY <3>1 DEF AppInv
  <2>4. CASE \E m \in Mbs : app' = [at |-> "ingest", mb |-> m] /\ m = decided[m.height]
    <3>1. app' \in [at : {"ingest"}, mb : Mbs] /\ app'.mb = decided[app'.mb.height]  BY <2>4
    <3> QED  BY <3>1 DEF AppInv
  <2> QED  BY <2>1, <2>2, <2>3, <2>4
<1>3. /\ StoreOk(entry', cert', mbs', latestFin')
      /\ AppInv(app', entry', cert', mbs', latestFin')
  BY <1>1, <1>2
<1> QED  BY <1>1, <1>3, StoreFrame

-----------------------------------------------------------------------------
(* Execution. *)

\* The blocks that can be executed: the database has them, and the EB they
\* advance to is prepared.
Ready == {m \in mbs : IsPrepared(m.adv)}

\* The states of ComputeSubService with blocks of R to execute.
Calcs(R) == [queue : Seq(R), inFlight : R \cup {None}, finals : Seq(Mbs)]

\* The events the callbacks emit.
Events == [kind : {"proposal", "finalized"}, mb : Mbs]

\* The inductive invariant of execution: a proposal is held back for a block the
\* database has, what the service took can be executed, and what is executed has
\* its parent executed.
ExecInv ==
    /\ pending \in Seq(Events)
    /\ \A i \in 1..Len(pending) : pending[i].kind = "proposal" => pending[i].mb \in mbs
    /\ calc \in Calcs(Ready)
    /\ \A m \in computed : m \in Ready /\ (m.height # 1 => Parent(m) \in computed)

\* The EB of the parent of a block is prepared with its own.
LEMMA OneBelow ==
  ASSUME PrepareInv, DecidedInv, NEW m \in Mbs, Legal(m), IsPrepared(m.adv), m.height # 1
  PROVE  IsPrepared(decided[m.height - 1].adv)
<1> DEFINE last == decided[m.height - 1].adv
<1>1. \/ m.adv = last
      \/ m.adv # 0 /\ last = 0
      \/ m.adv # 0 /\ last \in ToSet(ChainOf(eth.parent, m.adv))
  BY DEF Legal, AboveIn
<1> HIDE DEF last
<1>2. IsPrepared(last)
  <2>1. CASE m.adv = last  BY <2>1
  <2>2. CASE last = 0  BY <2>2 DEF IsPrepared
  <2>3. CASE m.adv # 0 /\ last \in ToSet(ChainOf(eth.parent, m.adv))
    <3>1. m.adv \in prepared  BY <2>3 DEF IsPrepared
    <3>2. ToSet(ChainTo(m.adv)) \subseteq prepared  BY <3>1, PrepareInvReady DEF PreparedIsReady
    <3>3. ChainTo(m.adv) = ChainOf(eth.parent, m.adv)  BY TreeIs DEF PrepareInv
    <3> QED  BY <2>3, <3>2, <3>3 DEF IsPrepared
  <2> QED  BY <1>1, <2>1, <2>2, <2>3
<1> QED  BY <1>2 DEF last

\* So are those of all blocks below it.
LEMMA AllBelow ==
  ASSUME PrepareInv, DecidedInv, NEW m \in Mbs, Legal(m), IsPrepared(m.adv)
  PROVE  \A h \in 1..(m.height - 1) : IsPrepared(decided[h].adv)
<1> DEFINE Bad == {m.height - h : h \in {g \in 1..(m.height - 1) : ~IsPrepared(decided[g].adv)}}
<1>1. /\ m.height \in Nat /\ m.height \in 1..MaxHeight /\ MaxHeight \in Nat
      /\ \A h \in 1..MaxHeight : decided[h] \in Mbs /\ decided[h].height = h /\ Legal(decided[h])
  BY MbParts DEF DecidedInv
<1>2. Bad = {}
  <2> SUFFICES ASSUME Bad # {} PROVE FALSE  OBVIOUS
  <2>1. Bad \subseteq Nat
    <3>1. \A h \in 1..(m.height - 1) : m.height - h \in Nat  BY SMTT(90), <1>1
    <3> QED  BY <3>1
  <2>2. PICK k \in Bad : \A l \in Bad : k <= l
    <3> HIDE DEF Bad
    <3> QED  BY <2>1, LeastNat
  <2>3. PICK h \in 1..(m.height - 1) : ~IsPrepared(decided[h].adv) /\ k = m.height - h  OBVIOUS
  <2>4. h # m.height - 1
    <3>1. m.height # 1  BY SMTT(90), <1>1
    <3>2. IsPrepared(decided[m.height - 1].adv)  BY <3>1, OneBelow
    <3> QED  BY <2>3, <3>2
  <2>5. h + 1 \in 1..(m.height - 1) /\ h + 1 \in 1..MaxHeight /\ h + 1 # 1 /\ h + 1 - 1 = h
    BY SMTT(90), <1>1, <2>4
  <2>6. decided[h + 1] \in Mbs /\ decided[h + 1].height = h + 1 /\ Legal(decided[h + 1])
    BY <1>1, <2>5
  <2>7. ~IsPrepared(decided[h + 1].adv)  BY <2>3, <2>5, <2>6, OneBelow
  <2>8. m.height - (h + 1) \in Bad  BY <2>5, <2>7
  <2>9. k <= m.height - (h + 1)  BY <2>2, <2>8
  <2> HIDE DEF Bad
  <2> QED  BY SMTT(90), <1>1, <2>3, <2>9
<1> QED  BY <1>2

\* The next block of a chain to execute can be executed, and its parent has been.
LEMMA NextIsReady ==
  ASSUME PrepareInv, StoreInv, ExecInv, NEW m \in Ready
  PROVE  /\ NextToCompute(m) \in Ready
         /\ NextToCompute(m).height # 1 => Parent(NextToCompute(m)) \in computed
<1> DEFINE S == {h \in 1..(m.height - 1) : decided[h] \in computed} \cup {0}
           low == Max(S)
           n == m.height - low
           x == Above(low, m)[1]
<1>1. DecidedInv /\ StoreOk(entry, cert, mbs, latestFin)  BY DEF StoreInv
<1>2. /\ m \in mbs /\ m \in Mbs /\ IsPrepared(m.adv) /\ Legal(m)
      /\ \A h \in 1..(m.height - 1) : decided[h] \in mbs
  BY <1>1 DEF Ready, StoreOk
<1>3. m.height \in Nat /\ m.height >= 1 /\ m.height - 1 \in Nat
  <2>1. m.height \in Nat /\ m.height >= 1  BY <1>1, <1>2, MbParts
  <2> QED  BY SMTT(90), <2>1
<1>4. S \subseteq 0..(m.height - 1) /\ S # {}  BY SMTT(90), <1>3
<1>5. low \in S /\ low \in Nat
  <2> HIDE DEF S
  <2> QED  BY <1>3, <1>4, MaxIs
<1>6. low \in 0..(m.height - 1)  BY <1>4, <1>5
<1>7. low # 0 => decided[low] \in computed  BY <1>5
<1>8. NextToCompute(m) = x  BY DEF NextToCompute
<1> HIDE DEF S, low
<1>9. 1 \in 1..n  BY SMTT(90), <1>3, <1>6
<1>10. x.height = low + 1 /\ (1 < n => x = decided[low + 1]) /\ (1 = n => x = m)
  BY <1>1, <1>2, <1>6, <1>9, AboveIs
<1>11. x \in Ready
  <2>1. CASE 1 < n
    <3>1. low + 1 \in 1..(m.height - 1)  BY SMTT(90), <1>3, <1>6, <2>1
    <3>2. decided[low + 1] \in mbs  BY <1>2, <3>1
    <3>3. IsPrepared(decided[low + 1].adv)  BY <1>1, <1>2, <3>1, AllBelow
    <3> QED  BY <1>10, <2>1, <3>2, <3>3 DEF Ready
  <2>2. CASE 1 = n  BY <1>10, <2>2
  <2> HIDE DEF x
  <2>3. 1 < n \/ 1 = n  BY SMTT(90), <1>3, <1>6
  <2> QED  BY <2>1, <2>2, <2>3
<1>12. ASSUME x.height # 1 PROVE Parent(x) \in computed
  <2>1. low # 0 /\ x.height - 1 = low  BY SMTT(90), <1>5, <1>10, <1>12
  <2> QED  BY <1>7, <1>12, <2>1 DEF Parent
<1> QED  BY <1>8, <1>11, <1>12

\* More blocks may become ready.
LEMMA CalcsGrow ==
  ASSUME NEW R, NEW T, R \subseteq T, NEW c \in Calcs(R)
  PROVE  c \in Calcs(T)
<1>1. c.queue \in Seq(R) /\ c.inFlight \in R \cup {None} /\ c.finals \in Seq(Mbs)  BY DEF Calcs
<1>2. c.queue \in Seq(T)  BY SMTT(90), <1>1
<1>3. c = [queue |-> c.queue, inFlight |-> c.inFlight, finals |-> c.finals]  BY DEF Calcs
<1>4. [queue |-> c.queue, inFlight |-> c.inFlight, finals |-> c.finals] \in Calcs(T)
  BY <1>1, <1>2 DEF Calcs
<1> QED  BY <1>3, <1>4

\* receive_mb and receive_finalized_mb_events add a block at most.
LEMMA ReceiveIs ==
  ASSUME NEW R, NEW c \in Calcs(R), NEW event \in Events,
         event.kind = "proposal" => event.mb \in R
  PROVE  Receive(c, event) \in Calcs(R)
<1>1. c.queue \in Seq(R) /\ c.finals \in Seq(Mbs)  BY DEF Calcs
<1>2. event.mb \in Mbs /\ event.kind \in {"proposal", "finalized"}  BY DEF Events
<1>3. CASE event.kind = "finalized"
  <2>1. Append(c.finals, event.mb) \in Seq(Mbs)  BY SMTT(90), <1>1, <1>2
  <2>2. Receive(c, event) = [c EXCEPT !.finals =
            IF event.mb \in ToSet(@) THEN @ ELSE Append(@, event.mb)]
    BY <1>3 DEF Receive
  <2>3. PICK q \in Seq(Mbs) : Receive(c, event) = [c EXCEPT !.finals = q]
    BY <1>1, <2>1, <2>2
  <2> QED  BY <2>3 DEF Calcs
<1>4. CASE event.kind # "finalized"
  <2>1. Append(c.queue, event.mb) \in Seq(R)  BY SMTT(90), <1>1, <1>2, <1>4
  <2>2. Receive(c, event) = [c EXCEPT !.queue =
            IF event.mb \in computed \cup ToSet(@) \cup {c.inFlight}
            THEN @ ELSE Append(@, event.mb)]
    BY <1>4 DEF Receive
  <2>3. PICK q \in Seq(R) : Receive(c, event) = [c EXCEPT !.queue = q]
    BY <1>1, <2>1, <2>2
  <2> QED  BY <2>3 DEF Calcs
<1> QED  BY <1>3, <1>4

\* f[i] is the calculator c after the first i of n events of q.
Drained(f, q, c, n) == f = [i \in 0..n |-> IF i = 0 THEN c ELSE Receive(f[i - 1], q[i])]

\* The recursion of DrainPending has a solution.
LEMMA DrainExists ==
  ASSUME NEW q, NEW c0, NEW N \in Nat
  PROVE  \E f : Drained(f, q, c0, N)
<1> USE DEF Drained
<1> DEFINE Up(f, n) == f = [i \in 0..n |-> IF i = 0 THEN c0 ELSE Receive(f[i - 1], q[i])]
           Bad == {n \in Nat : ~ \E f : Up(f, n)}
<1>1. Bad = {}
  <2> SUFFICES ASSUME Bad # {} PROVE FALSE  OBVIOUS
  <2>1. PICK n \in Bad : \A k \in Bad : n <= k
    <3>1. Bad \subseteq Nat  OBVIOUS
    <3> HIDE DEF Bad
    <3> QED  BY <3>1, LeastNat
  <2>2. n \in Nat /\ ~ \E f : Up(f, n)  OBVIOUS
  <2>3. n # 0
    <3> SUFFICES ASSUME n = 0 PROVE FALSE  OBVIOUS
    <3> DEFINE g == [i \in 0..0 |-> c0]
    <3>1. \A i \in 0..0 : i = 0  BY SMTT(90)
    <3>2. Up(g, 0)  BY <3>1
    <3> QED  BY <2>2, <3>2, Zenon
  <2>4. n - 1 \in Nat /\ n - 1 \notin Bad
    <3>1. n - 1 \in Nat  BY SMTT(90), <2>2, <2>3
    <3> HIDE DEF Bad
    <3> QED  BY SMTT(90), <2>1, <2>2, <3>1
  <2>5. PICK f : Up(f, n - 1)  BY <2>4
  <2> DEFINE g == [i \in 0..n |-> IF i = n THEN Receive(f[n - 1], q[n]) ELSE f[i]]
  <2>6. \A i \in 0..n : /\ i # n => i \in 0..(n - 1)
                        /\ i # 0 => i - 1 \in 0..n /\ i - 1 # n
                        /\ i # 0 /\ i # n => i - 1 \in 0..(n - 1)
    BY SMTT(90), <2>2
  <2>7. ASSUME NEW i \in 0..n
        PROVE  g[i] = IF i = 0 THEN c0 ELSE Receive(g[i - 1], q[i])
    <3>1. CASE i = n
      <4>1. g[i] = Receive(f[n - 1], q[n])  BY <3>1
      <4>2. g[i - 1] = f[n - 1]  BY <2>3, <2>6, <3>1
      <4> QED  BY <2>3, <3>1, <4>1, <4>2
    <3>2. CASE i # n /\ i = 0
      <4>1. g[i] = f[i] /\ i \in 0..(n - 1)  BY <2>6, <3>2
      <4>2. f[i] = c0  BY <2>5, <3>2, <4>1
      <4> QED  BY <3>2, <4>1, <4>2
    <3>3. CASE i # n /\ i # 0
      <4>1. g[i] = f[i] /\ i \in 0..(n - 1) /\ g[i - 1] = f[i - 1]  BY <2>6, <3>3
      <4>2. f[i] = Receive(f[i - 1], q[i])  BY <2>5, <3>3, <4>1
      <4> QED  BY <3>3, <4>1, <4>2
    <3> QED  BY <3>1, <3>2, <3>3
  <2>8. Up(g, n)
    <3> DEFINE r == [i \in 0..n |-> IF i = 0 THEN c0 ELSE Receive(g[i - 1], q[i])]
    <3>1. DOMAIN g = 0..n /\ DOMAIN r = 0..n  OBVIOUS
    <3>2. \A i \in 0..n : g[i] = r[i]  BY <2>7
    <3>3. g = [i \in 0..n |-> g[i]] /\ r = [i \in 0..n |-> r[i]]  OBVIOUS
    <3> HIDE DEF g, r
    <3>4. g = r  BY <3>2, <3>3
    <3> QED  BY <3>4 DEF r
  <2> HIDE DEF g
  <2> QED  BY <2>2, <2>8
<1>2. N \notin Bad  BY <1>1
<1> QED  BY <1>2

\* The events sent in one go add blocks that are ready.
LEMMA DrainIs ==
  ASSUME NEW R, NEW q \in Seq(Events), NEW c0 \in Calcs(R), NEW n \in 0..Len(q),
         \A i \in 1..n : q[i].kind = "proposal" => q[i].mb \in R,
         NEW f, f = [i \in 0..Len(q) |-> IF i = 0 THEN c0 ELSE Receive(f[i - 1], q[i])]
  PROVE  f[n] \in Calcs(R)
<1> DEFINE Bad == {k \in 0..n : f[k] \notin Calcs(R)}
<1>1. Len(q) \in Nat /\ n \in Nat  BY SMTT(90)
<1>2. Bad = {}
  <2> SUFFICES ASSUME Bad # {} PROVE FALSE  OBVIOUS
  <2>1. Bad \subseteq Nat  BY SMTT(90), <1>1
  <2>2. PICK k \in Bad : \A l \in Bad : k <= l
    <3> HIDE DEF Bad
    <3> QED  BY <2>1, LeastNat
  <2>3. k \in 0..n /\ f[k] \notin Calcs(R)  OBVIOUS
  <2>4. k \in 0..Len(q)  BY SMTT(90), <1>1, <2>3
  <2>5. f[k] = IF k = 0 THEN c0 ELSE Receive(f[k - 1], q[k])  BY <2>4
  <2>6. k # 0  BY <2>3, <2>5
  <2>7. k - 1 \in 0..n /\ ~(k <= k - 1) /\ k \in 1..n /\ k \in 1..Len(q)
    BY SMTT(90), <1>1, <2>3, <2>6
  <2>8. f[k - 1] \in Calcs(R)  BY <2>2, <2>7
  <2>9. q[k] \in Events  BY <2>7
  <2>10. Receive(f[k - 1], q[k]) \in Calcs(R)  BY <2>7, <2>8, <2>9, ReceiveIs
  <2> QED  BY <2>3, <2>5, <2>6, <2>10
<1>3. n \in 0..n  BY SMTT(90), <1>1
<1> QED  BY <1>2, <1>3

\* Of the new state it is enough to look at what execution depends on.
LEMMA ExecFrame ==
  ASSUME UNCHANGED <<eth, decided>>, pending' \in Seq(Events),
         \A i \in 1..Len(pending') : pending'[i].kind = "proposal" => pending'[i].mb \in mbs',
         calc' \in Calcs(Ready'),
         \A m \in computed' : m \in Ready' /\ (m.height # 1 => Parent(m) \in computed')
  PROVE  ExecInv'
<1>1. Mbs' = Mbs /\ decided' = decided  BY DecidedFrame
<1>2. Events' = Events  BY <1>1 DEF Events
<1>3. (calc \in Calcs(Ready))'  BY <1>1 DEF Calcs
<1>4. \A m : Parent(m)' = Parent(m)  BY <1>1 DEF Parent
<1> QED  BY <1>2, <1>3, <1>4 DEF ExecInv

\* Neither the database nor the prepared blocks shrink.
LEMMA ReadyGrows ==
  ASSUME mbs \subseteq mbs', prepared \subseteq prepared'
  PROVE  Ready \subseteq Ready'
BY DEF Ready, IsPrepared

\* Steps that emit, take or execute nothing.
LEMMA ExecOther ==
  ASSUME ExecInv, UNCHANGED <<eth, decided, pending, calc, computed>>,
         mbs \subseteq mbs', prepared \subseteq prepared'
  PROVE  ExecInv'
<1>1. Ready \subseteq Ready'  BY ReadyGrows
<1>2. calc' \in Calcs(Ready')  BY <1>1, CalcsGrow DEF ExecInv
<1>3. \A m \in computed' : m \in Ready' /\ (m.height # 1 => Parent(m) \in computed')
  BY <1>1 DEF ExecInv
<1>4. /\ pending' \in Seq(Events)
      /\ \A i \in 1..Len(pending') : pending'[i].kind = "proposal" => pending'[i].mb \in mbs'
  BY DEF ExecInv
<1> QED  BY <1>2, <1>3, <1>4, ExecFrame

\* try_emit_or_queue
LEMMA EmitInv ==
  ASSUME ExecInv, UNCHANGED <<eth, decided, prepared, computed>>, mbs \subseteq mbs',
         NEW event \in Events, event.kind = "proposal" => event.mb \in mbs',
         TryEmitOrQueue(event)
  PROVE  ExecInv'
<1>1. Ready \subseteq Ready'  BY ReadyGrows
<1>2. calc \in Calcs(Ready')  BY <1>1, CalcsGrow DEF ExecInv
<1>3. \A m \in computed' : m \in Ready' /\ (m.height # 1 => Parent(m) \in computed')
  BY <1>1 DEF ExecInv
<1>4. pending \in Seq(Events) /\ Len(pending) \in Nat  BY SMTT(90) DEF ExecInv
<1>5. \A i \in 1..Len(pending) : pending[i].kind = "proposal" => pending[i].mb \in mbs'
  BY DEF ExecInv
<1>6. CASE pending = <<>> /\ IsPrepared(event.mb.adv)
  <2>1. calc' = Receive(calc, event) /\ pending' = pending  BY <1>6 DEF TryEmitOrQueue
  <2>2. event.mb \in mbs' => event.mb \in Ready'  BY <1>6 DEF Ready, IsPrepared
  <2>3. Receive(calc, event) \in Calcs(Ready')  BY <1>2, <2>2, ReceiveIs
  <2>4. calc' \in Calcs(Ready')  BY <2>1, <2>3
  <2>5. /\ pending' \in Seq(Events)
        /\ \A i \in 1..Len(pending') : pending'[i].kind = "proposal" => pending'[i].mb \in mbs'
    BY <1>4, <1>5, <2>1
  <2> QED  BY <1>3, <2>4, <2>5, ExecFrame
<1>7. CASE ~(pending = <<>> /\ IsPrepared(event.mb.adv))
  <2>1. calc' = calc /\ pending' = Append(pending, event)  BY <1>7 DEF TryEmitOrQueue
  <2>2. /\ pending' \in Seq(Events) /\ Len(pending') = Len(pending) + 1
        /\ pending'[Len(pending) + 1] = event
        /\ \A i \in 1..Len(pending) : pending'[i] = pending[i]
    BY SMTT(90), <1>4, <2>1
  <2>3. \A i \in 1..Len(pending') : i \in 1..Len(pending) \/ i = Len(pending) + 1
    BY SMTT(90), <1>4, <2>2
  <2>4. \A i \in 1..Len(pending') : pending'[i].kind = "proposal" => pending'[i].mb \in mbs'
    BY <1>5, <2>2, <2>3
  <2>5. calc' \in Calcs(Ready')  BY <1>2, <2>1
  <2> QED  BY <1>3, <2>2, <2>4, <2>5, ExecFrame
<1> QED  BY <1>6, <1>7

\* drain_pending_events
LEMMA DrainInv ==
  ASSUME ExecInv, UNCHANGED <<eth, decided, mbs, computed>>, prepared \subseteq prepared',
         NEW b \in prepared', DrainPending(b)
  PROVE  ExecInv'
<1> DEFINE W == {i \in 1..Len(pending) :
                    ~(IsPrepared(pending[i].mb.adv) \/ pending[i].mb.adv = b)}
           S == W \cup {Len(pending) + 1}
           n == Min(S) - 1
           Is(f) == f = [i \in 0..Len(pending) |->
                            IF i = 0 THEN calc ELSE Receive(f[i - 1], pending[i])]
           after == CHOOSE f : Is(f)
<1>1. Ready \subseteq Ready'  BY ReadyGrows
<1>2. calc \in Calcs(Ready')  BY <1>1, CalcsGrow DEF ExecInv
<1>3. \A m \in computed' : m \in Ready' /\ (m.height # 1 => Parent(m) \in computed')
  BY <1>1 DEF ExecInv
<1>4. pending \in Seq(Events) /\ Len(pending) \in Nat  BY SMTT(90) DEF ExecInv
<1>5. \A i \in 1..Len(pending) : pending[i].kind = "proposal" => pending[i].mb \in mbs
  BY DEF ExecInv
<1>6. calc' = after[n] /\ pending' = SubSeq(pending, n + 1, Len(pending))
  BY DEF DrainPending, ReceiveFirst
<1>7. Is(after)
  <2>1. \E f : Is(f)
    <3> DEFINE N == Len(pending)
    <3>1. N \in Nat  BY <1>4
    <3> HIDE DEF N
    <3>2. \E f : Drained(f, pending, calc, N)  BY <3>1, DrainExists, Zenon
    <3> QED  BY ONLY <3>2, Zenon DEF N, Is, Drained
  <2> HIDE DEF Is
  <2> QED  BY <2>1, Zenon
<1>8. after = [i \in 0..Len(pending) |->
                  IF i = 0 THEN calc ELSE Receive(after[i - 1], pending[i])]
  <2> HIDE DEF after
  <2> QED  BY <1>7
<1> HIDE DEF after, Is
<1>9. W \subseteq 1..Len(pending)  OBVIOUS
<1>10. \A i \in 1..Len(pending) : i \notin W => IsPrepared(pending[i].mb.adv) \/ pending[i].mb.adv = b
  OBVIOUS
<1> HIDE DEF W
<1>11. S \subseteq Nat /\ S # {} /\ Len(pending) + 1 \in S
  <2>1. W \subseteq Nat  BY ONLY SMTT(90), <1>4, <1>9
  <2>2. Len(pending) + 1 \in Nat  BY ONLY SMTT(90), <1>4
  <2> QED  BY ONLY <2>1, <2>2
<1>12. Min(S) \in S /\ \A y \in S : Min(S) <= y
  <2> HIDE DEF S
  <2> QED  BY <1>11, MinIs
<1>13. n \in 0..Len(pending) /\ Min(S) \in Nat
  <2>1. Min(S) \in 1..Len(pending) \/ Min(S) = Len(pending) + 1  BY <1>9, <1>12
  <2> HIDE DEF S
  <2> QED  BY SMTT(90), <1>4, <2>1
<1>14. ASSUME NEW i \in 1..n, pending[i].kind = "proposal" PROVE pending[i].mb \in Ready'
  <2>1. i \in 1..Len(pending) /\ ~(Min(S) <= i)
    <3> HIDE DEF S
    <3> QED  BY SMTT(90), <1>4, <1>13
  <2>2. i \notin W  BY <1>12, <2>1
  <2>3. IsPrepared(pending[i].mb.adv) \/ pending[i].mb.adv = b  BY <1>10, <2>1, <2>2
  <2>4. pending[i].mb \in mbs'  BY <1>5, <1>14, <2>1
  <2> QED  BY <2>3, <2>4 DEF Ready, IsPrepared
<1> HIDE DEF n, S
<1>15. calc' \in Calcs(Ready')
  <2>1. after[n] \in Calcs(Ready')  BY <1>2, <1>4, <1>8, <1>13, <1>14, DrainIs
  <2> QED  BY <1>6, <2>1
<1>16. /\ pending' \in Seq(Events) /\ Len(pending') = Len(pending) - n
       /\ \A i \in 1..(Len(pending) - n) : pending'[i] = pending[n + i] /\ n + i \in 1..Len(pending)
  BY SMTT(90), <1>4, <1>6, <1>13
<1>17. \A i \in 1..Len(pending') : pending'[i].kind = "proposal" => pending'[i].mb \in mbs'
  BY <1>5, <1>16
<1> QED  BY <1>3, <1>15, <1>16, <1>17, ExecFrame

\* The steps of ComputeSubService.
LEMMA ComputeInv ==
  ASSUME PrepareInv, StoreInv, ExecInv, Compute
  PROVE  ExecInv'
<1>1. calc \in Calcs(Ready)  BY DEF ExecInv
<1>2. calc.queue \in Seq(Ready) /\ calc.finals \in Seq(Mbs) /\ calc.inFlight \in Ready \cup {None}
  BY <1>1 DEF Calcs
<1>3. UNCHANGED <<eth, decided, mbs, prepared, pending>>
  BY DEF Compute, ForwardFinalized, TakeMb, ComputeOne, MbComputed, prepareVars, prepareDb,
         coreVars, mbDb
<1>4. Ready' = Ready  BY <1>3 DEF Ready, IsPrepared
<1>5. /\ pending' \in Seq(Events)
      /\ \A i \in 1..Len(pending') : pending'[i].kind = "proposal" => pending'[i].mb \in mbs'
  BY <1>3 DEF ExecInv
<1>6. ASSUME calc' \in Calcs(Ready), computed' = computed PROVE ExecInv'
  <2>1. \A m \in computed' : m \in Ready' /\ (m.height # 1 => Parent(m) \in computed')
    BY <1>4, <1>6 DEF ExecInv
  <2>2. calc' \in Calcs(Ready')  BY <1>4, <1>6
  <2> QED  BY <1>3, <1>5, <2>1, <2>2, ExecFrame
<1>7. CASE ForwardFinalized
  <2>1. /\ calc' = [calc EXCEPT !.finals = Tail(@)] /\ calc.finals # <<>>
        /\ computed' = computed
    BY <1>7 DEF ForwardFinalized, Forwardable, mbDb
  <2>2. Tail(calc.finals) \in Seq(Mbs)  BY SMTT(90), <1>2, <2>1
  <2>3. calc' \in Calcs(Ready)  BY <1>1, <2>1, <2>2 DEF Calcs
  <2> QED  BY <1>6, <2>1, <2>3
<1>8. CASE TakeMb
  <2>1. /\ calc' = [calc EXCEPT !.inFlight = Head(calc.queue), !.queue = Tail(@)]
        /\ calc.queue # <<>> /\ computed' = computed
    BY <1>8 DEF TakeMb, mbDb
  <2>2. Tail(calc.queue) \in Seq(Ready) /\ Head(calc.queue) \in Ready  BY SMTT(90), <1>2, <2>1
  <2>3. calc' \in Calcs(Ready)  BY <1>1, <2>1, <2>2 DEF Calcs
  <2> QED  BY <1>6, <2>1, <2>3
<1>9. CASE ComputeOne
  <2> DEFINE x == NextToCompute(calc.inFlight)
  <2>1. calc.inFlight # None /\ computed' = computed \cup {x} /\ calc' = calc
    BY <1>9 DEF ComputeOne, Quiet
  <2>2. calc.inFlight \in Ready  BY <1>2, <2>1
  <2>3. x \in Ready /\ (x.height # 1 => Parent(x) \in computed)  BY <2>2, NextIsReady
  <2> HIDE DEF x
  <2>4. \A m \in computed' : m \in Ready' /\ (m.height # 1 => Parent(m) \in computed')
    BY <1>4, <2>1, <2>3 DEF ExecInv
  <2>5. calc' \in Calcs(Ready')  BY <1>1, <1>4, <2>1
  <2> QED  BY <1>3, <1>5, <2>4, <2>5, ExecFrame
<1>10. CASE MbComputed
  <2>1. calc' = [calc EXCEPT !.inFlight = None] /\ computed' = computed
    BY <1>10 DEF MbComputed, mbDb
  <2>2. calc' \in Calcs(Ready)  BY <1>1, <2>1 DEF Calcs
  <2> QED  BY <1>6, <2>1, <2>2
<1> QED  BY <1>7, <1>8, <1>9, <1>10 DEF Compute

-----------------------------------------------------------------------------
(* The theorems. *)

\* The inductive invariant of the node.
IInv == PrepareInv /\ StoreInv /\ ExecInv

\* A step of latest_finalized_mb_hash.
FinalStep ==
    latestFin' # latestFin =>
        /\ latestFin' = decided[latestFin'.height]
        /\ Parent(latestFin') = latestFin

\* A fresh node.
LEMMA InitInv ==
  ASSUME NodeInit
  PROVE  IInv
<1>1. eth \in Trees  BY DEF NodeInit, PrepareInit
<1>2. PrepareInv
  <2>1. /\ prepared = {} /\ input = <<>> /\ prep = Start
    BY DEF NodeInit, PrepareInit
  <2>2. <<>> \in Seq(Ebs(eth))  BY SMTT(90)
  <2>3. Start \in PrepStates /\ Start.chain = <<>> /\ Start.st = "Start"
    BY <2>2 DEF Start, PrepStates
  <2>4. \A i \in 1..Len(<<>>) : FALSE  BY SMTT(90)
  <2> QED  BY <1>1, <2>1, <2>2, <2>3, <2>4 DEF PrepareInv
<1>3. DecidedInv
  <2> DEFINE A == {0} \cup Ebs(eth)
  <2>1. PICK d \in Decisions(eth) : decided = [h \in DOMAIN d |-> [height |-> h, adv |-> d[h]]]
    BY DEF NodeInit
  <2>2. d \in Seq(A)  BY <1>1, NodeAssumption
  <2> HIDE DEF A
  <2>3. DOMAIN d = 1..Len(d) /\ Len(d) \in Nat /\ \A h \in 1..Len(d) : d[h] \in A
    BY SMTT(90), <2>2
  <2>4. decided = [h \in 1..Len(d) |-> [height |-> h, adv |-> d[h]]]  BY <2>1, <2>3
  <2>5. MaxHeight = Len(d)  BY SMTT(90), <2>3, <2>4 DEF MaxHeight
  <2>6. \A h \in 1..Len(d) : decided[h] \in Mbs /\ decided[h].height = h
    BY <2>3, <2>4, <2>5 DEF Mbs, A
  <2>7. decided \in [1..Len(d) -> Mbs]  BY <2>4, <2>6
  <2>8. decided \in Seq(Mbs)  BY SMTT(90), <2>3, <2>7
  <2>9. \A h \in 1..Len(d) : Legal(decided[h])
    <3>1. \A h \in DOMAIN decided : AboveDecided(decided[h])  BY DEF NodeInit
    <3>2. DOMAIN decided = 1..Len(d)  BY <2>7
    <3> QED  BY <1>1, <3>1, <3>2, LegalIs
  <2> QED  BY <1>1, <2>5, <2>6, <2>8, <2>9 DEF DecidedInv
<1>4. /\ entry = [m \in Mbs |-> "none"] /\ cert = {} /\ mbs = {} /\ latestFin = None /\ app = Idle
      /\ computed = {} /\ pending = <<>> /\ calc = NoCalc
  BY DEF NodeInit
<1>5. StoreInv
  <2>1. entry \in [Mbs -> Entries] /\ \A m \in Mbs : entry[m] = "none"  BY <1>4 DEF Entries
  <2>2. \A h \in 1..MaxHeight : entry[decided[h]] = "none"  BY <1>3, <2>1, MbParts
  <2>3. StoreOk(entry, cert, mbs, latestFin)  BY <1>4, <2>1, <2>2 DEF StoreOk, Saved
  <2>4. AppInv(app, entry, cert, mbs, latestFin)  BY <1>4 DEF AppInv
  <2> QED  BY <1>3, <2>3, <2>4 DEF StoreInv
<1>6. ExecInv
  <2>1. <<>> \in Seq(Events) /\ <<>> \in Seq(Ready) /\ <<>> \in Seq(Mbs) /\ \A i \in 1..Len(<<>>) : FALSE
    BY SMTT(90)
  <2>2. NoCalc \in Calcs(Ready)  BY <2>1 DEF NoCalc, Calcs
  <2> QED  BY <1>4, <2>1, <2>2 DEF ExecInv
<1> QED  BY <1>2, <1>5, <1>6 DEF IInv

\* A restart keeps the stores and forgets the rest.
LEMMA RestartInv ==
  ASSUME IInv, Restart
  PROVE  IInv' /\ FinalStep
<1>1. PrepareInv /\ StoreInv /\ ExecInv  BY DEF IInv
<1>2. /\ PrepareRestart /\ app' = Idle /\ pending' = <<>> /\ calc' = NoCalc
      /\ UNCHANGED <<eth, prepared, decided, entry, cert, mbs, latestFin, computed>>
  BY DEF Restart, mbDb, PrepareRestart, prepareDb
<1>3. PrepareInv'  BY <1>1, <1>2, PrepareRestartInv
<1>4. StoreInv'  BY <1>1, <1>2, StoreOther
<1>5. ExecInv'
  <2>1. <<>> \in Seq(Events) /\ <<>> \in Seq(Ready') /\ <<>> \in Seq(Mbs)
        /\ \A i \in 1..Len(<<>>) : FALSE
    BY SMTT(90)
  <2>2. calc' \in Calcs(Ready')  BY <1>2, <2>1 DEF NoCalc, Calcs
  <2>3. Ready' = Ready  BY <1>2 DEF Ready, IsPrepared
  <2>4. \A m \in computed' : m \in Ready' /\ (m.height # 1 => Parent(m) \in computed')
    BY <1>1, <1>2, <2>3 DEF ExecInv
  <2>5. /\ pending' \in Seq(Events)
        /\ \A i \in 1..Len(pending') : pending'[i].kind = "proposal" => pending'[i].mb \in mbs'
    BY <1>2, <2>1
  <2> QED  BY <1>2, <2>2, <2>4, <2>5, ExecFrame
<1> QED  BY <1>2, <1>3, <1>4, <1>5 DEF IInv, FinalStep

\* The steps of prepare.
LEMMA PrepareStepInv ==
  ASSUME IInv, \/ PrepareStep
               \/ \E b \in Ebs(eth) : Observe(b) /\ UNCHANGED nodeVars
  PROVE  IInv' /\ FinalStep
<1>1. PrepareInv /\ StoreInv /\ ExecInv  BY DEF IInv
<1>2. UNCHANGED <<decided, entry, cert, app, mbs, latestFin, computed, pending, calc>>
  BY DEF PrepareStep, nodeVars, coreVars, mbDb
<1>3. PrepareInv' /\ UNCHANGED <<eth, prepared>>
  <2>1. CASE \E b \in Ebs(eth) : Observe(b)
    <3>1. PrepareInv'  BY <1>1, <2>1, ObserveInv
    <3> QED  BY <2>1, <3>1 DEF Observe
  <2>2. CASE \E x \in Codes : BlobLoaded(x) \/ BlobFails(x)
    <3>1. UNCHANGED <<eth, prepared, known, input, prep>>
      BY <2>2 DEF BlobLoaded, BlobFails, prepareDb
    <3> QED  BY <1>1, <3>1, PrepareFrame
  <2>3. CASE \E x \in Codes : ProcessCode(x)
    <3>1. PrepareInv'  BY <1>1, <2>3, ProcessCodeInv
    <3> QED  BY <2>3, <3>1 DEF ProcessCode
  <2>4. CASE \E b \in Ebs(eth) : WaitForCodes(b, NotPreparedChain(b))
    <3>1. PrepareInv'  BY <1>1, <2>4, WaitForCodesInv
    <3> QED  BY <2>4, <3>1 DEF WaitForCodes, prepareDb
  <2> QED  BY <2>1, <2>2, <2>3, <2>4 DEF PrepareStep
<1>4. StoreInv'  BY <1>1, <1>2, <1>3, StoreOther
<1>5. ExecInv'  BY <1>1, <1>2, <1>3, ExecOther
<1> QED  BY <1>2, <1>3, <1>4, <1>5 DEF IInv, FinalStep

\* A block is prepared and what waited for it is sent.
LEMMA PreparedStepInv ==
  ASSUME IInv, NEW b \in Ebs(eth), PreparedStep(b)
  PROVE  IInv' /\ FinalStep
<1>1. PrepareInv /\ StoreInv /\ ExecInv  BY DEF IInv
<1>2. UNCHANGED <<decided, entry, cert, app, mbs, latestFin, computed>>
  BY DEF PreparedStep, coreVars, mbDb
<1>3. PrepareInv' /\ prepared \subseteq prepared' /\ b \in prepared' /\ eth' = eth
  <2>1. CASE AlreadyPrepared(b)
    <3>1. PrepareInv' /\ b \in prepared'  BY <1>1, <2>1, AlreadyPreparedInv
    <3> QED  BY <2>1, <3>1 DEF AlreadyPrepared, prepareDb
  <2>2. CASE PrepareOne(b)
    <3>1. PrepareInv' /\ prepared \subseteq prepared' /\ b \in prepared'
      BY <1>1, <2>2, PrepareOneInv
    <3> QED  BY <2>2, <3>1 DEF PrepareOne
  <2> QED  BY <2>1, <2>2 DEF PreparedStep
<1>4. StoreInv'  BY <1>1, <1>2, <1>3, StoreOther
<1>5. ExecInv'
  <2>1. CASE DrainPending(b)  BY <1>1, <1>2, <1>3, <2>1, DrainInv
  <2>2. CASE UNCHANGED <<pending, calc>>  BY <1>1, <1>2, <1>3, <2>2, ExecOther
  <2> QED  BY <2>1, <2>2 DEF PreparedStep
<1> QED  BY <1>2, <1>3, <1>4, <1>5 DEF IInv, FinalStep

\* The steps of the app.
LEMMA AppInvStep ==
  ASSUME IInv, App
  PROVE  IInv' /\ FinalStep
<1>1. PrepareInv /\ StoreInv /\ ExecInv  BY DEF IInv
<1>2. CASE Callback
  <2> DEFINE c == app.todo
  <2>1. UNCHANGED <<eth, prepared, known, input, prep, decided>>
    BY <1>2 DEF Callback, prepareVars, prepareDb, prepareMem
  <2>2. PrepareInv'  BY <1>1, <2>1, PrepareFrame
  <2>3. StoreInv' /\ FinalStep  BY <1>1, <1>2, CallbackInv DEF FinalStep
  <2>4. DecidedInv /\ StoreOk(entry, cert, mbs, latestFin)  BY <1>1 DEF StoreInv
  <2>5. CASE app.at = "save"
    <3>1. ToSave(entry, c)  BY <1>1, <2>5, AppAt
    <3>2. Head(c) = c[1] /\ c[1] \in Mbs
      BY <2>4, <3>1, FirstIs, ProposalOk DEF ToSave
    <3> DEFINE event == [kind |-> "proposal", mb |-> c[1]]
    <3>3. /\ mbs' = mbs \cup {c[1]} /\ computed' = computed /\ TryEmitOrQueue(event)
      BY <1>2, <2>5, <3>2 DEF Callback, ProcessMbProposal
    <3>4. event \in Events /\ event.mb \in mbs'  BY <3>2, <3>3 DEF Events
    <3> HIDE DEF event
    <3>5. ExecInv'  BY <1>1, <2>1, <3>3, <3>4, EmitInv
    <3> QED  BY <2>2, <2>3, <3>5 DEF IInv
  <2>6. CASE app.at = "finalize"
    <3>1. ToFinalize(entry, cert, c)  BY <1>1, <2>6, AppAt
    <3>2. Head(c) = c[1] /\ c[1] \in Mbs
      BY <2>4, <3>1, FirstIs, FinalizedOk DEF ToFinalize
    <3> DEFINE event == [kind |-> "finalized", mb |-> c[1]]
    <3>3. /\ mbs' = mbs /\ computed' = computed /\ TryEmitOrQueue(event)
      BY <1>2, <2>6, <3>2 DEF Callback, ProcessMbFinalized
    <3>4. event \in Events /\ event.kind # "proposal"  BY <3>2 DEF Events
    <3> HIDE DEF event
    <3>5. ExecInv'  BY <1>1, <2>1, <3>3, <3>4, EmitInv
    <3> QED  BY <2>2, <2>3, <3>5 DEF IInv
  <2> QED  BY <1>2, <2>5, <2>6 DEF Callback
<1>3. CASE Mark \/ \E m \in Mbs : Record(m) \/ Ingest(m)
  <2>1. UNCHANGED <<eth, prepared, known, input, prep, decided, mbs, latestFin, computed, pending, calc>>
    BY <1>3 DEF Mark, Record, Ingest, prepareVars, prepareDb, prepareMem, mbDb
  <2>2. PrepareInv'  BY <1>1, <2>1, PrepareFrame
  <2>3. StoreInv'  BY <1>1, <1>3, MarkInv, RecordInv, IngestInv
  <2>4. ExecInv'  BY <1>1, <2>1, ExecOther
  <2> QED  BY <2>1, <2>2, <2>3, <2>4 DEF IInv, FinalStep
<1> QED  BY <1>2, <1>3 DEF App

\* The inputs of the engine.
LEMMA EngineInv ==
  ASSUME IInv, StartRound \/ \E m \in Mbs : Propose(m) \/ SyncValue(m) \/ Decide(m)
  PROVE  IInv' /\ FinalStep
<1>1. PrepareInv /\ StoreInv /\ ExecInv /\ DecidedInv /\ eth \in Trees
  BY DEF IInv, StoreInv, DecidedInv
<1>2. UNCHANGED <<eth, prepared, known, input, prep, decided, entry, cert, mbs, latestFin, computed,
                  pending, calc>>
  BY DEF StartRound, Propose, SyncValue, StoreUndecided, Decide, prepareVars, prepareDb,
         prepareMem, mbDb
<1>3. \/ UNCHANGED app
      \/ \E m \in Mbs : app' = [at |-> "record", mb |-> m] /\ Legal(m)
      \/ \E m \in Mbs : app' = [at |-> "ingest", mb |-> m] /\ m = decided[m.height]
  <2>1. CASE StartRound  BY <2>1 DEF StartRound
  <2>2. ASSUME NEW m \in Mbs, Propose(m)
        PROVE  app' = [at |-> "record", mb |-> m] /\ Legal(m)
    <3>1. AboveDecided(m) /\ app' = [at |-> "record", mb |-> m]
      BY <2>2 DEF Propose, StoreUndecided
    <3> QED  BY <1>1, <3>1, LegalIs
  <2>3. ASSUME NEW m \in Mbs, SyncValue(m)
        PROVE  app' = [at |-> "record", mb |-> m] /\ Legal(m)
    <3>1. m = decided[m.height] /\ app' = [at |-> "record", mb |-> m]
      BY <2>3 DEF SyncValue, StoreUndecided
    <3>2. m.height \in 1..MaxHeight  BY <1>1, MbParts
    <3>3. Legal(decided[m.height])  BY <1>1, <3>2 DEF DecidedInv
    <3> QED  BY <3>1, <3>3
  <2>4. ASSUME NEW m \in Mbs, Decide(m)
        PROVE  app' = [at |-> "ingest", mb |-> m] /\ m = decided[m.height]
    BY <2>4 DEF Decide
  <2> QED  BY <2>1, <2>2, <2>3, <2>4
<1>4. PrepareInv'  BY <1>1, <1>2, PrepareFrame
<1>5. StoreInv'  BY <1>1, <1>2, <1>3, StoreOther
<1>6. ExecInv'  BY <1>1, <1>2, ExecOther
<1> QED  BY <1>2, <1>4, <1>5, <1>6 DEF IInv, FinalStep

\* Every step keeps the invariant, and moves the latest finalized block by one
\* at most.
LEMMA StepInv ==
  ASSUME IInv, [Next]_vars
  PROVE  IInv' /\ FinalStep
<1>1. CASE PrepareStep \/ \E b \in Ebs(eth) : Observe(b) /\ UNCHANGED nodeVars
  BY <1>1, PrepareStepInv
<1>2. CASE \E b \in Ebs(eth) : PreparedStep(b)  BY <1>2, PreparedStepInv
<1>3. CASE App  BY <1>3, AppInvStep
<1>4. CASE Compute
  <2>1. PrepareInv /\ StoreInv /\ ExecInv  BY DEF IInv
  <2>2. UNCHANGED <<eth, prepared, known, input, prep, decided, entry, cert, app, mbs, latestFin>>
    BY <1>4 DEF Compute, ForwardFinalized, TakeMb, ComputeOne, MbComputed, prepareVars, prepareDb,
                prepareMem, coreVars, mbDb
  <2>3. PrepareInv'  BY <2>1, <2>2, PrepareFrame
  <2>4. StoreInv'  BY <2>1, <2>2, StoreOther
  <2>5. ExecInv'  BY <1>4, <2>1, ComputeInv
  <2> QED  BY <2>2, <2>3, <2>4, <2>5 DEF IInv, FinalStep
<1>5. CASE StartRound \/ \E m \in Mbs : Propose(m) \/ SyncValue(m) \/ Decide(m)
  BY <1>5, EngineInv
<1>6. CASE Crash \/ BuildFails
  <2>1. Restart  BY <1>6 DEF Crash, BuildFails
  <2> QED  BY <2>1, RestartInv
<1>7. CASE UNCHANGED vars
  <2>1. PrepareInv /\ StoreInv /\ ExecInv  BY DEF IInv
  <2>2. UNCHANGED <<eth, prepared, known, input, prep, decided, entry, cert, app, mbs, latestFin,
                    computed, pending, calc>>
    BY <1>7 DEF vars, nodeVars, coreVars, mbDb, prepareVars, prepareDb, prepareMem
  <2>3. PrepareInv'  BY <2>1, <2>2, PrepareFrame
  <2>4. StoreInv'  BY <2>1, <2>2, StoreOther
  <2>5. ExecInv'  BY <2>1, <2>2, ExecOther
  <2> QED  BY <2>2, <2>3, <2>4, <2>5 DEF IInv, FinalStep
<1> QED  BY <1>1, <1>2, <1>3, <1>4, <1>5, <1>6, <1>7 DEF Next, NodeStep

\* The invariant gives the properties of the node.
LEMMA InvGives ==
  ASSUME IInv
  PROVE  PreparedIsReady /\ StoreFollowsDb /\ ExecutedIsReady
<1>1. PrepareInv /\ StoreInv /\ ExecInv /\ StoreOk(entry, cert, mbs, latestFin) /\ DecidedInv
  BY DEF IInv, StoreInv
<1>2. PreparedIsReady  BY <1>1, PrepareInvReady
<1>3. StoreFollowsDb
  <2>1. \A h \in 1..MaxHeight : h # 0
    <3>1. MaxHeight \in Nat  BY <1>1, MbParts
    <3> QED  BY SMTT(90), <3>1
  <2> QED  BY <1>1, <2>1 DEF StoreFollowsDb, FinalizedAt, StoreOk
<1>4. ExecutedIsReady
  <2> DEFINE x == NextToCompute(calc.inFlight)
             executing == IF Quiet \/ calc.inFlight \in computed THEN {} ELSE {x}
  <2>1. ASSUME calc.inFlight # None PROVE x \in Ready /\ (x.height # 1 => Parent(x) \in computed)
    <3>1. calc.inFlight \in Ready  BY <1>1, <2>1 DEF ExecInv, Calcs
    <3> QED  BY <1>1, <3>1, NextIsReady
  <2>2. \A m \in computed \cup executing : m \in Ready /\ (m.height # 1 => Parent(m) \in computed)
    <3>1. \A m \in computed : m \in Ready /\ (m.height # 1 => Parent(m) \in computed)
      BY <1>1 DEF ExecInv
    <3>2. \A m \in executing : calc.inFlight # None /\ m = x  BY DEF Quiet
    <3> HIDE DEF x, executing
    <3> QED  BY <2>1, <3>1, <3>2
  <2>3. \A m \in Ready : m.height > 1 => m.height # 1
    <3>1. \A m \in Ready : m.height \in Nat  BY <1>1, MbParts DEF Ready, StoreOk
    <3> QED  BY SMTT(90), <3>1
  <2>4. \A m \in Ready : m \in mbs /\ IsPrepared(m.adv)  BY DEF Ready
  <2>5. \A m \in computed \cup executing :
          /\ m \in mbs /\ IsPrepared(m.adv)
          /\ m.height > 1 => Parent(m) \in computed
    <3> HIDE DEF executing, x
    <3> QED  BY <2>2, <2>3, <2>4
  <2> QED  BY <2>5 DEF ExecutedIsReady
<1> QED  BY <1>2, <1>3, <1>4

\* The invariant holds in every state of a node.
LEMMA NodeInvariant == Spec => []IInv
<1>1. NodeInit => IInv  BY InitInv
<1>2. IInv /\ [Next]_vars => IInv'  BY StepInv
<1> QED  BY <1>1, <1>2, PTL DEF Spec

\* prepare_one_block is called for a block after its ancestors and after the
\* codes it reports as validated were processed, whatever blocks the observer
\* announces, in whichever order blobs arrive, fail and are processed, and
\* wherever the node restarts.
THEOREM PrepareSafety == Spec => []PreparedIsReady
<1>1. IInv => PreparedIsReady  BY InvGives
<1> QED  BY <1>1, NodeInvariant, PTL

\* The Malachite store is never ahead of the node's database: cascade_save and
\* cascade_finalize call back before they mark, for every chain of decisions and
\* wherever the node crashes.
THEOREM StoreSafety == Spec => []StoreFollowsDb
<1>1. IInv => StoreFollowsDb  BY InvGives
<1> QED  BY <1>1, NodeInvariant, PTL

\* compute never meets a block whose data, prepared EB or executed parent is
\* missing, though ancestors are executed without an event of their own and the
\* events held back are lost in a restart.
THEOREM ExecutionSafety == Spec => []ExecutedIsReady
<1>1. IInv => ExecutedIsReady  BY InvGives
<1> QED  BY <1>1, NodeInvariant, PTL

\* process_mb_finalized moves latest_finalized_mb_hash to a decided child of the
\* block it is at, or leaves it, also when a finalization is repeated after a
\* crash.
THEOREM FinalizationSafety == Spec => FinalizedMovesByOne
<1>1. IInv /\ [Next]_vars => FinalStep  BY StepInv
<1>2. IInv /\ [Next]_vars => [FinalStep]_vars  BY <1>1
<1> QED  BY <1>2, NodeInvariant, PTL DEF Spec, FinalizedMovesByOne, FinalStep

=============================================================================
