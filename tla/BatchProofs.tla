---------------------------- MODULE BatchProofs -----------------------------
(***************************************************************************)
(* Proofs about EthexeBatches: what the Router accepts on one Ethereum     *)
(* chain, whatever forks, loses, delays or repeats, is the decided         *)
(* sequence of MBs in its order.                                           *)
(***************************************************************************)
EXTENDS EthexeBatches, FiniteSetTheorems, SequenceTheorems, NaturalsInduction, TLAPS

\* First-order leaves first, then arithmetic and records.
USE ZenonT(5), SMTT(90)

-----------------------------------------------------------------------------
(* Counting up. *)

\* A set of naturals that is not empty has a least member.
LEMMA LeastNat ==
  ASSUME NEW T, T \subseteq Nat, T # {}
  PROVE  \E m \in T : \A n \in T : m <= n
<1>1. \E x \in T : \A y \in T : ~(<<y, x>> \in OpToRel(<, Nat))
  BY WFMin, NatLessThanWellFounded
<1>2. \E x \in T : \A y \in T : ~(y < x)  BY <1>1 DEF OpToRel
<1> QED  BY SMTT(90), <1>2

\* What holds of 0 and is handed on from each number to the next holds up to n.
LEMMA CountUp ==
  ASSUME NEW n \in Nat, NEW P, 0 \in P, \A i \in 1..n : i - 1 \in P => i \in P
  PROVE  \A i \in 0..n : i \in P
<1> SUFFICES ASSUME NEW j \in 0..n, j \notin P PROVE FALSE  OBVIOUS
<1> DEFINE T == (0..n) \ P
<1>1. T \subseteq Nat /\ T # {}  OBVIOUS
<1>2. PICK m \in T : \A k \in T : m <= k
  <2> HIDE DEF T
  <2> QED  BY <1>1, LeastNat
<1>3. m \in 1..n /\ m - 1 \in 0..n /\ m \in Nat /\ m - 1 \in Nat  BY SMTT(90), <1>2
<1>4. m - 1 \notin T
  <2> HIDE DEF T
  <2> QED  BY SMTT(90), <1>2, <1>3
<1> QED  BY <1>2, <1>3, <1>4

-----------------------------------------------------------------------------
(* Selecting from a sequence. *)

\* The recursion of OnlyIn, up to n.
IsUpTo(f, s, S, n) ==
    f = [i \in 0..n |-> IF i = 0 THEN <<>>
                        ELSE IF s[i] \in S THEN Append(f[i - 1], s[i]) ELSE f[i - 1]]

\* The recursion of OnlyIn has a solution.
LEMMA UpToExists ==
  ASSUME NEW s, NEW S, NEW n \in Nat
  PROVE  \E f : IsUpTo(f, s, S, n)
<1> DEFINE P == {k \in 0..n : \E f : IsUpTo(f, s, S, k)}
<1>1. 0 \in P
  <2> DEFINE g == [i \in 0..0 |-> <<>>]
  <2>1. g = [i \in 0..0 |-> IF i = 0 THEN <<>>
                            ELSE IF s[i] \in S THEN Append(g[i - 1], s[i]) ELSE g[i - 1]]
    BY SMTT(90)
  <2>2. IsUpTo(g, s, S, 0)  BY <2>1 DEF IsUpTo
  <2> HIDE DEF g
  <2> QED  BY <2>2, SMTT(90)
<1>2. ASSUME NEW k \in 1..n, k - 1 \in P PROVE k \in P
  <2>1. PICK f : IsUpTo(f, s, S, k - 1)  BY <1>2
  <2> DEFINE new == IF s[k] \in S THEN Append(f[k - 1], s[k]) ELSE f[k - 1]
             g == [i \in 0..k |-> IF i = k THEN new ELSE f[i]]
             Step(h, i) == IF i = 0 THEN <<>>
                           ELSE IF s[i] \in S THEN Append(h[i - 1], s[i]) ELSE h[i - 1]
  <2>2. \A i \in 0..(k - 1) : f[i] = Step(f, i)  BY <2>1 DEF IsUpTo
  <2>3. ASSUME NEW i \in 0..k PROVE g[i] = Step(g, i)
    <3>1. CASE i = k
      <4>1. i - 1 \in 0..k /\ i - 1 # k /\ i # 0  BY SMTT(90), <3>1
      <4>2. g[i - 1] = f[i - 1] /\ g[i] = new  BY <3>1, <4>1
      <4> QED  BY <3>1, <4>1, <4>2
    <3>2. CASE i # k
      <4>1. i \in 0..(k - 1)  BY SMTT(90), <3>2
      <4>2. g[i] = f[i]  BY <3>2
      <4>3. i # 0 => i - 1 \in 0..k /\ i - 1 # k  BY SMTT(90), <3>2
      <4>4. i # 0 => g[i - 1] = f[i - 1]  BY <4>3
      <4> QED  BY <2>2, <4>1, <4>2, <4>4
    <3> QED  BY <3>1, <3>2
  <2>4. IsUpTo(g, s, S, k)  BY <2>3 DEF IsUpTo
  <2>5. k \in 0..n  BY SMTT(90)
  <2> HIDE DEF g
  <2> QED  BY <2>4, <2>5
<1>3. \A i \in 0..n : i \in P
  <2> HIDE DEF P
  <2> QED  BY <1>1, <1>2, CountUp
<1>4. n \in 0..n  BY SMTT(90)
<1> QED  BY <1>3, <1>4

\* What OnlyIn has selected after each element of s.
UpTo(s, S) ==
    CHOOSE f : f = [i \in 0..Len(s) |->
                      IF i = 0 THEN <<>>
                      ELSE IF s[i] \in S THEN Append(f[i - 1], s[i]) ELSE f[i - 1]]

\* UpTo follows the recursion, and OnlyIn is its last value.
LEMMA UpToIs ==
  ASSUME NEW s, NEW S, Len(s) \in Nat
  PROVE  /\ UpTo(s, S)[0] = <<>>
         /\ \A i \in 1..Len(s) : UpTo(s, S)[i] = IF s[i] \in S THEN Append(UpTo(s, S)[i - 1], s[i])
                                                 ELSE UpTo(s, S)[i - 1]
         /\ OnlyIn(s, S) = UpTo(s, S)[Len(s)]
<1> DEFINE f == UpTo(s, S)
<1>1. f = [i \in 0..Len(s) |->
             IF i = 0 THEN <<>> ELSE IF s[i] \in S THEN Append(f[i - 1], s[i]) ELSE f[i - 1]]
  <2>1. \E g : IsUpTo(g, s, S, Len(s))  BY UpToExists
  <2> QED  BY <2>1, Zenon DEF UpTo, IsUpTo
<1>2. OnlyIn(s, S) = f[Len(s)]  BY DEF OnlyIn, UpTo
<1> HIDE DEF f
<1>3. 0 \in 0..Len(s) /\ \A i \in 1..Len(s) : i \in 0..Len(s) /\ i # 0  BY SMTT(90)
<1>4. f[0] = <<>>  BY <1>1, <1>3
<1>5. \A i \in 1..Len(s) : f[i] = IF s[i] \in S THEN Append(f[i - 1], s[i]) ELSE f[i - 1]
  BY <1>1, <1>3
<1> QED  BY <1>2, <1>4, <1>5 DEF f

\* OnlyIn selects elements of the sequence that are in the set.
LEMMA OnlyInType ==
  ASSUME NEW A, NEW s \in Seq(A), NEW S
  PROVE  OnlyIn(s, S) \in Seq(A \cap S)
<1> DEFINE f == UpTo(s, S)
           P == {i \in 0..Len(s) : f[i] \in Seq(A \cap S)}
<1>0. Len(s) \in Nat  OBVIOUS
<1>1. /\ f[0] = <<>> /\ OnlyIn(s, S) = f[Len(s)]
      /\ \A i \in 1..Len(s) : f[i] = IF s[i] \in S THEN Append(f[i - 1], s[i]) ELSE f[i - 1]
  BY <1>0, UpToIs
<1> HIDE DEF f
<1>2. 0 \in P
  <2>1. <<>> \in Seq(A \cap S) /\ 0 \in 0..Len(s)  BY SMTT(90), <1>0
  <2> QED  BY <1>1, <2>1
<1>3. ASSUME NEW i \in 1..Len(s), i - 1 \in P PROVE i \in P
  <2>1. f[i - 1] \in Seq(A \cap S) /\ s[i] \in A /\ i \in 0..Len(s)  BY SMTT(90), <1>3
  <2>2. s[i] \in S => Append(f[i - 1], s[i]) \in Seq(A \cap S)  BY SMTT(90), <2>1
  <2> QED  BY <1>1, <2>1, <2>2
<1>4. \A i \in 0..Len(s) : i \in P
  <2> HIDE DEF P
  <2> QED  BY <1>0, <1>2, <1>3, CountUp
<1>5. Len(s) \in 0..Len(s)  BY SMTT(90), <1>0
<1> QED  BY <1>1, <1>4, <1>5

\* OnlyIn depends only on which elements of the sequence are in the set.
LEMMA OnlyInSame ==
  ASSUME NEW A, NEW s \in Seq(A), NEW S, NEW T, \A x \in A : x \in S <=> x \in T
  PROVE  OnlyIn(s, S) = OnlyIn(s, T)
<1> DEFINE f == UpTo(s, S)
           g == UpTo(s, T)
           P == {i \in 0..Len(s) : f[i] = g[i]}
<1>0. Len(s) \in Nat  OBVIOUS
<1>1. /\ f[0] = <<>> /\ OnlyIn(s, S) = f[Len(s)]
      /\ \A i \in 1..Len(s) : f[i] = IF s[i] \in S THEN Append(f[i - 1], s[i]) ELSE f[i - 1]
  BY <1>0, UpToIs
<1>2. /\ g[0] = <<>> /\ OnlyIn(s, T) = g[Len(s)]
      /\ \A i \in 1..Len(s) : g[i] = IF s[i] \in T THEN Append(g[i - 1], s[i]) ELSE g[i - 1]
  BY <1>0, UpToIs
<1> HIDE DEF f, g
<1>3. 0 \in P  BY SMTT(90), <1>0, <1>1, <1>2
<1>4. ASSUME NEW i \in 1..Len(s), i - 1 \in P PROVE i \in P
  <2>1. f[i - 1] = g[i - 1] /\ s[i] \in A /\ i \in 0..Len(s)  BY SMTT(90), <1>4
  <2> QED  BY <1>1, <1>2, <2>1
<1>5. \A i \in 0..Len(s) : i \in P
  <2> HIDE DEF P
  <2> QED  BY <1>0, <1>3, <1>4, CountUp
<1>6. Len(s) \in 0..Len(s)  BY SMTT(90), <1>0
<1> QED  BY <1>1, <1>2, <1>5, <1>6

\* OnlyIn of two sequences, one after the other.
LEMMA OnlyInCat ==
  ASSUME NEW A, NEW s \in Seq(A), NEW t \in Seq(A), NEW S
  PROVE  OnlyIn(s \o t, S) = OnlyIn(s, S) \o OnlyIn(t, S)
<1> DEFINE r == s \o t
           f == UpTo(s, S)
           g == UpTo(t, S)
           h == UpTo(r, S)
           P == {i \in 0..Len(s) : h[i] = f[i]}
           Q == {j \in 0..Len(t) : g[j] \in Seq(A) /\ h[Len(s) + j] = f[Len(s)] \o g[j]}
<1>0. /\ Len(s) \in Nat /\ Len(t) \in Nat /\ r \in Seq(A) /\ Len(r) = Len(s) + Len(t)
      /\ \A i \in 1..Len(s) : r[i] = s[i]
      /\ \A j \in 1..Len(t) : r[Len(s) + j] = t[j]
  BY SMTT(90)
<1>1. /\ f[0] = <<>> /\ OnlyIn(s, S) = f[Len(s)]
      /\ \A i \in 1..Len(s) : f[i] = IF s[i] \in S THEN Append(f[i - 1], s[i]) ELSE f[i - 1]
  BY <1>0, UpToIs
<1>2. /\ g[0] = <<>> /\ OnlyIn(t, S) = g[Len(t)]
      /\ \A j \in 1..Len(t) : g[j] = IF t[j] \in S THEN Append(g[j - 1], t[j]) ELSE g[j - 1]
  BY <1>0, UpToIs
<1>3. /\ h[0] = <<>> /\ OnlyIn(r, S) = h[Len(r)]
      /\ \A i \in 1..Len(r) : h[i] = IF r[i] \in S THEN Append(h[i - 1], r[i]) ELSE h[i - 1]
  <2>1. Len(r) \in Nat  BY SMTT(90), <1>0
  <2> HIDE DEF r
  <2> QED  BY <2>1, UpToIs
<1>4. f[Len(s)] \in Seq(A)
  <2>1. OnlyIn(s, S) \in Seq(A \cap S)  BY OnlyInType
  <2> QED  BY SMTT(90), <1>1, <2>1
<1> HIDE DEF f, g, h, r
<1>5. \A i \in 0..Len(s) : i \in P
  <2>1. 0 \in P  BY SMTT(90), <1>0, <1>1, <1>3
  <2>2. ASSUME NEW i \in 1..Len(s), i - 1 \in P PROVE i \in P
    <3>1. i \in 1..Len(r) /\ i \in 0..Len(s)  BY SMTT(90), <1>0
    <3>2. h[i - 1] = f[i - 1] /\ r[i] = s[i]  BY <1>0, <2>2
    <3> QED  BY <1>1, <1>3, <3>1, <3>2
  <2> HIDE DEF P
  <2> QED  BY <1>0, <2>1, <2>2, CountUp
<1>6. h[Len(s)] = f[Len(s)]
  <2>1. Len(s) \in 0..Len(s)  BY SMTT(90), <1>0
  <2> QED  BY <1>5, <2>1
<1>7. \A j \in 0..Len(t) : j \in Q
  <2>1. 0 \in Q
    <3>1. Len(s) + 0 = Len(s) /\ 0 \in 0..Len(t)  BY SMTT(90), <1>0
    <3>2. <<>> \in Seq(A) /\ f[Len(s)] \o <<>> = f[Len(s)]  BY SMTT(90), <1>4
    <3> QED  BY <1>2, <1>6, <3>1, <3>2
  <2>2. ASSUME NEW j \in 1..Len(t), j - 1 \in Q PROVE j \in Q
    <3>1. /\ Len(s) + j \in 1..Len(r) /\ j \in 0..Len(t) /\ Len(s) + (j - 1) = Len(s) + j - 1
          /\ t[j] \in A
      BY SMTT(90), <1>0
    <3>2. g[j - 1] \in Seq(A) /\ h[Len(s) + j - 1] = f[Len(s)] \o g[j - 1]  BY <2>2, <3>1
    <3>3. h[Len(s) + j] = IF t[j] \in S THEN Append(h[Len(s) + j - 1], t[j]) ELSE h[Len(s) + j - 1]
      BY <1>0, <1>3, <3>1
    <3>4. Append(f[Len(s)] \o g[j - 1], t[j]) = f[Len(s)] \o Append(g[j - 1], t[j])
      <4>1. PICK u \in Seq(A) : u = f[Len(s)]  BY <1>4
      <4>2. PICK v \in Seq(A) : v = g[j - 1]  BY <3>2
      <4>3. PICK x \in A : x = t[j]  BY <3>1
      <4>4. Append(u \o v, x) = u \o Append(v, x)
        <5> DEFINE p == Append(u \o v, x)
                   q == u \o Append(v, x)
        <5>1. p \in Seq(A) /\ q \in Seq(A) /\ Len(p) = Len(q)  BY ONLY SMTT(90)
        <5>2. ASSUME NEW i \in 1..Len(p) PROVE p[i] = q[i]
          <6>1. /\ Len(u) \in Nat /\ Len(v) \in Nat
                /\ Len(u \o v) = Len(u) + Len(v) /\ Len(Append(v, x)) = Len(v) + 1
            BY ONLY SMTT(90)
          <6>2. i \in 1..(Len(u) + Len(v) + 1)  BY ONLY SMTT(90), i \in 1..Len(p)
          <6>3. CASE i \in 1..Len(u)
            <7>1. p[i] = u[i]  BY ONLY SMTT(90), <6>1, <6>3
            <7>2. q[i] = u[i]  BY ONLY SMTT(90), <6>1, <6>3
            <7> QED  BY ONLY <7>1, <7>2
          <6>4. CASE i \in (Len(u) + 1)..(Len(u) + Len(v))
            <7>1. p[i] = v[i - Len(u)]  BY ONLY SMTT(90), <6>1, <6>4
            <7>2. q[i] = v[i - Len(u)]  BY ONLY SMTT(90), <6>1, <6>4
            <7> QED  BY ONLY <7>1, <7>2
          <6>5. CASE i = Len(u) + Len(v) + 1
            <7>1. p[i] = x  BY ONLY SMTT(90), <6>1, <6>5
            <7>2. q[i] = x  BY ONLY SMTT(90), <6>1, <6>5
            <7> QED  BY ONLY <7>1, <7>2
          <6> QED  BY ONLY SMTT(90), <6>1, <6>2, <6>3, <6>4, <6>5
        <5> HIDE DEF p, q
        <5>3. p = q  BY ONLY <5>1, <5>2, SeqEqual
        <5> QED  BY ONLY <5>3 DEF p, q
      <4> QED  BY <4>1, <4>2, <4>3, <4>4
    <3>5. Append(g[j - 1], t[j]) \in Seq(A)  BY SMTT(90), <3>1, <3>2
    <3> QED  BY <1>2, <3>1, <3>2, <3>3, <3>4, <3>5
  <2> HIDE DEF Q
  <2> QED  BY <1>0, <2>1, <2>2, CountUp
<1>8. Len(t) \in 0..Len(t)  BY SMTT(90), <1>0
<1>9. h[Len(s) + Len(t)] = f[Len(s)] \o g[Len(t)]  BY <1>7, <1>8
<1> QED  BY <1>0, <1>1, <1>2, <1>3, <1>9 DEF r

-----------------------------------------------------------------------------
(* The transitions of a run of MBs. *)

\* Transitions over a given sequence of MBs.
TransitionsOf(ms, from, to) ==
    OnlyIn([i \in 1..(to - from) |-> from + i], {m \in DOMAIN ms : ms[m].full})

\* The heights from one MB to another.
LEMMA RunIs ==
  ASSUME NEW from \in Nat, NEW to \in Nat, from <= to
  PROVE  /\ [i \in 1..(to - from) |-> from + i] \in Seq(1..to)
         /\ Len([i \in 1..(to - from) |-> from + i]) = to - from
<1> DEFINE r == [i \in 1..(to - from) |-> from + i]
<1>1. to - from \in Nat /\ \A i \in 1..(to - from) : from + i \in 1..to  BY SMTT(90)
<1>2. r \in [1..(to - from) -> 1..to]  BY <1>1
<1>3. r \in Seq(1..to)  BY <1>1, <1>2, SMTT(90)
<1>4. Len(r) \in Nat /\ DOMAIN r = 1..Len(r) /\ DOMAIN r = 1..(to - from)  BY <1>3, SMTT(90)
<1> HIDE DEF r
<1>5. Len(r) = to - from  BY SMTT(90), <1>1, <1>4
<1> QED  BY <1>3, <1>5 DEF r

\* No MB has no transitions.
LEMMA NoTransitions ==
  ASSUME NEW ms, NEW n \in Nat
  PROVE  TransitionsOf(ms, n, n) = <<>>
<1> DEFINE r == [i \in 1..(n - n) |-> n + i]
           S == {m \in DOMAIN ms : ms[m].full}
<1>1. Len(r) = 0
  <2>1. Len(r) = n - n  BY RunIs
  <2> HIDE DEF r
  <2> QED  BY SMTT(90), <2>1
<1>2. TransitionsOf(ms, n, n) = OnlyIn(r, S)  BY DEF TransitionsOf
<1> HIDE DEF r, S
<1>3. OnlyIn(r, S) = UpTo(r, S)[0] /\ UpTo(r, S)[0] = <<>>  BY <1>1, UpToIs
<1> QED  BY <1>2, <1>3

\* The transitions of a run of MBs and of the run after it are those of both.
LEMMA TransitionsCat ==
  ASSUME NEW ms, NEW from \in Nat, NEW mid \in Nat, NEW to \in Nat, from <= mid, mid <= to
  PROVE  TransitionsOf(ms, from, mid) \o TransitionsOf(ms, mid, to) = TransitionsOf(ms, from, to)
<1> DEFINE s == [i \in 1..(mid - from) |-> from + i]
           t == [i \in 1..(to - mid) |-> mid + i]
           r == [i \in 1..(to - from) |-> from + i]
           S == {m \in DOMAIN ms : ms[m].full}
<1>0. from <= to  BY SMTT(90)
<1>1. /\ s \in Seq(1..mid) /\ Len(s) = mid - from /\ t \in Seq(1..to) /\ Len(t) = to - mid
      /\ r \in Seq(1..to) /\ Len(r) = to - from
  BY <1>0, RunIs
<1>2. /\ \A i \in 1..(mid - from) : s[i] = from + i
      /\ \A i \in 1..(to - mid) : t[i] = mid + i
      /\ \A i \in 1..(to - from) : r[i] = from + i
  OBVIOUS
<1>3. /\ TransitionsOf(ms, from, mid) = OnlyIn(s, S) /\ TransitionsOf(ms, mid, to) = OnlyIn(t, S)
      /\ TransitionsOf(ms, from, to) = OnlyIn(r, S)
  BY DEF TransitionsOf
<1> HIDE DEF s, t, r, S
<1>4. s \in Seq(Nat) /\ t \in Seq(Nat) /\ r \in Seq(Nat)
  <2>1. \A n \in Nat : 1..n \subseteq Nat  BY SMTT(90)
  <2> QED  BY SMTT(90), <1>1, <2>1
<1>5. s \o t = r
  <2>1. /\ s \o t \in Seq(Nat) /\ Len(s \o t) = Len(s) + Len(t)
        /\ \A i \in 1..Len(s) + Len(t) : (s \o t)[i] = IF i <= Len(s) THEN s[i] ELSE t[i - Len(s)]
    BY <1>4, ConcatProperties
  <2>2. Len(s) + Len(t) = to - from  BY SMTT(90), <1>1
  <2>3. ASSUME NEW i \in 1..(to - from) PROVE (s \o t)[i] = r[i]
    <3>1. CASE i <= mid - from
      <4>1. i \in 1..(mid - from)  BY SMTT(90), <3>1
      <4> QED  BY <1>1, <1>2, <2>1, <2>2, <3>1, <4>1
    <3>2. CASE ~(i <= mid - from)
      <4>1. i - (mid - from) \in 1..(to - mid) /\ mid + (i - (mid - from)) = from + i
        BY SMTT(90), <3>2
      <4> QED  BY <1>1, <1>2, <2>1, <2>2, <3>2, <4>1
    <3> QED  BY <3>1, <3>2
  <2> QED  BY <1>1, <1>4, <2>1, <2>2, <2>3, SeqEqual
<1>6. OnlyIn(s \o t, S) = OnlyIn(s, S) \o OnlyIn(t, S)  BY ONLY <1>4, OnlyInCat
<1> QED  BY <1>3, <1>5, <1>6

\* The transitions of decided MBs do not depend on what is decided later.
LEMMA TransitionsStay ==
  ASSUME NEW ms, NEW more, NEW from \in Nat, NEW to \in Nat, from <= to,
         \A m \in 1..to : m \in DOMAIN ms /\ m \in DOMAIN more /\ more[m] = ms[m]
  PROVE  TransitionsOf(more, from, to) = TransitionsOf(ms, from, to)
<1> DEFINE r == [i \in 1..(to - from) |-> from + i]
           S == {m \in DOMAIN ms : ms[m].full}
           T == {m \in DOMAIN more : more[m].full}
<1>1. r \in Seq(1..to)  BY RunIs
<1>2. \A m \in 1..to : m \in T <=> m \in S  OBVIOUS
<1>3. TransitionsOf(more, from, to) = OnlyIn(r, T) /\ TransitionsOf(ms, from, to) = OnlyIn(r, S)
  BY DEF TransitionsOf
<1> HIDE DEF r, S, T
<1> QED  BY <1>1, <1>2, <1>3, OnlyInSame

-----------------------------------------------------------------------------
(* Chains of Ethereum blocks. *)

\* Blocks 0..n, each but the first with an earlier parent.
IsTree(e, n) ==
    n \in Nat /\ DOMAIN e = 0..n /\ \A b \in 1..n : e[b].parent \in 0..(b - 1)

\* ChainTo over given blocks.
ChainsOf(e) ==
    CHOOSE c : c = [b \in DOMAIN e |-> IF b = 0 THEN {0} ELSE {b} \cup c[e[b].parent]]

\* The recursion of ChainTo, up to k.
IsChains(c, e, k) == c = [b \in 0..k |-> IF b = 0 THEN {0} ELSE {b} \cup c[e[b].parent]]

\* The recursion of ChainTo has a solution.
LEMMA ChainsExist ==
  ASSUME NEW e, NEW n, IsTree(e, n)
  PROVE  \E c : IsChains(c, e, n)
<1> DEFINE P == {k \in 0..n : \E c : IsChains(c, e, k)}
<1>0. n \in Nat /\ \A b \in 1..n : e[b].parent \in 0..(b - 1)  BY DEF IsTree
<1>1. 0 \in P
  <2> DEFINE g == [b \in 0..0 |-> {0}]
  <2>1. \A b \in 0..0 : b = 0  BY SMTT(90)
  <2>2. IsChains(g, e, 0)  BY <2>1 DEF IsChains
  <2>3. 0 \in 0..n  BY SMTT(90), <1>0
  <2> HIDE DEF g
  <2> QED  BY <2>2, <2>3
<1>2. ASSUME NEW k \in 1..n, k - 1 \in P PROVE k \in P
  <2>1. PICK c : IsChains(c, e, k - 1)  BY <1>2
  <2> DEFINE g == [b \in 0..k |-> IF b = k THEN {k} \cup c[e[k].parent] ELSE c[b]]
  <2>2. \A b \in 0..(k - 1) : c[b] = IF b = 0 THEN {0} ELSE {b} \cup c[e[b].parent]
    BY <2>1 DEF IsChains
  <2>3. ASSUME NEW b \in 0..k
        PROVE  g[b] = IF b = 0 THEN {0} ELSE {b} \cup g[e[b].parent]
    <3>1. b # 0 => e[b].parent \in 0..k /\ e[b].parent # k
      <4> SUFFICES ASSUME b # 0 PROVE e[b].parent \in 0..k /\ e[b].parent # k  OBVIOUS
      <4>1. b \in 1..n  BY SMTT(90), <1>0
      <4>2. e[b].parent \in 0..(b - 1)  BY <1>0, <4>1
      <4> QED  BY SMTT(90), <1>0, <4>2
    <3>2. b # 0 => g[e[b].parent] = c[e[b].parent]  BY <3>1
    <3>3. k # 0 /\ (b # k => b \in 0..(k - 1))  BY SMTT(90)
    <3> QED  BY <2>2, <3>2, <3>3
  <2>4. IsChains(g, e, k)  BY <2>3 DEF IsChains
  <2>5. k \in 0..n  BY SMTT(90)
  <2> HIDE DEF g
  <2> QED  BY <2>4, <2>5
<1>3. \A i \in 0..n : i \in P
  <2> HIDE DEF P
  <2> QED  BY <1>0, <1>1, <1>2, CountUp
<1>4. n \in 0..n  BY SMTT(90), <1>0
<1> QED  BY <1>3, <1>4

\* ChainTo follows the recursion.
LEMMA ChainsAre ==
  ASSUME NEW e, NEW n, IsTree(e, n)
  PROVE  /\ ChainsOf(e)[0] = {0}
         /\ \A b \in 1..n : ChainsOf(e)[b] = {b} \cup ChainsOf(e)[e[b].parent]
<1> DEFINE c == ChainsOf(e)
<1>1. c = [b \in 0..n |-> IF b = 0 THEN {0} ELSE {b} \cup c[e[b].parent]]
  <2>1. \E g : IsChains(g, e, n)  BY ChainsExist
  <2>2. DOMAIN e = 0..n  BY DEF IsTree
  <2>3. \E g : g = [b \in DOMAIN e |-> IF b = 0 THEN {0} ELSE {b} \cup g[e[b].parent]]
    BY <2>1, <2>2 DEF IsChains
  <2>4. c = [b \in DOMAIN e |-> IF b = 0 THEN {0} ELSE {b} \cup c[e[b].parent]]
    BY <2>3, Zenon DEF ChainsOf
  <2> HIDE DEF c
  <2> QED  BY <2>2, <2>4
<1> HIDE DEF c
<1>2. 0 \in 0..n /\ \A b \in 1..n : b \in 0..n /\ b # 0
  <2>1. n \in Nat  BY DEF IsTree
  <2> QED  BY SMTT(90), <2>1
<1>3. c[0] = {0} /\ \A b \in 1..n : c[b] = {b} \cup c[e[b].parent]  BY <1>1, <1>2
<1> QED  BY <1>3 DEF c

\* What holds of a block if it holds of the earlier ones holds of all of them.
LEMMA BlockByBlock ==
  ASSUME NEW n \in Nat, NEW P, \A b \in 0..n : (\A a \in 0..(b - 1) : a \in P) => b \in P
  PROVE  \A b \in 0..n : b \in P
<1> DEFINE Q == {k \in 0..n : \A b \in 0..k : b \in P}
<1>1. 0 \in Q
  <2>1. 0 \in 0..n /\ (\A a \in 0..(0 - 1) : a \in P) /\ \A b \in 0..0 : b = 0  BY SMTT(90)
  <2> QED  BY <2>1
<1>2. ASSUME NEW k \in 1..n, k - 1 \in Q PROVE k \in Q
  <2>1. k \in 0..n /\ \A b \in 0..k : b = k \/ b \in 0..(k - 1)  BY SMTT(90)
  <2> QED  BY <1>2, <2>1
<1>3. \A k \in 0..n : k \in Q
  <2> HIDE DEF Q
  <2> QED  BY <1>1, <1>2, CountUp
<1>4. n \in 0..n /\ \A b \in 0..n : b \in 0..n  BY SMTT(90)
<1> QED  BY <1>3, <1>4

\* A chain holds its block and the first one and no later block, and it holds the
\* chain of each of its blocks.
LEMMA ChainFacts ==
  ASSUME NEW e, NEW n, IsTree(e, n)
  PROVE  \A b \in 0..n :
           /\ b \in ChainsOf(e)[b] /\ 0 \in ChainsOf(e)[b] /\ ChainsOf(e)[b] \subseteq 0..b
           /\ \A a \in ChainsOf(e)[b] : ChainsOf(e)[a] \subseteq ChainsOf(e)[b]
<1> DEFINE c == ChainsOf(e)
           P == {b \in 0..n : /\ b \in c[b] /\ 0 \in c[b] /\ c[b] \subseteq 0..b
                              /\ \A a \in c[b] : c[a] \subseteq c[b]}
<1>0. n \in Nat /\ \A b \in 1..n : e[b].parent \in 0..(b - 1)  BY DEF IsTree
<1>1. c[0] = {0} /\ \A b \in 1..n : c[b] = {b} \cup c[e[b].parent]  BY ChainsAre
<1> HIDE DEF c
<1>2. ASSUME NEW b \in 0..n, \A a \in 0..(b - 1) : a \in P PROVE b \in P
  <2>1. CASE b = 0
    <3>1. 0 \in 0..0  BY SMTT(90)
    <3> QED  BY <1>1, <2>1, <3>1
  <2>2. CASE b # 0
    <3> DEFINE p == e[b].parent
    <3>1. b \in 1..n  BY SMTT(90), <2>2
    <3>2. p \in 0..(b - 1) /\ c[b] = {b} \cup c[p]  BY <1>0, <1>1, <3>1
    <3> HIDE DEF p
    <3>3. 0 \in c[p] /\ c[p] \subseteq 0..p /\ \A a \in c[p] : c[a] \subseteq c[p]  BY <1>2, <3>2
    <3>4. 0..p \subseteq 0..b /\ b \in 0..b  BY SMTT(90), <3>2
    <3> QED  BY <3>2, <3>3, <3>4
  <2> QED  BY <2>1, <2>2
<1>3. \A b \in 0..n : b \in P
  <2> HIDE DEF P
  <2> QED  BY <1>0, <1>2, BlockByBlock
<1> QED  BY <1>3 DEF c

\* A new block leaves the chains of the others as they are.
LEMMA ChainsStay ==
  ASSUME NEW e, NEW more, NEW n, NEW k, IsTree(e, n), IsTree(more, k), n <= k,
         \A b \in 0..n : more[b] = e[b]
  PROVE  \A b \in 0..n : ChainsOf(more)[b] = ChainsOf(e)[b]
<1> DEFINE c == ChainsOf(e)
           d == ChainsOf(more)
           P == {b \in 0..n : d[b] = c[b]}
<1>0. n \in Nat /\ k \in Nat /\ \A b \in 1..n : e[b].parent \in 0..(b - 1)  BY DEF IsTree
<1>1. c[0] = {0} /\ \A b \in 1..n : c[b] = {b} \cup c[e[b].parent]  BY ChainsAre
<1>2. d[0] = {0} /\ \A b \in 1..k : d[b] = {b} \cup d[more[b].parent]  BY ChainsAre
<1> HIDE DEF c, d
<1>3. ASSUME NEW b \in 0..n, \A a \in 0..(b - 1) : a \in P PROVE b \in P
  <2>1. CASE b = 0  BY <1>1, <1>2, <2>1
  <2>2. CASE b # 0
    <3>1. b \in 1..n /\ b \in 1..k  BY SMTT(90), <1>0, <2>2
    <3>2. e[b].parent \in 0..(b - 1) /\ more[b] = e[b]  BY <1>0, <3>1
    <3>3. d[e[b].parent] = c[e[b].parent]  BY <1>3, <3>2
    <3>4. c[b] = {b} \cup c[e[b].parent]  BY <1>1, <3>1
    <3>5. d[b] = {b} \cup d[e[b].parent]  BY <1>2, <3>1, <3>2
    <3> QED  BY <3>3, <3>4, <3>5
  <2> QED  BY <2>1, <2>2
<1>4. \A b \in 0..n : b \in P
  <2> HIDE DEF P
  <2> QED  BY <1>0, <1>3, BlockByBlock
<1> QED  BY <1>4 DEF c, d

-----------------------------------------------------------------------------
(* The invariant. *)

\* What a batch, a Router and an MB are made of.
BatchRecords == [block : Nat, expiry : Nat, head : Nat, trans : Seq(Nat), codes : Seq(Codes)]
Routers == [parent : Nat, height : Nat, last : {NoBatch} \cup BatchRecords, mb : Nat, eb : Nat,
            queue : Seq(Codes), validated : SUBSET Codes, carried : Seq(Nat)]
Mbs == [adv : Nat, full : BOOLEAN]

\* The blocks are a tree, and the MBs advance along one of its chains.
World ==
  /\ \E n \in Nat : IsTree(eth, n)
  /\ eth[0].height = 0 /\ \A b \in Ebs : eth[b] \in Routers
  /\ mbs \in Seq(Mbs)
  /\ \A i \in DOMAIN mbs : mbs[i].adv \in Ebs
  /\ \A i, j \in DOMAIN mbs : i <= j => mbs[i].adv \in ChainTo[mbs[j].adv]

\* What the Router has committed at b: the MB and, on the chain of b, its Ethereum block.
AnchoredAt(b) ==
  /\ eth[b].mb \in 0..Len(mbs) /\ eth[b].eb \in ChainTo[b]
  /\ eth[b].mb = 0 => eth[b].eb = 0
  /\ eth[b].mb > 0 => eth[b].eb = mbs[eth[b].mb].adv
Anchored == \A b \in Ebs : AnchoredAt(b)

\* The last committed batch was built on an earlier block of the chain, where it was not yet
\* the last one; it has been the last one ever since it was; and meanwhile the committed MB
\* stayed and codes were only added to those that wait.
HistoryAt(z) ==
  /\ eth[z].last # NoBatch =>
       eth[z].last.block \in ChainTo[z] /\ eth[eth[z].last.block].last # eth[z].last
  /\ \A y \in ChainTo[z] : \A x \in ChainTo[y] :
       eth[x].last = eth[z].last => eth[y].last = eth[z].last
  /\ \A y \in ChainTo[z] : eth[y].last = eth[z].last =>
       eth[y].mb = eth[z].mb /\ Range(eth[y].queue) \subseteq Range(eth[z].queue)
History == \A z \in Ebs : HistoryAt(z)

\* What create_batch_commitment ensures of a batch.
Built(q) ==
  /\ q \in BatchRecords /\ q # NoBatch
  /\ q.block \in Ebs /\ (\E w \in Members : q.expiry = Delay[w])
  /\ q.head \in 0..Len(mbs)
  /\ q.head # 0 => mbs[q.head].adv \in ChainTo[q.block]
  /\ q.head # 0 /\ mbs[q.head].adv = 0 => eth[q.block].mb < q.head
  /\ q.head = 0 => q.trans = <<>>
  /\ q.trans # <<>> => eth[q.block].mb < q.head /\ q.trans = Transitions(eth[q.block].mb, q.head)
  /\ Range(q.codes) \subseteq Range(eth[q.block].queue)
  /\ BatchSize(q) <= BatchSizeLimit

\* What validate_batch_commitment ensures of it besides.
Backed(q) ==
  q.head # 0 => eth[q.block].mb < q.head /\ q.trans = Transitions(eth[q.block].mb, q.head)

\* The batches on the network and at the Router.
Sent ==
  /\ \A q \in requests : Built(q)
  /\ \A rep \in replies : rep.batch \in requests /\ Backed(rep.batch)
  /\ \A s \in submitted : Built(s.batch) /\ (Threshold >= 2 => Backed(s.batch))

\* A state that v may be in: it knows its block, and its batch is on the network; a
\* coordinator that has another signature than its own has a reply.
RoleOk(v, r) ==
  /\ r.state \in {"boot", "participant", "validating"} => r.block \in Ebs
  /\ r.state = "validating" => r.request \in requests
  /\ r.state = "coordinator" =>
       /\ r = [state |-> "coordinator", batch |-> r.batch, sigs |-> r.sigs] /\ r.batch \in requests
       /\ r.sigs # {v} => \E rep \in replies : rep.batch = r.batch

\* The validators.
Validating ==
  /\ fin \in [Members -> Nat] /\ \A v \in Members : fin[v] <= Len(mbs)
  /\ DOMAIN role = Members /\ DOMAIN pending = Members
  /\ \A v \in Members : pending[v] \in Seq(requests) /\ RoleOk(v, role[v])

\* The inductive invariant.
BatchInv ==
  /\ World /\ Anchored /\ History /\ Sent /\ Validating
  /\ Threshold >= 2 => CommittedOnce

-----------------------------------------------------------------------------
(* What the state gives. *)

\* The chains of the blocks there are.
LEMMA Chains ==
  ASSUME World
  PROVE  /\ ChainTo = ChainsOf(eth) /\ 0 \in Ebs /\ ChainTo[0] = {0}
         /\ \A b \in Ebs : /\ b \in ChainTo[b] /\ 0 \in ChainTo[b] /\ ChainTo[b] \subseteq Ebs
                           /\ \A a \in ChainTo[b] : ChainTo[a] \subseteq ChainTo[b]
<1>1. PICK n \in Nat : IsTree(eth, n)  BY DEF World
<1>2. ChainTo = ChainsOf(eth)  BY DEF ChainTo, ChainsOf, Ebs
<1>3. Ebs = 0..n  BY <1>1 DEF IsTree, Ebs
<1>4. ChainTo[0] = {0}  BY <1>1, <1>2, ChainsAre
<1>5. \A b \in 0..n : /\ b \in ChainTo[b] /\ 0 \in ChainTo[b] /\ ChainTo[b] \subseteq 0..b
                      /\ \A a \in ChainTo[b] : ChainTo[a] \subseteq ChainTo[b]
  BY <1>1, <1>2, ChainFacts
<1>6. 0 \in 0..n /\ \A b \in 0..n : 0..b \subseteq 0..n  BY SMTT(90)
<1> QED  BY <1>2, <1>3, <1>4, <1>5, <1>6

\* The fields of the records.
LEMMA Fields ==
  /\ \A q \in BatchRecords : /\ q.block \in Nat /\ q.expiry \in Nat /\ q.head \in Nat
                             /\ q.trans \in Seq(Nat) /\ q.codes \in Seq(Codes)
  /\ \A r \in Routers : /\ r.parent \in Nat /\ r.height \in Nat
                        /\ r.last \in {NoBatch} \cup BatchRecords /\ r.mb \in Nat /\ r.eb \in Nat
                        /\ r.queue \in Seq(Codes) /\ r.validated \subseteq Codes
                        /\ r.carried \in Seq(Nat)
  BY DEF BatchRecords, Routers

\* The sequence made of a finite set.
LEMMA SetToSeqType ==
  ASSUME NEW S, IsFiniteSet(S)
  PROVE  SetToSeq(S) \in Seq(S)
<1>1. Cardinality(S) \in Nat /\ ExistsBijection(1..Cardinality(S), S)  BY FS_CardinalityType
<1>2. \E f \in [1..Cardinality(S) -> S] : IsInjective(f)
  BY <1>1 DEF ExistsBijection, Bijection, Injection, IsInjective
<1>3. SetToSeq(S) \in [1..Cardinality(S) -> S]  BY <1>2, Zenon DEF SetToSeq
<1> QED  BY SMTT(90), <1>1, <1>3

\* Blocks and MBs are only added, and what they give to those before stays.
Grows ==
  /\ \A b \in Ebs : b \in Ebs' /\ eth'[b] = eth[b] /\ ChainTo'[b] = ChainTo[b]
  /\ \A i \in 0..Len(mbs) : i \in 0..Len(mbs')
  /\ \A i \in DOMAIN mbs : mbs'[i] = mbs[i]
  /\ \A from, to \in Nat : from <= to /\ to <= Len(mbs)
                            => Transitions(from, to)' = Transitions(from, to)

\* A batch stays what it was when blocks and MBs are added.
LEMMA BatchesStay ==
  ASSUME World, Anchored, Grows, NEW q, Built(q)
  PROVE  Built(q)' /\ (Backed(q) => Backed(q)')
<1>1. /\ q \in BatchRecords /\ q.block \in Ebs /\ q.head \in 0..Len(mbs)
      /\ q.head \in Nat /\ eth[q.block].mb \in Nat /\ Len(mbs) \in Nat
  BY Fields DEF Built, World
<1>2. /\ q.block \in Ebs' /\ eth'[q.block] = eth[q.block] /\ ChainTo'[q.block] = ChainTo[q.block]
      /\ q.head \in 0..Len(mbs')
  BY <1>1 DEF Grows
<1>3. q.head # 0 => mbs'[q.head] = mbs[q.head]
  <2>1. q.head # 0 => q.head \in DOMAIN mbs  BY SMTT(90), <1>1 DEF World
  <2> QED  BY <2>1 DEF Grows
<1>4. eth[q.block].mb < q.head =>
        Transitions(eth[q.block].mb, q.head)' = Transitions(eth[q.block].mb, q.head)
  <2>1. eth[q.block].mb < q.head => eth[q.block].mb <= q.head /\ q.head <= Len(mbs)
    BY SMTT(90), <1>1
  <2>2. eth[q.block].mb < q.head =>
          TransitionsOf(mbs', eth[q.block].mb, q.head) = TransitionsOf(mbs, eth[q.block].mb, q.head)
    BY <1>1, <2>1 DEF Grows, Transitions, TransitionsOf
  <2> QED  BY <1>2, <2>2 DEF Transitions, TransitionsOf
<1>5. Built(q)'  BY <1>1, <1>2, <1>3, <1>4 DEF Built, BatchSize
<1>6. Backed(q) => Backed(q)'  BY <1>2, <1>4 DEF Backed
<1> QED  BY <1>5, <1>6

\* So do those on the network and at the Router.
LEMMA MessagesStay ==
  ASSUME BatchInv, Grows, UNCHANGED <<requests, replies, submitted>>
  PROVE  Sent'
<1>1. World /\ Anchored /\ Sent  BY DEF BatchInv
<1>2. \A q : Built(q) => Built(q)' /\ (Backed(q) => Backed(q)')  BY <1>1, BatchesStay
<1> QED  BY <1>1, <1>2 DEF Sent

\* Steps that change neither blocks nor MBs.
LEMMA SameWorld ==
  ASSUME BatchInv, UNCHANGED <<eth, mbs>>
  PROVE  World' /\ Anchored' /\ History' /\ Grows /\ (Threshold >= 2 => CommittedOnce')
<1>1. ChainTo' = ChainTo  BY DEF ChainTo, Ebs
<1>2. Ebs' = Ebs  BY DEF Ebs
<1>3. \A from, to : Transitions(from, to)' = Transitions(from, to)  BY DEF Transitions
<1>4. World'  BY <1>1, <1>2 DEF BatchInv, World
<1>5. Anchored'  BY <1>1, <1>2 DEF BatchInv, Anchored, AnchoredAt
<1>6. History'  BY <1>1, <1>2 DEF BatchInv, History, HistoryAt
<1>7. Grows  BY <1>1, <1>2, <1>3 DEF Grows
<1>8. Threshold >= 2 => CommittedOnce'  BY <1>2, <1>3 DEF BatchInv, CommittedOnce
<1> QED  BY <1>4, <1>5, <1>6, <1>7, <1>8

-----------------------------------------------------------------------------
(* Ethereum mines a block. *)

\* The Router in the block after.
Mined(r, w, p, h) == [r EXCEPT !.queue = w, !.parent = p, !.height = h]

\* A Router with the parent p and the queue w, as r has it otherwise.
MinedOf(rec, r, w, p) ==
  /\ rec \in Routers /\ rec.parent = p /\ rec.last = r.last /\ rec.mb = r.mb
  /\ rec.eb = r.eb /\ rec.carried = r.carried /\ rec.queue = w

\* What it keeps.
LEMMA MinedRouter ==
  ASSUME NEW r \in Routers, NEW w \in Seq(Codes), NEW p \in Nat, NEW h \in Nat
  PROVE  MinedOf(Mined(r, w, p, h), r, w, p)
<1> DEFINE rec == Mined(r, w, p, h)
<1>1. rec \in Routers  BY Zenon DEF Mined, Routers
<1>2. rec.parent = p /\ rec.last = r.last /\ rec.mb = r.mb  BY SMTT(90) DEF Mined, Routers
<1>3. rec.eb = r.eb /\ rec.carried = r.carried /\ rec.queue = w  BY SMTT(90) DEF Mined, Routers
<1> QED  BY <1>1, <1>2, <1>3 DEF MinedOf

\* The step of MineBlock that adds the block.
MineWith(p, r, cs) ==
  /\ eth' = [b \in Ebs \cup {Cardinality(Ebs)} |->
               IF b = Cardinality(Ebs)
               THEN [Requested(r, cs) EXCEPT !.parent = p, !.height = eth[p].height + 1]
               ELSE eth[b]]
  /\ UNCHANGED <<mbs, fin, comp, codeValid, role, head, pending, requests, replies, submitted>>

\* The tree with a block more, and in it a Router with what r has committed.
NewBlock(p, r, new) ==
  /\ new \notin Ebs /\ Ebs' = Ebs \cup {new}
  /\ \A b \in Ebs : eth'[b] = eth[b] /\ ChainTo'[b] = ChainTo[b]
  /\ ChainTo'[new] = {new} \cup ChainTo[p]
  /\ (\E n \in Nat : IsTree(eth', n)) /\ eth'[0].height = 0
  /\ eth'[new] \in Routers /\ eth'[new].last = r.last /\ eth'[new].mb = r.mb
  /\ eth'[new].eb = r.eb /\ eth'[new].carried = r.carried
  /\ Range(r.queue) \subseteq Range(eth'[new].queue)

\* MineBlock adds such a block.
LEMMA MinedBlock ==
  ASSUME BatchInv, NEW p \in Ebs, NEW r \in Routers, NEW cs \in SUBSET Codes, MineWith(p, r, cs)
  PROVE  \E new : NewBlock(p, r, new)
<1> DEFINE new == Cardinality(Ebs)
           rec == [Requested(r, cs) EXCEPT !.parent = p, !.height = eth[p].height + 1]
<1>0. World  BY DEF BatchInv
<1>1. PICK n \in Nat : IsTree(eth, n)  BY <1>0 DEF World
<1>2. Ebs = 0..n  BY <1>1 DEF IsTree, Ebs
<1>3. new = n + 1
  <2>1. 0 \in Int /\ n \in Int  BY SMTT(90)
  <2>2. Cardinality(0..n) = IF 0 > n THEN 0 ELSE n - 0 + 1  BY <2>1, FS_Interval, Zenon
  <2> QED  BY <1>2, <2>2, SMTT(90)
<1>4. eth' = [b \in Ebs \cup {new} |-> IF b = new THEN rec ELSE eth[b]]  BY DEF MineWith
<1>5. rec \in Routers /\ rec.parent = p /\ rec.last = r.last /\ rec.mb = r.mb /\ rec.eb = r.eb
      /\ rec.carried = r.carried /\ Range(r.queue) \subseteq Range(rec.queue)
  <2>1. SetToSeq(cs) \in Seq(Codes)
    <3>1. IsFiniteSet(cs)  BY FS_Subset, BatchesAssumption
    <3>2. SetToSeq(cs) \in Seq(cs)  BY <3>1, SetToSeqType
    <3> HIDE DEF new, rec
    <3> QED  BY SMTT(90), <3>2
  <2>2. PICK q \in Seq(Codes) : q = SetToSeq(cs)  BY <2>1
  <2>3. r.queue \in Seq(Codes)  BY Fields
  <2>4. r.queue \o q \in Seq(Codes) /\ Range(r.queue) \subseteq Range(r.queue \o q)
    <3>1. PICK u \in Seq(Codes) : u = r.queue  BY <2>3
    <3>2. u \o q \in Seq(Codes) /\ \A i \in DOMAIN u : i \in DOMAIN (u \o q) /\ (u \o q)[i] = u[i]
      BY ONLY SMTT(90), u \in Seq(Codes), q \in Seq(Codes)
    <3> QED  BY <3>1, <3>2 DEF Range
  <2>5. p \in Nat /\ eth[p].height + 1 \in Nat
    <3>1. p \in Nat  BY SMTT(90), <1>2
    <3>2. eth[p].height \in Nat  BY <1>0, Fields DEF World
    <3> QED  BY SMTT(90), <3>1, <3>2
  <2>6. rec = [r EXCEPT !.queue = r.queue \o q, !.parent = p, !.height = eth[p].height + 1]
    BY SMTT(90), <2>2 DEF Requested, Routers
  <2>7. PICK w \in Seq(Codes) : w = r.queue \o q  BY <2>4
  <2>8. PICK h \in Nat : h = eth[p].height + 1  BY <2>5
  <2>9. rec = Mined(r, w, p, h)  BY <2>6, <2>7, <2>8 DEF Mined
  <2> HIDE DEF rec
  <2>10. /\ rec \in Routers /\ rec.parent = p /\ rec.last = r.last /\ rec.mb = r.mb
         /\ rec.eb = r.eb /\ rec.carried = r.carried /\ rec.queue = w
    <3>1. p \in Nat  BY <2>5
    <3>2. MinedOf(Mined(r, w, p, h), r, w, p)  BY <3>1, MinedRouter
    <3> QED  BY <2>9, <3>2 DEF MinedOf
  <2> QED  BY <2>4, <2>7, <2>10
<1> HIDE DEF new, rec
<1>6. new \notin Ebs /\ n <= n + 1 /\ n + 1 \in Nat /\ 0 \in Ebs /\ 0..(n + 1) = Ebs \cup {new}
  BY SMTT(90), <1>2, <1>3
<1>7. Ebs' = Ebs \cup {new} /\ eth'[new] = rec /\ \A b \in Ebs : eth'[b] = eth[b]
  BY <1>4, <1>6 DEF Ebs
<1>8. IsTree(eth', n + 1)
  <2>1. \A b \in 1..n : eth[b].parent \in 0..(b - 1) /\ b \in Ebs  BY SMTT(90), <1>1, <1>2 DEF IsTree
  <2>2. \A b \in 1..n : eth'[b].parent \in 0..(b - 1)  BY <1>7, <2>1
  <2>3. eth'[n + 1].parent \in 0..((n + 1) - 1)  BY SMTT(90), <1>2, <1>3, <1>5, <1>7
  <2>4. \A b \in 1..(n + 1) : b \in 1..n \/ b = n + 1  BY SMTT(90)
  <2> QED  BY <1>6, <1>7, <2>2, <2>3, <2>4 DEF IsTree, Ebs
<1>9. ChainTo = ChainsOf(eth) /\ ChainTo' = ChainsOf(eth')  BY DEF ChainTo, ChainsOf, Ebs
<1>10. \A b \in Ebs : ChainTo'[b] = ChainTo[b]
  BY <1>1, <1>2, <1>6, <1>7, <1>8, <1>9, ChainsStay
<1>11. ChainTo'[new] = {new} \cup ChainTo[p]
  <2>1. new \in 1..(n + 1)  BY SMTT(90), <1>3
  <2>2. ChainsOf(eth')[new] = {new} \cup ChainsOf(eth')[eth'[new].parent]
    <3>1. PICK m : m = n + 1  OBVIOUS
    <3>2. IsTree(eth', m) /\ new \in 1..m  BY <1>8, <2>1, <3>1
    <3>3. \A b \in 1..m : ChainsOf(eth')[b] = {b} \cup ChainsOf(eth')[eth'[b].parent]
      BY ONLY <3>2, ChainsAre
    <3> QED  BY <3>2, <3>3
  <2> QED  BY <1>5, <1>7, <1>9, <1>10, <2>2
<1>12. eth'[0].height = 0  BY <1>0, <1>6, <1>7 DEF World
<1>13. \E m \in Nat : IsTree(eth', m)  BY <1>6, <1>8
<1>14. /\ eth'[new] \in Routers /\ eth'[new].last = r.last /\ eth'[new].mb = r.mb
       /\ eth'[new].eb = r.eb /\ eth'[new].carried = r.carried
       /\ Range(r.queue) \subseteq Range(eth'[new].queue)
  BY <1>5, <1>7
<1> QED  BY <1>6, <1>7, <1>10, <1>11, <1>12, <1>13, <1>14 DEF NewBlock

\* A block more on p: the blocks there are keep what they have, and so do the validators.
LEMMA BlockAdded ==
  ASSUME BatchInv, NEW p \in Ebs, NEW r, NEW cs, NEW new, MineWith(p, r, cs), NewBlock(p, r, new)
  PROVE  /\ World' /\ Sent' /\ Validating'
         /\ AnchoredAt(new)' => Anchored'
         /\ HistoryAt(new)' => History'
<1>0. /\ new \notin Ebs /\ Ebs' = Ebs \cup {new}
      /\ \A b \in Ebs : eth'[b] = eth[b] /\ ChainTo'[b] = ChainTo[b]
      /\ (\E n \in Nat : IsTree(eth', n)) /\ eth'[0].height = 0 /\ eth'[new] \in Routers
      /\ UNCHANGED <<mbs, fin, role, pending, requests, replies, submitted>>
  BY DEF MineWith, NewBlock
<1>1. World /\ Anchored /\ History /\ Validating  BY DEF BatchInv
<1>2. \A b \in Ebs : ChainTo[b] \subseteq Ebs  BY <1>1, Chains
<1>3. World'
  <2>1. \A b \in Ebs' : eth'[b] \in Routers  BY <1>0, <1>1 DEF World
  <2>2. \A i \in DOMAIN mbs : mbs[i].adv \in Ebs'  BY <1>0, <1>1 DEF World
  <2>3. \A i, j \in DOMAIN mbs : i <= j => mbs[i].adv \in ChainTo'[mbs[j].adv]  BY <1>0, <1>1 DEF World
  <2> QED  BY <1>0, <1>1, <2>1, <2>2, <2>3 DEF World
<1>4. \A from, to : Transitions(from, to)' = Transitions(from, to)  BY <1>0 DEF Transitions
<1>5. Grows  BY <1>0, <1>4 DEF Grows
<1>6. Sent'  BY <1>0, <1>5, MessagesStay
<1>7. Validating'
  <2>1. \A v, x : RoleOk(v, x) => RoleOk(v, x)'  BY <1>0 DEF RoleOk
  <2> QED  BY <1>0, <1>1, <2>1 DEF Validating
<1>8. AnchoredAt(new)' => Anchored'
  <2>1. \A b \in Ebs : AnchoredAt(b) => AnchoredAt(b)'  BY <1>0 DEF AnchoredAt
  <2> QED  BY <1>0, <1>1, <2>1 DEF Anchored
<1>9. HistoryAt(new)' => History'
  <2>1. ASSUME NEW b \in Ebs PROVE HistoryAt(b)'
    <3>1. HistoryAt(b)  BY <1>1 DEF History
    <3>2. \A y \in ChainTo[b] : /\ eth'[y] = eth[y] /\ ChainTo'[y] = ChainTo[y]
                                /\ \A x \in ChainTo[y] : eth'[x] = eth[x]
      BY <1>0, <1>2
    <3>3. eth'[b] = eth[b] /\ ChainTo'[b] = ChainTo[b]  BY <1>0
    <3> QED  BY ONLY <3>1, <3>2, <3>3 DEF HistoryAt
  <2> QED  BY <1>0, <2>1 DEF History
<1> QED  BY <1>3, <1>6, <1>7, <1>8, <1>9

\* A block without a batch.
LEMMA MineEmptyInv ==
  ASSUME BatchInv, NEW p \in Ebs, NEW cs \in SUBSET Codes, MineBlock(p, {}, cs)
  PROVE  BatchInv'
<1>0. World /\ AnchoredAt(p) /\ HistoryAt(p)  BY DEF BatchInv, Anchored, History
<1>1. eth[p] \in Routers  BY <1>0 DEF World
<1>2. MineWith(p, eth[p], cs) /\ mbs' = mbs  BY DEF MineBlock, MineWith
<1> PICK new : NewBlock(p, eth[p], new)  BY <1>1, <1>2, MinedBlock
<1>3. /\ new \notin Ebs /\ Ebs' = Ebs \cup {new}
      /\ \A b \in Ebs : eth'[b] = eth[b] /\ ChainTo'[b] = ChainTo[b]
      /\ ChainTo'[new] = {new} \cup ChainTo[p]
      /\ eth'[new].last = eth[p].last /\ eth'[new].mb = eth[p].mb
      /\ eth'[new].eb = eth[p].eb /\ eth'[new].carried = eth[p].carried
      /\ Range(eth[p].queue) \subseteq Range(eth'[new].queue)
  BY DEF NewBlock
<1>4. /\ World' /\ Sent' /\ Validating'
      /\ AnchoredAt(new)' => Anchored'
      /\ HistoryAt(new)' => History'
  BY <1>2, BlockAdded
<1>5. AnchoredAt(new)'  BY <1>0, <1>2, <1>3 DEF AnchoredAt
<1>6. /\ p \in ChainTo[p] /\ ChainTo[p] \subseteq Ebs
      /\ \A y \in ChainTo[p] : ChainTo[y] \subseteq ChainTo[p]
  BY <1>0, Chains
<1>7. HistoryAt(new)'
  <2>1. eth'[new].last # NoBatch => /\ eth'[new].last.block \in ChainTo'[new]
                                    /\ eth'[eth'[new].last.block].last # eth'[new].last
    BY <1>0, <1>3, <1>6 DEF HistoryAt
  <2>2. ASSUME NEW y \in ChainTo'[new], NEW x \in ChainTo'[y], eth'[x].last = eth'[new].last
        PROVE  eth'[y].last = eth'[new].last
    <3>1. CASE y = new  BY <3>1
    <3>2. CASE y \in ChainTo[p]
      <4>1. y \in Ebs /\ x \in ChainTo[y] /\ x \in Ebs  BY <1>3, <1>6, <3>2
      <4> QED  BY <1>0, <1>3, <2>2, <3>2, <4>1 DEF HistoryAt
    <3> QED  BY <1>3, <3>1, <3>2
  <2>3. ASSUME NEW y \in ChainTo'[new], eth'[y].last = eth'[new].last
        PROVE  /\ eth'[y].mb = eth'[new].mb
               /\ Range(eth'[y].queue) \subseteq Range(eth'[new].queue)
    <3>1. CASE y = new  BY <3>1
    <3>2. CASE y \in ChainTo[p]
      <4>1. y \in Ebs  BY <1>6, <3>2
      <4>2. eth[y].mb = eth[p].mb /\ Range(eth[y].queue) \subseteq Range(eth[p].queue)
        BY <1>0, <1>3, <2>3, <3>2, <4>1 DEF HistoryAt
      <4> QED  BY <1>3, <4>1, <4>2
    <3> QED  BY <1>3, <3>1, <3>2
  <2> QED  BY <2>1, <2>2, <2>3 DEF HistoryAt
<1>8. Threshold >= 2 => CommittedOnce'
  <2>1. \A from, to : Transitions(from, to)' = Transitions(from, to)  BY <1>2 DEF Transitions
  <2> QED  BY <1>3, <2>1 DEF BatchInv, CommittedOnce
<1> QED  BY <1>4, <1>5, <1>7, <1>8 DEF BatchInv

\* The Router after a batch.
After(r, q, m, e, w, v, c) ==
  [r EXCEPT !.last = q, !.mb = m, !.eb = e, !.queue = w, !.validated = v, !.carried = c]

\* What it holds.
LEMMA AfterRouter ==
  ASSUME NEW r \in Routers, NEW q \in BatchRecords, NEW m \in Nat, NEW e \in Nat,
         NEW w \in Seq(Codes), NEW v \in SUBSET Codes, NEW c \in Seq(Nat)
  PROVE  /\ After(r, q, m, e, w, v, c) \in Routers
         /\ After(r, q, m, e, w, v, c).last = q /\ After(r, q, m, e, w, v, c).mb = m
         /\ After(r, q, m, e, w, v, c).eb = e /\ After(r, q, m, e, w, v, c).carried = c
<1> DEFINE rec == After(r, q, m, e, w, v, c)
<1>1. rec \in Routers  BY Zenon DEF After, Routers
<1>2. rec.last = q /\ rec.mb = m  BY SMTT(90) DEF After, Routers
<1>3. rec.eb = e /\ rec.carried = c  BY SMTT(90) DEF After, Routers
<1> QED  BY <1>1, <1>2, <1>3

\* commitBatch and what it leaves in the Router.
LEMMA CommittedRouter ==
  ASSUME World, NEW r \in Routers, NEW q, Built(q)
  PROVE  /\ Committed(r, q) \in Routers /\ Committed(r, q).last = q
         /\ Committed(r, q).mb = IF q.head = 0 THEN r.mb ELSE q.head
         /\ Committed(r, q).eb = IF q.head = 0 \/ mbs[q.head].adv = 0 THEN r.eb ELSE mbs[q.head].adv
         /\ Committed(r, q).carried = r.carried \o q.trans
<1>1. q \in BatchRecords /\ q.head \in Nat /\ q.trans \in Seq(Nat)  BY Fields DEF Built
<1>2. r.mb \in Nat /\ r.eb \in Nat /\ r.queue \in Seq(Codes) /\ r.validated \subseteq Codes
      /\ r.carried \in Seq(Nat)
  BY Fields
<1>3. PICK m \in Nat : m = IF q.head = 0 THEN r.mb ELSE q.head  BY <1>1, <1>2
<1>4. PICK e \in Nat : e = IF q.head = 0 \/ mbs[q.head].adv = 0 THEN r.eb ELSE mbs[q.head].adv
  <2>1. q.head # 0 => q.head \in DOMAIN mbs  BY SMTT(90) DEF Built, World
  <2>2. q.head # 0 => mbs[q.head] \in Mbs  BY SMTT(90), <2>1 DEF World
  <2>3. q.head # 0 => mbs[q.head].adv \in Nat  BY <2>2 DEF Mbs
  <2> QED  BY <1>2, <2>3
<1>5. PICK w \in Seq(Codes) : w = OnlyIn(r.queue, Codes \ Range(q.codes))
  <2>1. OnlyIn(r.queue, Codes \ Range(q.codes)) \in Seq(Codes \cap (Codes \ Range(q.codes)))
    BY <1>2, OnlyInType
  <2> QED  BY SMTT(90), <2>1
<1>6. PICK v \in SUBSET Codes : v = r.validated \cup (Range(q.codes) \cap ValidCodes)
  BY <1>2, BatchesAssumption
<1>7. PICK c \in Seq(Nat) : c = r.carried \o q.trans
  <2>1. PICK t \in Seq(Nat), u \in Seq(Nat) : t = r.carried /\ u = q.trans  BY <1>1, <1>2
  <2>2. t \o u \in Seq(Nat)  BY ONLY SMTT(90), t \in Seq(Nat), u \in Seq(Nat)
  <2> QED  BY <2>1, <2>2
<1>8. Committed(r, q) = After(r, q, m, e, w, v, c)
  BY <1>3, <1>4, <1>5, <1>6, <1>7 DEF Committed, After
<1>9. /\ After(r, q, m, e, w, v, c) \in Routers
      /\ After(r, q, m, e, w, v, c).last = q /\ After(r, q, m, e, w, v, c).mb = m
      /\ After(r, q, m, e, w, v, c).eb = e /\ After(r, q, m, e, w, v, c).carried = c
  BY <1>1, AfterRouter
<1> QED  BY <1>3, <1>4, <1>7, <1>8, <1>9

\* A block with a batch: the batch was built where the same batch was the last one as on p,
\* so since then nothing was committed on this chain.
LEMMA MineBatchInv ==
  ASSUME BatchInv, NEW p \in Ebs, NEW cs \in SUBSET Codes, NEW s \in submitted, MineBlock(p, {s}, cs)
  PROVE  BatchInv'
<1> DEFINE q == s.batch
           B == q.block
<1>0. World /\ AnchoredAt(p) /\ HistoryAt(p) /\ History /\ Built(q) /\ (Threshold >= 2 => Backed(q))
  BY DEF BatchInv, Anchored, History, Sent
<1>1. eth[p] \in Routers /\ eth[p].carried \in Seq(Nat)  BY <1>0, Fields DEF World
<1>2. MineWith(p, Committed(eth[p], q), cs) /\ mbs' = mbs /\ CommitBatch(p, s)
  <2>1. (CHOOSE x \in {s} : TRUE) = s  OBVIOUS
  <2> QED  BY <2>1 DEF MineBlock, MineWith
<1>3. B \in ChainTo[p] /\ eth[p].last = eth[B].last
  BY <1>2 DEF CommitBatch, BlockIsPredecessor, IsPredecessorOrSelf
<1> HIDE DEF q, B
<1>4. PICK r \in Routers :
      /\ r = Committed(eth[p], q) /\ r.last = q
      /\ r.mb = IF q.head = 0 THEN eth[p].mb ELSE q.head
      /\ r.eb = IF q.head = 0 \/ mbs[q.head].adv = 0 THEN eth[p].eb ELSE mbs[q.head].adv
      /\ r.carried = eth[p].carried \o q.trans
  <2>1. PICK t \in Routers : t = eth[p]  BY <1>1
  <2>2. /\ Committed(t, q) \in Routers /\ Committed(t, q).last = q
        /\ Committed(t, q).mb = IF q.head = 0 THEN t.mb ELSE q.head
        /\ Committed(t, q).eb = IF q.head = 0 \/ mbs[q.head].adv = 0 THEN t.eb ELSE mbs[q.head].adv
        /\ Committed(t, q).carried = t.carried \o q.trans
    BY <1>0, CommittedRouter
  <2> QED  BY <2>1, <2>2
<1> PICK new : NewBlock(p, r, new)  BY <1>2, <1>4, MinedBlock
<1>5. /\ new \notin Ebs /\ Ebs' = Ebs \cup {new}
      /\ \A b \in Ebs : eth'[b] = eth[b] /\ ChainTo'[b] = ChainTo[b]
      /\ ChainTo'[new] = {new} \cup ChainTo[p]
      /\ eth'[new].last = r.last /\ eth'[new].mb = r.mb
      /\ eth'[new].eb = r.eb /\ eth'[new].carried = r.carried
  BY DEF NewBlock
<1>6. /\ World' /\ Sent' /\ Validating'
      /\ AnchoredAt(new)' => Anchored'
      /\ HistoryAt(new)' => History'
  BY <1>2, <1>4, BlockAdded
<1>7. /\ p \in ChainTo[p] /\ ChainTo[p] \subseteq Ebs /\ ChainTo[0] = {0}
      /\ \A y \in ChainTo[p] : ChainTo[y] \subseteq ChainTo[p]
  BY <1>0, Chains
<1>8. eth[B].mb = eth[p].mb /\ B \in Ebs  BY <1>0, <1>3, <1>7 DEF HistoryAt
\* No block of the chain has q as the last batch.
<1>9. q # NoBatch /\ eth[p].last # q /\ \A x \in ChainTo[p] : eth[x].last # q
  <2>1. q # NoBatch  BY <1>0 DEF Built
  <2>2. eth[p].last # q  BY <1>0, <1>3, <2>1 DEF HistoryAt, B
  <2>3. ASSUME NEW x \in ChainTo[p], eth[x].last = q PROVE FALSE
    <3>1. HistoryAt(x)  BY <1>0, <1>7 DEF History
    <3>2. B \in ChainTo[x]  BY <2>1, <2>3, <3>1 DEF HistoryAt, B
    <3>3. eth[x].last = eth[p].last  BY <1>0, <1>3, <3>2 DEF HistoryAt
    <3> QED  BY <2>2, <2>3, <3>3
  <2> QED  BY <2>1, <2>2, <2>3
<1>10. AnchoredAt(new)'
  <2>1. q.head \in 0..Len(mbs) /\ eth[p].mb \in 0..Len(mbs) /\ Len(mbs) \in Nat
    <3>1. q.head \in 0..Len(mbs)  BY <1>0 DEF Built
    <3>2. eth[p].mb \in 0..Len(mbs)  BY <1>0 DEF AnchoredAt
    <3>3. mbs \in Seq(Mbs)  BY <1>0 DEF World
    <3>4. Len(mbs) \in Nat  BY ONLY <3>3
    <3> QED  BY ONLY <3>1, <3>2, <3>4
  <2>2. CASE q.head = 0
    <3>1. eth'[new].mb = eth[p].mb /\ eth'[new].eb = eth[p].eb  BY <1>4, <1>5, <2>2
    <3> QED  BY <1>0, <1>2, <1>5, <3>1 DEF AnchoredAt
  <2>3. CASE q.head # 0 /\ mbs[q.head].adv # 0
    <3>1. eth'[new].mb = q.head /\ eth'[new].eb = mbs[q.head].adv  BY <1>4, <1>5, <2>3
    <3>2. mbs[q.head].adv \in ChainTo[p]  BY <1>0, <1>3, <1>7, <2>3 DEF Built, B
    <3> QED  BY <1>2, <1>5, <2>1, <2>3, <3>1, <3>2 DEF AnchoredAt
  <2>4. CASE q.head # 0 /\ mbs[q.head].adv = 0
    <3>1. eth'[new].mb = q.head /\ eth'[new].eb = eth[p].eb  BY <1>4, <1>5, <2>4
    <3>2. eth[p].mb < q.head  BY <1>0, <1>8, <2>4 DEF Built, B
    <3>3. eth[p].eb = 0
      <4>1. CASE eth[p].mb = 0  BY <1>0, <4>1 DEF AnchoredAt
      <4>2. CASE eth[p].mb # 0
        <5>1. /\ eth[p].mb > 0 /\ eth[p].mb \in DOMAIN mbs /\ q.head \in DOMAIN mbs
              /\ eth[p].mb <= q.head
          <6>1. mbs \in Seq(Mbs)  BY <1>0 DEF World
          <6>2. DOMAIN mbs = 1..Len(mbs)  BY SMTT(90), <6>1
          <6> QED  BY SMTT(90), <2>1, <2>4, <3>2, <4>2, <6>2
        <5>2. mbs[eth[p].mb].adv \in ChainTo[mbs[q.head].adv]  BY <1>0, <5>1 DEF World
        <5> QED  BY <1>0, <1>7, <2>4, <5>1, <5>2 DEF AnchoredAt
      <4> QED  BY <4>1, <4>2
    <3>4. eth[p].eb \in ChainTo[p]  BY <1>0 DEF AnchoredAt
    <3> QED  BY <1>2, <1>5, <2>1, <2>4, <3>1, <3>3, <3>4 DEF AnchoredAt
  <2> QED  BY <2>2, <2>3, <2>4
<1>11. HistoryAt(new)'
  <2>1. eth'[new].last.block \in ChainTo'[new] /\ eth'[eth'[new].last.block].last # eth'[new].last
    BY <1>3, <1>4, <1>5, <1>8, <1>9 DEF B
  <2>2. ASSUME NEW y \in ChainTo'[new] PROVE y = new \/ eth'[y].last # eth'[new].last
    BY <1>4, <1>5, <1>7, <1>9
  <2>3. ASSUME NEW y \in ChainTo'[new], NEW x \in ChainTo'[y], eth'[x].last = eth'[new].last
        PROVE  eth'[y].last = eth'[new].last
    <3>1. CASE y = new  BY <3>1
    <3>2. CASE y \in ChainTo[p]
      <4>1. x \in ChainTo[p] /\ x \in Ebs  BY <1>5, <1>7, <3>2
      <4> QED  BY <1>4, <1>5, <1>9, <2>3, <4>1
    <3> QED  BY <1>5, <3>1, <3>2
  <2> QED  BY <2>1, <2>2, <2>3 DEF HistoryAt
<1>12. ASSUME Threshold >= 2 PROVE CommittedOnce'
  <2>1. \A from, to : Transitions(from, to)' = Transitions(from, to)  BY <1>2 DEF Transitions
  <2>2. CommittedOnce  BY <1>12 DEF BatchInv
  <2>3. eth'[new].carried = Transitions(0, eth'[new].mb)
    <3>1. CASE q.head = 0
      <4>1. q.trans = <<>>  BY <1>0, <3>1 DEF Built
      <4>2. eth[p].carried \o <<>> = eth[p].carried  BY SMTT(90), <1>1
      <4> QED  BY <1>4, <1>5, <2>2, <3>1, <4>1, <4>2 DEF CommittedOnce
    <3>2. CASE q.head # 0
      <4>1. eth[p].mb < q.head /\ q.trans = Transitions(eth[p].mb, q.head)
        BY <1>0, <1>8, <1>12, <3>2 DEF Backed, B
      <4>2. 0 \in Nat /\ eth[p].mb \in Nat /\ q.head \in Nat /\ 0 <= eth[p].mb /\ eth[p].mb <= q.head
        <5>1. q.head \in 0..Len(mbs) /\ eth[p].mb \in 0..Len(mbs)  BY <1>0 DEF Built, AnchoredAt
        <5> QED  BY SMTT(90), <4>1, <5>1
      <4>3. TransitionsOf(mbs, 0, eth[p].mb) \o TransitionsOf(mbs, eth[p].mb, q.head)
              = TransitionsOf(mbs, 0, q.head)
        BY <4>2, TransitionsCat
      <4>4. Transitions(0, eth[p].mb) \o Transitions(eth[p].mb, q.head) = Transitions(0, q.head)
        BY <4>3 DEF Transitions, TransitionsOf
      <4> QED  BY <1>4, <1>5, <2>2, <3>2, <4>1, <4>4 DEF CommittedOnce
    <3> QED  BY <3>1, <3>2
  <2> QED  BY <1>5, <2>1, <2>2, <2>3 DEF CommittedOnce
<1> QED  BY <1>6, <1>10, <1>11, <1>12 DEF BatchInv

-----------------------------------------------------------------------------
(* The other services write to the database. *)

\* Malachite decides an MB: what was decided before stays, and the new one advances
\* along the chain of the others.
LEMMA DecideInv ==
  ASSUME BatchInv, NEW eb \in Ebs, NEW full \in BOOLEAN, Decide(eb, full)
  PROVE  BatchInv'
<1> DEFINE adv == IF mbs = <<>> THEN 0 ELSE Last(mbs).adv
           m == [adv |-> eb, full |-> full]
           k == Len(mbs)
<1>0. World /\ Anchored /\ History /\ Validating  BY DEF BatchInv
<1>1. /\ mbs' = Append(mbs, m) /\ (eb # adv => adv \in ChainTo[eb]) /\ eth' = eth
      /\ UNCHANGED <<fin, role, pending, requests, replies, submitted>>
  BY DEF Decide, IsPredecessorOrSelf
<1>2. m \in Mbs /\ m.adv = eb
  <2>1. PICK n \in Nat : Ebs = 0..n  BY <1>0 DEF World, IsTree, Ebs
  <2>2. eb \in Nat  BY SMTT(90), <2>1
  <2> QED  BY <2>2 DEF Mbs
<1> HIDE DEF m
<1>3. /\ mbs \in Seq(Mbs) /\ k \in Nat /\ DOMAIN mbs = 1..k
      /\ mbs' \in Seq(Mbs) /\ Len(mbs') = k + 1 /\ DOMAIN mbs' = 1..(k + 1)
      /\ (\A i \in 1..k : mbs'[i] = mbs[i]) /\ mbs'[k + 1] = m
  <2>1. mbs \in Seq(Mbs)  BY <1>0 DEF World
  <2> QED  BY ONLY SMTT(90), <1>1, <1>2, <2>1
<1>4. Ebs' = Ebs /\ ChainTo' = ChainTo  BY <1>1 DEF ChainTo, Ebs
<1>5. ASSUME NEW i \in 1..k PROVE mbs[i].adv \in ChainTo[eb]
  <2>1. mbs # <<>> /\ k \in 1..k /\ i <= k  BY SMTT(90), <1>3, <1>5
  <2>2. adv = mbs[k].adv  BY <2>1 DEF Last
  <2>3. mbs[i].adv \in ChainTo[mbs[k].adv]  BY <1>0, <1>3, <2>1 DEF World
  <2>4. eb # adv => ChainTo[adv] \subseteq ChainTo[eb]  BY <1>0, <1>1, Chains
  <2> HIDE DEF adv
  <2> QED  BY <2>2, <2>3, <2>4
<1> HIDE DEF adv, k
<1>6. /\ k \in 0..(k + 1) /\ \A i \in 0..k : i \in 0..(k + 1)
      /\ \A i \in 1..(k + 1) : i \in 1..k \/ i = k + 1
      /\ \A i \in 1..k : i \in 1..(k + 1) /\ ~(k + 1 <= i)
  BY SMTT(90), <1>3
<1>7. World'
  <2>1. ASSUME NEW i \in 1..(k + 1) PROVE mbs'[i].adv \in Ebs
    BY <1>0, <1>2, <1>3, <1>6 DEF World
  <2>2. ASSUME NEW i \in 1..(k + 1), NEW j \in 1..(k + 1), i <= j
        PROVE  mbs'[i].adv \in ChainTo[mbs'[j].adv]
    <3>1. CASE j = k + 1
      <4>1. mbs'[j].adv = eb /\ eb \in ChainTo[eb]  BY <1>0, <1>2, <1>3, <3>1, Chains
      <4> QED  BY <1>3, <1>5, <1>6, <3>1, <4>1
    <3>2. CASE j \in 1..k
      <4>1. i \in 1..k  BY <1>6, <2>2, <3>2
      <4> QED  BY <1>0, <1>3, <2>2, <3>2, <4>1 DEF World
    <3> QED  BY <1>6, <3>1, <3>2
  <2> QED  BY <1>0, <1>1, <1>3, <1>4, <2>1, <2>2 DEF World
<1>8. Grows
  <2>1. ASSUME NEW from \in Nat, NEW to \in Nat, from <= to, to <= Len(mbs)
        PROVE  Transitions(from, to)' = Transitions(from, to)
    <3>1. \A i \in 1..to : i \in 1..k  BY SMTT(90), <1>3, <2>1 DEF k
    <3>2. \A i \in 1..to : i \in DOMAIN mbs /\ i \in DOMAIN mbs' /\ mbs'[i] = mbs[i]
      BY <1>3, <1>6, <3>1
    <3>3. TransitionsOf(mbs', from, to) = TransitionsOf(mbs, from, to)
      BY ONLY <2>1, <3>2, TransitionsStay
    <3> QED  BY <3>3 DEF Transitions, TransitionsOf
  <2>2. \A i \in 0..Len(mbs) : i \in 0..Len(mbs')  BY <1>3, <1>6 DEF k
  <2> QED  BY <1>1, <1>3, <1>4, <2>1, <2>2 DEF Grows
<1>9. Anchored'
  <2> SUFFICES ASSUME NEW b \in Ebs PROVE AnchoredAt(b)'  BY <1>4 DEF Anchored
  <2>1. AnchoredAt(b)  BY <1>0 DEF Anchored
  <2>2. eth[b].mb \in 0..Len(mbs')  BY <1>8, <2>1 DEF AnchoredAt, Grows
  <2>3. eth[b].mb > 0 => eth[b].mb \in 1..k
    <3>1. eth[b].mb \in 0..k  BY <2>1 DEF AnchoredAt, k
    <3> QED  BY SMTT(90), <1>3, <3>1
  <2> QED  BY <1>1, <1>3, <1>4, <2>1, <2>2, <2>3 DEF AnchoredAt
<1>10. History'
  <2>1. eth' = eth /\ ChainTo' = ChainTo  BY <1>1, <1>4
  <2>2. ASSUME NEW z, HistoryAt(z) PROVE HistoryAt(z)'  BY ONLY <2>1, <2>2 DEF HistoryAt
  <2> QED  BY <1>0, <1>4, <2>2 DEF History
<1>11. Sent'  BY <1>1, <1>8, MessagesStay
<1>12. Validating'
  <2>1. \A v \in Members : fin[v] <= Len(mbs')
    <3> SUFFICES ASSUME NEW v \in Members PROVE fin[v] <= Len(mbs')  OBVIOUS
    <3>1. fin[v] \in Nat /\ fin[v] <= k  BY <1>0 DEF Validating, k
    <3> QED  BY SMTT(90), <1>3, <3>1
  <2>2. \A v, x : RoleOk(v, x) => RoleOk(v, x)'  BY <1>1, <1>4 DEF RoleOk
  <2> QED  BY <1>0, <1>1, <2>1, <2>2 DEF Validating
<1>13. ASSUME Threshold >= 2 PROVE CommittedOnce'
  <2> SUFFICES ASSUME NEW b \in Ebs PROVE eth[b].carried = Transitions(0, eth[b].mb)'
    BY <1>1, <1>4 DEF CommittedOnce, Transitions
  <2>1. eth[b].carried = Transitions(0, eth[b].mb)  BY <1>13 DEF BatchInv, CommittedOnce
  <2>2. eth[b].mb \in 0..k  BY <1>0 DEF Anchored, AnchoredAt, k
  <2>3. 0 \in Nat /\ eth[b].mb \in Nat /\ 0 <= eth[b].mb /\ eth[b].mb <= Len(mbs)
    BY SMTT(90), <1>3, <2>2 DEF k
  <2>4. PICK n \in Nat : n = eth[b].mb  BY <2>3
  <2>5. Transitions(0, n)' = Transitions(0, n)  BY <1>8, <2>3, <2>4 DEF Grows
  <2> QED  BY <1>1, <2>1, <2>4, <2>5 DEF Transitions
<1> QED  BY <1>7, <1>9, <1>10, <1>11, <1>12, <1>13 DEF BatchInv

\* Steps that change neither blocks nor MBs, and add batches that are built as they should be.
LEMMA SameBlocks ==
  ASSUME BatchInv, UNCHANGED <<eth, mbs>>, Validating', requests \subseteq requests',
         \A q \in requests' : q \in requests \/ Built(q),
         \A rep \in replies' : rep \in replies \/ (rep.batch \in requests /\ Backed(rep.batch)),
         \A s \in submitted' :
           s \in submitted \/ (Built(s.batch) /\ (Threshold >= 2 => Backed(s.batch)))
  PROVE  BatchInv'
<1>1. World' /\ Anchored' /\ History' /\ Grows /\ (Threshold >= 2 => CommittedOnce')  BY SameWorld
<1>2. World /\ Anchored /\ Sent  BY DEF BatchInv
<1>3. \A q : Built(q) => Built(q)' /\ (Backed(q) => Backed(q)')  BY <1>1, <1>2, BatchesStay
<1>4. \A q \in requests' : Built(q)'  BY <1>2, <1>3 DEF Sent
<1>5. \A rep \in replies' : rep.batch \in requests' /\ Backed(rep.batch)'
  BY <1>2, <1>3 DEF Sent
<1>6. \A s \in submitted' : Built(s.batch)' /\ (Threshold >= 2 => Backed(s.batch)')
  BY <1>2, <1>3 DEF Sent
<1>7. Sent'  BY <1>4, <1>5, <1>6 DEF Sent
<1> QED  BY <1>1, <1>7 DEF BatchInv

\* process_mb_finalized, compute_one and set_code_valid.
LEMMA DatabaseInv ==
  ASSUME BatchInv, NEW v \in Members,
         Finalize(v) \/ Compute(v) \/ \E c \in Codes : ProcessCode(v, c)
  PROVE  BatchInv'
<1>0. Validating  BY DEF BatchInv
<1>1. UNCHANGED <<eth, mbs, role, pending, requests, replies, submitted>>
  BY DEF Finalize, Compute, ProcessCode
<1>2. fin' \in [Members -> Nat] /\ \A w \in Members : fin'[w] <= Len(mbs)
  <2>1. CASE Finalize(v)
    <3>1. fin' = [fin EXCEPT ![v] = fin[v] + 1] /\ fin[v] < Len(mbs)  BY <2>1 DEF Finalize
    <3>2. fin \in [Members -> Nat] /\ Len(mbs) \in Nat /\ \A w \in Members : fin[w] <= Len(mbs)
      BY <1>0 DEF Validating, BatchInv, World
    <3> QED  BY ONLY SMTT(90), v \in Members, <3>1, <3>2
  <2>2. CASE fin' = fin  BY <1>0, <2>2 DEF Validating
  <2> QED  BY <2>1, <2>2 DEF Compute, ProcessCode
<1>3. \A w, x : RoleOk(w, x) => RoleOk(w, x)'  BY <1>1 DEF RoleOk, Ebs
<1>4. Validating'  BY <1>0, <1>1, <1>2, <1>3 DEF Validating
<1> QED  BY <1>1, <1>4, SameBlocks

-----------------------------------------------------------------------------
(* ValidatorService. *)

\* A validator comes to another state.
LEMMA RoleStep ==
  ASSUME BatchInv, NEW v \in Members, NEW r, Become(v, r), RoleOk(v, r)',
         UNCHANGED <<eth, mbs, fin>>, requests \subseteq requests', replies \subseteq replies',
         DOMAIN pending' = Members, \A w \in Members : pending'[w] \in Seq(requests)
  PROVE  Validating'
<1>0. Validating  BY DEF BatchInv
<1>1. DOMAIN role' = Members /\ role'[v] = r /\ \A w \in Members \ {v} : role'[w] = role[w]
  BY <1>0 DEF Become, Validating
<1>2. Ebs' = Ebs  BY DEF Ebs
<1>3. ASSUME NEW w \in Members PROVE RoleOk(w, role[w])'
  <2>1. CASE w = v  BY <1>1, <2>1 DEF RoleOk
  <2>2. CASE w # v
    <3>1. RoleOk(w, role[w])  BY <1>0 DEF Validating
    <3>2. role'[w] = role[w]  BY <1>1, <2>2
    <3> QED  BY <1>2, <3>1, <3>2 DEF RoleOk
  <2> QED  BY <2>1, <2>2
<1>4. ASSUME NEW w \in Members PROVE pending'[w] \in Seq(requests')
  <2>1. PICK u \in Seq(requests) : u = pending'[w]  BY <1>4
  <2>2. u \in Seq(requests')  BY ONLY SMTT(90), <2>1, requests \subseteq requests'
  <2> QED  BY <2>1, <2>2
<1> QED  BY <1>0, <1>1, <1>3, <1>4 DEF Validating

\* A state without a block, a request or a batch.
LEMMA IdleOk == ASSUME NEW v PROVE RoleOk(v, Idle) /\ RoleOk(v, Idle)'
<1>1. Idle.state = "idle"  BY DEF Idle
<1> HIDE DEF Idle
<1> QED  BY <1>1 DEF RoleOk

\* The saved requests stay.
LEMMA KeepsPending ==
  ASSUME BatchInv, UNCHANGED pending
  PROVE  DOMAIN pending' = Members /\ \A w \in Members : pending'[w] \in Seq(requests)
BY DEF BatchInv, Validating

\* A node that failed or crashed starts idle, without what was in its memory.
LEMMA FailInv ==
  ASSUME BatchInv, NEW v \in Members, Fail(v), UNCHANGED <<eth, mbs, fin, requests, replies, submitted>>
  PROVE  BatchInv'
<1>0. Validating  BY DEF BatchInv
<1>1. pending' = [pending EXCEPT ![v] = <<>>] /\ Become(v, Idle)  BY DEF Fail
<1>2. DOMAIN pending' = Members /\ \A w \in Members : pending'[w] \in Seq(requests)
  <2>1. <<>> \in Seq(requests)  BY SMTT(90)
  <2> QED  BY <1>0, <1>1, <2>1 DEF Validating
<1>3. RoleOk(v, Idle)'  BY IdleOk
<1>4. Validating'  BY <1>1, <1>2, <1>3, RoleStep
<1> QED  BY <1>4, SameBlocks

\* A new head: the validator is the coordinator, a participant, or waits.
LEMMA NewHeadInv ==
  ASSUME BatchInv, NEW v \in Members, NEW b \in Ebs, NewHead(v, b)
  PROVE  BatchInv'
<1>0. Validating  BY DEF BatchInv
<1>1. UNCHANGED <<eth, mbs, fin, requests, replies, submitted>>  BY DEF NewHead
<1>2. \A r : RoleOk(v, r) => RoleOk(v, r)'  BY <1>1 DEF RoleOk, Ebs
<1>3. SUFFICES Validating'  BY <1>1, SameBlocks
<1>4. CASE StartParticipant(v, b)
  <2> DEFINE of == {i \in DOMAIN pending[v] : CoordinatorOf(pending[v][i].block) = CoordinatorOf(b)}
             first == CHOOSE i \in of : \A j \in of : i <= j
  <2>1. CASE of = {}
    <3> DEFINE r == [state |-> "participant", block |-> b]
    <3>1. Become(v, r) /\ UNCHANGED pending  BY <1>4, <2>1 DEF StartParticipant
    <3>2. RoleOk(v, r)'  BY <1>1 DEF RoleOk, Ebs
    <3> HIDE DEF r
    <3> QED  BY <1>1, <3>1, <3>2, KeepsPending, RoleStep
  <2>2. CASE of # {}
    <3>0. PICK req : req = pending[v][first]  OBVIOUS
    <3> DEFINE r == [state |-> "validating", block |-> b, request |-> req]
    <3>1. Become(v, r) /\ pending' = [pending EXCEPT ![v] = RemoveAt(pending[v], first)]
      BY <1>4, <2>2, <3>0 DEF StartParticipant
    <3>2. pending[v] \in Seq(requests)  BY <1>0 DEF Validating
    <3>3. first \in 1..Len(pending[v]) /\ first \in DOMAIN pending[v]
      <4>1. DOMAIN pending[v] = 1..Len(pending[v]) /\ Len(pending[v]) \in Nat  BY SMTT(90), <3>2
      <4>2. of \subseteq Nat /\ of \subseteq DOMAIN pending[v]  BY SMTT(90), <4>1
      <4> HIDE DEF of
      <4>3. \E i \in of : \A j \in of : i <= j  BY <2>2, <4>2, LeastNat
      <4>4. first \in of  BY <4>3
      <4> QED  BY <4>1, <4>2, <4>4
    <3> HIDE DEF first
    <3>4. req \in requests  BY SMTT(90), <3>0, <3>2, <3>3
    <3>5. RemoveAt(pending[v], first) \in Seq(requests)
      <4>1. PICK u \in Seq(requests) : u = pending[v]  BY <3>2
      <4>2. PICK i \in 1..Len(u) : i = first  BY <3>3, <4>1
      <4>3. SubSeq(u, 1, i - 1) \o SubSeq(u, i + 1, Len(u)) \in Seq(requests)
        BY ONLY SMTT(90), u \in Seq(requests), i \in 1..Len(u)
      <4> QED  BY <4>1, <4>2, <4>3 DEF RemoveAt
    <3>6. DOMAIN pending' = Members /\ \A w \in Members : pending'[w] \in Seq(requests)
      BY <1>0, <3>1, <3>5 DEF Validating
    <3>7. RoleOk(v, r)'  BY <1>1, <3>4 DEF RoleOk, Ebs
    <3> HIDE DEF r
    <3> QED  BY <1>1, <3>1, <3>6, <3>7, RoleStep
  <2> QED  BY <2>1, <2>2
<1>5. CASE Become(v, [state |-> "boot", block |-> b]) /\ UNCHANGED pending
  <2> DEFINE r == [state |-> "boot", block |-> b]
  <2>1. RoleOk(v, r)'  BY <1>1 DEF RoleOk, Ebs
  <2>2. Become(v, r)  BY <1>5
  <2> HIDE DEF r
  <2> QED  BY <1>1, <1>5, <2>1, <2>2, KeepsPending, RoleStep
<1>6. CASE Become(v, Idle) /\ UNCHANGED pending
  BY <1>1, <1>6, IdleOk, KeepsPending, RoleStep
<1> QED  BY <1>4, <1>5, <1>6 DEF NewHead

-----------------------------------------------------------------------------
(* Batches are built. *)

\* A set of naturals with a bound that is not empty has a greatest member.
LEMMA GreatestNat ==
  ASSUME NEW T, NEW k \in Nat, T \subseteq 0..k, T # {}
  PROVE  \E m \in T : \A n \in T : n <= m
<1> DEFINE U == {i \in 0..k : k - i \in T}
<1>1. U \subseteq Nat  BY SMTT(90)
<1>2. U # {}
  <2>1. PICK n \in T : TRUE  OBVIOUS
  <2>2. k - n \in 0..k /\ k - (k - n) = n  BY SMTT(90), <2>1
  <2> QED  BY <2>1, <2>2
<1>3. PICK i \in U : \A j \in U : i <= j
  <2> HIDE DEF U
  <2> QED  BY <1>1, <1>2, LeastNat
<1>4. k - i \in T  BY <1>3
<1>5. ASSUME NEW n \in T PROVE n <= k - i
  <2>1. k - n \in 0..k /\ k - (k - n) = n /\ n \in 0..k  BY SMTT(90)
  <2>2. k - n \in U  BY <2>1
  <2>3. i <= k - n /\ i \in 0..k  BY <1>3, <2>2
  <2> QED  BY ONLY SMTT(90), k \in Nat, <2>1, <2>3
<1> QED  BY <1>4, <1>5

\* The transitions of a run of MBs are heights.
LEMMA TransitionsType ==
  ASSUME NEW from \in Nat, NEW to \in Nat, from <= to
  PROVE  Transitions(from, to) \in Seq(Nat) /\ Transitions(from, from) = <<>>
<1> DEFINE r == [i \in 1..(to - from) |-> from + i]
           S == {m \in DOMAIN mbs : mbs[m].full}
<1>1. r \in Seq(1..to)  BY RunIs
<1>2. Transitions(from, to) = OnlyIn(r, S)  BY DEF Transitions
<1> HIDE DEF r, S
<1>3. OnlyIn(r, S) \in Seq((1..to) \cap S)  BY <1>1, OnlyInType
<1>4. (1..to) \cap S \subseteq Nat  BY SMTT(90)
<1>5. OnlyIn(r, S) \in Seq(Nat)  BY SMTT(90), <1>3, <1>4
<1>6. Transitions(from, from) = <<>>  BY NoTransitions DEF Transitions, TransitionsOf
<1> QED  BY <1>2, <1>5, <1>6

\* How far a batch goes: it fits, and ends at an MB that is finalized.
LEMMA IncludedIs ==
  ASSUME BatchInv, NEW v \in Members, NEW b \in Ebs
  PROVE  /\ LastIncluded(v, b) \in Nat /\ eth[b].mb \in Nat /\ fin[v] \in Nat
         /\ eth[b].mb <= LastIncluded(v, b)
         /\ LastIncluded(v, b) # eth[b].mb =>
              /\ eth[b].mb < LastIncluded(v, b) /\ LastIncluded(v, b) <= fin[v]
              /\ Len(Transitions(eth[b].mb, LastIncluded(v, b))) <= BatchSizeLimit
<1> DEFINE from == eth[b].mb
           pend == {m \in (from + 1)..fin[v] :
                      m <= comp[v] /\ Len(Transitions(from, m)) <= BatchSizeLimit}
<1>1. from \in Nat /\ fin[v] \in Nat  BY Fields DEF BatchInv, World, Validating
<1>2. LastIncluded(v, b) = IF pend = {} THEN from ELSE CHOOSE m \in pend : \A n \in pend : n <= m
  BY DEF LastIncluded
<1>3. CASE pend = {}
  <2>1. LastIncluded(v, b) = from  BY <1>2, <1>3
  <2>2. from <= from  BY ONLY SMTT(90), <1>1
  <2> QED  BY <1>1, <2>1, <2>2
<1>4. CASE pend # {}
  <2>1. pend \subseteq 0..fin[v]
    <3>1. (from + 1)..fin[v] \subseteq 0..fin[v]  BY ONLY SMTT(90), <1>1
    <3> QED  BY <3>1
  <2>2. \E m \in pend : \A n \in pend : n <= m
    <3> HIDE DEF pend
    <3> QED  BY <1>1, <1>4, <2>1, GreatestNat
  <2>3. LastIncluded(v, b) \in pend
    <3> HIDE DEF pend
    <3> QED  BY <1>2, <1>4, <2>2
  <2>4. PICK m \in (from + 1)..fin[v] :
          m = LastIncluded(v, b) /\ Len(Transitions(from, m)) <= BatchSizeLimit
    BY <2>3
  <2>5. m \in Nat /\ from <= m /\ from < m /\ m <= fin[v]  BY ONLY SMTT(90), <1>1, <2>4
  <2> QED  BY <1>1, <2>4, <2>5
<1> QED  BY <1>3, <1>4

\* The codes of a batch wait at its block, and there is room for them.
LEMMA ReadyCodesIs ==
  ASSUME BatchInv, NEW v \in Members, NEW b \in Ebs, NEW room \in Nat
  PROVE  /\ ReadyCodes(v, b, room) \in Seq(Codes) /\ Len(ReadyCodes(v, b, room)) <= room
         /\ Range(ReadyCodes(v, b, room)) \subseteq Range(eth[b].queue)
<1>1. PICK s \in Seq(Codes) : s = eth[b].queue  BY Fields DEF BatchInv, World
<1>2. PICK R : R = Range(s)  OBVIOUS
<1>3. s \in Seq(R) /\ R \subseteq Codes
  <2>1. Len(s) \in Nat /\ DOMAIN s = 1..Len(s) /\ \A i \in 1..Len(s) : s[i] \in Codes
    BY ONLY SMTT(90), s \in Seq(Codes)
  <2>2. R = {s[i] : i \in DOMAIN s}  BY <1>2 DEF Range
  <2>3. R \subseteq Codes  BY <2>1, <2>2
  <2>4. \A i \in 1..Len(s) : s[i] \in R  BY <2>1, <2>2
  <2>5. s \in [1..Len(s) -> R]  BY ONLY SMTT(90), s \in Seq(Codes), <2>1, <2>4
  <2> QED  BY ONLY SMTT(90), <2>1, <2>3, <2>5
<1>4. PICK u \in Seq(R) : u = OnlyIn(s, codeValid[v])
  <2>1. OnlyIn(s, codeValid[v]) \in Seq(R \cap codeValid[v])  BY <1>3, OnlyInType
  <2>2. PICK S : S = codeValid[v]  OBVIOUS
  <2>3. PICK w \in Seq(R \cap S) : w = OnlyIn(s, codeValid[v])  BY <2>1, <2>2
  <2>4. w \in Seq(R)  BY ONLY SMTT(90), w \in Seq(R \cap S)
  <2> QED  BY <2>3, <2>4
<1> DEFINE n == IF Len(u) <= room THEN Len(u) ELSE room
<1>5. ReadyCodes(v, b, room) = SubSeq(u, 1, n)  BY <1>1, <1>4 DEF ReadyCodes
<1>6. SubSeq(u, 1, n) \in Seq(R) /\ Len(SubSeq(u, 1, n)) <= room
  BY ONLY SMTT(90), u \in Seq(R), room \in Nat
<1>7. PICK q \in Seq(R) : q = ReadyCodes(v, b, room) /\ Len(q) <= room  BY <1>5, <1>6
<1>8. q \in Seq(Codes) /\ \A i \in DOMAIN q : q[i] \in R  BY ONLY SMTT(90), q \in Seq(R), <1>3
<1>9. Range(q) \subseteq R  BY <1>8 DEF Range
<1> QED  BY <1>1, <1>2, <1>7, <1>8, <1>9

\* What create_batch_commitment makes.
LEMMA CreatedIsBuilt ==
  ASSUME BatchInv, NEW v \in Members, NEW b \in Ebs, CreateBatchCommitment(v, b) # NoBatch
  PROVE  Built(CreateBatchCommitment(v, b))
<1> DEFINE inc == LastIncluded(v, b)
           trans == Transitions(eth[b].mb, inc)
           top == CASE trans # <<>> -> inc
                    [] trans = <<>> /\ NeedsCheckpoint(v, b) -> fin[v]
                    [] OTHER -> 0
           codes == ReadyCodes(v, b, BatchSizeLimit - Len(trans))
           q == CreateBatchCommitment(v, b)
<1>0. World /\ AnchoredAt(b) /\ Validating  BY DEF BatchInv, Anchored
<1>1. LatestIsCanonical(v, b) /\ q = Batch(v, b, top, trans, codes)  BY DEF CreateBatchCommitment
<1>2. /\ inc \in Nat /\ eth[b].mb \in Nat /\ fin[v] \in Nat /\ eth[b].mb <= inc
      /\ inc # eth[b].mb => /\ eth[b].mb < inc /\ inc <= fin[v]
                            /\ Len(trans) <= BatchSizeLimit
  BY IncludedIs
<1>3. trans \in Seq(Nat) /\ (inc = eth[b].mb => trans = <<>>)  BY <1>2, TransitionsType
<1>4. \/ trans # <<>> /\ top = inc
      \/ trans = <<>> /\ NeedsCheckpoint(v, b) /\ top = fin[v]
      \/ trans = <<>> /\ top = 0
  OBVIOUS
<1>5. trans = Transitions(eth[b].mb, inc)  OBVIOUS
<1> HIDE DEF inc, trans, top
<1>6. PICK room \in Nat : room = BatchSizeLimit - Len(trans)
  <2>1. BatchSizeLimit \in Nat  BY BatchesAssumption
  <2>2. Len(trans) \in Nat /\ (trans = <<>> => Len(trans) = 0)  BY ONLY SMTT(90), <1>3
  <2>3. Len(trans) <= BatchSizeLimit  BY ONLY SMTT(90), <1>2, <1>3, <2>1, <2>2
  <2>4. BatchSizeLimit - Len(trans) \in Nat  BY ONLY SMTT(90), <2>1, <2>2, <2>3
  <2> QED  BY <2>4
<1>7. codes \in Seq(Codes) /\ Len(codes) <= room /\ Range(codes) \subseteq Range(eth[b].queue)
  <2>1. codes = ReadyCodes(v, b, room)  BY <1>6
  <2> HIDE DEF codes
  <2> QED  BY <2>1, ReadyCodesIs
<1> HIDE DEF codes, q
<1>8. Len(mbs) \in Nat /\ DOMAIN mbs = 1..Len(mbs) /\ fin[v] <= Len(mbs)
  <2>1. mbs \in Seq(Mbs)  BY <1>0 DEF World
  <2>2. Len(mbs) \in Nat /\ DOMAIN mbs = 1..Len(mbs)  BY ONLY SMTT(90), <2>1
  <2> QED  BY <1>0, <2>2 DEF Validating
<1>9. ASSUME fin[v] # 0 PROVE fin[v] \in DOMAIN mbs /\ mbs[fin[v]].adv \in ChainTo[b]
  <2>1. fin[v] \in DOMAIN mbs  BY ONLY SMTT(90), <1>2, <1>8, <1>9
  <2> QED  BY <1>1, <1>9, <2>1 DEF LatestIsCanonical, IsPredecessorOrSelf
<1>10. /\ top \in 0..Len(mbs) /\ top \in Nat
       /\ top # 0 => mbs[top].adv \in ChainTo[b]
       /\ top # 0 /\ mbs[top].adv = 0 => eth[b].mb < top
       /\ top = 0 => trans = <<>>
       /\ trans # <<>> => eth[b].mb < top /\ trans = Transitions(eth[b].mb, top)
  <2>1. CASE trans # <<>> /\ top = inc
    <3>1. inc # eth[b].mb /\ eth[b].mb < inc /\ inc <= fin[v]  BY <1>2, <1>3, <2>1
    <3>2. /\ inc \in 0..Len(mbs) /\ inc # 0 /\ fin[v] # 0 /\ inc \in DOMAIN mbs
      BY ONLY SMTT(90), <1>2, <1>8, <3>1
    <3>3. mbs[inc].adv \in ChainTo[mbs[fin[v]].adv]  BY <1>0, <1>9, <3>1, <3>2 DEF World
    <3>4. ChainTo[mbs[fin[v]].adv] \subseteq ChainTo[b]  BY <1>0, <1>9, <3>2, Chains
    <3> QED  BY <1>2, <1>5, <2>1, <3>1, <3>2, <3>3, <3>4
  <2>2. CASE trans = <<>> /\ NeedsCheckpoint(v, b) /\ top = fin[v]
    <3>1. fin[v] # 0 /\ fin[v] \in 0..Len(mbs)
      <4>1. fin[v] > 0  BY <2>2 DEF NeedsCheckpoint
      <4> QED  BY ONLY SMTT(90), <1>2, <1>8, <4>1
    <3>2. mbs[fin[v]].adv # 0
      <4>1. eth[b].eb \in Ebs  BY <1>0, Chains DEF AnchoredAt
      <4>2. eth[eth[b].eb].height \in Nat /\ eth[0].height = 0  BY <1>0, <4>1, Fields DEF World
      <4>3. eth[mbs[fin[v]].adv].height - eth[eth[b].eb].height > ChainLenThreshold
        BY <2>2 DEF NeedsCheckpoint
      <4>4. ChainLenThreshold \in Nat  BY BatchesAssumption
      <4>5. PICK h \in Nat : h = eth[eth[b].eb].height  BY <4>2
      <4>6. PICK j : j = eth[mbs[fin[v]].adv].height  OBVIOUS
      <4>7. j - h > ChainLenThreshold  BY <4>3, <4>5, <4>6
      <4>8. j # 0  BY ONLY SMTT(90), h \in Nat, <4>4, <4>7
      <4> QED  BY <4>2, <4>6, <4>8
    <3> QED  BY <1>2, <1>9, <2>2, <3>1, <3>2
  <2>3. CASE trans = <<>> /\ top = 0
    <3>1. 0 \in 0..Len(mbs)  BY ONLY SMTT(90), <1>8
    <3> QED  BY <2>3, <3>1
  <2> QED  BY <1>4, <2>1, <2>2, <2>3
<1>11. PICK e \in Nat : e = Delay[v]
  <2>1. Delay[v] \in 1..255  BY BatchesAssumption
  <2> QED  BY SMTT(90), <2>1
<1>12. b \in Nat
  <2>1. PICK n \in Nat : Ebs = 0..n  BY <1>0 DEF World, IsTree, Ebs
  <2> QED  BY SMTT(90), <2>1
<1>13. /\ q.block = b /\ q.expiry = Delay[v] /\ q.head = top /\ q.trans = trans /\ q.codes = codes
       /\ q \in BatchRecords
  <2>1. q = [block |-> b, expiry |-> e, head |-> top, trans |-> trans, codes |-> codes]
    BY <1>1, <1>11 DEF Batch
  <2>2. q \in BatchRecords  BY <1>3, <1>7, <1>10, <1>12, <2>1 DEF BatchRecords
  <2> QED  BY <1>11, <2>1, <2>2
<1>14. BatchSize(q) <= BatchSizeLimit
  <2>1. Len(trans) \in Nat /\ Len(codes) \in Nat /\ BatchSizeLimit \in Nat
    <3>1. BatchSizeLimit \in Nat  BY BatchesAssumption
    <3> QED  BY ONLY SMTT(90), <1>3, <1>7, <3>1
  <2>2. Len(trans) + Len(codes) <= BatchSizeLimit  BY ONLY SMTT(90), <1>6, <1>7, <2>1
  <2> QED  BY <1>13, <2>2 DEF BatchSize
<1>15. q # NoBatch  BY DEF q
<1>16. Built(q)  BY <1>7, <1>10, <1>13, <1>14, <1>15 DEF Built
<1> QED  BY <1>16 DEF q

\* CoordinatorBoot: what it makes is published, or sent to the Router if one signature will do.
LEMMA BootInv ==
  ASSUME BatchInv, NEW v \in Members, Boot(v)
  PROVE  BatchInv'
<1>0. Validating  BY DEF BatchInv
<1>1. role[v].state = "boot" /\ role[v].block \in Ebs
  <2>1. role[v].state = "boot"  BY DEF Boot
  <2>2. RoleOk(v, role[v])  BY <1>0 DEF Validating
  <2> QED  BY <2>1, <2>2 DEF RoleOk
<1>2. PICK b \in Ebs : b = role[v].block  BY <1>1
<1>3. PICK q : q = CreateBatchCommitment(v, b)  OBVIOUS
<1>4. /\ \/ q = NoBatch /\ Become(v, Idle) /\ UNCHANGED <<requests, submitted>>
         \/ q # NoBatch /\ Threshold <= 1 /\ Submit(v, q, {v}) /\ UNCHANGED requests
         \/ /\ q # NoBatch /\ requests' = requests \cup {q}
            /\ Become(v, [state |-> "coordinator", batch |-> q, sigs |-> {v}])
            /\ UNCHANGED submitted
      /\ UNCHANGED <<eth, mbs, fin, pending, replies>>
  BY <1>2, <1>3 DEF Boot
<1>5. q # NoBatch => Built(q)  BY <1>3, CreatedIsBuilt
<1>6. DOMAIN pending' = Members /\ \A w \in Members : pending'[w] \in Seq(requests)
  BY <1>4, KeepsPending
<1>7. RoleOk(v, Idle)'  BY IdleOk
<1>8. CASE q = NoBatch /\ Become(v, Idle) /\ UNCHANGED <<requests, submitted>>
  <2>1. Validating'  BY <1>4, <1>6, <1>7, <1>8, RoleStep
  <2> QED  BY <1>4, <1>8, <2>1, SameBlocks
<1>9. CASE q # NoBatch /\ Threshold <= 1 /\ Submit(v, q, {v}) /\ UNCHANGED requests
  <2>1. submitted' = submitted \cup {[batch |-> q, sigs |-> {v}]} /\ Become(v, Idle)
    BY <1>9 DEF Submit
  <2>2. Validating'  BY <1>4, <1>6, <1>7, <1>9, <2>1, RoleStep
  <2>3. ~(Threshold >= 2)
    <3>1. Threshold \in Int
      <4>1. Threshold \in 1..Cardinality(Members)  BY BatchesAssumption
      <4> QED  BY ONLY SMTT(90), <4>1
    <3> QED  BY ONLY SMTT(90), <1>9, <3>1
  <2>4. \A s \in submitted' : s \in submitted \/ (Built(s.batch) /\ (Threshold >= 2 => Backed(s.batch)))
    <3>1. [batch |-> q, sigs |-> {v}].batch = q  OBVIOUS
    <3> QED  BY <1>5, <1>9, <2>1, <2>3, <3>1
  <2> QED  BY <1>4, <1>9, <2>2, <2>4, SameBlocks
<1>10. CASE /\ q # NoBatch /\ requests' = requests \cup {q}
            /\ Become(v, [state |-> "coordinator", batch |-> q, sigs |-> {v}])
            /\ UNCHANGED submitted
  <2> DEFINE r == [state |-> "coordinator", batch |-> q, sigs |-> {v}]
  <2>1. RoleOk(v, r)'
    <3>1. r.state = "coordinator" /\ r.batch = q /\ r.sigs = {v}  OBVIOUS
    <3>2. r = [state |-> "coordinator", batch |-> r.batch, sigs |-> r.sigs]  OBVIOUS
    <3> HIDE DEF r
    <3> QED  BY <1>10, <3>1, <3>2 DEF RoleOk
  <2>2. Become(v, r) /\ requests \subseteq requests'  BY <1>10
  <2> HIDE DEF r
  <2>3. Validating'  BY <1>4, <1>6, <2>1, <2>2, RoleStep
  <2> QED  BY <1>4, <1>5, <1>10, <2>2, <2>3, SameBlocks
<1> QED  BY <1>4, <1>8, <1>9, <1>10

\* A request: it is validated, or saved.
LEMMA ReceiveRequestInv ==
  ASSUME BatchInv, NEW v \in Members, NEW req \in requests, ReceiveRequest(v, req)
  PROVE  BatchInv'
<1>0. Validating  BY DEF BatchInv
<1>1. UNCHANGED <<eth, mbs, fin, requests, replies, submitted>>  BY DEF ReceiveRequest
<1>2. SUFFICES Validating'  BY <1>1, SameBlocks
<1>3. RoleOk(v, role[v])  BY <1>0 DEF Validating
<1>4. CASE /\ role[v].state = "participant"
           /\ Become(v, [state |-> "validating", block |-> role[v].block, request |-> req])
           /\ UNCHANGED pending
  <2>1. PICK b \in Ebs : b = role[v].block  BY <1>3, <1>4 DEF RoleOk
  <2> DEFINE r == [state |-> "validating", block |-> b, request |-> req]
  <2>2. Become(v, r)  BY <1>4, <2>1
  <2>3. RoleOk(v, r)'  BY <1>1, <2>1 DEF RoleOk, Ebs
  <2> HIDE DEF r
  <2> QED  BY <1>1, <1>4, <2>2, <2>3, KeepsPending, RoleStep
<1>5. CASE pending' = [pending EXCEPT ![v] = <<req>> \o @] /\ UNCHANGED role
  <2>1. PICK u \in Seq(requests) : u = pending[v]  BY <1>0 DEF Validating
  <2>2. <<req>> \o u \in Seq(requests)  BY ONLY SMTT(90), u \in Seq(requests), req \in requests
  <2>3. DOMAIN pending' = Members /\ \A w \in Members : pending'[w] \in Seq(requests)
    BY <1>0, <1>5, <2>1, <2>2 DEF Validating
  <2>4. \A w, x : RoleOk(w, x) => RoleOk(w, x)'  BY <1>1 DEF RoleOk, Ebs
  <2> QED  BY <1>0, <1>1, <1>5, <2>3, <2>4 DEF Validating
<1> QED  BY <1>4, <1>5 DEF ReceiveRequest

\* A participant replies to what it derives itself.
LEMMA ReplyInv ==
  ASSUME BatchInv, NEW v \in Members, Reply(v)
  PROVE  BatchInv'
<1>0. Validating  BY DEF BatchInv
<1>1. /\ role[v].state = "validating" /\ Accepts(v, role[v].block, role[v].request)
      /\ replies' = replies \cup {[from |-> v, batch |-> role[v].request]} /\ Become(v, Idle)
      /\ UNCHANGED <<eth, mbs, fin, pending, requests, submitted>>
  BY DEF Reply
<1>2. PICK req \in requests : req = role[v].request
  <2>1. RoleOk(v, role[v])  BY <1>0 DEF Validating
  <2> QED  BY <1>1, <2>1 DEF RoleOk
<1>3. PICK b : b = role[v].block  OBVIOUS
<1>4. Backed(req)
  <2>1. /\ req.head # 0 => eth[b].mb < req.head
        /\ req = Batch(v, b, req.head,
                       IF req.head = 0 THEN <<>> ELSE Transitions(eth[b].mb, req.head), req.codes)
    BY <1>1, <1>2, <1>3 DEF Accepts
  <2>2. PICK t : t = IF req.head = 0 THEN <<>> ELSE Transitions(eth[b].mb, req.head)  OBVIOUS
  <2>3. PICK h : h = req.head  OBVIOUS
  <2>4. PICK c : c = req.codes  OBVIOUS
  <2>5. req = [block |-> b, expiry |-> Delay[v], head |-> h, trans |-> t, codes |-> c]
    BY <2>1, <2>2, <2>3, <2>4 DEF Batch
  <2>6. req.block = b /\ req.trans = t  BY <2>5
  <2> QED  BY <2>1, <2>2, <2>6 DEF Backed
<1>5. RoleOk(v, Idle)'  BY IdleOk
<1>6. Validating'  BY <1>1, <1>5, KeepsPending, RoleStep
<1>7. \A rep \in replies' : rep \in replies \/ (rep.batch \in requests /\ Backed(rep.batch))
  <2>1. [from |-> v, batch |-> req].batch = req  OBVIOUS
  <2> QED  BY <1>1, <1>2, <1>4, <2>1
<1> QED  BY <1>1, <1>6, <1>7, SameBlocks

\* A participant does not reply.
LEMMA RejectInv ==
  ASSUME BatchInv, NEW v \in Members, Reject(v)
  PROVE  BatchInv'
<1>1. UNCHANGED <<eth, mbs, fin, pending, requests, replies, submitted>> /\ Become(v, Idle)
  BY DEF Reject
<1>2. RoleOk(v, Idle)'  BY IdleOk
<1>3. Validating'  BY <1>1, <1>2, KeepsPending, RoleStep
<1> QED  BY <1>1, <1>3, SameBlocks

\* A reply: with more than the coordinator's own signature, a participant stands behind
\* the batch.
LEMMA ReceiveReplyInv ==
  ASSUME BatchInv, NEW v \in Members, NEW rep \in replies, ReceiveReply(v, rep)
  PROVE  BatchInv'
<1>0. Validating /\ Sent  BY DEF BatchInv
<1>1. PICK q : q = role[v].batch  OBVIOUS
<1>2. PICK g : g = role[v].sigs \cup (IF rep.batch = q THEN {rep.from} ELSE {})  OBVIOUS
<1>3. /\ role[v].state = "coordinator"
      /\ \/ Cardinality(g) >= Threshold /\ Submit(v, q, g)
         \/ Become(v, [role[v] EXCEPT !.sigs = g]) /\ UNCHANGED submitted
      /\ UNCHANGED <<eth, mbs, fin, pending, requests, replies>>
  BY <1>1, <1>2 DEF ReceiveReply
<1>4. /\ role[v] = [state |-> "coordinator", batch |-> q, sigs |-> role[v].sigs] /\ q \in requests
      /\ role[v].sigs # {v} => \E x \in replies : x.batch = q
  <2>1. RoleOk(v, role[v])  BY <1>0 DEF Validating
  <2> QED  BY <1>1, <1>3, <2>1 DEF RoleOk
<1>5. g # {v} => \E x \in replies : x.batch = q
  <2>1. CASE rep.batch = q  BY <2>1
  <2>2. CASE rep.batch # q
    <3>1. g = role[v].sigs  BY <1>2, <2>2
    <3> QED  BY <1>4, <3>1
  <2> QED  BY <2>1, <2>2
<1>6. CASE Cardinality(g) >= Threshold /\ Submit(v, q, g)
  <2>1. submitted' = submitted \cup {[batch |-> q, sigs |-> g]} /\ Become(v, Idle)
    BY <1>6 DEF Submit
  <2>2. RoleOk(v, Idle)'  BY IdleOk
  <2>3. Validating'  BY <1>3, <2>1, <2>2, KeepsPending, RoleStep
  <2>4. Built(q) /\ (Threshold >= 2 => Backed(q))
    <3>1. Built(q)  BY <1>0, <1>4 DEF Sent
    <3>2. ASSUME Threshold >= 2 PROVE Backed(q)
      <4>1. Cardinality({v}) = 1  BY FS_Singleton
      <4>2. Threshold \in Int
        <5>1. Threshold \in 1..Cardinality(Members)  BY BatchesAssumption
        <5> QED  BY ONLY SMTT(90), <5>1
      <4>3. ~(1 >= Threshold)  BY ONLY SMTT(90), <3>2, <4>2
      <4>4. g # {v}  BY <1>6, <4>1, <4>3
      <4> QED  BY <1>0, <1>5, <4>4 DEF Sent
    <3> QED  BY <3>1, <3>2
  <2>5. [batch |-> q, sigs |-> g].batch = q  OBVIOUS
  <2>6. \A s \in submitted' : s \in submitted \/ (Built(s.batch) /\ (Threshold >= 2 => Backed(s.batch)))
    BY <2>1, <2>4, <2>5
  <2> QED  BY <1>3, <2>3, <2>6, SameBlocks
<1>7. CASE Become(v, [role[v] EXCEPT !.sigs = g]) /\ UNCHANGED submitted
  <2> DEFINE r == [state |-> "coordinator", batch |-> q, sigs |-> g]
  <2>1. PICK s : s = role[v].sigs  OBVIOUS
  <2>2. [[state |-> "coordinator", batch |-> q, sigs |-> s] EXCEPT !.sigs = g] = r  OBVIOUS
  <2>3. Become(v, r)  BY <1>4, <1>7, <2>1, <2>2
  <2>4. RoleOk(v, r)'
    <3>1. r.state = "coordinator" /\ r.batch = q /\ r.sigs = g  OBVIOUS
    <3>2. r = [state |-> "coordinator", batch |-> r.batch, sigs |-> r.sigs]  OBVIOUS
    <3> HIDE DEF r
    <3> QED  BY <1>3, <1>4, <1>5, <3>1, <3>2 DEF RoleOk
  <2> HIDE DEF r
  <2>5. Validating'  BY <1>3, <2>3, <2>4, KeepsPending, RoleStep
  <2> QED  BY <1>3, <1>7, <2>5, SameBlocks
<1> QED  BY <1>3, <1>6, <1>7

-----------------------------------------------------------------------------
(* The theorems. *)

\* The first block, with the codes that wait, satisfies the invariant.
LEMMA InitInv == ASSUME Init PROVE BatchInv
<1>1. PICK cs \in SUBSET Codes : eth = [b \in {0} |-> [First EXCEPT !.queue = SetToSeq(cs)]]
  BY DEF Init
<1>2. PICK w \in Seq(Codes) : w = SetToSeq(cs)
  <2>1. IsFiniteSet(cs)  BY FS_Subset, BatchesAssumption
  <2>2. SetToSeq(cs) \in Seq(cs)  BY <2>1, SetToSeqType
  <2>3. PICK u \in Seq(cs) : u = SetToSeq(cs)  BY <2>2
  <2>4. u \in Seq(Codes)  BY ONLY SMTT(90), u \in Seq(cs), cs \in SUBSET Codes
  <2> QED  BY <2>3, <2>4
<1> DEFINE r == [First EXCEPT !.queue = w]
<1>3. eth = [b \in {0} |-> r]  BY <1>1, <1>2
<1>4. r \in Routers
  <2>1. <<>> \in Seq(Nat) /\ <<>> \in Seq(Codes) /\ 0 \in Nat  BY SMTT(90)
  <2>2. First \in Routers  BY <2>1, Zenon DEF First, Routers
  <2> QED  BY <2>2, Zenon DEF Routers
<1>5. r.height = 0 /\ r.last = NoBatch /\ r.mb = 0 /\ r.eb = 0 /\ r.carried = <<>>
  <2>1. r.height = 0 /\ r.last = NoBatch  BY ONLY SMTT(90) DEF First
  <2>2. r.mb = 0 /\ r.eb = 0 /\ r.carried = <<>>  BY ONLY SMTT(90) DEF First
  <2> QED  BY <2>1, <2>2
<1> HIDE DEF r
<1>6. /\ mbs = <<>> /\ fin = [v \in Members |-> 0] /\ role = [v \in Members |-> Idle]
      /\ pending = [v \in Members |-> <<>>] /\ requests = {} /\ replies = {} /\ submitted = {}
  BY DEF Init
<1>7. Ebs = {0} /\ eth[0] = r  BY <1>3 DEF Ebs
<1>8. mbs \in Seq(Mbs) /\ Len(mbs) = 0 /\ DOMAIN mbs = {}
  <2>1. mbs = <<>>  BY <1>6
  <2> QED  BY ONLY SMTT(90), <2>1
<1>9. World
  <2>1. 0..0 = {0} /\ 0 \in Nat /\ \A b \in 1..0 : FALSE  BY SMTT(90)
  <2>2. IsTree(eth, 0)  BY <1>7, <2>1 DEF IsTree, Ebs
  <2> QED  BY <1>4, <1>5, <1>7, <1>8, <2>1, <2>2 DEF World
<1>10. ChainTo[0] = {0}  BY <1>9, Chains
<1>11. Anchored
  <2>1. 0 \in 0..Len(mbs) /\ ~(0 > 0)  BY SMTT(90), <1>8
  <2> QED  BY <1>5, <1>7, <1>10, <2>1 DEF Anchored, AnchoredAt
<1>12. History  BY <1>5, <1>7, <1>10 DEF History, HistoryAt
<1>13. Sent  BY <1>6 DEF Sent
<1>14. Validating
  <2>1. 0 \in Nat /\ 0 <= Len(mbs) /\ <<>> \in Seq(requests)  BY SMTT(90), <1>8
  <2>2. \A v : RoleOk(v, Idle)  BY IdleOk
  <2> QED  BY <1>6, <2>1, <2>2 DEF Validating
<1>15. CommittedOnce
  <2>1. Transitions(0, 0) = <<>>
    <3>1. 0 \in Nat  BY SMTT(90)
    <3> QED  BY <3>1, NoTransitions DEF Transitions, TransitionsOf
  <2> QED  BY <1>5, <1>7, <2>1 DEF CommittedOnce
<1> QED  BY <1>9, <1>11, <1>12, <1>13, <1>14, <1>15 DEF BatchInv

\* Every step keeps the invariant.
LEMMA NextInv == ASSUME BatchInv, [Next]_vars PROVE BatchInv'
<1>1. ASSUME NEW p \in Ebs, NEW cs \in SUBSET Codes,
             MineBlock(p, {}, cs) \/ \E s \in submitted : MineBlock(p, {s}, cs)
      PROVE  BatchInv'
  BY <1>1, MineEmptyInv, MineBatchInv
<1>2. ASSUME NEW b \in Ebs, NEW full \in BOOLEAN, Decide(b, full) PROVE BatchInv'  BY <1>2, DecideInv
<1>3. ASSUME NEW v \in Members, Finalize(v) \/ Compute(v) \/ \E c \in Codes : ProcessCode(v, c)
      PROVE  BatchInv'
  BY <1>3, DatabaseInv
<1>4. ASSUME NEW v \in Members, Boot(v) PROVE BatchInv'  BY <1>4, BootInv
<1>5. ASSUME NEW v \in Members, BootFails(v) \/ ValidationFails(v) \/ Crash(v) PROVE BatchInv'
  <2>1. Fail(v) /\ UNCHANGED <<eth, mbs, fin, requests, replies, submitted>>
    BY <1>5 DEF BootFails, ValidationFails, Crash
  <2> QED  BY <2>1, FailInv
<1>6. ASSUME NEW v \in Members, Reply(v) \/ Reject(v) PROVE BatchInv'  BY <1>6, ReplyInv, RejectInv
<1>7. ASSUME NEW v \in Members, NEW b \in Ebs, NewHead(v, b) PROVE BatchInv'  BY <1>7, NewHeadInv
<1>8. ASSUME NEW v \in Members, NEW req \in requests, ReceiveRequest(v, req) PROVE BatchInv'
  BY <1>8, ReceiveRequestInv
<1>9. ASSUME NEW v \in Members, NEW rep \in replies, ReceiveReply(v, rep) PROVE BatchInv'
  BY <1>9, ReceiveReplyInv
<1>10. CASE UNCHANGED vars
  <2>1. UNCHANGED <<eth, mbs, fin, role, pending, requests, replies, submitted>>
    BY <1>10 DEF vars
  <2>2. Validating  BY DEF BatchInv
  <2>3. \A w, x : RoleOk(w, x) => RoleOk(w, x)'  BY <2>1 DEF RoleOk, Ebs
  <2>4. Validating'  BY <2>1, <2>2, <2>3 DEF Validating
  <2> QED  BY <2>1, <2>4, SameBlocks
<1> QED  BY <1>1, <1>2, <1>3, <1>4, <1>5, <1>6, <1>7, <1>8, <1>9, <1>10 DEF Next

\* The invariant holds in every state.
LEMMA BatchesKeepInv == Spec => []BatchInv
<1>1. Init => BatchInv  BY InitInv
<1>2. BatchInv /\ [Next]_vars => BatchInv'  BY NextInv
<1> QED  BY <1>1, <1>2, PTL DEF Spec

\* When two signatures or more are needed, what commitBatch accepted on a chain is what
\* the decided MBs up to the committed one have, in their order: nothing is skipped and
\* nothing applied twice, whatever the forks, losses, repetitions and crashes were.
THEOREM BatchesAreCommittedOnce ==
  ASSUME Threshold >= 2
  PROVE  Spec => []CommittedOnce
<1>1. BatchInv => CommittedOnce  BY DEF BatchInv
<1> QED  BY <1>1, BatchesKeepInv, PTL

\* The Ethereum block that a commitment names is the one its MB advanced to and is on the
\* chain of the Router that accepted it.
THEOREM AnchorsAreCanonical == Spec => []AnchorIsCanonical
<1>1. BatchInv => AnchorIsCanonical
  BY DEF BatchInv, Anchored, AnchoredAt, AnchorIsCanonical, IsPredecessorOrSelf
<1> QED  BY <1>1, BatchesKeepInv, PTL

\* _commitCodes does not revert a batch that follows the last one.
THEOREM CodesAreWaiting == Spec => []CodesNeverRevert
<1>1. ASSUME BatchInv PROVE CodesNeverRevert
  <2> SUFFICES ASSUME NEW s \in submitted, NEW p \in Ebs, s.batch.block \in ChainTo[p],
                      eth[p].last = eth[s.batch.block].last
               PROVE  Range(s.batch.codes) \subseteq Range(eth[p].queue)
    BY DEF CodesNeverRevert, BlockIsPredecessor, IsPredecessorOrSelf
  <2>1. Built(s.batch) /\ HistoryAt(p)  BY <1>1 DEF BatchInv, Sent, History
  <2>2. Range(eth[s.batch.block].queue) \subseteq Range(eth[p].queue)  BY <2>1 DEF HistoryAt
  <2> QED  BY <2>1, <2>2 DEF Built
<1> QED  BY <1>1, BatchesKeepInv, PTL

\* Whatever commitment_delay_limit each validator has: a participant at the coordinator's
\* block that has the head and the codes, and the limit the request was built with, derives
\* the coordinator's batch.
THEOREM ValidatorsAgree == Spec => []PeersAgree
<1>1. ASSUME BatchInv PROVE PeersAgree
  <2> SUFFICES ASSUME NEW v \in Members, role[v].state = "validating",
                      role[v].request.block = role[v].block,
                      role[v].request.expiry = Delay[v],
                      CodesAgree(v, role[v].block, role[v].request),
                      role[v].request.head # 0 => HeadIsReady(v, role[v].block, role[v].request),
                      role[v].request.trans # <<>> \/ role[v].request.head = 0
               PROVE  Accepts(v, role[v].block, role[v].request)
    BY DEF PeersAgree, HasSameData
  <2>1. PICK q \in requests : q = role[v].request
    <3>1. RoleOk(v, role[v])  BY <1>1 DEF BatchInv, Validating
    <3> QED  BY <3>1 DEF RoleOk
  <2>2. PICK b : b = role[v].block  OBVIOUS
  <2>3. Built(q)  BY <1>1 DEF BatchInv, Sent
  <2>4. q.block = b /\ q.expiry = Delay[v] /\ q \in BatchRecords  BY <2>1, <2>2, <2>3 DEF Built
  <2>5. PICK t : t = IF q.head = 0 THEN <<>> ELSE Transitions(eth[b].mb, q.head)  OBVIOUS
  <2>6. q.trans = t /\ (q.head # 0 => eth[b].mb < q.head)
    BY <2>1, <2>3, <2>4, <2>5 DEF Built
  <2>7. q = [block |-> b, expiry |-> Delay[v], head |-> q.head, trans |-> t, codes |-> q.codes]
    <3>1. q = [block |-> q.block, expiry |-> q.expiry, head |-> q.head, trans |-> q.trans,
               codes |-> q.codes]
      BY <2>4 DEF BatchRecords
    <3> QED  BY <2>4, <2>6, <3>1
  <2>8. BatchSize(q) <= BatchSizeLimit  BY <2>3 DEF Built
  <2>9. Accepts(v, b, q)  BY <2>1, <2>2, <2>5, <2>6, <2>7, <2>8 DEF Accepts, Batch
  <2> QED  BY <2>1, <2>2, <2>9
<1> QED  BY <1>1, BatchesKeepInv, PTL

=============================================================================
