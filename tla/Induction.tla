------------------------------ MODULE Induction ------------------------------
(***************************************************************************)
(* Induction over the data of the modules: that a recursive function is    *)
(* defined, and what FlattenSeq returns.  Each proof by induction takes    *)
(* the least counterexample, which LeastNat provides.                      *)
(***************************************************************************)
EXTENDS Integers, Sequences, SequencesExt, FiniteSetTheorems, SequenceTheorems, TLAPS

\* A set of natural numbers that is not empty has a least element, since the
\* intervals up to its elements are finite sets ordered by inclusion.
LEMMA LeastNat ==
  ASSUME NEW T, T \subseteq Nat, T # {}
  PROVE  \E x \in T : \A y \in T : x <= y
<1> DEFINE U == {1 .. x : x \in T}
<1>1. IsWellFoundedOn(StrictSubsetOrdering(Nat), FiniteSubsetsOf(Nat))
  BY FS_StrictSubsetOrderingWellFounded
<1>2. U \subseteq FiniteSubsetsOf(Nat)
  <2> SUFFICES ASSUME NEW x \in T PROVE 1 .. x \in FiniteSubsetsOf(Nat)
    OBVIOUS
  <2>1. IsFiniteSet(1 .. x)
    BY FS_Interval
  <2>2. 1 .. x \subseteq Nat
    OBVIOUS
  <2> QED BY <2>1, <2>2 DEF FiniteSubsetsOf
<1>3. U # {}
  OBVIOUS
<1>4. PICK u \in U : \A v \in U : ~(<<v, u>> \in StrictSubsetOrdering(Nat))
  <2> HIDE DEF U
  <2> QED BY <1>1, <1>2, <1>3, WFMin
<1>5. PICK x \in T : u = 1 .. x
  OBVIOUS
<1>6. ASSUME NEW y \in T PROVE x <= y
  <2>1. ~(<<1 .. y, 1 .. x>> \in StrictSubsetOrdering(Nat))
    BY <1>4, <1>5
  <2>2. 1 .. y \in SUBSET Nat /\ 1 .. x \in SUBSET Nat
    OBVIOUS
  <2>3. ~(1 .. y \subseteq 1 .. x /\ 1 .. y # 1 .. x)
    BY <2>1, <2>2 DEF StrictSubsetOrdering
  <2> SUFFICES ASSUME y < x PROVE FALSE
    OBVIOUS
  <2>4. 1 .. y \subseteq 1 .. x
    OBVIOUS
  <2>5. x \in 1 .. x /\ x \notin 1 .. y
    OBVIOUS
  <2> QED BY <2>3, <2>4, <2>5
<1> QED BY <1>6

-----------------------------------------------------------------------------
(* Recursive functions on 0 .. n *)

\* f is defined at 0, and at any g from its value at an earlier prev[g].
Recursion(f, n, b, prev, next) ==
  f[0] = b /\ \A g \in 1 .. n : f[g] = next[<<g, f[prev[g]]>>]

\* There is such a function, with values in the set that next keeps to.
LEMMA RecursionExists ==
  ASSUME NEW n \in Nat, NEW S, NEW b \in S, NEW prev \in [1 .. n -> Nat],
         \A g \in 1 .. n : prev[g] < g, NEW next \in [(1 .. n) \X S -> S]
  PROVE  \E f \in [0 .. n -> S] : Recursion(f, n, b, prev, next)
<1> DEFINE Partial(m) == \E f \in [0 .. m -> S] : Recursion(f, m, b, prev, next)
<1> DEFINE T == {m \in 0 .. n : ~Partial(m)}
<1> SUFFICES ASSUME T # {} PROVE FALSE
  OBVIOUS
<1>1. PICK m \in T : \A k \in T : m <= k
  <2> T \subseteq Nat OBVIOUS
  <2> HIDE DEF T
  <2> QED BY LeastNat
<1>2. m # 0
  <2>1. [i \in 0 .. 0 |-> b] \in [0 .. 0 -> S] /\ Recursion([i \in 0 .. 0 |-> b], 0, b, prev, next)
    BY DEF Recursion
  <2> QED BY <2>1
<1>3. PICK f \in [0 .. m - 1 -> S] : Recursion(f, m - 1, b, prev, next)
  <2>1. m - 1 \in 0 .. n /\ m - 1 \notin T
    BY <1>1, <1>2
  <2> QED BY <2>1
<1> DEFINE h == [i \in 0 .. m |-> IF i = m THEN next[<<m, f[prev[m]]>>] ELSE f[i]]
<1>4. h \in [0 .. m -> S]
  <2>1. prev[m] \in 0 .. m - 1
    BY <1>2
  <2>2. next[<<m, f[prev[m]]>>] \in S
    BY <2>1
  <2> QED BY <2>2
<1>5. Recursion(h, m, b, prev, next)
  <2>1. h[0] = b
    BY <1>2, <1>3 DEF Recursion
  <2>2. ASSUME NEW g \in 1 .. m PROVE h[g] = next[<<g, h[prev[g]]>>]
    <3>1. prev[g] \in 0 .. m - 1 /\ h[prev[g]] = f[prev[g]]
      OBVIOUS
    <3>2. CASE g = m
      <4>1. h[m] = next[<<m, f[prev[m]]>>]
        OBVIOUS
      <4> QED BY <3>1, <3>2, <4>1
    <3>3. CASE g # m
      BY <3>1, <3>3, <1>3 DEF Recursion
    <3> QED BY <3>2, <3>3
  <2> QED BY <2>1, <2>2 DEF Recursion
<1> QED BY <1>4, <1>5

\* There is one only.
LEMMA RecursionUnique ==
  ASSUME NEW n \in Nat, NEW b, NEW prev \in [1 .. n -> Nat],
         \A g \in 1 .. n : prev[g] < g, NEW next,
         NEW f, NEW h, Recursion(f, n, b, prev, next), Recursion(h, n, b, prev, next)
  PROVE  \A i \in 0 .. n : f[i] = h[i]
<1> DEFINE T == {i \in 0 .. n : f[i] # h[i]}
<1> SUFFICES ASSUME T # {} PROVE FALSE
  OBVIOUS
<1>1. PICK i \in T : \A k \in T : i <= k
  <2> T \subseteq Nat OBVIOUS
  <2> HIDE DEF T
  <2> QED BY LeastNat
<1>2. i # 0
  BY DEF Recursion
<1>3. prev[i] \in 0 .. n /\ prev[i] \notin T
  BY <1>1, <1>2
<1>4. i \in 1 .. n /\ f[i] # h[i]
  BY <1>2
<1>5. f[prev[i]] = h[prev[i]]
  BY <1>3
<1>6. f[i] = next[<<i, f[prev[i]]>>] /\ h[i] = next[<<i, h[prev[i]]>>]
  BY <1>4 DEF Recursion
<1> QED BY <1>4, <1>5, <1>6

-----------------------------------------------------------------------------
(* FlattenSeq *)

\* f holds what the first entries of q flatten to.
Flattens(f, q) == f[0] = <<>> /\ \A i \in 1 .. Len(q) : f[i] = f[i - 1] \o q[i]

LEMMA FlattensExists ==
  ASSUME NEW S, NEW q \in Seq(Seq(S))
  PROVE  \E f \in [0 .. Len(q) -> Seq(S)] : Flattens(f, q)
<1> DEFINE n == Len(q)
           prev == [g \in 1 .. n |-> g - 1]
           next == [x \in (1 .. n) \X Seq(S) |-> x[2] \o q[x[1]]]
<1>1. n \in Nat /\ <<>> \in Seq(S) /\ prev \in [1 .. n -> Nat] /\ \A g \in 1 .. n : prev[g] < g
  OBVIOUS
<1>2. next \in [(1 .. n) \X Seq(S) -> Seq(S)]
  <2> SUFFICES ASSUME NEW g \in 1 .. n, NEW s \in Seq(S) PROVE s \o q[g] \in Seq(S)
    OBVIOUS
  <2>1. q[g] \in Seq(S)
    BY ElementOfSeq
  <2> QED BY <2>1, ConcatProperties
<1>3. PICK f \in [0 .. n -> Seq(S)] : Recursion(f, n, <<>>, prev, next)
  <2> HIDE DEF n, prev, next
  <2> QED BY <1>1, <1>2, RecursionExists
<1>4. ASSUME NEW i \in 1 .. n PROVE f[i] = f[i - 1] \o q[i]
  <2>1. f[i] = next[<<i, f[prev[i]]>>]
    BY <1>3 DEF Recursion
  <2>2. prev[i] = i - 1 /\ f[i - 1] \in Seq(S)
    OBVIOUS
  <2> QED BY <2>1, <2>2
<1> QED BY <1>3, <1>4 DEF Recursion, Flattens

\* The last of them is what FlattenSeq returns.
LEMMA FlattenSeqIs ==
  ASSUME NEW S, NEW q \in Seq(Seq(S)), NEW f \in [0 .. Len(q) -> Seq(S)], Flattens(f, q)
  PROVE  FlattenSeq(q) = f[Len(q)]
<1> DEFINE n == Len(q)
           Body(c) == [i \in 1 .. n |-> IF i = 1 THEN q[i] ELSE c[i - 1] \o q[i]]
           c == CHOOSE c : c = Body(c)
<1>0. n \in Nat
  OBVIOUS
<1>1. f[0] = <<>> /\ \A i \in 1 .. n : f[i] = f[i - 1] \o q[i]
  BY DEF Flattens
<1>2. n # 0 => f[1] = q[1]
  <2> SUFFICES ASSUME n # 0 PROVE f[1] = q[1]
    OBVIOUS
  <2>1. q[1] \in Seq(S)
    BY <1>0, ElementOfSeq
  <2>2. 1 \in 1 .. n /\ 1 - 1 = 0
    BY <1>0
  <2>3. f[1] = f[1 - 1] \o q[1]
    BY <1>1, <2>2
  <2>4. f[1] = <<>> \o q[1]
    BY <1>1, <2>2, <2>3
  <2> QED BY <2>1, <2>4, ConcatEmptySeq
<1>3. CASE n = 0
  BY <1>1, <1>3 DEF FlattenSeq
<1>4. CASE n # 0
  <2>1. FlattenSeq(q) = c[n]
    BY <1>4 DEF FlattenSeq
  <2> HIDE DEF n
  <2>2. \E h : h = Body(h)
    <3> DEFINE h == [i \in 1 .. n |-> f[i]]
    <3>1. ASSUME NEW i \in 1 .. n PROVE h[i] = Body(h)[i]
      <4>1. CASE i = 1
        BY <1>2, <4>1
      <4>2. CASE i # 1
        <5>1. i - 1 \in 1 .. n
          BY <1>0, <4>2
        <5>2. h[i - 1] = f[i - 1]
          BY <5>1
        <5>3. f[i] = f[i - 1] \o q[i]
          BY <1>1
        <5> QED BY <4>2, <5>2, <5>3
      <4> QED BY <4>1, <4>2
    <3>2. h = Body(h)
      BY <3>1
    <3> QED BY <3>2
  <2>3. c = Body(c)
    <3> HIDE DEF Body
    <3> QED BY <2>2
  <2> HIDE DEF c
  <2> DEFINE T == {i \in 1 .. n : c[i] # f[i]}
  <2>4. T = {}
    <3> SUFFICES ASSUME T # {} PROVE FALSE
      OBVIOUS
    <3>1. PICK i \in T : \A k \in T : i <= k
      <4> T \subseteq Nat OBVIOUS
      <4> HIDE DEF T
      <4> QED BY LeastNat
    <3>2. i \in 1 .. n /\ c[i] # f[i] /\ f[i] = f[i - 1] \o q[i]
      BY <1>1
    <3>3. c[i] = IF i = 1 THEN q[i] ELSE c[i - 1] \o q[i]
      BY <2>3, <3>2
    <3>4. CASE i = 1
      BY <1>0, <1>2, <1>4, <3>2, <3>3, <3>4
    <3>5. CASE i # 1
      <4>1. i - 1 \in 1 .. n /\ ~(i <= i - 1)
        BY <1>0, <3>2, <3>5
      <4>2. i - 1 \notin T
        BY <3>1, <4>1
      <4>3. c[i - 1] = f[i - 1]
        BY <4>1, <4>2
      <4> QED BY <3>2, <3>3, <3>5, <4>3
    <3> QED BY <3>4, <3>5
  <2>5. n \in 1 .. n
    BY <1>0, <1>4
  <2> QED BY <2>1, <2>4, <2>5 DEF n
<1> QED BY <1>3, <1>4

LEMMA FlattenSeqType ==
  ASSUME NEW S, NEW q \in Seq(Seq(S))
  PROVE  FlattenSeq(q) \in Seq(S)
<1>1. PICK f \in [0 .. Len(q) -> Seq(S)] : Flattens(f, q)
  BY FlattensExists
<1>2. Len(q) \in 0 .. Len(q)
  OBVIOUS
<1> QED BY <1>1, <1>2, FlattenSeqIs

LEMMA FlattenSeqEmpty == FlattenSeq(<<>>) = <<>>
BY DEF FlattenSeq

\* What is added at the end is added at the end of the flat sequence.
LEMMA FlattenSeqAppend ==
  ASSUME NEW S, NEW q \in Seq(Seq(S)), NEW e \in Seq(S)
  PROVE  FlattenSeq(Append(q, e)) = FlattenSeq(q) \o e
<1> DEFINE a == Append(q, e)
<1>1. a \in Seq(Seq(S)) /\ Len(a) = Len(q) + 1 /\ a[Len(q) + 1] = e
      /\ \A i \in 1 .. Len(q) : a[i] = q[i]
  BY AppendProperties
<1>2. PICK f \in [0 .. Len(a) -> Seq(S)] : Flattens(f, a)
  BY <1>1, FlattensExists
<1> DEFINE g == [i \in 0 .. Len(q) |-> f[i]]
<1> Len(q) \in Nat
  OBVIOUS
<1>3. g \in [0 .. Len(q) -> Seq(S)] /\ Flattens(g, q)
  <2>1. \A i \in 0 .. Len(q) : i \in 0 .. Len(a) /\ g[i] = f[i] /\ f[i] \in Seq(S)
    BY <1>1, <1>2
  <2>2. g[0] = <<>>
    BY <1>2, <2>1 DEF Flattens
  <2>3. ASSUME NEW i \in 1 .. Len(q) PROVE g[i] = g[i - 1] \o q[i]
    <3>1. i \in 1 .. Len(a) /\ i \in 0 .. Len(q) /\ i - 1 \in 0 .. Len(q) /\ a[i] = q[i]
      BY <1>1
    <3>2. f[i] = f[i - 1] \o a[i]
      BY <1>2, <3>1 DEF Flattens
    <3> QED BY <2>1, <3>1, <3>2
  <2> QED BY <2>1, <2>2, <2>3 DEF Flattens
<1>4. FlattenSeq(q) = f[Len(q)]
  <2>1. g[Len(q)] = f[Len(q)]
    OBVIOUS
  <2> HIDE DEF g
  <2> QED BY <1>3, <2>1, FlattenSeqIs
<1>5. FlattenSeq(a) = f[Len(q) + 1]
  BY <1>1, <1>2, FlattenSeqIs
<1>6. f[Len(q) + 1] = f[Len(q)] \o e
  <2>1. Len(q) + 1 \in 1 .. Len(a) /\ Len(q) + 1 - 1 = Len(q)
    BY <1>1
  <2>2. \A i \in 1 .. Len(a) : f[i] = f[i - 1] \o a[i]
    BY <1>2 DEF Flattens
  <2> DEFINE k == Len(q) + 1
  <2>3. k \in 1 .. Len(a) /\ k - 1 = Len(q) /\ a[k] = e
    BY <1>1, <2>1
  <2> HIDE DEF a, k
  <2>4. f[k] = f[Len(q)] \o e
    BY <2>2, <2>3
  <2> QED BY <2>4 DEF k
<1> QED BY <1>4, <1>5, <1>6
=============================================================================
