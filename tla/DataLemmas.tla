------------------------------ MODULE DataLemmas ------------------------------
(***************************************************************************)
(* Lemmas on finite sets, recursion and sequences that several proofs need. *)
(***************************************************************************)
EXTENDS Integers, Sequences, FiniteSets, SequenceTheorems, FiniteSetTheorems, TLAPS

\* A set of numbers that has members and a bound has a greatest one: of the
\* sets of members above a member there is a smallest, and it is empty.
LEMMA BoundedHasGreatest ==
  ASSUME NEW n \in Nat, NEW S \in SUBSET (1 .. n), S # {}
  PROVE  \E x \in S : \A y \in S : x >= y
<1> DEFINE Above(x) == S \cap (x + 1 .. n)
           T == {Above(x) : x \in S}
<1>1. IsFiniteSet(1 .. n)
  BY FS_Interval
<1>2. T \subseteq FiniteSubsetsOf(1 .. n) /\ T # {}
  <2>1. \A x \in S : Above(x) \in FiniteSubsetsOf(1 .. n)
    <3>1. \A x \in S : Above(x) \in SUBSET (1 .. n)
      OBVIOUS
    <3> HIDE DEF Above
    <3> QED
      BY <1>1, <3>1, FS_FiniteSubsetsOfFinite
  <2> HIDE DEF Above
  <2> QED
    BY <2>1
<1>3. PICK A \in T : \A B \in T : ~(<<B, A>> \in StrictSubsetOrdering(1 .. n))
  <2>1. IsWellFoundedOn(StrictSubsetOrdering(1 .. n), FiniteSubsetsOf(1 .. n))
    BY FS_StrictSubsetOrderingWellFounded
  <2> HIDE DEF T
  <2> QED
    BY <1>2, <2>1, WFMin, Zenon
<1>4. PICK x \in S : A = Above(x)
  OBVIOUS
<1>5. \A y \in S : x >= y
  <2> SUFFICES ASSUME NEW y \in S, y > x PROVE FALSE
    OBVIOUS
  <2>1. Above(y) \subseteq Above(x) /\ y \in Above(x) /\ y \notin Above(y)
    OBVIOUS
  <2>2. Above(y) \in SUBSET (1 .. n) /\ Above(x) \in SUBSET (1 .. n) /\ Above(y) \in T
    OBVIOUS
  <2>3. Above(y) # Above(x)
    BY <2>1
  <2>4. <<Above(y), A>> \in StrictSubsetOrdering(1 .. n)
    <3> HIDE DEF Above, T
    <3> QED
      BY <1>4, <2>1, <2>2, <2>3 DEF StrictSubsetOrdering
  <2> QED
    BY <1>3, <2>2, <2>4
<1> QED
  BY <1>5

\* A set of natural numbers that has members has a least one.
LEMMA HasLeast ==
  ASSUME NEW S \in SUBSET Nat, S # {}
  PROVE  \E x \in S : \A y \in S : x <= y
<1>1. PICK n \in S : TRUE
  OBVIOUS
<1> DEFINE T == {k \in 1 .. n + 1 : n + 1 - k \in S}
<1>2. n + 1 \in Nat /\ T \in SUBSET (1 .. n + 1) /\ 1 \in T
  BY <1>1
<1>3. PICK k \in T : \A j \in T : k >= j
  <2> HIDE DEF T
  <2> QED
    BY <1>2, BoundedHasGreatest
<1>4. n + 1 - k \in S /\ k \in 1 .. n + 1
  BY <1>3
<1>5. ASSUME NEW y \in S PROVE n + 1 - k <= y
  <2>1. CASE y > n
    BY <1>2, <1>4, <2>1
  <2>2. CASE y <= n
    <3>1. y \in Nat /\ n + 1 - y \in 1 .. n + 1 /\ n + 1 - (n + 1 - y) = y
      BY <1>2, <2>2
    <3>2. n + 1 - y \in T
      BY <3>1, <1>5
    <3> QED
      BY <1>2, <1>3, <1>4, <3>1, <3>2
  <2> QED
    BY <1>2, <2>1, <2>2
<1> QED
  BY <1>4, <1>5

\* g is 0 on B, and elsewhere adds w[s] to its value at next[s].
Follows(g, D, B, w, next) ==
  g = [s \in D |-> IF s \in B THEN 0 ELSE w[s] + g[next[s]]]

\* The argument of a recursion gets smaller.
Shrinks(D, B, next, size) == \A s \in D \ B : size[next[s]] < size[s]

\* A recursion whose argument gets smaller defines one function.
LEMMA RecursionDefines ==
  ASSUME NEW D, NEW B, NEW w \in [D -> Nat], NEW next \in [D -> D], NEW size \in [D -> Nat],
         Shrinks(D, B, next, size)
  PROVE  \E g \in [D -> Nat] : \A h : Follows(h, D, B, w, next) <=> h = g
<1> USE DEF Shrinks
<1> DEFINE Good(g, k) == \A s \in D : size[s] < k => g[s] = IF s \in B THEN 0 ELSE w[s] + g[next[s]]
           Bad == {k \in Nat : ~\E g \in [D -> Nat] : Good(g, k)}
<1>1. Bad = {}
  <2> SUFFICES ASSUME Bad # {} PROVE FALSE
    OBVIOUS
  <2>1. PICK k \in Bad : \A j \in Bad : k <= j
    <3>1. Bad \in SUBSET Nat
      OBVIOUS
    <3> HIDE DEF Bad
    <3> QED
      BY <3>1, HasLeast
  <2>2. k \in Nat /\ k # 0
    <3>1. [s \in D |-> 0] \in [D -> Nat] /\ Good([s \in D |-> 0], 0)
      OBVIOUS
    <3> QED
      BY <2>1, <3>1
  <2>3. k - 1 \in Nat /\ k - 1 \notin Bad
    BY <2>1, <2>2
  <2>4. PICK g \in [D -> Nat] : Good(g, k - 1)
    BY <2>3
  <2> DEFINE h == [s \in D |-> IF s \in B THEN 0 ELSE w[s] + g[next[s]]]
  <2>5. h \in [D -> Nat]
    OBVIOUS
  <2>6. ASSUME NEW s \in D, size[s] < k, s \notin B PROVE h[s] = w[s] + h[next[s]]
    <3>1. next[s] \in D /\ size[next[s]] < k - 1
      BY <2>2, <2>6
    <3>2. g[next[s]] = h[next[s]]
      BY <2>4, <3>1
    <3> QED
      BY <2>6, <3>2
  <2>7. Good(h, k)
    BY <2>6
  <2> QED
    <3> HIDE DEF h, Good
    <3> QED
      BY <2>1, <2>5, <2>7
<1>2. \A k \in Nat : \E g \in [D -> Nat] : Good(g, k)
  BY <1>1
<1> DEFINE G(k) == CHOOSE g \in [D -> Nat] : Good(g, k)
<1>3. \A k \in Nat : G(k) \in [D -> Nat] /\ Good(G(k), k)
  <2> HIDE DEF Good
  <2> QED
    BY <1>2, Zenon
<1>4. ASSUME NEW f, NEW g, NEW k \in Nat, Good(f, k), Good(g, k),
             NEW s \in D, size[s] < k
      PROVE  f[s] = g[s]
  <2> DEFINE Differ == {size[t] : t \in {u \in D : size[u] < k /\ f[u] # g[u]}}
  <2> SUFFICES ASSUME Differ # {} PROVE FALSE
    BY <1>4
  <2>1. PICK m \in Differ : \A n \in Differ : m <= n
    <3>1. Differ \in SUBSET Nat
      OBVIOUS
    <3> HIDE DEF Differ
    <3> QED
      BY <3>1, HasLeast
  <2>2. PICK t \in D : size[t] = m /\ size[t] < k /\ f[t] # g[t]
    BY <2>1
  <2>3. t \notin B /\ f[next[t]] # g[next[t]]
    BY <1>4, <2>2
  <2>4. next[t] \in D /\ size[next[t]] < size[t] /\ size[next[t]] \in Nat /\ size[t] \in Nat
    BY <2>3
  <2>5. size[next[t]] < k
    BY <2>2, <2>4
  <2>6. size[next[t]] \in Differ
    BY <2>3, <2>4, <2>5
  <2>7. m <= size[next[t]]
    <3> HIDE DEF Differ
    <3> QED
      BY <2>1, <2>6
  <2> QED
    BY <2>2, <2>4, <2>7
<1> DEFINE f == [s \in D |-> G(size[s] + 1)[s]]
<1>5. f \in [D -> Nat]
  <2> HIDE DEF G
  <2> QED
    BY <1>3
<1>6. ASSUME NEW s \in D PROVE f[s] = IF s \in B THEN 0 ELSE w[s] + f[next[s]]
  <2>1. size[s] + 1 \in Nat /\ size[s] < size[s] + 1
    OBVIOUS
  <2>2. G(size[s] + 1)[s] = IF s \in B THEN 0 ELSE w[s] + G(size[s] + 1)[next[s]]
    <3> HIDE DEF G
    <3> QED
      BY <1>3, <2>1
  <2>3. CASE s \in B
    <3> HIDE DEF G
    <3> QED
      BY <2>2, <2>3
  <2>4. CASE s \notin B
    <3>1. next[s] \in D /\ size[next[s]] \in Nat /\ size[next[s]] < size[s]
      BY <2>4
    <3>2. G(size[next[s]] + 1)[next[s]] = G(size[s] + 1)[next[s]]
      <4>1. Good(G(size[s] + 1), size[next[s]] + 1)
        <5>1. \A g : Good(g, size[s] + 1) => Good(g, size[next[s]] + 1)
          BY <3>1
        <5> HIDE DEF Good, G
        <5> QED
          BY <1>3, <2>1, <5>1
      <4>2. size[next[s]] + 1 \in Nat /\ size[next[s]] < size[next[s]] + 1
        BY <3>1
      <4> DEFINE k == size[next[s]] + 1
      <4>3. /\ G(k) \in [D -> Nat] /\ G(size[s] + 1) \in [D -> Nat] /\ k \in Nat
            /\ Good(G(k), k) /\ Good(G(size[s] + 1), k) /\ next[s] \in D /\ size[next[s]] < k
        <5> HIDE DEF Good, G
        <5> QED
          BY <1>3, <2>1, <3>1, <4>1, <4>2
      <4> HIDE DEF Good, G, k
      <4>4. G(k)[next[s]] = G(size[s] + 1)[next[s]]
        BY <1>4, <4>3
      <4> QED
        BY <4>4 DEF k
    <3> HIDE DEF G
    <3> QED
      BY <2>2, <2>4, <3>1, <3>2
  <2> QED
    BY <2>3, <2>4
<1>7. ASSUME NEW h, h = [s \in D |-> IF s \in B THEN 0 ELSE w[s] + h[next[s]]] PROVE h = f
  <2>1. \A k : Good(h, k) /\ Good(f, k)
    <3> HIDE DEF f
    <3> QED
      BY <1>6, <1>7
  <2>2. ASSUME NEW s \in D PROVE h[s] = f[s]
    <3>1. size[s] + 1 \in Nat /\ size[s] < size[s] + 1
      OBVIOUS
    <3> HIDE DEF f, Good
    <3> QED
      BY <1>4, <2>1, <3>1
  <2>3. f = [s \in D |-> f[s]]
    OBVIOUS
  <2> HIDE DEF f
  <2> QED
    BY <1>7, <2>2, <2>3
<1>8. f = [s \in D |-> IF s \in B THEN 0 ELSE w[s] + f[next[s]]]
  <2> DEFINE e == [s \in D |-> IF s \in B THEN 0 ELSE w[s] + f[next[s]]]
  <2>1. e = [s \in D |-> e[s]] /\ f = [s \in D |-> f[s]] /\ \A s \in D : e[s] = f[s]
    <3> HIDE DEF f
    <3> QED
      BY <1>5, <1>6
  <2> HIDE DEF e, f
  <2>2. e = f
    BY <2>1
  <2> QED
    BY <2>2 DEF e
<1> QED
  <2> HIDE DEF f
  <2>1. Follows(f, D, B, w, next)
    BY <1>8, Zenon DEF Follows
  <2>2. \A h : Follows(h, D, B, w, next) => h = f
    BY <1>7, Zenon DEF Follows
  <2> QED
    BY <1>5, <2>1, <2>2, Zenon

\* Among sets of members of a finite set there is one that none of them is within.
LEMMA HasSmallest ==
  ASSUME NEW N, IsFiniteSet(N), NEW T \in SUBSET SUBSET N, T # {}
  PROVE  \E s \in T : \A t \in T : t \subseteq s => t = s
<1>1. IsWellFoundedOn(StrictSubsetOrdering(N), FiniteSubsetsOf(N))
  BY FS_StrictSubsetOrderingWellFounded
<1>2. T \subseteq FiniteSubsetsOf(N)
  BY FS_FiniteSubsetsOfFinite
<1>3. PICK s \in T : \A t \in T : ~(<<t, s>> \in StrictSubsetOrdering(N))
  BY <1>1, <1>2, WFMin, Zenon
<1> QED
  BY <1>3 DEF StrictSubsetOrdering

\* A function on 1 .. n is a sequence of length n.
LEMMA FunctionIsSeq ==
  ASSUME NEW S, NEW n \in Nat, NEW f \in [1 .. n -> S]
  PROVE  f \in Seq(S) /\ Len(f) = n
<1>1. f \in Seq(S)
  BY SeqDef
<1>2. 1 .. n = 1 .. Len(f) /\ Len(f) \in Nat
  BY <1>1, LenProperties
<1> QED
  BY <1>1, <1>2

\* The values of a function on a finite set are finitely many, and no more than the
\* members of the set.
LEMMA ValuesOfFinite ==
  ASSUME NEW S, IsFiniteSet(S), NEW T, NEW f \in [S -> T], \A y \in T : \E x \in S : f[x] = y
  PROVE  IsFiniteSet(T) /\ Cardinality(T) <= Cardinality(S)
<1>1. f \in Surjection(S, T)
  BY DEF Surjection
<1> QED
  BY <1>1, FS_Surjection

=============================================================================
