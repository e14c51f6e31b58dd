---------------------------- MODULE BundleProofs ----------------------------
(* Safety of Bundle, for any configurations, nested in any way, and however *)
(* often builds follow each other, fail or are killed.                     *)
EXTENDS Bundle, SequenceTheorems, WellFoundedInduction, TLAPS

-----------------------------------------------------------------------------
(* Induction, recursion and sequences.                                     *)

\* Every nonempty set of numbers has a least one.
LEMMA LeastNat ==
    ASSUME NEW T \in SUBSET Nat, T # {}
    PROVE  \E n \in T : \A m \in T : n <= m
<1>1. PICK x \in T : \A y \in T : ~(<<y, x>> \in OpToRel(<, Nat))
  BY NatLessThanWellFounded, WFMin
<1>2. \A y \in T : ~(y < x)
  BY <1>1 DEF OpToRel
<1> QED
  BY <1>2

\* The value at n, G[n][f], depends on those of f where the measure d, which
\* has a bound, is smaller.
Decreases(D, V, G, d) ==
    /\ V # {} /\ G \in [D -> [[D -> V] -> V]]
    /\ d \in [D -> Nat] /\ \E K \in Nat : \A n \in D : d[n] < K
    /\ \A n \in D : \A f, g \in [D -> V] :
          (\A m \in D : d[m] < d[n] => f[m] = g[m]) => G[n][f] = G[n][g]

\* Such a function can be defined by recursion.
LEMMA Recursion ==
    ASSUME NEW D, NEW V, NEW G, NEW d, Decreases(D, V, G, d)
    PROVE  \E f \in [D -> V] : \A n \in D : f[n] = G[n][f]
<1>0. PICK K \in Nat, v0 \in V : \A n \in D : d[n] < K
  BY DEF Decreases
<1> USE DEF Decreases
<1> DEFINE Defined(k, f) == \A n \in D : d[n] < k => f[n] = G[n][f]
           Without == {k \in Nat : ~ \E f \in [D -> V] : Defined(k, f)}
<1>1. Without = {}
  <2>1. SUFFICES ASSUME Without # {} PROVE FALSE
    OBVIOUS
  <2>2. PICK k \in Without : \A m \in Without : k <= m
    <3> HIDE DEF Without
    <3>1. Without \in SUBSET Nat
      BY DEF Without
    <3> QED
      BY <2>1, <3>1, LeastNat
  <2>3. k # 0
    <3>1. Defined(0, [n \in D |-> v0])
      OBVIOUS
    <3> QED
      BY <3>1
  <2>4. k \in Nat /\ k - 1 \in Nat /\ k - 1 \notin Without
    <3>1. k \in Nat
      OBVIOUS
    <3> HIDE DEF Without
    <3> QED
      BY <2>2, <2>3, <3>1
  <2>5. PICK f \in [D -> V] : Defined(k - 1, f)
    BY <2>4
  <2> DEFINE g == [n \in D |-> IF d[n] < k - 1 THEN f[n] ELSE G[n][f]]
  <2>6. g \in [D -> V]
    OBVIOUS
  <2>7. ASSUME NEW n \in D, d[n] < k PROVE g[n] = G[n][g]
    <3>1. g[n] = G[n][f]
      BY <2>5
    <3>2. \A m \in D : d[m] < d[n] => g[m] = f[m]
      BY <2>4, <2>7
    <3> HIDE DEF g
    <3> QED
      BY <2>6, <3>1, <3>2
  <2> QED
    BY <2>6, <2>7
<1>2. PICK f \in [D -> V] : Defined(K, f)
  BY <1>1
<1> QED
  BY <1>0, <1>2

\* FlattenSeq concatenates from the first to the last.
LEMMA FlattenSeqIs ==
    ASSUME NEW S, NEW q \in Seq(Seq(S)), q # <<>>
    PROVE  \E f \in [DOMAIN q -> Seq(S)] :
               /\ FlattenSeq(q) = f[Len(q)]
               /\ \A i \in DOMAIN q : f[i] = IF i = 1 THEN q[i] ELSE f[i - 1] \o q[i]
<1> DEFINE N == Len(q)
           D == 1..N
           V == Seq(S)
           G == [i \in D |-> [f \in [D -> V] |-> IF i = 1 THEN q[i] ELSE f[i - 1] \o q[i]]]
           d == [i \in D |-> i]
           Is(f) == f = [i \in D |-> IF i = 1 THEN q[i] ELSE f[i - 1] \o q[i]]
<1>1. N \in Nat \ {0} /\ q \in [D -> V] /\ DOMAIN q = D
  OBVIOUS
<1>2. G \in [D -> [[D -> V] -> V]]
  <2> HIDE DEF N
  <2>1. ASSUME NEW i \in D, NEW f \in [D -> V]
        PROVE  (IF i = 1 THEN q[i] ELSE f[i - 1] \o q[i]) \in V
    <3>1. CASE i = 1
      BY <1>1, <3>1
    <3>2. CASE i # 1
      <4>1. i - 1 \in D
        BY <1>1, <3>2
      <4>2. f[i - 1] \in V /\ q[i] \in V
        BY <1>1, <4>1
      <4> QED
        BY <3>2, <4>2
    <3> QED
      BY <3>1, <3>2
  <2> HIDE DEF V, D
  <2> QED
    BY <2>1
<1>3. PICK f \in [D -> V] : \A n \in D : f[n] = G[n][f]
  <2> HIDE DEF N
  <2>1. d \in [D -> Nat] /\ N + 1 \in Nat /\ \A n \in D : d[n] < N + 1
    BY <1>1
  <2>2. <<>> \in V
    OBVIOUS
  <2>3. \A n \in D : \A f, g \in [D -> V] :
            (\A m \in D : d[m] < d[n] => f[m] = g[m]) => G[n][f] = G[n][g]
    <3>1. \A n \in D : n # 1 => n - 1 \in D /\ d[n - 1] < d[n]
      BY <1>1
    <3> HIDE DEF D, V, d
    <3> QED
      BY <3>1
  <2> HIDE DEF D, V, d, G
  <2>4. Decreases(D, V, G, d)
    BY <1>2, <2>1, <2>2, <2>3 DEF Decreases
  <2> QED
    BY <2>4, Recursion
<1>4. \A i \in D : f[i] = IF i = 1 THEN q[i] ELSE f[i - 1] \o q[i]
  <2> HIDE DEF D, V
  <2> QED
    BY <1>3
<1>0. \A s \in V, t \in V : s \o t \in V
  OBVIOUS
<1> HIDE DEF N, D, V, G
<1>5. Is(f)
  BY <1>3, <1>4
<1> DEFINE F == CHOOSE g : Is(g)
<1>6. Is(F)
  <2> HIDE DEF Is
  <2> QED
    BY <1>5
<1>7. FlattenSeq(q) = F[N]
  BY <1>1 DEF FlattenSeq, N, D
<1>8. ASSUME NEW i \in D PROVE F[i] = IF i = 1 THEN q[i] ELSE F[i - 1] \o q[i]
  <2> HIDE DEF F
  <2> QED
    BY <1>6
<1> HIDE DEF F, Is
<1>9. F \in [D -> V]
  <2> DEFINE Bad == {i \in D : F[i] \notin V}
  <2>1. Bad = {}
    <3>1. SUFFICES ASSUME Bad # {} PROVE FALSE
      OBVIOUS
    <3>2. PICK n \in Bad : \A m \in Bad : n <= m
      <4>1. Bad \in SUBSET Nat
        BY <1>1 DEF D
      <4> HIDE DEF Bad
      <4> QED
        BY <3>1, <4>1, LeastNat
    <3>3. n \in D /\ q[n] \in V
      BY <1>1
    <3>4. n # 1 => n - 1 \in D
      BY <1>1, <3>3 DEF D
    <3>5. n # 1 => F[n - 1] \in V
      BY <3>2, <3>4, <1>1 DEF D
    <3>6. n = 1 => F[n] \in V
      BY <1>8, <3>3
    <3>7. n # 1 => F[n] \in V
      BY <1>0, <1>8, <3>3, <3>5
    <3>8. F[n] \notin V
      OBVIOUS
    <3> QED
      BY <3>6, <3>7, <3>8
  <2>2. F = [i \in D |-> F[i]]
    BY <1>6 DEF Is
  <2> QED
    BY <2>1, <2>2
<1> QED
  BY <1>1, <1>7, <1>8, <1>9 DEF N, D, V

\* The elements of a concatenation are those of its parts.
LEMMA ToSetConcat ==
    ASSUME NEW S, NEW q \in Seq(S), NEW r \in Seq(S)
    PROVE  ToSet(q \o r) = ToSet(q) \cup ToSet(r)
<1> DEFINE s == q \o r
<1>1. /\ DOMAIN q = 1..Len(q) /\ DOMAIN r = 1..Len(r) /\ DOMAIN s = 1..(Len(q) + Len(r))
      /\ Len(q) \in Nat /\ Len(r) \in Nat
      /\ \A k \in DOMAIN q : s[k] = q[k]
      /\ \A k \in DOMAIN r : s[k + Len(q)] = r[k]
  OBVIOUS
<1> HIDE DEF s
<1>2. ASSUME NEW k \in DOMAIN s PROVE s[k] \in ToSet(q) \cup ToSet(r)
  <2>1. CASE k \in DOMAIN q
    BY <1>1, <2>1 DEF ToSet
  <2>2. CASE k \notin DOMAIN q
    <3>1. PICK n \in DOMAIN r : k = n + Len(q)
      <4>1. k - Len(q) \in DOMAIN r /\ k = (k - Len(q)) + Len(q)
        BY <1>1, <2>2
      <4> QED
        BY <4>1
    <3> QED
      BY <1>1, <3>1 DEF ToSet
  <2> QED
    BY <2>1, <2>2
<1>3. ASSUME NEW k \in DOMAIN q PROVE q[k] \in ToSet(s)
  <2>1. k \in DOMAIN s /\ s[k] = q[k]
    BY <1>1
  <2> QED
    BY <2>1 DEF ToSet
<1>4. ASSUME NEW k \in DOMAIN r PROVE r[k] \in ToSet(s)
  <2>1. k + Len(q) \in DOMAIN s /\ s[k + Len(q)] = r[k]
    BY <1>1
  <2> QED
    BY <2>1 DEF ToSet
<1>5. \A x : /\ x \in ToSet(q) <=> \E k \in DOMAIN q : x = q[k]
             /\ x \in ToSet(r) <=> \E k \in DOMAIN r : x = r[k]
             /\ x \in ToSet(s) <=> \E k \in DOMAIN s : x = s[k]
  BY DEF ToSet
<1>6. ToSet(s) \subseteq ToSet(q) \cup ToSet(r)
  BY <1>2, <1>5
<1>7. ToSet(q) \cup ToSet(r) \subseteq ToSet(s)
  BY <1>3, <1>4, <1>5
<1> QED
  BY <1>6, <1>7 DEF s

\* The elements of a sequence are the first and those of the rest.
LEMMA ToSetTail ==
    ASSUME NEW S, NEW q \in Seq(S), q # <<>>
    PROVE  ToSet(q) = {Head(q)} \cup ToSet(Tail(q))
<1>1. /\ <<Head(q)>> \in Seq(S) /\ Tail(q) \in Seq(S) /\ q = <<Head(q)>> \o Tail(q)
  OBVIOUS
<1>2. ToSet(<<Head(q)>>) = {Head(q)}
  <2>1. DOMAIN <<Head(q)>> = {1} /\ <<Head(q)>>[1] = Head(q)
    OBVIOUS
  <2> QED
    BY <2>1 DEF ToSet
<1> DEFINE h == <<Head(q)>>
           t == Tail(q)
<1>3. h \in Seq(S) /\ t \in Seq(S) /\ q = h \o t /\ ToSet(h) = {Head(q)}
  BY <1>1, <1>2
<1> HIDE DEF h, t
<1>4. ToSet(h \o t) = ToSet(h) \cup ToSet(t)
  BY <1>3, ToSetConcat
<1> QED
  BY <1>3, <1>4 DEF t

\* x may come before y: no step is done twice, and what has been signed is not
\* changed after it.
Before(x, y) == x # y /\ (x.what = "bundle" => ~IsPrefix(x.key, y.key))
InsideOut(q) == \A i, j \in DOMAIN q : i < j => Before(q[i], q[j])

\* A concatenation is in order if its parts are, and one may follow the other.
LEMMA InsideOutConcat ==
    ASSUME NEW S, NEW q \in Seq(S), NEW r \in Seq(S), InsideOut(q), InsideOut(r),
           \A x \in ToSet(q), y \in ToSet(r) : Before(x, y)
    PROVE  InsideOut(q \o r)
<1> DEFINE s == q \o r
<1>1. /\ DOMAIN q = 1..Len(q) /\ DOMAIN r = 1..Len(r) /\ DOMAIN s = 1..(Len(q) + Len(r))
      /\ Len(q) \in Nat /\ Len(r) \in Nat
      /\ \A k \in DOMAIN q : s[k] = q[k]
      /\ \A k \in DOMAIN r : s[k + Len(q)] = r[k]
  OBVIOUS
<1> HIDE DEF s
<1>2. ASSUME NEW k \in DOMAIN s, k \notin DOMAIN q
      PROVE  k - Len(q) \in DOMAIN r /\ s[k] = r[k - Len(q)]
  <2>1. k - Len(q) \in DOMAIN r /\ (k - Len(q)) + Len(q) = k
    BY <1>1, <1>2
  <2> QED
    BY <1>1, <2>1
<1>3. ASSUME NEW i \in DOMAIN s, NEW j \in DOMAIN s, i < j PROVE Before(s[i], s[j])
  <2>1. CASE j \in DOMAIN q
    <3>1. i \in DOMAIN q
      BY <1>1, <1>3, <2>1
    <3> QED
      BY <1>1, <1>3, <2>1, <3>1 DEF InsideOut
  <2>2. CASE i \in DOMAIN q /\ j \notin DOMAIN q
    <3>1. s[i] \in ToSet(q) /\ s[j] \in ToSet(r)
      BY <1>1, <1>2, <2>2 DEF ToSet
    <3> QED
      BY <3>1
  <2>3. CASE i \notin DOMAIN q /\ j \notin DOMAIN q
    <3>1. i - Len(q) < j - Len(q)
      BY <1>1, <1>3
    <3> QED
      BY <1>2, <2>3, <3>1 DEF InsideOut
  <2>4. j \notin DOMAIN q => i \in DOMAIN q \/ i \notin DOMAIN q
    OBVIOUS
  <2> QED
    BY <2>1, <2>2, <2>3
<1> QED
  BY <1>3 DEF InsideOut, s

\* Among the steps of a concatenation are those of its parts, and it is in order
\* if they are, and whatever is in one may come before what is in a later one.
LEMMA FlattenSeqHas ==
    ASSUME NEW S, NEW q \in Seq(Seq(S))
    PROVE  /\ FlattenSeq(q) \in Seq(S)
           /\ \A x : x \in ToSet(FlattenSeq(q)) <=> \E i \in DOMAIN q : x \in ToSet(q[i])
           /\ (/\ \A i \in DOMAIN q : InsideOut(q[i])
               /\ \A i, j \in DOMAIN q : i < j =>
                      \A x \in ToSet(q[i]), y \in ToSet(q[j]) : Before(x, y))
              => InsideOut(FlattenSeq(q))
<1>1. CASE q = <<>>
  <2>1. FlattenSeq(q) = <<>>
    BY <1>1 DEF FlattenSeq
  <2>2. DOMAIN q = {} /\ <<>> \in Seq(S) /\ DOMAIN <<>> = {}
    BY <1>1
  <2> QED
    BY <2>1, <2>2 DEF ToSet, InsideOut
<1>2. CASE q # <<>>
  <2> DEFINE N == Len(q)
             V == Seq(S)
             Ordered == /\ \A i \in DOMAIN q : InsideOut(q[i])
                        /\ \A i, j \in DOMAIN q : i < j =>
                               \A x \in ToSet(q[i]), y \in ToSet(q[j]) : Before(x, y)
             Has(s, n) == \A x : x \in ToSet(s) <=> \E i \in 1..n : x \in ToSet(q[i])
  <2>1. /\ N \in Nat \ {0} /\ DOMAIN q = 1..N /\ \A i \in 1..N : q[i] \in V
    BY <1>2
  <2>2. PICK f \in [1..N -> V] :
            /\ FlattenSeq(q) = f[N]
            /\ \A i \in 1..N : f[i] = IF i = 1 THEN q[i] ELSE f[i - 1] \o q[i]
    <3>1. \E f \in [DOMAIN q -> V] :
              /\ FlattenSeq(q) = f[N]
              /\ \A i \in DOMAIN q : f[i] = IF i = 1 THEN q[i] ELSE f[i - 1] \o q[i]
      BY <1>2, FlattenSeqIs
    <3> HIDE DEF N, V
    <3> QED
      BY <2>1, <3>1
  <2> DEFINE Good(n) == Has(f[n], n) /\ (Ordered => InsideOut(f[n]))
             Bad == {n \in 1..N : ~Good(n)}
  <2> HIDE DEF N
  <2>3. Bad = {}
    <3>1. SUFFICES ASSUME Bad # {} PROVE FALSE
      OBVIOUS
    <3>2. PICK n \in Bad : \A m \in Bad : n <= m
      <4>1. Bad \in SUBSET Nat
        <5> HIDE DEF Good
        <5> QED
          BY <2>1
      <4> HIDE DEF Bad
      <4> QED
        BY <3>1, <4>1, LeastNat
    <3>3. n \in 1..N /\ ~Good(n)
      OBVIOUS
    <3>4. CASE n = 1
      <4>1. f[n] = q[n] /\ 1..n = {n}
        BY <2>1, <2>2, <3>3, <3>4
      <4>2. Has(f[n], n)
        BY <4>1
      <4>3. Ordered => InsideOut(f[n])
        BY <2>1, <3>3, <4>1
      <4> QED
        BY <3>3, <4>2, <4>3
    <3>5. CASE n # 1
      <4> DEFINE m == n - 1
      <4>1. m \in 1..N /\ m < n /\ 1..n = 1..m \cup {n}
        BY <2>1, <3>3, <3>5
      <4>2. Good(m)
        <5> HIDE DEF Good
        <5>1. m \notin Bad
          BY <3>2, <4>1
        <5> QED
          BY <4>1, <5>1
      <4>3. f[n] = f[m] \o q[n]
        BY <2>2, <3>3, <3>5
      <4> HIDE DEF m, V
      <4>4. f[m] \in V /\ q[n] \in V
        BY <2>1, <2>2, <3>3, <4>1
      <4>5. ToSet(f[n]) = ToSet(f[m]) \cup ToSet(q[n])
        BY <4>3, <4>4, ToSetConcat DEF V
      <4>6. Has(f[n], n)
        <5> SUFFICES ASSUME NEW x PROVE x \in ToSet(f[n]) <=> \E i \in 1..n : x \in ToSet(q[i])
          OBVIOUS
        <5>1. x \in ToSet(f[n]) <=> x \in ToSet(f[m]) \/ x \in ToSet(q[n])
          BY <4>5
        <5>2. x \in ToSet(f[m]) <=> \E i \in 1..m : x \in ToSet(q[i])
          BY <4>2
        <5> QED
          BY <4>1, <5>1, <5>2
      <4>7. ASSUME Ordered PROVE InsideOut(f[n])
        <5>1. InsideOut(f[m]) /\ InsideOut(q[n])
          BY <2>1, <3>3, <4>2, <4>7
        <5>2. ASSUME NEW x \in ToSet(f[m]), NEW y \in ToSet(q[n]) PROVE Before(x, y)
          <6>1. PICK i \in 1..m : x \in ToSet(q[i])
            BY <4>2
          <6>2. i \in 1..N /\ i < n
            BY <2>1, <3>3, <4>1
          <6> QED
            BY <2>1, <3>3, <4>7, <6>1, <6>2
        <5> QED
          BY <4>3, <4>4, <5>1, <5>2, InsideOutConcat DEF V
      <4> QED
        BY <3>3, <4>6, <4>7
    <3> QED
      BY <3>4, <3>5
  <2>4. Good(N)
    <3> HIDE DEF Good
    <3>1. N \in 1..N
      BY <2>1
    <3>2. N \notin Bad
      BY <2>3
    <3> QED
      BY <3>1, <3>2
  <2>5. FlattenSeq(q) \in Seq(S)
    BY <2>1, <2>2
  <2> QED
    BY <2>1, <2>2, <2>4, <2>5
<1> QED
  BY <1>1, <1>2

-----------------------------------------------------------------------------
(* Trees of bundles, and what is made of them by recursion.                *)

\* The bundles of a configuration are numbered, each after the one it is nested in.
LEMMA TreeIs ==
    ASSUME NEW c, IsTree(c)
    PROVE  /\ Len(c.specs) \in Nat \ {0} /\ BundlesOf(c) = 1..Len(c.specs) /\ 1 \in BundlesOf(c)
           /\ c.specs[1].parent = 0
           /\ \A n \in BundlesOf(c) : c.specs[n] \in BundleSpecs
           /\ \A n \in BundlesOf(c) \ {1} :
                  c.specs[n].parent \in BundlesOf(c) /\ c.specs[n].parent < n
<1>1. /\ c.specs \in Seq(BundleSpecs) /\ c.specs # <<>> /\ c.specs[1].parent = 0
      /\ \A n \in BundlesOf(c) \ {1} : c.specs[n].parent \in 1..(n - 1)
  BY DEF IsTree
<1> DEFINE s == c.specs
<1>2. Len(s) \in Nat \ {0} /\ DOMAIN s = 1..Len(s) /\ \A n \in 1..Len(s) : s[n] \in BundleSpecs
  BY <1>1
<1>3. BundlesOf(c) = 1..Len(s) /\ 1 \in 1..Len(s)
  BY <1>2 DEF BundlesOf
<1>4. \A n \in 1..Len(s) : 1..(n - 1) \subseteq 1..Len(s) /\ \A m \in 1..(n - 1) : m < n
  BY <1>2
<1> QED
  BY <1>1, <1>2, <1>3, <1>4

\* What holds of a bundle if it holds of the one that it is nested in holds of
\* all, if it holds of the first.
LEMMA DownTheTree ==
    ASSUME NEW c, IsTree(c), NEW T, 1 \in T,
           \A n \in BundlesOf(c) \ {1} : c.specs[n].parent \in T => n \in T
    PROVE  BundlesOf(c) \subseteq T
<1> DEFINE Bad == BundlesOf(c) \ T
<1>1. SUFFICES ASSUME Bad # {} PROVE FALSE
  OBVIOUS
<1>2. PICK n \in Bad : \A m \in Bad : n <= m
  <2>1. Bad \in SUBSET Nat
    BY TreeIs
  <2> HIDE DEF Bad
  <2> QED
    BY <1>1, <2>1, LeastNat
<1>3. n \in BundlesOf(c) \ {1} /\ n \in Nat
  BY TreeIs
<1>4. c.specs[n].parent \in BundlesOf(c) /\ c.specs[n].parent < n /\ c.specs[n].parent \in Nat
  BY <1>3, TreeIs
<1>5. c.specs[n].parent \notin Bad
  BY <1>2, <1>3, <1>4
<1> QED
  BY <1>3, <1>4, <1>5

\* What holds of a bundle if it holds of those directly in it holds of all.
LEMMA UpTheTree ==
    ASSUME NEW c, IsTree(c), NEW T,
           \A n \in BundlesOf(c) :
               (\A m \in BundlesOf(c) : c.specs[m].parent = n => m \in T) => n \in T
    PROVE  BundlesOf(c) \subseteq T
<1> DEFINE N == Len(c.specs)
           Bad == {k \in 0..N : N - k \in BundlesOf(c) \ T}
<1>0. N \in Nat /\ BundlesOf(c) = 1..N
  BY TreeIs
<1>1. Bad = {}
  <2>1. SUFFICES ASSUME Bad # {} PROVE FALSE
    OBVIOUS
  <2>2. PICK k \in Bad : \A m \in Bad : k <= m
    <3>1. Bad \in SUBSET Nat
      BY <1>0
    <3> HIDE DEF Bad
    <3> QED
      BY <2>1, <3>1, LeastNat
  <2> DEFINE n == N - k
  <2>3. n \in BundlesOf(c) \ T /\ n \in Nat /\ k \in Nat
    BY <1>0
  <2>4. ASSUME NEW m \in BundlesOf(c), c.specs[m].parent = n PROVE m \in T
    <3>1. n # 0
      BY <1>0, <2>3
    <3>2. m # 1 /\ n < m
      BY <2>4, <3>1, TreeIs
    <3>3. N - m \in 0..N /\ N - (N - m) = m /\ ~(k <= N - m)
      BY <1>0, <2>3, <3>2
    <3>4. N - m \notin Bad
      <4> HIDE DEF Bad
      <4> QED
        BY <2>2, <3>3
    <3> QED
      BY <2>4, <3>3, <3>4
  <2> HIDE DEF n
  <2> QED
    BY <2>3, <2>4
<1>2. ASSUME NEW n \in BundlesOf(c) PROVE n \in T
  <2>1. N - n \in 0..N /\ N - (N - n) = n
    BY <1>0
  <2>2. N - n \notin Bad
    BY <1>1
  <2> QED
    BY <2>1, <2>2
<1> QED
  BY <1>2

\* A key is that of the bundle it is nested in, extended by a path (subKey).
LEMMA KeysAre ==
    ASSUME NEW c, IsTree(c)
    PROVE  /\ Keys(c) \in [BundlesOf(c) -> Seq(Names)]
           /\ \A n \in BundlesOf(c) :
                  Keys(c)[n] = CASE c.specs[n].parent = 0 -> <<>>
                                 [] c.specs[n].parent = 1 -> c.specs[n].path
                                 [] OTHER -> Keys(c)[c.specs[n].parent]
                                            \o <<"Contents">> \o c.specs[n].path
<1> DEFINE B == BundlesOf(c)
           V == Seq(Names)
           p(n) == c.specs[n].parent
           Key(f, n) == CASE p(n) = 0 -> <<>>
                          [] p(n) = 1 -> c.specs[n].path
                          [] OTHER -> f[p(n)] \o <<"Contents">> \o c.specs[n].path
           G == [n \in B |-> [f \in [B -> V] |-> Key(f, n)]]
           d == [n \in B |-> n]
           Is(f) == f = [n \in B |-> Key(f, n)]
           F == CHOOSE f : Is(f)
<1>1. \A n \in B : n \in Nat /\ n < Len(c.specs) + 1
  BY TreeIs
<1>2. \A n \in B : p(n) # 0 => p(n) \in B /\ p(n) < n
  BY TreeIs
<1>3. <<>> \in V /\ <<"Contents">> \in V
  BY DEF Names
<1>4. \A n \in B : c.specs[n].path \in V
  BY TreeIs DEF BundleSpecs
<1>5. \A s \in V, t \in V : s \o t \in V
  OBVIOUS
<1> HIDE DEF V
<1>6. \A n \in B : \A f \in [B -> V] : Key(f, n) \in V
  BY <1>2, <1>3, <1>4, <1>5
<1>7. Decreases(B, V, G, d)
  <2>1. G \in [B -> [[B -> V] -> V]]
    <3> HIDE DEF Key, B
    <3> QED
      BY <1>6
  <2>2. d \in [B -> Nat] /\ \E K \in Nat : \A n \in B : d[n] < K
    <3>1. Len(c.specs) + 1 \in Nat
      BY TreeIs
    <3> HIDE DEF B
    <3> QED
      BY <1>1, <3>1
  <2>3. \A n \in B : \A f, g \in [B -> V] :
            (\A m \in B : d[m] < d[n] => f[m] = g[m]) => G[n][f] = G[n][g]
    <3> HIDE DEF B, p
    <3> QED
      BY <1>2
  <2> HIDE DEF B, G, d
  <2> QED
    BY <1>3, <2>1, <2>2, <2>3 DEF Decreases
<1>8. PICK f \in [B -> V] : \A n \in B : f[n] = Key(f, n)
  <2>1. PICK f \in [B -> V] : \A n \in B : f[n] = G[n][f]
    <3> HIDE DEF B, G, d
    <3> QED
      BY <1>7, Recursion
  <2> HIDE DEF B, Key
  <2> QED
    BY <2>1
<1>9. Is(F)
  <2>1. Is(f)
    <3> HIDE DEF B, Key
    <3> QED
      BY <1>8
  <2> HIDE DEF Is
  <2> QED
    BY <2>1
<1>10. Keys(c) = F
  BY DEF Keys
<1> HIDE DEF F
<1>11. \A n \in B : F[n] = Key(F, n)
  BY <1>9
<1>12. \A n \in B : F[n] = f[n]
  <2> DEFINE T == {n \in B : F[n] = f[n]}
  <2>1. \A n \in B : (p(n) # 0 => F[p(n)] = f[p(n)]) => F[n] = f[n]
    <3>1. ASSUME NEW n \in B, p(n) # 0 => F[p(n)] = f[p(n)] PROVE Key(F, n) = Key(f, n)
      <4> HIDE DEF p
      <4> QED
        BY <3>1
    <3> HIDE DEF Key, p
    <3> QED
      BY <1>8, <1>11, <3>1
  <2>2. 1 \in T /\ \A n \in B \ {1} : p(n) \in T => n \in T
    <3> HIDE DEF F, Key, Is
    <3> QED
      BY <2>1, TreeIs
  <2>3. B \subseteq T
    <3> HIDE DEF T
    <3> QED
      BY <2>2, DownTheTree
  <2> QED
    BY <2>3
<1>13. F \in [B -> V]
  BY <1>8, <1>9, <1>12
<1> QED
  BY <1>10, <1>11, <1>13 DEF V

\* A bundle is in itself, and in what the one that it is nested in is in.
LEMMA AroundIs ==
    ASSUME NEW c, IsTree(c)
    PROVE  \A n \in BundlesOf(c) :
               Around(c)[n] = {n} \cup (IF n = 1 THEN {} ELSE Around(c)[c.specs[n].parent])
<1> DEFINE B == BundlesOf(c)
           V == SUBSET B
           p(n) == c.specs[n].parent
           Up(f, n) == {n} \cup (IF n = 1 THEN {} ELSE f[p(n)])
           G == [n \in B |-> [f \in [B -> V] |-> Up(f, n)]]
           d == [n \in B |-> n]
           Is(f) == f = [n \in B |-> Up(f, n)]
           F == CHOOSE f : Is(f)
<1>1. \A n \in B : n \in Nat /\ n < Len(c.specs) + 1
  BY TreeIs
<1>2. \A n \in B : n # 1 => p(n) \in B /\ p(n) < n
  BY TreeIs
<1>3. \A n \in B : \A f \in [B -> V] : Up(f, n) \in V
  <2> HIDE DEF p
  <2> QED
    BY <1>2
<1> HIDE DEF V
<1>4. Decreases(B, V, G, d)
  <2>1. G \in [B -> [[B -> V] -> V]]
    <3> HIDE DEF Up, B
    <3> QED
      BY <1>3
  <2>2. d \in [B -> Nat] /\ \E K \in Nat : \A n \in B : d[n] < K
    <3>1. Len(c.specs) + 1 \in Nat
      BY TreeIs
    <3> HIDE DEF B
    <3> QED
      BY <1>1, <3>1
  <2>3. \A n \in B : \A f, g \in [B -> V] :
            (\A m \in B : d[m] < d[n] => f[m] = g[m]) => G[n][f] = G[n][g]
    <3> HIDE DEF B, p
    <3> QED
      BY <1>2
  <2>4. V # {}
    BY DEF V
  <2> HIDE DEF B, G, d
  <2> QED
    BY <2>1, <2>2, <2>3, <2>4 DEF Decreases
<1>5. PICK f \in [B -> V] : \A n \in B : f[n] = Up(f, n)
  <2>1. PICK f \in [B -> V] : \A n \in B : f[n] = G[n][f]
    <3> HIDE DEF B, G, d
    <3> QED
      BY <1>4, Recursion
  <2> HIDE DEF B, Up
  <2> QED
    BY <2>1
<1>6. Is(F)
  <2>1. Is(f)
    <3> HIDE DEF B, Up
    <3> QED
      BY <1>5
  <2> HIDE DEF Is
  <2> QED
    BY <2>1
<1>7. Around(c) = F
  BY DEF Around
<1> HIDE DEF F
<1>8. \A n \in B : F[n] = Up(F, n)
  BY <1>6
<1> QED
  BY <1>7, <1>8

\* Among the steps for the bundles directly in one are those of each, in order if they are.
LEMMA InnerHas ==
    ASSUME NEW c, IsTree(c), NEW S, NEW n, NEW f \in [BundlesOf(c) -> Seq(S)]
    PROVE  /\ Inner(c, n, f) \in Seq(S)
           /\ \A x : x \in ToSet(Inner(c, n, f)) <=>
                         \E m \in BundlesOf(c) : c.specs[m].parent = n /\ x \in ToSet(f[m])
           /\ (/\ \A m \in BundlesOf(c) : c.specs[m].parent = n => InsideOut(f[m])
               /\ \A l, m \in BundlesOf(c) :
                      c.specs[l].parent = n /\ c.specs[m].parent = n /\ l < m =>
                          \A x \in ToSet(f[l]), y \in ToSet(f[m]) : Before(x, y))
              => InsideOut(Inner(c, n, f))
<1> DEFINE B == BundlesOf(c)
           p(m) == c.specs[m].parent
           q == [m \in B |-> IF p(m) = n THEN f[m] ELSE <<>>]
           Ordered == /\ \A m \in B : p(m) = n => InsideOut(f[m])
                      /\ \A l, m \in B : p(l) = n /\ p(m) = n /\ l < m =>
                             \A x \in ToSet(f[l]), y \in ToSet(f[m]) : Before(x, y)
<1>1. Inner(c, n, f) = FlattenSeq(q)
  BY DEF Inner
<1>2. DOMAIN <<>> = {} /\ ToSet(<<>>) = {} /\ InsideOut(<<>>)
  <2>1. DOMAIN <<>> = {}
    OBVIOUS
  <2> QED
    BY <2>1 DEF ToSet, InsideOut
<1>3. q \in Seq(Seq(S)) /\ DOMAIN q = B
  <2>1. B = 1..Len(c.specs) /\ Len(c.specs) \in Nat
    BY TreeIs
  <2>2. q \in [B -> Seq(S)]
    <3>1. <<>> \in Seq(S) /\ f \in [B -> Seq(S)]
      OBVIOUS
    <3> HIDE DEF B, p
    <3> QED
      BY <3>1
  <2> HIDE DEF q, B
  <2> QED
    BY <2>1, <2>2
<1>4. \A m \in B : q[m] = IF p(m) = n THEN f[m] ELSE <<>>
  <2> HIDE DEF B, p
  <2> QED
    OBVIOUS
<1> HIDE DEF q
<1>5. /\ FlattenSeq(q) \in Seq(S)
      /\ \A x : x \in ToSet(FlattenSeq(q)) <=> \E m \in B : x \in ToSet(q[m])
      /\ (/\ \A m \in B : InsideOut(q[m])
          /\ \A l, m \in B : l < m => \A x \in ToSet(q[l]), y \in ToSet(q[m]) : Before(x, y))
         => InsideOut(FlattenSeq(q))
  BY <1>3, FlattenSeqHas
<1> HIDE DEF B, p
<1>6. \A m \in B : \A x : x \in ToSet(q[m]) <=> p(m) = n /\ x \in ToSet(f[m])
  BY <1>2, <1>4
<1>7. ASSUME Ordered PROVE InsideOut(FlattenSeq(q))
  <2>1. \A m \in B : InsideOut(q[m])
    BY <1>2, <1>4, <1>7
  <2>2. ASSUME NEW l \in B, NEW m \in B, l < m, NEW x \in ToSet(q[l]), NEW y \in ToSet(q[m])
        PROVE  Before(x, y)
    BY <1>6, <1>7, <2>2
  <2> QED
    BY <1>5, <2>1, <2>2
<1>8. \A x : x \in ToSet(FlattenSeq(q)) <=> \E m \in B : p(m) = n /\ x \in ToSet(f[m])
  BY <1>5, <1>6
<1>9. /\ FlattenSeq(q) \in Seq(S)
      /\ \A x : x \in ToSet(FlattenSeq(q)) <=> \E m \in B : p(m) = n /\ x \in ToSet(f[m])
      /\ Ordered => InsideOut(FlattenSeq(q))
  BY <1>5, <1>7, <1>8
<1> QED
  BY <1>1, <1>9 DEF B, p

\* The steps for each bundle are its own, and before or after them those for the
\* bundles directly in it.
Steps1(c, own, first, f, n) ==
    IF first THEN own[n] \o Inner(c, n, f) ELSE Inner(c, n, f) \o own[n]
Made(c, own, first, f) == f = [n \in BundlesOf(c) |-> Steps1(c, own, first, f, n)]

\* The steps for the bundles directly in one depend on nothing else.
LEMMA InnerAgrees ==
    ASSUME NEW c, NEW n, NEW f, NEW g,
           \A m \in BundlesOf(c) : c.specs[m].parent = n => f[m] = g[m]
    PROVE  Inner(c, n, f) = Inner(c, n, g)
<1>1. [m \in BundlesOf(c) |-> IF c.specs[m].parent = n THEN f[m] ELSE <<>>]
      = [m \in BundlesOf(c) |-> IF c.specs[m].parent = n THEN g[m] ELSE <<>>]
  OBVIOUS
<1> QED
  BY <1>1 DEF Inner

\* Such steps exist, and are sequences of what each bundle's own are sequences of.
LEMMA StepsAreMade ==
    ASSUME NEW c, IsTree(c), NEW S, NEW own \in [BundlesOf(c) -> Seq(S)], NEW first \in BOOLEAN
    PROVE  /\ \E f : Made(c, own, first, f)
           /\ \A f : Made(c, own, first, f) => f \in [BundlesOf(c) -> Seq(S)]
<1> DEFINE B == BundlesOf(c)
           N == Len(c.specs)
           V == Seq(S)
           p(n) == c.specs[n].parent
           Here(f, n) == Steps1(c, own, first, f, n)
           G == [n \in B |-> [f \in [B -> V] |-> Here(f, n)]]
           d == [n \in B |-> N - n]
<1>1. N \in Nat /\ B = 1..N /\ \A n \in B : N - n \in Nat /\ N - n < N
  BY TreeIs
<1>2. \A n, m \in B : p(m) = n => N - m < N - n
  <2>1. \A n, m \in B : p(m) = n => n < m /\ n \in Nat /\ m \in Nat
    BY TreeIs
  <2> HIDE DEF B, N, p
  <2> QED
    BY <1>1, <2>1
<1>3. ASSUME NEW n \in B, NEW f \in [B -> V] PROVE Here(f, n) \in V
  <2>1. Inner(c, n, f) \in V
    BY <1>3, InnerHas
  <2>2. own[n] \in V
    OBVIOUS
  <2>3. \A s \in V, t \in V : s \o t \in V
    OBVIOUS
  <2> HIDE DEF V
  <2> QED
    BY <2>1, <2>2, <2>3 DEF Steps1
<1>4. ASSUME NEW n \in B, NEW f, NEW g, \A m \in B : p(m) = n => f[m] = g[m]
      PROVE  Here(f, n) = Here(g, n)
  <2>1. Inner(c, n, f) = Inner(c, n, g)
    BY <1>4, InnerAgrees
  <2> QED
    BY <2>1 DEF Steps1
<1>5. V # {}
  <2>1. <<>> \in V
    OBVIOUS
  <2> QED
    BY <2>1
<1> HIDE DEF V, Here, p
<1>6. Decreases(B, V, G, d)
  <2>1. G \in [B -> [[B -> V] -> V]]
    <3> HIDE DEF B
    <3> QED
      BY <1>3
  <2>2. d \in [B -> Nat] /\ \E K \in Nat : \A n \in B : d[n] < K
    <3> HIDE DEF B, N
    <3> QED
      BY <1>1
  <2>3. \A n \in B : \A f, g \in [B -> V] :
            (\A m \in B : d[m] < d[n] => f[m] = g[m]) => G[n][f] = G[n][g]
    <3> SUFFICES ASSUME NEW n \in B, NEW f \in [B -> V], NEW g \in [B -> V],
                        \A m \in B : d[m] < d[n] => f[m] = g[m]
                 PROVE  G[n][f] = G[n][g]
      OBVIOUS
    <3> HIDE DEF B, N
    <3>1. \A m \in B : p(m) = n => f[m] = g[m]
      BY <1>2
    <3>2. Here(f, n) = Here(g, n)
      BY <1>4, <3>1
    <3> QED
      BY <3>2
  <2> HIDE DEF B, G, d
  <2> QED
    BY <1>5, <2>1, <2>2, <2>3 DEF Decreases
<1>7. PICK f \in [B -> V] : \A n \in B : f[n] = Here(f, n)
  <2>1. PICK f \in [B -> V] : \A n \in B : f[n] = G[n][f]
    <3> HIDE DEF B, G, d
    <3> QED
      BY <1>6, Recursion
  <2> HIDE DEF B
  <2> QED
    BY <2>1
<1>8. Made(c, own, first, f)
  <2>1. f = [n \in B |-> Here(f, n)]
    <3> HIDE DEF B
    <3> QED
      BY <1>7
  <2> QED
    BY <2>1 DEF Made, Here
<1>9. ASSUME NEW g, Made(c, own, first, g) PROVE g \in [B -> V]
  <2>1. g = [n \in B |-> Here(g, n)]
    BY <1>9 DEF Made, Here
  <2> DEFINE T == {n \in B : g[n] = f[n]}
  <2>2. \A n \in B : g[n] = Here(g, n)
    <3> HIDE DEF B
    <3>1. \A n \in B : [i \in B |-> Here(g, i)][n] = Here(g, n)
      OBVIOUS
    <3> QED
      BY <2>1, <3>1
  <2>3. ASSUME NEW n \in B, \A m \in B : p(m) = n => m \in T PROVE n \in T
    <3>1. Here(g, n) = Here(f, n)
      BY <1>4, <2>3
    <3> QED
      BY <1>7, <2>2, <3>1
  <2>4. B \subseteq T
    <3> HIDE DEF T
    <3> QED
      BY <2>3, UpTheTree DEF p
  <2>5. \A n \in B : g[n] \in V
    BY <1>7, <2>4
  <2>6. DOMAIN g = B /\ g = [n \in B |-> g[n]]
    <3> DEFINE h == [n \in B |-> Here(g, n)]
    <3>1. DOMAIN h = B /\ h = [n \in B |-> h[n]]
      OBVIOUS
    <3> HIDE DEF h
    <3> QED
      BY <2>1, <3>1 DEF h
  <2> HIDE DEF B
  <2> QED
    BY <2>5, <2>6
<1> QED
  BY <1>8, <1>9 DEF V

-----------------------------------------------------------------------------
(* The steps of a build.                                                   *)

Whats == {"bundle", "MacOS", "Resources", "profile", "plist", "exe", "extra", "icon", "lock",
          "archive", "ticket"}
FillsOf(k) == {Step(do, k, what) : do \in {"mkdir", "copy", "error", "chmod"}, what \in Whats}
Filling(c) == UNION {FillsOf(Keys(c)[n]) : n \in BundlesOf(c)}
SignOf(c, n, what) == Step("sign", Keys(c)[n], what)
Signings(c) == {SignOf(c, n, what) : n \in ToSign(c), what \in {"exe", "bundle"}}

\* A bundle is filled in its own place, after its directory is made.
LEMMA FillIs ==
    ASSUME NEW k, NEW s \in BundleSpecs
    PROVE  /\ Fill(k, s) \in Seq(FillsOf(k))
           /\ Step("mkdir", k, "bundle") \in ToSet(Fill(k, s))
<1> DEFINE F == FillsOf(k)
           V == Seq(F)
           mk == Step("mkdir", k, "bundle")
           a1 == Create(k)
           a2 == When(s.profile, Step("copy", k, "profile"))
           a3 == <<Step(IF s.info THEN "copy" ELSE "error", k, "plist"), Step("copy", k, "exe")>>
           a4 == When(s.extra, Step("copy", k, "extra"))
           a5 == When(s.icon, Step("copy", k, "icon"))
           a6 == <<Step("chmod", k, "exe"),
                   Step("chmod", k, IF s.readOnly THEN "lock" ELSE "MacOS")>>
<1>1. \A do \in {"mkdir", "copy", "error", "chmod"}, what \in Whats : Step(do, k, what) \in F
  BY DEF FillsOf
<1>2. /\ \A st \in F : <<st>> \in V
      /\ \A x, y \in F : <<x, y>> \in V
      /\ \A x, y, z \in F : <<x, y, z>> \in V
      /\ <<>> \in V
  <2> HIDE DEF F
  <2> QED
    OBVIOUS
<1>3. a1 \in V
  <2>1. /\ mk \in F /\ Step("mkdir", k, "MacOS") \in F /\ Step("mkdir", k, "Resources") \in F
    BY <1>1 DEF Whats
  <2> HIDE DEF F, V
  <2> QED
    BY <1>2, <2>1 DEF Create
<1>4. a2 \in V /\ a4 \in V /\ a5 \in V
  <2>1. /\ Step("copy", k, "profile") \in F /\ Step("copy", k, "extra") \in F
        /\ Step("copy", k, "icon") \in F
    BY <1>1 DEF Whats
  <2> HIDE DEF F, V
  <2> QED
    BY <1>2, <2>1 DEF When
<1>5. a3 \in V
  <2>1. /\ Step("copy", k, "plist") \in F /\ Step("error", k, "plist") \in F
        /\ Step("copy", k, "exe") \in F
    BY <1>1 DEF Whats
  <2> HIDE DEF F, V
  <2> QED
    BY <1>2, <2>1
<1>6. a6 \in V
  <2>1. /\ Step("chmod", k, "exe") \in F /\ Step("chmod", k, "lock") \in F
        /\ Step("chmod", k, "MacOS") \in F
    BY <1>1 DEF Whats
  <2> HIDE DEF F, V
  <2> QED
    BY <1>2, <2>1
<1>7. mk \in ToSet(a1)
  <2>1. 1 \in DOMAIN a1 /\ a1[1] = mk
    BY DEF Create
  <2> QED
    BY <2>1 DEF ToSet
<1>8. /\ \A q \in V, r \in V : q \o r \in V
      /\ \A q \in V, r \in V : ToSet(q \o r) = ToSet(q) \cup ToSet(r)
  BY ToSetConcat
<1>9. Fill(k, s) = a1 \o a2 \o a3 \o a4 \o a5 \o a6
  BY DEF Fill
<1> HIDE DEF V, a1, a2, a3, a4, a5, a6, mk
<1>10. a1 \o a2 \in V /\ mk \in ToSet(a1 \o a2)
  BY <1>3, <1>4, <1>7, <1>8
<1>11. a1 \o a2 \o a3 \in V /\ mk \in ToSet(a1 \o a2 \o a3)
  BY <1>5, <1>8, <1>10
<1>12. a1 \o a2 \o a3 \o a4 \in V /\ mk \in ToSet(a1 \o a2 \o a3 \o a4)
  BY <1>4, <1>8, <1>11
<1>13. a1 \o a2 \o a3 \o a4 \o a5 \in V /\ mk \in ToSet(a1 \o a2 \o a3 \o a4 \o a5)
  BY <1>4, <1>8, <1>12
<1> QED
  BY <1>6, <1>8, <1>9, <1>13 DEF V, mk

\* What is made holds the steps of every bundle.
Whole(c, own, first, f) ==
    /\ \A n \in BundlesOf(c) :
           /\ f[n] = Steps1(c, own, first, f, n)
           /\ \A x : x \in ToSet(f[n]) <=>
                         \/ x \in ToSet(own[n])
                         \/ \E m \in BundlesOf(c) : c.specs[m].parent = n /\ x \in ToSet(f[m])
    /\ \A n \in BundlesOf(c) : ToSet(own[n]) \subseteq ToSet(f[1])

\* The first bundle's steps hold those of every bundle.
LEMMA MadeHas ==
    ASSUME NEW c, IsTree(c), NEW S, NEW own \in [BundlesOf(c) -> Seq(S)], NEW first \in BOOLEAN,
           NEW f, Made(c, own, first, f)
    PROVE  Whole(c, own, first, f)
<1> DEFINE B == BundlesOf(c)
           p(n) == c.specs[n].parent
           T == {n \in B : ToSet(f[n]) \subseteq ToSet(f[1])}
<1>1. f \in [B -> Seq(S)]
  BY StepsAreMade
<1>2. \A n \in B : f[n] = Steps1(c, own, first, f, n)
  <2>1. f = [n \in B |-> Steps1(c, own, first, f, n)]
    BY DEF Made
  <2>2. \A n \in B : [m \in B |-> Steps1(c, own, first, f, m)][n] = Steps1(c, own, first, f, n)
    OBVIOUS
  <2> HIDE DEF B
  <2> QED
    BY <2>1, <2>2
<1>3. ASSUME NEW n \in B, NEW x
      PROVE  x \in ToSet(f[n]) <=>
                 \/ x \in ToSet(own[n])
                 \/ \E m \in B : p(m) = n /\ x \in ToSet(f[m])
  <2>1. /\ Inner(c, n, f) \in Seq(S)
        /\ x \in ToSet(Inner(c, n, f)) <=> \E m \in B : p(m) = n /\ x \in ToSet(f[m])
    BY <1>1, InnerHas
  <2>2. own[n] \in Seq(S)
    OBVIOUS
  <2>3. /\ ToSet(own[n] \o Inner(c, n, f)) = ToSet(own[n]) \cup ToSet(Inner(c, n, f))
        /\ ToSet(Inner(c, n, f) \o own[n]) = ToSet(own[n]) \cup ToSet(Inner(c, n, f))
    BY <2>1, <2>2, ToSetConcat
  <2>4. ToSet(f[n]) = ToSet(own[n]) \cup ToSet(Inner(c, n, f))
    BY <1>2, <2>3 DEF Steps1
  <2> HIDE DEF B, p
  <2> QED
    BY <2>1, <2>4
<1>4. 1 \in T
  BY TreeIs
<1>5. \A n \in B \ {1} : p(n) \in B /\ (p(n) \in T => n \in T)
  <2> SUFFICES ASSUME NEW n \in B \ {1} PROVE p(n) \in B /\ (p(n) \in T => n \in T)
    OBVIOUS
  <2>1. p(n) \in B
    BY TreeIs
  <2>2. \A x \in ToSet(f[n]) : x \in ToSet(f[p(n)])
    BY <1>3, <2>1
  <2> QED
    BY <2>1, <2>2
<1>6. B \subseteq T
  <2> HIDE DEF T
  <2> QED
    BY <1>4, <1>5, DownTheTree
<1> QED
  BY <1>2, <1>3, <1>6 DEF Whole

\* populate makes every bundle, and only copies into, and sets the modes of, its bundles.
LEMMA PopulateIs ==
    ASSUME NEW c, IsTree(c)
    PROVE  /\ Populate(c) \in Seq(Filling(c))
           /\ \A n \in BundlesOf(c) : Step("mkdir", Keys(c)[n], "bundle") \in ToSet(Populate(c))
<1> DEFINE B == BundlesOf(c)
           S == Filling(c)
           Own(n) == Fill(Keys(c)[n], c.specs[n])
           own == [n \in B |-> Own(n)]
           Is(f) == f = [n \in B |-> Fill(Keys(c)[n], c.specs[n]) \o Inner(c, n, f)]
           F == CHOOSE f : Is(f)
<1>1. \A n \in B : Own(n) \in Seq(S) /\ Step("mkdir", Keys(c)[n], "bundle") \in ToSet(Own(n))
  <2> SUFFICES ASSUME NEW n \in B
               PROVE  Own(n) \in Seq(S) /\ Step("mkdir", Keys(c)[n], "bundle") \in ToSet(Own(n))
    OBVIOUS
  <2>1. c.specs[n] \in BundleSpecs
    BY TreeIs
  <2>2. Own(n) \in Seq(FillsOf(Keys(c)[n])) /\ Step("mkdir", Keys(c)[n], "bundle") \in ToSet(Own(n))
    BY <2>1, FillIs
  <2>3. FillsOf(Keys(c)[n]) \subseteq S
    BY DEF Filling
  <2> HIDE DEF S, Own
  <2> QED
    BY <2>2, <2>3
<1>2. own \in [B -> Seq(S)]
  <2> HIDE DEF S, B, Own
  <2> QED
    BY <1>1
<1>3. ASSUME NEW f PROVE Is(f) <=> Made(c, own, TRUE, f)
  <2>1. \A n \in B : Steps1(c, own, TRUE, f, n) = Own(n) \o Inner(c, n, f)
    BY DEF Steps1
  <2>2. [n \in B |-> Steps1(c, own, TRUE, f, n)] = [n \in B |-> Own(n) \o Inner(c, n, f)]
    <3> HIDE DEF B, Own, own
    <3> QED
      BY <2>1
  <2> QED
    BY <2>2 DEF Made
<1>4. Made(c, own, TRUE, F)
  <2>1. \E f : Is(f)
    <3>1. \E f : Made(c, own, TRUE, f)
      <4> HIDE DEF S, own
      <4> QED
        BY <1>2, StepsAreMade
    <3> HIDE DEF Is
    <3> QED
      BY <1>3, <3>1
  <2>2. Is(F)
    <3> HIDE DEF Is
    <3> QED
      BY <2>1
  <2> QED
    BY <1>3, <2>2
<1>5. Populate(c) = F[1]
  BY DEF Populate
<1>6. F \in [B -> Seq(S)] /\ \A n \in B : ToSet(own[n]) \subseteq ToSet(F[1])
  <2> HIDE DEF F, S, own
  <2> QED
    BY <1>2, <1>4, MadeHas, StepsAreMade DEF Whole
<1>7. \A n \in B : Step("mkdir", Keys(c)[n], "bundle") \in ToSet(own[n])
  <2> HIDE DEF B, Own
  <2> QED
    BY <1>1
<1>8. 1 \in B
  BY TreeIs
<1> HIDE DEF F, own, S
<1> QED
  BY <1>5, <1>6, <1>7, <1>8 DEF S

-----------------------------------------------------------------------------
(* The keys of nested bundles.                                             *)

\* A sequence is a prefix of itself, and of none that is shorter.
LEMMA PrefixIs ==
    ASSUME NEW S, NEW s \in Seq(S), NEW t \in Seq(S)
    PROVE  /\ IsPrefix(s, s)
           /\ IsPrefix(s, t) => Len(s) <= Len(t)
<1>1. IsPrefix(s, s)
  BY DEF IsPrefix
<1> QED
  BY <1>1 DEF IsPrefix

\* A bundle is as deep as what it is nested in, and deeper.
LEMMA KeysGrow ==
    ASSUME NEW c, IsTree(c), Valid(c, FALSE)
    PROVE  /\ \A n \in BundlesOf(c) : Len(Keys(c)[n]) \in Nat
           /\ Keys(c)[1] = <<>>
           /\ \A n \in BundlesOf(c) \ {1} :
                  Len(Keys(c)[c.specs[n].parent]) < Len(Keys(c)[n])
<1> DEFINE B == BundlesOf(c)
           p(n) == c.specs[n].parent
           K == Keys(c)
<1>1. K \in [B -> Seq(Names)]
  BY KeysAre
<1>2. K[1] = <<>>
  BY TreeIs, KeysAre
<1>3. ASSUME NEW n \in B \ {1} PROVE Len(K[p(n)]) < Len(K[n])
  <2>1. c.specs[n].path \in Seq(Names) /\ c.specs[n].path # <<>>
    BY TreeIs DEF BundleSpecs, Valid
  <2> DEFINE path == c.specs[n].path
  <2>2. Len(path) \in Nat \ {0}
    BY <2>1
  <2>3. p(n) \in B /\ p(n) # 0 /\ c.specs[1].parent = 0
    BY TreeIs
  <2>4. CASE p(n) = 1
    <3>1. K[n] = path
      BY <2>3, <2>4, KeysAre
    <3>2. Len(K[1]) = 0
      BY <1>2
    <3> QED
      BY <2>2, <2>4, <3>1, <3>2
  <2>5. CASE p(n) # 1
    <3> DEFINE k == K[p(n)]
    <3>1. K[n] = k \o <<"Contents">> \o path
      BY <2>3, <2>5, KeysAre
    <3>2. k \in Seq(Names) /\ <<"Contents">> \in Seq(Names) /\ path \in Seq(Names)
      BY <1>1, <2>1, <2>3 DEF Names
    <3> HIDE DEF k, path
    <3>3. Len(k \o <<"Contents">> \o path) = Len(k) + 1 + Len(path) /\ Len(k) \in Nat
      BY <3>2
    <3> QED
      BY <2>2, <3>1, <3>3 DEF k
  <2> QED
    BY <2>4, <2>5
<1>4. \A n \in B : Len(K[n]) \in Nat
  <2> SUFFICES ASSUME NEW n \in B PROVE Len(K[n]) \in Nat
    OBVIOUS
  <2>1. K[n] \in Seq(Names)
    BY <1>1
  <2> HIDE DEF K
  <2> QED
    BY <2>1
<1> QED
  BY <1>2, <1>3, <1>4

\* What a bundle is in: itself, and what what it is nested in is in.
LEMMA AroundGrows ==
    ASSUME NEW c, IsTree(c), Valid(c, FALSE)
    PROVE  \A x \in BundlesOf(c) :
               /\ x \in Around(c)[x] /\ 1 \in Around(c)[x] /\ Around(c)[x] \subseteq BundlesOf(c)
               /\ \A a \in Around(c)[x] :
                      /\ Len(Keys(c)[a]) <= Len(Keys(c)[x])
                      /\ a # 1 => c.specs[a].parent \in Around(c)[x]
                      /\ a # x => \E b \in Around(c)[x] : c.specs[b].parent = a
<1> DEFINE B == BundlesOf(c)
           p(n) == c.specs[n].parent
           K == Keys(c)
           R == Around(c)
           Good(x) == /\ x \in R[x] /\ 1 \in R[x] /\ R[x] \subseteq B
                      /\ \A a \in R[x] : /\ Len(K[a]) <= Len(K[x])
                                         /\ a # 1 => p(a) \in R[x]
                                         /\ a # x => \E b \in R[x] : p(b) = a
           T == {x \in B : Good(x)}
<1>1. /\ \A n \in B : Len(K[n]) \in Nat
      /\ \A n \in B \ {1} : Len(K[p(n)]) < Len(K[n])
  BY KeysGrow
<1>2. \A n \in B : R[n] = {n} \cup (IF n = 1 THEN {} ELSE R[p(n)])
  BY AroundIs
<1>3. 1 \in B /\ \A n \in B \ {1} : p(n) \in B
  BY TreeIs
<1> HIDE DEF B, p, K, R
<1>4. 1 \in T
  BY <1>1, <1>2, <1>3
<1>5. ASSUME NEW n \in B \ {1}, p(n) \in T PROVE n \in T
  <2>1. R[n] = {n} \cup R[p(n)] /\ Good(p(n))
    BY <1>2, <1>5
  <2>2. n \in R[n] /\ 1 \in R[n] /\ R[n] \subseteq B
    BY <2>1
  <2>3. ASSUME NEW a \in R[n]
        PROVE  /\ Len(K[a]) <= Len(K[n])
               /\ a # 1 => p(a) \in R[n]
               /\ a # n => \E b \in R[n] : p(b) = a
    <3>1. CASE a = n
      BY <1>1, <2>1, <3>1
    <3>2. CASE a # n
      <4>1. a \in R[p(n)] /\ a \in B /\ p(n) \in B
        BY <1>3, <2>1, <2>2, <3>2
      <4>2. Len(K[a]) <= Len(K[p(n)])
        BY <2>1, <4>1
      <4>3. Len(K[a]) <= Len(K[n])
        BY <1>1, <4>1, <4>2
      <4>4. a # 1 => p(a) \in R[n]
        BY <2>1, <4>1
      <4>5. a # n => \E b \in R[n] : p(b) = a
        BY <2>1, <2>2, <4>1
      <4> QED
        BY <4>3, <4>4, <4>5
    <3> QED
      BY <3>1, <3>2
  <2> QED
    BY <2>2, <2>3
<1>6. B \subseteq T
  <2> HIDE DEF T
  <2> QED
    BY <1>4, <1>5, DownTheTree DEF B, p
<1>7. \A x \in B : Good(x)
  BY <1>6
<1> QED
  BY <1>7 DEF B, p, K, R

\* The bundles in n, at any depth, and n.
Under(c, n) == {x \in BundlesOf(c) : n \in Around(c)[x]}

\* What is in a bundle is the bundle itself and what is in those directly in it.
LEMMA UnderIs ==
    ASSUME NEW c, IsTree(c), Valid(c, FALSE), NEW n \in BundlesOf(c)
    PROVE  /\ n \in Under(c, n)
           /\ \A x \in Under(c, n) \ {n} :
                  /\ Len(Keys(c)[n]) < Len(Keys(c)[x])
                  /\ \E b \in BundlesOf(c) : c.specs[b].parent = n /\ x \in Under(c, b)
           /\ \A b \in BundlesOf(c) :
                  c.specs[b].parent = n => Under(c, b) \subseteq Under(c, n) \ {n}
<1>1. n \in Under(c, n)
  BY AroundGrows DEF Under
<1>2. ASSUME NEW b \in BundlesOf(c), c.specs[b].parent = n, NEW x \in Under(c, b)
      PROVE  x \in Under(c, n) /\ Len(Keys(c)[n]) < Len(Keys(c)[x])
  <2>1. b # 1
    BY <1>2, TreeIs
  <2>2. n \in Around(c)[x] /\ x \in BundlesOf(c)
    BY <1>2, <2>1, AroundGrows DEF Under
  <2>3. Len(Keys(c)[b]) <= Len(Keys(c)[x]) /\ Len(Keys(c)[n]) < Len(Keys(c)[b])
    BY <1>2, <2>1, AroundGrows, KeysGrow DEF Under
  <2>4. Len(Keys(c)[b]) \in Nat /\ Len(Keys(c)[x]) \in Nat /\ Len(Keys(c)[n]) \in Nat
    BY <2>2, KeysGrow
  <2> QED
    BY <2>2, <2>3, <2>4 DEF Under
<1>3. ASSUME NEW x \in Under(c, n) \ {n}
      PROVE  /\ Len(Keys(c)[n]) < Len(Keys(c)[x])
             /\ \E b \in BundlesOf(c) : c.specs[b].parent = n /\ x \in Under(c, b)
  <2>1. PICK b \in BundlesOf(c) : c.specs[b].parent = n /\ x \in Under(c, b)
    BY <1>3, AroundGrows DEF Under
  <2> QED
    BY <1>2, <2>1
<1>4. Len(Keys(c)[n]) \in Nat
  BY KeysGrow
<1>5. ASSUME NEW b \in BundlesOf(c), c.specs[b].parent = n
      PROVE  Under(c, b) \subseteq Under(c, n) \ {n}
  BY <1>2, <1>4, <1>5
<1> QED
  BY <1>1, <1>3, <1>5

\* No two bundles are in the same place.
LEMMA KeysDiffer ==
    ASSUME NEW c, IsTree(c), Valid(c, FALSE), InOrder(c)
    PROVE  \A x, y \in BundlesOf(c) : x # y => Keys(c)[x] # Keys(c)[y]
<1> DEFINE B == BundlesOf(c)
           p(n) == c.specs[n].parent
           K == Keys(c)
           U(n) == Under(c, n)
           T == {n \in B : \A x, y \in U(n) : x # y => K[x] # K[y]}
<1>1. /\ \A n \in B : n \in U(n)
      /\ \A n \in B : \A x \in U(n) : x \in B /\ Len(K[x]) \in Nat
      /\ \A n \in B : \A x \in U(n) \ {n} : /\ Len(K[n]) < Len(K[x])
                                            /\ \E b \in B : p(b) = n /\ x \in U(b)
  BY UnderIs, KeysGrow DEF Under
<1>2. ASSUME NEW a \in B, NEW b \in B, p(a) = p(b), a < b, NEW x \in U(a), NEW y \in U(b)
      PROVE  K[x] # K[y]
  <2>1. ~IsPrefix(K[x], K[y])
    BY <1>2 DEF Under, InOrder
  <2>2. K[x] \in Seq(Names)
    BY KeysAre DEF Under
  <2>3. IsPrefix(K[x], K[x])
    BY <2>2, PrefixIs
  <2> QED
    BY <2>1, <2>3
<1>3. \A a, b \in B : a # b => a < b \/ b < a
  BY TreeIs
<1>4. ASSUME NEW n \in B, \A m \in B : p(m) = n => m \in T PROVE n \in T
  <2> SUFFICES ASSUME NEW x \in U(n), NEW y \in U(n), x # y PROVE K[x] # K[y]
    OBVIOUS
  <2> HIDE DEF B, p, K, U
  <2>1. CASE x = n
    <3>1. Len(K[x]) < Len(K[y]) /\ Len(K[x]) \in Nat
      BY <1>1, <2>1
    <3> QED
      BY <3>1
  <2>2. CASE y = n
    <3>1. Len(K[y]) < Len(K[x]) /\ Len(K[x]) \in Nat
      BY <1>1, <2>2
    <3> QED
      BY <3>1
  <2>3. CASE x # n /\ y # n
    <3>1. PICK a \in B, b \in B : p(a) = n /\ x \in U(a) /\ p(b) = n /\ y \in U(b)
      BY <1>1, <2>3
    <3>2. CASE a = b
      <4>1. a \in T
        BY <1>4, <3>1
      <4> QED
        BY <3>1, <3>2, <4>1
    <3>3. CASE a # b
      BY <1>2, <1>3, <3>1, <3>3
    <3> QED
      BY <3>2, <3>3
  <2> QED
    BY <2>1, <2>2, <2>3
<1>5. B \subseteq T
  <2> HIDE DEF T
  <2> QED
    BY <1>4, UpTheTree
<1>6. 1 \in T /\ \A x \in B : x \in U(1)
  BY <1>5, TreeIs, AroundGrows DEF Under
<1> QED
  BY <1>6

\* Signing goes from the inside out: nothing that has been signed contains what
\* is signed after it.
LEMMA SignIs ==
    ASSUME NEW c, IsTree(c), Valid(c, FALSE), InOrder(c)
    PROVE  /\ Sign(c) \in Seq(Signings(c))
           /\ InsideOut(Sign(c))
           /\ \A n \in ToSign(c) : /\ SignOf(c, n, "exe") \in ToSet(Sign(c))
                                   /\ SignOf(c, n, "bundle") \in ToSet(Sign(c))
<1> DEFINE B == BundlesOf(c)
           p(n) == c.specs[n].parent
           K == Keys(c)
           S == Signings(c)
           Own(n) == IF n \in ToSign(c)
                     THEN <<SignOf(c, n, "exe"), SignOf(c, n, "bundle")>> ELSE <<>>
           own == [n \in B |-> Own(n)]
           Is(f) ==
               f = [n \in B |->
                        Inner(c, n, f)
                        \o (IF n \in ToSign(c)
                            THEN <<Step("sign", Keys(c)[n], "exe"),
                                   Step("sign", Keys(c)[n], "bundle")>>
                            ELSE <<>>)]
           F == CHOOSE f : Is(f)
<1>1. /\ \A n \in B : ToSet(Own(n)) = IF n \in ToSign(c)
                                       THEN {SignOf(c, n, "exe"), SignOf(c, n, "bundle")} ELSE {}
      /\ \A n \in B : InsideOut(Own(n))
      /\ \A n \in B : Own(n) \in Seq(S)
  <2> SUFFICES ASSUME NEW n \in B
               PROVE  /\ ToSet(Own(n)) = IF n \in ToSign(c)
                                         THEN {SignOf(c, n, "exe"), SignOf(c, n, "bundle")} ELSE {}
                      /\ InsideOut(Own(n))
                      /\ Own(n) \in Seq(S)
    OBVIOUS
  <2>1. CASE n \in ToSign(c)
    <3> DEFINE x == SignOf(c, n, "exe")
               y == SignOf(c, n, "bundle")
               q == <<x, y>>
    <3>1. Own(n) = q /\ x \in S /\ y \in S
      BY <2>1 DEF Signings
    <3>2. DOMAIN q = {1, 2} /\ q[1] = x /\ q[2] = y
      OBVIOUS
    <3>3. Before(x, y)
      BY DEF Before, SignOf, Step
    <3> HIDE DEF x, y
    <3>4. q \in Seq(S)
      BY <3>1
    <3> HIDE DEF q
    <3>5. ToSet(q) = {x, y}
      BY <3>2 DEF ToSet
    <3>6. InsideOut(q)
      <4>1. \A i, j \in {1, 2} : i < j => i = 1 /\ j = 2
        OBVIOUS
      <4> QED
        BY <3>2, <3>3, <4>1 DEF InsideOut
    <3> QED
      BY <2>1, <3>1, <3>4, <3>5, <3>6 DEF x, y
  <2>2. CASE n \notin ToSign(c)
    <3>1. Own(n) = <<>> /\ DOMAIN <<>> = {} /\ <<>> \in Seq(S)
      BY <2>2
    <3>2. ToSet(<<>>) = {} /\ InsideOut(<<>>)
      BY <3>1 DEF ToSet, InsideOut
    <3> QED
      BY <2>2, <3>1, <3>2
  <2> QED
    BY <2>1, <2>2
<1>2. own \in [B -> Seq(S)] /\ \A n \in B : own[n] = Own(n)
  <2> HIDE DEF S, B, Own
  <2> QED
    BY <1>1
<1>3. ASSUME NEW f PROVE Is(f) <=> Made(c, own, FALSE, f)
  <2>1. \A n \in B : Steps1(c, own, FALSE, f, n) = Inner(c, n, f) \o Own(n)
    <3> HIDE DEF own, Own, B
    <3> QED
      BY <1>2 DEF Steps1
  <2>2. [n \in B |-> Steps1(c, own, FALSE, f, n)] = [n \in B |-> Inner(c, n, f) \o Own(n)]
    <3> HIDE DEF B, Own, own
    <3> QED
      BY <2>1
  <2>3. Is(f) <=> f = [n \in B |-> Inner(c, n, f) \o Own(n)]
    BY DEF SignOf
  <2> HIDE DEF Is, Own, own
  <2> QED
    BY <2>2, <2>3 DEF Made
<1>4. Made(c, own, FALSE, F)
  <2>1. \E f : Is(f)
    <3>1. \E f : Made(c, own, FALSE, f)
      <4> HIDE DEF S, own
      <4> QED
        BY <1>2, StepsAreMade
    <3> HIDE DEF Is
    <3> QED
      BY <1>3, <3>1
  <2>2. Is(F)
    <3> HIDE DEF Is
    <3> QED
      BY <2>1
  <2> QED
    BY <1>3, <2>2
<1>5. Sign(c) = F[1]
  BY DEF Sign
<1> HIDE DEF F, S, own, Is
<1>6. F \in [B -> Seq(S)]
  BY <1>2, <1>4, StepsAreMade
<1>7. /\ \A n \in B : F[n] = Inner(c, n, F) \o own[n]
      /\ \A n \in B : \A x : x \in ToSet(F[n]) <=>
                                 \/ x \in ToSet(own[n])
                                 \/ \E m \in B : p(m) = n /\ x \in ToSet(F[m])
      /\ \A n \in B : ToSet(own[n]) \subseteq ToSet(F[1])
  <2>1. /\ \A n \in B : F[n] = Steps1(c, own, FALSE, F, n)
        /\ \A n \in B : \A x : x \in ToSet(F[n]) <=>
                                   \/ x \in ToSet(own[n])
                                   \/ \E m \in B : c.specs[m].parent = n /\ x \in ToSet(F[m])
        /\ \A n \in B : ToSet(own[n]) \subseteq ToSet(F[1])
    <3>1. Whole(c, own, FALSE, F)
      BY <1>2, <1>4, MadeHas
    <3> QED
      BY <3>1 DEF Whole
  <2>2. \A n \in B : Steps1(c, own, FALSE, F, n) = Inner(c, n, F) \o own[n]
    BY DEF Steps1
  <2> HIDE DEF B
  <2> QED
    BY <2>1, <2>2
<1>8. \A n \in B : /\ n \in Under(c, n)
                   /\ \A b \in B : p(b) = n => Under(c, b) \subseteq Under(c, n) \ {n}
  BY UnderIs
<1> DEFINE Within(n, x) ==
               \E m \in ToSign(c) : /\ m \in Under(c, n)
                                    /\ x \in {SignOf(c, m, "exe"), SignOf(c, m, "bundle")}
           T1 == {n \in B : \A x \in ToSet(F[n]) : Within(n, x)}
<1>9. B \subseteq T1
  <2>1. ASSUME NEW n \in B, \A b \in B : p(b) = n => b \in T1 PROVE n \in T1
    <3> SUFFICES ASSUME NEW x \in ToSet(F[n]) PROVE Within(n, x)
      OBVIOUS
    <3>1. CASE x \in ToSet(own[n])
      <4>1. n \in ToSign(c) /\ x \in {SignOf(c, n, "exe"), SignOf(c, n, "bundle")}
        <5> HIDE DEF Own, B, Within
        <5> QED
          BY <1>1, <1>2, <3>1
      <4> QED
        BY <1>8, <4>1
    <3>2. CASE \E b \in B : p(b) = n /\ x \in ToSet(F[b])
      <4>1. PICK b \in B : p(b) = n /\ x \in ToSet(F[b])
        BY <3>2
      <4>2. Within(b, x)
        BY <2>1, <4>1
      <4> HIDE DEF B, p
      <4> QED
        BY <1>8, <4>1, <4>2
    <3> QED
      BY <1>7, <3>1, <3>2
  <2> HIDE DEF T1
  <2> QED
    BY <2>1, UpTheTree
<1> DEFINE T2 == {n \in B : InsideOut(F[n])}
<1>10. B \subseteq T2
  <2>1. ASSUME NEW n \in B, \A b \in B : p(b) = n => b \in T2 PROVE n \in T2
    <3>1. ASSUME NEW l \in B, NEW m \in B, p(l) = n, p(m) = n, l < m,
                 NEW x \in ToSet(F[l]), NEW y \in ToSet(F[m])
          PROVE  Before(x, y)
      <4>1. PICK k \in ToSign(c) : /\ k \in Under(c, l)
                                   /\ x \in {SignOf(c, k, "exe"), SignOf(c, k, "bundle")}
        BY <1>9, <3>1
      <4>2. PICK j \in ToSign(c) : /\ j \in Under(c, m)
                                   /\ y \in {SignOf(c, j, "exe"), SignOf(c, j, "bundle")}
        BY <1>9, <3>1
      <4>3. ~IsPrefix(K[k], K[j])
        <5>1. k \in B /\ j \in B /\ l \in Around(c)[k] /\ m \in Around(c)[j]
          BY <4>1, <4>2 DEF Under
        <5> QED
          BY <3>1, <5>1 DEF InOrder
      <4>4. IsPrefix(K[k], K[k])
        <5>1. K[k] \in Seq(Names)
          BY <4>1, KeysAre DEF Under
        <5> QED
          BY <5>1, PrefixIs
      <4>5. x.key = K[k] /\ y.key = K[j]
        BY <4>1, <4>2 DEF SignOf, Step
      <4> QED
        BY <4>3, <4>4, <4>5 DEF Before
    <3>2. /\ Inner(c, n, F) \in Seq(S)
          /\ \A x : x \in ToSet(Inner(c, n, F)) <=> \E m \in B : p(m) = n /\ x \in ToSet(F[m])
          /\ InsideOut(Inner(c, n, F))
      <4>1. \A b \in B : p(b) = n => InsideOut(F[b])
        BY <2>1
      <4> QED
        BY <1>6, <3>1, <4>1, InnerHas
    <3>3. ASSUME NEW x \in ToSet(Inner(c, n, F)), NEW y \in ToSet(own[n]) PROVE Before(x, y)
      <4>1. PICK b \in B : p(b) = n /\ x \in ToSet(F[b])
        BY <3>2
      <4>2. PICK k \in ToSign(c) : /\ k \in Under(c, b)
                                   /\ x \in {SignOf(c, k, "exe"), SignOf(c, k, "bundle")}
        BY <1>9, <4>1
      <4>3. y \in {SignOf(c, n, "exe"), SignOf(c, n, "bundle")}
        <5> HIDE DEF Own, B
        <5> QED
          BY <1>1, <1>2, <3>3
      <4>4. k \in Under(c, n) \ {n}
        BY <1>8, <4>1, <4>2
      <4>9. k \in B /\ K[n] \in Seq(Names) /\ K[k] \in Seq(Names)
        BY <4>4, KeysAre DEF Under
      <4>5. Len(K[n]) < Len(K[k])
        <5> HIDE DEF K
        <5> QED
          BY <4>4, UnderIs DEF K
      <4>6. Len(K[n]) \in Nat /\ Len(K[k]) \in Nat /\ ~(Len(K[k]) <= Len(K[n]))
        BY <4>5, <4>9, KeysGrow
      <4>7. ~IsPrefix(K[k], K[n]) /\ K[k] # K[n]
        BY <4>6, <4>9, PrefixIs
      <4>8. x.key = K[k] /\ y.key = K[n]
        BY <4>2, <4>3 DEF SignOf, Step
      <4> QED
        BY <4>7, <4>8 DEF Before
    <3>4. own[n] \in Seq(S) /\ InsideOut(own[n])
      <4> HIDE DEF Own, B
      <4> QED
        BY <1>1, <1>2
    <3>5. InsideOut(Inner(c, n, F) \o own[n])
      BY <3>2, <3>3, <3>4, InsideOutConcat
    <3>6. InsideOut(F[n])
      BY <1>7, <3>5
    <3> QED
      BY <3>6
  <2> HIDE DEF T2
  <2> QED
    BY <2>1, UpTheTree
<1>11. 1 \in B
  BY TreeIs
<1>12. \A n \in ToSign(c) : n \in B
  BY DEF ToSign
<1>13. \A n \in ToSign(c) : /\ SignOf(c, n, "exe") \in ToSet(F[1])
                            /\ SignOf(c, n, "bundle") \in ToSet(F[1])
  <2> HIDE DEF B, Own
  <2> QED
    BY <1>1, <1>2, <1>7, <1>12
<1>14. F[1] \in Seq(S) /\ InsideOut(F[1])
  BY <1>6, <1>10, <1>11
<1> QED
  BY <1>5, <1>13, <1>14 DEF S

-----------------------------------------------------------------------------
(* What the steps do to the bundle on disk.                                *)

Dos == {"chmodAll", "rm", "mkdir", "copy", "chmod", "error", "sign", "zip", "submit", "staple"}
AllSteps == [do : Dos, key : Seq(Names), what : Whats]

Places == Seq(Names) \X Whats
Disks == [files : SUBSET Places, stale : SUBSET Places, locked : SUBSET Seq(Names),
          sealed : SUBSET Places]

\* What the steps of populate and of sign do, and to what.
LEMMA StepsAre ==
    ASSUME NEW c, IsTree(c)
    PROVE  /\ Filling(c) \subseteq AllSteps
           /\ \A st \in Filling(c) : /\ st.do \in {"mkdir", "copy", "error", "chmod"}
                                     /\ \E n \in BundlesOf(c) : st.key = Keys(c)[n]
           /\ Signings(c) \subseteq AllSteps
           /\ \A st \in Signings(c) : \E n \in ToSign(c), what \in {"exe", "bundle"} :
                  /\ st = SignOf(c, n, what)
                  /\ st.do = "sign" /\ st.key = Keys(c)[n] /\ st.what = what
<1>1. /\ \A n \in BundlesOf(c) : Keys(c)[n] \in Seq(Names)
      /\ ToSign(c) \subseteq BundlesOf(c)
  BY KeysAre DEF ToSign
<1>2. ASSUME NEW st \in Filling(c)
      PROVE  /\ st \in AllSteps /\ st.do \in {"mkdir", "copy", "error", "chmod"}
             /\ \E n \in BundlesOf(c) : st.key = Keys(c)[n]
  <2>1. PICK n \in BundlesOf(c) : st \in FillsOf(Keys(c)[n])
    BY DEF Filling
  <2>2. PICK do \in {"mkdir", "copy", "error", "chmod"}, what \in Whats :
            st = Step(do, Keys(c)[n], what)
    BY <2>1 DEF FillsOf
  <2>3. do \in Dos
    BY DEF Dos
  <2> HIDE DEF Whats
  <2> QED
    BY <1>1, <2>2, <2>3 DEF Step, AllSteps
<1>3. ASSUME NEW st \in Signings(c)
      PROVE  /\ st \in AllSteps
             /\ \E n \in ToSign(c), what \in {"exe", "bundle"} :
                    /\ st = SignOf(c, n, what)
                    /\ st.do = "sign" /\ st.key = Keys(c)[n] /\ st.what = what
  <2>1. PICK n \in ToSign(c), what \in {"exe", "bundle"} : st = SignOf(c, n, what)
    BY DEF Signings
  <2>2. "sign" \in Dos /\ what \in Whats
    BY DEF Dos, Whats
  <2>3. st.do = "sign" /\ st.key = Keys(c)[n] /\ st.what = what
    BY <2>1 DEF SignOf, Step
  <2>4. st \in AllSteps
    BY <1>1, <2>1, <2>2 DEF SignOf, Step, AllSteps
  <2> QED
    BY <2>1, <2>3, <2>4
<1> QED
  BY <1>2, <1>3

\* What a step does to the files and to the signatures.
LEMMA DoIs ==
    ASSUME NEW st \in AllSteps, NEW d \in Disks
    PROVE  /\ Do(st, d) \in Disks
           /\ st.do # "rm" =>
                  /\ Do(st, d).stale \subseteq d.stale
                  /\ Do(st, d).files = IF st.do \in {"mkdir", "copy", "staple"}
                                       THEN d.files \cup {<<st.key, st.what>>} ELSE d.files
           /\ Do(st, d).sealed = CASE st.do = "rm"   -> {}
                                   [] st.do = "copy" ->
                                          d.sealed \ Broken(<<st.key, st.what>>, d.sealed)
                                   [] st.do = "sign" ->
                                          (d.sealed \ Broken(<<st.key, st.what>>, d.sealed))
                                          \cup {<<st.key, st.what>>, <<st.key, "exe">>}
                                   [] OTHER          -> d.sealed
<1> DEFINE f == <<st.key, st.what>>
           e == <<st.key, "exe">>
<1>1. st.do \in Dos /\ st.key \in Seq(Names) /\ st.what \in Whats
  BY DEF AllSteps
<1>2. f \in Places /\ e \in Places
  BY <1>1 DEF Places, Whats
<1> HIDE DEF f, e
<1>3. CASE st.do = "chmodAll"
  <2>1. Do(st, d) = [d EXCEPT !.locked = {}]
    BY <1>3 DEF Do
  <2> QED
    BY <1>3, <2>1 DEF Disks
<1>4. CASE st.do = "rm"
  <2>1. Do(st, d) = Nothing
    BY <1>4 DEF Do
  <2> QED
    BY <1>4, <2>1 DEF Disks, Nothing
<1>5. CASE st.do = "mkdir"
  <2>1. Do(st, d) = [d EXCEPT !.files = @ \cup {f}]
    BY <1>5 DEF Do, f
  <2> QED
    BY <1>2, <1>5, <2>1 DEF Disks, f
<1>6. CASE st.do = "copy"
  <2>1. Do(st, d) = [d EXCEPT !.files = @ \cup {f}, !.stale = @ \ {f}, !.sealed = @ \ Broken(f, @)]
    BY <1>6 DEF Do, f
  <2>2. /\ Do(st, d).files = d.files \cup {f} /\ Do(st, d).stale = d.stale \ {f}
        /\ Do(st, d).sealed = d.sealed \ Broken(f, d.sealed)
    BY <2>1 DEF Disks
  <2>3. Do(st, d) \in Disks
    <3> DEFINE x == d.files \cup {f}
               y == d.stale \ {f}
               z == d.sealed \ Broken(f, d.sealed)
    <3>1. x \in SUBSET Places /\ y \in SUBSET Places /\ z \in SUBSET Places
      BY <1>2 DEF Disks
    <3>2. Do(st, d) = [d EXCEPT !.files = x, !.stale = y, !.sealed = z]
      BY <2>1
    <3> HIDE DEF x, y, z
    <3> QED
      BY <3>1, <3>2 DEF Disks
  <2> QED
    BY <1>6, <2>2, <2>3 DEF f
<1>7. CASE st.do = "chmod"
  <2>1. Do(st, d) = [d EXCEPT !.locked = IF st.what = "lock" THEN @ \cup {st.key} ELSE @]
    BY <1>7 DEF Do
  <2> QED
    BY <1>1, <1>7, <2>1 DEF Disks
<1>8. CASE st.do = "sign"
  <2>1. Do(st, d) = [d EXCEPT !.sealed = (@ \ Broken(f, @)) \cup {f, e}]
    BY <1>8 DEF Do, f, e
  <2> QED
    BY <1>2, <1>8, <2>1 DEF Disks, f, e
<1>9. CASE st.do = "staple"
  <2>1. Do(st, d) = [d EXCEPT !.files = @ \cup {f}]
    BY <1>9 DEF Do, f
  <2> QED
    BY <1>2, <1>9, <2>1 DEF Disks, f
<1>10. CASE st.do \in {"error", "zip", "submit"}
  <2>1. Do(st, d) = d
    BY <1>10 DEF Do
  <2> QED
    BY <1>10, <2>1 DEF Disks
<1> QED
  BY <1>1, <1>3, <1>4, <1>5, <1>6, <1>7, <1>8, <1>9, <1>10 DEF Dos

\* Nothing is left of an earlier build, and each bundle is there, or made by one
\* of the steps q.
Filled(c, d, q) ==
    /\ d.stale = {}
    /\ \A f \in d.files : \E n \in BundlesOf(c) : f[1] = Keys(c)[n]
    /\ \A n \in BundlesOf(c) : \/ \E f \in d.files : f[1] = Keys(c)[n]
                               \/ Step("mkdir", Keys(c)[n], "bundle") \in ToSet(q)

\* Each bundle that is to be signed is, and left alone by the steps q, or
\* is signed by one of them.
Signed(c, d, q) ==
    /\ InsideOut(q)
    /\ \A n \in ToSign(c) :
           \/ SignOf(c, n, "bundle") \in ToSet(q)
           \/ /\ {Keys(c)[n]} \X {"exe", "bundle"} \subseteq d.sealed
              /\ \A y \in ToSet(q) : Before(SignOf(c, n, "bundle"), y)

\* A step of populate leaves what is to be there to the steps after it.
LEMMA FillKeeps ==
    ASSUME NEW c, IsTree(c), NEW d \in Disks, NEW q \in Seq(Filling(c)), q # <<>>,
           Filled(c, d, q)
    PROVE  /\ Head(q) \in AllSteps /\ Tail(q) \in Seq(Filling(c))
           /\ Filled(c, Do(Head(q), d), Tail(q))
           /\ Do(Head(q), d).sealed \subseteq d.sealed
<1> DEFINE st == Head(q)
           r == Tail(q)
           D == Do(st, d)
           F == Filling(c)
<1>1. st \in F /\ r \in Seq(F)
  BY DEF st, r
<1>2. ToSet(q) = {st} \cup ToSet(r)
  BY ToSetTail
<1> HIDE DEF st, r, F
<1>3. /\ st \in AllSteps /\ st.do \in {"mkdir", "copy", "error", "chmod"}
      /\ \E n \in BundlesOf(c) : st.key = Keys(c)[n]
  BY <1>1, StepsAre DEF F
<1>4. /\ D.stale \subseteq d.stale
      /\ D.files = IF st.do \in {"mkdir", "copy"}
                   THEN d.files \cup {<<st.key, st.what>>} ELSE d.files
      /\ D.sealed \subseteq d.sealed
  BY <1>3, DoIs
<1> HIDE DEF D
<1>5. D.stale = {}
  BY <1>4 DEF Filled
<1>6. ASSUME NEW f \in D.files PROVE \E n \in BundlesOf(c) : f[1] = Keys(c)[n]
  <2>1. CASE f \in d.files
    BY <2>1 DEF Filled
  <2>2. CASE f = <<st.key, st.what>>
    BY <1>3, <2>2
  <2> QED
    BY <1>4, <2>1, <2>2
<1>7. ASSUME NEW n \in BundlesOf(c)
      PROVE  \/ \E f \in D.files : f[1] = Keys(c)[n]
             \/ Step("mkdir", Keys(c)[n], "bundle") \in ToSet(r)
  <2>1. CASE \E f \in d.files : f[1] = Keys(c)[n]
    BY <1>4, <2>1
  <2>2. CASE Step("mkdir", Keys(c)[n], "bundle") = st
    <3>1. st.do = "mkdir" /\ st.key = Keys(c)[n]
      BY <2>2 DEF Step
    <3>2. <<st.key, st.what>> \in D.files
      BY <1>4, <3>1
    <3> QED
      BY <3>1, <3>2
  <2>3. CASE Step("mkdir", Keys(c)[n], "bundle") \in ToSet(r)
    BY <2>3
  <2> QED
    BY <1>2, <2>1, <2>2, <2>3 DEF Filled
<1>8. Filled(c, D, r)
  BY <1>5, <1>6, <1>7 DEF Filled
<1> QED
  BY <1>1, <1>3, <1>4, <1>8 DEF st, r, D, F

\* A step of sign breaks no signature that the steps after it do not make again.
LEMMA SignKeeps ==
    ASSUME NEW c, IsTree(c), Valid(c, FALSE), InOrder(c),
           NEW d \in Disks, NEW q \in Seq(Signings(c)), q # <<>>,
           Signed(c, d, q), Filled(c, d, <<>>)
    PROVE  /\ Head(q) \in AllSteps /\ Tail(q) \in Seq(Signings(c))
           /\ Filled(c, Do(Head(q), d), <<>>)
           /\ Signed(c, Do(Head(q), d), Tail(q))
           /\ \A y \in ToSet(Tail(q)) : Before(Head(q), y)
<1> DEFINE st == Head(q)
           r == Tail(q)
           D == Do(st, d)
           S == Signings(c)
           K == Keys(c)
<1>1. /\ st \in S /\ r \in Seq(S)
      /\ DOMAIN q = 1..Len(q) /\ Len(q) \in Nat \ {0} /\ DOMAIN r = 1..(Len(q) - 1)
      /\ q[1] = st /\ \A i \in 1..(Len(q) - 1) : r[i] = q[i + 1]
  BY DEF st, r
<1>2. ToSet(q) = {st} \cup ToSet(r)
  BY ToSetTail
<1> HIDE DEF st, r, S
<1>3. PICK m \in ToSign(c), what \in {"exe", "bundle"} :
          st = SignOf(c, m, what) /\ st.do = "sign" /\ st.key = K[m] /\ st.what = what
  BY <1>1, StepsAre DEF S
<1>4. st \in AllSteps
  BY <1>1, StepsAre DEF S
<1>5. /\ D.stale \subseteq d.stale /\ D.files = d.files
      /\ D.sealed = (d.sealed \ Broken(<<K[m], what>>, d.sealed))
                    \cup {<<K[m], what>>, <<K[m], "exe">>}
  BY <1>3, <1>4, DoIs
<1> HIDE DEF D
<1>6. Filled(c, D, <<>>)
  BY <1>5 DEF Filled
<1>7. InsideOut(r) /\ \A y \in ToSet(r) : Before(st, y)
  <2>1. \A i, j \in DOMAIN q : i < j => Before(q[i], q[j])
    BY DEF Signed, InsideOut
  <2>2. \A i \in DOMAIN r : i + 1 \in DOMAIN q /\ 1 < i + 1 /\ 1 \in DOMAIN q
    BY <1>1
  <2>3. \A i, j \in DOMAIN r : i < j => i + 1 < j + 1
    BY <1>1
  <2>4. InsideOut(r)
    BY <1>1, <2>1, <2>2, <2>3 DEF InsideOut
  <2>5. \A i \in DOMAIN r : Before(st, r[i])
    BY <1>1, <2>1, <2>2
  <2> QED
    BY <2>4, <2>5 DEF ToSet
<1>8. \A n \in ToSign(c) : IsPrefix(K[n], K[n]) /\ n \in BundlesOf(c)
  <2>1. \A n \in BundlesOf(c) : K[n] \in Seq(Names)
    BY KeysAre
  <2>2. \A n \in BundlesOf(c) : IsPrefix(K[n], K[n])
    BY <2>1, PrefixIs
  <2> QED
    BY <2>2 DEF ToSign
<1>9. \A x, y \in BundlesOf(c) : x # y => K[x] # K[y]
  BY KeysDiffer
<1> HIDE DEF K
<1>10. ASSUME NEW n \in ToSign(c), SignOf(c, n, "bundle") \notin ToSet(r)
       PROVE  /\ {K[n]} \X {"exe", "bundle"} \subseteq D.sealed
              /\ \A y \in ToSet(r) : Before(SignOf(c, n, "bundle"), y)
  <2>1. CASE st = SignOf(c, n, "bundle")
    <3>1. K[m] = K[n] /\ what = "bundle"
      BY <1>3, <2>1 DEF SignOf, Step, K
    <3>2. <<K[n], "bundle">> \in D.sealed /\ <<K[n], "exe">> \in D.sealed
      BY <1>5, <3>1
    <3> QED
      BY <1>7, <2>1, <3>2
  <2>2. CASE st # SignOf(c, n, "bundle")
    <3>1. /\ {K[n]} \X {"exe", "bundle"} \subseteq d.sealed
          /\ \A y \in ToSet(q) : Before(SignOf(c, n, "bundle"), y)
      BY <1>2, <1>10, <2>2 DEF Signed, K
    <3>2. Before(SignOf(c, n, "bundle"), st)
      BY <1>2, <3>1
    <3>3. ~IsPrefix(K[n], K[m])
      BY <1>3, <3>2 DEF Before, SignOf, Step, K
    <3>4. K[n] # K[m]
      BY <1>8, <3>3
    <3>5. /\ <<K[n], "exe">> \notin Broken(<<K[m], what>>, d.sealed)
          /\ <<K[n], "bundle">> \notin Broken(<<K[m], what>>, d.sealed)
      BY <3>3, <3>4 DEF Broken
    <3>6. <<K[n], "exe">> \in D.sealed /\ <<K[n], "bundle">> \in D.sealed
      BY <1>5, <3>1, <3>5
    <3> QED
      BY <1>2, <3>1, <3>6
  <2> QED
    BY <2>1, <2>2
<1>11. Signed(c, D, r)
  BY <1>7, <1>10 DEF Signed, K
<1> QED
  BY <1>1, <1>4, <1>6, <1>7, <1>11 DEF st, r, S, D

-----------------------------------------------------------------------------
(* How far a build is: the steps s of configuration c are to come, on bundle *)
(* d, with archive a and ticket k.  The last steps are t.                   *)

Ends(notary) == IF notary THEN {Notarize, <<Step("error", <<>>, "archive")>>} ELSE {<<>>}

Filler(c, t) == Populate(c) \o (Sign(c) \o t)

Cleaning(c, s, t) == \/ s = Clean(c) \o Filler(c, t)
                     \/ s = <<Step("rm", <<>>, "bundle")>> \o Filler(c, t)
Populating(c, s, d, t) ==
    \E q \in Seq(Filling(c)) : q # <<>> /\ s = q \o (Sign(c) \o t) /\ Filled(c, d, q)
Signing(c, s, d, t) ==
    \E q \in Seq(Signings(c)) : s = q \o t /\ Filled(c, d, <<>>) /\ Signed(c, d, q)
Stapled(d, a, k) == k = "current" /\ a = "none" /\ <<<<>>, "ticket">> \in d.files
Stapling(s, d, a, k) ==
    \/ s = Tail(Notarize) /\ a = "current"
    \/ s = Tail(Tail(Notarize)) /\ k = "current" /\ a = "none"
    \/ s = <<>> /\ Stapled(d, a, k)

AtPhase(c, notary, s, d, a, k) ==
    \/ \E t \in Ends(notary) : Cleaning(c, s, t) \/ Populating(c, s, d, t) \/ Signing(c, s, d, t)
    \/ notary /\ Filled(c, d, <<>>) /\ Signed(c, d, <<>>) /\ Stapling(s, d, a, k)

\* What a step that succeeds leaves of the archive and of the ticket.
Archived(st, a) == CASE st.do = "zip"    -> "current"
                     [] st.do = "submit" -> "none"
                     [] OTHER            -> Aged(st, a)
Ticketed(st, a, k) == IF st.do = "submit" THEN a ELSE Aged(st, k)

\* The first step of a concatenation, and the others.
LEMMA HeadTailConcat ==
    ASSUME NEW S, NEW q \in Seq(S), q # <<>>, NEW r \in Seq(S)
    PROVE  /\ q \o r # <<>> /\ Head(q \o r) = Head(q) /\ Tail(q \o r) = Tail(q) \o r
<1>1. Len(q) \in Nat \ {0} /\ Len(r) \in Nat /\ Len(q \o r) = Len(q) + Len(r)
  OBVIOUS
<1>2. Head(q \o r) = Head(q)
  OBVIOUS
<1> DEFINE x == Tail(q \o r)
           y == Tail(q) \o r
<1>3. /\ x \in Seq(S) /\ y \in Seq(S) /\ Len(x) = Len(q) + Len(r) - 1 /\ Len(y) = Len(x)
      /\ \A i \in 1..Len(x) : x[i] = y[i]
  BY <1>1
<1>4. x = y
  <2> HIDE DEF x, y
  <2> QED
    BY <1>3, SeqEqual
<1> QED
  BY <1>1, <1>2, <1>4

\* What a build ends with is there if it is notarized, and signs nothing.
LEMMA EndsAre ==
    ASSUME NEW notary \in BOOLEAN, NEW t \in Ends(notary)
    PROVE  /\ t \in Seq(AllSteps)
           /\ \A n \in DOMAIN t : t[n].do # "sign"
           /\ notary <=> t # <<>>
           /\ t # <<>> /\ Head(t).do # "error" => t = Notarize /\ notary
<1> DEFINE zip == Step("zip", <<>>, "archive")
           sub == Step("submit", <<>>, "archive")
           stp == Step("staple", <<>>, "ticket")
           err == Step("error", <<>>, "archive")
<1>1. <<>> \in Seq(Names)
  OBVIOUS
<1>2. /\ zip \in AllSteps /\ sub \in AllSteps /\ stp \in AllSteps /\ err \in AllSteps
  BY <1>1 DEF AllSteps, Step, Dos, Whats
<1>3. zip.do # "sign" /\ sub.do # "sign" /\ stp.do # "sign" /\ err.do = "error"
  BY DEF Step
<1>4. Notarize = <<zip, sub, stp>>
  BY DEF Notarize
<1>5. t = <<zip, sub, stp>> \/ t = <<err>> \/ t = <<>>
  BY <1>4 DEF Ends
<1>6. t \in {<<zip, sub, stp>>, <<err>>} <=> notary
  BY <1>4 DEF Ends
<1>7. t = <<>> <=> ~notary
  BY <1>4 DEF Ends
<1> HIDE DEF zip, sub, stp, err
<1>8. /\ <<zip, sub, stp>> \in Seq(AllSteps) /\ <<err>> \in Seq(AllSteps) /\ <<>> \in Seq(AllSteps)
      /\ <<err>> # <<>> /\ <<zip, sub, stp>> # <<>> /\ Head(<<err>>) = err
  BY <1>2
<1>9. /\ \A n \in DOMAIN <<zip, sub, stp>> : <<zip, sub, stp>>[n].do # "sign"
      /\ \A n \in DOMAIN <<err>> : <<err>>[n].do # "sign"
      /\ \A n \in DOMAIN <<>> : FALSE
  BY <1>3
<1>10. CASE t = <<>>
  BY <1>7, <1>8, <1>9, <1>10
<1>11. CASE t = <<err>>
  BY <1>3, <1>6, <1>8, <1>9, <1>11
<1>12. CASE t = <<zip, sub, stp>>
  BY <1>4, <1>6, <1>8, <1>9, <1>12
<1> QED
  BY <1>5, <1>10, <1>11, <1>12

\* The three steps of Notarize, one after the other.
LEMMA NotarizeIs ==
    /\ Notarize # <<>> /\ Head(Notarize) = Step("zip", <<>>, "archive")
    /\ Tail(Notarize) # <<>> /\ Head(Tail(Notarize)) = Step("submit", <<>>, "archive")
    /\ Tail(Tail(Notarize)) # <<>> /\ Head(Tail(Tail(Notarize))) = Step("staple", <<>>, "ticket")
    /\ Tail(Tail(Tail(Notarize))) = <<>>
<1> DEFINE zip == Step("zip", <<>>, "archive")
           sub == Step("submit", <<>>, "archive")
           stp == Step("staple", <<>>, "ticket")
<1>1. Notarize = <<zip, sub, stp>>
  BY DEF Notarize
<1> HIDE DEF zip, sub, stp
<1>2. /\ Tail(<<zip, sub, stp>>) = <<sub, stp>>
      /\ Tail(<<sub, stp>>) = <<stp>> /\ Tail(<<stp>>) = <<>>
      /\ Head(<<zip, sub, stp>>) = zip /\ Head(<<sub, stp>>) = sub /\ Head(<<stp>>) = stp
      /\ <<zip, sub, stp>> # <<>> /\ <<sub, stp>> # <<>> /\ <<stp>> # <<>>
  OBVIOUS
<1> QED
  BY <1>1, <1>2 DEF zip, sub, stp

\* The parts that the steps are put together from are sequences of steps.
LEMMA PartsAre ==
    ASSUME NEW c, IsTree(c), Valid(c, FALSE), InOrder(c), NEW notary \in BOOLEAN,
           NEW t \in Ends(notary)
    PROVE  /\ Clean(c) \in Seq(AllSteps) /\ Populate(c) \in Seq(AllSteps)
           /\ Sign(c) \in Seq(AllSteps) /\ t \in Seq(AllSteps)
           /\ Sign(c) \o t \in Seq(AllSteps) /\ Filler(c, t) \in Seq(AllSteps)
           /\ <<Step("rm", <<>>, "bundle")>> \in Seq(AllSteps)
           /\ Populate(c) # <<>> /\ Clean(c) # <<>>
           /\ Head(Clean(c)) = Step(IF c.ext THEN "chmodAll" ELSE "error", <<>>, "bundle")
           /\ Tail(Clean(c)) = <<Step(IF c.ext THEN "rm" ELSE "error", <<>>, "bundle")>>
<1> DEFINE x == Step(IF c.ext THEN "chmodAll" ELSE "error", <<>>, "bundle")
           y == Step(IF c.ext THEN "rm" ELSE "error", <<>>, "bundle")
           z == Step("rm", <<>>, "bundle")
           A == AllSteps
<1>1. <<>> \in Seq(Names)
  OBVIOUS
<1>2. x \in A /\ y \in A /\ z \in A
  BY <1>1 DEF AllSteps, Step, Dos, Whats
<1>3. Clean(c) = <<x, y>>
  BY DEF Clean
<1>4. Populate(c) \in Seq(A) /\ Sign(c) \in Seq(A)
  <2>1. Filling(c) \subseteq A /\ Signings(c) \subseteq A
    BY StepsAre
  <2>2. Populate(c) \in Seq(Filling(c)) /\ Sign(c) \in Seq(Signings(c))
    BY PopulateIs, SignIs
  <2> HIDE DEF A
  <2> QED
    BY <2>1, <2>2
<1>5. t \in Seq(A)
  BY EndsAre
<1>6. Populate(c) # <<>>
  <2>1. \E m : m \in ToSet(Populate(c))
    BY TreeIs, PopulateIs
  <2>2. ToSet(<<>>) = {}
    <3>1. DOMAIN <<>> = {}
      OBVIOUS
    <3> QED
      BY <3>1 DEF ToSet
  <2> QED
    BY <2>1, <2>2
<1> HIDE DEF x, y, z, A
<1>7. <<x, y>> \in Seq(A) /\ <<z>> \in Seq(A) /\ <<x, y>> # <<>> /\ Head(<<x, y>>) = x
      /\ Tail(<<x, y>>) = <<y>>
  BY <1>2
<1>8. Sign(c) \o t \in Seq(A) /\ Populate(c) \o (Sign(c) \o t) \in Seq(A)
  BY <1>4, <1>5
<1> QED
  BY <1>3, <1>4, <1>5, <1>6, <1>7, <1>8 DEF x, y, z, A, Filler

\* When the bundle has been removed, populate makes all that is to be there.
LEMMA NothingIsFilled ==
    ASSUME NEW c, IsTree(c)
    PROVE  Filled(c, Nothing, Populate(c))
BY PopulateIs DEF Filled, Nothing

\* A bundle that has been filled is signed by the steps that follow.
LEMMA SigningBegins ==
    ASSUME NEW c, IsTree(c), Valid(c, FALSE), InOrder(c), NEW d
    PROVE  Signed(c, d, Sign(c))
BY SignIs DEF Signed

\* A step that succeeds leads on.
LEMMA PhaseMoves ==
    ASSUME NEW c, IsTree(c), Valid(c, FALSE), InOrder(c), NEW notary \in BOOLEAN,
           NEW s \in Seq(AllSteps), s # <<>>, NEW d \in Disks, NEW a, NEW k,
           AtPhase(c, notary, s, d, a, k), Head(s).do # "error"
    PROVE  AtPhase(c, notary, Tail(s), Do(Head(s), d),
                   Archived(Head(s), a), Ticketed(Head(s), a, k))
<1> DEFINE st == Head(s)
           r == Tail(s)
           D == Do(st, d)
           A == AllSteps
           a2 == Archived(st, a)
           k2 == Ticketed(st, a, k)
<1>1. ASSUME NEW t \in Ends(notary), Cleaning(c, s, t)
      PROVE  Cleaning(c, r, t) \/ Populating(c, r, D, t)
  <2> DEFINE rm == Step("rm", <<>>, "bundle")
             f == Filler(c, t)
             C == Clean(c)
  <2>1. /\ C \in Seq(A) /\ f \in Seq(A) /\ <<rm>> \in Seq(A) /\ C # <<>>
        /\ Head(C) = Step(IF c.ext THEN "chmodAll" ELSE "error", <<>>, "bundle")
        /\ Tail(C) = <<Step(IF c.ext THEN "rm" ELSE "error", <<>>, "bundle")>>
    BY PartsAre
  <2>2. Head(<<rm>>) = rm /\ Tail(<<rm>>) = <<>> /\ <<rm>> # <<>>
    OBVIOUS
  <2> HIDE DEF f, C, rm
  <2>3. CASE s = C \o f
    <3>1. Head(s) = Head(C) /\ Tail(s) = Tail(C) \o f
      BY <2>1, <2>3, HeadTailConcat
    <3>2. c.ext
      BY <2>1, <3>1 DEF Step
    <3>3. Tail(s) = <<rm>> \o f
      BY <2>1, <3>1, <3>2 DEF rm
    <3> QED
      BY <3>3 DEF Cleaning, rm, f
  <2>4. CASE s = <<rm>> \o f
    <3>1. Head(s) = rm /\ Tail(s) = <<>> \o f
      BY <2>1, <2>2, <2>4, HeadTailConcat
    <3>2. <<>> \o f = f
      BY <2>1
    <3>3. D = Nothing
      BY <3>1 DEF rm, Step, Do
    <3>4. Filled(c, D, Populate(c))
      BY <3>3, NothingIsFilled
    <3>5. Populate(c) \in Seq(Filling(c)) /\ Populate(c) # <<>>
      BY PopulateIs, PartsAre
    <3>6. r = Populate(c) \o (Sign(c) \o t)
      BY <3>1, <3>2 DEF f, Filler
    <3> HIDE DEF r, D
    <3> QED
      BY <3>4, <3>5, <3>6 DEF Populating
  <2> QED
    BY <1>1, <2>3, <2>4 DEF Cleaning, C, f, rm
<1>2. ASSUME NEW t \in Ends(notary), Populating(c, s, d, t)
      PROVE  Populating(c, r, D, t) \/ Signing(c, r, D, t)
  <2>1. PICK q \in Seq(Filling(c)) : q # <<>> /\ s = q \o (Sign(c) \o t) /\ Filled(c, d, q)
    BY <1>2 DEF Populating
  <2> DEFINE f == Sign(c) \o t
  <2>2. f \in Seq(A) /\ q \in Seq(A)
    <3>1. Filling(c) \subseteq A
      BY StepsAre
    <3>2. f \in Seq(A)
      BY PartsAre
    <3> HIDE DEF A, f
    <3> QED
      BY <3>1, <3>2
  <2>3. Head(s) = Head(q) /\ Tail(s) = Tail(q) \o f
    <3> HIDE DEF f
    <3> QED
      BY <2>1, <2>2, HeadTailConcat DEF f
  <2>4. Tail(q) \in Seq(Filling(c)) /\ Filled(c, D, Tail(q))
    BY <2>1, <2>3, FillKeeps
  <2>5. CASE Tail(q) # <<>>
    <3> DEFINE tq == Tail(q)
    <3>1. tq \in Seq(Filling(c)) /\ tq # <<>> /\ r = tq \o f /\ Filled(c, D, tq)
      BY <2>3, <2>4, <2>5
    <3> HIDE DEF tq, r, D
    <3> QED
      BY <3>1 DEF Populating
  <2>6. CASE Tail(q) = <<>>
    <3>1. r = f
      <4>1. <<>> \o f = f
        <5> HIDE DEF f, A
        <5> QED
          BY <2>2
      <4> HIDE DEF f
      <4> QED
        BY <2>3, <2>6, <4>1
    <3>2. Sign(c) \in Seq(Signings(c)) /\ Signed(c, D, Sign(c)) /\ Filled(c, D, <<>>)
      BY <2>4, <2>6, SignIs, SigningBegins
    <3> HIDE DEF r, D
    <3> QED
      BY <3>1, <3>2 DEF Signing
  <2> QED
    BY <2>5, <2>6
<1>3. ASSUME NEW t \in Ends(notary), Signing(c, s, d, t)
      PROVE  \/ Signing(c, r, D, t)
             \/ notary /\ Filled(c, D, <<>>) /\ Signed(c, D, <<>>) /\ Stapling(r, D, a2, k2)
  <2>1. PICK q \in Seq(Signings(c)) : s = q \o t /\ Filled(c, d, <<>>) /\ Signed(c, d, q)
    BY <1>3 DEF Signing
  <2>2. t \in Seq(A) /\ q \in Seq(A)
    <3>1. Signings(c) \subseteq A
      BY StepsAre
    <3>2. t \in Seq(A)
      BY EndsAre
    <3> HIDE DEF A
    <3> QED
      BY <3>1, <3>2
  <2>3. CASE q # <<>>
    <3>1. Head(s) = Head(q) /\ Tail(s) = Tail(q) \o t
      BY <2>1, <2>2, <2>3, HeadTailConcat
    <3> DEFINE tq == Tail(q)
    <3>2. tq \in Seq(Signings(c)) /\ Filled(c, D, <<>>) /\ Signed(c, D, tq) /\ r = tq \o t
      BY <2>1, <2>3, <3>1, SignKeeps
    <3> HIDE DEF r, D, tq
    <3> QED
      BY <3>2 DEF Signing
  <2>4. CASE q = <<>>
    <3>1. s = t
      BY <2>1, <2>2, <2>4
    <3>2. s = Notarize /\ notary
      BY <3>1, EndsAre
    <3>3. st.do = "zip" /\ r = Tail(Notarize)
      BY <3>2, NotarizeIs DEF Step
    <3>4. D = d
      BY <3>3 DEF Do
    <3>5. a2 = "current"
      BY <3>3 DEF Archived
    <3> QED
      BY <2>1, <2>4, <3>2, <3>3, <3>4, <3>5 DEF Stapling
  <2> QED
    BY <2>3, <2>4
<1>4. ASSUME Filled(c, d, <<>>), Signed(c, d, <<>>), Stapling(s, d, a, k)
      PROVE  Filled(c, D, <<>>) /\ Signed(c, D, <<>>) /\ Stapling(r, D, a2, k2)
  <2>1. CASE s = Tail(Notarize) /\ a = "current"
    <3>1. st.do = "submit" /\ r = Tail(Tail(Notarize))
      BY <2>1, NotarizeIs DEF Step
    <3>2. D = d /\ k2 = "current" /\ a2 = "none"
      BY <2>1, <3>1 DEF Do, Archived, Ticketed
    <3> HIDE DEF D, k2, a2, r
    <3> QED
      BY <1>4, <3>1, <3>2 DEF Stapling
  <2>2. CASE s = Tail(Tail(Notarize)) /\ k = "current" /\ a = "none"
    <3>1. st = Step("staple", <<>>, "ticket") /\ r = <<>>
      BY <2>2, NotarizeIs
    <3>2. st.do = "staple" /\ st.key = <<>> /\ st.what = "ticket" /\ st \in AllSteps
      BY <3>1 DEF Step
    <3>3. /\ D.stale \subseteq d.stale /\ D.files = d.files \cup {<<<<>>, "ticket">>}
          /\ D.sealed = d.sealed
      BY <3>2, DoIs
    <3>4. a2 = a /\ k2 = k
      BY <3>2 DEF Archived, Ticketed, Aged
    <3> HIDE DEF D, r, a2, k2, st
    <3>5. 1 \in BundlesOf(c) /\ Keys(c)[1] = <<>>
      BY TreeIs, KeysGrow
    <3>6. Filled(c, D, <<>>)
      <4>1. \A f \in D.files : \E n \in BundlesOf(c) : f[1] = Keys(c)[n]
        <5> SUFFICES ASSUME NEW f \in D.files PROVE \E n \in BundlesOf(c) : f[1] = Keys(c)[n]
          OBVIOUS
        <5>1. CASE f \in d.files
          BY <1>4, <5>1 DEF Filled
        <5>2. CASE f = <<<<>>, "ticket">>
          BY <3>5, <5>2
        <5> QED
          BY <3>3, <5>1, <5>2
      <4> QED
        BY <1>4, <3>3, <4>1 DEF Filled
    <3>7. Signed(c, D, <<>>)
      BY <1>4, <3>3 DEF Signed
    <3>8. Stapling(r, D, a2, k2)
      BY <2>2, <3>1, <3>3, <3>4 DEF Stapling, Stapled
    <3> QED
      BY <3>6, <3>7, <3>8
  <2> QED
    BY <1>4, <2>1, <2>2 DEF Stapling
<1> HIDE DEF st, r, D, a2, k2
<1>5. AtPhase(c, notary, r, D, a2, k2)
  BY <1>1, <1>2, <1>3, <1>4 DEF AtPhase
<1> QED
  BY <1>5 DEF st, r, D, a2, k2

-----------------------------------------------------------------------------
(* What a step means for the signatures.                                   *)

AllToCome(c, s) == \A n \in ToSign(c) : /\ SignOf(c, n, "exe") \in ToSet(s)
                                        /\ SignOf(c, n, "bundle") \in ToSet(s)
NoneToCome(c, s) == \A n \in ToSign(c) : /\ SignOf(c, n, "exe") \notin ToSet(s)
                                         /\ SignOf(c, n, "bundle") \notin ToSet(s)
InsideOf(c, n) == {m \in BundlesOf(c) : IsStrictPrefix(Keys(c)[n], Keys(c)[m])}
SealedOf(c, d) == {n \in BundlesOf(c) : <<Keys(c)[n], "bundle">> \in d.sealed}

\* To sign an executable breaks the signatures of its bundle and of those around
\* it, to sign a bundle only the latter.
SignBreaks(c, d, n) ==
    /\ SealedOf(c, Do(SignOf(c, n, "exe"), d)) =
           SealedOf(c, d) \ ({n} \cup {m \in BundlesOf(c) : n \in InsideOf(c, m)})
    /\ SealedOf(c, Do(SignOf(c, n, "bundle"), d)) =
           (SealedOf(c, d) \ {m \in BundlesOf(c) : n \in InsideOf(c, m)}) \cup {n}

\* A signature is broken by another below it only.
LEMMA SealsAre ==
    ASSUME NEW c, IsTree(c), Valid(c, FALSE), InOrder(c), NEW d \in Disks, NEW n \in ToSign(c)
    PROVE  SignBreaks(c, d, n)
<1> DEFINE B == BundlesOf(c)
           K == Keys(c)
<1>1. n \in B /\ \A x, y \in B : x # y => K[x] # K[y]
  BY KeysDiffer DEF ToSign
<1>2. IsPrefix(K[n], K[n])
  <2>1. K[n] \in Seq(Names)
    BY <1>1, KeysAre
  <2> QED
    BY <2>1, PrefixIs
<1>3. SignOf(c, n, "exe") \in Signings(c) /\ SignOf(c, n, "bundle") \in Signings(c)
  BY DEF Signings
<1>4. SignOf(c, n, "exe") \in AllSteps /\ SignOf(c, n, "bundle") \in AllSteps
  BY <1>3, StepsAre
<1>5. ASSUME NEW what \in {"exe", "bundle"}
      PROVE  Do(SignOf(c, n, what), d).sealed =
                 (d.sealed \ Broken(<<K[n], what>>, d.sealed))
                 \cup {<<K[n], what>>, <<K[n], "exe">>}
  <2>1. /\ SignOf(c, n, what) \in AllSteps /\ SignOf(c, n, what).do = "sign"
        /\ SignOf(c, n, what).key = K[n] /\ SignOf(c, n, what).what = what
    BY <1>4 DEF SignOf, Step
  <2> QED
    BY <2>1, DoIs
<1>6. \A m \in B : n \in InsideOf(c, m) <=> IsPrefix(K[m], K[n]) /\ K[m] # K[n]
  BY <1>1 DEF InsideOf, IsStrictPrefix
<1> HIDE DEF B, K
<1>7. ASSUME NEW what \in {"exe", "bundle"}, NEW m \in B
      PROVE  <<K[m], "bundle">> \in Do(SignOf(c, n, what), d).sealed <=>
                 \/ what = "bundle" /\ m = n
                 \/ <<K[m], "bundle">> \in d.sealed /\ ~IsPrefix(K[m], K[n])
  <2>1. <<K[m], "bundle">> = <<K[n], what>> <=> what = "bundle" /\ m = n
    BY <1>1
  <2>2. <<K[m], "bundle">> \in Broken(<<K[n], what>>, d.sealed) <=>
            /\ <<K[m], "bundle">> \in d.sealed
            /\ <<K[m], "bundle">> = <<K[n], what>> \/ IsPrefix(K[m], K[n])
    BY DEF Broken
  <2>3. <<K[m], "bundle">> # <<K[n], "exe">>
    OBVIOUS
  <2> HIDE DEF B
  <2> QED
    BY <1>2, <1>5, <2>1, <2>2, <2>3
<1>8. \A m \in B : IsPrefix(K[m], K[n]) <=> m = n \/ n \in InsideOf(c, m)
  BY <1>1, <1>2, <1>6
<1>9. ASSUME NEW m \in B
      PROVE  /\ <<K[m], "bundle">> \in Do(SignOf(c, n, "exe"), d).sealed <=>
                    <<K[m], "bundle">> \in d.sealed /\ m # n /\ n \notin InsideOf(c, m)
             /\ <<K[m], "bundle">> \in Do(SignOf(c, n, "bundle"), d).sealed <=>
                    m = n \/ (<<K[m], "bundle">> \in d.sealed /\ n \notin InsideOf(c, m))
  BY <1>7, <1>8
<1> QED
  BY <1>1, <1>9 DEF SignBreaks, SealedOf, B, K

\* The step st, with r after it, changes contents before anything is signed, or
\* signs an executable or a bundle, of which the rest are to come, or is one
\* of those that follow.
Acts(c, st, r, s, d) ==
    \/ AllToCome(c, s) /\ AllToCome(c, r) /\ Do(st, d).sealed \subseteq d.sealed
    \/ \E n \in ToSign(c) :
           /\ st = SignOf(c, n, "exe") /\ SignOf(c, n, "exe") \notin ToSet(r)
           /\ SignOf(c, n, "bundle") \in ToSet(s)
    \/ \E n \in ToSign(c) :
           /\ st = SignOf(c, n, "bundle") /\ SignOf(c, n, "bundle") \notin ToSet(r)
           /\ SignOf(c, n, "exe") \notin ToSet(s)
           /\ \A m \in ToSign(c) : m \in InsideOf(c, n) => SignOf(c, m, "bundle") \notin ToSet(s)
    \/ NoneToCome(c, s) /\ NoneToCome(c, r) /\ Do(st, d).sealed = d.sealed

\* At each phase a step does one of those things.
LEMMA PhaseActs ==
    ASSUME NEW c, IsTree(c), Valid(c, FALSE), InOrder(c), NEW notary \in BOOLEAN,
           NEW s \in Seq(AllSteps), s # <<>>, NEW d \in Disks, NEW a, NEW k,
           AtPhase(c, notary, s, d, a, k), Head(s).do # "error"
    PROVE  Acts(c, Head(s), Tail(s), s, d) /\ ToSet(s) = {Head(s)} \cup ToSet(Tail(s))
<1> DEFINE st == Head(s)
           r == Tail(s)
           D == Do(st, d)
           A == AllSteps
           sg == Sign(c)
<1>0. ToSet(s) = {st} \cup ToSet(r)
  BY ToSetTail
<1>1. sg \in Seq(A) /\ \A n \in ToSign(c) : /\ SignOf(c, n, "exe") \in ToSet(sg)
                                            /\ SignOf(c, n, "bundle") \in ToSet(sg)
  <2>1. Signings(c) \subseteq A /\ sg \in Seq(Signings(c))
    BY SignIs, StepsAre
  <2>2. sg \in Seq(A)
    <3> HIDE DEF A, sg
    <3> QED
      BY <2>1
  <2> QED
    BY <2>2, SignIs
<1> HIDE DEF sg
<1>2. ASSUME NEW q \in Seq(A), NEW t \in Seq(A), NEW x, x = q \o (sg \o t)
      PROVE  AllToCome(c, x)
  <2> DEFINE f == sg \o t
  <2>1. f \in Seq(A)
    <3> HIDE DEF A
    <3> QED
      BY <1>1
  <2>2. ToSet(f) = ToSet(sg) \cup ToSet(t)
    BY <1>1, ToSetConcat
  <2>3. ToSet(q \o f) = ToSet(q) \cup ToSet(f)
    <3> HIDE DEF f
    <3> QED
      BY <2>1, ToSetConcat
  <2> QED
    BY <1>1, <1>2, <2>2, <2>3 DEF AllToCome
<1>3. ASSUME NEW t \in Ends(notary), Cleaning(c, s, t)
      PROVE  AllToCome(c, s) /\ AllToCome(c, r) /\ D.sealed \subseteq d.sealed
  <2> DEFINE rm == Step("rm", <<>>, "bundle")
             R == <<rm>>
             P == Populate(c)
             f == sg \o t
             C == Clean(c)
  <2>1. /\ C \in Seq(A) /\ P \in Seq(A) /\ f \in Seq(A) /\ t \in Seq(A) /\ R \in Seq(A)
        /\ P \o f \in Seq(A) /\ C # <<>>
        /\ Head(C) = Step(IF c.ext THEN "chmodAll" ELSE "error", <<>>, "bundle")
        /\ Tail(C) = <<Step(IF c.ext THEN "rm" ELSE "error", <<>>, "bundle")>>
    BY PartsAre DEF Filler, sg
  <2>2. Head(R) = rm /\ Tail(R) = <<>> /\ R # <<>>
    OBVIOUS
  <2>3. s = C \o (P \o f) \/ s = R \o (P \o f)
    BY <1>3 DEF Cleaning, Filler, sg
  <2> HIDE DEF f, C, rm, P, R
  <2>4. /\ C \o P \in Seq(A) /\ R \o P \in Seq(A)
        /\ C \o (P \o f) = (C \o P) \o f /\ R \o (P \o f) = (R \o P) \o f
    <3> HIDE DEF A
    <3>1. C \o P \in Seq(A) /\ R \o P \in Seq(A)
      BY <2>1
    <3>2. ASSUME NEW x \in Seq(A) PROVE x \o (P \o f) = (x \o P) \o f
      <4>1. P \in Seq(A) /\ f \in Seq(A)
        BY <2>1
      <4> QED
        BY ONLY <3>2, <4>1, ConcatAssociative
    <3>3. C \o (P \o f) = (C \o P) \o f /\ R \o (P \o f) = (R \o P) \o f
      BY <2>1, <3>2
    <3> QED
      BY <3>1, <3>2, <3>3
  <2>5. AllToCome(c, s)
    BY <1>2, <2>1, <2>3, <2>4 DEF f
  <2>6. /\ s = C \o (P \o f) => Head(s) = Head(C) /\ Tail(s) = Tail(C) \o (P \o f)
        /\ s = R \o (P \o f) => Head(s) = rm /\ Tail(s) = <<>> \o (P \o f)
    <3> DEFINE g == P \o f
    <3>1. g \in Seq(A)
      BY <2>1
    <3> HIDE DEF g
    <3>2. ASSUME NEW x \in Seq(A), x # <<>>
          PROVE  Head(x \o g) = Head(x) /\ Tail(x \o g) = Tail(x) \o g
      BY ONLY <3>1, <3>2, HeadTailConcat
    <3>3. /\ Head(C \o g) = Head(C) /\ Tail(C \o g) = Tail(C) \o g
          /\ Head(R \o g) = rm /\ Tail(R \o g) = <<>> \o g
      BY <2>1, <2>2, <3>2
    <3> QED
      BY <3>3 DEF g
  <2>7. CASE s = C \o (P \o f)
    <3>1. c.ext
      BY <2>1, <2>6, <2>7 DEF Step
    <3>2. r = (R \o P) \o f
      BY <2>1, <2>4, <2>6, <2>7, <3>1 DEF rm, R
    <3>3. AllToCome(c, r)
      <4> HIDE DEF r
      <4> QED
        BY <1>2, <2>1, <2>4, <3>2 DEF f
    <3>4. st.do = "chmodAll" /\ st \in A
      BY <2>1, <2>6, <2>7, <3>1 DEF Step
    <3>5. D.sealed = d.sealed
      BY <3>4, DoIs
    <3> QED
      BY <2>5, <3>3, <3>5
  <2>8. CASE s = R \o (P \o f)
    <3>1. r = P \o f
      <4>1. <<>> \o (P \o f) = P \o f
        <5> HIDE DEF A
        <5> QED
          BY <2>1
      <4> QED
        BY <2>6, <2>8, <4>1
    <3>2. AllToCome(c, r)
      <4> HIDE DEF r
      <4> QED
        BY <1>2, <2>1, <3>1 DEF f
    <3>3. st.do = "rm" /\ st \in A
      BY <2>6, <2>8 DEF Step, rm
    <3>4. D.sealed = {}
      BY <3>3, DoIs
    <3> QED
      BY <2>5, <3>2, <3>4
  <2> QED
    BY <2>3, <2>7, <2>8
<1>4. ASSUME NEW t \in Ends(notary), Populating(c, s, d, t)
      PROVE  AllToCome(c, s) /\ AllToCome(c, r) /\ D.sealed \subseteq d.sealed
  <2>1. PICK q \in Seq(Filling(c)) : q # <<>> /\ s = q \o (sg \o t) /\ Filled(c, d, q)
    BY <1>4 DEF Populating, sg
  <2> DEFINE f == sg \o t
             tq == Tail(q)
  <2>2. f \in Seq(A) /\ q \in Seq(A) /\ t \in Seq(A) /\ tq \in Seq(A)
    <3>1. Filling(c) \subseteq A
      BY StepsAre
    <3>2. f \in Seq(A) /\ t \in Seq(A)
      BY PartsAre DEF sg
    <3>3. tq \in Seq(Filling(c))
      BY <2>1
    <3> HIDE DEF A, f, tq
    <3> QED
      BY <3>1, <3>2, <3>3
  <2>3. st = Head(q) /\ r = tq \o f
    <3> HIDE DEF f
    <3> QED
      BY <2>1, <2>2, HeadTailConcat DEF f
  <2>4. D.sealed \subseteq d.sealed
    BY <2>1, <2>3, FillKeeps
  <2> HIDE DEF r, D, tq, st
  <2> QED
    BY <1>2, <2>1, <2>2, <2>3, <2>4
<1>5. ASSUME NEW t \in Ends(notary), Signing(c, s, d, t)
      PROVE  Acts(c, st, r, s, d)
  <2>1. PICK q \in Seq(Signings(c)) : s = q \o t /\ Filled(c, d, <<>>) /\ Signed(c, d, q)
    BY <1>5 DEF Signing
  <2>2. t \in Seq(A) /\ q \in Seq(A)
    <3>1. Signings(c) \subseteq A
      BY StepsAre
    <3>2. t \in Seq(A)
      BY EndsAre
    <3> HIDE DEF A
    <3> QED
      BY <3>1, <3>2
  <2>3. \A n \in ToSign(c) : /\ SignOf(c, n, "exe") \notin ToSet(t)
                             /\ SignOf(c, n, "bundle") \notin ToSet(t)
    <3>1. \A y \in ToSet(t) : y.do # "sign"
      BY EndsAre DEF ToSet
    <3> QED
      BY <3>1 DEF SignOf, Step
  <2>4. CASE q = <<>>
    <3>1. s = t
      BY <2>1, <2>2, <2>4
    <3>2. s = Notarize
      BY <3>1, EndsAre
    <3>3. st.do = "zip"
      BY <3>2, NotarizeIs DEF Step
    <3>4. D.sealed = d.sealed
      BY <3>3 DEF Do
    <3>5. NoneToCome(c, s) /\ NoneToCome(c, r)
      BY <1>0, <2>3, <3>1 DEF NoneToCome
    <3> QED
      BY <3>4, <3>5 DEF Acts
  <2>5. CASE q # <<>>
    <3> DEFINE tq == Tail(q)
    <3>1. st = Head(q) /\ r = tq \o t
      BY <2>1, <2>2, <2>5, HeadTailConcat
    <3>2. tq \in Seq(Signings(c)) /\ \A y \in ToSet(tq) : Before(st, y)
      BY <2>1, <2>5, <3>1, SignKeeps
    <3>3. st \in Signings(c)
      BY <2>5, <3>1
    <3>4. ToSet(q) = {st} \cup ToSet(tq)
      BY <2>5, <3>1, ToSetTail
    <3>5. tq \in Seq(A)
      <4>1. Signings(c) \subseteq A
        BY StepsAre
      <4> HIDE DEF A, tq
      <4> QED
        BY <3>2, <4>1
    <3> HIDE DEF st, r, tq
    <3>6. ToSet(r) = ToSet(tq) \cup ToSet(t) /\ ToSet(s) = ToSet(q) \cup ToSet(t)
      BY <2>1, <2>2, <3>1, <3>5, ToSetConcat
    <3>7. PICK n \in ToSign(c), what \in {"exe", "bundle"} : st = SignOf(c, n, what)
      BY <3>3 DEF Signings
    <3>8. \A m \in ToSign(c), w \in {"exe", "bundle"} :
              /\ SignOf(c, m, w).key = Keys(c)[m] /\ SignOf(c, m, w).what = w
              /\ IsPrefix(Keys(c)[m], Keys(c)[m]) /\ m \in BundlesOf(c)
      <4>1. \A m \in ToSign(c) : m \in BundlesOf(c) /\ Keys(c)[m] \in Seq(Names)
        BY KeysAre DEF ToSign
      <4>2. \A m \in ToSign(c) : IsPrefix(Keys(c)[m], Keys(c)[m])
        BY <4>1, PrefixIs
      <4> QED
        BY <4>1, <4>2 DEF SignOf, Step
    <3>9. st \notin ToSet(r)
      BY <2>3, <3>2, <3>6, <3>7 DEF Before
    <3>10. CASE what = "exe"
      <4>1. SignOf(c, n, "bundle") \in ToSet(q)
        <5>1. SUFFICES ASSUME \A y \in ToSet(q) : Before(SignOf(c, n, "bundle"), y)
                       PROVE  FALSE
          BY <2>1 DEF Signed
        <5>2. Before(SignOf(c, n, "bundle"), SignOf(c, n, "exe"))
          BY <3>4, <3>7, <3>10, <5>1
        <5> QED
          BY <3>8, <5>2 DEF Before
      <4> QED
        BY <3>6, <3>7, <3>9, <3>10, <4>1 DEF Acts
    <3>11. CASE what = "bundle"
      <4>1. st.what = "bundle" /\ st.key = Keys(c)[n]
        BY <3>7, <3>8, <3>11
      <4>2. SignOf(c, n, "exe") \notin ToSet(s)
        <5>1. SignOf(c, n, "exe") # st
          BY <3>8, <4>1
        <5>2. ~Before(st, SignOf(c, n, "exe"))
          BY <3>8, <4>1 DEF Before
        <5> QED
          BY <2>3, <3>2, <3>4, <3>6, <5>1, <5>2
      <4>3. ASSUME NEW m \in ToSign(c), m \in InsideOf(c, n)
            PROVE  SignOf(c, m, "bundle") \notin ToSet(s)
        <5>1. IsPrefix(Keys(c)[n], Keys(c)[m]) /\ Keys(c)[n] # Keys(c)[m]
          BY <4>3 DEF InsideOf, IsStrictPrefix
        <5>2. SignOf(c, m, "bundle") # st
          BY <3>8, <4>1, <5>1
        <5>3. ~Before(st, SignOf(c, m, "bundle"))
          BY <3>8, <4>1, <5>1 DEF Before
        <5> QED
          BY <2>3, <3>2, <3>4, <3>6, <5>2, <5>3
      <4> QED
        BY <3>7, <3>9, <3>11, <4>2, <4>3 DEF Acts
    <3> QED
      BY <3>10, <3>11
  <2> QED
    BY <2>4, <2>5
<1>6. ASSUME Stapling(s, d, a, k)
      PROVE  Acts(c, st, r, s, d)
  <2>1. /\ Head(Tail(Notarize)).do = "submit" /\ Head(Tail(Tail(Notarize))).do = "staple"
        /\ \A n \in ToSign(c), w \in {"exe", "bundle"} : SignOf(c, n, w).do = "sign"
    BY NotarizeIs DEF Step, SignOf
  <2>2. s = Tail(Notarize) \/ s = Tail(Tail(Notarize))
    BY <1>6 DEF Stapling
  <2>3. st.do \in {"submit", "staple"} /\ \A y \in ToSet(r) : y.do # "sign"
    <3>1. ToSet(<<>>) = {}
      <4>1. DOMAIN <<>> = {}
        OBVIOUS
      <4> QED
        BY <4>1 DEF ToSet
    <3>2. CASE s = Tail(Tail(Notarize))
      BY <2>1, <3>1, <3>2, NotarizeIs
    <3>3. CASE s = Tail(Notarize)
      <4> DEFINE u == Tail(Tail(Notarize))
      <4>1. r = u /\ u \in Seq(A) /\ u # <<>> /\ Head(u).do = "staple" /\ Tail(u) = <<>>
        BY <2>1, <3>3, NotarizeIs
      <4>2. ToSet(u) = {Head(u)} \cup ToSet(Tail(u))
        BY <4>1, ToSetTail
      <4> QED
        BY <2>1, <3>1, <3>3, <4>1, <4>2
    <3> QED
      BY <2>2, <3>2, <3>3
  <2>4. D.sealed = d.sealed
    <3>1. st \in A
      OBVIOUS
    <3> QED
      BY <2>3, <3>1, DoIs
  <2>5. NoneToCome(c, s) /\ NoneToCome(c, r)
    BY <1>0, <2>1, <2>3 DEF NoneToCome
  <2> QED
    BY <2>4, <2>5 DEF Acts
<1> HIDE DEF st, r
<1>7. Acts(c, st, r, s, d)
  BY <1>3, <1>4, <1>5, <1>6 DEF AtPhase, Acts
<1> QED
  BY <1>0, <1>7 DEF st, r

\* All the signatures are to come when a build begins.
LEMMA BeginsWithAll ==
    ASSUME NEW c, IsTree(c), Valid(c, FALSE), InOrder(c), NEW notary \in BOOLEAN,
           NEW t \in Ends(notary)
    PROVE  AllToCome(c, Clean(c) \o Filler(c, t))
<1> DEFINE A == AllSteps
           C == Clean(c)
           P == Populate(c)
           G == Sign(c)
           g == G \o t
           f == P \o g
<1>1. C \in Seq(A) /\ P \in Seq(A) /\ G \in Seq(A) /\ t \in Seq(A) /\ g \in Seq(A) /\ f \in Seq(A)
  BY PartsAre DEF Filler
<1>2. \A n \in ToSign(c) : SignOf(c, n, "exe") \in ToSet(G) /\ SignOf(c, n, "bundle") \in ToSet(G)
  BY SignIs
<1> HIDE DEF C, P, G
<1>3. ToSet(g) = ToSet(G) \cup ToSet(t)
  BY <1>1, ToSetConcat
<1>4. ToSet(f) = ToSet(P) \cup ToSet(g)
  <2> HIDE DEF g
  <2> QED
    BY <1>1, ToSetConcat
<1>5. ToSet(C \o f) = ToSet(C) \cup ToSet(f)
  <2> HIDE DEF f
  <2> QED
    BY <1>1, ToSetConcat
<1> QED
  BY <1>2, <1>3, <1>4, <1>5 DEF AllToCome, Filler, C, P, G

-----------------------------------------------------------------------------
(* The invariant of the builds.                                            *)

TypeOK ==
    /\ config \in Configs /\ notarize \in BOOLEAN
    /\ status \in {"idle", "running", "stopped"}
    /\ todo \in Seq(AllSteps) /\ disk \in Disks

\* A build that runs is at one of its phases.
Running ==
    status = "running" =>
        /\ Valid(config, FALSE) /\ log # "error"
        /\ AtPhase(config, notarize, todo, disk, archive, ticket)

Finished ==
    Success =>
        /\ Valid(config, FALSE) /\ Filled(config, disk, <<>>) /\ Signed(config, disk, <<>>)
        /\ notarize => Stapled(disk, archive, ticket)

Inv == TypeOK /\ Running /\ Finished

\* What is assumed of a configuration, one at a time.
LEMMA ConfigIs ==
    ASSUME NEW c \in Configs
    PROVE  /\ IsTree(c) /\ Len(c.specs) <= MaxBundles
           /\ Valid(c, FALSE) => InOrder(c)
           /\ \A n \in BOOLEAN : Valid(c, n) => Valid(c, FALSE)
BY ConfigsAssumption DEF Valid

\* The invariant holds before any build.
LEMMA Initially == Init => Inv
<1> SUFFICES ASSUME Init PROVE Inv
  OBVIOUS
<1>1. disk \in Disks
  BY DEF Init, Nothing, Disks
<1>2. todo \in Seq(AllSteps)
  BY DEF Init
<1> QED
  BY <1>1, <1>2 DEF Init, Inv, TypeOK, Running, Finished, Success

\* Four sequences may be put together in any grouping.
LEMMA Regroup ==
    ASSUME NEW S, NEW w \in Seq(S), NEW x \in Seq(S), NEW y \in Seq(S), NEW z \in Seq(S)
    PROVE  /\ ((w \o x) \o y) \o z = w \o (x \o (y \o z))
           /\ w \o (x \o (y \o z)) \in Seq(S)
<1> DEFINE wx == w \o x
           yz == y \o z
<1>1. wx \in Seq(S) /\ yz \in Seq(S) /\ x \o yz \in Seq(S) /\ w \o (x \o yz) \in Seq(S)
  OBVIOUS
<1>2. wx \o yz = w \o (x \o yz)
  <2> HIDE DEF yz
  <2> QED
    BY <1>1, ConcatAssociative DEF wx
<1>3. (wx \o y) \o z = wx \o yz
  <2> HIDE DEF wx
  <2> QED
    BY <1>1, ConcatAssociative DEF yz
<1> QED
  BY <1>1, <1>2, <1>3

\* Steps returns the steps of the phases, in that order.
LEMMA BuildBegins ==
    ASSUME NEW c \in Configs, NEW notary \in BOOLEAN, Valid(c, notary), NEW s,
           \/ s = Steps(c, notary)
           \/ notary /\ s = Steps(c, FALSE) \o <<Step("error", <<>>, "archive")>>
    PROVE  \E t \in Ends(notary) : s = Clean(c) \o Filler(c, t) /\ s \in Seq(AllSteps)
<1> DEFINE A == AllSteps
           C == Clean(c)
           P == Populate(c)
           G == Sign(c)
           e == <<Step("error", <<>>, "archive")>>
           t == IF s = Steps(c, notary) THEN NotarizeIf(notary) ELSE e
<1>1. IsTree(c) /\ Valid(c, FALSE) /\ InOrder(c)
  BY ConfigIs
<1>2. t \in Ends(notary)
  BY DEF Ends, NotarizeIf
<1>3. C \in Seq(A) /\ P \in Seq(A) /\ G \in Seq(A) /\ t \in Seq(A)
  <2> HIDE DEF t
  <2> QED
    BY <1>1, <1>2, PartsAre
<1>4. s = ((C \o P) \o G) \o t
  <2>1. CASE s = Steps(c, notary)
    BY <2>1 DEF Steps
  <2>2. CASE s # Steps(c, notary)
    <3>1. s = Steps(c, FALSE) \o e /\ t = e
      BY <2>2
    <3>2. Steps(c, FALSE) = ((C \o P) \o G) \o <<>>
      BY DEF Steps, NotarizeIf
    <3>3. ((C \o P) \o G) \o <<>> = (C \o P) \o G
      <4> HIDE DEF C, P, G, A
      <4> QED
        BY <1>3
    <3> QED
      BY <3>1, <3>2, <3>3
  <2> QED
    BY <2>1, <2>2
<1> HIDE DEF A, C, P, G, t
<1>5. /\ ((C \o P) \o G) \o t = C \o (P \o (G \o t))
      /\ C \o (P \o (G \o t)) \in Seq(A)
  BY <1>3, Regroup
<1> QED
  BY <1>2, <1>4, <1>5 DEF Filler, C, P, G, A

\* A build begins at the first phase.
LEMMA BuildKeeps ==
    ASSUME Inv, NEW c \in Configs, NEW notary \in BOOLEAN, Build(c, notary)
    PROVE  Inv'
<1>1. /\ Valid(c, notary) /\ config' = c /\ notarize' = notary
      /\ status' = "running" /\ log' = "none"
      /\ disk' = [disk EXCEPT !.stale = disk.files]
      /\ \/ todo' = Steps(c, notary)
         \/ notary /\ todo' = Steps(c, FALSE) \o <<Step("error", <<>>, "archive")>>
  BY DEF Build
<1>2. PICK t \in Ends(notary) : todo' = Clean(c) \o Filler(c, t) /\ todo' \in Seq(AllSteps)
  BY <1>1, BuildBegins
<1>3. disk' \in Disks
  BY <1>1 DEF Inv, TypeOK, Disks
<1>4. TypeOK'
  BY <1>1, <1>2, <1>3 DEF TypeOK
<1>5. AtPhase(config', notarize', todo', disk', archive', ticket')
  BY <1>1, <1>2 DEF AtPhase, Cleaning
<1>6. Valid(config', FALSE)
  BY <1>1, ConfigIs
<1>7. Running'
  BY <1>1, <1>5, <1>6 DEF Running
<1>8. Finished'
  BY <1>1 DEF Finished, Success
<1> QED
  BY <1>4, <1>7, <1>8 DEF Inv

\* A step that succeeds leads from phase to phase.
LEMMA RunStepKeeps ==
    ASSUME Inv, RunStep
    PROVE  Inv'
<1>1. /\ status = "running" /\ todo # <<>> /\ Head(todo).do # "error"
      /\ disk' = Do(Head(todo), disk) /\ todo' = Tail(todo) /\ log' = "nil"
      /\ config' = config /\ notarize' = notarize /\ status' = status
  BY DEF RunStep
<1>2. archive' = Archived(Head(todo), archive) /\ ticket' = Ticketed(Head(todo), archive, ticket)
  BY DEF RunStep, Archived, Ticketed
<1>3. /\ config \in Configs /\ notarize \in BOOLEAN /\ todo \in Seq(AllSteps) /\ disk \in Disks
      /\ Valid(config, FALSE) /\ AtPhase(config, notarize, todo, disk, archive, ticket)
  BY <1>1 DEF Inv, TypeOK, Running
<1>4. IsTree(config) /\ InOrder(config)
  BY <1>3, ConfigIs
<1>5. AtPhase(config, notarize, todo', disk', archive', ticket')
  BY <1>1, <1>2, <1>3, <1>4, PhaseMoves
<1>6. Head(todo) \in AllSteps /\ Tail(todo) \in Seq(AllSteps)
  BY <1>1, <1>3
<1>7. TypeOK'
  BY <1>1, <1>3, <1>6, DoIs DEF TypeOK
<1>8. AtPhase(config', notarize', todo', disk', archive', ticket') /\ Valid(config', FALSE)
  BY <1>1, <1>3, <1>5
<1>9. Running'
  BY <1>1, <1>8 DEF Running
<1>10. Finished'
  BY <1>1 DEF Finished, Success
<1> QED
  BY <1>7, <1>9, <1>10 DEF Inv

\* No step is left after the last phase only.
LEMMA ReturnKeeps ==
    ASSUME Inv, Return
    PROVE  Inv'
<1>1. /\ status = "running" /\ todo = <<>> /\ status' = "stopped"
      /\ config' = config /\ notarize' = notarize /\ todo' = todo /\ log' = log /\ disk' = disk
      /\ archive' = archive /\ ticket' = ticket
  BY DEF Return
<1>2. /\ config \in Configs /\ notarize \in BOOLEAN /\ disk \in Disks
      /\ Valid(config, FALSE) /\ AtPhase(config, notarize, <<>>, disk, archive, ticket)
  BY <1>1 DEF Inv, TypeOK, Running
<1>3. IsTree(config) /\ InOrder(config)
  BY <1>2, ConfigIs
<1> DEFINE c == config
           A == AllSteps
<1>4. \A x, y \in Seq(A) : <<>> = x \o y => x = <<>> /\ y = <<>>
  <2>1. \A x, y \in Seq(A) : x \o y = <<>> => x = <<>> /\ y = <<>>
    BY ConcatSimplifications
  <2> QED
    BY <2>1
<1>5. ASSUME NEW t \in Ends(notarize)
      PROVE  /\ ~Cleaning(c, <<>>, t) /\ ~Populating(c, <<>>, disk, t)
             /\ Signing(c, <<>>, disk, t) => /\ ~notarize
                                             /\ Filled(c, disk, <<>>) /\ Signed(c, disk, <<>>)
  <2>1. /\ Clean(c) \in Seq(A) /\ Filler(c, t) \in Seq(A)
        /\ <<Step("rm", <<>>, "bundle")>> \in Seq(A)
        /\ Sign(c) \o t \in Seq(A) /\ t \in Seq(A) /\ Clean(c) # <<>>
    BY <1>2, <1>3, PartsAre
  <2>2. <<Step("rm", <<>>, "bundle")>> # <<>>
    OBVIOUS
  <2>3. Filling(c) \subseteq A /\ Signings(c) \subseteq A
    BY <1>3, StepsAre
  <2>4. Seq(Filling(c)) \subseteq Seq(A) /\ Seq(Signings(c)) \subseteq Seq(A)
    <3> HIDE DEF A
    <3> QED
      BY <2>3
  <2>5. ~Cleaning(c, <<>>, t)
    <3> HIDE DEF A
    <3> QED
      BY <1>4, <2>1, <2>2 DEF Cleaning
  <2>6. ~Populating(c, <<>>, disk, t)
    <3> HIDE DEF A
    <3> QED
      BY <1>4, <2>1, <2>4 DEF Populating
  <2>7. ASSUME Signing(c, <<>>, disk, t)
        PROVE  ~notarize /\ Filled(c, disk, <<>>) /\ Signed(c, disk, <<>>)
    <3>1. PICK q \in Seq(Signings(c)) : <<>> = q \o t /\ Filled(c, disk, <<>>) /\ Signed(c, disk, q)
      BY <2>7 DEF Signing
    <3>2. q = <<>> /\ t = <<>>
      <4> HIDE DEF A
      <4> QED
        BY <1>4, <2>1, <2>4, <3>1
    <3> QED
      BY <1>2, <3>1, <3>2, EndsAre
  <2> QED
    BY <2>5, <2>6, <2>7
<1>6. ASSUME Stapling(<<>>, disk, archive, ticket) PROVE Stapled(disk, archive, ticket)
  BY <1>6, NotarizeIs DEF Stapling
<1>7. /\ Filled(c, disk, <<>>) /\ Signed(c, disk, <<>>)
      /\ notarize => Stapled(disk, archive, ticket)
  BY <1>2, <1>5, <1>6 DEF AtPhase
<1>8. TypeOK'
  BY <1>1 DEF Inv, TypeOK
<1>9. Running'
  BY <1>1 DEF Running
<1>10. Finished'
  <2>1. /\ Valid(config', FALSE) /\ Filled(config', disk', <<>>) /\ Signed(config', disk', <<>>)
        /\ notarize' => Stapled(disk', archive', ticket')
    BY <1>1, <1>2, <1>7
  <2> QED
    BY <2>1 DEF Finished
<1> QED
  BY <1>8, <1>9, <1>10 DEF Inv

\* A build that fails claims nothing.
LEMMA FailKeeps ==
    ASSUME Inv, Fail
    PROVE  Inv'
<1>1. /\ todo # <<>> /\ disk' \in {disk, Do(Head(todo), disk)}
      /\ log' = "error" /\ status' = "stopped"
      /\ config' = config /\ notarize' = notarize /\ todo' = todo
  BY DEF Fail
<1>2. config \in Configs /\ notarize \in BOOLEAN /\ todo \in Seq(AllSteps) /\ disk \in Disks
  BY DEF Inv, TypeOK
<1>3. Head(todo) \in AllSteps
  BY <1>1, <1>2
<1>4. disk' \in Disks
  BY <1>1, <1>2, <1>3, DoIs
<1> QED
  BY <1>1, <1>2, <1>4 DEF Inv, TypeOK, Running, Finished, Success

\* Nor does one that is killed.
LEMMA KilledKeeps ==
    ASSUME Inv, Killed
    PROVE  Inv'
BY DEF Killed, Inv, TypeOK, Running, Finished, Success

\* Nothing changes if nothing happens.
LEMMA StutterKeeps ==
    ASSUME Inv, UNCHANGED vars
    PROVE  Inv'
<1>1. /\ config' = config /\ notarize' = notarize /\ status' = status /\ todo' = todo /\ log' = log
      /\ disk' = disk /\ archive' = archive /\ ticket' = ticket
  BY DEF vars
<1>2. TypeOK'
  BY <1>1 DEF Inv, TypeOK
<1>3. Running'
  <2>1. status' = "running" => /\ Valid(config', FALSE) /\ log' # "error"
                               /\ AtPhase(config', notarize', todo', disk', archive', ticket')
    BY <1>1 DEF Inv, Running
  <2> QED
    BY <2>1 DEF Running
<1>4. Finished'
  <2>1. status' = "stopped" /\ log' # "error" =>
            /\ Valid(config', FALSE) /\ Filled(config', disk', <<>>) /\ Signed(config', disk', <<>>)
            /\ notarize' => Stapled(disk', archive', ticket')
    BY <1>1 DEF Inv, Finished, Success
  <2> QED
    BY <2>1 DEF Finished, Success
<1> QED
  BY <1>2, <1>3, <1>4 DEF Inv

\* Inv holds of any builds, of any configurations, one after another on one disk.
THEOREM BuildInvariance == Spec => []Inv
<1>1. Inv /\ [Next]_vars => Inv'
  <2> SUFFICES ASSUME Inv, [Next]_vars PROVE Inv'
    OBVIOUS
  <2> QED
    BY BuildKeeps, RunStepKeeps, ReturnKeeps, FailKeeps, KilledKeeps, StutterKeeps DEF Next
<1> QED
  BY <1>1, Initially, PTL DEF Spec

\* A build that reports success leaves every bundle and every executable that is
\* to be signed with a signature that covers what it contains.
THEOREM SignaturesAreFinalAlways == Spec => []SignaturesAreFinal
<1>1. Inv => SignaturesAreFinal
  <2> SUFFICES ASSUME Inv, Success, NEW n \in ToSign(config)
               PROVE  {Keys(config)[n]} \X {"exe", "bundle"} \subseteq disk.sealed
    BY DEF SignaturesAreFinal
  <2>1. Signed(config, disk, <<>>)
    BY DEF Inv, Finished
  <2>2. \A x : x \notin ToSet(<<>>)
    <3>1. DOMAIN <<>> = {}
      OBVIOUS
    <3> QED
      BY <3>1 DEF ToSet
  <2> QED
    BY <2>1, <2>2 DEF Signed
<1> QED
  BY <1>1, BuildInvariance, PTL

\* A build that reports success holds nothing of an earlier one, and has all
\* of its bundles, wherever that one failed.
THEOREM OnlyThisBuildAlways == Spec => []OnlyThisBuild
<1>1. Inv => OnlyThisBuild
  <2> SUFFICES ASSUME Inv, Success
               PROVE  /\ disk.stale = {}
                      /\ {f[1] : f \in disk.files} = {Keys(config)[n] : n \in BundlesOf(config)}
    BY DEF OnlyThisBuild
  <2>1. Filled(config, disk, <<>>)
    BY DEF Inv, Finished
  <2>2. \A x : x \notin ToSet(<<>>)
    <3>1. DOMAIN <<>> = {}
      OBVIOUS
    <3> QED
      BY <3>1 DEF ToSet
  <2>3. /\ disk.stale = {}
        /\ \A f \in disk.files : \E n \in BundlesOf(config) : f[1] = Keys(config)[n]
        /\ \A n \in BundlesOf(config) : \E f \in disk.files : f[1] = Keys(config)[n]
    BY <2>1, <2>2 DEF Filled
  <2> QED
    BY <2>3
<1> QED
  BY <1>1, BuildInvariance, PTL

\* A notarized build that reports success is stapled with the ticket of what is
\* on disk, and leaves no archive behind.
THEOREM TicketIsCurrentAlways == Spec => []TicketIsCurrent
<1>1. Inv => TicketIsCurrent
  BY DEF Inv, Finished, TicketIsCurrent, Stapled
<1> QED
  BY <1>1, BuildInvariance, PTL

-----------------------------------------------------------------------------
(* BundleBuild is implemented.                                             *)

InsideAll(c) == [b \in AllBundles |-> IF b \in BundlesOf(c) THEN InsideOf(c, b) ELSE {}]
PendingOf(c, s) == {n \in ToSign(c) : SignOf(c, n, "bundle") \in ToSet(s)}
StageOf(c, st, l, s) ==
    CASE st = "idle"    -> "idle"
      [] st = "stopped" -> IF l # "error" THEN "released" ELSE "idle"
      [] OTHER          -> IF \A n \in ToSign(c) : SignOf(c, n, "exe") \in ToSet(s)
                           THEN "filling" ELSE "sealing"

\* The abstract variables, in terms of the configuration and of the steps to come.
LEMMA BarsAre ==
    /\ insideBar = InsideAll(config) /\ toSignBar = ToSign(config)
    /\ pendingBar = PendingOf(config, todo) /\ sealedBar = SealedOf(config, disk)
    /\ stageBar = StageOf(config, status, log, todo)
<1>1. \A st : Coming(st) <=> st \in ToSet(todo)
  BY DEF Coming, ToSet
<1>2. \A n, what : Signs(n, what) = SignOf(config, n, what)
  BY DEF Signs, SignOf
<1>3. pendingBar = PendingOf(config, todo)
  BY <1>1, <1>2 DEF pendingBar, PendingOf
<1>4. stageBar = StageOf(config, status, log, todo)
  BY <1>1, <1>2 DEF stageBar, StageOf, Success
<1> QED
  BY <1>3, <1>4 DEF insideBar, InsideAll, InsideOf, toSignBar, sealedBar, SealedOf

\* The same after a step.
LEMMA BarsWillBe ==
    /\ insideBar' = InsideAll(config') /\ toSignBar' = ToSign(config')
    /\ pendingBar' = PendingOf(config', todo') /\ sealedBar' = SealedOf(config', disk')
    /\ stageBar' = StageOf(config', status', log', todo')
<1>1. \A st : (\E i \in DOMAIN todo' : todo'[i] = st) <=> st \in ToSet(todo')
  BY DEF ToSet
<1>3. pendingBar' = PendingOf(config', todo')
  BY <1>1 DEF pendingBar, PendingOf, Coming, Signs, SignOf
<1>4. stageBar' = StageOf(config', status', log', todo')
  BY <1>1 DEF stageBar, StageOf, Success, Coming, Signs, SignOf
<1> QED
  BY <1>3, <1>4 DEF insideBar, InsideAll, InsideOf, toSignBar, sealedBar, SealedOf

\* The abstract variables are of their types.
LEMMA BarsTyped ==
    ASSUME NEW c \in Configs, NEW d, NEW s
    PROVE  /\ InsideAll(c) \in [AllBundles -> SUBSET AllBundles]
           /\ \A b \in BundlesOf(c) : InsideAll(c)[b] = InsideOf(c, b)
           /\ \A b \in AllBundles : b \notin BundlesOf(c) => InsideAll(c)[b] = {}
           /\ BundlesOf(c) \subseteq AllBundles /\ ToSign(c) \subseteq BundlesOf(c)
           /\ SealedOf(c, d) \subseteq BundlesOf(c) /\ PendingOf(c, s) \subseteq ToSign(c)
<1>1. BundlesOf(c) \subseteq AllBundles
  <2>1. BundlesOf(c) = 1..Len(c.specs) /\ Len(c.specs) \in Nat /\ Len(c.specs) <= MaxBundles
    BY ConfigIs, TreeIs
  <2> QED
    BY <2>1, ConfigsAssumption DEF AllBundles
<1>2. \A b \in BundlesOf(c) : InsideOf(c, b) \subseteq AllBundles
  BY <1>1 DEF InsideOf
<1> HIDE DEF AllBundles
<1>3. InsideAll(c) \in [AllBundles -> SUBSET AllBundles]
  BY <1>2 DEF InsideAll
<1>4. /\ \A b \in BundlesOf(c) : InsideAll(c)[b] = InsideOf(c, b)
      /\ \A b \in AllBundles : b \notin BundlesOf(c) => InsideAll(c)[b] = {}
  BY <1>1 DEF InsideAll
<1> QED
  BY <1>1, <1>3, <1>4 DEF ToSign, SealedOf, PendingOf

\* Nothing is being built, there as here.
LEMMA InitMaps == Init => BuildOf!Init
<1> SUFFICES ASSUME Init PROVE BuildOf!Init
  OBVIOUS
<1>1. config \in Configs
  BY DEF Init
<1>2. stageBar = "idle"
  BY DEF Init, stageBar
<1> QED
  BY <1>1, <1>2, BarsAre, BarsTyped DEF BuildOf!Init, BuildOf!TypeOK

\* A build begins, there as here, with all signatures to come.
LEMMA BuildMaps ==
    ASSUME Inv, NEW c \in Configs, NEW notary \in BOOLEAN, Build(c, notary)
    PROVE  BuildOf!Begin
<1>1. /\ Valid(c, notary) /\ config' = c /\ notarize' = notary /\ status' = "running"
      /\ status \in {"idle", "stopped"}
      /\ \/ todo' = Steps(c, notary)
         \/ notary /\ todo' = Steps(c, FALSE) \o <<Step("error", <<>>, "archive")>>
  BY DEF Build, Inv, TypeOK
<1>2. PICK t \in Ends(notary) : todo' = Clean(c) \o Filler(c, t) /\ todo' \in Seq(AllSteps)
  BY <1>1, BuildBegins
<1>3. AllToCome(c, todo')
  <2>1. IsTree(c) /\ Valid(c, FALSE) /\ InOrder(c)
    BY <1>1, ConfigIs
  <2> QED
    BY <1>2, <2>1, BeginsWithAll
<1>4. stageBar \in {"idle", "released"}
  BY <1>1 DEF stageBar
<1>5. stageBar' = "filling"
  <2>1. StageOf(c, "running", log', todo') = "filling"
    BY <1>3 DEF StageOf, AllToCome
  <2> QED
    BY <1>1, <2>1, BarsWillBe
<1>6. PendingOf(c, todo') = ToSign(c)
  BY <1>3 DEF PendingOf, AllToCome
<1>7. /\ insideBar' = InsideAll(c) /\ toSignBar' = ToSign(c) /\ pendingBar' = ToSign(c)
      /\ sealedBar' = SealedOf(c, disk')
  BY <1>1, <1>6, BarsWillBe
<1> QED
  BY <1>4, <1>5, <1>7, BarsTyped DEF BuildOf!Begin

\* A step fills, prepares or seals, or is not seen there.
LEMMA RunStepMaps ==
    ASSUME Inv, RunStep
    PROVE  BuildOf!Next \/ UNCHANGED BuildOf!vars
<1>1. /\ status = "running" /\ todo # <<>> /\ Head(todo).do # "error"
      /\ disk' = Do(Head(todo), disk) /\ todo' = Tail(todo)
      /\ config' = config /\ status' = "running"
  BY DEF RunStep
<1>2. /\ config \in Configs /\ notarize \in BOOLEAN /\ todo \in Seq(AllSteps) /\ disk \in Disks
      /\ Valid(config, FALSE) /\ AtPhase(config, notarize, todo, disk, archive, ticket)
  BY <1>1 DEF Inv, TypeOK, Running
<1>3. IsTree(config) /\ InOrder(config)
  BY <1>2, ConfigIs
<1>4. Acts(config, Head(todo), Tail(todo), todo, disk)
  BY <1>1, <1>2, <1>3, PhaseActs
<1> DEFINE c == config
           s == todo
           r == Tail(todo)
           st == Head(todo)
           d == disk
           D == Do(st, d)
<1>5. /\ stageBar = StageOf(c, "running", log, s) /\ stageBar' = StageOf(c, "running", log', r)
      /\ insideBar = InsideAll(c) /\ insideBar' = insideBar
      /\ toSignBar = ToSign(c) /\ toSignBar' = toSignBar
      /\ pendingBar = PendingOf(c, s) /\ pendingBar' = PendingOf(c, r)
      /\ sealedBar = SealedOf(c, d) /\ sealedBar' = SealedOf(c, D)
  BY <1>1, BarsAre, BarsWillBe
<1>6. ToSet(s) = {st} \cup ToSet(r)
  BY <1>1, <1>2, ToSetTail
<1>7. \A n, m \in ToSign(c) : /\ SignOf(c, n, "exe") # SignOf(c, m, "bundle")
                              /\ n # m => SignOf(c, n, "bundle") # SignOf(c, m, "bundle")
  <2>1. \A n, m \in ToSign(c) : n # m => Keys(c)[n] # Keys(c)[m]
    BY <1>2, <1>3, KeysDiffer DEF ToSign
  <2> QED
    BY <2>1 DEF SignOf, Step
<1>8. \A l : StageOf(c, "running", l, s) = IF \A n \in ToSign(c) : SignOf(c, n, "exe") \in ToSet(s)
                                           THEN "filling" ELSE "sealing"
  BY DEF StageOf
<1>9. \A l : StageOf(c, "running", l, r) = IF \A n \in ToSign(c) : SignOf(c, n, "exe") \in ToSet(r)
                                           THEN "filling" ELSE "sealing"
  BY DEF StageOf
<1>10. /\ \A b \in BundlesOf(c) : insideBar[b] = InsideOf(c, b)
       /\ \A b \in AllBundles : b \notin BundlesOf(c) => insideBar[b] = {}
       /\ BundlesOf(c) \subseteq AllBundles /\ ToSign(c) \subseteq BundlesOf(c)
       /\ SealedOf(c, d) \subseteq BundlesOf(c)
  BY <1>2, <1>5, BarsTyped
<1>11. \A n \in AllBundles : {m \in AllBundles : n \in insideBar[m]}
                             = {m \in BundlesOf(c) : n \in InsideOf(c, m)}
  BY <1>10
<1>16. \A n \in ToSign(c) : SignBreaks(c, d, n)
  BY <1>2, <1>3, SealsAre
<1> HIDE DEF c, s, r, st, d, D
<1>12. CASE AllToCome(c, s) /\ AllToCome(c, r) /\ D.sealed \subseteq d.sealed
  <2>1. PendingOf(c, s) = ToSign(c) /\ PendingOf(c, r) = ToSign(c)
    BY <1>12 DEF AllToCome, PendingOf
  <2>2. stageBar = "filling" /\ stageBar' = "filling"
    BY <1>5, <1>8, <1>9, <1>12 DEF AllToCome
  <2>3. SealedOf(c, D) \subseteq SealedOf(c, d)
    BY <1>12 DEF SealedOf
  <2>4. BuildOf!Fill
    BY <1>5, <2>1, <2>2, <2>3 DEF BuildOf!Fill
  <2> QED
    BY <2>4 DEF BuildOf!Next
<1>13. ASSUME NEW n \in ToSign(c), st = SignOf(c, n, "exe"), SignOf(c, n, "exe") \notin ToSet(r),
              SignOf(c, n, "bundle") \in ToSet(s)
       PROVE  BuildOf!Next
  <2>1. stageBar \in {"filling", "sealing"} /\ stageBar' = "sealing"
    BY <1>5, <1>8, <1>9, <1>13
  <2>2. n \in pendingBar /\ pendingBar' = pendingBar
    <3>1. PendingOf(c, r) = PendingOf(c, s)
      BY <1>6, <1>7, <1>13 DEF PendingOf
    <3>2. n \in PendingOf(c, s)
      BY <1>13 DEF PendingOf
    <3> QED
      BY <1>5, <3>1, <3>2
  <2>3. SealedOf(c, D) = SealedOf(c, d) \ ({n} \cup {m \in BundlesOf(c) : n \in InsideOf(c, m)})
    BY <1>13, <1>16 DEF D, SignBreaks
  <2>4. /\ n \in AllBundles
        /\ sealedBar' = sealedBar \ ({n} \cup {m \in AllBundles : n \in insideBar[m]})
    BY <1>5, <1>10, <1>11, <2>3
  <2>5. BuildOf!Prepare(n)
    BY <1>5, <2>1, <2>2, <2>4 DEF BuildOf!Prepare
  <2> QED
    BY <2>4, <2>5 DEF BuildOf!Next
<1>14. ASSUME NEW n \in ToSign(c), st = SignOf(c, n, "bundle"),
              SignOf(c, n, "bundle") \notin ToSet(r),
              SignOf(c, n, "exe") \notin ToSet(s),
              \A m \in ToSign(c) : m \in InsideOf(c, n) => SignOf(c, m, "bundle") \notin ToSet(s)
       PROVE  BuildOf!Next
  <2>1. SignOf(c, n, "exe") \notin ToSet(r)
    BY <1>6, <1>14
  <2>2. stageBar = "sealing" /\ stageBar' = "sealing"
    BY <1>5, <1>8, <1>9, <1>14, <2>1
  <2>3. PendingOf(c, r) = PendingOf(c, s) \ {n} /\ n \in PendingOf(c, s)
    BY <1>6, <1>7, <1>14 DEF PendingOf
  <2>4. InsideOf(c, n) \cap PendingOf(c, s) = {}
    BY <1>14 DEF PendingOf
  <2>5. SealedOf(c, D) = (SealedOf(c, d) \ {m \in BundlesOf(c) : n \in InsideOf(c, m)}) \cup {n}
    BY <1>14, <1>16 DEF D, SignBreaks
  <2>6. n \in AllBundles /\ insideBar[n] = InsideOf(c, n)
    BY <1>10
  <2>7. sealedBar' = (sealedBar \ {m \in AllBundles : n \in insideBar[m]}) \cup {n}
    BY <1>5, <1>11, <2>5, <2>6
  <2>8. BuildOf!Seal(n)
    BY <1>5, <2>2, <2>3, <2>4, <2>6, <2>7 DEF BuildOf!Seal
  <2> QED
    BY <2>6, <2>8 DEF BuildOf!Next
<1>15. CASE NoneToCome(c, s) /\ NoneToCome(c, r) /\ D.sealed = d.sealed
  <2>1. PendingOf(c, s) = PendingOf(c, r)
    BY <1>15 DEF NoneToCome, PendingOf
  <2>2. stageBar = stageBar'
    BY <1>5, <1>8, <1>9, <1>15 DEF NoneToCome
  <2>3. SealedOf(c, D) = SealedOf(c, d)
    BY <1>15 DEF SealedOf
  <2> QED
    BY <1>5, <2>1, <2>2, <2>3 DEF BuildOf!vars
<1> QED
  BY <1>4, <1>12, <1>13, <1>14, <1>15 DEF Acts, c, s, r, st, d, D

\* A build that has no step left is released.
LEMMA ReturnMaps ==
    ASSUME Inv, Return
    PROVE  BuildOf!Next \/ UNCHANGED BuildOf!vars
<1>1. /\ status = "running" /\ todo = <<>> /\ status' = "stopped" /\ log # "error" /\ log' = log
      /\ config' = config /\ todo' = todo /\ disk' = disk
  BY DEF Return, Inv, Running
<1>2. stageBar \in {"filling", "sealing"}
  BY <1>1 DEF stageBar
<1>3. stageBar' = "released"
  BY <1>1 DEF stageBar, Success
<1>4. \A x : x \notin ToSet(<<>>)
  <2>1. DOMAIN <<>> = {}
    OBVIOUS
  <2> QED
    BY <2>1 DEF ToSet
<1>5. pendingBar = {}
  <2>1. PendingOf(config, todo) = {}
    BY <1>1, <1>4 DEF PendingOf
  <2> QED
    BY <2>1, BarsAre
<1>6. /\ insideBar' = insideBar /\ toSignBar' = toSignBar
      /\ pendingBar' = pendingBar /\ sealedBar' = sealedBar
  BY <1>1, BarsAre, BarsWillBe
<1> QED
  BY <1>2, <1>3, <1>5, <1>6 DEF BuildOf!Next, BuildOf!Release

\* A build that fails or is killed promises nothing.
LEMMA FailMaps ==
    ASSUME Inv, Fail \/ Killed
    PROVE  BuildOf!Next
<1>1. /\ status = "running" /\ (status' = "idle" \/ (status' = "stopped" /\ log' = "error"))
      /\ config' = config /\ todo' = todo /\ config \in Configs
  BY DEF Fail, Killed, Inv, TypeOK
<1>2. stageBar \in {"filling", "sealing"}
  BY <1>1 DEF stageBar
<1>3. stageBar' = "idle"
  BY <1>1 DEF stageBar, Success
<1>4. insideBar' = insideBar /\ toSignBar' = toSignBar /\ pendingBar' = pendingBar
  BY <1>1, BarsAre, BarsWillBe
<1>5. sealedBar' \in SUBSET AllBundles
  <2>1. sealedBar' = SealedOf(config, disk')
    BY <1>1, BarsWillBe
  <2> QED
    BY <1>1, <2>1, BarsTyped
<1> QED
  BY <1>2, <1>3, <1>4, <1>5 DEF BuildOf!Next, BuildOf!Fail

\* Bundle.Steps signs from the inside out: its builds are builds of BundleBuild,
\* in which a bundle is signed after all that it contains.
THEOREM BuildRefinement == Spec => ImplementsBuild
<1>1. Inv /\ [Next]_vars => [BuildOf!Next]_(BuildOf!vars)
  <2> SUFFICES ASSUME Inv, [Next]_vars PROVE BuildOf!Next \/ UNCHANGED BuildOf!vars
    OBVIOUS
  <2>1. CASE UNCHANGED vars
    <3>1. /\ config' = config /\ status' = status /\ todo' = todo /\ log' = log /\ disk' = disk
      BY <2>1 DEF vars
    <3> QED
      BY <3>1, BarsAre, BarsWillBe DEF BuildOf!vars
  <2>2. ASSUME NEW c \in Configs, NEW notary \in BOOLEAN, Build(c, notary)
        PROVE  BuildOf!Next
    BY <2>2, BuildMaps DEF BuildOf!Next
  <2> QED
    BY <2>1, <2>2, RunStepMaps, ReturnMaps, FailMaps DEF Next
<1> QED
  BY <1>1, InitMaps, BuildInvariance, PTL DEF Spec, ImplementsBuild, BuildOf!Spec

-----------------------------------------------------------------------------
(* Why signing from the inside out is enough, whatever is inside what: the   *)
(* builds of BundleBuild, for any bundles.                                  *)
CONSTANT AnyBundles
VARIABLES stage, inside, toSign, pending, sealed

Abstract == INSTANCE BundleBuild WITH Bundles <- AnyBundles

\* A bundle that has been signed contains none that is still to be signed,
\* so that no later signature breaks its own.
SealedInsideOut ==
    stage # "idle" =>
        \A c \in toSign \ pending : c \in sealed /\ inside[c] \cap pending = {}

AbstractInv == Abstract!TypeOK /\ SealedInsideOut /\ (stage = "released" => pending = {})

\* AbstractInv holds of every build, for any bundles, nested in any way.
THEOREM AbstractInvariance == Abstract!Spec => []AbstractInv
<1>1. Abstract!Init => AbstractInv
  BY DEF Abstract!Init, AbstractInv, Abstract!TypeOK, SealedInsideOut
<1>2. AbstractInv /\ [Abstract!Next]_(Abstract!vars) => AbstractInv'
  <2> SUFFICES ASSUME AbstractInv, [Abstract!Next]_(Abstract!vars) PROVE AbstractInv'
    OBVIOUS
  <2> USE DEF AbstractInv, Abstract!TypeOK, SealedInsideOut
  <2>1. CASE Abstract!Begin
    BY <2>1 DEF Abstract!Begin
  <2>2. CASE Abstract!Fill
    BY <2>2 DEF Abstract!Fill
  <2>3. ASSUME NEW b \in AnyBundles, Abstract!Prepare(b) PROVE AbstractInv'
    <3>1. \A c \in toSign \ pending : c # b /\ b \notin inside[c]
      BY <2>3 DEF Abstract!Prepare
    <3> QED
      BY <2>3, <3>1 DEF Abstract!Prepare
  <2>4. ASSUME NEW b \in AnyBundles, Abstract!Seal(b) PROVE AbstractInv'
    <3>1. \A c \in toSign \ pending : b \notin inside[c]
      BY <2>4 DEF Abstract!Seal
    <3>2. b \notin inside[b]
      BY <2>4 DEF Abstract!Seal
    <3> QED
      BY <2>4, <3>1, <3>2 DEF Abstract!Seal
  <2>5. CASE Abstract!Release
    BY <2>5 DEF Abstract!Release
  <2>6. CASE Abstract!Fail
    BY <2>6 DEF Abstract!Fail
  <2>7. CASE UNCHANGED Abstract!vars
    BY <2>7 DEF Abstract!vars
  <2> QED
    BY <2>1, <2>2, <2>3, <2>4, <2>5, <2>6, <2>7 DEF Abstract!Next
<1> QED
  BY <1>1, <1>2, PTL DEF Abstract!Spec

\* What a build releases is signed wherever it should be, and every signature
\* covers the final contents.
THEOREM ReleasedIsSealedAlways == Abstract!Spec => []Abstract!ReleasedIsSealed
<1>1. AbstractInv => Abstract!ReleasedIsSealed
  BY DEF AbstractInv, Abstract!TypeOK, SealedInsideOut, Abstract!ReleasedIsSealed
<1> QED
  BY <1>1, AbstractInvariance, PTL
=============================================================================
