---------------------------- MODULE SegmentProofs ----------------------------
(***************************************************************************)
(* The tables of a storage, for any documents: sums over sequences, sets   *)
(* listed in ascending order, sequences put one after the other, and then  *)
(* the layout BuildFrom leaves, which indexes its documents whatever order *)
(* its range over the map of fields takes (LaidOutIndexes).  The last part *)
(* says what becomes of all that when a batch is put behind another.       *)
(*                                                                         *)
(* First, induction over data, in the form the proofs of this project use: *)
(* the library's induction theorems have an operator for a parameter, these*)
(* have a set.  To prove that P(n) holds for every natural number n, take  *)
(* the set {n \in Nat : P(n)} for S in NatInductive.                       *)
(***************************************************************************)
EXTENDS Segment, FiniteSetTheorems, SequenceTheorems, TLAPS

(* Every non-empty set of natural numbers has a least element.             *)
LEMMA NatLeast ==
  ASSUME NEW T \in SUBSET Nat, T # {}
  PROVE  \E n \in T : \A m \in T : n <= m
<1>. DEFINE R == OpToRel(<, Nat)
<1>1. IsWellFoundedOn(R, Nat)
  BY NatLessThanWellFounded
<1>2. \A m, n \in Nat : <<m, n>> \in R <=> m < n
  BY DEF OpToRel
<1>. HIDE DEF R
<1>3. PICK n \in T : \A m \in T : ~ (<<m, n>> \in R)
  BY <1>1, WFMin
<1>4. \A m \in T : n <= m
  <2>. TAKE m \in T
  <2>1. m \in Nat /\ n \in Nat /\ ~ (m < n)
    BY <1>2, <1>3
  <2>. QED BY <2>1
<1>. QED BY <1>4

(* A set with 0 and the successor of each of its members has every number. *)
LEMMA NatInductive ==
  ASSUME NEW S, 0 \in S, \A n \in Nat : n \in S => n + 1 \in S
  PROVE  \A n \in Nat : n \in S
<1>. DEFINE T == {n \in Nat : n \notin S}
<1>1. SUFFICES ASSUME T # {} PROVE FALSE
  OBVIOUS
<1>2. PICK n \in T : \A m \in T : n <= m
  BY <1>1, NatLeast
<1>3. n \in Nat /\ n \notin S /\ n # 0
  BY <1>2
<1>4. n - 1 \in Nat /\ (n - 1) + 1 = n
  BY <1>3
<1>5. n - 1 \notin T
  BY <1>2, <1>4, <1>3
<1>6. n - 1 \in S
  BY <1>4, <1>5
<1>. QED BY <1>3, <1>4, <1>6

(* So has one with each number whose predecessors it all has.              *)
LEMMA NatStrongInductive ==
  ASSUME NEW S, \A n \in Nat : (\A m \in Nat : m < n => m \in S) => n \in S
  PROVE  \A n \in Nat : n \in S
<1>. DEFINE T == {n \in Nat : n \notin S}
<1>1. SUFFICES ASSUME T # {} PROVE FALSE
  OBVIOUS
<1>2. PICK n \in T : \A m \in T : n <= m
  BY <1>1, NatLeast
<1>3. n \in Nat /\ n \notin S
  BY <1>2
<1>4. \A m \in Nat : m < n => m \in S
  <2>. SUFFICES ASSUME NEW m \in Nat, m < n, m \notin S PROVE FALSE
    OBVIOUS
  <2>1. m \in T OBVIOUS
  <2>2. n <= m BY <2>1, <1>2
  <2>. QED BY <2>2, <1>3
<1>. QED BY <1>3, <1>4

(* A non-empty set of numbers with an upper bound has a greatest element.  *)
LEMMA NatGreatest ==
  ASSUME NEW n \in Nat, NEW T \in SUBSET (0 .. n), T # {}
  PROVE  \E x \in T : \A y \in T : x >= y
<1>. DEFINE U == {n - x : x \in T}
<1>1. U \in SUBSET Nat /\ U # {}
  <2>1. \A x \in T : x \in 0 .. n
    OBVIOUS
  <2>2. \A x \in T : n - x \in Nat
    BY <2>1
  <2>. QED BY <2>2
<1>2. PICK u \in U : \A v \in U : u <= v
  BY <1>1, NatLeast
<1>3. PICK x \in T : u = n - x
  BY <1>2
<1>4. \A y \in T : x >= y
  <2>. TAKE y \in T
  <2>1. u <= n - y
    BY <1>2
  <2>. QED BY <2>1, <1>3
<1>. QED BY <1>4

(* Max of a set of positions is one of them, and none is above it.         *)
LEMMA MaxOfPositions ==
  ASSUME NEW n \in Nat, NEW s \in SUBSET (1 .. n), s # {}
  PROVE  /\ Max(s) \in s
         /\ \A y \in s : Max(s) >= y
<1>1. s \in SUBSET (0 .. n)
  OBVIOUS
<1>2. \E x \in s : \A y \in s : x >= y
  BY <1>1, NatGreatest
<1>. QED BY <1>2 DEF Max

(* Min of a set of numbers is one of them, and none is below it.           *)
LEMMA MinOfNumbers ==
  ASSUME NEW s \in SUBSET Nat, s # {}
  PROVE  /\ Min(s) \in s
         /\ \A y \in s : Min(s) <= y
<1>1. \E x \in s : \A y \in s : x <= y
  BY NatLeast
<1>. QED BY <1>1 DEF Min

-----------------------------------------------------------------------------
(* What FoldLeft computes on the sets of positions of a sequence.          *)
Folding(h, n, V, base, step) ==
  /\ h \in [SUBSET (1 .. n) -> V]
  /\ \A s \in SUBSET (1 .. n) :
       h[s] = IF s = {} THEN base ELSE step[<<h[s \ {Max(s)}], Max(s)>>]

(* It exists, for each step and each base.                                 *)
LEMMA FoldExists ==
  ASSUME NEW n \in Nat, NEW V, NEW base \in V, NEW step \in [V \X (1 .. n) -> V]
  PROVE  \E h : Folding(h, n, V, base, step)
<1>. DEFINE Upto(m) == \E h \in [SUBSET (1 .. m) -> V] :
       \A s \in SUBSET (1 .. m) :
         h[s] = IF s = {} THEN base ELSE step[<<h[s \ {Max(s)}], Max(s)>>]
            S == {m \in Nat : m <= n => Upto(m)}
<1>1. 0 \in S
  <2>1. SUBSET (1 .. 0) = {{}}
    OBVIOUS
  <2>2. [s \in {{}} |-> base] \in [SUBSET (1 .. 0) -> V]
    BY <2>1
  <2>3. Upto(0)
    <3>. WITNESS [s \in {{}} |-> base] \in [SUBSET (1 .. 0) -> V]
    <3>. QED BY <2>1
  <2>. QED BY <2>3
<1>2. ASSUME NEW m \in Nat, m \in S
      PROVE  m + 1 \in S
  <2>. SUFFICES ASSUME m + 1 <= n PROVE Upto(m + 1)
    <3>1. m + 1 \in Nat
      OBVIOUS
    <3>. HIDE DEF Upto
    <3>. QED BY <3>1
  <2>0. Upto(m)
    <3>1. m <= n
      OBVIOUS
    <3>. HIDE DEF Upto
    <3>. QED BY <3>1, <1>2
  <2>1. PICK h \in [SUBSET (1 .. m) -> V] :
          \A s \in SUBSET (1 .. m) :
            h[s] = IF s = {} THEN base ELSE step[<<h[s \ {Max(s)}], Max(s)>>]
    BY <2>0
  <2>. DEFINE g == [s \in SUBSET (1 .. m + 1) |->
                      IF m + 1 \in s THEN step[<<h[s \ {m + 1}], m + 1>>] ELSE h[s]]
  <2>2. \A s \in SUBSET (1 .. m + 1) : s \ {m + 1} \in SUBSET (1 .. m)
    OBVIOUS
  <2>3. \A s \in SUBSET (1 .. m + 1) : m + 1 \notin s => s \in SUBSET (1 .. m)
    OBVIOUS
  <2>4. m + 1 \in 1 .. n
    OBVIOUS
  <2>5. g \in [SUBSET (1 .. m + 1) -> V]
    <3>. SUFFICES ASSUME NEW s \in SUBSET (1 .. m + 1) PROVE g[s] \in V
      OBVIOUS
    <3>1. CASE m + 1 \in s
      <4>1. h[s \ {m + 1}] \in V BY <2>2
      <4>. QED BY <4>1, <2>4, <3>1
    <3>2. CASE m + 1 \notin s
      BY <2>3, <3>2
    <3>. QED BY <3>1, <3>2
  <2>6. ASSUME NEW s \in SUBSET (1 .. m + 1)
        PROVE  g[s] = IF s = {} THEN base ELSE step[<<g[s \ {Max(s)}], Max(s)>>]
    <3>1. CASE m + 1 \in s
      <4>0. m + 1 \in Nat /\ s # {}
        BY <3>1
      <4>1. Max(s) \in s /\ \A y \in s : Max(s) >= y
        <5>. HIDE DEF g
        <5>. QED BY <4>0, MaxOfPositions
      <4>2. Max(s) = m + 1
        <5>1. Max(s) \in 1 .. m + 1 /\ Max(s) >= m + 1
          BY <4>1, <3>1
        <5>. QED BY <5>1
      <4>3. s \ {m + 1} \in SUBSET (1 .. m + 1) /\ m + 1 \notin s \ {m + 1}
        OBVIOUS
      <4>4. g[s \ {m + 1}] = h[s \ {m + 1}]
        BY <4>3
      <4>5. g[s] = step[<<h[s \ {m + 1}], m + 1>>] /\ s # {}
        BY <3>1
      <4>. HIDE DEF g
      <4>. QED BY <4>2, <4>4, <4>5
    <3>2. CASE m + 1 \notin s
      <4>1. s \in SUBSET (1 .. m) BY <2>3, <3>2
      <4>2. s \ {Max(s)} \in SUBSET (1 .. m + 1) /\ m + 1 \notin s \ {Max(s)}
        BY <3>2
      <4>3. g[s \ {Max(s)}] = h[s \ {Max(s)}]
        BY <4>2
      <4>4. g[s] = h[s] BY <3>2
      <4>5. h[s] = IF s = {} THEN base ELSE step[<<h[s \ {Max(s)}], Max(s)>>]
        BY <4>1, <2>1
      <4>. HIDE DEF g
      <4>. QED BY <4>3, <4>4, <4>5
    <3>. QED BY <3>1, <3>2
  <2>. HIDE DEF g
  <2>. QED BY <2>5, <2>6
<1>. HIDE DEF S
<1>3. \A m \in Nat : m \in S
  BY <1>1, <1>2, NatInductive
<1>4. Upto(n)
  <2>1. n \in S
    BY <1>3
  <2>. HIDE DEF Upto
  <2>. QED BY <2>1 DEF S
<1>. QED BY <1>4 DEF Folding

(* The positions before a position are what is left without it.            *)
LEMMA LastPosition ==
  ASSUME NEW n \in Nat, NEW i \in 1 .. n
  PROVE  /\ 1 .. i \in SUBSET (1 .. n) /\ 1 .. i # {}
         /\ Max(1 .. i) = i
         /\ (1 .. i) \ {i} = 1 .. i - 1
<1>1. 1 .. i \in SUBSET (1 .. n) /\ i \in 1 .. i
  OBVIOUS
<1>2. Max(1 .. i) \in 1 .. i /\ \A y \in 1 .. i : Max(1 .. i) >= y
  BY <1>1, MaxOfPositions
<1>. QED BY <1>1, <1>2

-----------------------------------------------------------------------------
(* R orders V strictly and totally.                                        *)
Orders(R, V) ==
  /\ \A v \in V : <<v, v>> \notin R
  /\ \A u, v, w \in V : <<u, v>> \in R /\ <<v, w>> \in R => <<u, w>> \in R
  /\ \A v, w \in V : v # w => <<v, w>> \in R \/ <<w, v>> \in R

(* The members of V below w, and how many they are.                        *)
Under(R, V, w) == {v \in V : <<v, w>> \in R}
RankIn(R, V, w) == Cardinality(Under(R, V, w))

(* A subset with one member less has a lower cardinality.                  *)
LEMMA SmallerSubset ==
  ASSUME NEW S, IsFiniteSet(S), NEW T \in SUBSET S, NEW x \in S, x \notin T
  PROVE  /\ Cardinality(T) \in Nat /\ Cardinality(S) \in Nat
         /\ Cardinality(T) < Cardinality(S)
<1>1. /\ IsFiniteSet(T) /\ Cardinality(T) <= Cardinality(S)
      /\ Cardinality(S) = Cardinality(T) => S = T
  BY FS_Subset
<1>2. Cardinality(T) \in Nat /\ Cardinality(S) \in Nat
  BY <1>1, FS_CardinalityType
<1>3. S # T
  OBVIOUS
<1>. QED BY <1>1, <1>2, <1>3

(* The members of a finite ordered set have each a rank of their own, and  *)
(* every rank is taken.                                                    *)
LEMMA Ranks ==
  ASSUME NEW V, IsFiniteSet(V), NEW R, Orders(R, V)
  PROVE  /\ Cardinality(V) \in Nat
         /\ \A w \in V : RankIn(R, V, w) \in 0 .. Cardinality(V) - 1
         /\ \A v, w \in V : <<v, w>> \in R => RankIn(R, V, v) < RankIn(R, V, w)
         /\ \A v, w \in V : RankIn(R, V, v) = RankIn(R, V, w) => v = w
         /\ \A n \in 1 .. Cardinality(V) : \E w \in V : RankIn(R, V, w) = n - 1
<1>. DEFINE N == Cardinality(V)
<1>1. N \in Nat
  BY FS_CardinalityType
<1>2. ASSUME NEW w \in V
      PROVE  RankIn(R, V, w) \in 0 .. N - 1
  <2>1. Under(R, V, w) \in SUBSET V /\ w \notin Under(R, V, w)
    BY DEF Under, Orders
  <2>2. /\ RankIn(R, V, w) \in Nat /\ RankIn(R, V, w) < N
    BY <2>1, SmallerSubset DEF RankIn
  <2>. QED BY <1>1, <2>2
<1>3. ASSUME NEW v \in V, NEW w \in V, <<v, w>> \in R
      PROVE  RankIn(R, V, v) < RankIn(R, V, w)
  <2>1. Under(R, V, v) \in SUBSET Under(R, V, w)
    BY <1>3 DEF Under, Orders
  <2>2. v \in Under(R, V, w) /\ v \notin Under(R, V, v)
    BY <1>3 DEF Under, Orders
  <2>3. Under(R, V, w) \in SUBSET V
    BY DEF Under
  <2>4. IsFiniteSet(Under(R, V, w))
    BY <2>3, FS_Subset
  <2>. QED BY <2>1, <2>2, <2>4, SmallerSubset DEF RankIn
<1>4. \A v, w \in V : RankIn(R, V, v) = RankIn(R, V, w) => v = w
  <2>. SUFFICES ASSUME NEW v \in V, NEW w \in V, RankIn(R, V, v) = RankIn(R, V, w), v # w
                PROVE  FALSE
    OBVIOUS
  <2>1. RankIn(R, V, v) \in Int /\ RankIn(R, V, w) \in Int
    BY <1>1, <1>2
  <2>2. <<v, w>> \in R \/ <<w, v>> \in R
    BY DEF Orders
  <2>3. RankIn(R, V, v) < RankIn(R, V, w) \/ RankIn(R, V, w) < RankIn(R, V, v)
    BY <2>2, <1>3
  <2>. QED BY <2>1, <2>3
<1>5. \A n \in 1 .. N : \E w \in V : RankIn(R, V, w) = n - 1
  <2>. DEFINE f == [w \in V |-> RankIn(R, V, w) + 1]
  <2>1. \A w \in V : f[w] = RankIn(R, V, w) + 1 /\ RankIn(R, V, w) \in Int /\ f[w] \in 1 .. N
    BY <1>1, <1>2
  <2>2. f \in [V -> 1 .. N]
    BY <2>1
  <2>3. \A v, w \in V : f[v] = f[w] => v = w
    <3>. TAKE v, w \in V
    <3>1. f[v] = f[w] => RankIn(R, V, v) = RankIn(R, V, w)
      BY <2>1
    <3>. QED BY <3>1, <1>4
  <2>. HIDE DEF f
  <2>4. f \in Injection(V, 1 .. N)
    BY <2>2, <2>3 DEF Injection, IsInjective
  <2>5. IsFiniteSet(1 .. N) /\ Cardinality(1 .. N) = N
    <3>1. IsFiniteSet(1 .. N) /\ Cardinality(1 .. N) = IF 1 > N THEN 0 ELSE N - 1 + 1
      BY <1>1, FS_Interval
    <3>. QED BY <1>1, <3>1
  <2>6. \A T : IsFiniteSet(T) => \A g \in Injection(V, T) :
          Cardinality(V) = Cardinality(T) <=> g \in Surjection(V, T)
    BY FS_Injection
  <2>7. f \in Surjection(V, 1 .. N)
    BY <2>4, <2>5, <2>6
  <2>. SUFFICES ASSUME NEW n \in 1 .. N PROVE \E w \in V : RankIn(R, V, w) = n - 1
    OBVIOUS
  <2>8. PICK w \in V : f[w] = n
    BY <2>7 DEF Surjection
  <2>9. RankIn(R, V, w) = n - 1
    BY <2>1, <2>8
  <2>. QED BY <2>9
<1>. QED BY <1>1, <1>2, <1>3, <1>4, <1>5

(* The first members of an ordered set, in order, have the first ranks.    *)
LEMMA RankOfListed ==
  ASSUME NEW V, IsFiniteSet(V), NEW R, Orders(R, V),
         NEW l \in Nat, NEW y \in [1 .. l -> V],
         \A i, j \in 1 .. l : i < j => <<y[i], y[j]>> \in R,
         \A i \in 1 .. l : \A v \in V : <<v, y[i]>> \in R => \E j \in 1 .. l : v = y[j]
  PROVE  \A i \in 1 .. l : RankIn(R, V, y[i]) = i - 1
<1>. SUFFICES ASSUME NEW i \in 1 .. l PROVE RankIn(R, V, y[i]) = i - 1
  OBVIOUS
<1>. DEFINE I == 1 .. i - 1
            U == Under(R, V, y[i])
            f == [j \in I |-> y[j]]
<1>1. \A j \in I : j \in 1 .. l /\ j < i /\ f[j] = y[j]
  OBVIOUS
<1>2. \A j \in I : f[j] \in U
  BY <1>1 DEF Under
<1>3. \A j1, j2 \in 1 .. l : y[j1] = y[j2] => j1 = j2
  <2>. SUFFICES ASSUME NEW j1 \in 1 .. l, NEW j2 \in 1 .. l, y[j1] = y[j2], j1 < j2
                PROVE  FALSE
    OBVIOUS
  <2>1. <<y[j1], y[j1]>> \in R /\ y[j1] \in V
    OBVIOUS
  <2>. QED BY <2>1 DEF Orders
<1>4. \A v \in U : \E j \in I : f[j] = v
  <2>. SUFFICES ASSUME NEW v \in V, <<v, y[i]>> \in R PROVE \E j \in I : f[j] = v
    BY DEF Under
  <2>1. PICK j \in 1 .. l : v = y[j]
    OBVIOUS
  <2>2. j # i
    BY <2>1 DEF Orders
  <2>3. ~(i < j)
    <3>. SUFFICES ASSUME i < j PROVE FALSE
      OBVIOUS
    <3>1. <<y[i], y[j]>> \in R /\ <<y[j], y[i]>> \in R /\ y[i] \in V /\ y[j] \in V
      BY <2>1
    <3>. QED BY <3>1 DEF Orders
  <2>4. j \in I
    BY <2>2, <2>3
  <2>. QED BY <2>1, <2>4, <1>1
<1>5. f \in [I -> U] /\ DOMAIN f = I
  BY <1>2
<1>6. \A j1, j2 \in I : f[j1] = f[j2] => j1 = j2
  BY <1>1, <1>3
<1>. HIDE DEF f
<1>7. f \in Bijection(I, U)
  BY <1>4, <1>5, <1>6 DEF Bijection, Injection, Surjection, IsInjective
<1>8. IsFiniteSet(I) /\ Cardinality(I) = i - 1
  <2>1. IsFiniteSet(I) /\ Cardinality(I) = IF 1 > i - 1 THEN 0 ELSE (i - 1) - 1 + 1
    BY FS_Interval
  <2>. QED BY <2>1
<1>9. ExistsBijection(I, U)
  BY <1>7 DEF ExistsBijection
<1>10. Cardinality(U) = Cardinality(I)
  <2>. HIDE DEF I, U
  <2>. QED BY <1>8, <1>9, FS_Bijection
<1>. QED BY <1>8, <1>10 DEF RankIn

-----------------------------------------------------------------------------
(* The sum of the first n numbers of w.                                    *)
Adding(w) == [p \in Nat \X (1 .. Len(w)) |-> p[1] + w[p[2]]]
Sums(w) == CHOOSE h : Folding(h, Len(w), Nat, 0, Adding(w))
Total(w, n) == Sums(w)[1 .. n]

(* It grows by one number with each position.                              *)
LEMMA TotalSteps ==
  ASSUME NEW w \in Seq(Nat)
  PROVE  /\ Total(w, 0) = 0
         /\ \A k \in 0 .. Len(w) : Total(w, k) \in Nat
         /\ \A k \in 1 .. Len(w) : Total(w, k) = Total(w, k - 1) + w[k]
<1>. DEFINE N == Len(w)
<1>1. N \in Nat /\ w \in [1 .. N -> Nat]
  OBVIOUS
<1>2. Adding(w) \in [Nat \X (1 .. N) -> Nat]
  BY <1>1 DEF Adding
<1>3. \E h : Folding(h, N, Nat, 0, Adding(w))
  BY <1>1, <1>2, FoldExists
<1>4. Folding(Sums(w), N, Nat, 0, Adding(w))
  BY <1>3 DEF Sums
<1>5. /\ Sums(w) \in [SUBSET (1 .. N) -> Nat]
      /\ \A s \in SUBSET (1 .. N) :
           Sums(w)[s] = IF s = {} THEN 0 ELSE Adding(w)[<<Sums(w)[s \ {Max(s)}], Max(s)>>]
  BY <1>4 DEF Folding
<1>. HIDE DEF N
<1>6. Total(w, 0) = 0
  <2>1. 1 .. 0 = {} /\ {} \in SUBSET (1 .. N)
    OBVIOUS
  <2>. QED BY <2>1, <1>5 DEF Total
<1>7. ASSUME NEW k \in 0 .. N PROVE Total(w, k) \in Nat
  <2>1. 1 .. k \in SUBSET (1 .. N)
    BY <1>1
  <2>. QED BY <2>1, <1>5 DEF Total
<1>8. ASSUME NEW k \in 1 .. N PROVE Total(w, k) = Total(w, k - 1) + w[k]
  <2>1. 1 .. k \in SUBSET (1 .. N) /\ 1 .. k # {} /\ Max(1 .. k) = k
        /\ (1 .. k) \ {k} = 1 .. k - 1
    BY <1>1, LastPosition
  <2>2. Sums(w)[1 .. k] = Adding(w)[<<Sums(w)[1 .. k - 1], k>>]
    BY <2>1, <1>5
  <2>3. Sums(w)[1 .. k - 1] \in Nat
    <3>1. 1 .. k - 1 \in SUBSET (1 .. N)
      BY <1>1
    <3>. QED BY <3>1, <1>5
  <2>4. Adding(w)[<<Sums(w)[1 .. k - 1], k>>] = Sums(w)[1 .. k - 1] + w[k]
    BY <2>3, <1>1 DEF Adding, N
  <2>. QED BY <2>2, <2>4 DEF Total
<1>. QED BY <1>6, <1>7, <1>8 DEF N

(* A sum depends on the numbers it adds, and on no others.                 *)
LEMMA TotalSame ==
  ASSUME NEW w \in Seq(Nat), NEW x \in Seq(Nat), NEW n \in Nat,
         n <= Len(w), n <= Len(x), \A k \in 1 .. n : w[k] = x[k]
  PROVE  Total(w, n) = Total(x, n)
<1>. DEFINE S == {k \in Nat : k <= n => Total(w, k) = Total(x, k)}
<1>1. 0 \in S
  BY TotalSteps
<1>2. ASSUME NEW k \in Nat, k \in S PROVE k + 1 \in S
  <2>. SUFFICES ASSUME k + 1 <= n PROVE Total(w, k + 1) = Total(x, k + 1)
    OBVIOUS
  <2>1. (k + 1) - 1 = k /\ k + 1 \in 1 .. n
    OBVIOUS
  <2>2. k + 1 \in 1 .. Len(w) /\ k + 1 \in 1 .. Len(x)
    BY <2>1
  <2>3. Total(w, k + 1) = Total(w, k) + w[k + 1]
    BY <2>1, <2>2, TotalSteps
  <2>4. Total(x, k + 1) = Total(x, k) + x[k + 1]
    BY <2>1, <2>2, TotalSteps
  <2>5. Total(w, k) = Total(x, k)
    BY <1>2
  <2>. QED BY <2>1, <2>3, <2>4, <2>5
<1>. HIDE DEF S
<1>3. n \in S
  BY <1>1, <1>2, NatInductive
<1>. QED BY <1>3 DEF S

(* A longer sum is no smaller.                                             *)
LEMMA TotalGrows ==
  ASSUME NEW w \in Seq(Nat), NEW m \in Nat, NEW n \in Nat, m <= n, n <= Len(w)
  PROVE  Total(w, m) <= Total(w, n)
<1>. DEFINE S == {k \in Nat : m + k <= Len(w) => Total(w, m) <= Total(w, m + k)}
<1>1. 0 \in S
  BY TotalSteps
<1>2. ASSUME NEW k \in Nat, k \in S PROVE k + 1 \in S
  <2>. SUFFICES ASSUME m + (k + 1) <= Len(w) PROVE Total(w, m) <= Total(w, m + (k + 1))
    OBVIOUS
  <2>1. (m + (k + 1)) - 1 = m + k /\ m + (k + 1) \in 1 .. Len(w) /\ m + k \in 0 .. Len(w)
        /\ m \in 0 .. Len(w)
    OBVIOUS
  <2>2. Total(w, m + (k + 1)) = Total(w, m + k) + w[m + (k + 1)]
    BY <2>1, TotalSteps
  <2>3. Total(w, m) <= Total(w, m + k)
    BY <1>2
  <2>4. Total(w, m) \in Nat /\ Total(w, m + k) \in Nat /\ w[m + (k + 1)] \in Nat
    BY SMTT(30), <2>1, TotalSteps
  <2>. QED BY <2>2, <2>3, <2>4
<1>. HIDE DEF S
<1>3. n - m \in Nat /\ m + (n - m) = n
  OBVIOUS
<1>4. n - m \in S
  BY <1>1, <1>2, <1>3, NatInductive
<1>. QED BY <1>3, <1>4 DEF S

(* A sum of fewer positive numbers is less.                                *)
LEMMA TotalLess ==
  ASSUME NEW w \in Seq(Nat), \A k \in 1 .. Len(w) : w[k] > 0,
         NEW j \in Nat, j < Len(w)
  PROVE  Total(w, j) < Total(w, Len(w))
<1>. DEFINE N == Len(w)
<1>1. /\ N \in Nat /\ j + 1 \in 1 .. N /\ (j + 1) - 1 = j /\ j \in 0 .. N
      /\ j + 1 \in Nat /\ j + 1 <= N /\ N <= N /\ j + 1 \in 0 .. N /\ N \in 0 .. N
  OBVIOUS
<1>2. /\ Total(w, j + 1) = Total(w, j) + w[j + 1] /\ Total(w, j) \in Nat
      /\ Total(w, N) \in Nat /\ Total(w, j + 1) \in Nat
  BY <1>1, TotalSteps
<1>3. Total(w, j + 1) <= Total(w, N)
  BY ZenonT(60), <1>1, TotalGrows
<1>4. w[j + 1] > 0 /\ w[j + 1] \in Nat
  BY <1>1
<1>. QED BY <1>2, <1>3, <1>4

(* A sum over two sequences, one after the other.                          *)
LEMMA TotalConcat ==
  ASSUME NEW w \in Seq(Nat), NEW x \in Seq(Nat), NEW n \in Nat, n <= Len(x)
  PROVE  Total(w \o x, Len(w) + n) = Total(w, Len(w)) + Total(x, n)
<1>. DEFINE L == Len(w)
            S == {k \in Nat : k <= Len(x) => Total(w \o x, L + k) = Total(w, L) + Total(x, k)}
<1>1. L \in Nat /\ w \o x \in Seq(Nat) /\ Len(w \o x) = L + Len(x)
      /\ \A k \in 1 .. L : (w \o x)[k] = w[k]
  OBVIOUS
<1>2. 0 \in S
  <2>1. Total(w \o x, L) = Total(w, L)
    <3>1. L <= Len(w) /\ L <= Len(w \o x) /\ \A k \in 1 .. L : w[k] = (w \o x)[k]
      BY <1>1
    <3>. HIDE DEF L
    <3>. QED BY <1>1, <3>1, TotalSame
  <2>2. L + 0 = L /\ L \in 0 .. Len(w) /\ Total(x, 0) = 0
    BY <1>1, TotalSteps
  <2>3. Total(w, L) \in Nat
    BY <2>2, TotalSteps
  <2>. QED BY <2>1, <2>2, <2>3
<1>3. ASSUME NEW k \in Nat, k \in S PROVE k + 1 \in S
  <2>. SUFFICES ASSUME k + 1 <= Len(x)
                PROVE  Total(w \o x, L + (k + 1)) = Total(w, L) + Total(x, k + 1)
    OBVIOUS
  <2>1. /\ (L + (k + 1)) - 1 = L + k /\ L + (k + 1) \in 1 .. L + Len(x)
        /\ k + 1 \in 1 .. Len(x) /\ (k + 1) - 1 = k /\ k \in 0 .. Len(x)
        /\ (w \o x)[L + (k + 1)] = x[k + 1]
    BY <1>1
  <2>2. Total(w \o x, L + (k + 1)) = Total(w \o x, L + k) + x[k + 1]
    <3>. DEFINE c == w \o x
                p == L + (k + 1)
    <3>1. c \in Seq(Nat) /\ p \in 1 .. Len(c) /\ p - 1 = L + k /\ c[p] = x[k + 1]
      BY <1>1, <2>1
    <3>. HIDE DEF c, p
    <3>2. Total(c, p) = Total(c, p - 1) + c[p]
      BY <3>1, TotalSteps
    <3>. QED BY <3>1, <3>2 DEF c, p
  <2>3. Total(x, k + 1) = Total(x, k) + x[k + 1]
    BY <2>1, TotalSteps
  <2>4. Total(w \o x, L + k) = Total(w, L) + Total(x, k)
    BY <1>3
  <2>5. Total(w, L) \in Nat /\ Total(x, k) \in Nat /\ x[k + 1] \in Nat
    <3>1. L \in 0 .. Len(w)
      BY <1>1
    <3>. QED BY SMTT(30), <2>1, <3>1, TotalSteps
  <2>. QED BY <2>2, <2>3, <2>4, <2>5
<1>. HIDE DEF S
<1>4. n \in S
  BY <1>2, <1>3, NatInductive
<1>. QED BY <1>4 DEF S

(* What the fold of SumOf is, when w has what is summed.                   *)
Summing(f, w) ==
  f = [s \in SUBSET (1 .. Len(w)) |->
         IF s = {} THEN 0 ELSE f[s \ {Max(s)}] + w[Max(s)]]

(* One such function exists, and each of them ends with the total.         *)
LEMMA SummingIsTotal ==
  ASSUME NEW w \in Seq(Nat)
  PROVE  /\ Summing(Sums(w), w)
         /\ \A f : Summing(f, w) => f[1 .. Len(w)] = Total(w, Len(w))
<1>. DEFINE N == Len(w)
<1>1. N \in Nat /\ w \in [1 .. N -> Nat]
  OBVIOUS
<1>2. Adding(w) \in [Nat \X (1 .. N) -> Nat]
  BY <1>1 DEF Adding
<1>3. \E h : Folding(h, N, Nat, 0, Adding(w))
  BY <1>1, <1>2, FoldExists
<1>4. Folding(Sums(w), N, Nat, 0, Adding(w))
  BY <1>3 DEF Sums
<1>5. /\ Sums(w) \in [SUBSET (1 .. N) -> Nat]
      /\ \A s \in SUBSET (1 .. N) :
           Sums(w)[s] = IF s = {} THEN 0 ELSE Adding(w)[<<Sums(w)[s \ {Max(s)}], Max(s)>>]
  BY <1>4 DEF Folding
<1>6. Summing(Sums(w), w)
  <2>1. \A s \in SUBSET (1 .. N) :
          Sums(w)[s] = IF s = {} THEN 0 ELSE Sums(w)[s \ {Max(s)}] + w[Max(s)]
    <3>. SUFFICES ASSUME NEW s \in SUBSET (1 .. N), s # {}
                  PROVE  Sums(w)[s] = Sums(w)[s \ {Max(s)}] + w[Max(s)]
      BY <1>5
    <3>1. Max(s) \in 1 .. N
      BY <1>1, MaxOfPositions
    <3>2. s \ {Max(s)} \in SUBSET (1 .. N)
      OBVIOUS
    <3>3. Sums(w)[s \ {Max(s)}] \in Nat
      BY <1>5, <3>2
    <3>4. Adding(w)[<<Sums(w)[s \ {Max(s)}], Max(s)>>] = Sums(w)[s \ {Max(s)}] + w[Max(s)]
      BY <3>1, <3>3 DEF Adding
    <3>. QED BY <1>5, <3>4
  <2>2. Sums(w) = [s \in SUBSET (1 .. N) |-> Sums(w)[s]]
    BY <1>5
  <2>. QED BY <2>1, <2>2 DEF Summing
<1>7. ASSUME NEW f, Summing(f, w) PROVE f[1 .. N] = Total(w, N)
  <2>. DEFINE S == {k \in Nat : k <= N => f[1 .. k] = Total(w, k)}
  <2>1. \A s \in SUBSET (1 .. N) : f[s] = IF s = {} THEN 0 ELSE f[s \ {Max(s)}] + w[Max(s)]
    BY <1>7 DEF Summing
  <2>. HIDE DEF N
  <2>2. 0 \in S
    <3>1. 1 .. 0 = {} /\ {} \in SUBSET (1 .. N)
      OBVIOUS
    <3>2. Total(w, 0) = 0
      BY TotalSteps
    <3>. QED BY <2>1, <3>1, <3>2
  <2>3. ASSUME NEW k \in Nat, k \in S PROVE k + 1 \in S
    <3>. SUFFICES ASSUME k + 1 <= N PROVE f[1 .. k + 1] = Total(w, k + 1)
      OBVIOUS
    <3>1. k + 1 \in 1 .. N /\ (k + 1) - 1 = k
      BY <1>1
    <3>2. /\ 1 .. k + 1 \in SUBSET (1 .. N) /\ 1 .. k + 1 # {}
          /\ Max(1 .. k + 1) = k + 1 /\ (1 .. k + 1) \ {k + 1} = 1 .. (k + 1) - 1
      <4>. DEFINE i == k + 1
      <4>. HIDE DEF i
      <4>1. i \in 1 .. N
        BY <3>1 DEF i
      <4>2. /\ 1 .. i \in SUBSET (1 .. N) /\ 1 .. i # {}
            /\ Max(1 .. i) = i /\ (1 .. i) \ {i} = 1 .. i - 1
        BY <1>1, <4>1, LastPosition
      <4>. QED BY <4>2 DEF i
    <3>3. f[1 .. k + 1] = f[1 .. k] + w[k + 1]
      BY <2>1, <3>1, <3>2
    <3>4. Total(w, k + 1) = Total(w, k) + w[k + 1]
      <4>1. k + 1 \in 1 .. Len(w)
        BY <3>1 DEF N
      <4>. QED BY <3>1, <4>1, TotalSteps
    <3>5. f[1 .. k] = Total(w, k)
      BY <1>1, <2>3
    <3>. QED BY <3>3, <3>4, <3>5
  <2>. HIDE DEF S
  <2>4. N \in S
    BY <1>1, <2>2, <2>3, NatInductive
  <2>. QED BY <1>1, <2>4 DEF S
<1>. QED BY <1>6, <1>7

(* The sum of the counts of a sequence of tokens.                          *)
LEMMA CountsSum ==
  ASSUME NEW w \in Seq(Nat), NEW q, DOMAIN q = 1 .. Len(w),
         \A k \in 1 .. Len(w) : q[k].count = w[k]
  PROVE  CountSum(q) = Total(w, Len(w))
<1>. DEFINE Fold(f) == f = [s \in SUBSET DOMAIN q |->
                              IF s = {} THEN 0 ELSE f[s \ {Max(s)}] + q[Max(s)].count]
            b == CHOOSE f : Fold(f)
<1>1. CountSum(q) = b[DOMAIN q]
  BY DEF CountSum, SumOf, FoldLeft, MapThenFoldSet
<1>2. ASSUME NEW f PROVE Fold(f) <=> Summing(f, w)
  <2>1. \A s \in SUBSET (1 .. Len(w)) :
           (IF s = {} THEN 0 ELSE f[s \ {Max(s)}] + q[Max(s)].count)
             = (IF s = {} THEN 0 ELSE f[s \ {Max(s)}] + w[Max(s)])
    <3>. SUFFICES ASSUME NEW s \in SUBSET (1 .. Len(w)), s # {}
                  PROVE  q[Max(s)].count = w[Max(s)]
      OBVIOUS
    <3>1. Len(w) \in Nat /\ Max(s) \in s
      <4>1. Len(w) \in Nat
        OBVIOUS
      <4>. QED BY <4>1, MaxOfPositions
    <3>. QED BY <3>1
  <2>2. [s \in SUBSET (1 .. Len(w)) |->
            IF s = {} THEN 0 ELSE f[s \ {Max(s)}] + q[Max(s)].count]
         = [s \in SUBSET (1 .. Len(w)) |->
            IF s = {} THEN 0 ELSE f[s \ {Max(s)}] + w[Max(s)]]
    BY <2>1
  <2>. QED BY <2>2 DEF Summing
<1>. HIDE DEF Fold
<1>3. Fold(b)
  BY <1>2, SummingIsTotal
<1>. HIDE DEF b
<1>. QED BY <1>1, <1>2, <1>3, SummingIsTotal

(* The sum of the lengths of a sequence of records.                        *)
LEMMA LengthsSum ==
  ASSUME NEW w \in Seq(Nat), NEW q, DOMAIN q = 1 .. Len(w),
         \A k \in 1 .. Len(w) : q[k].length = w[k]
  PROVE  LengthSum(q) = Total(w, Len(w))
<1>. DEFINE Fold(f) == f = [s \in SUBSET DOMAIN q |->
                              IF s = {} THEN 0 ELSE f[s \ {Max(s)}] + q[Max(s)].length]
            b == CHOOSE f : Fold(f)
<1>1. LengthSum(q) = b[DOMAIN q]
  BY DEF LengthSum, SumOf, FoldLeft, MapThenFoldSet
<1>2. ASSUME NEW f PROVE Fold(f) <=> Summing(f, w)
  <2>1. \A s \in SUBSET (1 .. Len(w)) :
           (IF s = {} THEN 0 ELSE f[s \ {Max(s)}] + q[Max(s)].length)
             = (IF s = {} THEN 0 ELSE f[s \ {Max(s)}] + w[Max(s)])
    <3>. SUFFICES ASSUME NEW s \in SUBSET (1 .. Len(w)), s # {}
                  PROVE  q[Max(s)].length = w[Max(s)]
      OBVIOUS
    <3>1. Len(w) \in Nat /\ Max(s) \in s
      <4>1. Len(w) \in Nat
        OBVIOUS
      <4>. QED BY <4>1, MaxOfPositions
    <3>. QED BY <3>1
  <2>2. [s \in SUBSET (1 .. Len(w)) |->
            IF s = {} THEN 0 ELSE f[s \ {Max(s)}] + q[Max(s)].length]
         = [s \in SUBSET (1 .. Len(w)) |->
            IF s = {} THEN 0 ELSE f[s \ {Max(s)}] + w[Max(s)]]
    BY <2>1
  <2>. QED BY <2>2 DEF Summing
<1>. HIDE DEF Fold
<1>3. Fold(b)
  BY <1>2, SummingIsTotal
<1>. HIDE DEF b
<1>. QED BY <1>1, <1>2, <1>3, SummingIsTotal

(* The sum of the sizes of a sequence of bitmaps.                          *)
LEMMA SizesSum ==
  ASSUME NEW w \in Seq(Nat), NEW q, DOMAIN q = 1 .. Len(w),
         \A k \in 1 .. Len(w) : BitmapSize(q[k]) = w[k]
  PROVE  DataSize(q) = Total(w, Len(w))
<1>. DEFINE Fold(f) == f = [s \in SUBSET DOMAIN q |->
                              IF s = {} THEN 0 ELSE f[s \ {Max(s)}] + BitmapSize(q[Max(s)])]
            b == CHOOSE f : Fold(f)
<1>1. DataSize(q) = b[DOMAIN q]
  BY DEF DataSize, SumOf, FoldLeft, MapThenFoldSet
<1>2. ASSUME NEW f PROVE Fold(f) <=> Summing(f, w)
  <2>1. \A s \in SUBSET (1 .. Len(w)) :
           (IF s = {} THEN 0 ELSE f[s \ {Max(s)}] + BitmapSize(q[Max(s)]))
             = (IF s = {} THEN 0 ELSE f[s \ {Max(s)}] + w[Max(s)])
    <3>. SUFFICES ASSUME NEW s \in SUBSET (1 .. Len(w)), s # {}
                  PROVE  BitmapSize(q[Max(s)]) = w[Max(s)]
      OBVIOUS
    <3>1. Len(w) \in Nat /\ Max(s) \in s
      <4>1. Len(w) \in Nat
        OBVIOUS
      <4>. QED BY <4>1, MaxOfPositions
    <3>. QED BY <3>1
  <2>2. [s \in SUBSET (1 .. Len(w)) |->
            IF s = {} THEN 0 ELSE f[s \ {Max(s)}] + BitmapSize(q[Max(s)])]
         = [s \in SUBSET (1 .. Len(w)) |->
            IF s = {} THEN 0 ELSE f[s \ {Max(s)}] + w[Max(s)]]
    BY <2>1
  <2>. QED BY <2>2 DEF Summing
<1>. HIDE DEF Fold
<1>3. Fold(b)
  BY <1>2, SummingIsTotal
<1>. HIDE DEF b
<1>. QED BY <1>1, <1>2, <1>3, SummingIsTotal

(* The sum of the lengths of a sequence of sequences.                      *)
LEMMA LensSum ==
  ASSUME NEW w \in Seq(Nat), NEW q, DOMAIN q = 1 .. Len(w),
         \A k \in 1 .. Len(w) : Len(q[k]) = w[k]
  PROVE  LenSum(q) = Total(w, Len(w))
<1>. DEFINE Fold(f) == f = [s \in SUBSET DOMAIN q |->
                              IF s = {} THEN 0 ELSE f[s \ {Max(s)}] + Len(q[Max(s)])]
            b == CHOOSE f : Fold(f)
<1>1. LenSum(q) = b[DOMAIN q]
  BY DEF LenSum, SumOf, FoldLeft, MapThenFoldSet
<1>2. ASSUME NEW f PROVE Fold(f) <=> Summing(f, w)
  <2>1. \A s \in SUBSET (1 .. Len(w)) :
           (IF s = {} THEN 0 ELSE f[s \ {Max(s)}] + Len(q[Max(s)]))
             = (IF s = {} THEN 0 ELSE f[s \ {Max(s)}] + w[Max(s)])
    <3>. SUFFICES ASSUME NEW s \in SUBSET (1 .. Len(w)), s # {}
                  PROVE  Len(q[Max(s)]) = w[Max(s)]
      OBVIOUS
    <3>1. Len(w) \in Nat /\ Max(s) \in s
      <4>1. Len(w) \in Nat
        OBVIOUS
      <4>. QED BY <4>1, MaxOfPositions
    <3>. QED BY <3>1
  <2>2. [s \in SUBSET (1 .. Len(w)) |->
            IF s = {} THEN 0 ELSE f[s \ {Max(s)}] + Len(q[Max(s)])]
         = [s \in SUBSET (1 .. Len(w)) |->
            IF s = {} THEN 0 ELSE f[s \ {Max(s)}] + w[Max(s)]]
    BY <2>1
  <2>. QED BY <2>2 DEF Summing
<1>. HIDE DEF Fold
<1>3. Fold(b)
  BY <1>2, SummingIsTotal
<1>. HIDE DEF b
<1>. QED BY <1>1, <1>2, <1>3, SummingIsTotal

(* The sum of the lengths of a sequence of list headers.                   *)
LEMMA HeadsSum ==
  ASSUME NEW w \in Seq(Nat), NEW q, DOMAIN q = 1 .. Len(w),
         \A k \in 1 .. Len(w) : q[k].length = w[k]
  PROVE  HeadsSize(q) = Total(w, Len(w))
<1>. DEFINE Fold(f) == f = [s \in SUBSET DOMAIN q |->
                              IF s = {} THEN 0 ELSE f[s \ {Max(s)}] + q[Max(s)].length]
            b == CHOOSE f : Fold(f)
<1>1. HeadsSize(q) = b[DOMAIN q]
  BY DEF HeadsSize, SumOf, FoldLeft, MapThenFoldSet
<1>2. ASSUME NEW f PROVE Fold(f) <=> Summing(f, w)
  <2>1. \A s \in SUBSET (1 .. Len(w)) :
           (IF s = {} THEN 0 ELSE f[s \ {Max(s)}] + q[Max(s)].length)
             = (IF s = {} THEN 0 ELSE f[s \ {Max(s)}] + w[Max(s)])
    <3>. SUFFICES ASSUME NEW s \in SUBSET (1 .. Len(w)), s # {}
                  PROVE  q[Max(s)].length = w[Max(s)]
      OBVIOUS
    <3>1. Len(w) \in Nat /\ Max(s) \in s
      <4>1. Len(w) \in Nat
        OBVIOUS
      <4>. QED BY <4>1, MaxOfPositions
    <3>. QED BY <3>1
  <2>2. [s \in SUBSET (1 .. Len(w)) |->
            IF s = {} THEN 0 ELSE f[s \ {Max(s)}] + q[Max(s)].length]
         = [s \in SUBSET (1 .. Len(w)) |->
            IF s = {} THEN 0 ELSE f[s \ {Max(s)}] + w[Max(s)]]
    BY <2>1
  <2>. QED BY <2>2 DEF Summing
<1>. HIDE DEF Fold
<1>3. Fold(b)
  BY <1>2, SummingIsTotal
<1>. HIDE DEF b
<1>. QED BY <1>1, <1>2, <1>3, SummingIsTotal

-----------------------------------------------------------------------------
(* The members of a finite set of numbers, each once, in ascending order.  *)
Climbs(y) == \A i, j \in DOMAIN y : i < j => y[i] < y[j]
Lists(y, S) == /\ y \in [1 .. Len(y) -> S]
               /\ Len(y) \in Nat
               /\ Climbs(y)
               /\ \A x \in S : \E i \in 1 .. Len(y) : y[i] = x

(* The members of S are natural numbers.                                   *)
Numbers(S) == \A x \in S : x \in Nat

(* The order of the numbers as a relation.                                 *)
Less == {p \in Nat \X Nat : p[1] < p[2]}

(* It orders every set of natural numbers.                                 *)
LEMMA LessOrders ==
  ASSUME NEW S, Numbers(S)
  PROVE  /\ Orders(Less, S)
         /\ \A x, y \in S : <<x, y>> \in Less <=> x < y
         /\ \A x \in S : Under(Less, S, x) = {y \in S : y < x}
<1>1. \A x, y \in S : <<x, y>> \in Less <=> x < y
  BY DEF Less, Numbers
<1>2. Orders(Less, S)
  <2>1. \A v \in S : v \in Nat
    BY DEF Numbers
  <2>. HIDE DEF Less
  <2>. QED BY <1>1, <2>1 DEF Orders
<1>3. \A x \in S : Under(Less, S, x) = {y \in S : y < x}
  BY <1>1 DEF Under
<1>. QED BY <1>1, <1>2, <1>3

(* Ascending lists the set.                                                *)
LEMMA AscendingLists ==
  ASSUME NEW S, IsFiniteSet(S), Numbers(S)
  PROVE  /\ Lists(Ascending(S), S)
         /\ Len(Ascending(S)) = Cardinality(S)
         /\ \A k \in 1 .. Cardinality(S) :
              Cardinality({y \in S : y < Ascending(S)[k]}) = k - 1
<1>. DEFINE A == Ascending(S)
            N == Cardinality(S)
            Is(k, x) == Cardinality({y \in S : y < x}) = k - 1
<1>1. /\ N \in Nat
      /\ \A w \in S : RankIn(Less, S, w) \in 0 .. N - 1
      /\ \A v, w \in S : <<v, w>> \in Less => RankIn(Less, S, v) < RankIn(Less, S, w)
      /\ \A v, w \in S : RankIn(Less, S, v) = RankIn(Less, S, w) => v = w
      /\ \A n \in 1 .. N : \E w \in S : RankIn(Less, S, w) = n - 1
  <2>1. Orders(Less, S)
    BY LessOrders
  <2>. QED BY <2>1, Ranks
<1>2. \A w \in S : RankIn(Less, S, w) = Cardinality({y \in S : y < w})
  BY LessOrders DEF RankIn
<1>3. A = [k \in 1 .. N |-> CHOOSE x \in S : Is(k, x)]
  BY DEF Ascending
<1>4. ASSUME NEW k \in 1 .. N
      PROVE  A[k] \in S /\ RankIn(Less, S, A[k]) = k - 1
                        /\ Cardinality({y \in S : y < A[k]}) = k - 1
  <2>1. \E x \in S : Cardinality({y \in S : y < x}) = k - 1
    BY <1>1, <1>2
  <2>2. A[k] = CHOOSE x \in S : Cardinality({y \in S : y < x}) = k - 1
    <3>. HIDE DEF A
    <3>. QED BY <1>3
  <2>3. A[k] \in S /\ Cardinality({y \in S : y < A[k]}) = k - 1
    BY <2>1, <2>2
  <2>. HIDE DEF A
  <2>. QED BY <2>3, <1>2
<1>. HIDE DEF A, N, Is
<1>5. A \in [1 .. N -> S] /\ Len(A) = N
  <2>1. A = [k \in 1 .. N |-> A[k]]
    BY <1>3
  <2>2. A \in [1 .. N -> S]
    BY <1>4, <2>1
  <2>. QED BY <1>1, <2>2
<1>6. Climbs(A)
  <2>. SUFFICES ASSUME NEW i \in 1 .. N, NEW j \in 1 .. N, i < j PROVE A[i] < A[j]
    BY <1>5 DEF Climbs
  <2>1. A[i] \in S /\ A[j] \in S /\ RankIn(Less, S, A[i]) = i - 1 /\ RankIn(Less, S, A[j]) = j - 1
    BY <1>4
  <2>2. A[i] \in Nat /\ A[j] \in Nat
    BY <2>1 DEF Numbers
  <2>3. ~(A[i] = A[j]) /\ ~(A[j] < A[i])
    <3>1. A[j] < A[i] => <<A[j], A[i]>> \in Less
      BY <2>1, LessOrders
    <3>2. A[j] < A[i] => j - 1 < i - 1
      BY <3>1, <2>1, <1>1
    <3>. QED BY <3>2, <2>1
  <2>. QED BY <2>2, <2>3
<1>7. \A x \in S : \E i \in 1 .. N : A[i] = x
  <2>. SUFFICES ASSUME NEW x \in S PROVE \E i \in 1 .. N : A[i] = x
    OBVIOUS
  <2>. DEFINE r == RankIn(Less, S, x)
  <2>1. r \in 0 .. N - 1
    BY <1>1
  <2>2. r + 1 \in 1 .. N /\ (r + 1) - 1 = r
    BY <2>1, <1>1
  <2>3. A[r + 1] \in S /\ RankIn(Less, S, A[r + 1]) = r
    BY <1>4, <2>2
  <2>4. A[r + 1] = x
    BY <2>3, <1>1
  <2>. HIDE DEF r
  <2>. QED BY <2>2, <2>4
<1>8. \A k \in 1 .. N : Cardinality({y \in S : y < A[k]}) = k - 1
  BY <1>4
<1>. QED BY <1>1, <1>5, <1>6, <1>7, <1>8 DEF Lists, A, N

(* And nothing else lists it.                                              *)
LEMMA ListedOnce ==
  ASSUME NEW S, NEW y, Lists(y, S), Numbers(S)
  PROVE  IsFiniteSet(S) /\ Cardinality(S) = Len(y) /\ y = Ascending(S) /\ y \in Seq(S)
<1>. DEFINE l == Len(y)
<1>1. /\ l \in Nat /\ y \in [1 .. l -> S] /\ DOMAIN y = 1 .. l
      /\ \A i, j \in 1 .. l : i < j => y[i] < y[j]
      /\ \A x \in S : \E i \in 1 .. l : y[i] = x
  BY DEF Lists, Climbs
<1>. HIDE DEF l
<1>2. \A i, j \in 1 .. l : y[i] = y[j] => i = j
  <2>. SUFFICES ASSUME NEW i \in 1 .. l, NEW j \in 1 .. l, y[i] = y[j], i < j PROVE FALSE
    BY <1>1
  <2>1. y[i] < y[j] /\ y[i] \in Nat
    BY <1>1 DEF Numbers
  <2>. QED BY <2>1
<1>3. y \in Bijection(1 .. l, S)
  BY <1>1, <1>2 DEF Bijection, Injection, Surjection, IsInjective
<1>4. IsFiniteSet(S) /\ Cardinality(S) = l
  <2>1. ExistsBijection(1 .. l, S)
    BY <1>3 DEF ExistsBijection
  <2>2. IsFiniteSet(S)
    BY <1>1, <2>1, FS_NatBijection
  <2>. QED BY <1>1, <2>1, <2>2, FS_CountingElements
<1>5. \A i \in 1 .. l : RankIn(Less, S, y[i]) = i - 1
  <2>1. \A i, j \in 1 .. l : i < j => <<y[i], y[j]>> \in Less
    BY <1>1, LessOrders
  <2>2. \A i \in 1 .. l : \A v \in S : <<v, y[i]>> \in Less => \E j \in 1 .. l : v = y[j]
    BY <1>1
  <2>3. Orders(Less, S)
    BY LessOrders
  <2>4. l \in Nat /\ y \in [1 .. l -> S]
    BY <1>1
  <2>5. IsFiniteSet(S)
    BY <1>4
  <2>. QED BY <2>1, <2>2, <2>3, <2>4, <2>5, RankOfListed
<1>6. /\ Lists(Ascending(S), S) /\ Len(Ascending(S)) = l
      /\ \A k \in 1 .. l : Cardinality({x \in S : x < Ascending(S)[k]}) = k - 1
  BY <1>4, AscendingLists
<1>7. \A k \in 1 .. l : Ascending(S)[k] = y[k]
  <2>. SUFFICES ASSUME NEW k \in 1 .. l PROVE Ascending(S)[k] = y[k]
    OBVIOUS
  <2>1. Ascending(S)[k] \in S /\ y[k] \in S
    BY <1>1, <1>6 DEF Lists
  <2>2. RankIn(Less, S, Ascending(S)[k]) = k - 1
    BY <1>6, <2>1, LessOrders DEF RankIn
  <2>3. RankIn(Less, S, y[k]) = k - 1
    BY <1>5
  <2>4. Orders(Less, S)
    BY LessOrders
  <2>5. \A v, w \in S : RankIn(Less, S, v) = RankIn(Less, S, w) => v = w
    BY <1>4, <2>4, Ranks
  <2>. QED BY <2>1, <2>2, <2>3, <2>5
<1>8. y = Ascending(S)
  <2>1. Ascending(S) \in [1 .. l -> S]
    BY <1>6 DEF Lists
  <2>. QED BY <1>1, <1>7, <2>1
<1>9. y \in Seq(S)
  BY <1>1
<1>. QED BY <1>4, <1>8, <1>9 DEF l

(* Two lists, one below the other, list the union.                         *)
LEMMA ListedConcat ==
  ASSUME NEW S, NEW T, Numbers(S), Numbers(T), NEW y, NEW z,
         Lists(y, S), Lists(z, T), \A s \in S, t \in T : s < t
  PROVE  Lists(y \o z, S \union T)
<1>. DEFINE m == Len(y)
            n == Len(z)
            c == y \o z
<1>1. /\ m \in Nat /\ y \in [1 .. m -> S] /\ DOMAIN y = 1 .. m
      /\ \A i, j \in 1 .. m : i < j => y[i] < y[j]
      /\ \A x \in S : \E i \in 1 .. m : y[i] = x
  BY DEF Lists, Climbs
<1>2. /\ n \in Nat /\ z \in [1 .. n -> T] /\ DOMAIN z = 1 .. n
      /\ \A i, j \in 1 .. n : i < j => z[i] < z[j]
      /\ \A x \in T : \E i \in 1 .. n : z[i] = x
  BY DEF Lists, Climbs
<1>3. /\ Len(c) = m + n /\ DOMAIN c = 1 .. m + n
      /\ \A i \in 1 .. m : c[i] = y[i]
      /\ \A i \in 1 .. n : c[m + i] = z[i]
  BY <1>1, <1>2
<1>. HIDE DEF m, n, c
<1>4. \A i \in 1 .. m + n : i \in 1 .. m \/ (i - m \in 1 .. n /\ i = m + (i - m))
  BY <1>1, <1>2
<1>5. \A i \in 1 .. m + n : c[i] = IF i \in 1 .. m THEN y[i] ELSE z[i - m]
  BY <1>3, <1>4
<1>6. c \in [1 .. m + n -> S \union T]
  <2>1. \A i \in 1 .. m + n : c[i] \in S \union T
    BY <1>1, <1>2, <1>4, <1>5
  <2>2. c = [i \in 1 .. m + n |-> c[i]]
    <3>1. y \in Seq(S \union T) /\ z \in Seq(S \union T)
      BY <1>1, <1>2
    <3>2. c \in Seq(S \union T)
      BY <3>1 DEF c
    <3>. QED BY <1>3, <3>2
  <2>. QED BY <2>1, <2>2
<1>7. \A i, j \in 1 .. m + n : i < j => c[i] < c[j]
  <2>. SUFFICES ASSUME NEW i \in 1 .. m + n, NEW j \in 1 .. m + n, i < j PROVE c[i] < c[j]
    OBVIOUS
  <2>1. \A x \in S \union T : x \in Nat
    BY DEF Numbers
  <2>2. CASE i \in 1 .. m /\ j \in 1 .. m
    BY <2>2, <1>1, <1>5
  <2>3. CASE i \in 1 .. m /\ j \notin 1 .. m
    <3>1. j - m \in 1 .. n
      BY <2>3, <1>4
    <3>2. y[i] \in S /\ z[j - m] \in T
      BY <2>3, <3>1, <1>1, <1>2
    <3>. QED BY <2>3, <3>2, <1>5
  <2>4. CASE i \notin 1 .. m
    <3>1. i - m \in 1 .. n /\ j - m \in 1 .. n /\ i - m < j - m /\ j \notin 1 .. m
      BY <2>4, <1>4, <1>1, <1>2
    <3>. QED BY <2>4, <3>1, <1>2, <1>5
  <2>. QED BY <2>2, <2>3, <2>4
<1>8. \A x \in S \union T : \E i \in 1 .. m + n : c[i] = x
  <2>. SUFFICES ASSUME NEW x \in S \union T PROVE \E i \in 1 .. m + n : c[i] = x
    OBVIOUS
  <2>1. CASE x \in S
    <3>1. PICK i \in 1 .. m : y[i] = x
      BY <2>1, <1>1
    <3>2. i \in 1 .. m + n
      BY <1>1, <1>2
    <3>. QED BY <3>1, <3>2, <1>3
  <2>2. CASE x \in T
    <3>1. PICK i \in 1 .. n : z[i] = x
      BY <2>2, <1>2
    <3>2. m + i \in 1 .. m + n
      BY <1>1, <1>2
    <3>. QED BY <3>1, <3>2, <1>3
  <2>. QED BY <2>1, <2>2
<1>9. m + n \in Nat
  BY <1>1, <1>2
<1>10. Lists(c, S \union T)
  BY <1>3, <1>6, <1>7, <1>8, <1>9 DEF Lists, Climbs
<1>. QED BY <1>10 DEF c

-----------------------------------------------------------------------------
(* Each position of a sum belongs to one of the numbers that it adds.      *)
LEMMA Located ==
  ASSUME NEW w \in Seq(Nat), NEW m \in Nat, 1 <= m, m <= Total(w, Len(w))
  PROVE  \E n \in 1 .. Len(w) : \E k \in 1 .. w[n] : m = Total(w, n - 1) + k
<1>. DEFINE N == Len(w)
            T == {n \in Nat : n <= N /\ m <= Total(w, n)}
<1>1. N \in Nat
  OBVIOUS
<1>2. T \in SUBSET Nat /\ T # {}
  <2>1. N \in T
    BY <1>1
  <2>. QED BY <2>1
<1>. HIDE DEF N
<1>3. PICK n \in T : \A x \in T : n <= x
  <2>. HIDE DEF T
  <2>. QED BY <1>2, NatLeast
<1>4. n \in Nat /\ n <= N /\ m <= Total(w, n)
  BY <1>3
<1>5. n # 0
  <2>1. Total(w, 0) = 0
    BY TotalSteps
  <2>. QED BY <1>4, <2>1
<1>6. n \in 1 .. N /\ n - 1 \in 0 .. N /\ n - 1 \notin T
  BY <1>1, <1>3, <1>4, <1>5
<1>7. ~(m <= Total(w, n - 1))
  BY <1>6
<1>8. /\ Total(w, n) = Total(w, n - 1) + w[n]
      /\ Total(w, n - 1) \in Nat
      /\ w[n] \in Nat
  BY <1>6, TotalSteps DEF N
<1>9. m - Total(w, n - 1) \in 1 .. w[n] /\ m = Total(w, n - 1) + (m - Total(w, n - 1))
  BY <1>4, <1>7, <1>8
<1>. QED BY <1>6, <1>9 DEF N

(* The lengths of a sequence of sequences.                                 *)
Lens(q) == [n \in 1 .. Len(q) |-> Len(q[n])]

(* They are numbers, one for each sequence.                                *)
LEMMA LensAre ==
  ASSUME NEW V, NEW q \in Seq(Seq(V))
  PROVE  /\ Lens(q) \in Seq(Nat)
         /\ Len(Lens(q)) = Len(q)
         /\ \A n \in 1 .. Len(q) : Lens(q)[n] = Len(q[n])
<1>1. Len(q) \in Nat /\ \A n \in 1 .. Len(q) : q[n] \in Seq(V)
  OBVIOUS
<1>2. \A n \in 1 .. Len(q) : Len(q[n]) \in Nat
  BY <1>1
<1>3. Lens(q) \in [1 .. Len(q) -> Nat]
  BY <1>2 DEF Lens
<1>. QED BY <1>1, <1>3 DEF Lens

(* The parts of a concatenation.                                           *)
LEMMA CatParts ==
  ASSUME NEW V, NEW x \in Seq(V), NEW y \in Seq(V)
  PROVE  /\ x \o y \in Seq(V)
         /\ Len(x \o y) = Len(x) + Len(y)
         /\ \A m \in 1 .. Len(x) : (x \o y)[m] = x[m]
         /\ \A m \in 1 .. Len(y) : (x \o y)[Len(x) + m] = y[m]
  OBVIOUS

(* FlattenSeq puts the sequences one after the other: each has its place   *)
(* behind the ones before it.                                              *)
LEMMA FlattenPlaces ==
  ASSUME NEW V, NEW q \in Seq(Seq(V))
  PROVE  /\ FlattenSeq(q) \in Seq(V)
         /\ Len(FlattenSeq(q)) = Total(Lens(q), Len(q))
         /\ \A n \in 1 .. Len(q) : \A k \in 1 .. Len(q[n]) :
              /\ Total(Lens(q), n - 1) + k \in 1 .. Len(FlattenSeq(q))
              /\ FlattenSeq(q)[Total(Lens(q), n - 1) + k] = q[n][k]
<1>. DEFINE N == Len(q)
            w == Lens(q)
            F == FlattenSeq(q)
<1>1. /\ N \in Nat /\ w \in Seq(Nat) /\ Len(w) = N
      /\ \A n \in 1 .. N : q[n] \in Seq(V) /\ w[n] = Len(q[n]) /\ w[n] \in Nat
  BY LensAre
<1>2. CASE N = 0
  <2>1. Total(w, 0) = 0
    <3>. HIDE DEF w
    <3>. QED BY <1>1, TotalSteps
  <2>2. F = q /\ q = << >> /\ Total(w, 0) = 0 /\ 1 .. N = {}
    BY <1>2, <2>1 DEF FlattenSeq
  <2>3. F \in Seq(V) /\ Len(F) = 0
    BY <2>2
  <2>. QED BY <1>2, <2>2, <2>3
<1>3. CASE N # 0
  <2>. DEFINE Flat(f) == f = [i \in 1 .. N |-> IF i = 1 THEN q[i] ELSE f[i - 1] \o q[i]]
              b == CHOOSE f : Flat(f)
              step == [p \in Seq(V) \X (1 .. N) |-> p[1] \o q[p[2]]]
  <2>1. F = b[N]
    BY <1>3 DEF FlattenSeq
  <2>2. << >> \in Seq(V) /\ step \in [Seq(V) \X (1 .. N) -> Seq(V)]
    <3>1. \A p \in Seq(V) \X (1 .. N) : p[1] \in Seq(V) /\ q[p[2]] \in Seq(V)
      BY <1>1
    <3>. QED BY <3>1
  <2>3. \A x \in Seq(V) : \A i \in 1 .. N : step[<<x, i>>] = x \o q[i]
    OBVIOUS
  <2>. HIDE DEF step, N, w, F
  <2>4. PICK h : Folding(h, N, Seq(V), << >>, step)
    BY <1>1, <2>2, FoldExists
  <2>5. /\ h \in [SUBSET (1 .. N) -> Seq(V)]
        /\ \A s \in SUBSET (1 .. N) :
             h[s] = IF s = {} THEN << >> ELSE step[<<h[s \ {Max(s)}], Max(s)>>]
    BY <2>4 DEF Folding
  <2>. DEFINE g == [i \in 1 .. N |-> h[1 .. i]]
  <2>6. Flat(g)
    <3>1. ASSUME NEW i \in 1 .. N
          PROVE  g[i] = IF i = 1 THEN q[i] ELSE g[i - 1] \o q[i]
      <4>1. 1 .. i \in SUBSET (1 .. N) /\ 1 .. i # {} /\ Max(1 .. i) = i
            /\ (1 .. i) \ {i} = 1 .. i - 1
        BY <1>1, LastPosition
      <4>2. 1 .. i - 1 \in SUBSET (1 .. N) /\ h[1 .. i - 1] \in Seq(V)
        <5>1. 1 .. i - 1 \in SUBSET (1 .. N)
          BY <4>1
        <5>. QED BY <5>1, <2>5
      <4>3. h[1 .. i] = h[1 .. i - 1] \o q[i]
        <5>1. h[1 .. i] = step[<<h[1 .. i - 1], i>>]
          BY <4>1, <2>5
        <5>. QED BY <5>1, <4>2, <2>3
      <4>4. CASE i = 1
        <5>1. h[1 .. 0] = << >>
          <6>1. 1 .. 0 = {} /\ {} \in SUBSET (1 .. N)
            OBVIOUS
          <6>. QED BY <6>1, <2>5
        <5>2. i - 1 = 0 /\ q[i] \in Seq(V)
          BY <1>1, <4>4
        <5>3. << >> \o q[i] = q[i]
          BY <5>2
        <5>. QED BY <4>3, <4>4, <5>1, <5>2, <5>3
      <4>5. CASE i # 1
        <5>1. i - 1 \in 1 .. N
          BY <1>1, <4>5
        <5>. QED BY <4>3, <4>5, <5>1
      <4>. QED BY <4>4, <4>5
    <3>2. g = [i \in 1 .. N |-> g[i]]
      OBVIOUS
    <3>. HIDE DEF g
    <3>. QED BY <3>1, <3>2
  <2>. HIDE DEF g
  <2>7. Flat(b)
    <3>. HIDE DEF Flat
    <3>. QED BY <2>6
  <2>. HIDE DEF b
  <2>8. b[1] = q[1] /\ \A i \in 2 .. N : b[i] = b[i - 1] \o q[i]
    <3>1. \A i \in 1 .. N : b[i] = IF i = 1 THEN q[i] ELSE b[i - 1] \o q[i]
      BY <2>7
    <3>2. 1 \in 1 .. N /\ \A i \in 2 .. N : i \in 1 .. N /\ i # 1
      BY <1>1, <1>3
    <3>. HIDE DEF Flat
    <3>. QED BY <3>1, <3>2
  <2>. HIDE DEF Flat
  <2>. DEFINE Placed(i) ==
                /\ b[i] \in Seq(V)
                /\ Len(b[i]) = Total(w, i)
                /\ \A n \in 1 .. i : \A k \in 1 .. Len(q[n]) :
                     /\ Total(w, n - 1) + k \in 1 .. Total(w, i)
                     /\ b[i][Total(w, n - 1) + k] = q[n][k]
              S == {i \in Nat : i + 1 <= N => Placed(i + 1)}
  <2>9. 0 \in S
    <3>1. 1 \in 1 .. N /\ Total(w, 0) = 0 /\ Total(w, 1) = Total(w, 0) + w[1]
      <4>1. 1 \in 1 .. N /\ 1 - 1 = 0
        BY <1>1, <1>3
      <4>. QED BY <4>1, <1>1, TotalSteps
    <3>2. q[1] \in Seq(V) /\ w[1] = Len(q[1]) /\ w[1] \in Nat
      BY <3>1, <1>1
    <3>3. Total(w, 1) = Len(q[1])
      BY <3>1, <3>2
    <3>4. \A n \in 1 .. 1 : n = 1 /\ n - 1 = 0
      OBVIOUS
    <3>5. Placed(1)
      BY <2>8, <3>1, <3>2, <3>3, <3>4
    <3>. HIDE DEF Placed
    <3>. QED BY <3>5
  <2>10. ASSUME NEW i \in Nat, i \in S PROVE i + 1 \in S
    <3>. SUFFICES ASSUME (i + 1) + 1 <= N PROVE Placed((i + 1) + 1)
      <4>1. i + 1 \in Nat
        OBVIOUS
      <4>. HIDE DEF Placed
      <4>. QED BY <4>1
    <3>. DEFINE j == i + 1
    <3>1. j \in 1 .. N /\ j + 1 \in 1 .. N /\ j + 1 \in 2 .. N /\ (j + 1) - 1 = j
          /\ j \in 0 .. N
      BY <1>1
    <3>2. Placed(j)
      <4>1. i + 1 <= N
        BY <1>1
      <4>. HIDE DEF Placed
      <4>. QED BY <4>1, <2>10
    <3>. HIDE DEF j
    <3>3. /\ Total(w, j + 1) = Total(w, j) + w[j + 1]
          /\ Total(w, j) \in Nat
          /\ w[j + 1] = Len(q[j + 1]) /\ w[j + 1] \in Nat /\ q[j + 1] \in Seq(V)
      <4>1. Total(w, j + 1) = Total(w, (j + 1) - 1) + w[j + 1]
        BY <3>1, <1>1, TotalSteps
      <4>2. Total(w, j) \in Nat
        BY <3>1, <1>1, TotalSteps
      <4>. QED BY <4>1, <4>2, <3>1, <1>1
    <3>4. b[j + 1] = b[j] \o q[j + 1]
      <4>1. b[j + 1] = b[(j + 1) - 1] \o q[j + 1]
        BY <2>8, <3>1
      <4>. QED BY <4>1, <3>1
    <3>. DEFINE x == b[j]
                y == q[j + 1]
                L == Total(w, j)
    <3>5. /\ x \in Seq(V) /\ Len(x) = L /\ y \in Seq(V) /\ L \in Nat
          /\ Len(y) = w[j + 1] /\ w[j + 1] \in Nat
      BY <3>2, <3>3
    <3>6. /\ x \o y \in Seq(V)
          /\ Len(x \o y) = L + Len(y)
          /\ \A m \in 1 .. L : (x \o y)[m] = x[m]
          /\ \A m \in 1 .. Len(y) : (x \o y)[L + m] = y[m]
      <4>1. x \in Seq(V) /\ y \in Seq(V) /\ Len(x) = L
        BY <3>5
      <4>. HIDE DEF x, y, L
      <4>2. x \in Seq(V) /\ y \in Seq(V)
        BY <4>1
      <4>3. /\ x \o y \in Seq(V)
            /\ Len(x \o y) = Len(x) + Len(y)
            /\ \A m \in 1 .. Len(x) : (x \o y)[m] = x[m]
            /\ \A m \in 1 .. Len(y) : (x \o y)[Len(x) + m] = y[m]
        BY <4>2, CatParts
      <4>4. Len(x) = L
        BY <4>1
      <4>. QED BY <4>3, <4>4
    <3>7. b[j + 1] \in Seq(V) /\ Len(b[j + 1]) = Total(w, j + 1)
      BY <3>3, <3>4, <3>5, <3>6
    <3>8. ASSUME NEW n \in 1 .. j + 1, NEW k \in 1 .. Len(q[n])
          PROVE  /\ Total(w, n - 1) + k \in 1 .. Total(w, j + 1)
                 /\ b[j + 1][Total(w, n - 1) + k] = q[n][k]
      <4>1. CASE n = j + 1
        <5>1. n - 1 = j /\ k \in 1 .. Len(y)
          BY <3>1, <4>1
        <5>2. L + k \in 1 .. Total(w, j + 1)
          BY <5>1, <3>3, <3>5
        <5>3. b[j + 1][L + k] = y[k]
          BY <3>4, <3>6, <5>1
        <5>. QED BY <4>1, <5>1, <5>2, <5>3
      <4>2. CASE n # j + 1
        <5>1. n \in 1 .. j
          BY <3>1, <4>2
        <5>2. Total(w, n - 1) + k \in 1 .. L /\ x[Total(w, n - 1) + k] = q[n][k]
          BY <3>2, <5>1
        <5>3. L <= Total(w, j + 1)
          BY <3>3
        <5>4. Total(w, n - 1) + k \in 1 .. Total(w, j + 1)
          BY <5>2, <5>3, <3>3
        <5>5. (x \o y)[Total(w, n - 1) + k] = x[Total(w, n - 1) + k]
          BY <5>2, <3>6
        <5>. QED BY <3>4, <5>2, <5>4, <5>5
      <4>. QED BY <4>1, <4>2
    <3>9. Placed(j + 1)
      BY <3>7, <3>8
    <3>. QED BY <3>9 DEF j
  <2>. HIDE DEF S
  <2>11. N - 1 \in Nat /\ (N - 1) + 1 = N /\ N - 1 \in S
    <3>1. N - 1 \in Nat /\ (N - 1) + 1 = N
      BY <1>1, <1>3
    <3>. QED BY <3>1, <2>9, <2>10, NatInductive
  <2>12. Placed(N)
    <3>. HIDE DEF Placed
    <3>. QED BY <1>1, <2>11 DEF S
  <2>. QED BY <2>1, <2>12 DEF N, w, F
<1>. QED BY <1>2, <1>3

-----------------------------------------------------------------------------
(* Two sums that differ in one number.                                     *)
LEMMA TotalReplace ==
  ASSUME NEW w \in Seq(Nat), NEW x \in Seq(Nat), NEW m \in 1 .. Len(w), Len(x) = Len(w),
         \A n \in 1 .. Len(w) : n # m => w[n] = x[n]
  PROVE  Total(w, Len(w)) + x[m] = Total(x, Len(w)) + w[m]
<1>. DEFINE S == {k \in Nat : m + k <= Len(w) => Total(w, m + k) + x[m] = Total(x, m + k) + w[m]}
<1>1. Len(w) \in Nat /\ m \in Nat /\ w[m] \in Nat /\ x[m] \in Nat
  OBVIOUS
<1>2. 0 \in S
  <2>1. m \in 1 .. Len(x) /\ m - 1 \in Nat /\ m - 1 <= Len(w) /\ m - 1 <= Len(x) /\ m + 0 = m
        /\ m - 1 \in 0 .. Len(x) /\ m - 1 \in 0 .. Len(w)
    OBVIOUS
  <2>2. Total(w, m - 1) = Total(x, m - 1)
    <3>. DEFINE p == m - 1
    <3>1. p \in Nat /\ p <= Len(w) /\ p <= Len(x) /\ \A k \in 1 .. p : w[k] = x[k]
      BY <2>1
    <3>. HIDE DEF p
    <3>2. Total(w, p) = Total(x, p)
      BY <3>1, TotalSame
    <3>. QED BY <3>2 DEF p
  <2>3. Total(w, m) = Total(w, m - 1) + w[m] /\ Total(x, m) = Total(x, m - 1) + x[m]
        /\ Total(w, m - 1) \in Nat
    BY <2>1, TotalSteps
  <2>. QED BY <1>1, <2>1, <2>2, <2>3
<1>3. ASSUME NEW k \in Nat, k \in S PROVE k + 1 \in S
  <2>. DEFINE p == m + (k + 1)
  <2>. SUFFICES ASSUME p <= Len(w) PROVE Total(w, p) + x[m] = Total(x, p) + w[m]
    OBVIOUS
  <2>1. p \in 1 .. Len(w) /\ p \in 1 .. Len(x) /\ p - 1 = m + k /\ p # m
        /\ p - 1 \in 0 .. Len(w) /\ p - 1 \in 0 .. Len(x)
    <3>1. p \in Nat /\ p >= 1 /\ p > m /\ p - 1 = m + k /\ p <= Len(w)
      BY <1>1
    <3>. HIDE DEF p
    <3>. QED BY <3>1, <1>1
  <2>2. Total(w, m + k) + x[m] = Total(x, m + k) + w[m]
    BY <1>3
  <2>. HIDE DEF p
  <2>3. Total(w, p - 1) + x[m] = Total(x, p - 1) + w[m]
    BY <2>1, <2>2
  <2>4. Total(w, p) = Total(w, p - 1) + w[p] /\ Total(x, p) = Total(x, p - 1) + x[p]
        /\ Total(w, p - 1) \in Nat /\ Total(x, p - 1) \in Nat
    BY <2>1, TotalSteps
  <2>5. w[p] = x[p] /\ w[p] \in Nat
    BY <2>1
  <2>. DEFINE t == Total(w, p - 1)
              u == Total(x, p - 1)
              e == w[p]
              c == x[m]
              d == w[m]
  <2>6. t \in Nat /\ u \in Nat /\ e \in Nat /\ c \in Nat /\ d \in Nat /\ t + c = u + d
        /\ Total(w, p) = t + e /\ Total(x, p) = u + e
    BY <1>1, <2>4, <2>5, <2>3
  <2>. HIDE DEF t, u, e, c, d
  <2>7. Total(w, p) + c = Total(x, p) + d
    BY <2>6
  <2>. QED BY <2>7 DEF c, d
<1>. HIDE DEF S
<1>4. Len(w) - m \in Nat /\ m + (Len(w) - m) = Len(w)
  BY <1>1
<1>5. Len(w) - m \in S
  BY <1>2, <1>3, <1>4, NatInductive
<1>. QED BY <1>4, <1>5 DEF S

(* A sum over a set is the sum over any list that has each member once.    *)
Masked(w, g, s) == [n \in 1 .. Len(w) |-> IF g[n] \in s THEN w[n] ELSE 0]

(* The sum of the numbers whose members are in s loses one number with     *)
(* each member that s loses.                                               *)
LEMMA MaskedSum ==
  ASSUME NEW w \in Seq(Nat), NEW S, NEW g \in Bijection(1 .. Len(w), S)
  PROVE  /\ \A s : Masked(w, g, s) \in Seq(Nat) /\ Len(Masked(w, g, s)) = Len(w)
         /\ Total(Masked(w, g, {}), Len(w)) = 0
         /\ Total(Masked(w, g, S), Len(w)) = Total(w, Len(w))
         /\ \A s \in SUBSET S : \A n \in 1 .. Len(w) : g[n] \in s =>
              Total(Masked(w, g, s), Len(w))
                = w[n] + Total(Masked(w, g, s \ {g[n]}), Len(w))
<1>. DEFINE N == Len(w)
<1>1. N \in Nat /\ w \in [1 .. N -> Nat] /\ g \in [1 .. N -> S]
      /\ \A i, j \in 1 .. N : g[i] = g[j] => i = j
  BY DEF Bijection, Injection, IsInjective
<1>2. ASSUME NEW s PROVE Masked(w, g, s) \in Seq(Nat) /\ Len(Masked(w, g, s)) = N
        /\ \A n \in 1 .. N : Masked(w, g, s)[n] = IF g[n] \in s THEN w[n] ELSE 0
  <2>1. Masked(w, g, s) \in [1 .. N -> Nat]
    BY <1>1 DEF Masked
  <2>2. \A n \in 1 .. N : Masked(w, g, s)[n] = IF g[n] \in s THEN w[n] ELSE 0
    BY DEF Masked
  <2>. QED BY SMTT(30), <1>1, <2>1, <2>2
<1>3. Total(Masked(w, g, {}), N) = 0
  <2>. DEFINE x == Masked(w, g, {})
              Z == {k \in Nat : k <= N => Total(x, k) = 0}
  <2>1. x \in Seq(Nat) /\ Len(x) = N /\ \A n \in 1 .. N : x[n] = 0
    BY <1>2
  <2>. HIDE DEF x, N
  <2>2. 0 \in Z
    BY <2>1, TotalSteps
  <2>3. ASSUME NEW k \in Nat, k \in Z PROVE k + 1 \in Z
    <3>. SUFFICES ASSUME k + 1 <= N PROVE Total(x, k + 1) = 0
      OBVIOUS
    <3>1. k + 1 \in 1 .. Len(x) /\ (k + 1) - 1 = k /\ x[k + 1] = 0 /\ k <= N
      BY <1>1, <2>1
    <3>2. Total(x, k + 1) = Total(x, k) + x[k + 1]
      BY <2>1, <3>1, TotalSteps
    <3>. QED BY <2>3, <3>1, <3>2
  <2>. HIDE DEF Z
  <2>4. N \in Z
    BY <1>1, <2>2, <2>3, NatInductive
  <2>. QED BY <1>1, <2>4 DEF Z, x
<1>4. Total(Masked(w, g, S), N) = Total(w, N)
  <2>1. \A n \in 1 .. N : Masked(w, g, S)[n] = w[n]
    BY <1>1, <1>2
  <2>2. Masked(w, g, S) \in Seq(Nat) /\ Len(Masked(w, g, S)) = N
    BY <1>2
  <2>. QED BY SMTT(30), <1>1, <2>1, <2>2, TotalSame
<1>5. ASSUME NEW s \in SUBSET S, NEW n \in 1 .. N, g[n] \in s
      PROVE  Total(Masked(w, g, s), N) = w[n] + Total(Masked(w, g, s \ {g[n]}), N)
  <2>. DEFINE x == Masked(w, g, s)
              y == Masked(w, g, s \ {g[n]})
  <2>1. x \in Seq(Nat) /\ Len(x) = N /\ y \in Seq(Nat) /\ Len(y) = N
    BY <1>2
  <2>2. x[n] = w[n] /\ y[n] = 0
    BY <1>2, <1>5
  <2>3. ASSUME NEW m \in 1 .. N, m # n PROVE x[m] = y[m]
    <3>1. g[m] # g[n]
      BY <1>1, <2>3
    <3>2. x[m] = (IF g[m] \in s THEN w[m] ELSE 0)
      BY <1>2
    <3>3. y[m] = (IF g[m] \in s \ {g[n]} THEN w[m] ELSE 0)
      BY <1>2
    <3>4. g[m] \in s <=> g[m] \in s \ {g[n]}
      BY <3>1
    <3>. QED BY <3>2, <3>3, <3>4
  <2>. HIDE DEF x, y, N
  <2>4. Total(x, N) + y[n] = Total(y, N) + x[n]
    BY ZenonT(60), <2>1, <2>3, TotalReplace
  <2>5. Total(x, N) \in Nat /\ Total(y, N) \in Nat /\ w[n] \in Nat /\ N \in 0 .. N
    <3>1. N \in 0 .. N
      BY <1>1
    <3>. QED BY <1>1, <2>1, <3>1, TotalSteps
  <2>. QED BY <2>2, <2>4, <2>5 DEF x, y
<1>. QED BY <1>2, <1>3, <1>4, <1>5

(* The fold of MapThenSumSet over a set of the numbers c.                  *)
SetSumming(f, c, S) ==
  f = [s \in SUBSET S |->
         IF s = {} THEN 0
         ELSE LET x == CHOOSE x \in s : TRUE IN c[x] + f[s \ {x}]]

(* Such a function exists, and its value for S is the total, whatever      *)
(* member CHOOSE takes first.                                              *)
LEMMA SetSumIsTotal ==
  ASSUME NEW w \in Seq(Nat), NEW S, NEW g \in Bijection(1 .. Len(w), S), NEW c,
         \A n \in 1 .. Len(w) : c[g[n]] = w[n]
  PROVE  /\ \E f : SetSumming(f, c, S)
         /\ \A f : SetSumming(f, c, S) => f[S] = Total(w, Len(w))
<1>. DEFINE N == Len(w)
            M(s) == Total(Masked(w, g, s), N)
            h == [s \in SUBSET S |-> M(s)]
<1>1. N \in Nat /\ g \in [1 .. N -> S] /\ \A x \in S : \E n \in 1 .. N : g[n] = x
  BY DEF Bijection, Injection, Surjection
<1>2. M({}) = 0 /\ M(S) = Total(w, N)
  BY MaskedSum
<1>3. ASSUME NEW s \in SUBSET S, NEW x \in s PROVE M(s) = c[x] + M(s \ {x})
  <2>1. PICK n \in 1 .. N : g[n] = x
    BY <1>1
  <2>2. M(s) = w[n] + M(s \ {g[n]})
    <3>1. \A u \in SUBSET S : \A i \in 1 .. N : g[i] \in u => M(u) = w[i] + M(u \ {g[i]})
      BY ZenonT(60), MaskedSum
    <3>. HIDE DEF M
    <3>. QED BY <2>1, <3>1
  <2>. QED BY <2>1, <2>2
<1>. HIDE DEF M
<1>4. SetSumming(h, c, S)
  <2>1. ASSUME NEW s \in SUBSET S
        PROVE  h[s] = IF s = {} THEN 0
                      ELSE LET x == CHOOSE x \in s : TRUE IN c[x] + h[s \ {x}]
    <3>1. CASE s = {}
      BY <1>2, <3>1
    <3>2. CASE s # {}
      <4>. DEFINE x == CHOOSE x \in s : TRUE
      <4>1. x \in s
        BY <3>2
      <4>. HIDE DEF x
      <4>2. s \ {x} \in SUBSET S
        OBVIOUS
      <4>3. h[s] = M(s) /\ h[s \ {x}] = M(s \ {x})
        BY <4>2
      <4>4. h[s] = c[x] + h[s \ {x}]
        BY <1>3, <4>1, <4>3
      <4>. QED BY <3>2, <4>4 DEF x
    <3>. QED BY <3>1, <3>2
  <2>2. h = [s \in SUBSET S |-> h[s]]
    OBVIOUS
  <2>. HIDE DEF h
  <2>. QED BY <2>1, <2>2 DEF SetSumming
<1>5. ASSUME NEW f, SetSumming(f, c, S) PROVE f[S] = Total(w, N)
  <2>. DEFINE K == {k \in Nat : \A s \in SUBSET S :
                                  IsFiniteSet(s) /\ Cardinality(s) = k => f[s] = M(s)}
  <2>1. \A s \in SUBSET S :
          f[s] = IF s = {} THEN 0
                 ELSE LET x == CHOOSE x \in s : TRUE IN c[x] + f[s \ {x}]
    BY <1>5 DEF SetSumming
  <2>2. 0 \in K
    <3>. SUFFICES ASSUME NEW s \in SUBSET S, IsFiniteSet(s), Cardinality(s) = 0
                  PROVE  f[s] = M(s)
      OBVIOUS
    <3>1. s = {}
      BY FS_EmptySet
    <3>. QED BY <3>1, <2>1, <1>2
  <2>3. ASSUME NEW k \in Nat, k \in K PROVE k + 1 \in K
    <3>. SUFFICES ASSUME NEW s \in SUBSET S, IsFiniteSet(s), Cardinality(s) = k + 1
                  PROVE  f[s] = M(s)
      OBVIOUS
    <3>1. s # {}
      BY FS_EmptySet
    <3>. DEFINE x == CHOOSE x \in s : TRUE
    <3>2. x \in s
      BY <3>1
    <3>3. f[s] = c[x] + f[s \ {x}]
      BY <3>1, <2>1
    <3>. HIDE DEF x
    <3>4. s \ {x} \in SUBSET S /\ IsFiniteSet(s \ {x}) /\ Cardinality(s \ {x}) = k
      <4>1. IsFiniteSet(s \ {x}) /\ Cardinality(s \ {x}) = Cardinality(s) - 1
        BY <3>2, FS_RemoveElement
      <4>. QED BY <4>1
    <3>5. f[s \ {x}] = M(s \ {x})
      BY <2>3, <3>4
    <3>. QED BY <1>3, <3>2, <3>3, <3>5
  <2>. HIDE DEF K
  <2>4. \A k \in Nat : k \in K
    BY <2>2, <2>3, NatInductive
  <2>5. IsFiniteSet(S) /\ Cardinality(S) \in Nat
    <3>1. ExistsBijection(1 .. N, S)
      BY DEF ExistsBijection
    <3>2. IsFiniteSet(S)
      BY <1>1, <3>1, FS_NatBijection
    <3>. QED BY <3>2, FS_CardinalityType
  <2>6. f[S] = M(S)
    <3>1. Cardinality(S) \in K
      BY <2>4, <2>5
    <3>. QED BY <2>5, <3>1 DEF K
  <2>. QED BY <2>6, <1>2
<1>. QED BY <1>4, <1>5

(* The token at a place of the tables.                                     *)
TokenAt(s, p) == s.fields[p[1]].tokens[p[2]]

(* Tokens that a running cursor numbered and gave their frequencies, cover *)
(* the tables.                                                             *)
LEMMA CursorCovers ==
  ASSUME NEW s, NEW w \in Seq(Nat), NEW g \in Bijection(1 .. Len(w), TokensOf(s)),
         \A n \in 1 .. Len(w) : /\ TokenAt(s, g[n]).list = n - 1
                                /\ TokenAt(s, g[n]).freq = Total(w, n - 1)
                                /\ TokenAt(s, g[n]).count = w[n],
         Len(s.lists) = Len(w),
         Len(s.freqs) = Total(w, Len(w))
  PROVE  TablesCovered(s)
<1>. DEFINE S == TokensOf(s)
            N == Len(w)
            c == [p \in S |-> TokenAt(s, p).count]
<1>1. /\ N \in Nat /\ g \in [1 .. N -> S]
      /\ \A i, j \in 1 .. N : g[i] = g[j] => i = j
      /\ \A p \in S : \E n \in 1 .. N : g[n] = p
  BY DEF Bijection, Injection, Surjection, IsInjective
<1>2. Cardinality(S) = Len(s.lists)
  <2>1. ExistsBijection(1 .. N, S)
    BY DEF ExistsBijection
  <2>2. IsFiniteSet(S)
    BY <1>1, <2>1, FS_NatBijection
  <2>. QED BY <1>1, <2>1, <2>2, FS_CountingElements
<1>3. ASSUME NEW p \in S, NEW q \in S, p # q
      PROVE  /\ TokenAt(s, p).list # TokenAt(s, q).list
             /\ \/ TokenAt(s, p).freq + TokenAt(s, p).count <= TokenAt(s, q).freq
                \/ TokenAt(s, q).freq + TokenAt(s, q).count <= TokenAt(s, p).freq
  <2>1. PICK i \in 1 .. N : g[i] = p
    BY <1>1
  <2>2. PICK j \in 1 .. N : g[j] = q
    BY <1>1
  <2>3. i # j /\ i \in Nat /\ j \in Nat
    BY <1>3, <2>1, <2>2
  <2>4. \A m, n \in 1 .. N : m < n => Total(w, m - 1) + w[m] <= Total(w, n - 1)
    <3>. SUFFICES ASSUME NEW m \in 1 .. N, NEW n \in 1 .. N, m < n
                  PROVE  Total(w, m - 1) + w[m] <= Total(w, n - 1)
      OBVIOUS
    <3>1. Total(w, m) = Total(w, m - 1) + w[m]
      BY TotalSteps
    <3>2. m \in Nat /\ n - 1 \in Nat /\ m <= n - 1 /\ n - 1 <= Len(w)
      BY <1>1
    <3>3. Total(w, m) <= Total(w, n - 1)
      <4>. DEFINE k == n - 1
      <4>. HIDE DEF k
      <4>1. k \in Nat /\ m \in Nat /\ m <= k /\ k <= Len(w)
        BY <3>2 DEF k
      <4>2. Total(w, m) <= Total(w, k)
        BY <4>1, TotalGrows
      <4>. QED BY <4>2 DEF k
    <3>. QED BY <3>1, <3>3
  <2>5. i < j \/ j < i
    BY <2>3
  <2>6. TokenAt(s, p).list = i - 1 /\ TokenAt(s, q).list = j - 1
        /\ TokenAt(s, p).freq = Total(w, i - 1) /\ TokenAt(s, q).freq = Total(w, j - 1)
        /\ TokenAt(s, p).count = w[i] /\ TokenAt(s, q).count = w[j]
    BY <2>1, <2>2
  <2>7. TokenAt(s, p).list # TokenAt(s, q).list
    BY <2>3, <2>6
  <2>8. i < j => Total(w, i - 1) + w[i] <= Total(w, j - 1)
    BY <2>4
  <2>9. j < i => Total(w, j - 1) + w[j] <= Total(w, i - 1)
    BY <2>4
  <2>. QED BY <2>5, <2>6, <2>7, <2>8, <2>9
<1>4. MapThenSumSet(LAMBDA p : TokenAt(s, p).count, S) = Total(w, N)
  <2>. DEFINE Fold(f) == f = [z \in SUBSET S |->
                IF z = {} THEN 0
                ELSE LET x == CHOOSE x \in z : TRUE
                     IN  TokenAt(s, x).count + f[z \ {x}]]
              b == CHOOSE f : Fold(f)
  <2>1. MapThenSumSet(LAMBDA p : TokenAt(s, p).count, S) = b[S]
    BY DEF MapThenSumSet, MapThenFoldSet
  <2>2. ASSUME NEW f PROVE Fold(f) <=> SetSumming(f, c, S)
    <3>1. \A z \in SUBSET S :
            (IF z = {} THEN 0
             ELSE LET x == CHOOSE x \in z : TRUE IN TokenAt(s, x).count + f[z \ {x}])
            = (IF z = {} THEN 0
               ELSE LET x == CHOOSE x \in z : TRUE IN c[x] + f[z \ {x}])
      <4>. SUFFICES ASSUME NEW z \in SUBSET S, z # {}
                    PROVE  TokenAt(s, CHOOSE x \in z : TRUE).count = c[CHOOSE x \in z : TRUE]
        OBVIOUS
      <4>1. (CHOOSE x \in z : TRUE) \in S
        OBVIOUS
      <4>. QED BY <4>1
    <3>2. [z \in SUBSET S |->
              IF z = {} THEN 0
              ELSE LET x == CHOOSE x \in z : TRUE IN TokenAt(s, x).count + f[z \ {x}]]
          = [z \in SUBSET S |->
              IF z = {} THEN 0
              ELSE LET x == CHOOSE x \in z : TRUE IN c[x] + f[z \ {x}]]
      <4>. HIDE DEF c, S
      <4>. QED BY <3>1
    <3>. HIDE DEF c, S
    <3>. QED BY <3>2 DEF SetSumming
  <2>3. \A n \in 1 .. Len(w) : c[g[n]] = w[n]
    BY <1>1
  <2>4. /\ \E f : SetSumming(f, c, S)
        /\ \A f : SetSumming(f, c, S) => f[S] = Total(w, Len(w))
    <3>1. g \in Bijection(1 .. Len(w), S)
      OBVIOUS
    <3>2. \A T, h, d : /\ h \in Bijection(1 .. Len(w), T)
                       /\ \A n \in 1 .. Len(w) : d[h[n]] = w[n]
                       => /\ \E f : SetSumming(f, d, T)
                          /\ \A f : SetSumming(f, d, T) => f[T] = Total(w, Len(w))
      BY ZenonT(60), SetSumIsTotal
    <3>. HIDE DEF c, S, N, b, Fold
    <3>. QED BY SMTT(30), <2>3, <3>1, <3>2
  <2>. HIDE DEF Fold
  <2>5. Fold(b)
    BY <2>2, <2>4
  <2>. HIDE DEF b
  <2>. QED BY <2>1, <2>2, <2>4, <2>5
<1>. HIDE DEF S
<1>5. Len(s.freqs) = MapThenSumSet(LAMBDA p : TokenAt(s, p).count, S)
  BY <1>4
<1>. QED
  BY <1>2, <1>3, <1>5 DEF TablesCovered, TokenAt, S

-----------------------------------------------------------------------------
(* The image of a range of numbers is finite.                              *)
LEMMA FiniteImage ==
  ASSUME NEW n \in Nat, NEW h, NEW I \in SUBSET (1 .. n)
  PROVE  IsFiniteSet({h[k] : k \in I})
<1>. DEFINE T == {h[k] : k \in I}
            g == [k \in I |-> h[k]]
<1>1. IsFiniteSet(I)
  <2>1. IsFiniteSet(1 .. n)
    BY FS_Interval
  <2>. QED BY <2>1, FS_Subset
<1>2. g \in Surjection(I, T)
  BY DEF Surjection
<1>3. IsFiniteSet(T)
  <2>. HIDE DEF T, g
  <2>. QED BY <1>1, <1>2, FS_Surjection
<1>. QED BY <1>3

(* The values of a field are a finite set of numbers, the holders of a     *)
(* token are document indices, and the fields are finitely many.           *)
LEMMA BatchSets ==
  ASSUME NEW docs, IsBatch(docs)
  PROVE  /\ Len(docs) \in Nat
         /\ DOMAIN docs = 1 .. Len(docs)
         /\ IsFiniteSet(FieldsOf(docs))
         /\ \A f : IsFiniteSet(ValuesOf(docs, f)) /\ Numbers(ValuesOf(docs, f))
         /\ \A f, v : /\ IsFiniteSet(Holders(docs, f, v))
                      /\ Holders(docs, f, v) \subseteq 0 .. Len(docs) - 1
                      /\ Numbers(Holders(docs, f, v))
<1>. DEFINE n == Len(docs)
<1>1. n \in Nat /\ DOMAIN docs = 1 .. n /\ \A k \in 1 .. n : IsDocument(docs[k])
  BY DEF IsBatch
<1>. HIDE DEF n
<1>2. IsFiniteSet(FieldsOf(docs))
  <2>. DEFINE h == [k \in 1 .. n |-> DOMAIN docs[k].fields]
              T == {h[k] : k \in 1 .. n}
  <2>1. IsFiniteSet(T)
    <3>. HIDE DEF h
    <3>. QED BY <1>1, FiniteImage
  <2>2. \A s \in T : IsFiniteSet(s)
    BY <1>1 DEF IsDocument
  <2>3. FieldsOf(docs) = UNION T
    BY <1>1 DEF FieldsOf
  <2>. HIDE DEF T
  <2>. QED BY <2>1, <2>2, <2>3, FS_UNION
<1>3. ASSUME NEW f PROVE IsFiniteSet(ValuesOf(docs, f)) /\ Numbers(ValuesOf(docs, f))
  <2>. DEFINE I == {k \in 1 .. n : f \in DOMAIN docs[k].fields}
              h == [k \in I |-> DOMAIN docs[k].fields[f].tokens]
              T == {h[k] : k \in I}
  <2>1. IsFiniteSet(T)
    <3>1. I \in SUBSET (1 .. n)
      OBVIOUS
    <3>. HIDE DEF h, I
    <3>. QED BY <1>1, <3>1, FiniteImage
  <2>2. \A s \in T : IsFiniteSet(s) /\ \A v \in s : v \in Nat
    BY <1>1 DEF IsDocument
  <2>3. ValuesOf(docs, f) = UNION T
    BY <1>1 DEF ValuesOf
  <2>. HIDE DEF T
  <2>4. IsFiniteSet(ValuesOf(docs, f))
    BY <2>1, <2>2, <2>3, FS_UNION
  <2>. QED BY <2>2, <2>3, <2>4 DEF Numbers
<1>4. ASSUME NEW f, NEW v
      PROVE  /\ IsFiniteSet(Holders(docs, f, v))
             /\ Holders(docs, f, v) \subseteq 0 .. n - 1
             /\ Numbers(Holders(docs, f, v))
  <2>1. Holders(docs, f, v) \subseteq 0 .. n - 1
    BY <1>1 DEF Holders
  <2>2. IsFiniteSet(0 .. n - 1)
    BY <1>1, FS_Interval
  <2>3. IsFiniteSet(Holders(docs, f, v))
    BY <2>1, <2>2, FS_Subset
  <2>4. Numbers(Holders(docs, f, v))
    BY <1>1, <2>1 DEF Numbers
  <2>. QED BY <2>1, <2>3, <2>4
<1>. QED BY <1>1, <1>2, <1>3, <1>4 DEF n

Entry == [doc : Nat, freq : Nat]
LengthEntry == [doc : Nat, length : Nat]

(* The indices of the documents with a positive length in a field.         *)
Lengthy(docs, f) == {k - 1 : k \in {n \in DOMAIN docs : /\ f \in DOMAIN docs[n].fields
                                                       /\ docs[n].fields[f].length > 0}}

(* They are finitely many document indices.                                *)
LEMMA LengthySets ==
  ASSUME NEW docs, IsBatch(docs), NEW f
  PROVE  /\ IsFiniteSet(Lengthy(docs, f)) /\ Numbers(Lengthy(docs, f))
         /\ Lengthy(docs, f) \subseteq 0 .. Len(docs) - 1
<1>. DEFINE n == Len(docs)
<1>1. n \in Nat /\ DOMAIN docs = 1 .. n
  BY DEF IsBatch
<1>. HIDE DEF n
<1>2. Lengthy(docs, f) \subseteq 0 .. n - 1
  BY <1>1 DEF Lengthy
<1>3. IsFiniteSet(0 .. n - 1)
  BY <1>1, FS_Interval
<1>4. IsFiniteSet(Lengthy(docs, f))
  BY <1>2, <1>3, FS_Subset
<1>5. Numbers(Lengthy(docs, f))
  BY <1>1, <1>2 DEF Numbers
<1>. QED BY <1>2, <1>4, <1>5 DEF n

(* The frequencies of a token: one entry for each holder, in order.        *)
LEMMA EntriesAre ==
  ASSUME NEW docs, IsBatch(docs), NEW f, NEW v
  PROVE  /\ EntriesOf(docs, f, v) \in Seq(Entry)
         /\ Len(EntriesOf(docs, f, v)) = Cardinality(Holders(docs, f, v))
         /\ Cardinality(Holders(docs, f, v)) \in Nat
         /\ \A k \in 1 .. Len(EntriesOf(docs, f, v)) :
              LET d == Ascending(Holders(docs, f, v))[k] IN
              /\ EntriesOf(docs, f, v)[k]
                   = [doc |-> d, freq |-> docs[d + 1].fields[f].tokens[v]]
              /\ d \in Holders(docs, f, v)
<1>. DEFINE H == Holders(docs, f, v)
            at == Ascending(H)
            N == Cardinality(H)
<1>1. IsFiniteSet(H) /\ Numbers(H) /\ DOMAIN docs = 1 .. Len(docs)
      /\ \A k \in 1 .. Len(docs) : IsDocument(docs[k])
  BY BatchSets DEF IsBatch
<1>2. N \in Nat /\ at \in [1 .. N -> H] /\ DOMAIN at = 1 .. N
  <2>1. N \in Nat
    BY <1>1, FS_CardinalityType
  <2>2. Lists(at, H) /\ Len(at) = N
    BY <1>1, AscendingLists
  <2>3. at \in [1 .. N -> H]
    BY <2>2 DEF Lists
  <2>. QED BY <2>1, <2>3
<1>3. \A d \in H : d \in Nat /\ docs[d + 1].fields[f].tokens[v] \in Nat
  BY <1>1 DEF Holders, HasToken, IsDocument, Numbers
<1>4. EntriesOf(docs, f, v)
        = [k \in DOMAIN at |-> [doc |-> at[k], freq |-> docs[at[k] + 1].fields[f].tokens[v]]]
  BY DEF EntriesOf
<1>. HIDE DEF at, N, H
<1>5. EntriesOf(docs, f, v) \in [1 .. N -> Entry]
  BY <1>2, <1>3, <1>4 DEF Entry
<1>6. EntriesOf(docs, f, v) \in Seq(Entry) /\ Len(EntriesOf(docs, f, v)) = N
  BY <1>2, <1>5
<1>7. \A k \in 1 .. N :
        /\ EntriesOf(docs, f, v)[k]
             = [doc |-> at[k], freq |-> docs[at[k] + 1].fields[f].tokens[v]]
        /\ at[k] \in H
  BY <1>2, <1>4
<1>. QED BY <1>2, <1>6, <1>7 DEF at, N, H

(* The lengths of a field: one entry for each document that has one.       *)
LEMMA LengthsAre ==
  ASSUME NEW docs, IsBatch(docs), NEW f
  PROVE  /\ LengthsOf(docs, f) \in Seq(LengthEntry)
         /\ Len(LengthsOf(docs, f)) = Cardinality(Lengthy(docs, f))
         /\ \A k \in 1 .. Len(LengthsOf(docs, f)) :
              LET d == Ascending(Lengthy(docs, f))[k] IN
              /\ LengthsOf(docs, f)[k] = [doc |-> d, length |-> docs[d + 1].fields[f].length]
              /\ d \in Lengthy(docs, f)
<1>. DEFINE H == Lengthy(docs, f)
            at == Ascending(H)
            N == Cardinality(H)
<1>1. IsFiniteSet(H) /\ Numbers(H) /\ DOMAIN docs = 1 .. Len(docs)
      /\ \A k \in 1 .. Len(docs) : IsDocument(docs[k])
  BY BatchSets, LengthySets DEF IsBatch
<1>2. N \in Nat /\ at \in [1 .. N -> H] /\ DOMAIN at = 1 .. N
  <2>1. N \in Nat
    BY <1>1, FS_CardinalityType
  <2>2. Lists(at, H) /\ Len(at) = N
    BY <1>1, AscendingLists
  <2>3. at \in [1 .. N -> H]
    BY <2>2 DEF Lists
  <2>. QED BY <2>1, <2>3
<1>3. \A d \in H : d \in Nat /\ docs[d + 1].fields[f].length \in Nat
  BY <1>1 DEF Lengthy, IsDocument, Numbers
<1>4. LengthsOf(docs, f)
        = [k \in DOMAIN at |-> [doc |-> at[k], length |-> docs[at[k] + 1].fields[f].length]]
  BY DEF LengthsOf, Lengthy
<1>. HIDE DEF at, N, H
<1>5. LengthsOf(docs, f) \in [1 .. N -> LengthEntry]
  BY <1>2, <1>3, <1>4 DEF LengthEntry
<1>6. LengthsOf(docs, f) \in Seq(LengthEntry) /\ Len(LengthsOf(docs, f)) = N
  BY <1>2, <1>5
<1>7. \A k \in 1 .. N :
        /\ LengthsOf(docs, f)[k] = [doc |-> at[k], length |-> docs[at[k] + 1].fields[f].length]
        /\ at[k] \in H
  BY <1>2, <1>4
<1>. QED BY <1>2, <1>6, <1>7 DEF at, N, H

-----------------------------------------------------------------------------
(* The cells of LaidOut: the tokens of the fields, in the order of the     *)
(* fields and of the values.                                               *)
Row(docs, f) ==
  [k \in DOMAIN Ascending(ValuesOf(docs, f)) |->
     [f |-> f, v |-> Ascending(ValuesOf(docs, f))[k]]]
Rows(docs, order) == [n \in DOMAIN order |-> Row(docs, order[n])]
Cells(docs, order) == FlattenSeq(Rows(docs, order))
Cell(docs) == [f : FieldsOf(docs), v : Nat]

(* How many cells come before the n-th field.                              *)
Before(docs, order, n) == Total(Lens(Rows(docs, order)), n - 1)

(* The values of a field, as a sequence.                                   *)
LEMMA ValuesListed ==
  ASSUME NEW docs, IsBatch(docs), NEW f
  PROVE  /\ Lists(Ascending(ValuesOf(docs, f)), ValuesOf(docs, f))
         /\ Len(Ascending(ValuesOf(docs, f))) = Cardinality(ValuesOf(docs, f))
         /\ Cardinality(ValuesOf(docs, f)) \in Nat
         /\ Ascending(ValuesOf(docs, f))
              \in [1 .. Cardinality(ValuesOf(docs, f)) -> ValuesOf(docs, f)]
         /\ \A k \in 1 .. Cardinality(ValuesOf(docs, f)) :
              Ascending(ValuesOf(docs, f))[k] \in Nat
<1>. DEFINE S == ValuesOf(docs, f)
<1>1. IsFiniteSet(S) /\ Numbers(S)
  BY BatchSets
<1>. HIDE DEF S
<1>2. Lists(Ascending(S), S) /\ Len(Ascending(S)) = Cardinality(S)
  BY <1>1, AscendingLists
<1>3. Cardinality(S) \in Nat
  BY <1>1, FS_CardinalityType
<1>4. Ascending(S) \in [1 .. Cardinality(S) -> S]
  BY <1>2 DEF Lists
<1>5. \A k \in 1 .. Cardinality(S) : Ascending(S)[k] \in Nat
  BY <1>1, <1>4 DEF Numbers
<1>. QED BY <1>2, <1>3, <1>4, <1>5 DEF S

(* An order of the fields has each once.                                   *)
LEMMA OrderHasAll ==
  ASSUME NEW S, IsFiniteSet(S), NEW order \in SetToSeqs(S)
  PROVE  /\ order \in Seq(S)
         /\ DOMAIN order = 1 .. Len(order)
         /\ \A i, j \in 1 .. Len(order) : order[i] = order[j] => i = j
         /\ \A f \in S : \E m \in 1 .. Len(order) : order[m] = f
<1>. DEFINE N == Cardinality(S)
<1>1. N \in Nat
  BY FS_CardinalityType
<1>2. order \in [1 .. N -> S] /\ \A i, j \in 1 .. N : i # j => order[i] # order[j]
  BY DEF SetToSeqs
<1>. HIDE DEF N
<1>3. order \in Seq(S) /\ Len(order) = N /\ DOMAIN order = 1 .. N
  BY <1>1, <1>2
<1>4. IsFiniteSet(1 .. N) /\ Cardinality(1 .. N) = N
  <2>1. IsFiniteSet(1 .. N) /\ Cardinality(1 .. N) = IF 1 > N THEN 0 ELSE N - 1 + 1
    BY <1>1, FS_Interval
  <2>. QED BY <1>1, <2>1
<1>5. order \in Injection(1 .. N, S)
  BY <1>2 DEF Injection, IsInjective
<1>6. \A T, U : IsFiniteSet(U) => \A g \in Injection(T, U) :
        Cardinality(T) = Cardinality(U) <=> g \in Surjection(T, U)
  BY FS_Injection
<1>7. order \in Surjection(1 .. N, S)
  BY <1>4, <1>5, <1>6 DEF N
<1>8. \A f \in S : \E m \in 1 .. N : order[m] = f
  BY <1>7 DEF Surjection
<1>. QED BY <1>2, <1>3, <1>8

(* An order of the fields of a batch is a sequence of them.                *)
LEMMA OrderIsSeq ==
  ASSUME NEW docs, IsBatch(docs), NEW order \in SetToSeqs(FieldsOf(docs))
  PROVE  order \in Seq(FieldsOf(docs))
BY BatchSets, OrderHasAll

(* The cells: which there are for each field of the order, and where.      *)
LEMMA CellsAre ==
  ASSUME NEW docs, IsBatch(docs), NEW order \in Seq(FieldsOf(docs))
  PROVE  /\ Rows(docs, order) \in Seq(Seq(Cell(docs)))
         /\ Len(Rows(docs, order)) = Len(order)
         /\ \A m \in 1 .. Len(order) :
              Lens(Rows(docs, order))[m] = Cardinality(ValuesOf(docs, order[m]))
         /\ Cells(docs, order) \in Seq(Cell(docs))
         /\ Len(Cells(docs, order)) = Total(Lens(Rows(docs, order)), Len(order))
         /\ \A m \in 1 .. Len(order) : \A k \in 1 .. Cardinality(ValuesOf(docs, order[m])) :
              /\ Before(docs, order, m) + k \in 1 .. Len(Cells(docs, order))
              /\ Cells(docs, order)[Before(docs, order, m) + k]
                   = [f |-> order[m], v |-> Ascending(ValuesOf(docs, order[m]))[k]]
         /\ \A p \in 1 .. Len(Cells(docs, order)) :
              \E m \in 1 .. Len(order) : \E k \in 1 .. Cardinality(ValuesOf(docs, order[m])) :
                p = Before(docs, order, m) + k
<1>. DEFINE rows == Rows(docs, order)
            w == Lens(rows)
            C == Cells(docs, order)
            card(m) == Cardinality(ValuesOf(docs, order[m]))
<1>1. /\ order \in Seq(FieldsOf(docs)) /\ DOMAIN order = 1 .. Len(order)
      /\ Len(order) \in Nat
  OBVIOUS
<1>2. \A m \in 1 .. Len(order) :
        /\ card(m) \in Nat /\ Row(docs, order[m]) \in Seq(Cell(docs))
        /\ Len(Row(docs, order[m])) = card(m)
        /\ \A k \in 1 .. card(m) : Row(docs, order[m])[k]
             = [f |-> order[m], v |-> Ascending(ValuesOf(docs, order[m]))[k]]
  <2>. SUFFICES ASSUME NEW m \in 1 .. Len(order)
                PROVE  /\ card(m) \in Nat /\ Row(docs, order[m]) \in Seq(Cell(docs))
                       /\ Len(Row(docs, order[m])) = card(m)
                       /\ \A k \in 1 .. card(m) : Row(docs, order[m])[k]
                            = [f |-> order[m], v |-> Ascending(ValuesOf(docs, order[m]))[k]]
    OBVIOUS
  <2>. DEFINE f == order[m]
              A == Ascending(ValuesOf(docs, f))
              n == Cardinality(ValuesOf(docs, f))
  <2>1. f \in FieldsOf(docs)
    BY <1>1
  <2>2. n \in Nat /\ DOMAIN A = 1 .. n /\ \A k \in 1 .. n : A[k] \in Nat
    <3>. HIDE DEF f
    <3>1. n \in Nat /\ A \in [1 .. n -> ValuesOf(docs, f)] /\ \A k \in 1 .. n : A[k] \in Nat
      BY ValuesListed
    <3>. QED BY <3>1
  <2>3. Row(docs, f) = [k \in DOMAIN A |-> [f |-> f, v |-> A[k]]]
    BY DEF Row
  <2>. HIDE DEF f, A, n
  <2>4. Row(docs, f) \in [1 .. n -> Cell(docs)]
    BY <2>1, <2>2, <2>3 DEF Cell
  <2>5. Row(docs, f) \in Seq(Cell(docs)) /\ Len(Row(docs, f)) = n
    BY <2>2, <2>4
  <2>6. \A k \in 1 .. n : Row(docs, f)[k] = [f |-> f, v |-> A[k]]
    BY <2>2, <2>3
  <2>. QED BY <2>2, <2>5, <2>6 DEF f, A, n
<1>3. rows \in Seq(Seq(Cell(docs))) /\ Len(rows) = Len(order)
      /\ \A m \in 1 .. Len(order) : rows[m] = Row(docs, order[m])
  <2>1. rows = [m \in 1 .. Len(order) |-> Row(docs, order[m])]
    BY <1>1 DEF Rows
  <2>2. rows \in [1 .. Len(order) -> Seq(Cell(docs))]
    BY <1>2, <2>1
  <2>. HIDE DEF rows
  <2>. QED BY <1>1, <2>1, <2>2
<1>. HIDE DEF rows
<1>4. /\ w \in Seq(Nat) /\ Len(w) = Len(order)
      /\ \A m \in 1 .. Len(order) : w[m] = card(m)
  <2>1. /\ w \in Seq(Nat) /\ Len(w) = Len(rows)
        /\ \A m \in 1 .. Len(rows) : w[m] = Len(rows[m])
    BY <1>3, LensAre
  <2>. HIDE DEF w
  <2>. QED BY <1>2, <1>3, <2>1
<1>5. /\ C \in Seq(Cell(docs))
      /\ Len(C) = Total(w, Len(rows))
      /\ \A m \in 1 .. Len(rows) : \A k \in 1 .. Len(rows[m]) :
           /\ Total(w, m - 1) + k \in 1 .. Len(C)
           /\ C[Total(w, m - 1) + k] = rows[m][k]
  BY <1>3, FlattenPlaces DEF Cells, rows
<1>. HIDE DEF C, w
<1>6. \A m \in 1 .. Len(order) : \A k \in 1 .. card(m) :
           /\ Total(w, m - 1) + k \in 1 .. Len(C)
           /\ C[Total(w, m - 1) + k]
                = [f |-> order[m], v |-> Ascending(ValuesOf(docs, order[m]))[k]]
  <2>. SUFFICES ASSUME NEW m \in 1 .. Len(order), NEW k \in 1 .. card(m)
                PROVE  /\ Total(w, m - 1) + k \in 1 .. Len(C)
                       /\ C[Total(w, m - 1) + k]
                            = [f |-> order[m], v |-> Ascending(ValuesOf(docs, order[m]))[k]]
    OBVIOUS
  <2>1. m \in 1 .. Len(rows) /\ k \in 1 .. Len(rows[m])
    BY <1>2, <1>3
  <2>2. rows[m][k] = [f |-> order[m], v |-> Ascending(ValuesOf(docs, order[m]))[k]]
    BY <1>2, <1>3
  <2>. QED BY <2>1, <2>2, <1>5
<1>7. ASSUME NEW p \in 1 .. Len(C)
      PROVE  \E m \in 1 .. Len(order) : \E k \in 1 .. card(m) : p = Total(w, m - 1) + k
  <2>1. p \in Nat /\ 1 <= p /\ p <= Total(w, Len(w))
    BY <1>3, <1>4, <1>5
  <2>2. \E m \in 1 .. Len(w) : \E k \in 1 .. w[m] : p = Total(w, m - 1) + k
    BY <1>4, <2>1, Located
  <2>. QED BY <1>4, <2>2
<1>8. Len(C) = Total(w, Len(order))
  BY <1>3, <1>5
<1>. QED BY <1>3, <1>4, <1>5, <1>6, <1>7, <1>8 DEF Before, rows, C, w

(* The cells of a field stand together.                                    *)
LEMMA FieldTogether ==
  ASSUME NEW docs, IsBatch(docs), NEW order \in SetToSeqs(FieldsOf(docs)),
         NEW m \in 1 .. Len(order)
  PROVE  Ascending({n \in DOMAIN Cells(docs, order) : Cells(docs, order)[n].f = order[m]})
           = [k \in 1 .. Cardinality(ValuesOf(docs, order[m])) |->
                Before(docs, order, m) + k]
<1>. DEFINE C == Cells(docs, order)
            c == Cardinality(ValuesOf(docs, order[m]))
            b == Before(docs, order, m)
            S == {n \in DOMAIN C : C[n].f = order[m]}
            y == [k \in 1 .. c |-> b + k]
<1>1. order \in Seq(FieldsOf(docs))
  BY OrderIsSeq
<1>2. /\ C \in Seq(Cell(docs))
      /\ \A i \in 1 .. Len(order) : \A k \in 1 .. Cardinality(ValuesOf(docs, order[i])) :
              /\ Before(docs, order, i) + k \in 1 .. Len(C)
              /\ C[Before(docs, order, i) + k].f = order[i]
      /\ \A p \in 1 .. Len(C) :
              \E i \in 1 .. Len(order) : \E k \in 1 .. Cardinality(ValuesOf(docs, order[i])) :
                p = Before(docs, order, i) + k
  <2>1. C \in Seq(Cell(docs))
    BY <1>1, CellsAre
  <2>2. \A i \in 1 .. Len(order) : \A k \in 1 .. Cardinality(ValuesOf(docs, order[i])) :
              /\ Before(docs, order, i) + k \in 1 .. Len(C)
              /\ C[Before(docs, order, i) + k]
                   = [f |-> order[i], v |-> Ascending(ValuesOf(docs, order[i]))[k]]
    BY <1>1, CellsAre
  <2>3. \A p \in 1 .. Len(C) :
              \E i \in 1 .. Len(order) : \E k \in 1 .. Cardinality(ValuesOf(docs, order[i])) :
                p = Before(docs, order, i) + k
    BY <1>1, CellsAre
  <2>. HIDE DEF C
  <2>4. ASSUME NEW i \in 1 .. Len(order), NEW k \in 1 .. Cardinality(ValuesOf(docs, order[i]))
        PROVE  /\ Before(docs, order, i) + k \in 1 .. Len(C)
               /\ C[Before(docs, order, i) + k].f = order[i]
    <3>1. C[Before(docs, order, i) + k]
                   = [f |-> order[i], v |-> Ascending(ValuesOf(docs, order[i]))[k]]
      BY <2>2
    <3>2. C[Before(docs, order, i) + k].f = order[i]
      BY <3>1
    <3>. QED BY <2>2, <3>2
  <2>. QED BY <2>1, <2>3, <2>4
<1>3. c \in Nat
  BY ValuesListed
<1>4. b \in Nat
  <2>1. Lens(Rows(docs, order)) \in Seq(Nat) /\ Len(Lens(Rows(docs, order))) = Len(order)
    <3>1. Rows(docs, order) \in Seq(Seq(Cell(docs))) /\ Len(Rows(docs, order)) = Len(order)
      BY <1>1, CellsAre
    <3>. QED BY <3>1, LensAre
  <2>2. m - 1 \in 0 .. Len(order)
    <3>1. Len(order) \in Nat
      BY BatchSets, OrderHasAll
    <3>. QED BY <3>1
  <2>. QED BY <2>1, <2>2, TotalSteps DEF Before
<1>5. \A i, j \in 1 .. Len(order) : order[i] = order[j] => i = j
  BY BatchSets, OrderHasAll
<1>6. DOMAIN C = 1 .. Len(C) /\ Len(C) \in Nat
  BY <1>2
<1>7. ASSUME NEW p PROVE p \in S <=> \E k \in 1 .. c : p = b + k
  <2>1. ASSUME p \in S PROVE \E k \in 1 .. c : p = b + k
    <3>1. PICK i \in 1 .. Len(order) : \E k \in 1 .. Cardinality(ValuesOf(docs, order[i])) :
                p = Before(docs, order, i) + k
      BY <2>1, <1>2, <1>6
    <3>2. C[p].f = order[i]
      BY <3>1, <1>2
    <3>3. i = m
      BY <2>1, <3>2, <1>5
    <3>. QED BY <3>1, <3>3
  <2>2. ASSUME NEW k \in 1 .. c, p = b + k PROVE p \in S
    BY <2>2, <1>2, <1>6
  <2>. QED BY <2>1, <2>2
<1>. HIDE DEF S, b, c, C
<1>8. Lists(y, S)
  <2>1. Len(y) = c /\ DOMAIN y = 1 .. c /\ \A k \in 1 .. c : y[k] = b + k
    BY <1>3
  <2>2. y \in [1 .. c -> S]
    BY <1>7
  <2>3. \A x \in S : \E i \in 1 .. c : y[i] = x
    BY <1>7
  <2>4. \A i, j \in 1 .. c : i < j => y[i] < y[j]
    BY <1>3, <1>4
  <2>. HIDE DEF y
  <2>. QED BY <1>3, <2>1, <2>2, <2>3, <2>4 DEF Lists, Climbs
<1>9. Numbers(S)
  BY <1>3, <1>4, <1>7 DEF Numbers
<1>10. y = Ascending(S)
  <2>. HIDE DEF y
  <2>. QED BY <1>8, <1>9, ListedOnce
<1>. QED BY <1>10 DEF S, b, c, C

-----------------------------------------------------------------------------
(* Cutting a sequence out of the place where it stands gives it back.      *)
LEMMA SliceIs ==
  ASSUME NEW V, NEW F \in Seq(V), NEW x \in Seq(V), NEW b \in Nat, b + Len(x) <= Len(F),
         \A k \in 1 .. Len(x) : F[b + k] = x[k]
  PROVE  SubSeq(F, b + 1, b + Len(x)) = x
<1>. DEFINE m == b + 1
            n == b + Len(x)
            y == SubSeq(F, m, n)
<1>1. Len(F) \in Nat /\ Len(x) \in Nat
  OBVIOUS
<1>2. m \in 1 .. Len(F) + 1 /\ n \in m - 1 .. Len(F) /\ n - m + 1 = Len(x)
  BY <1>1
<1>3. /\ y \in Seq(V) /\ Len(y) = n - m + 1
      /\ \A i \in 1 .. n - m + 1 : y[i] = F[m + i - 1]
  <2>1. m \in 1 .. Len(F) + 1 /\ n \in m - 1 .. Len(F)
    BY <1>2
  <2>. HIDE DEF m, n
  <2>. QED BY <2>1, SubSeqProperties
<1>4. Len(y) = Len(x) /\ y \in Seq(V)
  BY <1>2, <1>3
<1>. HIDE DEF y
<1>5. \A i \in 1 .. Len(x) : y[i] = x[i]
  <2>. SUFFICES ASSUME NEW i \in 1 .. Len(x) PROVE y[i] = x[i]
    OBVIOUS
  <2>1. y[i] = F[m + i - 1]
    BY <1>2, <1>3
  <2>2. m + i - 1 = b + i
    OBVIOUS
  <2>. QED BY <2>1, <2>2
<1>6. y = x
  BY <1>4, <1>5
<1>. QED BY <1>6 DEF y

(* The frequencies of the cells, and the token and the field LaidOut makes.*)
CellEntries(docs, order) ==
  [n \in DOMAIN Cells(docs, order) |->
     EntriesOf(docs, Cells(docs, order)[n].f, Cells(docs, order)[n].v)]

LaidToken(docs, order, n) ==
  [value |-> Cells(docs, order)[n].v,
   count |-> Len(CellEntries(docs, order)[n]),
   list  |-> n - 1,
   freq  |-> LenSum(SubSeq(CellEntries(docs, order), 1, n - 1))]

CellsIn(docs, order, f) ==
  Ascending({n \in DOMAIN Cells(docs, order) : Cells(docs, order)[n].f = f})

LaidField(docs, order, f) ==
  [tokens      |-> [k \in DOMAIN CellsIn(docs, order, f) |->
                      LaidToken(docs, order, CellsIn(docs, order, f)[k])],
   lengths     |-> LengthsOf(docs, f),
   total       |-> LengthSum(LengthsOf(docs, f)),
   avg         |-> Average(LengthSum(LengthsOf(docs, f)), Len(LengthsOf(docs, f))),
   occurrences |-> LenSum([k \in DOMAIN CellsIn(docs, order, f) |->
                             CellEntries(docs, order)[CellsIn(docs, order, f)[k]]])]

(* LaidOut is made of these.                                               *)
LEMMA LaidOutParts ==
  ASSUME NEW docs, NEW order
  PROVE  LaidOut(docs, order) =
           [ids    |-> [k \in DOMAIN docs |-> docs[k].id],
            freqs  |-> FlattenSeq(CellEntries(docs, order)),
            lists  |-> [n \in DOMAIN Cells(docs, order) |->
                          Holders(docs, Cells(docs, order)[n].f, Cells(docs, order)[n].v)],
            fields |-> [f \in FieldsOf(docs) |-> LaidField(docs, order, f)]]
  BY DEF LaidOut, Cells, Rows, Row, CellEntries, LaidToken, CellsIn, LaidField

(* The frequencies of the cells, one after the other.                      *)
LEMMA CellEntriesAre ==
  ASSUME NEW docs, IsBatch(docs), NEW order \in Seq(FieldsOf(docs))
  PROVE  /\ CellEntries(docs, order) \in Seq(Seq(Entry))
         /\ Len(CellEntries(docs, order)) = Len(Cells(docs, order))
         /\ Lens(CellEntries(docs, order)) \in Seq(Nat)
         /\ Len(Lens(CellEntries(docs, order))) = Len(Cells(docs, order))
         /\ \A n \in 1 .. Len(Cells(docs, order)) :
              /\ CellEntries(docs, order)[n]
                   = EntriesOf(docs, Cells(docs, order)[n].f, Cells(docs, order)[n].v)
              /\ Lens(CellEntries(docs, order))[n] = Len(CellEntries(docs, order)[n])
              /\ LenSum(SubSeq(CellEntries(docs, order), 1, n - 1))
                   = Total(Lens(CellEntries(docs, order)), n - 1)
<1>. DEFINE C == Cells(docs, order)
            E == CellEntries(docs, order)
            w == Lens(E)
            N == Len(C)
<1>1. C \in Seq(Cell(docs))
  BY CellsAre
<1>2. E \in [1 .. N -> Seq(Entry)] /\ N \in Nat
      /\ \A n \in 1 .. N : E[n] = EntriesOf(docs, C[n].f, C[n].v)
  <2>1. DOMAIN C = 1 .. N /\ N \in Nat
    <3>. HIDE DEF C
    <3>. QED BY <1>1
  <2>2. E = [n \in DOMAIN C |-> EntriesOf(docs, C[n].f, C[n].v)]
    BY DEF CellEntries
  <2>3. \A n \in 1 .. N : EntriesOf(docs, C[n].f, C[n].v) \in Seq(Entry)
    BY EntriesAre
  <2>. HIDE DEF C, E, N
  <2>. QED BY <2>1, <2>2, <2>3
<1>. HIDE DEF C, N, E
<1>3. E \in Seq(Seq(Entry)) /\ Len(E) = N
  BY <1>2
<1>4. w \in Seq(Nat) /\ Len(w) = N /\ \A n \in 1 .. N : w[n] = Len(E[n])
  BY <1>3, LensAre
<1>. HIDE DEF w
<1>5. ASSUME NEW n \in 1 .. N
      PROVE  LenSum(SubSeq(E, 1, n - 1)) = Total(w, n - 1)
  <2>. DEFINE p == n - 1
              q == SubSeq(E, 1, p)
              x == SubSeq(w, 1, p)
  <2>1. p \in Nat /\ p <= N /\ p \in 1 - 1 .. N /\ 1 \in 1 .. N + 1 /\ p - 1 + 1 = p
    BY <1>2
  <2>. HIDE DEF p
  <2>2. /\ q \in Seq(Seq(Entry)) /\ Len(q) = p - 1 + 1
        /\ \A i \in 1 .. p - 1 + 1 : q[i] = E[1 + i - 1]
    BY SMTT(30), <1>3, <2>1, SubSeqProperties
  <2>3. /\ x \in Seq(Nat) /\ Len(x) = p - 1 + 1
        /\ \A i \in 1 .. p - 1 + 1 : x[i] = w[1 + i - 1]
    BY SMTT(30), <1>4, <2>1, SubSeqProperties
  <2>. HIDE DEF q, x
  <2>4. /\ Len(q) = p /\ DOMAIN q = 1 .. p /\ \A i \in 1 .. p : q[i] = E[i]
        /\ Len(x) = p /\ \A i \in 1 .. p : x[i] = w[i]
    <3>1. \A i \in 1 .. p : 1 + i - 1 = i
      BY <2>1
    <3>. QED BY <2>1, <2>2, <2>3, <3>1
  <2>5. \A i \in 1 .. p : Len(q[i]) = x[i]
    BY SMTT(30), <1>4, <2>1, <2>4
  <2>6. LenSum(q) = Total(x, Len(x))
    BY <2>3, <2>4, <2>5, LensSum
  <2>7. Total(x, p) = Total(w, p)
    <3>1. /\ x \in Seq(Nat) /\ w \in Seq(Nat) /\ p \in Nat /\ p <= Len(x) /\ p <= Len(w)
          /\ \A i \in 1 .. p : x[i] = w[i]
      BY <1>4, <2>1, <2>3, <2>4
    <3>. QED BY ONLY <3>1, TotalSame
  <2>. QED BY <2>4, <2>6, <2>7 DEF q, p
<1>. QED BY <1>2, <1>3, <1>4, <1>5 DEF C, E, N, w

-----------------------------------------------------------------------------
Token == [value : Nat, count : Nat, list : Nat, freq : Nat]

(* The regions of a storage have the types of the file's records.          *)
Typed(s) ==
  /\ s.freqs \in Seq(Entry)
  /\ s.lists \in Seq(SUBSET Nat)
  /\ \A f \in DOMAIN s.fields :
       /\ s.fields[f].tokens \in Seq(Token)
       /\ s.fields[f].lengths \in Seq(LengthEntry)
       /\ s.fields[f].total \in Nat
       /\ s.fields[f].occurrences \in Nat

(* A sum of lengths is a number.                                           *)
LEMMA LengthSumIsNat ==
  ASSUME NEW q \in Seq(LengthEntry)
  PROVE  /\ LengthSum(q) \in Nat
         /\ \E w \in Seq(Nat) : /\ Len(w) = Len(q)
                                /\ \A k \in 1 .. Len(q) : w[k] = q[k].length
                                /\ LengthSum(q) = Total(w, Len(w))
<1>. DEFINE w == [k \in 1 .. Len(q) |-> q[k].length]
<1>1. w \in Seq(Nat) /\ Len(w) = Len(q) /\ DOMAIN q = 1 .. Len(w)
      /\ \A k \in 1 .. Len(w) : q[k].length = w[k]
  <2>1. Len(q) \in Nat /\ DOMAIN q = 1 .. Len(q) /\ \A k \in 1 .. Len(q) : q[k] \in LengthEntry
    OBVIOUS
  <2>2. w \in [1 .. Len(q) -> Nat]
    BY <2>1 DEF LengthEntry
  <2>. QED BY <2>1, <2>2
<1>. HIDE DEF w
<1>2. LengthSum(q) = Total(w, Len(w))
  BY <1>1, LengthsSum
<1>3. Total(w, Len(w)) \in Nat
  <2>1. Len(w) \in 0 .. Len(w)
    BY <1>1
  <2>. QED BY <1>1, <2>1, TotalSteps
<1>. QED BY <1>1, <1>2, <1>3

(* Where a cell is, what its token says, and what its frequencies are.     *)
LEMMA CellToken ==
  ASSUME NEW docs, IsBatch(docs), NEW order \in Seq(FieldsOf(docs)),
         NEW n \in 1 .. Len(Cells(docs, order))
  PROVE  LET s == LaidOut(docs, order)
             t == LaidToken(docs, order, n)
             f == Cells(docs, order)[n].f
             v == Cells(docs, order)[n].v
             w == Lens(CellEntries(docs, order))
         IN  /\ f \in FieldsOf(docs)
             /\ t \in Token
             /\ t.value = v
             /\ t.list = n - 1
             /\ t.freq = Total(w, n - 1)
             /\ t.count = w[n]
             /\ t.count = Cardinality(Holders(docs, f, v))
             /\ t.list + 1 \in DOMAIN s.lists
             /\ s.lists[t.list + 1] = Holders(docs, f, v)
             /\ Slice(s, t) = EntriesOf(docs, f, v)
<1>. DEFINE s == LaidOut(docs, order)
            t == LaidToken(docs, order, n)
            f == Cells(docs, order)[n].f
            v == Cells(docs, order)[n].v
            C == Cells(docs, order)
            E == CellEntries(docs, order)
            w == Lens(E)
            N == Len(C)
<1>1. /\ C \in Seq(Cell(docs)) /\ N \in Nat /\ DOMAIN C = 1 .. N
      /\ f \in FieldsOf(docs) /\ v \in Nat
  <2>1. C \in Seq(Cell(docs))
    BY CellsAre
  <2>2. C[n] \in Cell(docs)
    <3>. HIDE DEF C
    <3>. QED BY <2>1 DEF C
  <2>3. N \in Nat /\ DOMAIN C = 1 .. N
    <3>. HIDE DEF C
    <3>. QED BY <2>1
  <2>. QED BY <2>1, <2>2, <2>3 DEF Cell
<1>2. /\ E \in Seq(Seq(Entry)) /\ Len(E) = N /\ w \in Seq(Nat) /\ Len(w) = N
      /\ E[n] = EntriesOf(docs, f, v) /\ w[n] = Len(E[n])
      /\ LenSum(SubSeq(E, 1, n - 1)) = Total(w, n - 1)
  BY CellEntriesAre
<1>3. Len(EntriesOf(docs, f, v)) = Cardinality(Holders(docs, f, v))
      /\ EntriesOf(docs, f, v) \in Seq(Entry)
      /\ Cardinality(Holders(docs, f, v)) \in Nat
  BY EntriesAre
<1>4. /\ t.value = v /\ t.list = n - 1 /\ t.freq = Total(w, n - 1)
      /\ t.count = Len(E[n])
      /\ t = [value |-> v, count |-> Len(E[n]), list |-> n - 1, freq |-> Total(w, n - 1)]
  BY <1>2 DEF LaidToken
<1>5. /\ s.lists = [k \in DOMAIN C |-> Holders(docs, C[k].f, C[k].v)]
      /\ s.freqs = FlattenSeq(E)
  BY LaidOutParts
<1>6. /\ FlattenSeq(E) \in Seq(Entry)
      /\ Len(FlattenSeq(E)) = Total(w, N)
      /\ \A k \in 1 .. Len(E[n]) :
              /\ Total(w, n - 1) + k \in 1 .. Len(FlattenSeq(E))
              /\ FlattenSeq(E)[Total(w, n - 1) + k] = E[n][k]
  <2>1. /\ FlattenSeq(E) \in Seq(Entry)
        /\ Len(FlattenSeq(E)) = Total(w, Len(E))
        /\ \A i \in 1 .. Len(E) : \A k \in 1 .. Len(E[i]) :
              /\ Total(w, i - 1) + k \in 1 .. Len(FlattenSeq(E))
              /\ FlattenSeq(E)[Total(w, i - 1) + k] = E[i][k]
    <3>1. E \in Seq(Seq(Entry))
      BY <1>2
    <3>. HIDE DEF E
    <3>. QED BY <3>1, FlattenPlaces
  <2>2. n \in 1 .. Len(E)
    BY <1>2
  <2>. HIDE DEF E, w
  <2>. QED BY <1>2, <2>1, <2>2
<1>. HIDE DEF t, E, C, N, w, s
<1>7. /\ Total(w, n - 1) \in Nat
      /\ Total(w, n - 1) + Len(E[n]) <= Total(w, N)
  <2>1. n \in 1 .. N
    BY DEF N, C
  <2>2. n \in 1 .. Len(w) /\ n - 1 \in 0 .. Len(w) /\ n \in Nat /\ n <= N /\ N <= Len(w)
    BY <1>1, <1>2, <2>1
  <2>3. Total(w, n) = Total(w, n - 1) + w[n] /\ Total(w, n - 1) \in Nat
    BY <1>2, <2>2, TotalSteps
  <2>4. Total(w, n) <= Total(w, N)
    BY <1>1, <1>2, <2>2, TotalGrows
  <2>. QED BY <1>2, <2>3, <2>4
<1>8. Slice(s, t) = EntriesOf(docs, f, v)
  <2>. DEFINE b == Total(w, n - 1)
              x == EntriesOf(docs, f, v)
              F == FlattenSeq(E)
  <2>1. /\ b \in Nat /\ x \in Seq(Entry) /\ F \in Seq(Entry) /\ b + Len(x) <= Len(F)
        /\ \A k \in 1 .. Len(x) : F[b + k] = x[k]
    BY <1>2, <1>3, <1>6, <1>7
  <2>2. Slice(s, t) = SubSeq(F, b + 1, b + Len(x))
    BY <1>2, <1>4, <1>5 DEF Slice
  <2>. HIDE DEF b, x, F
  <2>3. SubSeq(F, b + 1, b + Len(x)) = x
    BY <2>1, SliceIs
  <2>. QED BY <2>2, <2>3 DEF x
<1>9. t.list + 1 \in DOMAIN s.lists /\ s.lists[t.list + 1] = Holders(docs, f, v)
  <2>1. t.list + 1 = n /\ n \in DOMAIN C
    BY <1>1, <1>4 DEF N, C
  <2>2. s.lists[n] = Holders(docs, C[n].f, C[n].v)
    BY <1>5, <2>1
  <2>. QED BY <1>5, <2>1, <2>2 DEF C
<1>10. t \in Token
  <2>1. Len(E[n]) \in Nat /\ n - 1 \in Nat
    BY <1>2, <1>3
  <2>. QED BY <1>1, <1>4, <1>7, <2>1 DEF Token
<1>11. t.count = Cardinality(Holders(docs, f, v)) /\ t.count = w[n]
  BY <1>2, <1>3, <1>4
<1>. QED BY <1>1, <1>4, <1>8, <1>9, <1>10, <1>11 DEF s, t, w, E

(* A function on the first n positions is a sequence.                      *)
LEMMA FunctionIsSeq ==
  ASSUME NEW V, NEW n \in Nat, NEW x \in [1 .. n -> V]
  PROVE  x \in Seq(V) /\ Len(x) = n /\ DOMAIN x = 1 .. n
  OBVIOUS

(* The fields of LaidOut index the documents.                              *)
LEMMA LaidFieldIndexes ==
  ASSUME NEW docs, IsBatch(docs), NEW order \in SetToSeqs(FieldsOf(docs)),
         NEW m \in 1 .. Len(order)
  PROVE  LET s == LaidOut(docs, order)
             f == order[m]
         IN  /\ IndexesField(s, docs, f)
             /\ s.fields[f].tokens
                  = [k \in 1 .. Cardinality(ValuesOf(docs, f)) |->
                       LaidToken(docs, order, Before(docs, order, m) + k)]
             /\ s.fields[f].tokens \in Seq(Token)
             /\ s.fields[f].lengths \in Seq(LengthEntry)
             /\ s.fields[f].total \in Nat
             /\ s.fields[f].occurrences \in Nat
<1>. DEFINE s == LaidOut(docs, order)
            f == order[m]
            c == Cardinality(ValuesOf(docs, f))
            b == Before(docs, order, m)
            A == Ascending(ValuesOf(docs, f))
            C == Cells(docs, order)
            E == CellEntries(docs, order)
            T(k) == LaidToken(docs, order, b + k)
            field == s.fields[f]
<1>1. order \in Seq(FieldsOf(docs))
  BY OrderIsSeq
<1>2. f \in FieldsOf(docs)
  <2>1. order \in Seq(FieldsOf(docs))
    BY BatchSets, OrderHasAll
  <2>. QED BY <2>1
<1>3. CellsIn(docs, order, f) = [k \in 1 .. c |-> b + k]
  BY FieldTogether DEF CellsIn
<1>4. /\ c \in Nat /\ A \in [1 .. c -> ValuesOf(docs, f)]
      /\ \A k \in 1 .. c : A[k] \in Nat
  BY ValuesListed
<1>5. \A k \in 1 .. c : b + k \in 1 .. Len(C) /\ C[b + k] = [f |-> f, v |-> A[k]]
  BY SMTT(30), <1>1, CellsAre
<1>6. field = LaidField(docs, order, f)
  <2>1. s.fields = [x \in FieldsOf(docs) |-> LaidField(docs, order, x)]
    BY LaidOutParts
  <2>. QED BY <1>2, <2>1
<1>. HIDE DEF c, A, b, C
<1>7. /\ field.tokens = [k \in 1 .. c |-> T(k)]
      /\ field.lengths = LengthsOf(docs, f)
      /\ field.total = LengthSum(LengthsOf(docs, f))
      /\ field.avg = Average(LengthSum(LengthsOf(docs, f)), Len(LengthsOf(docs, f)))
      /\ field.occurrences = LenSum([k \in 1 .. c |-> E[b + k]])
  <2>. DEFINE M == CellsIn(docs, order, f)
  <2>1. DOMAIN M = 1 .. c /\ \A k \in 1 .. c : M[k] = b + k
    BY <1>3
  <2>. HIDE DEF M, field, E
  <2>2. /\ field.tokens = [k \in DOMAIN M |-> LaidToken(docs, order, M[k])]
        /\ field.lengths = LengthsOf(docs, f)
        /\ field.total = LengthSum(LengthsOf(docs, f))
        /\ field.avg = Average(LengthSum(LengthsOf(docs, f)), Len(LengthsOf(docs, f)))
        /\ field.occurrences = LenSum([k \in DOMAIN M |-> E[M[k]]])
    BY <1>6 DEF LaidField, M, E
  <2>3. [k \in DOMAIN M |-> LaidToken(docs, order, M[k])] = [k \in 1 .. c |-> T(k)]
    BY <2>1
  <2>4. [k \in DOMAIN M |-> E[M[k]]] = [k \in 1 .. c |-> E[b + k]]
    BY <2>1
  <2>. QED BY <2>2, <2>3, <2>4
<1>8. ASSUME NEW k \in 1 .. c
      PROVE  /\ T(k) \in Token
             /\ T(k).value = A[k]
             /\ T(k).count = Cardinality(Holders(docs, f, A[k]))
             /\ T(k).list + 1 \in DOMAIN s.lists
             /\ s.lists[T(k).list + 1] = Holders(docs, f, A[k])
             /\ Slice(s, T(k)) = EntriesOf(docs, f, A[k])
             /\ E[b + k] = EntriesOf(docs, f, A[k])
             /\ T(k).count = Len(E[b + k])
  <2>. DEFINE n == b + k
  <2>1. n \in 1 .. Len(C) /\ C[n].f = f /\ C[n].v = A[k]
    <3>1. n \in 1 .. Len(C) /\ C[n] = [f |-> f, v |-> A[k]]
      BY <1>5
    <3>. HIDE DEF n, f
    <3>. QED BY <3>1
  <2>. HIDE DEF n
  <2>2. n \in 1 .. Len(Cells(docs, order))
    BY <2>1 DEF C
  <2>3. LET t == LaidToken(docs, order, n)
            g == Cells(docs, order)[n].f
            v == Cells(docs, order)[n].v
            w == Lens(CellEntries(docs, order))
        IN  /\ t \in Token
            /\ t.value = v
            /\ t.count = w[n]
            /\ t.count = Cardinality(Holders(docs, g, v))
            /\ t.list + 1 \in DOMAIN s.lists
            /\ s.lists[t.list + 1] = Holders(docs, g, v)
            /\ Slice(s, t) = EntriesOf(docs, g, v)
    BY <2>2, <1>1, CellToken
  <2>4. E[n] = EntriesOf(docs, f, A[k]) /\ Lens(E)[n] = Len(E[n])
    BY <2>1, <2>2, <1>1, CellEntriesAre DEF C
  <2>. HIDE DEF s, f, field
  <2>. QED BY <2>1, <2>3, <2>4 DEF n, C
<1>. HIDE DEF T, field, E
<1>9. field.tokens \in Seq(Token) /\ Len(field.tokens) = c /\ DOMAIN field.tokens = 1 .. c
      /\ \A k \in 1 .. c : field.tokens[k] = T(k)
  <2>1. field.tokens \in [1 .. c -> Token]
    BY <1>7, <1>8
  <2>. DEFINE x == field.tokens
  <2>2. x \in [1 .. c -> Token] /\ x = [k \in 1 .. c |-> T(k)]
    BY <1>7, <2>1
  <2>. HIDE DEF x
  <2>3. x \in Seq(Token) /\ Len(x) = c /\ DOMAIN x = 1 .. c
    BY <1>4, <2>2, FunctionIsSeq
  <2>. QED BY <2>2, <2>3 DEF x
<1>10. /\ field.lengths \in Seq(LengthEntry) /\ field.total \in Nat
  BY <1>7, LengthsAre, LengthSumIsNat
<1>. DEFINE w == [k \in 1 .. c |-> T(k).count]
<1>11. w \in Seq(Nat) /\ Len(w) = c /\ \A k \in 1 .. c : w[k] = T(k).count
  <2>1. \A k \in 1 .. c : T(k).count \in Nat
    BY <1>8 DEF Token
  <2>2. w \in [1 .. c -> Nat]
    BY <2>1
  <2>. QED BY <1>4, <2>2
<1>. HIDE DEF w
<1>12. field.occurrences = Total(w, Len(w)) /\ CountSum(field.tokens) = Total(w, Len(w))
  <2>. DEFINE q == [k \in 1 .. c |-> E[b + k]]
  <2>1. DOMAIN q = 1 .. Len(w) /\ \A k \in 1 .. Len(w) : Len(q[k]) = w[k]
    BY <1>8, <1>11
  <2>. HIDE DEF q
  <2>2. LenSum(q) = Total(w, Len(w))
    BY <1>11, <2>1, LensSum
  <2>3. DOMAIN field.tokens = 1 .. Len(w) /\ \A k \in 1 .. Len(w) : field.tokens[k].count = w[k]
    BY <1>9, <1>11
  <2>4. CountSum(field.tokens) = Total(w, Len(w))
    BY <1>11, <2>3, CountsSum
  <2>. QED BY <1>7, <2>2, <2>4 DEF q
<1>13. field.occurrences \in Nat
  <2>1. Len(w) \in 0 .. Len(w)
    BY <1>11
  <2>. QED BY <1>11, <1>12, <2>1, TotalSteps
<1>14. IndexesField(s, docs, f)
  <2>1. [k \in DOMAIN field.tokens |-> field.tokens[k].value] = A
    BY <1>4, <1>8, <1>9
  <2>2. \A k \in DOMAIN field.tokens :
           /\ field.tokens[k].list + 1 \in DOMAIN s.lists
           /\ s.lists[field.tokens[k].list + 1] = Holders(docs, f, field.tokens[k].value)
           /\ field.tokens[k].count = Cardinality(Holders(docs, f, field.tokens[k].value))
           /\ Slice(s, field.tokens[k]) = EntriesOf(docs, f, field.tokens[k].value)
    BY <1>8, <1>9
  <2>3. /\ field.lengths = LengthsOf(docs, f)
        /\ field.total = LengthSum(field.lengths)
        /\ field.avg = Average(field.total, Len(field.lengths))
        /\ field.occurrences = CountSum(field.tokens)
    BY <1>7, <1>12
  <2>. HIDE DEF f, s
  <2>. QED BY <2>1, <2>2, <2>3 DEF IndexesField, field, A
<1>. QED BY <1>7, <1>9, <1>10, <1>13, <1>14 DEF field, T, c, b

(* A storage in the layout of BuildFrom indexes its documents, whatever    *)
(* the order in which the range over the map takes the fields.             *)
THEOREM LaidOutIndexes ==
  ASSUME NEW docs, IsBatch(docs), NEW s \in LayoutsOf(docs)
  PROVE  Indexes(s, docs) /\ Typed(s)
<1>1. PICK order \in SetToSeqs(FieldsOf(docs)) : s = LaidOut(docs, order)
  BY DEF LayoutsOf
<1>2. order \in Seq(FieldsOf(docs))
  BY OrderIsSeq
<1>. DEFINE C == Cells(docs, order)
            E == CellEntries(docs, order)
            w == Lens(E)
            N == Len(C)
<1>3. /\ s.ids = [k \in DOMAIN docs |-> docs[k].id]
      /\ s.freqs = FlattenSeq(E)
      /\ s.lists = [n \in DOMAIN C |-> Holders(docs, C[n].f, C[n].v)]
      /\ DOMAIN s.fields = FieldsOf(docs)
  BY <1>1, LaidOutParts
<1>4. /\ Len(order) \in Nat
      /\ \A i, j \in 1 .. Len(order) : order[i] = order[j] => i = j
      /\ \A f \in FieldsOf(docs) : \E m \in 1 .. Len(order) : order[m] = f
      /\ \A m \in 1 .. Len(order) : order[m] \in FieldsOf(docs)
  <2>1. order \in Seq(FieldsOf(docs))
    BY BatchSets, OrderHasAll
  <2>. QED BY <2>1, BatchSets, OrderHasAll
<1>5. \A m \in 1 .. Len(order) :
        /\ IndexesField(s, docs, order[m])
        /\ s.fields[order[m]].tokens
             = [k \in 1 .. Cardinality(ValuesOf(docs, order[m])) |->
                       LaidToken(docs, order, Before(docs, order, m) + k)]
        /\ s.fields[order[m]].tokens \in Seq(Token)
        /\ s.fields[order[m]].lengths \in Seq(LengthEntry)
        /\ s.fields[order[m]].total \in Nat
        /\ s.fields[order[m]].occurrences \in Nat
  BY <1>1, LaidFieldIndexes
<1>6. /\ C \in Seq(Cell(docs)) /\ N \in Nat /\ DOMAIN C = 1 .. N
      /\ \A m \in 1 .. Len(order) : \A k \in 1 .. Cardinality(ValuesOf(docs, order[m])) :
              /\ Before(docs, order, m) + k \in 1 .. N
              /\ C[Before(docs, order, m) + k]
                   = [f |-> order[m], v |-> Ascending(ValuesOf(docs, order[m]))[k]]
      /\ \A p \in 1 .. N :
              \E m \in 1 .. Len(order) : \E k \in 1 .. Cardinality(ValuesOf(docs, order[m])) :
                p = Before(docs, order, m) + k
  <2>1. C \in Seq(Cell(docs))
    BY <1>2, CellsAre
  <2>2. N \in Nat /\ DOMAIN C = 1 .. N
    <3>. HIDE DEF C
    <3>. QED BY <2>1
  <2>. QED BY <2>1, <2>2, <1>2, CellsAre
<1>7. /\ E \in Seq(Seq(Entry)) /\ Len(E) = N /\ w \in Seq(Nat) /\ Len(w) = N
      /\ FlattenSeq(E) \in Seq(Entry)
      /\ Len(FlattenSeq(E)) = Total(w, N)
  <2>1. /\ E \in Seq(Seq(Entry)) /\ Len(E) = N /\ w \in Seq(Nat) /\ Len(w) = N
    BY <1>2, CellEntriesAre
  <2>2. /\ FlattenSeq(E) \in Seq(Entry)
        /\ Len(FlattenSeq(E)) = Total(w, Len(E))
    <3>1. E \in Seq(Seq(Entry))
      BY <2>1
    <3>. HIDE DEF E
    <3>. QED BY <3>1, FlattenPlaces
  <2>. QED BY <2>1, <2>2
<1>8. \A n \in 1 .. N : /\ LaidToken(docs, order, n).list = n - 1
                        /\ LaidToken(docs, order, n).freq = Total(w, n - 1)
                        /\ LaidToken(docs, order, n).count = w[n]
  BY <1>2, CellToken
<1>. HIDE DEF C, E, w, N
<1>9. s.lists \in Seq(SUBSET Nat) /\ Len(s.lists) = N
  <2>1. \A f, v : Holders(docs, f, v) \in SUBSET Nat
    BY BatchSets DEF Numbers
  <2>2. s.lists \in [1 .. N -> SUBSET Nat]
    BY <1>3, <1>6, <2>1
  <2>. DEFINE x == s.lists
  <2>3. x \in [1 .. N -> SUBSET Nat] /\ N \in Nat
    BY <1>6, <2>2
  <2>. HIDE DEF x
  <2>4. x \in Seq(SUBSET Nat) /\ Len(x) = N
    BY <2>3, FunctionIsSeq
  <2>. QED BY <2>4 DEF x
<1>10. Typed(s)
  <2>1. \A f \in DOMAIN s.fields :
           /\ s.fields[f].tokens \in Seq(Token)
           /\ s.fields[f].lengths \in Seq(LengthEntry)
           /\ s.fields[f].total \in Nat
           /\ s.fields[f].occurrences \in Nat
    BY <1>3, <1>4, <1>5
  <2>. QED BY <1>3, <1>7, <1>9, <2>1 DEF Typed
<1>11. TablesCovered(s)
  <2>. DEFINE card(m) == Cardinality(ValuesOf(docs, order[m]))
              Is(n, p) == \E m \in 1 .. Len(order) : \E k \in 1 .. card(m) :
                            n = Before(docs, order, m) + k /\ p = <<order[m], k>>
              g == [n \in 1 .. N |-> CHOOSE p : Is(n, p)]
  <2>1. \A m \in 1 .. Len(order) : card(m) \in Nat
    BY ValuesListed
  <2>2. \A n \in 1 .. N : Is(n, g[n])
    <3>. SUFFICES ASSUME NEW n \in 1 .. N PROVE Is(n, g[n])
      OBVIOUS
    <3>1. \E p : Is(n, p)
      BY <1>6
    <3>2. g[n] = CHOOSE p : Is(n, p)
      OBVIOUS
    <3>. HIDE DEF Is, g
    <3>. QED BY <3>1, <3>2
  <2>3. \A p : p \in TokensOf(s) <=> \E m \in 1 .. Len(order) : \E k \in 1 .. card(m) :
                                       p = <<order[m], k>>
    <3>1. \A m \in 1 .. Len(order) : DOMAIN s.fields[order[m]].tokens = 1 .. card(m)
      BY <1>5
    <3>2. TokensOf(s) = UNION {{<<f, k>> : k \in DOMAIN s.fields[f].tokens} : f \in FieldsOf(docs)}
      BY <1>3 DEF TokensOf
    <3>3. ASSUME NEW p, p \in TokensOf(s)
          PROVE  \E m \in 1 .. Len(order) : \E k \in 1 .. card(m) : p = <<order[m], k>>
      <4>. HIDE DEF card
      <4>1. PICK f \in FieldsOf(docs) : \E k \in DOMAIN s.fields[f].tokens : p = <<f, k>>
        BY <3>2, <3>3
      <4>2. PICK m \in 1 .. Len(order) : order[m] = f
        BY <1>4
      <4>3. PICK k \in DOMAIN s.fields[f].tokens : p = <<f, k>>
        BY <4>1
      <4>4. k \in 1 .. card(m) /\ p = <<order[m], k>>
        BY <3>1, <4>2, <4>3
      <4>. QED BY <4>4
    <3>4. ASSUME NEW m \in 1 .. Len(order), NEW k \in 1 .. card(m)
          PROVE  <<order[m], k>> \in TokensOf(s)
      <4>1. order[m] \in FieldsOf(docs) /\ k \in DOMAIN s.fields[order[m]].tokens
        BY <1>4, <3>1
      <4>. QED BY <3>2, <4>1
    <3>. QED BY <3>3, <3>4
  <2>4. g \in Bijection(1 .. N, TokensOf(s))
    <3>1. g \in [1 .. N -> TokensOf(s)]
      <4>1. \A n \in 1 .. N : g[n] \in TokensOf(s)
        <5>. HIDE DEF g, card
        <5>. QED BY <2>2, <2>3
      <4>. QED BY <4>1
    <3>2. ASSUME NEW i \in 1 .. N, NEW j \in 1 .. N, g[i] = g[j] PROVE i = j
      <4>. HIDE DEF g, card
      <4>1. PICK m1 \in 1 .. Len(order) : \E k1 \in 1 .. card(m1) :
              i = Before(docs, order, m1) + k1 /\ g[i] = <<order[m1], k1>>
        BY <2>2
      <4>2. PICK k1 \in 1 .. card(m1) :
               i = Before(docs, order, m1) + k1 /\ g[i] = <<order[m1], k1>>
        BY <4>1
      <4>3. PICK m2 \in 1 .. Len(order) : \E k2 \in 1 .. card(m2) :
              j = Before(docs, order, m2) + k2 /\ g[j] = <<order[m2], k2>>
        BY <2>2
      <4>4. PICK k2 \in 1 .. card(m2) :
               j = Before(docs, order, m2) + k2 /\ g[j] = <<order[m2], k2>>
        BY <4>3
      <4>5. order[m1] = order[m2] /\ k1 = k2
        BY <3>2, <4>2, <4>4
      <4>6. m1 = m2
        BY <1>4, <4>5
      <4>. QED BY <4>2, <4>4, <4>5, <4>6
    <3>3. ASSUME NEW p \in TokensOf(s) PROVE \E n \in 1 .. N : g[n] = p
      <4>1. PICK m \in 1 .. Len(order) : \E k \in 1 .. card(m) :
              p = <<order[m], k>>
        BY <2>3
      <4>2. PICK k \in 1 .. card(m) :
               p = <<order[m], k>>
        BY <4>1
      <4>. DEFINE n == Before(docs, order, m) + k
      <4>3. n \in 1 .. N /\ C[n].f = order[m] /\ C[n].v = Ascending(ValuesOf(docs, order[m]))[k]
        <5>1. n \in 1 .. N /\ C[n]
                = [f |-> order[m], v |-> Ascending(ValuesOf(docs, order[m]))[k]]
          BY <1>6
        <5>. HIDE DEF n
        <5>. QED BY <5>1
      <4>. HIDE DEF g, card
      <4>4. PICK m2 \in 1 .. Len(order) : \E k2 \in 1 .. card(m2) :
              n = Before(docs, order, m2) + k2 /\ g[n] = <<order[m2], k2>>
        BY <2>2, <4>3
      <4>5. PICK k2 \in 1 .. card(m2) :
               n = Before(docs, order, m2) + k2 /\ g[n] = <<order[m2], k2>>
        BY <4>4
      <4>6. C[n] = [f |-> order[m2], v |-> Ascending(ValuesOf(docs, order[m2]))[k2]]
        BY <1>6, <4>5 DEF card
      <4>7. order[m2] = order[m]
        BY <4>3, <4>6
      <4>8. m2 = m
        BY <1>4, <4>7
      <4>9. k2 = k
        <5>. DEFINE b == Before(docs, order, m)
        <5>1. b + k2 = b + k /\ k \in Nat /\ k2 \in Nat
          BY <2>1, <4>5, <4>8
        <5>2. b \in Nat
          <6>1. Rows(docs, order) \in Seq(Seq(Cell(docs))) /\ Len(Rows(docs, order)) = Len(order)
            BY <1>2, CellsAre
          <6>2. Lens(Rows(docs, order)) \in Seq(Nat)
                /\ Len(Lens(Rows(docs, order))) = Len(order)
            BY <6>1, LensAre
          <6>3. m - 1 \in 0 .. Len(order)
            BY <1>4
          <6>. QED BY <6>2, <6>3, TotalSteps DEF Before
        <5>. HIDE DEF b
        <5>. QED BY <5>1, <5>2
      <4>. QED BY <4>2, <4>3, <4>5, <4>7, <4>9
    <3>. HIDE DEF g
    <3>. QED BY <3>1, <3>2, <3>3 DEF Bijection, Injection, Surjection, IsInjective
  <2>5. \A n \in 1 .. N : TokenAt(s, g[n]) = LaidToken(docs, order, n)
    <3>. SUFFICES ASSUME NEW n \in 1 .. N PROVE TokenAt(s, g[n]) = LaidToken(docs, order, n)
      OBVIOUS
    <3>. HIDE DEF g, card
    <3>1. PICK m \in 1 .. Len(order) : \E k \in 1 .. card(m) :
            n = Before(docs, order, m) + k /\ g[n] = <<order[m], k>>
      BY <2>2
    <3>2. PICK k \in 1 .. card(m) :
             n = Before(docs, order, m) + k /\ g[n] = <<order[m], k>>
      BY <3>1
    <3>3. TokenAt(s, g[n]) = s.fields[order[m]].tokens[k]
      BY <3>2 DEF TokenAt
    <3>4. s.fields[order[m]].tokens[k] = LaidToken(docs, order, Before(docs, order, m) + k)
      BY <1>5, <3>2 DEF card
    <3>. QED BY <3>2, <3>3, <3>4
  <2>. HIDE DEF g
  <2>6. /\ w \in Seq(Nat) /\ Len(w) = N
        /\ Len(s.lists) = Len(w) /\ Len(s.freqs) = Total(w, Len(w))
    BY <1>3, <1>7, <1>9
  <2>7. \A n \in 1 .. Len(w) : /\ TokenAt(s, g[n]).list = n - 1
                               /\ TokenAt(s, g[n]).freq = Total(w, n - 1)
                               /\ TokenAt(s, g[n]).count = w[n]
    BY <1>8, <2>5, <2>6
  <2>8. g \in Bijection(1 .. Len(w), TokensOf(s))
    BY <2>4, <2>6
  <2>. QED BY <2>6, <2>7, <2>8, CursorCovers
<1>12. \A f \in DOMAIN s.fields : IndexesField(s, docs, f)
  <2>. SUFFICES ASSUME NEW f \in FieldsOf(docs) PROVE IndexesField(s, docs, f)
    BY <1>3
  <2>1. PICK m \in 1 .. Len(order) : order[m] = f
    BY <1>4
  <2>2. IndexesField(s, docs, order[m])
    BY <1>5
  <2>. QED BY <2>1, <2>2
<1>. QED BY <1>3, <1>10, <1>11, <1>12 DEF Indexes

-----------------------------------------------------------------------------
(***************************************************************************)
(* The documents of two batches, one after the other.                      *)
(***************************************************************************)
LEMMA BatchConcat ==
  ASSUME NEW A, IsBatch(A), NEW B, IsBatch(B)
  PROVE  /\ IsBatch(A \o B)
         /\ Len(A) \in Nat /\ Len(B) \in Nat
         /\ Len(A \o B) = Len(A) + Len(B)
         /\ DOMAIN (A \o B) = 1 .. Len(A) + Len(B)
         /\ \A k \in 1 .. Len(A) : (A \o B)[k] = A[k]
         /\ \A k \in 1 .. Len(B) : (A \o B)[Len(A) + k] = B[k]
         /\ \A k \in 1 .. Len(A) + Len(B) :
              k \in 1 .. Len(A) \/ (k - Len(A) \in 1 .. Len(B) /\ k = Len(A) + (k - Len(A)))
<1>. DEFINE V == {A[k] : k \in 1 .. Len(A)} \union {B[k] : k \in 1 .. Len(B)}
            m == Len(A)
            n == Len(B)
            D == A \o B
<1>1. /\ m \in Nat /\ n \in Nat
      /\ A = [k \in 1 .. m |-> A[k]] /\ B = [k \in 1 .. n |-> B[k]]
      /\ \A k \in 1 .. m : IsDocument(A[k])
      /\ \A k \in 1 .. n : IsDocument(B[k])
  BY DEF IsBatch
<1>. HIDE DEF m, n
<1>2. A \in Seq(V) /\ B \in Seq(V)
  <2>1. \A k \in 1 .. m : A[k] \in V
    BY DEF m
  <2>2. \A k \in 1 .. n : B[k] \in V
    BY DEF n
  <2>. HIDE DEF V
  <2>3. A \in [1 .. m -> V] /\ B \in [1 .. n -> V]
    BY <1>1, <2>1, <2>2
  <2>. QED BY <1>1, <2>3
<1>. HIDE DEF V
<1>3. /\ D \in Seq(V)
      /\ Len(D) = m + n
      /\ \A k \in 1 .. m : D[k] = A[k]
      /\ \A k \in 1 .. n : D[m + k] = B[k]
  <2>1. /\ A \o B \in Seq(V)
        /\ Len(A \o B) = Len(A) + Len(B)
        /\ \A k \in 1 .. Len(A) : (A \o B)[k] = A[k]
        /\ \A k \in 1 .. Len(B) : (A \o B)[Len(A) + k] = B[k]
    BY <1>2, CatParts
  <2>. QED BY <2>1 DEF m, n
<1>. HIDE DEF D
<1>4. DOMAIN D = 1 .. m + n /\ D = [k \in 1 .. Len(D) |-> D[k]]
  BY <1>1, <1>3
<1>5. \A k \in 1 .. m + n : k \in 1 .. m \/ (k - m \in 1 .. n /\ k = m + (k - m))
  BY <1>1
<1>6. \A k \in 1 .. m + n : IsDocument(D[k])
  <2>. SUFFICES ASSUME NEW k \in 1 .. m + n PROVE IsDocument(D[k])
    OBVIOUS
  <2>1. CASE k \in 1 .. m
    BY <2>1, <1>1, <1>3
  <2>2. CASE k - m \in 1 .. n /\ k = m + (k - m)
    <3>1. D[m + (k - m)] = B[k - m]
      BY <1>3, <2>2
    <3>. QED BY <3>1, <2>2, <1>1
  <2>. QED BY <2>1, <2>2, <1>5
<1>7. IsBatch(D)
  <2>1. Len(D) \in Nat
    BY <1>1, <1>3
  <2>. QED BY <2>1, <1>3, <1>4, <1>6 DEF IsBatch
<1>. QED BY <1>1, <1>3, <1>4, <1>5, <1>7 DEF D, m, n

(* The members of S are below m, and those of T moved behind m of them.    *)
AllBelow(S, m) == \A s \in S : s < m
Behind(T, m) == {t + m : t \in T}

(* Their fields, the values of a field, and the holders of a token.        *)
LEMMA SetsConcat ==
  ASSUME NEW A, IsBatch(A), NEW B, IsBatch(B)
  PROVE  /\ FieldsOf(A \o B) = FieldsOf(A) \union FieldsOf(B)
         /\ \A f : ValuesOf(A \o B, f) = ValuesOf(A, f) \union ValuesOf(B, f)
         /\ \A f, v : Holders(A \o B, f, v)
                        = Holders(A, f, v) \union Behind(Holders(B, f, v), Len(A))
         /\ \A f : Lengthy(A \o B, f)
                     = Lengthy(A, f) \union Behind(Lengthy(B, f), Len(A))
<1>. DEFINE m == Len(A)
            n == Len(B)
            D == A \o B
<1>1. /\ m \in Nat /\ n \in Nat /\ DOMAIN D = 1 .. m + n
      /\ DOMAIN A = 1 .. m /\ DOMAIN B = 1 .. n
      /\ \A k \in 1 .. m : D[k] = A[k]
      /\ \A k \in 1 .. n : D[m + k] = B[k]
      /\ \A k \in 1 .. m + n : k \in 1 .. m \/ (k - m \in 1 .. n /\ k = m + (k - m))
  <2>1. IsBatch(A) => DOMAIN A = 1 .. Len(A)
    BY DEF IsBatch
  <2>2. IsBatch(B) => DOMAIN B = 1 .. Len(B)
    BY DEF IsBatch
  <2>3. /\ Len(A) \in Nat /\ Len(B) \in Nat
        /\ DOMAIN (A \o B) = 1 .. Len(A) + Len(B)
        /\ \A k \in 1 .. Len(A) : (A \o B)[k] = A[k]
        /\ \A k \in 1 .. Len(B) : (A \o B)[Len(A) + k] = B[k]
        /\ \A k \in 1 .. Len(A) + Len(B) :
             k \in 1 .. Len(A) \/ (k - Len(A) \in 1 .. Len(B) /\ k = Len(A) + (k - Len(A)))
    BY BatchConcat
  <2>. QED BY <2>1, <2>2, <2>3
<1>. HIDE DEF m, n, D
<1>2. \A k \in 1 .. m : k \in 1 .. m + n
  BY <1>1
<1>3. \A k \in 1 .. n : m + k \in 1 .. m + n
  BY <1>1
<1>4. \A k \in 1 .. m + n : \/ k \in 1 .. m /\ D[k] = A[k]
                            \/ \E i \in 1 .. n : k = m + i /\ D[k] = B[i]
  BY <1>1
<1>5. FieldsOf(D) = FieldsOf(A) \union FieldsOf(B)
  <2>1. ASSUME NEW f PROVE f \in FieldsOf(D) <=> \E k \in 1 .. m + n : f \in DOMAIN D[k].fields
    BY <1>1 DEF FieldsOf
  <2>2. ASSUME NEW f PROVE f \in FieldsOf(A) <=> \E k \in 1 .. m : f \in DOMAIN A[k].fields
    BY <1>1 DEF FieldsOf
  <2>3. ASSUME NEW f PROVE f \in FieldsOf(B) <=> \E k \in 1 .. n : f \in DOMAIN B[k].fields
    BY <1>1 DEF FieldsOf
  <2>4. ASSUME NEW f, f \in FieldsOf(D) PROVE f \in FieldsOf(A) \union FieldsOf(B)
    BY <1>4, <2>1, <2>2, <2>3, <2>4
  <2>5. ASSUME NEW f, f \in FieldsOf(A) PROVE f \in FieldsOf(D)
    BY <1>1, <1>2, <2>1, <2>2, <2>5
  <2>6. ASSUME NEW f, f \in FieldsOf(B) PROVE f \in FieldsOf(D)
    BY <1>1, <1>3, <2>1, <2>3, <2>6
  <2>. QED BY <2>4, <2>5, <2>6
<1>6. ASSUME NEW f PROVE ValuesOf(D, f) = ValuesOf(A, f) \union ValuesOf(B, f)
  <2>. DEFINE In(doc, v) == f \in DOMAIN doc.fields /\ v \in DOMAIN doc.fields[f].tokens
  <2>1. ASSUME NEW v PROVE v \in ValuesOf(D, f) <=> \E k \in 1 .. m + n : In(D[k], v)
    BY <1>1 DEF ValuesOf
  <2>2. ASSUME NEW v PROVE v \in ValuesOf(A, f) <=> \E k \in 1 .. m : In(A[k], v)
    BY <1>1 DEF ValuesOf
  <2>3. ASSUME NEW v PROVE v \in ValuesOf(B, f) <=> \E k \in 1 .. n : In(B[k], v)
    BY <1>1 DEF ValuesOf
  <2>. HIDE DEF In
  <2>4. ASSUME NEW v, v \in ValuesOf(D, f) PROVE v \in ValuesOf(A, f) \union ValuesOf(B, f)
    BY <1>4, <2>1, <2>2, <2>3, <2>4
  <2>5. ASSUME NEW v, v \in ValuesOf(A, f) PROVE v \in ValuesOf(D, f)
    BY <1>1, <1>2, <2>1, <2>2, <2>5
  <2>6. ASSUME NEW v, v \in ValuesOf(B, f) PROVE v \in ValuesOf(D, f)
    BY <1>1, <1>3, <2>1, <2>3, <2>6
  <2>. QED BY <2>4, <2>5, <2>6
<1>7. ASSUME NEW f, NEW v
      PROVE  Holders(D, f, v) = Holders(A, f, v) \union {d + m : d \in Holders(B, f, v)}
  <2>1. ASSUME NEW x PROVE x \in Holders(D, f, v)
                             <=> \E k \in 1 .. m + n : x = k - 1 /\ HasToken(D[k], f, v)
    BY <1>1 DEF Holders
  <2>2. ASSUME NEW x PROVE x \in Holders(A, f, v)
                             <=> \E k \in 1 .. m : x = k - 1 /\ HasToken(A[k], f, v)
    BY <1>1 DEF Holders
  <2>3. ASSUME NEW x PROVE x \in Holders(B, f, v)
                             <=> \E k \in 1 .. n : x = k - 1 /\ HasToken(B[k], f, v)
    BY <1>1 DEF Holders
  <2>4. ASSUME NEW x, x \in Holders(D, f, v)
        PROVE  x \in Holders(A, f, v) \union {d + m : d \in Holders(B, f, v)}
    <3>1. PICK k \in 1 .. m + n : x = k - 1 /\ HasToken(D[k], f, v)
      BY <2>1, <2>4
    <3>2. CASE k \in 1 .. m /\ D[k] = A[k]
      BY <2>2, <3>1, <3>2
    <3>3. CASE \E i \in 1 .. n : k = m + i /\ D[k] = B[i]
      <4>1. PICK i \in 1 .. n : k = m + i /\ D[k] = B[i]
        BY <3>3
      <4>2. i - 1 \in Holders(B, f, v)
        BY <2>3, <3>1, <4>1
      <4>3. x = (i - 1) + m
        BY <1>1, <3>1, <4>1
      <4>. QED BY <4>2, <4>3
    <3>. QED BY <3>2, <3>3, <1>4
  <2>5. ASSUME NEW x, x \in Holders(A, f, v) PROVE x \in Holders(D, f, v)
    BY <1>1, <1>2, <2>1, <2>2, <2>5
  <2>6. ASSUME NEW d, d \in Holders(B, f, v) PROVE d + m \in Holders(D, f, v)
    <3>1. PICK k \in 1 .. n : d = k - 1 /\ HasToken(B[k], f, v)
      BY <2>3, <2>6
    <3>2. m + k \in 1 .. m + n /\ D[m + k] = B[k] /\ d + m = (m + k) - 1
      BY <1>1, <1>3, <3>1
    <3>. QED BY <2>1, <3>1, <3>2
  <2>. QED BY <2>4, <2>5, <2>6
<1>8. ASSUME NEW f
      PROVE  Lengthy(D, f) = Lengthy(A, f) \union {d + m : d \in Lengthy(B, f)}
  <2>. DEFINE Has(doc) == f \in DOMAIN doc.fields /\ doc.fields[f].length > 0
  <2>1. ASSUME NEW x PROVE x \in Lengthy(D, f)
                             <=> \E k \in 1 .. m + n : x = k - 1 /\ Has(D[k])
    BY <1>1 DEF Lengthy
  <2>2. ASSUME NEW x PROVE x \in Lengthy(A, f) <=> \E k \in 1 .. m : x = k - 1 /\ Has(A[k])
    BY <1>1 DEF Lengthy
  <2>3. ASSUME NEW x PROVE x \in Lengthy(B, f) <=> \E k \in 1 .. n : x = k - 1 /\ Has(B[k])
    BY <1>1 DEF Lengthy
  <2>. HIDE DEF Has
  <2>4. ASSUME NEW x, x \in Lengthy(D, f)
        PROVE  x \in Lengthy(A, f) \union {d + m : d \in Lengthy(B, f)}
    <3>1. PICK k \in 1 .. m + n : x = k - 1 /\ Has(D[k])
      BY <2>1, <2>4
    <3>2. CASE k \in 1 .. m /\ D[k] = A[k]
      BY <2>2, <3>1, <3>2
    <3>3. CASE \E i \in 1 .. n : k = m + i /\ D[k] = B[i]
      <4>1. PICK i \in 1 .. n : k = m + i /\ D[k] = B[i]
        BY <3>3
      <4>2. i - 1 \in Lengthy(B, f)
        BY <2>3, <3>1, <4>1
      <4>3. x = (i - 1) + m
        BY <1>1, <3>1, <4>1
      <4>. QED BY <4>2, <4>3
    <3>. QED BY <3>2, <3>3, <1>4
  <2>5. ASSUME NEW x, x \in Lengthy(A, f) PROVE x \in Lengthy(D, f)
    BY <1>1, <1>2, <2>1, <2>2, <2>5
  <2>6. ASSUME NEW d, d \in Lengthy(B, f) PROVE d + m \in Lengthy(D, f)
    <3>1. PICK k \in 1 .. n : d = k - 1 /\ Has(B[k])
      BY <2>3, <2>6
    <3>2. m + k \in 1 .. m + n /\ D[m + k] = B[k] /\ d + m = (m + k) - 1
      BY <1>1, <1>3, <3>1
    <3>. QED BY <2>1, <3>1, <3>2
  <2>. QED BY <2>4, <2>5, <2>6
<1>. QED BY <1>5, <1>6, <1>7, <1>8 DEF m, D, Behind

(* The ascending sequence of two sets of document indices, the second of   *)
(* them moved behind the first.                                            *)
LEMMA AscendingConcat ==
  ASSUME NEW S, IsFiniteSet(S), Numbers(S), NEW T, IsFiniteSet(T), Numbers(T),
         NEW m \in Nat, AllBelow(S, m)
  PROVE  LET U == S \union Behind(T, m)
         IN  /\ Cardinality(U) = Cardinality(S) + Cardinality(T)
             /\ Cardinality(S) \in Nat /\ Cardinality(T) \in Nat
             /\ \A k \in 1 .. Cardinality(S) : Ascending(U)[k] = Ascending(S)[k]
             /\ \A k \in 1 .. Cardinality(T) :
                  Ascending(U)[Cardinality(S) + k] = Ascending(T)[k] + m
<1>. DEFINE M == {t + m : t \in T}
            x == Ascending(S)
            y == Ascending(T)
            c == Cardinality(S)
            d == Cardinality(T)
            z == [k \in 1 .. d |-> y[k] + m]
<1>1. /\ Lists(x, S) /\ Len(x) = c /\ c \in Nat
      /\ Lists(y, T) /\ Len(y) = d /\ d \in Nat
  BY AscendingLists, FS_CardinalityType
<1>. HIDE DEF x, y, c, d
<1>2. /\ y \in [1 .. d -> T]
      /\ \A i, j \in 1 .. d : i < j => y[i] < y[j]
      /\ \A t \in T : \E i \in 1 .. d : y[i] = t
  BY <1>1 DEF Lists, Climbs
<1>3. Len(z) = d /\ DOMAIN z = 1 .. d /\ \A k \in 1 .. d : z[k] = y[k] + m
  BY <1>1
<1>4. Lists(z, M)
  <2>1. z \in [1 .. d -> M]
    BY <1>2
  <2>2. \A i, j \in 1 .. d : i < j => z[i] < z[j]
    <3>. SUFFICES ASSUME NEW i \in 1 .. d, NEW j \in 1 .. d, i < j PROVE z[i] < z[j]
      OBVIOUS
    <3>1. y[i] \in Nat /\ y[j] \in Nat /\ y[i] < y[j]
      BY <1>2 DEF Numbers
    <3>. QED BY <3>1, <1>3
  <2>3. \A t \in M : \E i \in 1 .. d : z[i] = t
    BY <1>2, <1>3
  <2>. HIDE DEF z, M
  <2>. QED BY <1>1, <1>3, <2>1, <2>2, <2>3 DEF Lists, Climbs
<1>5. Numbers(M) /\ \A s \in S, t \in M : s < t
  <2>1. \A t \in T : t + m \in Nat /\ t + m >= m
    BY DEF Numbers
  <2>2. \A s \in S : s \in Nat /\ s < m
    BY DEF Numbers, AllBelow
  <2>. QED BY <2>1, <2>2 DEF Numbers
<1>. HIDE DEF z, M
<1>6. Lists(x \o z, S \union M)
  BY <1>1, <1>4, <1>5, ListedConcat
<1>7. Numbers(S \union M)
  BY <1>5 DEF Numbers
<1>8. /\ Cardinality(S \union M) = Len(x \o z) /\ x \o z = Ascending(S \union M)
  BY <1>6, <1>7, ListedOnce
<1>9. /\ Len(x \o z) = c + d
      /\ \A k \in 1 .. c : (x \o z)[k] = x[k]
      /\ \A k \in 1 .. d : (x \o z)[c + k] = z[k]
  <2>1. x \in Seq(S \union M) /\ z \in Seq(S \union M)
    <3>1. x \in [1 .. c -> S] /\ z \in [1 .. d -> M]
      BY <1>1, <1>3, <1>4 DEF Lists
    <3>2. x \in [1 .. c -> S \union M] /\ z \in [1 .. d -> S \union M]
      BY <3>1
    <3>. QED BY <1>1, <3>2
  <2>2. /\ Len(x \o z) = Len(x) + Len(z)
        /\ \A k \in 1 .. Len(x) : (x \o z)[k] = x[k]
        /\ \A k \in 1 .. Len(z) : (x \o z)[Len(x) + k] = z[k]
    BY <2>1, CatParts
  <2>. QED BY <1>1, <1>3, <2>2
<1>. QED BY <1>1, <1>3, <1>8, <1>9 DEF x, y, c, d, M, Behind

(* The same, by names for what is put together.                            *)
LEMMA ConcatParts ==
  ASSUME NEW S, IsFiniteSet(S), Numbers(S), NEW T, IsFiniteSet(T), Numbers(T),
         NEW m \in Nat, AllBelow(S, m), NEW U, U = S \union Behind(T, m),
         NEW c, c = Cardinality(S), NEW d, d = Cardinality(T)
  PROVE  /\ Cardinality(U) = c + d
         /\ \A k \in 1 .. c : Ascending(U)[k] = Ascending(S)[k]
         /\ \A k \in 1 .. d : Ascending(U)[c + k] = Ascending(T)[k] + m
  BY AscendingConcat

-----------------------------------------------------------------------------
(* The entries of q, their documents moved behind n others.                *)
Moved(q, n) == [k \in DOMAIN q |-> [q[k] EXCEPT !.doc = @ + n]]

(* Moving frequencies changes their documents, and nothing else.           *)
LEMMA MovedEntries ==
  ASSUME NEW q \in Seq(Entry), NEW n \in Nat
  PROVE  /\ Moved(q, n) \in Seq(Entry)
         /\ Len(Moved(q, n)) = Len(q)
         /\ \A k \in 1 .. Len(q) : Moved(q, n)[k] = [doc |-> q[k].doc + n, freq |-> q[k].freq]
<1>1. DOMAIN q = 1 .. Len(q) /\ Len(q) \in Nat /\ \A k \in 1 .. Len(q) : q[k] \in Entry
  OBVIOUS
<1>2. ASSUME NEW e \in Entry
      PROVE  /\ [e EXCEPT !.doc = @ + n] = [doc |-> e.doc + n, freq |-> e.freq]
             /\ [doc |-> e.doc + n, freq |-> e.freq] \in Entry
  <2>1. e = [doc |-> e.doc, freq |-> e.freq] /\ e.doc \in Nat /\ e.freq \in Nat
    BY DEF Entry
  <2>2. e.doc + n \in Nat
    BY <2>1
  <2>. QED BY <2>1, <2>2 DEF Entry
<1>3. \A k \in 1 .. Len(q) : /\ Moved(q, n)[k] = [doc |-> q[k].doc + n, freq |-> q[k].freq]
                             /\ Moved(q, n)[k] \in Entry
  BY <1>1, <1>2 DEF Moved
<1>4. Moved(q, n) \in [1 .. Len(q) -> Entry]
  BY <1>1, <1>3 DEF Moved
<1>. QED BY <1>1, <1>3, <1>4, FunctionIsSeq

(* Moving lengths changes their documents, and nothing else.               *)
LEMMA MovedLengths ==
  ASSUME NEW q \in Seq(LengthEntry), NEW n \in Nat
  PROVE  /\ Moved(q, n) \in Seq(LengthEntry)
         /\ Len(Moved(q, n)) = Len(q)
         /\ \A k \in 1 .. Len(q) :
              Moved(q, n)[k] = [doc |-> q[k].doc + n, length |-> q[k].length]
<1>1. DOMAIN q = 1 .. Len(q) /\ Len(q) \in Nat /\ \A k \in 1 .. Len(q) : q[k] \in LengthEntry
  OBVIOUS
<1>2. ASSUME NEW e \in LengthEntry
      PROVE  /\ [e EXCEPT !.doc = @ + n] = [doc |-> e.doc + n, length |-> e.length]
             /\ [doc |-> e.doc + n, length |-> e.length] \in LengthEntry
  <2>1. e = [doc |-> e.doc, length |-> e.length] /\ e.doc \in Nat /\ e.length \in Nat
    BY DEF LengthEntry
  <2>2. e.doc + n \in Nat
    BY <2>1
  <2>. QED BY <2>1, <2>2 DEF LengthEntry
<1>3. \A k \in 1 .. Len(q) : /\ Moved(q, n)[k] = [doc |-> q[k].doc + n, length |-> q[k].length]
                             /\ Moved(q, n)[k] \in LengthEntry
  BY <1>1, <1>2 DEF Moved
<1>4. Moved(q, n) \in [1 .. Len(q) -> LengthEntry]
  BY <1>1, <1>3 DEF Moved
<1>. QED BY <1>1, <1>3, <1>4, FunctionIsSeq

(* Two sequences with the same elements are the same.                      *)
LEMMA SameSeq ==
  ASSUME NEW V, NEW x \in Seq(V), NEW y \in Seq(V), Len(x) = Len(y),
         \A k \in 1 .. Len(x) : x[k] = y[k]
  PROVE  x = y
  OBVIOUS

(* The frequencies of a token of both batches: those of the first, then    *)
(* those of the second, for documents moved behind the first batch.        *)
LEMMA EntriesConcat ==
  ASSUME NEW A, IsBatch(A), NEW B, IsBatch(B), NEW f, NEW v
  PROVE  /\ EntriesOf(A \o B, f, v) = EntriesOf(A, f, v) \o Moved(EntriesOf(B, f, v), Len(A))
         /\ Cardinality(Holders(A \o B, f, v))
              = Cardinality(Holders(A, f, v)) + Cardinality(Holders(B, f, v))
<1>. DEFINE m == Len(A)
            D == A \o B
            HA == Holders(A, f, v)
            HB == Holders(B, f, v)
            HD == Holders(D, f, v)
            x == EntriesOf(A, f, v)
            y == EntriesOf(B, f, v)
            z == EntriesOf(D, f, v)
            c == Cardinality(HA)
            d == Cardinality(HB)
<1>1. /\ IsBatch(D) /\ m \in Nat
      /\ \A k \in 1 .. m : D[k] = A[k]
      /\ \A k \in 1 .. Len(B) : D[m + k] = B[k]
  <2>1. /\ IsBatch(A \o B) /\ Len(A) \in Nat
        /\ \A k \in 1 .. Len(A) : (A \o B)[k] = A[k]
        /\ \A k \in 1 .. Len(B) : (A \o B)[Len(A) + k] = B[k]
    BY BatchConcat
  <2>. QED BY <2>1
<1>2. HD = HA \union Behind(HB, m)
  BY SetsConcat
<1>3. /\ IsFiniteSet(HA) /\ Numbers(HA) /\ HA \subseteq 0 .. m - 1
      /\ IsFiniteSet(HB) /\ Numbers(HB) /\ HB \subseteq 0 .. Len(B) - 1
  BY BatchSets
<1>4. \A e \in HA : e \in Nat /\ e < m /\ e + 1 \in 1 .. m
  BY <1>1, <1>3
<1>5. \A e \in HB : e \in Nat /\ e + 1 \in 1 .. Len(B) /\ (e + m) + 1 = m + (e + 1)
  <2>1. Len(B) \in Nat
    BY DEF IsBatch
  <2>. QED BY <1>1, <1>3, <2>1
<1>6. /\ x \in Seq(Entry) /\ Len(x) = c /\ c \in Nat
      /\ \A k \in 1 .. c :
           /\ x[k] = [doc |-> Ascending(HA)[k],
                       freq |-> A[Ascending(HA)[k] + 1].fields[f].tokens[v]]
           /\ Ascending(HA)[k] \in HA
  BY EntriesAre
<1>7. /\ y \in Seq(Entry) /\ Len(y) = d /\ d \in Nat
      /\ \A k \in 1 .. d :
           /\ y[k] = [doc |-> Ascending(HB)[k],
                       freq |-> B[Ascending(HB)[k] + 1].fields[f].tokens[v]]
           /\ Ascending(HB)[k] \in HB
  BY EntriesAre
<1>8. /\ z \in Seq(Entry) /\ Len(z) = Cardinality(HD)
      /\ \A k \in 1 .. Len(z) :
           z[k] = [doc |-> Ascending(HD)[k], freq |-> D[Ascending(HD)[k] + 1].fields[f].tokens[v]]
  <2>. HIDE DEF D
  <2>. QED BY <1>1, EntriesAre
<1>. HIDE DEF m, D, HA, HB, HD, x, y, z, c, d
<1>9. /\ Cardinality(HD) = c + d
      /\ \A k \in 1 .. c : Ascending(HD)[k] = Ascending(HA)[k]
      /\ \A k \in 1 .. d : Ascending(HD)[c + k] = Ascending(HB)[k] + m
  <2>1. AllBelow(HA, m)
    BY <1>4 DEF AllBelow
  <2>2. /\ IsFiniteSet(HA) /\ Numbers(HA) /\ IsFiniteSet(HB) /\ Numbers(HB) /\ m \in Nat
    BY <1>1, <1>3
  <2>3. c = Cardinality(HA) /\ d = Cardinality(HB) /\ HD = HA \union Behind(HB, m)
    BY <1>2 DEF c, d
  <2>. QED BY <2>1, <2>2, <2>3, ConcatParts
<1>10. /\ Moved(y, m) \in Seq(Entry) /\ Len(Moved(y, m)) = d
       /\ \A k \in 1 .. d : Moved(y, m)[k] = [doc |-> y[k].doc + m, freq |-> y[k].freq]
  BY <1>1, <1>7, MovedEntries
<1>. DEFINE u == Moved(y, m)
<1>11. /\ x \o u \in Seq(Entry)
       /\ Len(x \o u) = c + d
       /\ \A k \in 1 .. c : (x \o u)[k] = x[k]
       /\ \A k \in 1 .. d : (x \o u)[c + k] = u[k]
  <2>. HIDE DEF u
  <2>1. u \in Seq(Entry) /\ Len(u) = d
    BY <1>10 DEF u
  <2>2. x \in Seq(Entry) /\ u \in Seq(Entry)
    BY <1>6, <2>1
  <2>3. /\ x \o u \in Seq(Entry)
        /\ Len(x \o u) = Len(x) + Len(u)
        /\ \A k \in 1 .. Len(x) : (x \o u)[k] = x[k]
        /\ \A k \in 1 .. Len(u) : (x \o u)[Len(x) + k] = u[k]
    BY <2>2, CatParts
  <2>. QED BY <1>6, <2>1, <2>3
<1>12. \A k \in 1 .. c : z[k] = x[k]
  <2>. SUFFICES ASSUME NEW k \in 1 .. c PROVE z[k] = x[k]
    OBVIOUS
  <2>. DEFINE e == Ascending(HA)[k]
  <2>1. k \in 1 .. Len(z)
    BY <1>6, <1>7, <1>8, <1>9
  <2>2. e \in HA /\ Ascending(HD)[k] = e /\ D[e + 1] = A[e + 1]
    BY <1>1, <1>4, <1>6, <1>9
  <2>. HIDE DEF e
  <2>3. z[k] = [doc |-> e, freq |-> D[e + 1].fields[f].tokens[v]]
    BY <1>8, <2>1, <2>2
  <2>4. x[k] = [doc |-> e, freq |-> A[e + 1].fields[f].tokens[v]]
    BY <1>6 DEF e
  <2>. QED BY <2>2, <2>3, <2>4
<1>13. \A k \in 1 .. d : z[c + k] = u[k]
  <2>. SUFFICES ASSUME NEW k \in 1 .. d PROVE z[c + k] = u[k]
    OBVIOUS
  <2>. DEFINE e == Ascending(HB)[k]
  <2>1. c + k \in 1 .. Len(z)
    BY <1>6, <1>7, <1>8, <1>9
  <2>2. e \in HB /\ Ascending(HD)[c + k] = e + m /\ D[(e + m) + 1] = B[e + 1]
    <3>1. e \in HB /\ Ascending(HD)[c + k] = e + m
      BY <1>7, <1>9
    <3>. HIDE DEF e
    <3>2. e + 1 \in 1 .. Len(B) /\ (e + m) + 1 = m + (e + 1)
      BY <1>5, <3>1
    <3>3. D[m + (e + 1)] = B[e + 1]
      BY <1>1, <3>2
    <3>. QED BY <3>1, <3>2, <3>3
  <2>3. y[k] = [doc |-> e, freq |-> B[e + 1].fields[f].tokens[v]]
    BY <1>7
  <2>. HIDE DEF e
  <2>4. z[c + k] = [doc |-> e + m, freq |-> D[(e + m) + 1].fields[f].tokens[v]]
    BY <1>8, <2>1, <2>2
  <2>5. u[k] = [doc |-> y[k].doc + m, freq |-> y[k].freq]
    BY <1>10
  <2>. HIDE DEF u
  <2>6. y[k].doc = e /\ y[k].freq = B[e + 1].fields[f].tokens[v]
    BY <2>3
  <2>. QED BY <2>2, <2>4, <2>5, <2>6
<1>. HIDE DEF u
<1>14. z = x \o u
  <2>1. Len(z) = Len(x \o u)
    BY <1>8, <1>9, <1>11
  <2>2. \A k \in 1 .. Len(z) : k \in 1 .. c \/ (k - c \in 1 .. d /\ k = c + (k - c))
    BY <1>6, <1>7, <1>8, <1>9
  <2>3. \A k \in 1 .. Len(z) : z[k] = (x \o u)[k]
    BY ZenonT(60), <1>11, <1>12, <1>13, <2>2
  <2>. QED BY <1>8, <1>11, <2>1, <2>3, SameSeq
<1>. QED BY <1>9, <1>14 DEF z, x, u, y, D, m, c, d, HD, HA, HB

(* The same for the lengths of a field.                                    *)
LEMMA LengthsConcat ==
  ASSUME NEW A, IsBatch(A), NEW B, IsBatch(B), NEW f
  PROVE  LengthsOf(A \o B, f) = LengthsOf(A, f) \o Moved(LengthsOf(B, f), Len(A))
<1>. DEFINE m == Len(A)
            D == A \o B
            HA == Lengthy(A, f)
            HB == Lengthy(B, f)
            HD == Lengthy(D, f)
            x == LengthsOf(A, f)
            y == LengthsOf(B, f)
            z == LengthsOf(D, f)
            c == Cardinality(HA)
            d == Cardinality(HB)
<1>1. /\ IsBatch(D) /\ m \in Nat
      /\ \A k \in 1 .. m : D[k] = A[k]
      /\ \A k \in 1 .. Len(B) : D[m + k] = B[k]
  <2>1. /\ IsBatch(A \o B) /\ Len(A) \in Nat
        /\ \A k \in 1 .. Len(A) : (A \o B)[k] = A[k]
        /\ \A k \in 1 .. Len(B) : (A \o B)[Len(A) + k] = B[k]
    BY BatchConcat
  <2>. QED BY <2>1
<1>2. HD = HA \union Behind(HB, m)
  BY SetsConcat
<1>3. /\ IsFiniteSet(HA) /\ Numbers(HA) /\ HA \subseteq 0 .. m - 1
      /\ IsFiniteSet(HB) /\ Numbers(HB) /\ HB \subseteq 0 .. Len(B) - 1
  BY LengthySets
<1>4. \A e \in HA : e \in Nat /\ e < m /\ e + 1 \in 1 .. m
  BY <1>1, <1>3
<1>5. \A e \in HB : e \in Nat /\ e + 1 \in 1 .. Len(B) /\ (e + m) + 1 = m + (e + 1)
  <2>1. Len(B) \in Nat
    BY DEF IsBatch
  <2>. QED BY <1>1, <1>3, <2>1
<1>6. c \in Nat /\ d \in Nat
  BY <1>3, FS_CardinalityType
<1>7. /\ x \in Seq(LengthEntry) /\ Len(x) = c
      /\ \A k \in 1 .. c :
           /\ x[k] = [doc |-> Ascending(HA)[k], length |-> A[Ascending(HA)[k] + 1].fields[f].length]
           /\ Ascending(HA)[k] \in HA
  BY LengthsAre
<1>8. /\ y \in Seq(LengthEntry) /\ Len(y) = d
      /\ \A k \in 1 .. d :
           /\ y[k] = [doc |-> Ascending(HB)[k], length |-> B[Ascending(HB)[k] + 1].fields[f].length]
           /\ Ascending(HB)[k] \in HB
  BY LengthsAre
<1>9. /\ z \in Seq(LengthEntry) /\ Len(z) = Cardinality(HD)
      /\ \A k \in 1 .. Len(z) :
           z[k] = [doc |-> Ascending(HD)[k], length |-> D[Ascending(HD)[k] + 1].fields[f].length]
  <2>. HIDE DEF D
  <2>. QED BY <1>1, LengthsAre
<1>. HIDE DEF m, D, HA, HB, HD, x, y, z, c, d
<1>10. /\ Cardinality(HD) = c + d
       /\ \A k \in 1 .. c : Ascending(HD)[k] = Ascending(HA)[k]
       /\ \A k \in 1 .. d : Ascending(HD)[c + k] = Ascending(HB)[k] + m
  <2>1. AllBelow(HA, m)
    BY <1>4 DEF AllBelow
  <2>2. /\ IsFiniteSet(HA) /\ Numbers(HA) /\ IsFiniteSet(HB) /\ Numbers(HB) /\ m \in Nat
    BY <1>1, <1>3
  <2>3. c = Cardinality(HA) /\ d = Cardinality(HB) /\ HD = HA \union Behind(HB, m)
    BY <1>2 DEF c, d
  <2>. QED BY <2>1, <2>2, <2>3, ConcatParts
<1>11. /\ Moved(y, m) \in Seq(LengthEntry) /\ Len(Moved(y, m)) = d
       /\ \A k \in 1 .. d : Moved(y, m)[k] = [doc |-> y[k].doc + m, length |-> y[k].length]
  BY <1>1, <1>8, MovedLengths
<1>. DEFINE u == Moved(y, m)
<1>12. /\ x \o u \in Seq(LengthEntry)
       /\ Len(x \o u) = c + d
       /\ \A k \in 1 .. c : (x \o u)[k] = x[k]
       /\ \A k \in 1 .. d : (x \o u)[c + k] = u[k]
  <2>. HIDE DEF u
  <2>1. u \in Seq(LengthEntry) /\ Len(u) = d
    BY <1>11 DEF u
  <2>2. x \in Seq(LengthEntry) /\ u \in Seq(LengthEntry)
    BY <1>7, <2>1
  <2>3. /\ x \o u \in Seq(LengthEntry)
        /\ Len(x \o u) = Len(x) + Len(u)
        /\ \A k \in 1 .. Len(x) : (x \o u)[k] = x[k]
        /\ \A k \in 1 .. Len(u) : (x \o u)[Len(x) + k] = u[k]
    BY <2>2, CatParts
  <2>. QED BY <1>7, <2>1, <2>3
<1>13. \A k \in 1 .. c : z[k] = x[k]
  <2>. SUFFICES ASSUME NEW k \in 1 .. c PROVE z[k] = x[k]
    OBVIOUS
  <2>. DEFINE e == Ascending(HA)[k]
  <2>1. k \in 1 .. Len(z)
    BY <1>6, <1>9, <1>10
  <2>2. e \in HA /\ Ascending(HD)[k] = e /\ D[e + 1] = A[e + 1]
    BY <1>1, <1>4, <1>7, <1>10
  <2>. HIDE DEF e
  <2>3. z[k] = [doc |-> e, length |-> D[e + 1].fields[f].length]
    BY <1>9, <2>1, <2>2
  <2>4. x[k] = [doc |-> e, length |-> A[e + 1].fields[f].length]
    BY <1>7 DEF e
  <2>. QED BY <2>2, <2>3, <2>4
<1>14. \A k \in 1 .. d : z[c + k] = u[k]
  <2>. SUFFICES ASSUME NEW k \in 1 .. d PROVE z[c + k] = u[k]
    OBVIOUS
  <2>. DEFINE e == Ascending(HB)[k]
  <2>1. c + k \in 1 .. Len(z)
    BY <1>6, <1>9, <1>10
  <2>2. e \in HB /\ Ascending(HD)[c + k] = e + m /\ D[(e + m) + 1] = B[e + 1]
    <3>1. e \in HB /\ Ascending(HD)[c + k] = e + m
      BY <1>8, <1>10
    <3>. HIDE DEF e
    <3>2. e + 1 \in 1 .. Len(B) /\ (e + m) + 1 = m + (e + 1)
      BY <1>5, <3>1
    <3>3. D[m + (e + 1)] = B[e + 1]
      BY <1>1, <3>2
    <3>. QED BY <3>1, <3>2, <3>3
  <2>3. y[k] = [doc |-> e, length |-> B[e + 1].fields[f].length]
    BY <1>8
  <2>. HIDE DEF e
  <2>4. z[c + k] = [doc |-> e + m, length |-> D[(e + m) + 1].fields[f].length]
    BY <1>9, <2>1, <2>2
  <2>5. u[k] = [doc |-> y[k].doc + m, length |-> y[k].length]
    BY <1>11
  <2>. HIDE DEF u
  <2>6. y[k].doc = e /\ y[k].length = B[e + 1].fields[f].length
    BY <2>3
  <2>. QED BY <2>2, <2>4, <2>5, <2>6
<1>. HIDE DEF u
<1>15. z = x \o u
  <2>1. Len(z) = Len(x \o u)
    BY <1>9, <1>10, <1>12
  <2>2. \A k \in 1 .. Len(z) : k \in 1 .. c \/ (k - c \in 1 .. d /\ k = c + (k - c))
    BY <1>6, <1>9, <1>10
  <2>3. \A k \in 1 .. Len(z) : z[k] = (x \o u)[k]
    BY ZenonT(60), <1>12, <1>13, <1>14, <2>2
  <2>. QED BY <1>9, <1>12, <2>1, <2>3, SameSeq
<1>. QED BY <1>15 DEF z, x, u, y, D, m

-----------------------------------------------------------------------------
(* F has the first n sequences of q, one after the other.                  *)
Placed(F, q, n) ==
  /\ Len(F) = Total(Lens(q), n)
  /\ \A m \in 1 .. n : \A k \in 1 .. Len(q[m]) : F[Total(Lens(q), m - 1) + k] = q[m][k]

(* The next sequence of q takes its place at the end.                      *)
LEMMA PlacedStep ==
  ASSUME NEW V, NEW F \in Seq(V), NEW q \in Seq(Seq(V)),
         NEW n \in Nat, n + 1 \in 1 .. Len(q), Placed(F, q, n)
  PROVE  F \o q[n + 1] \in Seq(V) /\ Placed(F \o q[n + 1], q, n + 1)
<1>. DEFINE w == Lens(q)
            x == q[n + 1]
            G == F \o x
<1>1. /\ w \in Seq(Nat) /\ Len(w) = Len(q) /\ \A m \in 1 .. Len(q) : w[m] = Len(q[m])
  BY LensAre
<1>2. Len(q) \in Nat /\ x \in Seq(V) /\ \A m \in 1 .. Len(q) : q[m] \in Seq(V)
  OBVIOUS
<1>3. /\ G \in Seq(V) /\ Len(G) = Len(F) + Len(x)
      /\ \A m \in 1 .. Len(F) : G[m] = F[m]
      /\ \A m \in 1 .. Len(x) : G[Len(F) + m] = x[m]
  <2>. HIDE DEF x
  <2>. QED BY <1>2, CatParts
<1>4. /\ Len(F) = Total(w, n)
      /\ \A m \in 1 .. n : \A k \in 1 .. Len(q[m]) : F[Total(w, m - 1) + k] = q[m][k]
  BY DEF Placed
<1>5. /\ \A m \in 0 .. Len(q) : Total(w, m) \in Nat
      /\ \A m \in 1 .. Len(q) : Total(w, m) = Total(w, m - 1) + w[m]
  BY <1>1, TotalSteps
<1>. HIDE DEF w, G, x
<1>6. Len(G) = Total(w, n + 1)
  <2>1. Total(w, n + 1) = Total(w, (n + 1) - 1) + w[n + 1] /\ w[n + 1] = Len(x)
    BY <1>1, <1>5 DEF x
  <2>2. (n + 1) - 1 = n
    OBVIOUS
  <2>. QED BY <1>3, <1>4, <2>1, <2>2
<1>7. ASSUME NEW m \in 1 .. n, NEW k \in 1 .. Len(q[m])
      PROVE  G[Total(w, m - 1) + k] = q[m][k]
  <2>1. m \in 1 .. Len(q) /\ m - 1 \in 0 .. Len(q) /\ m \in Nat /\ m <= n /\ n <= Len(w)
    BY SMTT(30), <1>1, <1>2
  <2>2. Total(w, m) <= Total(w, n)
    BY <1>1, <2>1, TotalGrows
  <2>3. Total(w, m) = Total(w, m - 1) + Len(q[m]) /\ Total(w, m - 1) \in Nat
        /\ Len(q[m]) \in Nat
    <3>1. q[m] \in Seq(V)
      BY <1>2, <2>1
    <3>2. Len(q[m]) \in Nat
      BY <3>1
    <3>3. Total(w, m) = Total(w, m - 1) + w[m] /\ w[m] = Len(q[m])
      BY <1>1, <1>5, <2>1
    <3>. QED BY <1>5, <2>1, <3>2, <3>3
  <2>. DEFINE t == Total(w, m - 1)
              l == Len(q[m])
              e == Total(w, n)
              u == Total(w, m)
  <2>4. t \in Nat /\ l \in Nat /\ u = t + l /\ u <= e /\ k \in 1 .. l /\ e = Len(F) /\ e \in Nat
    BY <1>4, <2>2, <2>3
  <2>5. t + k \in 1 .. Len(F)
    <3>. HIDE DEF t, l, e, u
    <3>. QED BY <2>4
  <2>. HIDE DEF t
  <2>6. F[t + k] = q[m][k]
    BY <1>4 DEF t
  <2>. QED BY <1>3, <2>5, <2>6 DEF t
<1>8. ASSUME NEW k \in 1 .. Len(x)
      PROVE  G[Total(w, n) + k] = x[k]
  BY <1>3, <1>4
<1>9. \A m \in 1 .. n + 1 : \A k \in 1 .. Len(q[m]) : G[Total(w, m - 1) + k] = q[m][k]
  <2>. SUFFICES ASSUME NEW m \in 1 .. n + 1, NEW k \in 1 .. Len(q[m])
                PROVE  G[Total(w, m - 1) + k] = q[m][k]
    OBVIOUS
  <2>1. CASE m \in 1 .. n
    BY <1>7, <2>1
  <2>2. CASE m = n + 1
    <3>1. m - 1 = n
      BY <2>2
    <3>. QED BY <1>8, <2>2, <3>1 DEF x
  <2>3. m \in 1 .. n \/ m = n + 1
    OBVIOUS
  <2>. QED BY <2>1, <2>2, <2>3
<1>. QED BY <1>3, <1>6, <1>9 DEF Placed, w, G, x

(* With all of them it is FlattenSeq(q).                                   *)
LEMMA PlacedAll ==
  ASSUME NEW V, NEW F \in Seq(V), NEW q \in Seq(Seq(V)), Placed(F, q, Len(q))
  PROVE  F = FlattenSeq(q)
<1>. DEFINE w == Lens(q)
            G == FlattenSeq(q)
<1>1. /\ w \in Seq(Nat) /\ Len(w) = Len(q) /\ \A m \in 1 .. Len(q) : w[m] = Len(q[m])
  BY LensAre
<1>2. /\ G \in Seq(V) /\ Len(G) = Total(w, Len(q))
      /\ \A n \in 1 .. Len(q) : \A k \in 1 .. Len(q[n]) : G[Total(w, n - 1) + k] = q[n][k]
  BY FlattenPlaces
<1>3. /\ Len(F) = Total(w, Len(q))
      /\ \A n \in 1 .. Len(q) : \A k \in 1 .. Len(q[n]) : F[Total(w, n - 1) + k] = q[n][k]
  BY DEF Placed
<1>. HIDE DEF w, G
<1>4. \A p \in 1 .. Len(F) : F[p] = G[p]
  <2>. SUFFICES ASSUME NEW p \in 1 .. Len(F) PROVE F[p] = G[p]
    OBVIOUS
  <2>1. p \in Nat /\ 1 <= p /\ p <= Total(w, Len(w))
    BY <1>1, <1>3
  <2>2. \E n \in 1 .. Len(w) : \E k \in 1 .. w[n] : p = Total(w, n - 1) + k
    BY <1>1, <2>1, Located
  <2>3. PICK n \in 1 .. Len(q) : \E k \in 1 .. Len(q[n]) : p = Total(w, n - 1) + k
    BY <1>1, <2>2
  <2>. QED BY <1>2, <1>3, <2>3
<1>5. Len(F) = Len(G)
  BY <1>2, <1>3
<1>. QED BY <1>2, <1>4, <1>5, SameSeq DEF G

(* The sequences behind the first n do not matter.                         *)
LEMMA PlacedSame ==
  ASSUME NEW V, NEW F, NEW q \in Seq(Seq(V)), NEW r \in Seq(Seq(V)),
         NEW n \in Nat, n <= Len(q), n <= Len(r), \A m \in 1 .. n : q[m] = r[m],
         Placed(F, q, n)
  PROVE  Placed(F, r, n)
<1>1. /\ Lens(q) \in Seq(Nat) /\ Len(Lens(q)) = Len(q)
      /\ \A m \in 1 .. Len(q) : Lens(q)[m] = Len(q[m])
  BY LensAre
<1>2. /\ Lens(r) \in Seq(Nat) /\ Len(Lens(r)) = Len(r)
      /\ \A m \in 1 .. Len(r) : Lens(r)[m] = Len(r[m])
  BY LensAre
<1>3. ASSUME NEW m \in Nat, m <= n PROVE Total(Lens(q), m) = Total(Lens(r), m)
  <2>1. Len(q) \in Nat /\ Len(r) \in Nat
    OBVIOUS
  <2>2. m <= Len(Lens(q)) /\ m <= Len(Lens(r))
    BY <1>1, <1>2, <1>3, <2>1
  <2>3. \A k \in 1 .. m : k \in 1 .. n /\ k \in 1 .. Len(q) /\ k \in 1 .. Len(r)
    BY <1>3, <2>1
  <2>4. \A k \in 1 .. m : Lens(q)[k] = Lens(r)[k]
    BY <1>1, <1>2, <2>3
  <2>. QED BY <1>1, <1>2, <2>2, <2>4, TotalSame
<1>4. Total(Lens(q), n) = Total(Lens(r), n)
  BY <1>3
<1>5. \A m \in 1 .. n : Total(Lens(q), m - 1) = Total(Lens(r), m - 1)
  BY <1>3
<1>. QED BY <1>4, <1>5 DEF Placed

-----------------------------------------------------------------------------
(* Another field at the end of the order leaves the cells before it where  *)
(* they are.                                                               *)
LEMMA CellsExtend ==
  ASSUME NEW docs, IsBatch(docs), NEW order \in Seq(FieldsOf(docs)), NEW g \in FieldsOf(docs)
  PROVE  LET more == Append(order, g)
             N == Len(Cells(docs, order))
         IN  /\ more \in Seq(FieldsOf(docs)) /\ Len(more) = Len(order) + 1
             /\ \A m \in 1 .. Len(order) : more[m] = order[m]
             /\ more[Len(order) + 1] = g
             /\ \A m \in 1 .. Len(order) + 1 : Before(docs, more, m) = Before(docs, order, m)
             /\ N \in Nat
             /\ Before(docs, more, Len(order) + 1) = N
             /\ N <= Len(Cells(docs, more))
             /\ \A p \in 1 .. N : CellEntries(docs, more)[p] = CellEntries(docs, order)[p]
<1>. DEFINE more == Append(order, g)
            n == Len(order)
            c(f) == Cardinality(ValuesOf(docs, f))
            x == Lens(Rows(docs, order))
            y == Lens(Rows(docs, more))
            C == Cells(docs, order)
            D == Cells(docs, more)
            N == Len(C)
<1>1. /\ n \in Nat /\ more \in Seq(FieldsOf(docs)) /\ Len(more) = n + 1
      /\ \A m \in 1 .. n : more[m] = order[m]
      /\ more[n + 1] = g
  OBVIOUS
<1>. HIDE DEF more
<1>2. /\ C \in Seq(Cell(docs))
      /\ Len(C) = Total(x, n)
      /\ \A m \in 1 .. n : x[m] = c(order[m])
      /\ \A p \in 1 .. Len(C) :
           \E m \in 1 .. n : \E k \in 1 .. c(order[m]) : p = Total(x, m - 1) + k
      /\ \A m \in 1 .. n : \A k \in 1 .. c(order[m]) :
           C[Total(x, m - 1) + k] = [f |-> order[m], v |-> Ascending(ValuesOf(docs, order[m]))[k]]
  BY CellsAre DEF Before
<1>3. /\ D \in Seq(Cell(docs))
      /\ Len(D) = Total(y, n + 1)
      /\ \A m \in 1 .. n + 1 : y[m] = c(more[m])
      /\ \A m \in 1 .. n + 1 : \A k \in 1 .. c(more[m]) :
           /\ Total(y, m - 1) + k \in 1 .. Len(D)
           /\ D[Total(y, m - 1) + k] = [f |-> more[m], v |-> Ascending(ValuesOf(docs, more[m]))[k]]
  <2>1. /\ D \in Seq(Cell(docs))
        /\ Len(D) = Total(y, Len(more))
        /\ \A m \in 1 .. Len(more) : y[m] = c(more[m])
    BY <1>1, CellsAre
  <2>2. \A m \in 1 .. Len(more) : \A k \in 1 .. c(more[m]) :
           /\ Total(y, m - 1) + k \in 1 .. Len(D)
           /\ D[Total(y, m - 1) + k]
                = [f |-> more[m], v |-> Ascending(ValuesOf(docs, more[m]))[k]]
    <3>1. more \in Seq(FieldsOf(docs))
      BY <1>1
    <3>2. \A r \in Seq(FieldsOf(docs)) :
            \A m \in 1 .. Len(r) : \A k \in 1 .. Cardinality(ValuesOf(docs, r[m])) :
               /\ Before(docs, r, m) + k \in 1 .. Len(Cells(docs, r))
               /\ Cells(docs, r)[Before(docs, r, m) + k]
                    = [f |-> r[m], v |-> Ascending(ValuesOf(docs, r[m]))[k]]
      BY ONLY IsBatch(docs), CellsAre
    <3>3. \A m \in 1 .. Len(more) : \A k \in 1 .. Cardinality(ValuesOf(docs, more[m])) :
             /\ Before(docs, more, m) + k \in 1 .. Len(Cells(docs, more))
             /\ Cells(docs, more)[Before(docs, more, m) + k]
                  = [f |-> more[m], v |-> Ascending(ValuesOf(docs, more[m]))[k]]
      BY <3>1, <3>2
    <3>. QED BY <3>3 DEF Before
  <2>. HIDE DEF D, y, c, n
  <2>. QED BY <1>1, <2>1, <2>2
<1>4. x \in Seq(Nat) /\ Len(x) = n
  <2>1. Rows(docs, order) \in Seq(Seq(Cell(docs))) /\ Len(Rows(docs, order)) = n
    BY CellsAre
  <2>. QED BY <2>1, LensAre
<1>5. y \in Seq(Nat) /\ Len(y) = n + 1
  <2>1. Rows(docs, more) \in Seq(Seq(Cell(docs))) /\ Len(Rows(docs, more)) = n + 1
    BY <1>1, CellsAre
  <2>. QED BY <2>1, LensAre
<1>. HIDE DEF x, y, C, D, n, c
<1>6. \A m \in Nat : m <= n => Total(x, m) = Total(y, m)
  <2>. SUFFICES ASSUME NEW m \in Nat, m <= n PROVE Total(x, m) = Total(y, m)
    OBVIOUS
  <2>1. m <= Len(x) /\ m <= Len(y)
    BY <1>1, <1>4, <1>5
  <2>2. \A k \in 1 .. m : k \in 1 .. n /\ k \in 1 .. n + 1
    BY <1>1
  <2>3. \A k \in 1 .. m : x[k] = y[k]
    BY <1>1, <1>2, <1>3, <2>2
  <2>. QED BY <1>4, <1>5, <2>1, <2>3, TotalSame
<1>7. \A m \in 1 .. n + 1 : Total(x, m - 1) = Total(y, m - 1)
  BY <1>1, <1>6
<1>8. N \in Nat /\ N = Total(y, n) /\ Total(y, n) <= Total(y, n + 1)
  <2>1. N = Total(x, n)
    BY <1>2
  <2>2. N \in Nat
    BY <1>2
  <2>3. n <= n + 1 /\ n + 1 <= Len(y) /\ n + 1 \in Nat
    BY <1>1, <1>5
  <2>4. Total(y, n) <= Total(y, n + 1)
    BY <1>1, <1>5, <2>3, TotalGrows
  <2>. QED BY <1>1, <1>6, <2>1, <2>2, <2>4
<1>9. N <= Len(D)
  BY <1>3, <1>8
<1>10. \A p \in 1 .. N : C[p] = D[p]
  <2>. SUFFICES ASSUME NEW p \in 1 .. N PROVE C[p] = D[p]
    OBVIOUS
  <2>1. PICK m \in 1 .. n : \E k \in 1 .. c(order[m]) : p = Total(x, m - 1) + k
    BY <1>2
  <2>2. PICK k \in 1 .. c(order[m]) : p = Total(x, m - 1) + k
    BY <2>1
  <2>3. m \in 1 .. n + 1 /\ more[m] = order[m]
    BY <1>1
  <2>4. C[p] = [f |-> order[m], v |-> Ascending(ValuesOf(docs, order[m]))[k]]
    BY <1>2, <2>2
  <2>5. D[p] = [f |-> order[m], v |-> Ascending(ValuesOf(docs, order[m]))[k]]
    <3>1. k \in 1 .. c(more[m]) /\ p = Total(y, m - 1) + k
      BY <1>7, <2>2, <2>3
    <3>2. D[Total(y, m - 1) + k] = [f |-> more[m], v |-> Ascending(ValuesOf(docs, more[m]))[k]]
      BY <1>3, <2>3, <3>1
    <3>. QED BY <2>3, <3>1, <3>2
  <2>. QED BY <2>4, <2>5
<1>11. \A p \in 1 .. N : CellEntries(docs, more)[p] = CellEntries(docs, order)[p]
  <2>1. DOMAIN C = 1 .. N /\ DOMAIN D = 1 .. Len(D) /\ Len(D) \in Nat
    BY <1>2, <1>3
  <2>2. \A p \in 1 .. N : p \in DOMAIN C /\ p \in DOMAIN D
    BY <1>8, <1>9, <2>1
  <2>. QED BY <1>10, <2>2 DEF CellEntries, C, D
<1>12. Before(docs, more, n + 1) = N
  BY <1>1, <1>8 DEF Before, y
<1>. HIDE DEF N
<1>13. \A m \in 1 .. n + 1 : Before(docs, more, m) = Before(docs, order, m)
  BY <1>7 DEF Before, x, y
<1>. QED BY <1>1, <1>8, <1>9, <1>11, <1>12, <1>13 DEF more, n, N, C, D

-----------------------------------------------------------------------------
(* The values of a field, ascending.                                       *)
Vals(docs, f) == Ascending(ValuesOf(docs, f))

(***************************************************************************)
(* The orders of the fields.                                               *)
(***************************************************************************)
Once(s, S) == /\ s \in Seq(S)
              /\ \A i, j \in 1 .. Len(s) : s[i] = s[j] => i = j
              /\ \A f \in S : \E i \in 1 .. Len(s) : s[i] = f

(* Another field at the end of such a sequence.                            *)
LEMMA OnceMore ==
  ASSUME NEW S, NEW s, Once(s, S), NEW g, g \notin S
  PROVE  Once(Append(s, g), S \union {g})
<1>. DEFINE U == S \union {g}
            t == Append(s, g)
<1>1. s \in Seq(S) /\ Len(s) \in Nat /\ \A i \in 1 .. Len(s) : s[i] \in S
  BY DEF Once
<1>2. s \in Seq(U)
  BY <1>1
<1>3. /\ t \in Seq(U) /\ Len(t) = Len(s) + 1
      /\ \A i \in 1 .. Len(s) : t[i] = s[i]
      /\ t[Len(s) + 1] = g
  BY <1>2, AppendProperties
<1>. HIDE DEF t
<1>4. ASSUME NEW i \in 1 .. Len(t), NEW j \in 1 .. Len(t), t[i] = t[j] PROVE i = j
  <2>1. /\ i \in 1 .. Len(s) \/ i = Len(s) + 1
        /\ j \in 1 .. Len(s) \/ j = Len(s) + 1
    BY <1>1, <1>3
  <2>2. CASE i \in 1 .. Len(s) /\ j \in 1 .. Len(s)
    BY <1>3, <1>4, <2>2 DEF Once
  <2>3. CASE i \in 1 .. Len(s) /\ j = Len(s) + 1
    BY <1>1, <1>3, <1>4, <2>3
  <2>4. CASE i = Len(s) + 1 /\ j \in 1 .. Len(s)
    BY <1>1, <1>3, <1>4, <2>4
  <2>. QED BY <2>1, <2>2, <2>3, <2>4
<1>5. ASSUME NEW f \in U PROVE \E i \in 1 .. Len(t) : t[i] = f
  <2>1. CASE f = g
    BY <1>1, <1>3, <2>1
  <2>2. CASE f \in S
    <3>1. PICK i \in 1 .. Len(s) : s[i] = f
      BY <2>2 DEF Once
    <3>. QED BY <1>1, <1>3, <3>1
  <2>. QED BY <2>1, <2>2
<1>. QED BY <1>3, <1>4, <1>5 DEF Once, t

(* Two of them with no common field, one after the other.                  *)
LEMMA OnceBoth ==
  ASSUME NEW S, NEW s, Once(s, S), NEW T, NEW t, Once(t, T), S \intersect T = {}
  PROVE  Once(s \o t, S \union T)
<1>. DEFINE U == S \union T
            u == s \o t
<1>1. /\ s \in Seq(S) /\ Len(s) \in Nat /\ \A i \in 1 .. Len(s) : s[i] \in S
      /\ t \in Seq(T) /\ Len(t) \in Nat /\ \A i \in 1 .. Len(t) : t[i] \in T
  BY DEF Once
<1>2. s \in Seq(U) /\ t \in Seq(U)
  BY <1>1
<1>3. /\ u \in Seq(U) /\ Len(u) = Len(s) + Len(t)
      /\ \A i \in 1 .. Len(s) : u[i] = s[i]
      /\ \A i \in 1 .. Len(t) : u[Len(s) + i] = t[i]
  BY <1>2, CatParts
<1>. HIDE DEF u
<1>4. ASSUME NEW i \in 1 .. Len(u)
      PROVE  \/ i \in 1 .. Len(s)
             \/ i - Len(s) \in 1 .. Len(t) /\ u[i] = t[i - Len(s)]
  <2>1. CASE i <= Len(s)
    BY <1>1, <1>3, <2>1
  <2>2. CASE i > Len(s)
    <3>1. i - Len(s) \in 1 .. Len(t) /\ Len(s) + (i - Len(s)) = i
      BY <1>1, <1>3, <2>2
    <3>. QED BY <1>3, <3>1
  <2>. QED BY <1>1, <2>1, <2>2
<1>5. ASSUME NEW i \in 1 .. Len(u), NEW j \in 1 .. Len(u), u[i] = u[j] PROVE i = j
  <2>1. CASE i \in 1 .. Len(s) /\ j \in 1 .. Len(s)
    BY <1>3, <1>5, <2>1 DEF Once
  <2>2. CASE i \notin 1 .. Len(s) /\ j \notin 1 .. Len(s)
    <3>. DEFINE m == i - Len(s)
                n == j - Len(s)
    <3>1. m \in 1 .. Len(t) /\ n \in 1 .. Len(t) /\ t[m] = t[n]
      BY <1>4, <1>5, <2>2
    <3>2. m = n
      <4>. HIDE DEF m, n
      <4>. QED BY <3>1 DEF Once
    <3>. QED BY <1>1, <1>3, <3>2
  <2>3. CASE i \in 1 .. Len(s) /\ j \notin 1 .. Len(s)
    BY <1>1, <1>3, <1>4, <1>5, <2>3
  <2>4. CASE i \notin 1 .. Len(s) /\ j \in 1 .. Len(s)
    BY <1>1, <1>3, <1>4, <1>5, <2>4
  <2>. QED BY <2>1, <2>2, <2>3, <2>4
<1>6. ASSUME NEW f \in U PROVE \E i \in 1 .. Len(u) : u[i] = f
  <2>1. CASE f \in S
    <3>1. PICK i \in 1 .. Len(s) : s[i] = f
      BY <2>1 DEF Once
    <3>. QED BY <1>1, <1>3, <3>1
  <2>2. CASE f \in T
    <3>1. PICK i \in 1 .. Len(t) : t[i] = f
      BY <2>2 DEF Once
    <3>2. Len(s) + i \in 1 .. Len(u)
      BY <1>1, <1>3
    <3>. QED BY <1>3, <3>1, <3>2
  <2>. QED BY <2>1, <2>2
<1>. QED BY <1>3, <1>5, <1>6 DEF Once, u

(* Such a sequence is one of the orders LaidOut is defined for.            *)
LEMMA OnceOrders ==
  ASSUME NEW S, IsFiniteSet(S), NEW s, Once(s, S)
  PROVE  s \in SetToSeqs(S)
<1>. DEFINE N == Len(s)
<1>1. N \in Nat /\ s \in [1 .. N -> S]
  BY DEF Once
<1>2. s \in Bijection(1 .. N, S)
  BY <1>1 DEF Once, Bijection, Injection, Surjection, IsInjective
<1>3. IsFiniteSet(1 .. N) /\ Cardinality(1 .. N) = N
  <2>1. IsFiniteSet(1 .. N) /\ Cardinality(1 .. N) = IF 1 > N THEN 0 ELSE N - 1 + 1
    BY SMTT(30), <1>1, FS_Interval
  <2>. QED BY <1>1, <2>1
<1>4. Cardinality(S) = N
  <2>1. ExistsBijection(1 .. N, S)
    BY <1>2 DEF ExistsBijection
  <2>. QED BY <1>3, <2>1, FS_Bijection
<1>. HIDE DEF N
<1>5. s \in [1 .. Cardinality(S) -> S]
  BY <1>1, <1>4
<1>6. \A i, j \in 1 .. Cardinality(S) : i # j => s[i] # s[j]
  BY <1>4 DEF Once, N
<1>. QED BY <1>5, <1>6 DEF SetToSeqs

(* Concatenation is associative.                                           *)
LEMMA CatAssociates ==
  ASSUME NEW V, NEW x \in Seq(V), NEW y \in Seq(V), NEW z \in Seq(V)
  PROVE  (x \o y) \o z = x \o (y \o z)
<1>1. /\ x \o y \in Seq(V) /\ Len(x \o y) = Len(x) + Len(y)
      /\ y \o z \in Seq(V) /\ Len(y \o z) = Len(y) + Len(z)
  BY CatParts
<1>. DEFINE p == (x \o y) \o z
            q == x \o (y \o z)
<1>2. p \in Seq(V) /\ q \in Seq(V) /\ Len(p) = Len(q)
  BY <1>1
<1>3. \A k \in 1 .. Len(p) : p[k] = q[k]
  BY <1>1
<1>. HIDE DEF p, q
<1>4. p = q
  BY <1>2, <1>3, SameSeq
<1>. QED BY <1>4 DEF p, q

(***************************************************************************)
(* The header of a field block.                                            *)
(***************************************************************************)
(* How many documents have each of the values of a field, and their sum.   *)
HolderCounts(docs, f) ==
  [k \in 1 .. Cardinality(ValuesOf(docs, f)) |->
     Cardinality(Holders(docs, f, Ascending(ValuesOf(docs, f))[k]))]
Occurrences(docs, f) == Total(HolderCounts(docs, f), Cardinality(ValuesOf(docs, f)))

(* They are numbers, one for each value.                                   *)
LEMMA HolderCountsAre ==
  ASSUME NEW docs, IsBatch(docs), NEW f
  PROVE  /\ HolderCounts(docs, f) \in Seq(Nat)
         /\ Len(HolderCounts(docs, f)) = Cardinality(ValuesOf(docs, f))
         /\ Cardinality(ValuesOf(docs, f)) \in Nat
         /\ \A k \in 1 .. Cardinality(ValuesOf(docs, f)) :
              HolderCounts(docs, f)[k] = Cardinality(Holders(docs, f, Vals(docs, f)[k]))
<1>. DEFINE n == Cardinality(ValuesOf(docs, f))
            c(k) == Cardinality(Holders(docs, f, Ascending(ValuesOf(docs, f))[k]))
            w == HolderCounts(docs, f)
<1>1. n \in Nat
  BY ValuesListed
<1>2. \A v : Cardinality(Holders(docs, f, v)) \in Nat
  BY EntriesAre
<1>3. \A k \in 1 .. n : c(k) \in Nat
  BY <1>2
<1>4. w = [k \in 1 .. n |-> c(k)]
  BY DEF HolderCounts
<1>. HIDE DEF n, c, w
<1>5. w \in [1 .. n -> Nat] /\ \A k \in 1 .. n : w[k] = c(k)
  BY <1>3, <1>4
<1>6. w \in Seq(Nat) /\ Len(w) = n
  BY <1>1, <1>5, FunctionIsSeq
<1>. QED BY <1>1, <1>5, <1>6 DEF n, c, w, Vals

(* What a storage says of a field it has.                                  *)
FieldSays(s, docs, f) ==
  /\ Len(s.fields[f].tokens) = Cardinality(ValuesOf(docs, f))
  /\ s.fields[f].lengths = LengthsOf(docs, f)
  /\ s.fields[f].total = LengthSum(LengthsOf(docs, f))
  /\ s.fields[f].avg = Average(LengthSum(LengthsOf(docs, f)), Len(LengthsOf(docs, f)))
  /\ s.fields[f].occurrences = Occurrences(docs, f)

(* That is what it means that the storage indexes the field.               *)
LEMMA FieldIndexSays ==
  ASSUME NEW s, NEW docs, IsBatch(docs), NEW f, IndexesField(s, docs, f),
         s.fields[f].tokens \in Seq(Token)
  PROVE  FieldSays(s, docs, f)
<1>. DEFINE ts == s.fields[f].tokens
            w == HolderCounts(docs, f)
            n == Cardinality(ValuesOf(docs, f))
            A == Ascending(ValuesOf(docs, f))
<1>1. /\ [k \in DOMAIN ts |-> ts[k].value] = A
      /\ \A k \in DOMAIN ts : ts[k].count = Cardinality(Holders(docs, f, ts[k].value))
      /\ s.fields[f].lengths = LengthsOf(docs, f)
      /\ s.fields[f].total = LengthSum(LengthsOf(docs, f))
      /\ s.fields[f].avg = Average(LengthSum(LengthsOf(docs, f)), Len(LengthsOf(docs, f)))
      /\ s.fields[f].occurrences = CountSum(ts)
  BY DEF IndexesField
<1>2. /\ w \in Seq(Nat) /\ Len(w) = n /\ n \in Nat
      /\ \A k \in 1 .. n : w[k] = Cardinality(Holders(docs, f, A[k]))
  BY HolderCountsAre DEF Vals
<1>3. Len(A) = n
  BY ValuesListed
<1>4. ts \in Seq(Token)
  OBVIOUS
<1>. HIDE DEF ts, w, n, A
<1>5. DOMAIN ts = 1 .. Len(ts) /\ Len(ts) \in Nat
  BY <1>4
<1>6. Len(ts) = n /\ \A k \in 1 .. n : A[k] = ts[k].value
  BY <1>1, <1>3, <1>5
<1>7. \A k \in 1 .. n : ts[k].count = w[k]
  BY <1>1, <1>2, <1>5, <1>6
<1>8. CountSum(ts) = Total(w, Len(w))
  BY <1>2, <1>5, <1>6, <1>7, CountsSum
<1>. QED BY <1>1, <1>2, <1>6, <1>8 DEF FieldSays, Occurrences, ts, w, n

(* What both storages say of a field that no document has.                 *)
LEMMA AbsentField ==
  ASSUME NEW docs, IsBatch(docs), NEW f, f \notin FieldsOf(docs)
  PROVE  /\ ValuesOf(docs, f) = {} /\ Cardinality(ValuesOf(docs, f)) = 0
         /\ LengthsOf(docs, f) = << >>
         /\ Occurrences(docs, f) = 0
<1>1. ValuesOf(docs, f) = {}
  BY DEF ValuesOf, FieldsOf
<1>2. Cardinality(ValuesOf(docs, f)) = 0
  BY <1>1, FS_EmptySet
<1>3. Lengthy(docs, f) = {}
  BY DEF Lengthy, FieldsOf
<1>4. LengthsOf(docs, f) = << >>
  <2>. DEFINE x == LengthsOf(docs, f)
  <2>1. x \in Seq(LengthEntry) /\ Len(x) = Cardinality(Lengthy(docs, f))
    BY LengthsAre
  <2>2. Len(x) = 0
    BY <1>3, <2>1, FS_EmptySet
  <2>. HIDE DEF x
  <2>3. x = << >>
    BY <2>1, <2>2
  <2>. QED BY <2>3 DEF x
<1>5. Occurrences(docs, f) = 0
  <2>1. HolderCounts(docs, f) \in Seq(Nat)
    BY HolderCountsAre
  <2>2. Total(HolderCounts(docs, f), 0) = 0
    BY <2>1, TotalSteps
  <2>. QED BY <1>2, <2>2 DEF Occurrences
<1>. QED BY <1>1, <1>2, <1>4, <1>5

(* The sum of two sequences of lengths, the second one moved.              *)
LEMMA LengthSumConcat ==
  ASSUME NEW p \in Seq(LengthEntry), NEW q \in Seq(LengthEntry), NEW n \in Nat
  PROVE  LengthSum(p \o Moved(q, n)) = LengthSum(p) + LengthSum(q)
<1>1. PICK w \in Seq(Nat) : /\ Len(w) = Len(p)
                            /\ \A k \in 1 .. Len(p) : w[k] = p[k].length
                            /\ LengthSum(p) = Total(w, Len(w))
  BY LengthSumIsNat
<1>2. PICK x \in Seq(Nat) : /\ Len(x) = Len(q)
                            /\ \A k \in 1 .. Len(q) : x[k] = q[k].length
                            /\ LengthSum(q) = Total(x, Len(x))
  BY LengthSumIsNat
<1>. DEFINE m == Moved(q, n)
            r == p \o m
            y == w \o x
<1>3. /\ m \in Seq(LengthEntry) /\ Len(m) = Len(q)
      /\ \A k \in 1 .. Len(q) : m[k] = [doc |-> q[k].doc + n, length |-> q[k].length]
  BY MovedLengths
<1>. HIDE DEF m
<1>4. ASSUME NEW k \in 1 .. Len(q) PROVE m[k].length = x[k]
  <2>1. m[k] = [doc |-> q[k].doc + n, length |-> q[k].length]
    BY <1>3
  <2>2. m[k].length = q[k].length
    BY <2>1
  <2>. QED BY <1>2, <2>2
<1>5. /\ r \in Seq(LengthEntry) /\ Len(r) = Len(p) + Len(q)
      /\ \A k \in 1 .. Len(p) : r[k] = p[k]
      /\ \A k \in 1 .. Len(q) : r[Len(p) + k] = m[k]
  <2>1. /\ r \in Seq(LengthEntry) /\ Len(r) = Len(p) + Len(m)
        /\ \A k \in 1 .. Len(p) : r[k] = p[k]
        /\ \A k \in 1 .. Len(m) : r[Len(p) + k] = m[k]
    <3>1. m \in Seq(LengthEntry)
      BY <1>3
    <3>. QED BY <3>1, CatParts
  <2>. QED BY <1>3, <2>1
<1>6. /\ y \in Seq(Nat) /\ Len(y) = Len(p) + Len(q)
      /\ \A k \in 1 .. Len(p) : y[k] = w[k]
      /\ \A k \in 1 .. Len(q) : y[Len(p) + k] = x[k]
  <2>1. /\ y \in Seq(Nat) /\ Len(y) = Len(w) + Len(x)
        /\ \A k \in 1 .. Len(w) : y[k] = w[k]
        /\ \A k \in 1 .. Len(x) : y[Len(w) + k] = x[k]
    BY CatParts
  <2>. QED BY <1>1, <1>2, <2>1
<1>. HIDE DEF r, y
<1>7. ASSUME NEW k \in 1 .. Len(y) PROVE r[k].length = y[k]
  <2>1. CASE k <= Len(p)
    <3>1. k \in 1 .. Len(p)
      BY <2>1
    <3>. QED BY <1>1, <1>5, <1>6, <3>1
  <2>2. CASE k > Len(p)
    <3>1. k - Len(p) \in 1 .. Len(q) /\ Len(p) + (k - Len(p)) = k
      BY <1>6, <2>2
    <3>. QED BY ZenonT(60), <1>4, <1>5, <1>6, <3>1
  <2>. QED BY <2>1, <2>2
<1>8. DOMAIN r = 1 .. Len(y)
  BY <1>5, <1>6
<1>9. LengthSum(r) = Total(y, Len(y))
  BY <1>6, <1>7, <1>8, LengthsSum
<1>10. Total(y, Len(w) + Len(x)) = Total(w, Len(w)) + Total(x, Len(x))
  BY TotalConcat DEF y
<1>. QED BY <1>1, <1>2, <1>6, <1>9, <1>10 DEF r, m

(* The block of a field of the documents, with these tokens in it.         *)
BlockSays(docs, f, tokens) ==
  [hash |-> f,
   avg |-> Average(LengthSum(LengthsOf(docs, f)), Len(LengthsOf(docs, f))),
   total |-> LengthSum(LengthsOf(docs, f)),
   tokenCount |-> Cardinality(ValuesOf(docs, f)),
   occurrences |-> Occurrences(docs, f),
   lengthCount |-> Len(LengthsOf(docs, f)),
   lengths |-> LengthsOf(docs, f),
   tokens |-> tokens]

(* One more element at the end of a function.                              *)
LEMMA AppendFunction ==
  ASSUME NEW n \in Nat, NEW s, s = [m \in 1 .. n |-> s[m]], NEW e
  PROVE  /\ Len(s) = n
         /\ Append(s, e) = [m \in 1 .. n + 1 |-> IF m = n + 1 THEN e ELSE s[m]]
<1>. DEFINE V == {s[m] : m \in 1 .. n} \union {e}
            t == Append(s, e)
<1>1. s \in [1 .. n -> V] /\ e \in V
  <2>1. \A m \in 1 .. n : s[m] \in V
    OBVIOUS
  <2>. HIDE DEF V
  <2>2. s \in [1 .. n -> V]
    BY <2>1
  <2>. QED BY <2>2 DEF V
<1>. HIDE DEF V
<1>2. s \in Seq(V) /\ Len(s) = n
  BY <1>1, FunctionIsSeq
<1>3. /\ t \in Seq(V) /\ Len(t) = n + 1
      /\ \A m \in 1 .. n : t[m] = s[m]
      /\ t[n + 1] = e
  BY <1>1, <1>2, AppendProperties
<1>. HIDE DEF t
<1>4. t = [m \in 1 .. n + 1 |-> t[m]]
  BY <1>3
<1>5. \A m \in 1 .. n + 1 : t[m] = IF m = n + 1 THEN e ELSE s[m]
  BY <1>3
<1>. QED BY <1>2, <1>4, <1>5 DEF t

(* How many cells come before a field, and with it.                        *)
LEMMA BeforeIs ==
  ASSUME NEW docs, IsBatch(docs), NEW o \in Seq(FieldsOf(docs))
  PROVE  /\ Before(docs, o, 1) = 0
         /\ \A n \in 1 .. Len(o) + 1 : /\ Before(docs, o, n) \in Nat
                                       /\ Before(docs, o, n) <= Len(Cells(docs, o))
         /\ \A n \in 1 .. Len(o) :
              Before(docs, o, n + 1) = Before(docs, o, n) + Cardinality(ValuesOf(docs, o[n]))
         /\ Before(docs, o, Len(o) + 1) = Len(Cells(docs, o))
         /\ Len(Cells(docs, o)) \in Nat
<1>. DEFINE w == Lens(Rows(docs, o))
<1>1. /\ Rows(docs, o) \in Seq(Seq(Cell(docs))) /\ Len(Rows(docs, o)) = Len(o)
      /\ \A m \in 1 .. Len(o) : w[m] = Cardinality(ValuesOf(docs, o[m]))
      /\ Len(Cells(docs, o)) = Total(w, Len(o))
  BY CellsAre
<1>2. w \in Seq(Nat) /\ Len(w) = Len(o)
  BY <1>1, LensAre
<1>3. \A n : Before(docs, o, n) = Total(w, n - 1)
  BY DEF Before
<1>. HIDE DEF w
<1>4. Len(o) \in Nat
  OBVIOUS
<1>5. /\ Total(w, 0) = 0
      /\ \A k \in 0 .. Len(o) : Total(w, k) \in Nat
      /\ \A k \in 1 .. Len(o) : Total(w, k) = Total(w, k - 1) + w[k]
  BY <1>2, TotalSteps
<1>6. \A k \in 0 .. Len(o) : Total(w, k) <= Total(w, Len(o))
  BY <1>2, <1>4, TotalGrows
<1>7. Before(docs, o, 1) = 0
  BY <1>3, <1>5
<1>8. ASSUME NEW n \in 1 .. Len(o) + 1
      PROVE  Before(docs, o, n) \in Nat /\ Before(docs, o, n) <= Len(Cells(docs, o))
  <2>1. n - 1 \in 0 .. Len(o)
    BY <1>4
  <2>. QED BY <1>1, <1>3, <1>5, <1>6, <2>1
<1>9. ASSUME NEW n \in 1 .. Len(o)
      PROVE  Before(docs, o, n + 1) = Before(docs, o, n) + Cardinality(ValuesOf(docs, o[n]))
  <2>1. Before(docs, o, n + 1) = Total(w, n)
    BY <1>3, <1>4
  <2>. QED BY <1>1, <1>3, <1>5, <2>1
<1>10. Before(docs, o, Len(o) + 1) = Total(w, Len(o))
  BY <1>3, <1>4
<1>11. Total(w, Len(o)) \in Nat
  BY <1>4, <1>5
<1>. QED BY <1>1, <1>7, <1>8, <1>9, <1>10, <1>11

-----------------------------------------------------------------------------
(***************************************************************************)
(* The posting lists.                                                      *)
(***************************************************************************)
(* The posting lists of the cells, their sizes, and their headers.         *)
CellHolders(docs, o) ==
  [p \in 1 .. Len(Cells(docs, o)) |->
     Holders(docs, Cells(docs, o)[p].f, Cells(docs, o)[p].v)]
Sizes(docs, o) == [p \in 1 .. Len(Cells(docs, o)) |-> BitmapSize(CellHolders(docs, o)[p])]
CellHead(docs, o, p) == [offset |-> Total(Sizes(docs, o), p - 1), length |-> Sizes(docs, o)[p]]

(* Every bitmap takes space.                                               *)
LEMMA SizesAre ==
  ASSUME NEW docs, IsBatch(docs), NEW o \in Seq(FieldsOf(docs))
  PROVE  /\ Len(Cells(docs, o)) \in Nat
         /\ CellHolders(docs, o) \in Seq(SUBSET Nat)
         /\ Len(CellHolders(docs, o)) = Len(Cells(docs, o))
         /\ DOMAIN CellHolders(docs, o) = 1 .. Len(Cells(docs, o))
         /\ Sizes(docs, o) \in Seq(Nat)
         /\ Len(Sizes(docs, o)) = Len(Cells(docs, o))
         /\ \A p \in 1 .. Len(Cells(docs, o)) :
              /\ Sizes(docs, o)[p] = BitmapSize(CellHolders(docs, o)[p])
              /\ Sizes(docs, o)[p] > 0
<1>. DEFINE N == Len(Cells(docs, o))
            H == CellHolders(docs, o)
            w == Sizes(docs, o)
<1>1. N \in Nat
  BY BeforeIs
<1>2. \A f, v : /\ Holders(docs, f, v) \in SUBSET Nat
                /\ BitmapSize(Holders(docs, f, v)) \in Nat
                /\ BitmapSize(Holders(docs, f, v)) > 0
  <2>. TAKE f, v
  <2>. DEFINE S == Holders(docs, f, v)
              c == Cardinality(S)
  <2>1. IsFiniteSet(S) /\ Numbers(S)
    BY BatchSets
  <2>2. c \in Nat
    BY <2>1, FS_CardinalityType
  <2>3. S \in SUBSET Nat
    BY <2>1 DEF Numbers
  <2>4. BitmapSize(S) = IF S = {} THEN 8 ELSE 16 + 2 * c
    BY DEF BitmapSize
  <2>. HIDE DEF c, S
  <2>5. BitmapSize(S) \in Nat /\ BitmapSize(S) > 0
    BY <2>2, <2>4
  <2>. QED BY <2>3, <2>5 DEF S
<1>3. \A p \in 1 .. N : H[p] = Holders(docs, Cells(docs, o)[p].f, Cells(docs, o)[p].v)
  BY DEF CellHolders
<1>4. H \in [1 .. N -> SUBSET Nat]
  BY <1>2 DEF CellHolders
<1>5. \A p \in 1 .. N : w[p] = BitmapSize(H[p]) /\ w[p] \in Nat /\ w[p] > 0
  BY <1>2, <1>3 DEF Sizes
<1>6. w = [p \in 1 .. N |-> w[p]]
  BY DEF Sizes
<1>7. w \in [1 .. N -> Nat]
  BY <1>5, <1>6
<1>. HIDE DEF N, H, w
<1>8. H \in Seq(SUBSET Nat) /\ Len(H) = N /\ DOMAIN H = 1 .. N
  BY <1>1, <1>4, FunctionIsSeq
<1>9. w \in Seq(Nat) /\ Len(w) = N
  BY <1>1, <1>7, FunctionIsSeq
<1>. QED BY <1>1, <1>5, <1>8, <1>9 DEF N, H, w

(* The first n of them take up so much space.                              *)
LEMMA DataSizes ==
  ASSUME NEW docs, IsBatch(docs), NEW o \in Seq(FieldsOf(docs)),
         NEW n \in 0 .. Len(Cells(docs, o))
  PROVE  DataSize(SubSeq(CellHolders(docs, o), 1, n)) = Total(Sizes(docs, o), n)
<1>. DEFINE N == Len(Cells(docs, o))
            H == CellHolders(docs, o)
            w == Sizes(docs, o)
            q == SubSeq(H, 1, n)
            x == SubSeq(w, 1, n)
<1>1. /\ N \in Nat /\ H \in Seq(SUBSET Nat) /\ Len(H) = N
      /\ w \in Seq(Nat) /\ Len(w) = N
      /\ \A p \in 1 .. N : w[p] = BitmapSize(H[p])
  BY SizesAre
<1>. HIDE DEF H, w, N
<1>2. n \in Nat /\ n <= N
  BY <1>1 DEF N
<1>3. /\ q \in Seq(SUBSET Nat) /\ Len(q) = n /\ \A k \in 1 .. n : q[k] = H[k]
  BY <1>1, <1>2
<1>4. /\ x \in Seq(Nat) /\ Len(x) = n /\ \A k \in 1 .. n : x[k] = w[k]
  BY <1>1, <1>2
<1>. HIDE DEF q, x
<1>5. \A k \in 1 .. Len(x) : BitmapSize(q[k]) = x[k]
  BY <1>1, <1>2, <1>3, <1>4
<1>6. DOMAIN q = 1 .. Len(x)
  BY <1>3, <1>4
<1>7. DataSize(q) = Total(x, Len(x))
  BY <1>4, <1>5, <1>6, SizesSum
<1>8. Total(x, n) = Total(w, n)
  BY SMTT(30), <1>1, <1>2, <1>4, TotalSame
<1>. QED BY <1>4, <1>7, <1>8 DEF q, H, w

(* A header finds its bitmap, and no other.                                *)
LEMMA BitmapFound ==
  ASSUME NEW docs, IsBatch(docs), NEW o \in Seq(FieldsOf(docs)),
         NEW p \in 1 .. Len(Cells(docs, o))
  PROVE  BitmapAt(CellHolders(docs, o), CellHead(docs, o, p)) = CellHolders(docs, o)[p]
<1>. DEFINE N == Len(Cells(docs, o))
            H == CellHolders(docs, o)
            w == Sizes(docs, o)
            h == CellHead(docs, o, p)
            found == {n \in DOMAIN H : /\ DataSize(SubSeq(H, 1, n - 1)) = h.offset
                                       /\ BitmapSize(H[n]) = h.length}
<1>1. /\ N \in Nat /\ DOMAIN H = 1 .. N
      /\ w \in Seq(Nat) /\ Len(w) = N
      /\ \A n \in 1 .. N : w[n] = BitmapSize(H[n]) /\ w[n] > 0
  BY SizesAre
<1>2. h.offset = Total(w, p - 1) /\ h.length = w[p]
  BY DEF CellHead
<1>3. \A n \in 1 .. N : DataSize(SubSeq(H, 1, n - 1)) = Total(w, n - 1)
  <2>. TAKE n \in 1 .. N
  <2>. DEFINE m == n - 1
  <2>1. m \in 0 .. Len(Cells(docs, o))
    BY <1>1
  <2>. HIDE DEF m
  <2>2. DataSize(SubSeq(H, 1, m)) = Total(w, m)
    BY <2>1, DataSizes
  <2>. QED BY <2>2 DEF m
<1>. HIDE DEF H, w, h
<1>4. p \in 1 .. N
  OBVIOUS
<1>. HIDE DEF N
<1>5. p \in found
  BY <1>1, <1>2, <1>3, <1>4
<1>6. \A m, n \in 1 .. N : m < n => Total(w, m - 1) # Total(w, n - 1)
  <2>. SUFFICES ASSUME NEW m \in 1 .. N, NEW n \in 1 .. N, m < n
                PROVE  Total(w, m - 1) # Total(w, n - 1)
    OBVIOUS
  <2>1. /\ Total(w, m) = Total(w, m - 1) + w[m]
        /\ Total(w, m - 1) \in Nat /\ Total(w, m) \in Nat /\ Total(w, n - 1) \in Nat
    <3>1. m \in 1 .. Len(w) /\ m \in 0 .. Len(w) /\ m - 1 \in 0 .. Len(w)
          /\ n - 1 \in 0 .. Len(w)
      BY <1>1
    <3>. QED BY <1>1, <3>1, TotalSteps
  <2>2. Total(w, m) <= Total(w, n - 1)
    <3>. DEFINE j == n - 1
    <3>1. m \in Nat /\ j \in Nat /\ m <= j /\ j <= Len(w)
      BY <1>1
    <3>. HIDE DEF j
    <3>2. Total(w, m) <= Total(w, j)
      BY <1>1, <3>1, TotalGrows
    <3>. QED BY <3>2 DEF j
  <2>3. w[m] > 0 /\ w[m] \in Nat
    BY <1>1
  <2>. QED BY <2>1, <2>2, <2>3
<1>7. \A n \in found : n = p
  <2>. SUFFICES ASSUME NEW n \in found PROVE n = p
    OBVIOUS
  <2>1. n \in 1 .. N /\ Total(w, n - 1) = Total(w, p - 1)
    BY <1>1, <1>2, <1>3
  <2>2. ~(n < p) /\ ~(p < n)
    BY <1>4, <1>6, <2>1
  <2>3. n \in Nat /\ p \in Nat
    BY <1>4, <2>1
  <2>. QED BY <2>2, <2>3
<1>8. BitmapAt(H, h) = IF found = {} THEN {} ELSE H[CHOOSE n \in found : TRUE]
  BY DEF BitmapAt
<1>. HIDE DEF found
<1>9. (CHOOSE n \in found : TRUE) = p /\ found # {}
  BY <1>5, <1>7
<1>. QED BY <1>8, <1>9 DEF H, h

(* How far the posting lists are written: the first n bitmaps, and the     *)
(* headers of the first start of them, the others waiting.                 *)
Listing(docs, o, n, data, size, waiting, start, written) ==
  LET N == Len(Cells(docs, o)) IN
  /\ n \in 0 .. N
  /\ start \in 0 .. n
  /\ data = [p \in 1 .. n |-> CellHolders(docs, o)[p]]
  /\ size = Total(Sizes(docs, o), n)
  /\ waiting = [p \in 1 .. n - start |-> CellHead(docs, o, start + p)]
  /\ written = [p \in 1 .. N |-> IF p <= start THEN CellHead(docs, o, p) ELSE ZeroHead]

(* The pass starts with nothing written but room for the headers.          *)
LEMMA ListingStarts ==
  ASSUME NEW docs, IsBatch(docs), NEW o \in Seq(FieldsOf(docs)),
         NEW written, written = [p \in 1 .. Len(Cells(docs, o)) |-> ZeroHead]
  PROVE  Listing(docs, o, 0, << >>, 0, << >>, 0, written)
<1>1. /\ Len(Cells(docs, o)) \in Nat /\ Sizes(docs, o) \in Seq(Nat)
  BY SizesAre
<1>2. Total(Sizes(docs, o), 0) = 0
  BY <1>1, TotalSteps
<1>3. 0 \in 0 .. Len(Cells(docs, o)) /\ 0 \in 0 .. 0 /\ 0 - 0 = 0 /\ 1 .. 0 = {}
  BY <1>1
<1>4. \A p \in 1 .. Len(Cells(docs, o)) : ~(p <= 0)
  BY <1>1
<1>5. /\ << >> = [p \in 1 .. 0 |-> CellHolders(docs, o)[p]]
      /\ << >> = [p \in 1 .. 0 - 0 |-> CellHead(docs, o, 0 + p)]
  BY <1>3
<1>6. written = [p \in 1 .. Len(Cells(docs, o)) |->
                   IF p <= 0 THEN CellHead(docs, o, p) ELSE ZeroHead]
  BY <1>4
<1>. QED BY <1>2, <1>3, <1>5, <1>6 DEF Listing

(* The next posting list.                                                  *)
LEMMA ListingNext ==
  ASSUME NEW docs, IsBatch(docs), NEW o \in Seq(FieldsOf(docs)),
         NEW n \in Nat, n < Len(Cells(docs, o)), NEW data, NEW size, NEW waiting, NEW start,
         NEW written, Listing(docs, o, n, data, size, waiting, start, written),
         NEW list, list = CellHolders(docs, o)[n + 1]
  PROVE  /\ Listing(docs, o, n + 1, Append(data, list), size + BitmapSize(list),
                    Append(waiting, [offset |-> size, length |-> BitmapSize(list)]),
                    start, written)
         /\ BitmapSize(list) \in Nat
<1>. DEFINE N == Len(Cells(docs, o))
            w == Sizes(docs, o)
            h(p) == CellHead(docs, o, p)
            e == [offset |-> size, length |-> BitmapSize(list)]
            m == n + 1
<1>1. /\ N \in Nat /\ w \in Seq(Nat) /\ Len(w) = N
      /\ m \in 1 .. N /\ m \in 0 .. N
      /\ w[m] = BitmapSize(list) /\ w[m] \in Nat
  <2>1. /\ N \in Nat /\ w \in Seq(Nat) /\ Len(w) = N
        /\ \A p \in 1 .. N : w[p] = BitmapSize(CellHolders(docs, o)[p])
    BY SizesAre
  <2>2. m \in 1 .. N /\ m \in 0 .. N
    BY <2>1
  <2>. QED BY <2>1, <2>2
<1>2. /\ start \in 0 .. n
      /\ data = [p \in 1 .. n |-> CellHolders(docs, o)[p]]
      /\ size = Total(w, n)
      /\ waiting = [p \in 1 .. n - start |-> h(start + p)]
      /\ written = [p \in 1 .. N |-> IF p <= start THEN h(p) ELSE ZeroHead]
  BY DEF Listing
<1>3. start \in Nat /\ n - start \in Nat /\ start \in 0 .. m
      /\ m - start = (n - start) + 1 /\ start + (m - start) = m /\ m - 1 = n
  BY <1>2
<1>4. Append(data, list) = [p \in 1 .. m |-> CellHolders(docs, o)[p]]
  <2>1. data = [p \in 1 .. n |-> data[p]]
    BY <1>2
  <2>2. Append(data, list) = [p \in 1 .. n + 1 |-> IF p = n + 1 THEN list ELSE data[p]]
    BY <2>1, AppendFunction
  <2>3. \A p \in 1 .. n + 1 : (IF p = n + 1 THEN list ELSE data[p]) = CellHolders(docs, o)[p]
    BY <1>2
  <2>. QED BY <2>2, <2>3
<1>. HIDE DEF w, h, N
<1>5. size + BitmapSize(list) = Total(w, m)
  <2>. HIDE DEF m
  <2>1. Total(w, m) = Total(w, m - 1) + w[m]
    BY <1>1, TotalSteps
  <2>. QED BY <1>1, <1>2, <1>3, <2>1
<1>6. e = h(m)
  <2>1. h(m) = [offset |-> Total(w, m - 1), length |-> w[m]]
    BY DEF h, CellHead, w
  <2>. QED BY <1>1, <1>2, <1>3, <2>1
<1>7. Append(waiting, e) = [p \in 1 .. m - start |-> h(start + p)]
  <2>. DEFINE k == n - start
  <2>. HIDE DEF e
  <2>1. k \in Nat /\ waiting = [p \in 1 .. k |-> waiting[p]]
    BY <1>2, <1>3
  <2>2. \A p \in 1 .. k : waiting[p] = h(start + p)
    BY <1>2
  <2>3. m - start = k + 1 /\ start + (k + 1) = m
    BY <1>3
  <2>. HIDE DEF k, m
  <2>4. Append(waiting, e) = [p \in 1 .. k + 1 |-> IF p = k + 1 THEN e ELSE waiting[p]]
    BY <2>1, AppendFunction
  <2>5. \A p \in 1 .. k + 1 : (IF p = k + 1 THEN e ELSE waiting[p]) = h(start + p)
    BY <1>6, <2>1, <2>2, <2>3
  <2>. QED BY <2>3, <2>4, <2>5
<1>. QED BY <1>1, <1>2, <1>3, <1>4, <1>5, <1>7 DEF Listing, N, w, h

(* The headers that wait are written behind the others.                    *)
LEMMA ListingWrites ==
  ASSUME NEW docs, IsBatch(docs), NEW o \in Seq(FieldsOf(docs)),
         NEW n \in Nat, NEW data, NEW size, NEW waiting, NEW start,
         NEW written, Listing(docs, o, n, data, size, waiting, start, written)
  PROVE  /\ Listing(docs, o, n, data, size, << >>, start + Len(waiting),
                    WriteAt(written, start, waiting))
         /\ start + Len(waiting) = n
<1>. DEFINE N == Len(Cells(docs, o))
            h(p) == CellHead(docs, o, p)
<1>1. /\ n \in 0 .. N /\ start \in 0 .. n
      /\ data = [p \in 1 .. n |-> CellHolders(docs, o)[p]]
      /\ size = Total(Sizes(docs, o), n)
      /\ waiting = [p \in 1 .. n - start |-> h(start + p)]
      /\ written = [p \in 1 .. N |-> IF p <= start THEN h(p) ELSE ZeroHead]
  BY DEF Listing
<1>2. N \in Nat
  BY SizesAre
<1>3. n - start \in Nat /\ start \in Nat /\ n \in 0 .. n
  BY <1>1
<1>. HIDE DEF h, N
<1>4. DOMAIN waiting = 1 .. n - start /\ Len(waiting) = n - start
  <2>. DEFINE k == n - start
  <2>1. k \in Nat /\ waiting = [p \in 1 .. k |-> waiting[p]]
    BY <1>1, <1>3
  <2>. HIDE DEF k
  <2>2. Len(waiting) = k /\ DOMAIN waiting = 1 .. k
    BY <2>1, AppendFunction
  <2>. QED BY <2>2 DEF k
<1>5. start + Len(waiting) = n
  BY <1>1, <1>3, <1>4
<1>6. WriteAt(written, start, waiting) = [p \in 1 .. N |-> IF p <= n THEN h(p) ELSE ZeroHead]
  <2>1. DOMAIN written = 1 .. N
    BY <1>1
  <2>2. \A p \in 1 .. N : (IF p - start \in DOMAIN waiting THEN waiting[p - start] ELSE written[p])
                            = IF p <= n THEN h(p) ELSE ZeroHead
    <3>. TAKE p \in 1 .. N
    <3>1. p - start \in 1 .. n - start <=> start < p /\ p <= n
      BY <1>2, <1>3
    <3>2. CASE start < p /\ p <= n
      <4>1. start + (p - start) = p
        BY <1>2, <1>3
      <4>2. waiting[p - start] = h(start + (p - start))
        BY <1>1, <3>1, <3>2
      <4>. QED BY <1>4, <3>1, <3>2, <4>1, <4>2
    <3>3. CASE ~(start < p /\ p <= n)
      <4>1. p <= start <=> p <= n
        BY <1>1, <1>2, <1>3, <3>3
      <4>2. written[p] = IF p <= start THEN h(p) ELSE ZeroHead
        BY <1>1
      <4>. QED BY <1>4, <3>1, <3>3, <4>1, <4>2
    <3>. QED BY <3>2, <3>3
  <2>3. WriteAt(written, start, waiting)
          = [p \in 1 .. N |-> IF p - start \in DOMAIN waiting THEN waiting[p - start]
                            ELSE written[p]]
    BY <2>1 DEF WriteAt
  <2>. QED BY <2>2, <2>3
<1>7. << >> = [p \in 1 .. n - n |-> h(n + p)]
  <2>1. n - n = 0 /\ 1 .. 0 = {}
    OBVIOUS
  <2>. QED BY <2>1
<1>8. Listing(docs, o, n, data, size, << >>, n, WriteAt(written, start, waiting))
  BY <1>1, <1>3, <1>6, <1>7 DEF Listing, N, h
<1>. QED BY <1>5, <1>8

(* All of a sequence.                                                      *)
LEMMA WholeIs ==
  ASSUME NEW n \in Nat, NEW x, x = [k \in 1 .. n |-> x[k]]
  PROVE  Len(x) = n /\ SubSeq(x, 1, n) = x
<1>. DEFINE V == {x[k] : k \in 1 .. n}
<1>1. x \in [1 .. n -> V]
  <2>1. \A k \in 1 .. n : x[k] \in V
    OBVIOUS
  <2>. HIDE DEF V
  <2>. QED BY <2>1
<1>. HIDE DEF V
<1>2. x \in Seq(V) /\ Len(x) = n
  BY <1>1, FunctionIsSeq
<1>3. \A k \in 1 .. Len(x) : x[0 + k] = x[k]
  OBVIOUS
<1>4. SubSeq(x, 0 + 1, 0 + Len(x)) = x
  <2>1. 0 + Len(x) <= Len(x) /\ 0 \in Nat
    BY <1>2
  <2>. QED BY <1>2, <1>3, <2>1, SliceIs
<1>. QED BY <1>2, <1>4

(* What a field of a storage that is laid out says.                        *)
LaidSays(docs, f, field) ==
  /\ field.tokens \in Seq(Token)
  /\ Len(field.tokens) = Cardinality(ValuesOf(docs, f))
  /\ field = [tokens |-> field.tokens,
              lengths |-> LengthsOf(docs, f),
              total |-> LengthSum(LengthsOf(docs, f)),
              avg |-> Average(LengthSum(LengthsOf(docs, f)), Len(LengthsOf(docs, f))),
              occurrences |-> Occurrences(docs, f)]

(* The order of the fields gives each of them one block, whatever the      *)
(* order in which their tokens were laid out.                              *)
LEMMA FieldIsLaid ==
  ASSUME NEW docs, IsBatch(docs), NEW o \in SetToSeqs(FieldsOf(docs)), NEW f \in FieldsOf(docs)
  PROVE  LaidSays(docs, f, LaidOut(docs, o).fields[f])
<1>. DEFINE s == LaidOut(docs, o)
            field == s.fields[f]
            c == Cardinality(ValuesOf(docs, f))
<1>1. PICK m \in 1 .. Len(o) : o[m] = f
  <2>1. IsFiniteSet(FieldsOf(docs))
    BY BatchSets
  <2>. QED BY <2>1, OrderHasAll
<1>2. IndexesField(s, docs, f) /\ field.tokens \in Seq(Token)
  BY <1>1, LaidFieldIndexes
<1>3. FieldSays(s, docs, f)
  BY <1>2, FieldIndexSays
<1>4. s.fields = [g \in FieldsOf(docs) |-> LaidField(docs, o, g)]
  BY LaidOutParts
<1>5. field = LaidField(docs, o, f)
  BY <1>4
<1>6. field = [tokens |-> field.tokens, lengths |-> field.lengths, total |-> field.total,
               avg |-> field.avg, occurrences |-> field.occurrences]
  <2>. HIDE DEF field
  <2>. QED BY <1>5 DEF LaidField
<1>7. /\ Len(field.tokens) = c
      /\ field.lengths = LengthsOf(docs, f)
      /\ field.total = LengthSum(LengthsOf(docs, f))
      /\ field.avg = Average(LengthSum(LengthsOf(docs, f)), Len(LengthsOf(docs, f)))
      /\ field.occurrences = Occurrences(docs, f)
  BY <1>3 DEF FieldSays
<1>8. field = [tokens |-> field.tokens,
               lengths |-> LengthsOf(docs, f),
               total |-> LengthSum(LengthsOf(docs, f)),
               avg |-> Average(LengthSum(LengthsOf(docs, f)), Len(LengthsOf(docs, f))),
               occurrences |-> Occurrences(docs, f)]
  <2>. HIDE DEF field
  <2>. QED BY <1>6, <1>7
<1>. HIDE DEF field
<1>9. LaidSays(docs, f, field)
  BY <1>2, <1>7, <1>8 DEF LaidSays
<1>. QED BY <1>9 DEF field, s

(***************************************************************************)
(* The file of a storage laid out in the order o of its fields, its blocks *)
(* in another order r.                                                     *)
(***************************************************************************)
SavedBlock(docs, o, f) == BlockSays(docs, f, LaidOut(docs, o).fields[f].tokens)

SavedFile(docs, o, r) ==
  [header |-> <<[docs   |-> Len(docs),
                 fields |-> Len(r),
                 lists  |-> Len(Cells(docs, o)),
                 data   |-> Total(Sizes(docs, o), Len(Cells(docs, o))),
                 freqs  |-> Len(FlattenSeq(CellEntries(docs, o)))]>>,
   ids    |-> [k \in DOMAIN docs |-> docs[k].id],
   freqs  |-> FlattenSeq(CellEntries(docs, o)),
   fields |-> [m \in 1 .. Len(r) |-> SavedBlock(docs, o, r[m])],
   heads  |-> [p \in 1 .. Len(Cells(docs, o)) |-> CellHead(docs, o, p)],
   data   |-> CellHolders(docs, o)]

(* The file is readable: each region has what the header announces.        *)
LEMMA SavedReadable ==
  ASSUME NEW docs, IsBatch(docs), NEW o \in SetToSeqs(FieldsOf(docs)),
         NEW r \in SetToSeqs(FieldsOf(docs))
  PROVE  ~Unreadable(SavedFile(docs, o, r))
<1>. DEFINE f == SavedFile(docs, o, r)
            N == Len(Cells(docs, o))
            h == f.header[1]
            w == Sizes(docs, o)
<1>1. /\ o \in Seq(FieldsOf(docs)) /\ Len(o) \in Nat
      /\ r \in Seq(FieldsOf(docs)) /\ Len(r) \in Nat
  BY OrderIsSeq
<1>2. /\ N \in Nat /\ w \in Seq(Nat) /\ Len(w) = N
      /\ CellHolders(docs, o) \in Seq(SUBSET Nat) /\ Len(CellHolders(docs, o)) = N
  BY <1>1, SizesAre
<1>3. /\ h.docs = Len(docs) /\ h.fields = Len(r) /\ h.lists = N
      /\ h.data = Total(w, N) /\ h.freqs = Len(f.freqs)
  BY DEF SavedFile
<1>4. Len(docs) \in Nat /\ DOMAIN docs = 1 .. Len(docs)
  BY BatchSets
<1>5. Len(f.ids) = Len(docs)
  <2>1. f.ids = [k \in 1 .. Len(docs) |-> f.ids[k]]
    BY <1>4 DEF SavedFile
  <2>. HIDE DEF f
  <2>. QED BY <1>4, <2>1, WholeIs
<1>6. Len(f.freqs) \in Nat
  <2>1. CellEntries(docs, o) \in Seq(Seq(Entry))
    BY <1>1, CellEntriesAre
  <2>2. FlattenSeq(CellEntries(docs, o)) \in Seq(Entry)
    BY <2>1, FlattenPlaces
  <2>3. f.freqs = FlattenSeq(CellEntries(docs, o))
    BY DEF SavedFile
  <2>. HIDE DEF f
  <2>. QED BY <2>2, <2>3
<1>7. Len(f.fields) = Len(r)
  <2>1. f.fields = [m \in 1 .. Len(r) |-> f.fields[m]]
    BY DEF SavedFile
  <2>. HIDE DEF f
  <2>. QED BY <1>1, <2>1, WholeIs
<1>8. \A m \in 1 .. Len(r) : /\ Len(f.fields[m].lengths) = f.fields[m].lengthCount
                             /\ Len(f.fields[m].lengths) \in Nat
                             /\ Len(f.fields[m].tokens) = f.fields[m].tokenCount
                             /\ Len(f.fields[m].tokens) \in Nat
  <2>. TAKE m \in 1 .. Len(r)
  <2>. DEFINE ts == LaidOut(docs, o).fields[r[m]].tokens
              bl == f.fields[m]
  <2>1. f.fields[m] = BlockSays(docs, r[m], ts)
    BY DEF SavedFile, SavedBlock
  <2>2. /\ r[m] \in FieldsOf(docs)
        /\ ts \in Seq(Token) /\ Len(ts) = Cardinality(ValuesOf(docs, r[m]))
    <3>1. r[m] \in FieldsOf(docs)
      BY <1>1
    <3>2. LaidSays(docs, r[m], LaidOut(docs, o).fields[r[m]])
      BY <3>1, FieldIsLaid
    <3>. QED BY <3>1, <3>2 DEF LaidSays
  <2>3. LengthsOf(docs, r[m]) \in Seq(LengthEntry)
    BY LengthsAre
  <2>. HIDE DEF f, ts
  <2>4. bl = BlockSays(docs, r[m], ts)
    BY <2>1, <2>2
  <2>. HIDE DEF bl
  <2>5. /\ bl.lengths = LengthsOf(docs, r[m]) /\ bl.lengthCount = Len(LengthsOf(docs, r[m]))
        /\ bl.tokens = ts /\ bl.tokenCount = Cardinality(ValuesOf(docs, r[m]))
    BY <2>4 DEF BlockSays
  <2>6. Len(LengthsOf(docs, r[m])) \in Nat /\ Len(ts) \in Nat
    BY <2>2, <2>3
  <2>7. /\ Len(bl.lengths) = bl.lengthCount /\ Len(bl.lengths) \in Nat
        /\ Len(bl.tokens) = bl.tokenCount /\ Len(bl.tokens) \in Nat
    BY <2>2, <2>5, <2>6
  <2>. QED BY <2>7 DEF bl
<1>9. f.heads = [p \in 1 .. N |-> CellHead(docs, o, p)]
  BY DEF SavedFile
<1>10. Len(f.heads) = N
  <2>1. f.heads = [p \in 1 .. N |-> f.heads[p]]
    BY <1>9
  <2>. HIDE DEF f, N
  <2>. QED BY <1>2, <2>1, WholeIs
<1>11. HeadsSize(f.heads) = Total(w, N)
  <2>. HIDE DEF f, w, N
  <2>1. DOMAIN f.heads = 1 .. Len(w)
    BY <1>2, <1>9
  <2>2. \A k \in 1 .. Len(w) : f.heads[k].length = w[k]
    BY <1>2, <1>9 DEF CellHead, w
  <2>3. HeadsSize(f.heads) = Total(w, Len(w))
    BY <1>2, <2>1, <2>2, HeadsSum
  <2>. QED BY <1>2, <2>3
<1>12. DataSize(f.data) = Total(w, N)
  <2>1. DOMAIN CellHolders(docs, o) = 1 .. N
        /\ \A p \in 1 .. N : BitmapSize(CellHolders(docs, o)[p]) = w[p]
    BY <1>1, SizesAre
  <2>2. f.data = CellHolders(docs, o)
    BY DEF SavedFile
  <2>. HIDE DEF f, w, N
  <2>3. DataSize(CellHolders(docs, o)) = Total(w, Len(w))
    BY <1>2, <2>1, SizesSum
  <2>. QED BY <1>2, <2>2, <2>3
<1>. HIDE DEF f, w, N, h
<1>13. ~(Len(f.ids) < h.docs) /\ ~(Len(f.freqs) < h.freqs) /\ ~(Len(f.fields) < h.fields)
       /\ ~(Len(f.heads) < h.lists)
  BY <1>1, <1>2, <1>3, <1>4, <1>5, <1>6, <1>7, <1>10
<1>14. ~\E n \in 1 .. h.fields : \/ Len(f.fields[n].lengths) < f.fields[n].lengthCount
                                 \/ Len(f.fields[n].tokens) < f.fields[n].tokenCount
  BY <1>3, <1>8
<1>15. ~(DataSize(f.data) < h.data) /\ HeadsSize(f.heads) = h.data
  <2>1. Total(w, N) \in Nat
    <3>1. N \in 0 .. Len(w)
      BY <1>2
    <3>. QED BY <1>2, <3>1, TotalSteps
  <2>. QED BY <1>3, <1>11, <1>12, <2>1
<1>. QED BY <1>13, <1>14, <1>15 DEF Unreadable, h, f

(* Load finds the storage in its file.                                     *)
LEMMA SavedLoads ==
  ASSUME NEW docs, IsBatch(docs), NEW o \in SetToSeqs(FieldsOf(docs)),
         NEW r \in SetToSeqs(FieldsOf(docs))
  PROVE  Load(SavedFile(docs, o, r)) = LaidOut(docs, o)
<1>. DEFINE f == SavedFile(docs, o, r)
            s == LaidOut(docs, o)
            N == Len(Cells(docs, o))
            h == f.header[1]
            block(hash) == f.fields[CHOOSE n \in 1 .. h.fields : f.fields[n].hash = hash]
            read(hash) == [tokens      |-> SubSeq(block(hash).tokens, 1, block(hash).tokenCount),
                           lengths     |-> SubSeq(block(hash).lengths, 1, block(hash).lengthCount),
                           total       |-> block(hash).total,
                           avg         |-> block(hash).avg,
                           occurrences |-> block(hash).occurrences]
<1>1. /\ o \in Seq(FieldsOf(docs))
      /\ r \in Seq(FieldsOf(docs)) /\ Len(r) \in Nat
  BY OrderIsSeq
<1>2. /\ N \in Nat
      /\ DOMAIN CellHolders(docs, o) = 1 .. N
  BY <1>1, SizesAre
<1>3. /\ f.header = <<h>>
      /\ h.docs = Len(docs) /\ h.fields = Len(r) /\ h.lists = N /\ h.freqs = Len(f.freqs)
      /\ f.ids = [k \in DOMAIN docs |-> docs[k].id]
      /\ f.freqs = FlattenSeq(CellEntries(docs, o))
      /\ f.fields = [m \in 1 .. Len(r) |-> SavedBlock(docs, o, r[m])]
      /\ f.heads = [p \in 1 .. N |-> CellHead(docs, o, p)]
      /\ f.data = CellHolders(docs, o)
  BY DEF SavedFile
<1>4. Len(docs) \in Nat /\ DOMAIN docs = 1 .. Len(docs)
  BY BatchSets
<1>5. s = [ids    |-> [k \in DOMAIN docs |-> docs[k].id],
           freqs  |-> FlattenSeq(CellEntries(docs, o)),
           lists  |-> [n \in 1 .. N |-> CellHolders(docs, o)[n]],
           fields |-> [g \in FieldsOf(docs) |-> s.fields[g]]]
  <2>1. s = [ids    |-> [k \in DOMAIN docs |-> docs[k].id],
             freqs  |-> FlattenSeq(CellEntries(docs, o)),
             lists  |-> [n \in DOMAIN Cells(docs, o) |->
                           Holders(docs, Cells(docs, o)[n].f, Cells(docs, o)[n].v)],
             fields |-> [g \in FieldsOf(docs) |-> LaidField(docs, o, g)]]
    BY LaidOutParts
  <2>2. DOMAIN Cells(docs, o) = 1 .. N
    <3>1. Cells(docs, o) \in Seq(Cell(docs))
      BY <1>1, CellsAre
    <3>. QED BY <3>1
  <2>3. [n \in DOMAIN Cells(docs, o) |->
           Holders(docs, Cells(docs, o)[n].f, Cells(docs, o)[n].v)]
          = [n \in 1 .. N |-> CellHolders(docs, o)[n]]
    BY <2>2 DEF CellHolders
  <2>. HIDE DEF s
  <2>4. [g \in FieldsOf(docs) |-> s.fields[g]] = [g \in FieldsOf(docs) |-> LaidField(docs, o, g)]
    BY <2>1
  <2>. QED BY <2>1, <2>3, <2>4
<1>6. SubSeq(f.ids, 1, h.docs) = f.ids
  <2>1. f.ids = [k \in 1 .. Len(docs) |-> f.ids[k]]
    BY <1>3, <1>4
  <2>. HIDE DEF f, h
  <2>2. SubSeq(f.ids, 1, Len(docs)) = f.ids
    BY <1>4, <2>1, WholeIs
  <2>. QED BY <1>3, <2>2
<1>7. SubSeq(f.freqs, 1, h.freqs) = f.freqs
  <2>1. CellEntries(docs, o) \in Seq(Seq(Entry))
    BY <1>1, CellEntriesAre
  <2>2. FlattenSeq(CellEntries(docs, o)) \in Seq(Entry)
    BY <2>1, FlattenPlaces
  <2>. HIDE DEF f, h
  <2>3. f.freqs \in Seq(Entry)
    BY <1>3, <2>2
  <2>4. Len(f.freqs) \in Nat /\ f.freqs = [k \in 1 .. Len(f.freqs) |-> f.freqs[k]]
    BY <2>3
  <2>5. SubSeq(f.freqs, 1, Len(f.freqs)) = f.freqs
    BY <2>4, WholeIs
  <2>. QED BY <1>3, <2>5
<1>8. [n \in 1 .. h.lists |-> BitmapAt(f.data, f.heads[n])]
        = [n \in 1 .. N |-> CellHolders(docs, o)[n]]
  <2>1. \A n \in 1 .. N :
          BitmapAt(CellHolders(docs, o), CellHead(docs, o, n)) = CellHolders(docs, o)[n]
    BY <1>1, BitmapFound
  <2>2. \A n \in 1 .. N : f.heads[n] = CellHead(docs, o, n)
    BY <1>3
  <2>. HIDE DEF f, h, N
  <2>3. \A n \in 1 .. N : BitmapAt(f.data, f.heads[n]) = CellHolders(docs, o)[n]
    BY <1>3, <2>1, <2>2
  <2>. QED BY <1>3, <2>3
<1>9. /\ \A m \in 1 .. Len(r) : f.fields[m].hash = r[m]
      /\ \A m \in 1 .. Len(r) : /\ r[m] \in FieldsOf(docs)
                                /\ read(r[m]) = s.fields[r[m]]
  <2>1. ASSUME NEW m \in 1 .. Len(r)
        PROVE  f.fields[m].hash = r[m]
    <3>1. SavedBlock(docs, o, r[m]).hash = r[m]
      BY DEF SavedBlock, BlockSays
    <3>. HIDE DEF f
    <3>. QED BY <1>3, <3>1
  <2>2. ASSUME NEW m \in 1 .. Len(r)
        PROVE  r[m] \in FieldsOf(docs) /\ read(r[m]) = s.fields[r[m]]
    <3>. DEFINE ts == s.fields[r[m]].tokens
                ls == LengthsOf(docs, r[m])
                bl == f.fields[m]
    <3>1. \A i, j \in 1 .. Len(r) : r[i] = r[j] => i = j
      <4>1. IsFiniteSet(FieldsOf(docs))
        BY BatchSets
      <4>. QED BY <4>1, OrderHasAll
    <3>2. block(r[m]) = bl
      <4>1. \A n \in 1 .. h.fields : f.fields[n].hash = r[m] => n = m
        BY <1>3, <2>1, <3>1
      <4>2. m \in 1 .. h.fields /\ f.fields[m].hash = r[m]
        BY <1>3, <2>1
      <4>. HIDE DEF f, h
      <4>3. (CHOOSE n \in 1 .. h.fields : f.fields[n].hash = r[m]) = m
        BY <4>1, <4>2
      <4>. QED BY <4>3
    <3>3. /\ SavedBlock(docs, o, r[m]) = BlockSays(docs, r[m], ts)
          /\ ts \in Seq(Token) /\ Len(ts) = Cardinality(ValuesOf(docs, r[m]))
          /\ s.fields[r[m]]
               = [tokens |-> ts, lengths |-> ls, total |-> LengthSum(ls),
                  avg |-> Average(LengthSum(ls), Len(ls)), occurrences |-> Occurrences(docs, r[m])]
      <4>1. r[m] \in FieldsOf(docs)
        BY <1>1
      <4>2. LaidSays(docs, r[m], s.fields[r[m]])
        BY <4>1, FieldIsLaid
      <4>. QED BY <4>2 DEF SavedBlock, LaidSays
    <3>4. bl = BlockSays(docs, r[m], ts)
      BY <1>3, <3>3
    <3>5. ls \in Seq(LengthEntry)
      BY LengthsAre
    <3>. HIDE DEF bl, ts, ls, block, f, s
    <3>6. /\ bl.lengths = ls /\ bl.lengthCount = Len(ls) /\ bl.tokens = ts
          /\ bl.tokenCount = Cardinality(ValuesOf(docs, r[m]))
          /\ bl.total = LengthSum(ls) /\ bl.avg = Average(LengthSum(ls), Len(ls))
          /\ bl.occurrences = Occurrences(docs, r[m])
      BY <3>4 DEF BlockSays, ls
    <3>7. SubSeq(ts, 1, Len(ts)) = ts
      <4>1. Len(ts) \in Nat /\ ts = [k \in 1 .. Len(ts) |-> ts[k]]
        BY <3>3
      <4>. QED BY <4>1, WholeIs
    <3>8. SubSeq(ls, 1, Len(ls)) = ls
      <4>1. Len(ls) \in Nat /\ ls = [k \in 1 .. Len(ls) |-> ls[k]]
        BY <3>5
      <4>. QED BY <4>1, WholeIs
    <3>9. read(r[m]) = [tokens |-> ts, lengths |-> ls, total |-> LengthSum(ls),
                        avg |-> Average(LengthSum(ls), Len(ls)),
                        occurrences |-> Occurrences(docs, r[m])]
      BY <3>2, <3>3, <3>6, <3>7, <3>8
    <3>10. r[m] \in FieldsOf(docs)
      BY <1>1
    <3>. QED BY <3>3, <3>9, <3>10
  <2>. QED BY <2>1, <2>2
<1>10. {f.fields[n].hash : n \in 1 .. h.fields} = FieldsOf(docs)
  <2>1. \A g \in FieldsOf(docs) : \E m \in 1 .. Len(r) : r[m] = g
    <3>1. IsFiniteSet(FieldsOf(docs))
      BY BatchSets
    <3>. QED BY <3>1, OrderHasAll
  <2>2. \A n \in 1 .. h.fields : f.fields[n].hash = r[n] /\ r[n] \in FieldsOf(docs)
    BY <1>3, <1>9
  <2>. HIDE DEF f, h
  <2>. QED BY <1>3, <2>1, <2>2
<1>11. [hash \in {f.fields[n].hash : n \in 1 .. h.fields} |-> read(hash)]
         = [g \in FieldsOf(docs) |-> s.fields[g]]
  <2>1. \A g \in FieldsOf(docs) : read(g) = s.fields[g]
    <3>1. \A g \in FieldsOf(docs) : \E m \in 1 .. Len(r) : r[m] = g
      <4>1. IsFiniteSet(FieldsOf(docs))
        BY BatchSets
      <4>. QED BY <4>1, OrderHasAll
    <3>. HIDE DEF read, s, f, h
    <3>. QED BY <1>9, <3>1
  <2>. HIDE DEF read, s, f, h
  <2>. QED BY <1>10, <2>1
<1>12. ~Unreadable(f)
  BY SavedReadable
<1>13. CASE ~HeaderOnly(f)
  <2>1. f.header # << >>
    <3>. HIDE DEF f, h
    <3>. QED BY <1>3
  <2>2. Load(f) = [ids    |-> SubSeq(f.ids, 1, h.docs),
                   freqs  |-> SubSeq(f.freqs, 1, h.freqs),
                   lists  |-> [n \in 1 .. h.lists |-> BitmapAt(f.data, f.heads[n])],
                   fields |-> [hash \in {f.fields[n].hash : n \in 1 .. h.fields} |-> read(hash)]]
    <3>. HIDE DEF f
    <3>. QED BY <1>12, <1>13, <2>1 DEF Load
  <2>. HIDE DEF f, s, h, N, read
  <2>3. Load(f) = [ids    |-> [k \in DOMAIN docs |-> docs[k].id],
                   freqs  |-> FlattenSeq(CellEntries(docs, o)),
                   lists  |-> [n \in 1 .. N |-> CellHolders(docs, o)[n]],
                   fields |-> [g \in FieldsOf(docs) |-> s.fields[g]]]
    BY <1>3, <1>6, <1>7, <1>8, <1>11, <2>2
  <2>4. Load(f) = s
    BY <1>5, <2>3
  <2>. QED BY <2>4 DEF f, s
<1>14. CASE HeaderOnly(f)
  <2>1. f.ids = << >> /\ f.freqs = << >> /\ f.heads = << >>
    <3>. HIDE DEF f
    <3>. QED BY <1>14 DEF HeaderOnly
  <2>2. f.header # << >>
    <3>. HIDE DEF f, h
    <3>. QED BY <1>3
  <2>3. Load(f) = EmptySegment
    <3>. HIDE DEF f
    <3>. QED BY <1>14, <2>2 DEF Load
  <2>4. N = 0
    <3>. HIDE DEF f, N
    <3>1. DOMAIN f.heads = 1 .. N
      BY <1>3
    <3>2. DOMAIN << >> = {}
      OBVIOUS
    <3>. QED BY <1>2, <2>1, <3>1, <3>2
  <2>5. DOMAIN docs = {}
    <3>. HIDE DEF f
    <3>1. DOMAIN f.ids = DOMAIN docs
      BY <1>3
    <3>. QED BY <2>1, <3>1
  <2>6. FieldsOf(docs) = {}
    BY <2>5 DEF FieldsOf
  <2>. HIDE DEF s, N, f
  <2>7. s = [ids |-> << >>, freqs |-> << >>, lists |-> << >>, fields |-> << >>]
    <3>1. [g \in FieldsOf(docs) |-> s.fields[g]] = << >>
      BY <2>6
    <3>2. [n \in 1 .. N |-> CellHolders(docs, o)[n]] = << >>
      BY <2>4
    <3>3. [k \in DOMAIN docs |-> docs[k].id] = << >>
      BY <2>5
    <3>. QED BY <1>3, <1>5, <2>1, <3>1, <3>2, <3>3
  <2>8. Load(f) = s
    BY <2>3, <2>7 DEF EmptySegment
  <2>. QED BY <2>8 DEF f, s
<1>. QED BY <1>13, <1>14

-----------------------------------------------------------------------------
(***************************************************************************)
(* Sums over finite sets.                                                  *)
(***************************************************************************)
AddUp(c, S) == (CHOOSE f : SetSumming(f, c, S))[S]

Counted(c, S) == \A x \in S : c[x] \in Nat

(* The fold of MapThenSumSet over S exists, and ends with the number a.    *)
SumsTo(c, S, a) ==
  /\ \E f : SetSumming(f, c, S)
  /\ \A f : SetSumming(f, c, S) => f[S] = a

(* A sum over a set is the sum over a sequence that has each member once.  *)
LEMMA ListSums ==
  ASSUME NEW S, NEW g, Once(g, S), NEW w \in Seq(Nat), Len(w) = Len(g), NEW c,
         \A n \in 1 .. Len(w) : c[g[n]] = w[n]
  PROVE  SumsTo(c, S, Total(w, Len(w)))
<1>1. g \in Bijection(1 .. Len(w), S)
  BY DEF Once, Bijection, Injection, Surjection, IsInjective
<1>2. \A T, h, d : /\ h \in Bijection(1 .. Len(w), T)
                   /\ \A n \in 1 .. Len(w) : d[h[n]] = w[n]
                   => /\ \E f : SetSumming(f, d, T)
                      /\ \A f : SetSumming(f, d, T) => f[T] = Total(w, Len(w))
  BY ZenonT(60), SetSumIsTotal
<1>. QED BY ZenonT(60), <1>1, <1>2 DEF SumsTo

(* AddUp is that sum.                                                      *)
LEMMA AddUpIs ==
  ASSUME NEW S, NEW g, Once(g, S), NEW w \in Seq(Nat), Len(w) = Len(g), NEW c,
         \A n \in 1 .. Len(w) : c[g[n]] = w[n]
  PROVE  AddUp(c, S) = Total(w, Len(w))
<1>1. SumsTo(c, S, Total(w, Len(w)))
  BY ListSums
<1>. QED BY <1>1 DEF AddUp, SumsTo

(* There is such a sequence for every finite set, and one of its numbers.  *)
Enumerates(g, w, c, S) ==
  /\ Once(g, S)
  /\ w \in Seq(Nat) /\ Len(w) = Len(g) /\ Len(g) \in Nat
  /\ \A n \in 1 .. Len(g) : w[n] = c[g[n]] /\ g[n] \in S
  /\ AddUp(c, S) = Total(w, Len(g))

(* Every sum over a finite set is the sum of such a sequence.              *)
LEMMA Enumerated ==
  ASSUME NEW S, IsFiniteSet(S), NEW c, Counted(c, S)
  PROVE  \E g, w : Enumerates(g, w, c, S)
<1>1. PICK n \in Nat : ExistsBijection(1 .. n, S)
  BY FS_NatBijection
<1>2. PICK g : g \in Bijection(1 .. n, S)
  BY <1>1 DEF ExistsBijection
<1>3. /\ g \in [1 .. n -> S]
      /\ \A i, j \in 1 .. n : g[i] = g[j] => i = j
      /\ \A x \in S : \E i \in 1 .. n : g[i] = x
  BY <1>2 DEF Bijection, Injection, Surjection, IsInjective
<1>4. g \in Seq(S) /\ Len(g) = n
  BY <1>3
<1>5. Once(g, S)
  BY <1>3, <1>4 DEF Once
<1>. DEFINE w == [i \in 1 .. Len(g) |-> c[g[i]]]
<1>6. w \in [1 .. n -> Nat]
  BY <1>3, <1>4 DEF Counted
<1>7. \A i \in 1 .. n : w[i] = c[g[i]]
  BY <1>4
<1>. HIDE DEF w
<1>8. w \in Seq(Nat) /\ Len(w) = n
  BY <1>6
<1>9. AddUp(c, S) = Total(w, Len(w))
  BY <1>4, <1>5, <1>7, <1>8, AddUpIs
<1>10. Enumerates(g, w, c, S)
  BY <1>3, <1>4, <1>5, <1>7, <1>8, <1>9 DEF Enumerates
<1>. QED BY <1>10

(* The sum over the empty set, and with another member.                    *)
LEMMA AddUpSteps ==
  ASSUME NEW S, IsFiniteSet(S), NEW c, Counted(c, S)
  PROVE  /\ AddUp(c, S) \in Nat
         /\ S = {} => AddUp(c, S) = 0
         /\ \A x : x \notin S /\ c[x] \in Nat => AddUp(c, S \union {x}) = AddUp(c, S) + c[x]
<1>1. PICK g, w : Enumerates(g, w, c, S)
  BY Enumerated
<1>. DEFINE N == Len(g)
<1>2. Once(g, S) /\ \A n \in 1 .. N : w[n] = c[g[n]] /\ g[n] \in S
  BY <1>1 DEF Enumerates
<1>3. w \in Seq(Nat) /\ Len(w) = N /\ N \in Nat /\ AddUp(c, S) = Total(w, N)
  BY <1>1 DEF Enumerates
<1>4. Total(w, 0) = 0 /\ Total(w, N) \in Nat
  <2>1. N \in 0 .. Len(w)
    BY <1>3
  <2>. QED BY <1>3, <2>1, TotalSteps
<1>5. S = {} => N = 0
  BY <1>2, <1>3
<1>6. ASSUME NEW x, x \notin S, c[x] \in Nat
      PROVE  AddUp(c, S \union {x}) = AddUp(c, S) + c[x]
  <2>. DEFINE h == Append(g, x)
              y == Append(w, c[x])
  <2>1. Once(h, S \union {x})
    BY <1>2, <1>6, OnceMore
  <2>2. /\ y \in Seq(Nat) /\ Len(y) = N + 1
        /\ \A n \in 1 .. N : y[n] = w[n]
        /\ y[N + 1] = c[x]
    BY <1>3, <1>6, AppendProperties
  <2>3. /\ Len(h) = N + 1
        /\ \A n \in 1 .. N : h[n] = g[n]
        /\ h[N + 1] = x
    <3>1. g \in Seq(S \union {x})
      BY <1>2 DEF Once
    <3>. QED BY <3>1, AppendProperties
  <2>. HIDE DEF h, y
  <2>4. \A n \in 1 .. Len(y) : c[h[n]] = y[n]
    <3>. SUFFICES ASSUME NEW n \in 1 .. Len(y) PROVE c[h[n]] = y[n]
      OBVIOUS
    <3>1. n \in 1 .. N \/ n = N + 1
      BY <1>3, <2>2
    <3>2. CASE n \in 1 .. N
      <4>1. h[n] = g[n] /\ y[n] = w[n] /\ w[n] = c[g[n]]
        BY <1>2, <2>2, <2>3, <3>2
      <4>. QED BY <4>1
    <3>3. CASE n = N + 1
      BY <2>2, <2>3, <3>3
    <3>. QED BY <3>1, <3>2, <3>3
  <2>5. AddUp(c, S \union {x}) = Total(y, Len(y))
    BY <2>1, <2>2, <2>3, <2>4, AddUpIs
  <2>6. Total(y, N + 1) = Total(y, (N + 1) - 1) + y[N + 1]
    <3>. DEFINE M == N + 1
    <3>1. M \in 1 .. Len(y)
      BY <1>3, <2>2
    <3>. HIDE DEF M
    <3>2. Total(y, M) = Total(y, M - 1) + y[M]
      BY <2>2, <3>1, TotalSteps
    <3>. QED BY <3>2 DEF M
  <2>7. Total(y, N) = Total(w, N)
    <3>1. N <= Len(y) /\ N <= Len(w)
      BY <1>3, <2>2
    <3>. QED BY <1>3, <2>2, <3>1, TotalSame
  <2>8. (N + 1) - 1 = N
    BY <1>3
  <2>. QED BY <1>3, <2>2, <2>5, <2>6, <2>7, <2>8
<1>. QED BY <1>3, <1>4, <1>5, <1>6

(* A member of S adds its number to a part of S, another one adds nothing. *)
LEMMA AddUpPart ==
  ASSUME NEW S, NEW c, Counted(c, S), NEW Y, IsFiniteSet(Y), NEW x, x \notin Y
  PROVE  /\ AddUp(c, (Y \union {x}) \intersect S)
              = AddUp(c, Y \intersect S) + (IF x \in S THEN c[x] ELSE 0)
         /\ AddUp(c, Y \intersect S) \in Nat
<1>. DEFINE P == Y \intersect S
<1>1. IsFiniteSet(P) /\ Counted(c, P) /\ x \notin P
  <2>1. P \subseteq Y
    OBVIOUS
  <2>. QED BY <2>1, FS_Subset DEF Counted
<1>2. /\ AddUp(c, P) \in Nat
      /\ c[x] \in Nat => AddUp(c, P \union {x}) = AddUp(c, P) + c[x]
  <2>. HIDE DEF P
  <2>. QED BY <1>1, AddUpSteps
<1>3. CASE x \in S
  <2>1. (Y \union {x}) \intersect S = P \union {x} /\ c[x] \in Nat
    BY <1>3 DEF Counted
  <2>. HIDE DEF P
  <2>2. AddUp(c, (Y \union {x}) \intersect S) = AddUp(c, P) + c[x]
    BY <1>2, <2>1
  <2>. QED BY <1>2, <1>3, <2>2 DEF P
<1>4. CASE x \notin S
  <2>1. (Y \union {x}) \intersect S = P
    BY <1>4
  <2>. HIDE DEF P
  <2>2. AddUp(c, (Y \union {x}) \intersect S) = AddUp(c, P)
    BY <2>1
  <2>. QED BY <1>2, <1>4, <2>2 DEF P
<1>. QED BY <1>3, <1>4

(* e says what c and d say together.                                       *)
Adds(e, c, S, d, T) ==
  \A x \in S \union T : e[x] = (IF x \in S THEN c[x] ELSE 0) + (IF x \in T THEN d[x] ELSE 0)

(* Then its sum is both their sums.                                        *)
LEMMA AddUpAdds ==
  ASSUME NEW S, IsFiniteSet(S), NEW c, Counted(c, S), NEW T, IsFiniteSet(T),
         NEW d, Counted(d, T), NEW e, Adds(e, c, S, d, T)
  PROVE  /\ AddUp(e, S \union T) = AddUp(c, S) + AddUp(d, T)
         /\ AddUp(c, S) \in Nat /\ AddUp(d, T) \in Nat
<1>. DEFINE U == S \union T
            Right(Z) == AddUp(e, Z) = AddUp(c, Z \intersect S) + AddUp(d, Z \intersect T)
            K == {k \in Nat : \A Z \in SUBSET U : Cardinality(Z) = k => Right(Z)}
<1>1. IsFiniteSet(U) /\ Counted(e, U)
  <2>1. IsFiniteSet(U)
    BY FS_Union
  <2>2. \A x \in U : (IF x \in S THEN c[x] ELSE 0) \in Nat /\ (IF x \in T THEN d[x] ELSE 0) \in Nat
    BY DEF Counted
  <2>3. \A x \in U : e[x] \in Nat
    BY <2>2 DEF Adds
  <2>. QED BY <2>1, <2>3 DEF Counted
<1>2. \A Z \in SUBSET U : IsFiniteSet(Z) /\ Counted(e, Z)
  BY <1>1, FS_Subset DEF Counted
<1>3. Right({})
  <2>1. \A b : AddUp(b, {}) = 0
    <3>. TAKE b
    <3>1. IsFiniteSet({}) /\ Counted(b, {})
      BY FS_EmptySet DEF Counted
    <3>. QED BY <3>1, AddUpSteps
  <2>2. {} \intersect S = {} /\ {} \intersect T = {}
    OBVIOUS
  <2>. QED BY <2>1, <2>2
<1>4. ASSUME NEW Y \in SUBSET U, Right(Y), NEW x \in U, x \notin Y
      PROVE  Right(Y \union {x})
  <2>1. IsFiniteSet(Y) /\ Counted(e, Y) /\ e[x] \in Nat
    BY <1>1, <1>2 DEF Counted
  <2>2. AddUp(e, Y \union {x}) = AddUp(e, Y) + e[x]
    BY <1>4, <2>1, AddUpSteps
  <2>3. /\ AddUp(c, (Y \union {x}) \intersect S)
              = AddUp(c, Y \intersect S) + (IF x \in S THEN c[x] ELSE 0)
        /\ AddUp(c, Y \intersect S) \in Nat
    BY <1>4, <2>1, AddUpPart
  <2>4. /\ AddUp(d, (Y \union {x}) \intersect T)
              = AddUp(d, Y \intersect T) + (IF x \in T THEN d[x] ELSE 0)
        /\ AddUp(d, Y \intersect T) \in Nat
    BY <1>4, <2>1, AddUpPart
  <2>5. e[x] = (IF x \in S THEN c[x] ELSE 0) + (IF x \in T THEN d[x] ELSE 0)
    BY DEF Adds
  <2>6. (IF x \in S THEN c[x] ELSE 0) \in Nat /\ (IF x \in T THEN d[x] ELSE 0) \in Nat
    BY DEF Counted
  <2>7. AddUp(e, Y) = AddUp(c, Y \intersect S) + AddUp(d, Y \intersect T)
    BY <1>4
  <2>. DEFINE i == IF x \in S THEN c[x] ELSE 0
              j == IF x \in T THEN d[x] ELSE 0
  <2>. HIDE DEF i, j, Right
  <2>8. AddUp(e, Y \union {x}) = AddUp(c, (Y \union {x}) \intersect S)
                                   + AddUp(d, (Y \union {x}) \intersect T)
    BY <2>2, <2>3, <2>4, <2>5, <2>6, <2>7 DEF i, j
  <2>. QED BY <2>8 DEF Right
<1>. HIDE DEF Right, U
<1>5. 0 \in K
  <2>. SUFFICES ASSUME NEW Z \in SUBSET U, Cardinality(Z) = 0 PROVE Right(Z)
    OBVIOUS
  <2>1. Z = {}
    BY <1>2, FS_EmptySet
  <2>. QED BY <1>3, <2>1
<1>6. ASSUME NEW k \in Nat, k \in K PROVE k + 1 \in K
  <2>. SUFFICES ASSUME NEW Z \in SUBSET U, Cardinality(Z) = k + 1 PROVE Right(Z)
    OBVIOUS
  <2>1. IsFiniteSet(Z)
    BY <1>2
  <2>2. PICK x : x \in Z
    <3>1. Z # {}
      BY FS_EmptySet
    <3>. QED BY <3>1
  <2>3. Cardinality(Z \ {x}) = k
    <3>1. Cardinality(Z \ {x}) = Cardinality(Z) - 1
      BY <2>1, <2>2, FS_RemoveElement
    <3>. QED BY <3>1
  <2>. DEFINE Y == Z \ {x}
  <2>4. Y \in SUBSET U /\ x \in U /\ x \notin Y /\ Z = Y \union {x}
    BY <2>2
  <2>. HIDE DEF Y
  <2>5. Right(Y)
    BY <1>6, <2>3, <2>4 DEF Y
  <2>6. Right(Y \union {x})
    BY <1>4, <2>4, <2>5
  <2>. QED BY <2>4, <2>6
<1>. HIDE DEF K
<1>7. \A k \in Nat : k \in K
  BY <1>5, <1>6, NatInductive
<1>8. Right(U)
  <2>1. Cardinality(U) \in Nat /\ U \in SUBSET U
    BY <1>1, FS_CardinalityType
  <2>. QED BY <1>7, <2>1 DEF K
<1>9. U \intersect S = S /\ U \intersect T = T
  BY DEF U
<1>10. AddUp(c, S) \in Nat /\ AddUp(d, T) \in Nat
  BY AddUpSteps
<1>. QED BY <1>8, <1>9, <1>10 DEF Right, U
=============================================================================
