----------------------------- MODULE MergerProofs -----------------------------
(***************************************************************************)
(* storage.Merger.Merge is right for any two storages, any documents in    *)
(* them, any layout of their tables, any batch of headers and any size of  *)
(* the chunks of addOffsetFrom.  The three passes over the tokens are      *)
(* followed through one sequence: the cells of the recorded order, a cell  *)
(* being a field and one of the values it has in A or in B.  Each pass has *)
(* a walk over the tokens of both storages that takes the cells one by one,*)
(* and its cursors are sums over the cells it has taken.                   *)
(***************************************************************************)
EXTENDS Merger, SegmentProofs

-----------------------------------------------------------------------------
(***************************************************************************)
(* A walk over two ascending sequences of values: z lists the values of    *)
(* both, x those of one of them.  Before its i-th value the walk has taken *)
(* the first k values of z.                                                *)
(***************************************************************************)
HalfCut(x, z, i, k) ==
  /\ i \in 1 .. Len(x) + 1
  /\ k \in 0 .. Len(z)
  /\ \A m \in 1 .. Len(x), n \in 1 .. Len(z) : /\ m < i /\ n > k => x[m] < z[n]
                                               /\ m >= i /\ n <= k => z[n] < x[m]

(* The walk starts before both.                                            *)
LEMMA HalfStarts ==
  ASSUME NEW S, NEW x, Lists(x, S), NEW U, NEW z, Lists(z, U)
  PROVE  HalfCut(x, z, 1, 0)
<1>1. Len(x) \in Nat /\ Len(z) \in Nat
  BY DEF Lists
<1>. QED BY <1>1 DEF HalfCut

(* The next value of z is the next of x, or is not in x.                   *)
LEMMA HalfTakes ==
  ASSUME NEW S, NEW x, Lists(x, S), NEW U, NEW z, Lists(z, U), Numbers(U),
         S \subseteq U, NEW i, NEW k, HalfCut(x, z, i, k)
  PROVE  /\ i <= Len(x) => k + 1 \in 1 .. Len(z) /\ z[k + 1] <= x[i]
         /\ k + 1 \in 1 .. Len(z) => (z[k + 1] \in S <=> i <= Len(x) /\ x[i] = z[k + 1])
<1>1. /\ Len(x) \in Nat /\ x \in [1 .. Len(x) -> S]
      /\ \A m, n \in 1 .. Len(x) : m < n => x[m] < x[n]
      /\ \A s \in S : \E m \in 1 .. Len(x) : x[m] = s
  BY DEF Lists, Climbs
<1>2. /\ Len(z) \in Nat /\ z \in [1 .. Len(z) -> U]
      /\ \A m, n \in 1 .. Len(z) : m < n => z[m] < z[n]
      /\ \A s \in U : \E m \in 1 .. Len(z) : z[m] = s
  BY DEF Lists, Climbs
<1>3. /\ i \in 1 .. Len(x) + 1 /\ k \in 0 .. Len(z)
      /\ \A m \in 1 .. Len(x), n \in 1 .. Len(z) : /\ m < i /\ n > k => x[m] < z[n]
                                                   /\ m >= i /\ n <= k => z[n] < x[m]
  BY DEF HalfCut
<1>4. /\ \A m \in 1 .. Len(x) : x[m] \in Nat /\ x[m] \in S /\ x[m] \in U
      /\ \A m \in 1 .. Len(z) : z[m] \in Nat
  BY <1>1, <1>2 DEF Numbers
<1>5. ASSUME i <= Len(x) PROVE k + 1 \in 1 .. Len(z) /\ z[k + 1] <= x[i]
  <2>1. i \in 1 .. Len(x)
    BY <1>1, <1>3, <1>5
  <2>2. PICK n \in 1 .. Len(z) : z[n] = x[i]
    BY <1>2, <1>4, <2>1
  <2>3. n > k
    <3>1. ASSUME n <= k PROVE FALSE
      <4>1. z[n] < x[i]
        BY <1>3, <2>1, <3>1
      <4>. QED BY <1>4, <2>1, <2>2, <4>1
    <3>. QED BY <1>2, <1>3, <3>1
  <2>4. k + 1 \in 1 .. Len(z)
    BY <1>2, <1>3, <2>3
  <2>5. z[k + 1] <= z[n]
    <3>1. k + 1 = n \/ k + 1 < n
      BY <1>2, <1>3, <2>3
    <3>2. k + 1 < n => z[k + 1] < z[n]
      BY <1>2, <2>4
    <3>3. z[k + 1] \in Nat /\ z[n] \in Nat
      BY <1>4, <2>4
    <3>. QED BY <3>1, <3>2, <3>3
  <2>. QED BY <2>2, <2>4, <2>5
<1>6. ASSUME k + 1 \in 1 .. Len(z), z[k + 1] \in S
      PROVE  i <= Len(x) /\ x[i] = z[k + 1]
  <2>1. PICK m \in 1 .. Len(x) : x[m] = z[k + 1]
    BY <1>1, <1>6
  <2>2. m >= i
    <3>1. ASSUME m < i PROVE FALSE
      <4>1. k + 1 > k
        BY <1>2, <1>3
      <4>2. x[m] < z[k + 1]
        BY <1>3, <1>6, <3>1, <4>1
      <4>. QED BY <1>4, <2>1, <4>2
    <3>. QED BY <1>1, <1>3, <3>1
  <2>3. i \in 1 .. Len(x)
    BY <1>1, <1>3, <2>2
  <2>4. i = m
    <3>1. ASSUME i < m PROVE FALSE
      <4>1. x[i] < x[m]
        BY <1>1, <2>3, <3>1
      <4>2. z[k + 1] <= x[i]
        BY <1>5, <2>3
      <4>. QED BY <1>4, <2>1, <2>3, <4>1, <4>2
    <3>. QED BY <2>2, <2>3, <3>1
  <2>. QED BY <2>1, <2>3, <2>4
<1>7. ASSUME k + 1 \in 1 .. Len(z), i <= Len(x), x[i] = z[k + 1]
      PROVE  z[k + 1] \in S
  <2>1. i \in 1 .. Len(x)
    BY <1>1, <1>3, <1>7
  <2>. QED BY <1>4, <1>7, <2>1
<1>. QED BY <1>5, <1>6, <1>7

(* Taking it, or passing it over, leaves a cut.                            *)
LEMMA HalfSteps ==
  ASSUME NEW S, NEW x, Lists(x, S), NEW U, NEW z, Lists(z, U), Numbers(U),
         S \subseteq U, NEW i, NEW k, HalfCut(x, z, i, k), k + 1 \in 1 .. Len(z)
  PROVE  HalfCut(x, z, IF z[k + 1] \in S THEN i + 1 ELSE i, k + 1)
<1>1. /\ Len(x) \in Nat /\ x \in [1 .. Len(x) -> S]
      /\ \A m, n \in 1 .. Len(x) : m < n => x[m] < x[n]
  BY DEF Lists, Climbs
<1>2. /\ Len(z) \in Nat /\ z \in [1 .. Len(z) -> U]
      /\ \A m, n \in 1 .. Len(z) : m < n => z[m] < z[n]
  BY DEF Lists, Climbs
<1>3. /\ i \in 1 .. Len(x) + 1 /\ k \in 0 .. Len(z)
      /\ \A m \in 1 .. Len(x), n \in 1 .. Len(z) : /\ m < i /\ n > k => x[m] < z[n]
                                                   /\ m >= i /\ n <= k => z[n] < x[m]
  BY DEF HalfCut
<1>4. /\ \A m \in 1 .. Len(x) : x[m] \in Nat /\ x[m] \in S
      /\ \A m \in 1 .. Len(z) : z[m] \in Nat
  BY <1>1, <1>2 DEF Numbers
<1>5. /\ i <= Len(x) => z[k + 1] <= x[i]
      /\ z[k + 1] \in S <=> i <= Len(x) /\ x[i] = z[k + 1]
  BY HalfTakes
<1>. DEFINE j == IF z[k + 1] \in S THEN i + 1 ELSE i
<1>6. j \in 1 .. Len(x) + 1 /\ k + 1 \in 0 .. Len(z)
  BY <1>1, <1>2, <1>3, <1>5
<1>7. ASSUME NEW m \in 1 .. Len(x), NEW n \in 1 .. Len(z), m < j, n > k + 1
      PROVE  x[m] < z[n]
  <2>1. CASE m < i
    <3>1. n > k
      BY <1>3, <1>7
    <3>. QED BY <1>3, <2>1, <3>1
  <2>2. CASE m >= i
    <3>1. m = i /\ z[k + 1] \in S
      BY <1>3, <1>7, <2>2
    <3>2. x[m] = z[k + 1]
      BY <1>5, <3>1
    <3>3. z[k + 1] < z[n]
      BY <1>2, <1>7
    <3>. QED BY <3>2, <3>3
  <2>. QED BY <1>3, <2>1, <2>2
<1>8. ASSUME NEW m \in 1 .. Len(x), NEW n \in 1 .. Len(z), m >= j, n <= k + 1
      PROVE  z[n] < x[m]
  <2>1. m >= i /\ i \in 1 .. Len(x)
    BY <1>1, <1>3, <1>8
  <2>2. CASE n <= k
    BY <1>3, <2>1, <2>2
  <2>3. CASE n = k + 1
    <3>1. x[i] <= x[m]
      <4>1. i < m \/ i = m
        BY <1>3, <2>1
      <4>2. i < m => x[i] < x[m]
        BY <1>1, <2>1
      <4>. QED BY <1>4, <2>1, <4>1, <4>2
    <3>2. z[k + 1] <= x[i]
      BY <1>5, <2>1
    <3>3. x[m] # z[k + 1]
      <4>1. ASSUME x[m] = z[k + 1] PROVE FALSE
        <5>1. z[k + 1] \in S
          BY <1>4, <4>1
        <5>2. m >= i + 1 /\ x[i] = z[k + 1]
          BY <1>5, <1>8, <5>1
        <5>3. i < m
          BY <1>3, <5>2
        <5>4. x[i] < x[m]
          BY <1>1, <2>1, <5>3
        <5>. QED BY <1>4, <2>1, <4>1, <5>2, <5>4
      <4>. QED BY <4>1
    <3>4. z[k + 1] \in Nat /\ x[i] \in Nat /\ x[m] \in Nat
      BY <1>4, <2>1
    <3>. QED BY <2>3, <3>1, <3>2, <3>3, <3>4
  <2>4. n <= k \/ n = k + 1
    BY <1>3, <1>8
  <2>. QED BY <2>2, <2>3, <2>4
<1>. HIDE DEF j
<1>9. HalfCut(x, z, j, k + 1)
  BY <1>6, <1>7, <1>8 DEF HalfCut
<1>. QED BY <1>9 DEF j

(* Both sides of the walk, and the tokens whose values x and y are.        *)
Cut(x, y, z, i, j, k) == HalfCut(x, z, i, k) /\ HalfCut(y, z, j, k)
Valued(tokens, x) == /\ Len(tokens) = Len(x)
                     /\ \A m \in 1 .. Len(x) : tokens[m].value = x[m]

(* A turn of the walk takes the next value of z, from the sides that have  *)
(* it.                                                                     *)
SidesTake(S, x, T, y, z, ta, tb, i, j, k) ==
  /\ k + 1 \in 1 .. Len(z)
  /\ z[k + 1] \in S \union T
  /\ Side(ta, tb, i, j) \in {"A", "B", "both"}
  /\ Side(ta, tb, i, j) = "B" <=> z[k + 1] \notin S
  /\ Side(ta, tb, i, j) = "A" <=> z[k + 1] \notin T
  /\ z[k + 1] \in S => i \in 1 .. Len(x) /\ ta[i].value = z[k + 1]
  /\ z[k + 1] \in T => j \in 1 .. Len(y) /\ tb[j].value = z[k + 1]
  /\ Cut(x, y, z, IF Side(ta, tb, i, j) = "B" THEN i ELSE i + 1,
                  IF Side(ta, tb, i, j) = "A" THEN j ELSE j + 1, k + 1)

(* Every turn of a walk that has something to take does so.                *)
LEMMA SideTakes ==
  ASSUME NEW S, NEW x, Lists(x, S), NEW T, NEW y, Lists(y, T),
         NEW z, Lists(z, S \union T), Numbers(S \union T),
         NEW ta, Valued(ta, x), NEW tb, Valued(tb, y),
         NEW i, NEW j, NEW k, Cut(x, y, z, i, j, k), i <= Len(ta) \/ j <= Len(tb)
  PROVE  SidesTake(S, x, T, y, z, ta, tb, i, j, k)
<1>. DEFINE v == z[k + 1]
            U == S \union T
<1>1. Len(ta) = Len(x) /\ Len(tb) = Len(y)
      /\ (\A m \in 1 .. Len(x) : ta[m].value = x[m])
      /\ (\A m \in 1 .. Len(y) : tb[m].value = y[m])
  BY DEF Valued
<1>2. Len(x) \in Nat /\ Len(y) \in Nat /\ Len(z) \in Nat /\ z \in [1 .. Len(z) -> U]
  BY DEF Lists
<1>3. i \in 1 .. Len(x) + 1 /\ j \in 1 .. Len(y) + 1
  BY DEF Cut, HalfCut
<1>4. S \subseteq U /\ T \subseteq U /\ Lists(z, U) /\ Numbers(U)
      /\ HalfCut(x, z, i, k) /\ HalfCut(y, z, j, k)
  BY DEF Cut
<1>. HIDE DEF v, U
<1>5. /\ i <= Len(x) => k + 1 \in 1 .. Len(z) /\ v <= x[i]
      /\ k + 1 \in 1 .. Len(z) => (v \in S <=> i <= Len(x) /\ x[i] = v)
  BY <1>4, HalfTakes DEF v
<1>6. /\ j <= Len(y) => k + 1 \in 1 .. Len(z) /\ v <= y[j]
      /\ k + 1 \in 1 .. Len(z) => (v \in T <=> j <= Len(y) /\ y[j] = v)
  BY <1>4, HalfTakes DEF v
<1>7. k + 1 \in 1 .. Len(z)
  BY <1>1, <1>5, <1>6
<1>8. v \in U /\ v \in Nat /\ (v \in S \/ v \in T)
  <2>1. v \in U
    BY <1>2, <1>7 DEF v
  <2>. QED BY <1>4, <2>1 DEF U, Numbers
<1>9. /\ i \in 1 .. Len(x) => x[i] \in Nat /\ ta[i].value = x[i]
      /\ j \in 1 .. Len(y) => y[j] \in Nat /\ tb[j].value = y[j]
  <2>1. x \in [1 .. Len(x) -> S] /\ y \in [1 .. Len(y) -> T]
    BY DEF Lists
  <2>2. i \in 1 .. Len(x) => x[i] \in S /\ x[i] \in U
    BY <2>1, <1>4
  <2>3. j \in 1 .. Len(y) => y[j] \in T /\ y[j] \in U
    BY <2>1, <1>4
  <2>. QED BY <1>1, <1>4, <2>2, <2>3 DEF Numbers
<1>. DEFINE side == Side(ta, tb, i, j)
<1>10. /\ side \in {"A", "B", "both"}
       /\ side = "B" <=> v \notin S
       /\ side = "A" <=> v \notin T
  <2>1. /\ i <= Len(x) => i \in 1 .. Len(x)
        /\ j <= Len(y) => j \in 1 .. Len(y)
    BY <1>2, <1>3
  <2>2. CASE i > Len(x)
    <3>1. side = "B"
      BY <1>1, <2>2 DEF Side
    <3>2. v \notin S /\ v \in T
      BY <1>2, <1>3, <1>5, <1>7, <1>8, <2>2
    <3>. QED BY <3>1, <3>2
  <2>3. CASE i <= Len(x) /\ j > Len(y)
    <3>1. side = "A"
      BY <1>1, <1>2, <1>3, <2>3 DEF Side
    <3>2. v \in S /\ v \notin T
      BY <1>2, <1>3, <1>6, <1>7, <1>8, <2>3
    <3>. QED BY <3>1, <3>2
  <2>4. CASE i <= Len(x) /\ j <= Len(y)
    <3>1. /\ i \in 1 .. Len(x) /\ j \in 1 .. Len(y) /\ x[i] \in Nat /\ y[j] \in Nat
          /\ ta[i].value = x[i] /\ tb[j].value = y[j]
          /\ ~(i > Len(x)) /\ ~(j > Len(y))
      BY <1>2, <1>9, <2>1, <2>4
    <3>2. side = IF x[i] = y[j] THEN "both" ELSE IF x[i] < y[j] THEN "A" ELSE "B"
      BY <1>1, <3>1 DEF Side
    <3>. HIDE DEF side
    <3>3. v <= x[i] /\ v <= y[j] /\ (v \in S <=> x[i] = v) /\ (v \in T <=> y[j] = v)
      BY <1>5, <1>6, <1>7, <2>4
    <3>. QED BY <1>8, <3>1, <3>2, <3>3
  <2>5. i > Len(x) \/ i <= Len(x)
    BY <1>2, <1>3
  <2>6. j > Len(y) \/ j <= Len(y)
    BY <1>2, <1>3
  <2>. HIDE DEF side
  <2>. QED BY <2>2, <2>3, <2>4, <2>5, <2>6
<1>. HIDE DEF side
<1>11. v \in S => i \in 1 .. Len(x) /\ ta[i].value = v
  BY <1>1, <1>2, <1>3, <1>5, <1>7
<1>12. v \in T => j \in 1 .. Len(y) /\ tb[j].value = v
  BY <1>1, <1>2, <1>3, <1>6, <1>7
<1>13. HalfCut(x, z, IF side = "B" THEN i ELSE i + 1, k + 1)
  <2>1. HalfCut(x, z, IF v \in S THEN i + 1 ELSE i, k + 1)
    BY <1>4, <1>7, HalfSteps DEF v
  <2>2. CASE v \in S
    BY <1>10, <2>1, <2>2
  <2>3. CASE v \notin S
    BY <1>10, <2>1, <2>3
  <2>. QED BY <2>2, <2>3
<1>14. HalfCut(y, z, IF side = "A" THEN j ELSE j + 1, k + 1)
  <2>1. HalfCut(y, z, IF v \in T THEN j + 1 ELSE j, k + 1)
    BY <1>4, <1>7, HalfSteps DEF v
  <2>2. CASE v \in T
    BY <1>10, <2>1, <2>2
  <2>3. CASE v \notin T
    BY <1>10, <2>1, <2>3
  <2>. QED BY <2>2, <2>3
<1>15. Cut(x, y, z, IF side = "B" THEN i ELSE i + 1, IF side = "A" THEN j ELSE j + 1, k + 1)
  BY <1>13, <1>14 DEF Cut
<1>16. v \in S \union T
  BY <1>8 DEF U
<1>. QED BY <1>7, <1>10, <1>11, <1>12, <1>15, <1>16 DEF v, side, SidesTake

(* A walk with nothing left on either side has taken every value.          *)
LEMMA WalkEnds ==
  ASSUME NEW S, NEW x, Lists(x, S), NEW T, NEW y, Lists(y, T),
         NEW z, Lists(z, S \union T), Numbers(S \union T),
         NEW i, NEW j, NEW k, Cut(x, y, z, i, j, k), ~(i <= Len(x) \/ j <= Len(y))
  PROVE  /\ k = Len(z)
         /\ i = Len(x) + 1 /\ j = Len(y) + 1
<1>. DEFINE U == S \union T
<1>1. Len(x) \in Nat /\ Len(y) \in Nat /\ Len(z) \in Nat /\ z \in [1 .. Len(z) -> U]
  BY DEF Lists
<1>2. i \in 1 .. Len(x) + 1 /\ j \in 1 .. Len(y) + 1 /\ k \in 0 .. Len(z)
      /\ HalfCut(x, z, i, k) /\ HalfCut(y, z, j, k)
  BY DEF Cut, HalfCut
<1>3. ASSUME k + 1 \in 1 .. Len(z) PROVE FALSE
  <2>1. z[k + 1] \in S \/ z[k + 1] \in T
    BY <1>1, <1>3
  <2>2. S \subseteq U /\ T \subseteq U /\ Lists(z, U) /\ Numbers(U)
    OBVIOUS
  <2>. HIDE DEF U
  <2>3. z[k + 1] \notin S
    BY <1>2, <1>3, <2>2, HalfTakes
  <2>4. z[k + 1] \notin T
    BY <1>2, <1>3, <2>2, HalfTakes
  <2>. QED BY <2>1, <2>3, <2>4
<1>4. k = Len(z)
  <2>1. Len(z) \in Nat /\ k \in 0 .. Len(z) /\ k + 1 \notin 1 .. Len(z)
    BY <1>1, <1>2, <1>3
  <2>. QED BY <2>1
<1>5. i = Len(x) + 1 /\ j = Len(y) + 1
  <2>1. /\ Len(x) \in Nat /\ Len(y) \in Nat /\ i \in 1 .. Len(x) + 1 /\ j \in 1 .. Len(y) + 1
        /\ ~(i <= Len(x)) /\ ~(j <= Len(y))
    BY <1>1, <1>2
  <2>. QED BY <2>1
<1>. QED BY <1>4, <1>5

-----------------------------------------------------------------------------
(* The function CountTokens defines, and where its recursion goes.         *)
NextPlace(ta, tb, p) ==
  <<IF Side(ta, tb, p[1], p[2]) = "B" THEN p[1] ELSE p[1] + 1,
    IF Side(ta, tb, p[1], p[2]) = "A" THEN p[2] ELSE p[2] + 1>>
Places(ta, tb) == (1 .. Len(ta) + 1) \X (1 .. Len(tb) + 1)

Counting(f, ta, tb) ==
  f = [p \in Places(ta, tb) |->
         IF p = <<Len(ta) + 1, Len(tb) + 1>> THEN 0 ELSE 1 + f[NextPlace(ta, tb, p)]]

(* CountTokens is the value of that function at the start of the walk.     *)
LEMMA CountingIs ==
  ASSUME NEW ta, NEW tb
  PROVE  CountTokens(ta, tb) = (CHOOSE g : Counting(g, ta, tb))[<<1, 1>>]
  BY DEF CountTokens, Counting, NextPlace, Places

(* It is the number of values on the two sides: CountTokensBetween-        *)
(* CollisionFields takes each value once.                                  *)
Rest(x, y, p) == {x[m] : m \in p[1] .. Len(x)} \union {y[m] : m \in p[2] .. Len(y)}

(* Each place the recursion goes to has exactly one value less to come.    *)
LEMMA RestStep ==
  ASSUME NEW S, NEW x, Lists(x, S), NEW T, NEW y, Lists(y, T), Numbers(S \union T),
         NEW ta, Valued(ta, x), NEW tb, Valued(tb, y),
         NEW p \in Places(ta, tb), p # <<Len(ta) + 1, Len(tb) + 1>>
  PROVE  LET q == NextPlace(ta, tb, p)
         IN  /\ q \in Places(ta, tb)
             /\ p[1] <= q[1] /\ p[2] <= q[2] /\ q # p
             /\ \E v : Rest(x, y, p) = Rest(x, y, q) \union {v} /\ v \notin Rest(x, y, q)
<1>. DEFINE i == p[1]
            j == p[2]
            l == Len(x)
            n == Len(y)
            side == Side(ta, tb, i, j)
            i2 == IF side = "B" THEN i ELSE i + 1
            j2 == IF side = "A" THEN j ELSE j + 1
            RA(m) == {x[k] : k \in m .. l}
            RB(m) == {y[k] : k \in m .. n}
<1>1. Len(ta) = l /\ Len(tb) = n
      /\ (\A m \in 1 .. l : ta[m].value = x[m])
      /\ (\A m \in 1 .. n : tb[m].value = y[m])
  BY DEF Valued
<1>2. /\ l \in Nat /\ n \in Nat
      /\ \A m \in 1 .. l : x[m] \in Nat
      /\ \A m \in 1 .. n : y[m] \in Nat
      /\ \A m, k \in 1 .. l : m < k => x[m] < x[k]
      /\ \A m, k \in 1 .. n : m < k => y[m] < y[k]
  <2>1. /\ l \in Nat /\ n \in Nat /\ x \in [1 .. l -> S] /\ y \in [1 .. n -> T]
        /\ \A m, k \in DOMAIN x : m < k => x[m] < x[k]
        /\ \A m, k \in DOMAIN y : m < k => y[m] < y[k]
    BY DEF Lists, Climbs
  <2>. QED BY <2>1 DEF Numbers
<1>3. i \in 1 .. l + 1 /\ j \in 1 .. n + 1 /\ p = <<i, j>> /\ (i # l + 1 \/ j # n + 1)
  BY <1>1 DEF Places
<1>. HIDE DEF i, j, l, n
<1>4. /\ \A m \in 1 .. l : RA(m) = RA(m + 1) \union {x[m]}
      /\ \A m \in 1 .. n : RB(m) = RB(m + 1) \union {y[m]}
  BY <1>2
<1>5. /\ \A m \in 1 .. l : \A v \in RA(m + 1) : x[m] < v
      /\ \A m \in 1 .. n : \A v \in RB(m + 1) : y[m] < v
  <2>1. ASSUME NEW m \in 1 .. l, NEW k \in m + 1 .. l PROVE x[m] < x[k]
    <3>1. k \in 1 .. l /\ m < k
      BY <1>2
    <3>. QED BY <1>2, <3>1
  <2>2. ASSUME NEW m \in 1 .. n, NEW k \in m + 1 .. n PROVE y[m] < y[k]
    <3>1. k \in 1 .. n /\ m < k
      BY <1>2
    <3>. QED BY <1>2, <3>1
  <2>. QED BY <2>1, <2>2
<1>6. RA(l + 1) = {} /\ RB(n + 1) = {}
  BY <1>2
<1>7. \A r : Rest(x, y, r) = RA(r[1]) \union RB(r[2])
  BY DEF Rest, l, n
<1>8. NextPlace(ta, tb, p) = <<i2, j2>>
  BY DEF NextPlace, i, j
<1>. DEFINE Goal == /\ <<i2, j2>> \in Places(ta, tb)
                    /\ i <= i2 /\ j <= j2 /\ <<i2, j2>> # <<i, j>>
                    /\ \E v : /\ RA(i) \union RB(j) = (RA(i2) \union RB(j2)) \union {v}
                              /\ v \notin RA(i2) \union RB(j2)
<1>. HIDE DEF RA, RB, side, Goal
<1>9. ASSUME i = l + 1 PROVE Goal
  <2>1. side = "B"
    BY <1>1, <1>2, <1>9 DEF Side, side
  <2>2. i2 = i /\ j2 = j + 1 /\ j \in 1 .. n
    BY <1>2, <1>3, <1>9, <2>1
  <2>. HIDE DEF i2, j2
  <2>3. RB(j) = RB(j2) \union {y[j]} /\ y[j] \notin RB(j2) /\ RA(i) = {}
    <3>1. RB(j) = RB(j2) \union {y[j]} /\ (\A v \in RB(j2) : y[j] < v) /\ RA(i) = {}
      BY <1>4, <1>5, <1>6, <1>9, <2>2
    <3>2. y[j] \in Nat
      BY <1>2, <2>2
    <3>3. y[j] \in RB(j2) => y[j] < y[j]
      BY <3>1
    <3>. QED BY <3>1, <3>2, <3>3
  <2>4. <<i2, j2>> \in Places(ta, tb) /\ i <= i2 /\ j <= j2 /\ j2 # j
    BY <1>1, <1>2, <1>3, <2>2 DEF Places
  <2>5. /\ RA(i) \union RB(j) = (RA(i2) \union RB(j2)) \union {y[j]}
        /\ y[j] \notin RA(i2) \union RB(j2)
    BY <2>2, <2>3
  <2>. QED BY <2>4, <2>5 DEF Goal
<1>10. ASSUME i # l + 1, j = n + 1 PROVE Goal
  <2>1. i \in 1 .. l /\ ~(i > l) /\ j > n
    BY <1>2, <1>3, <1>10
  <2>2. side = "A"
    BY <1>1, <2>1 DEF Side, side
  <2>3. i2 = i + 1 /\ j2 = j
    BY <2>2
  <2>. HIDE DEF i2, j2
  <2>4. RA(i) = RA(i2) \union {x[i]} /\ x[i] \notin RA(i2) /\ RB(j) = {} /\ RB(j2) = {}
    <3>1. /\ RA(i) = RA(i2) \union {x[i]} /\ (\A v \in RA(i2) : x[i] < v)
          /\ RB(j) = {} /\ RB(j2) = {}
      BY <1>4, <1>5, <1>6, <1>10, <2>1, <2>3
    <3>2. x[i] \in Nat
      BY <1>2, <2>1
    <3>3. x[i] \in RA(i2) => x[i] < x[i]
      BY <3>1
    <3>. QED BY <3>1, <3>2, <3>3
  <2>5. <<i2, j2>> \in Places(ta, tb) /\ i <= i2 /\ j <= j2 /\ i2 # i
    BY <1>1, <1>2, <1>3, <2>1, <2>3 DEF Places
  <2>6. /\ RA(i) \union RB(j) = (RA(i2) \union RB(j2)) \union {x[i]}
        /\ x[i] \notin RA(i2) \union RB(j2)
    BY <2>3, <2>4
  <2>. QED BY <2>5, <2>6 DEF Goal
<1>11. ASSUME i # l + 1, j # n + 1 PROVE Goal
  <2>1. i \in 1 .. l /\ ~(i > l) /\ j \in 1 .. n /\ ~(j > n)
    BY <1>2, <1>3, <1>11
  <2>2. side = IF x[i] = y[j] THEN "both" ELSE IF x[i] < y[j] THEN "A" ELSE "B"
    BY <1>1, <2>1 DEF Side, side
  <2>3. x[i] \in Nat /\ y[j] \in Nat
    BY <1>2, <2>1
  <2>4. /\ RA(i) = RA(i + 1) \union {x[i]} /\ RB(j) = RB(j + 1) \union {y[j]}
        /\ \A v \in RA(i + 1) : x[i] < v
        /\ \A v \in RB(j + 1) : y[j] < v
    BY <1>4, <1>5, <2>1
  <2>5. i \in Nat /\ j \in Nat /\ i + 1 \in 1 .. l + 1 /\ j + 1 \in 1 .. n + 1
    BY <1>2, <2>1
  <2>6. ASSUME x[i] = y[j] PROVE Goal
    <3>1. i2 = i + 1 /\ j2 = j + 1
      BY <2>2, <2>6
    <3>. HIDE DEF i2, j2
    <3>2. <<i2, j2>> \in Places(ta, tb) /\ i <= i2 /\ j <= j2 /\ i2 # i
      BY <1>1, <2>5, <3>1 DEF Places
    <3>3. x[i] \notin RA(i2) /\ x[i] \notin RB(j2)
      BY <2>3, <2>4, <2>6, <3>1
    <3>4. RA(i) \union RB(j) = (RA(i2) \union RB(j2)) \union {x[i]}
      BY <2>4, <2>6, <3>1
    <3>5. /\ RA(i) \union RB(j) = (RA(i2) \union RB(j2)) \union {x[i]}
          /\ x[i] \notin RA(i2) \union RB(j2)
      BY <3>1, <3>3, <3>4
    <3>. QED BY <3>2, <3>5 DEF Goal
  <2>7. ASSUME x[i] < y[j] PROVE Goal
    <3>1. i2 = i + 1 /\ j2 = j
      BY <2>2, <2>3, <2>7
    <3>. HIDE DEF i2, j2
    <3>2. <<i2, j2>> \in Places(ta, tb) /\ i <= i2 /\ j <= j2 /\ i2 # i
      BY <1>1, <1>3, <2>5, <3>1 DEF Places
    <3>3. x[i] \notin RA(i2) /\ x[i] \notin RB(j)
      <4>1. x[i] \notin RA(i2)
        BY <2>3, <2>4, <3>1
      <4>2. x[i] \notin RB(j + 1)
        <5>1. ASSUME x[i] \in RB(j + 1) PROVE FALSE
          <6>1. y[j] < x[i]
            BY <2>4, <5>1
          <6>. QED BY <2>3, <2>7, <6>1
        <5>. QED BY <5>1
      <4>3. x[i] # y[j]
        BY <2>3, <2>7
      <4>. QED BY <2>4, <4>1, <4>2, <4>3
    <3>4. RA(i) \union RB(j) = (RA(i2) \union RB(j)) \union {x[i]}
      BY <2>4, <3>1
    <3>5. /\ RA(i) \union RB(j) = (RA(i2) \union RB(j2)) \union {x[i]}
          /\ x[i] \notin RA(i2) \union RB(j2)
      BY <3>1, <3>3, <3>4
    <3>. QED BY <3>2, <3>5 DEF Goal
  <2>8. ASSUME y[j] < x[i] PROVE Goal
    <3>1. i2 = i /\ j2 = j + 1
      BY <2>2, <2>3, <2>8
    <3>. HIDE DEF i2, j2
    <3>2. <<i2, j2>> \in Places(ta, tb) /\ i <= i2 /\ j <= j2 /\ j2 # j
      BY <1>1, <1>3, <2>5, <3>1 DEF Places
    <3>3. y[j] \notin RA(i) /\ y[j] \notin RB(j2)
      <4>1. y[j] \notin RB(j2)
        BY <2>3, <2>4, <3>1
      <4>2. y[j] \notin RA(i + 1)
        <5>1. ASSUME y[j] \in RA(i + 1) PROVE FALSE
          <6>1. x[i] < y[j]
            BY <2>4, <5>1
          <6>. QED BY <2>3, <2>8, <6>1
        <5>. QED BY <5>1
      <4>3. x[i] # y[j]
        BY <2>3, <2>8
      <4>. QED BY <2>4, <4>1, <4>2, <4>3
    <3>4. RA(i) \union RB(j) = (RA(i) \union RB(j2)) \union {y[j]}
      BY <2>4, <3>1
    <3>5. /\ RA(i) \union RB(j) = (RA(i2) \union RB(j2)) \union {y[j]}
          /\ y[j] \notin RA(i2) \union RB(j2)
      BY <3>1, <3>3, <3>4
    <3>. QED BY <3>2, <3>5 DEF Goal
  <2>. QED BY <2>3, <2>6, <2>7, <2>8
<1>12. Goal
  BY <1>9, <1>10, <1>11
<1>13. /\ Rest(x, y, p) = RA(i) \union RB(j)
       /\ Rest(x, y, <<i2, j2>>) = RA(i2) \union RB(j2)
  <2>. HIDE DEF i2, j2
  <2>1. Rest(x, y, <<i2, j2>>) = RA(<<i2, j2>>[1]) \union RB(<<i2, j2>>[2])
    BY <1>7
  <2>2. <<i2, j2>>[1] = i2 /\ <<i2, j2>>[2] = j2
    OBVIOUS
  <2>3. Rest(x, y, p) = RA(p[1]) \union RB(p[2])
    BY <1>7
  <2>. QED BY <2>1, <2>2, <2>3 DEF i, j
<1>14. LET q == <<i2, j2>>
       IN  /\ q \in Places(ta, tb)
           /\ i <= q[1] /\ j <= q[2] /\ q # p
           /\ \E v : Rest(x, y, p) = Rest(x, y, q) \union {v} /\ v \notin Rest(x, y, q)
  <2>. HIDE DEF i2, j2
  <2>. QED BY <1>3, <1>12, <1>13 DEF Goal
<1>. QED BY <1>8, <1>14 DEF i, j

(* The number CountTokens announces is that of the values of both sides.   *)
LEMMA CountsUnion ==
  ASSUME NEW S, NEW x, Lists(x, S), NEW T, NEW y, Lists(y, T), Numbers(S \union T),
         NEW ta, Valued(ta, x), NEW tb, Valued(tb, y)
  PROVE  CountTokens(ta, tb) = Cardinality(S \union T)
<1>. DEFINE l == Len(x)
            n == Len(y)
            P == Places(ta, tb)
            end == <<Len(ta) + 1, Len(tb) + 1>>
            R(p) == Rest(x, y, p)
            g == [p \in P |-> Cardinality(R(p))]
            left(p) == (l + 1 - p[1]) + (n + 1 - p[2])
<1>1. l \in Nat /\ n \in Nat /\ Len(ta) = l /\ Len(tb) = n
  BY DEF Lists, Valued
<1>2. \A p \in P : /\ p[1] \in 1 .. l + 1 /\ p[2] \in 1 .. n + 1 /\ left(p) \in Nat
                   /\ p = <<p[1], p[2]>>
  BY <1>1 DEF Places
<1>3. ASSUME NEW p \in P PROVE IsFiniteSet(R(p)) /\ Cardinality(R(p)) \in Nat
  <2>1. IsFiniteSet({x[m] : m \in p[1] .. l})
    <3>1. p[1] .. l \in SUBSET (1 .. l)
      BY <1>1, <1>2
    <3>. QED BY <1>1, <3>1, FiniteImage
  <2>2. IsFiniteSet({y[m] : m \in p[2] .. n})
    <3>1. p[2] .. n \in SUBSET (1 .. n)
      BY <1>1, <1>2
    <3>. QED BY <1>1, <3>1, FiniteImage
  <2>3. IsFiniteSet(R(p))
    BY <2>1, <2>2, FS_Union DEF Rest
  <2>. QED BY <2>3, FS_CardinalityType
<1>4. ASSUME NEW p \in P, p # end
      PROVE  LET q == NextPlace(ta, tb, p)
             IN q \in P /\ left(q) < left(p) /\ Cardinality(R(p)) = 1 + Cardinality(R(q))
  <2>. DEFINE q == NextPlace(ta, tb, p)
  <2>1. /\ q \in P
        /\ p[1] <= q[1] /\ p[2] <= q[2] /\ q # p
        /\ \E v : R(p) = R(q) \union {v} /\ v \notin R(q)
    BY <1>4, RestStep
  <2>. HIDE DEF q, R, P
  <2>2. left(q) < left(p)
    <3>1. q = <<q[1], q[2]>> /\ p = <<p[1], p[2]>>
      BY <1>2, <2>1
    <3>2. q[1] # p[1] \/ q[2] # p[2]
      BY <2>1, <3>1
    <3>3. /\ q[1] \in 1 .. l + 1 /\ q[2] \in 1 .. n + 1
          /\ p[1] \in 1 .. l + 1 /\ p[2] \in 1 .. n + 1
      BY <1>2, <2>1
    <3>. DEFINE p1 == p[1]
                p2 == p[2]
                q1 == q[1]
                q2 == q[2]
    <3>4. /\ l \in Nat /\ n \in Nat /\ p1 \in Nat /\ p2 \in Nat /\ q1 \in Nat /\ q2 \in Nat
          /\ p1 <= q1 /\ p2 <= q2 /\ (q1 # p1 \/ q2 # p2)
      BY <1>1, <2>1, <3>2, <3>3
    <3>. HIDE DEF l, n, p1, p2, q1, q2
    <3>5. (l + 1 - q1) + (n + 1 - q2) < (l + 1 - p1) + (n + 1 - p2)
      BY <3>4
    <3>. QED BY <3>5 DEF p1, p2, q1, q2
  <2>3. Cardinality(R(p)) = 1 + Cardinality(R(q))
    <3>1. PICK v : R(p) = R(q) \union {v} /\ v \notin R(q)
      BY <2>1
    <3>2. IsFiniteSet(R(q)) /\ Cardinality(R(q)) \in Nat
      BY <1>3, <2>1
    <3>3. Cardinality(R(q) \union {v}) = Cardinality(R(q)) + 1
      BY <3>1, <3>2, FS_AddElement
    <3>. QED BY <3>1, <3>2, <3>3
  <2>. QED BY <2>1, <2>2, <2>3 DEF q
<1>5. end \in P /\ Cardinality(R(end)) = 0 /\ <<1, 1>> \in P
  <2>1. end = <<l + 1, n + 1>>
    BY <1>1
  <2>2. end \in P /\ <<1, 1>> \in P
    BY <1>1 DEF Places
  <2>3. R(end) = {}
    <3>1. R(<<l + 1, n + 1>>) = {x[m] : m \in l + 1 .. l} \union {y[m] : m \in n + 1 .. n}
      BY DEF Rest
    <3>. HIDE DEF R
    <3>2. {x[m] : m \in l + 1 .. l} = {} /\ {y[m] : m \in n + 1 .. n} = {}
      BY <1>1
    <3>. QED BY <2>1, <3>1, <3>2
  <2>4. Cardinality({}) = 0
    BY FS_EmptySet
  <2>. HIDE DEF R
  <2>. QED BY <2>2, <2>3, <2>4
<1>. HIDE DEF R, P, end, left
<1>6. \A p \in P : g[p] = Cardinality(R(p))
  OBVIOUS
<1>7. Counting(g, ta, tb)
  <2>1. \A p \in P : Cardinality(R(p))
                       = IF p = end THEN 0 ELSE 1 + g[NextPlace(ta, tb, p)]
    BY <1>4, <1>5, <1>6
  <2>2. g = [p \in P |-> IF p = end THEN 0 ELSE 1 + g[NextPlace(ta, tb, p)]]
    <3>. DEFINE e(p) == IF p = end THEN 0 ELSE 1 + g[NextPlace(ta, tb, p)]
    <3>1. \A p \in P : Cardinality(R(p)) = e(p)
      BY <2>1
    <3>2. g = [p \in P |-> e(p)]
      <4>. HIDE DEF e
      <4>. QED BY <3>1
    <3>. QED BY <3>2
  <2>. HIDE DEF g
  <2>. QED BY <2>2 DEF Counting, P, end
<1>8. ASSUME NEW f, Counting(f, ta, tb) PROVE f[<<1, 1>>] = g[<<1, 1>>]
  <2>1. f = [p \in P |-> IF p = end THEN 0 ELSE 1 + f[NextPlace(ta, tb, p)]]
    BY <1>8 DEF Counting, P, end
  <2>2. \A p \in P : f[p] = IF p = end THEN 0 ELSE 1 + f[NextPlace(ta, tb, p)]
    BY <2>1
  <2>. DEFINE N == {m \in Nat : \A p \in P : left(p) = m => f[p] = g[p]}
  <2>. HIDE DEF g
  <2>3. ASSUME NEW m \in Nat, \A k \in Nat : k < m => k \in N PROVE m \in N
    <3>. SUFFICES ASSUME NEW p \in P, left(p) = m PROVE f[p] = g[p]
      OBVIOUS
    <3>1. CASE p = end
      BY <1>5, <1>6, <2>2, <3>1
    <3>2. CASE p # end
      <4>. DEFINE q == NextPlace(ta, tb, p)
      <4>1. q \in P /\ left(q) < left(p) /\ Cardinality(R(p)) = 1 + Cardinality(R(q))
        BY <1>4, <3>2
      <4>2. f[p] = 1 + f[q]
        BY <2>2, <3>2
      <4>. HIDE DEF q
      <4>3. left(q) \in Nat /\ left(q) < m
        BY <1>2, <4>1
      <4>4. f[q] = g[q]
        BY <2>3, <4>1, <4>3
      <4>. QED BY <1>6, <4>1, <4>2, <4>4
    <3>. QED BY <3>1, <3>2
  <2>4. \A m \in Nat : m \in N
    <3>. HIDE DEF N
    <3>. QED BY <2>3, NatStrongInductive
  <2>5. left(<<1, 1>>) \in Nat
    BY <1>2, <1>5
  <2>. QED BY <1>5, <2>4, <2>5
<1>9. CountTokens(ta, tb) = g[<<1, 1>>]
  <2>. DEFINE h == CHOOSE f : Counting(f, ta, tb)
  <2>. HIDE DEF g
  <2>1. Counting(h, ta, tb)
    BY <1>7
  <2>2. CountTokens(ta, tb) = h[<<1, 1>>]
    BY CountingIs
  <2>. HIDE DEF h
  <2>. QED BY <1>8, <2>1, <2>2
<1>10. R(<<1, 1>>) = S \union T
  <2>1. /\ x \in [1 .. l -> S] /\ \A s \in S : \E m \in 1 .. l : x[m] = s
        /\ y \in [1 .. n -> T] /\ \A s \in T : \E m \in 1 .. n : y[m] = s
    BY DEF Lists
  <2>2. {x[m] : m \in 1 .. l} = S /\ {y[m] : m \in 1 .. n} = T
    BY <2>1
  <2>3. R(<<1, 1>>) = {x[m] : m \in 1 .. l} \union {y[m] : m \in 1 .. n}
    BY DEF R, Rest
  <2>. QED BY <2>2, <2>3
<1>. QED BY <1>5, <1>6, <1>9, <1>10

-----------------------------------------------------------------------------
(* The function AddOffsetFrom defines.                                     *)
Chunk(rest) == {e \in rest : Cardinality({x \in rest : x <= e}) <= ChunkSize}
Reading(f, src, n) ==
  f = [rest \in SUBSET src |->
         IF Cardinality(Chunk(rest)) < StopBelow THEN Behind(Chunk(rest), n)
         ELSE Behind(Chunk(rest), n) \union f[rest \ Chunk(rest)]]

(* AddOffsetFrom is the value of that function for the whole bitmap.       *)
LEMMA ReadingIs ==
  ASSUME NEW dst, NEW src
  PROVE  AddOffsetFrom(dst, src)
           = dst \union (CHOOSE f : Reading(f, src, DocumentOffset))[src]
  BY DEF AddOffsetFrom, Reading, Chunk, Behind

(* A chunk that is not full enough to be followed by another is the rest.  *)
LEMMA ChunkEnds ==
  ASSUME NEW rest, IsFiniteSet(rest), Numbers(rest)
  PROVE  /\ IsFiniteSet(Chunk(rest)) /\ Cardinality(Chunk(rest)) \in Nat
         /\ Cardinality(Chunk(rest)) < StopBelow => Chunk(rest) = rest
<1>. DEFINE y == Ascending(rest)
            c == Cardinality(rest)
<1>1. ChunkSize \in Nat \ {0} /\ StopBelow \in 1 .. ChunkSize
  BY MergerAssumption
<1>2. Chunk(rest) \in SUBSET rest
  BY DEF Chunk
<1>3. IsFiniteSet(Chunk(rest)) /\ Cardinality(Chunk(rest)) \in Nat
  BY <1>2, FS_Subset, FS_CardinalityType
<1>4. ASSUME Chunk(rest) # rest PROVE Cardinality(Chunk(rest)) >= ChunkSize
  <2>1. /\ Lists(y, rest) /\ Len(y) = c /\ c \in Nat
        /\ \A k \in 1 .. c : Cardinality({e \in rest : e < y[k]}) = k - 1
    BY AscendingLists, FS_CardinalityType
  <2>. HIDE DEF y, c
  <2>2. /\ y \in [1 .. c -> rest] /\ \A i, j \in 1 .. c : i < j => y[i] < y[j]
        /\ \A e \in rest : \E i \in 1 .. c : y[i] = e
    BY <2>1 DEF Lists, Climbs
  <2>3. \A k \in 1 .. c : y[k] \in Nat
    BY <2>2 DEF Numbers
  <2>4. ASSUME NEW k \in 1 .. c PROVE Cardinality({e \in rest : e <= y[k]}) = k
    <3>1. {e \in rest : e <= y[k]} = {e \in rest : e < y[k]} \union {y[k]}
      BY <2>2, <2>3 DEF Numbers
    <3>2. y[k] \notin {e \in rest : e < y[k]}
      BY <2>3
    <3>3. IsFiniteSet({e \in rest : e < y[k]})
      BY FS_Subset
    <3>. DEFINE W == {e \in rest : e < y[k]}
                X == {e \in rest : e <= y[k]}
    <3>4. Cardinality(W) = k - 1
      BY <2>1
    <3>. HIDE DEF W, X
    <3>5. Cardinality(W \union {y[k]}) = Cardinality(W) + 1
      BY <3>2, <3>3, FS_AddElement DEF W
    <3>6. X = W \union {y[k]}
      BY <3>1 DEF W, X
    <3>7. Cardinality(X) = k
      BY <3>4, <3>5, <3>6
    <3>. QED BY <3>7 DEF X
  <2>5. \A k \in 1 .. c : y[k] \in Chunk(rest) <=> k <= ChunkSize
    BY <2>2, <2>4 DEF Chunk
  <2>6. c > ChunkSize
    <3>1. PICK e \in rest : e \notin Chunk(rest)
      BY <1>2, <1>4
    <3>2. PICK k \in 1 .. c : y[k] = e
      BY <2>2
    <3>. QED BY <1>1, <2>1, <2>5, <3>1, <3>2
  <2>. DEFINE z == [k \in 1 .. ChunkSize |-> y[k]]
  <2>7. z \in Injection(1 .. ChunkSize, Chunk(rest))
    <3>1. \A k \in 1 .. ChunkSize : k \in 1 .. c
      BY <1>1, <2>1, <2>6
    <3>2. z \in [1 .. ChunkSize -> Chunk(rest)]
      BY <2>5, <3>1
    <3>3. ASSUME NEW i \in 1 .. ChunkSize, NEW j \in 1 .. ChunkSize, z[i] = z[j] PROVE i = j
      <4>1. y[i] = y[j] /\ i \in 1 .. c /\ j \in 1 .. c
        BY <3>1, <3>3
      <4>2. ~(i < j) /\ ~(j < i)
        BY <2>2, <2>3, <4>1
      <4>. QED BY <4>1, <4>2
    <3>. HIDE DEF z
    <3>. QED BY <3>2, <3>3 DEF Injection, IsInjective
  <2>8. IsFiniteSet(1 .. ChunkSize) /\ Cardinality(1 .. ChunkSize) = ChunkSize
    <3>1. IsFiniteSet(1 .. ChunkSize)
          /\ Cardinality(1 .. ChunkSize) = IF 1 > ChunkSize THEN 0 ELSE ChunkSize - 1 + 1
      BY <1>1, FS_Interval
    <3>. QED BY <1>1, <3>1
  <2>9. \A W, U : IsFiniteSet(U) => \A f \in Injection(W, U) :
          IsFiniteSet(W) /\ Cardinality(W) <= Cardinality(U)
    BY FS_Injection
  <2>. HIDE DEF z
  <2>10. Cardinality(1 .. ChunkSize) <= Cardinality(Chunk(rest))
    BY <1>3, <2>7, <2>9
  <2>. QED BY <1>1, <1>3, <2>8, <2>10
<1>5. Cardinality(Chunk(rest)) < StopBelow => Chunk(rest) = rest
  BY <1>1, <1>3, <1>4
<1>. QED BY <1>3, <1>5

(* addOffsetFrom adds every document of the source, moved behind those of  *)
(* A, whatever the size of the chunks: it stops after a short chunk, and   *)
(* the chunk that ends the bitmap is the only short one.                   *)
LEMMA OffsetAdded ==
  ASSUME NEW dst, NEW src, IsFiniteSet(src), Numbers(src)
  PROVE  AddOffsetFrom(dst, src) = dst \union Behind(src, DocumentOffset)
<1>. DEFINE n == DocumentOffset
            g == [rest \in SUBSET src |-> Behind(rest, n)]
<1>1. StopBelow \in Nat /\ StopBelow >= 1
  BY MergerAssumption
<1>2. ASSUME NEW rest \in SUBSET src
      PROVE  /\ IsFiniteSet(rest) /\ Cardinality(rest) \in Nat
             /\ IsFiniteSet(Chunk(rest)) /\ Cardinality(Chunk(rest)) \in Nat
             /\ Cardinality(Chunk(rest)) < StopBelow => Chunk(rest) = rest
             /\ Chunk(rest) \subseteq rest
             /\ rest \ Chunk(rest) \in SUBSET src
  <2>1. IsFiniteSet(rest) /\ Numbers(rest) /\ Cardinality(rest) \in Nat
    BY FS_Subset, FS_CardinalityType DEF Numbers
  <2>2. Chunk(rest) \subseteq rest
    BY DEF Chunk
  <2>. QED BY <2>1, <2>2, ChunkEnds
<1>. HIDE DEF n
<1>3. Reading(g, src, n)
  <2>. DEFINE e(rest) == IF Cardinality(Chunk(rest)) < StopBelow THEN Behind(Chunk(rest), n)
                         ELSE Behind(Chunk(rest), n) \union g[rest \ Chunk(rest)]
  <2>1. ASSUME NEW rest \in SUBSET src PROVE Behind(rest, n) = e(rest)
    <3>1. CASE Cardinality(Chunk(rest)) < StopBelow
      BY <1>2, <3>1
    <3>2. CASE ~(Cardinality(Chunk(rest)) < StopBelow)
      <4>1. g[rest \ Chunk(rest)] = Behind(rest \ Chunk(rest), n)
        BY <1>2
      <4>2. Behind(rest, n) = Behind(Chunk(rest), n) \union Behind(rest \ Chunk(rest), n)
        BY <1>2 DEF Behind
      <4>. QED BY <3>2, <4>1, <4>2
    <3>. QED BY <3>1, <3>2
  <2>2. g = [rest \in SUBSET src |-> e(rest)]
    <3>. HIDE DEF e
    <3>. QED BY <2>1
  <2>. QED BY <2>2 DEF Reading
<1>4. ASSUME NEW f, Reading(f, src, n) PROVE f[src] = g[src]
  <2>1. \A rest \in SUBSET src :
          f[rest] = IF Cardinality(Chunk(rest)) < StopBelow THEN Behind(Chunk(rest), n)
                    ELSE Behind(Chunk(rest), n) \union f[rest \ Chunk(rest)]
    BY <1>4 DEF Reading
  <2>. DEFINE N == {m \in Nat : \A rest \in SUBSET src :
                                  Cardinality(rest) = m => f[rest] = Behind(rest, n)}
  <2>2. ASSUME NEW m \in Nat, \A k \in Nat : k < m => k \in N PROVE m \in N
    <3>. SUFFICES ASSUME NEW rest \in SUBSET src, Cardinality(rest) = m
                  PROVE  f[rest] = Behind(rest, n)
      OBVIOUS
    <3>1. CASE Cardinality(Chunk(rest)) < StopBelow
      BY <1>2, <2>1, <3>1
    <3>2. CASE ~(Cardinality(Chunk(rest)) < StopBelow)
      <4>. DEFINE less == rest \ Chunk(rest)
      <4>1. Chunk(rest) # {}
        BY <1>1, <1>2, <3>2, FS_EmptySet
      <4>2. PICK v \in rest : v \notin less
        BY <1>2, <4>1
      <4>3. less \in SUBSET rest /\ less \in SUBSET src
        BY <1>2
      <4>4. f[rest] = Behind(Chunk(rest), n) \union f[less]
        BY <2>1, <3>2
      <4>5. Behind(rest, n) = Behind(Chunk(rest), n) \union Behind(less, n)
        BY <1>2 DEF Behind
      <4>. HIDE DEF less
      <4>6. Cardinality(less) \in Nat /\ Cardinality(less) < Cardinality(rest)
        BY <1>2, <4>2, <4>3, SmallerSubset
      <4>7. f[less] = Behind(less, n)
        BY <2>2, <4>3, <4>6
      <4>. QED BY <4>4, <4>5, <4>7
    <3>. QED BY <3>1, <3>2
  <2>3. \A m \in Nat : m \in N
    <3>. HIDE DEF N
    <3>. QED BY <2>2, NatStrongInductive
  <2>4. Cardinality(src) \in Nat
    BY FS_CardinalityType
  <2>5. f[src] = Behind(src, n)
    BY <2>3, <2>4
  <2>. QED BY <2>5
<1>. DEFINE h == CHOOSE f : Reading(f, src, n)
<1>5. Reading(h, src, n)
  <2>. HIDE DEF g
  <2>. QED BY <1>3
<1>6. AddOffsetFrom(dst, src) = dst \union h[src]
  BY ReadingIs DEF n
<1>7. g[src] = Behind(src, n)
  OBVIOUS
<1>. HIDE DEF h, g
<1>. QED BY <1>4, <1>5, <1>6, <1>7 DEF n

-----------------------------------------------------------------------------
(***************************************************************************)
(* The two storages and the documents of both.                             *)
(***************************************************************************)
Sound(s, docs) == IsBatch(docs) /\ Indexes(s, docs) /\ Typed(s)
Inputs == Sound(a, docsA) /\ Sound(b, docsB)
All == docsA \o docsB

(* What a storage says of the tokens of a field, a field it does not have  *)
(* included.                                                               *)
LEMMA FieldTokens ==
  ASSUME NEW s, NEW docs, Sound(s, docs), NEW f
  PROVE  LET ts == TokensIn(s, f)
         IN  /\ ts \in Seq(Token)
             /\ Valued(ts, Vals(docs, f))
             /\ \A m \in 1 .. Len(ts) :
                  /\ ts[m] \in Token
                  /\ ts[m].list + 1 \in 1 .. Len(s.lists)
                  /\ s.lists[ts[m].list + 1] = Holders(docs, f, ts[m].value)
                  /\ ts[m].count = Cardinality(Holders(docs, f, ts[m].value))
                  /\ Slice(s, ts[m]) = EntriesOf(docs, f, ts[m].value)
<1>. DEFINE ts == TokensIn(s, f)
            A == Vals(docs, f)
<1>1. IsBatch(docs) /\ Indexes(s, docs) /\ Typed(s)
  BY DEF Sound
<1>2. DOMAIN s.fields = FieldsOf(docs) /\ \A g \in FieldsOf(docs) : IndexesField(s, docs, g)
  BY <1>1 DEF Indexes
<1>3. s.lists \in Seq(SUBSET Nat)
  BY <1>1 DEF Typed
<1>4. DOMAIN s.lists = 1 .. Len(s.lists)
  <2>. DEFINE x == s.lists
  <2>1. x \in Seq(SUBSET Nat)
    BY <1>3
  <2>. HIDE DEF x
  <2>2. DOMAIN x = 1 .. Len(x)
    BY <2>1
  <2>. QED BY <2>2 DEF x
<1>5. CASE f \in FieldsOf(docs)
  <2>1. ts = s.fields[f].tokens
    BY <1>2, <1>5 DEF TokensIn
  <2>2. ts \in Seq(Token)
    BY <1>1, <1>2, <1>5, <2>1 DEF Typed
  <2>3. /\ [k \in DOMAIN ts |-> ts[k].value] = A
        /\ \A k \in DOMAIN ts :
             /\ ts[k].list + 1 \in DOMAIN s.lists
             /\ s.lists[ts[k].list + 1] = Holders(docs, f, ts[k].value)
             /\ ts[k].count = Cardinality(Holders(docs, f, ts[k].value))
             /\ Slice(s, ts[k]) = EntriesOf(docs, f, ts[k].value)
    BY SMTT(30), <1>2, <1>5, <2>1 DEF IndexesField, Vals
  <2>. HIDE DEF ts, A
  <2>4. DOMAIN ts = 1 .. Len(ts) /\ Len(ts) \in Nat /\ \A m \in 1 .. Len(ts) : ts[m] \in Token
    BY <2>2
  <2>5. Len(ts) = Len(A) /\ \A m \in 1 .. Len(A) : ts[m].value = A[m]
    BY <2>3, <2>4
  <2>6. Valued(ts, A)
    BY <2>5 DEF Valued
  <2>. QED BY <1>4, <2>2, <2>3, <2>4, <2>6 DEF ts, A
<1>6. CASE f \notin FieldsOf(docs)
  <2>1. ts = << >>
    BY <1>2, <1>6 DEF TokensIn
  <2>2. ValuesOf(docs, f) = {}
    BY <1>6 DEF ValuesOf, FieldsOf
  <2>3. Len(A) = 0
    <3>1. Len(A) = Cardinality(ValuesOf(docs, f))
      BY <1>1, ValuesListed DEF Vals
    <3>. QED BY <2>2, <3>1, FS_EmptySet
  <2>. HIDE DEF ts, A
  <2>4. Len(ts) = 0 /\ ts \in Seq(Token)
    BY <2>1
  <2>5. Valued(ts, A)
    BY <2>3, <2>4 DEF Valued
  <2>. QED BY <2>4, <2>5 DEF ts, A
<1>. QED BY <1>5, <1>6

(* A value that no document has, has no posting list and no frequencies.   *)
LEMMA NoHolders ==
  ASSUME NEW docs, IsBatch(docs), NEW f, NEW v, v \notin ValuesOf(docs, f)
  PROVE  /\ Holders(docs, f, v) = {} /\ Cardinality(Holders(docs, f, v)) = 0
         /\ EntriesOf(docs, f, v) = << >>
<1>1. Holders(docs, f, v) = {}
  BY DEF Holders, ValuesOf, HasToken
<1>2. Cardinality(Holders(docs, f, v)) = 0
  BY <1>1, FS_EmptySet
<1>3. EntriesOf(docs, f, v) \in Seq(Entry) /\ Len(EntriesOf(docs, f, v)) = 0
  BY <1>2, EntriesAre
<1>4. EntriesOf(docs, f, v) = << >>
  <2>. DEFINE x == EntriesOf(docs, f, v)
  <2>1. x \in Seq(Entry) /\ Len(x) = 0
    BY <1>3
  <2>. HIDE DEF x
  <2>2. x = << >>
    BY <2>1
  <2>. QED BY <2>2 DEF x
<1>. QED BY <1>1, <1>2, <1>4

(* The values of a field of both storages.                                 *)
LEMMA AllValues ==
  ASSUME Inputs, NEW f
  PROVE  LET S == ValuesOf(docsA, f)
             T == ValuesOf(docsB, f)
         IN  /\ IsBatch(docsA) /\ IsBatch(docsB) /\ IsBatch(All)
             /\ Lists(Vals(docsA, f), S) /\ Lists(Vals(docsB, f), T)
             /\ ValuesOf(All, f) = S \union T
             /\ Lists(Vals(All, f), S \union T) /\ Numbers(S \union T)
             /\ Valued(TokensIn(a, f), Vals(docsA, f))
             /\ Valued(TokensIn(b, f), Vals(docsB, f))
             /\ Len(Vals(All, f)) = Cardinality(ValuesOf(All, f))
             /\ Cardinality(ValuesOf(All, f)) \in Nat
             /\ DocumentOffset = Len(docsA) /\ Len(docsA) \in Nat
<1>1. IsBatch(docsA) /\ IsBatch(docsB) /\ Sound(a, docsA) /\ Sound(b, docsB)
  BY DEF Inputs, Sound
<1>2. IsBatch(All)
  BY <1>1, BatchConcat DEF All
<1>3. ValuesOf(All, f) = ValuesOf(docsA, f) \union ValuesOf(docsB, f)
  BY <1>1, SetsConcat DEF All
<1>4. /\ Lists(Vals(docsA, f), ValuesOf(docsA, f))
      /\ Lists(Vals(docsB, f), ValuesOf(docsB, f))
  BY <1>1, ValuesListed DEF Vals
<1>5. /\ Lists(Vals(All, f), ValuesOf(All, f))
      /\ Len(Vals(All, f)) = Cardinality(ValuesOf(All, f))
      /\ Cardinality(ValuesOf(All, f)) \in Nat
  BY <1>2, ValuesListed DEF Vals
<1>6. Numbers(ValuesOf(All, f))
  BY <1>2, BatchSets
<1>7. Valued(TokensIn(a, f), Vals(docsA, f)) /\ Valued(TokensIn(b, f), Vals(docsB, f))
  BY <1>1, FieldTokens
<1>8. DocumentOffset = Len(docsA) /\ Len(docsA) \in Nat
  <2>1. a.ids = [k \in DOMAIN docsA |-> docsA[k].id]
    BY <1>1 DEF Sound, Indexes
  <2>2. DOMAIN docsA = 1 .. Len(docsA) /\ Len(docsA) \in Nat
    BY <1>1, BatchSets
  <2>3. Len(a.ids) = Len(docsA)
    BY <2>1, <2>2
  <2>. QED BY <2>2, <2>3 DEF DocumentOffset
<1>. QED BY <1>1, <1>2, <1>3, <1>4, <1>5, <1>6, <1>7, <1>8

(* Merger moves B's entries behind A's documents.                          *)
LEMMA ShiftedIsMoved ==
  ASSUME Inputs, NEW q
  PROVE  Shifted(q) = Moved(q, Len(docsA))
<1>1. DocumentOffset = Len(docsA)
  BY AllValues
<1>. QED BY <1>1 DEF Shifted, Moved

(***************************************************************************)
(* One turn of a walk: what it takes, and where it leaves the walk.        *)
(***************************************************************************)
TurnValue == IF WalkSide = "B" THEN TokenB.value ELSE TokenA.value
TurnFreqsA == IF WalkSide = "B" THEN << >> ELSE Slice(a, TokenA)
TurnFreqsB == IF WalkSide = "A" THEN << >> ELSE Shifted(Slice(b, TokenB))
TurnNote == [a |-> IF WalkSide = "B" THEN -1 ELSE TokenA.list,
             b |-> IF WalkSide = "A" THEN -1 ELSE TokenB.list]
Stepped == [walk EXCEPT !.i = IF WalkSide = "B" THEN @ ELSE @ + 1,
                        !.j = IF WalkSide = "A" THEN @ ELSE @ + 1]

(* The walk has taken the first k values of its field.                     *)
Taken(x, y, f, i, j, k) ==
  Cut(Ascending(ValuesOf(x, f)), Ascending(ValuesOf(y, f)),
      Ascending(ValuesOf(x \o y, f)), i, j, k)

Shaped(w) == w = [field |-> w.field, i |-> w.i, j |-> w.j]

(* The sides a turn takes from, and the token it takes there.              *)
LEMMA TurnSides ==
  ASSUME Inputs, NEW k, Taken(docsA, docsB, walk.field, walk.i, walk.j, k), Walking,
         Shaped(walk)
  PROVE  LET f == walk.field
             v == Vals(All, f)[k + 1]
         IN  /\ k + 1 \in 1 .. Cardinality(ValuesOf(All, f))
             /\ v \in ValuesOf(All, f)
             /\ WalkSide \in {"A", "B", "both"}
             /\ WalkSide = "B" <=> v \notin ValuesOf(docsA, f)
             /\ WalkSide = "A" <=> v \notin ValuesOf(docsB, f)
             /\ WalkSide # "B" => /\ TokenA \in Token
                                  /\ TokenA.value = v
                                  /\ TokenA.list + 1 \in 1 .. Len(a.lists)
                                  /\ a.lists[TokenA.list + 1] = Holders(docsA, f, v)
                                  /\ TokenA.count = Cardinality(Holders(docsA, f, v))
                                  /\ Slice(a, TokenA) = EntriesOf(docsA, f, v)
             /\ WalkSide # "A" => /\ TokenB \in Token
                                  /\ TokenB.value = v
                                  /\ TokenB.list + 1 \in 1 .. Len(b.lists)
                                  /\ b.lists[TokenB.list + 1] = Holders(docsB, f, v)
                                  /\ TokenB.count = Cardinality(Holders(docsB, f, v))
                                  /\ Slice(b, TokenB) = EntriesOf(docsB, f, v)
             /\ Taken(docsA, docsB, f, Stepped.i, Stepped.j, k + 1)
             /\ Shaped(Stepped) /\ Stepped.field = f
<1>. DEFINE f == walk.field
            x == Vals(docsA, f)
            y == Vals(docsB, f)
            z == Vals(All, f)
            S == ValuesOf(docsA, f)
            T == ValuesOf(docsB, f)
            ta == TokensIn(a, f)
            tb == TokensIn(b, f)
            v == z[k + 1]
            i == walk.i
            j == walk.j
<1>1. /\ Lists(x, S) /\ Lists(y, T) /\ Lists(z, S \union T) /\ Numbers(S \union T)
      /\ Valued(ta, x) /\ Valued(tb, y) /\ ValuesOf(All, f) = S \union T
      /\ Len(z) = Cardinality(ValuesOf(All, f))
  BY AllValues
<1>2. Cut(x, y, z, i, j, k)
  BY DEF Taken, Vals, All
<1>3. /\ Sound(a, docsA) /\ Sound(b, docsB)
      /\ ta \in Seq(Token)
      /\ tb \in Seq(Token)
      /\ \A m \in 1 .. Len(ta) :
           /\ ta[m] \in Token
           /\ ta[m].list + 1 \in 1 .. Len(a.lists)
           /\ a.lists[ta[m].list + 1] = Holders(docsA, f, ta[m].value)
           /\ ta[m].count = Cardinality(Holders(docsA, f, ta[m].value))
           /\ Slice(a, ta[m]) = EntriesOf(docsA, f, ta[m].value)
      /\ \A m \in 1 .. Len(tb) :
           /\ tb[m] \in Token
           /\ tb[m].list + 1 \in 1 .. Len(b.lists)
           /\ b.lists[tb[m].list + 1] = Holders(docsB, f, tb[m].value)
           /\ tb[m].count = Cardinality(Holders(docsB, f, tb[m].value))
           /\ Slice(b, tb[m]) = EntriesOf(docsB, f, tb[m].value)
  BY FieldTokens DEF Inputs
<1>4. /\ TokenA = ta[i] /\ TokenB = tb[j] /\ WalkSide = Side(ta, tb, i, j)
      /\ i <= Len(ta) \/ j <= Len(tb)
  BY DEF TokenA, TokenB, WalkSide, Walking
<1>5. Len(ta) = Len(x) /\ Len(tb) = Len(y)
  BY <1>1 DEF Valued
<1>. DEFINE side == Side(ta, tb, i, j)
<1>6. /\ Stepped.i = (IF side = "B" THEN i ELSE i + 1)
      /\ Stepped.j = (IF side = "A" THEN j ELSE j + 1)
      /\ Shaped(Stepped) /\ Stepped.field = f
  <2>1. walk = [field |-> f, i |-> i, j |-> j]
    BY DEF Shaped
  <2>. DEFINE i1 == IF WalkSide = "B" THEN i ELSE i + 1
              j1 == IF WalkSide = "A" THEN j ELSE j + 1
  <2>2. Stepped = [walk EXCEPT !.i = i1, !.j = j1]
    BY DEF Stepped
  <2>. HIDE DEF f, i, j, i1, j1
  <2>3. Stepped = [field |-> f, i |-> i1, j |-> j1]
    BY <2>1, <2>2
  <2>4. Stepped.i = i1 /\ Stepped.j = j1 /\ Stepped.field = f /\ Shaped(Stepped)
    BY <2>3 DEF Shaped
  <2>5. WalkSide = side
    BY <1>4
  <2>. HIDE DEF side
  <2>. QED BY <2>4, <2>5 DEF i1, j1
<1>. HIDE DEF x, y, z, S, T, ta, tb, i, j
<1>7. /\ k + 1 \in 1 .. Len(z)
      /\ z[k + 1] \in S \union T
      /\ side \in {"A", "B", "both"}
      /\ side = "B" <=> z[k + 1] \notin S
      /\ side = "A" <=> z[k + 1] \notin T
      /\ z[k + 1] \in S => i \in 1 .. Len(x) /\ ta[i].value = z[k + 1]
      /\ z[k + 1] \in T => j \in 1 .. Len(y) /\ tb[j].value = z[k + 1]
      /\ Cut(x, y, z, IF side = "B" THEN i ELSE i + 1,
                      IF side = "A" THEN j ELSE j + 1, k + 1)
  <2>1. Lists(x, S) /\ Lists(y, T) /\ Lists(z, S \union T) /\ Numbers(S \union T)
    BY <1>1
  <2>2. Valued(ta, x) /\ Valued(tb, y)
    BY <1>1
  <2>3. i <= Len(ta) \/ j <= Len(tb)
    BY <1>4
  <2>4. SidesTake(S, x, T, y, z, ta, tb, i, j, k)
    BY ONLY <1>2, <2>1, <2>2, <2>3, SideTakes
  <2>. QED BY <2>4 DEF SidesTake
<1>. HIDE DEF side, v
<1>8. /\ side # "B" => i \in 1 .. Len(ta) /\ ta[i].value = v
      /\ side # "A" => j \in 1 .. Len(tb) /\ tb[j].value = v
  BY <1>5, <1>7 DEF v
<1>9. side # "B" => /\ TokenA \in Token
                    /\ TokenA.value = v
                    /\ TokenA.list + 1 \in 1 .. Len(a.lists)
                    /\ a.lists[TokenA.list + 1] = Holders(docsA, f, v)
                    /\ TokenA.count = Cardinality(Holders(docsA, f, v))
                    /\ Slice(a, TokenA) = EntriesOf(docsA, f, v)
  <2>. HIDE DEF f
  <2>. QED BY <1>3, <1>4, <1>8
<1>10. side # "A" => /\ TokenB \in Token
                     /\ TokenB.value = v
                     /\ TokenB.list + 1 \in 1 .. Len(b.lists)
                     /\ b.lists[TokenB.list + 1] = Holders(docsB, f, v)
                     /\ TokenB.count = Cardinality(Holders(docsB, f, v))
                     /\ Slice(b, TokenB) = EntriesOf(docsB, f, v)
  <2>. HIDE DEF f
  <2>. QED BY <1>3, <1>4, <1>8
<1>11. Taken(docsA, docsB, f, Stepped.i, Stepped.j, k + 1)
  <2>1. Cut(x, y, z, Stepped.i, Stepped.j, k + 1)
    BY <1>6, <1>7
  <2>. QED BY <2>1 DEF Taken, Vals, All, x, y, z
<1>12. /\ k + 1 \in 1 .. Cardinality(ValuesOf(All, f))
       /\ v \in ValuesOf(All, f)
  BY <1>1, <1>7 DEF v
<1>13. /\ WalkSide \in {"A", "B", "both"}
       /\ WalkSide = "B" <=> v \notin ValuesOf(docsA, f)
       /\ WalkSide = "A" <=> v \notin ValuesOf(docsB, f)
       /\ WalkSide = side
  BY <1>4, <1>7 DEF v, S, T, side, ta, tb
<1>. QED BY <1>6, <1>9, <1>10, <1>11, <1>12, <1>13 DEF v, z

(***************************************************************************)
(* The notes of the posting lists to merge.                                *)
(***************************************************************************)
Notes(s, t) == [a : -1 .. Len(s.lists) - 1, b : -1 .. Len(t.lists) - 1]

(* A note names the posting list of a token in each storage that has it.   *)
NoteRight(s, t, x, y, f, v, note) ==
  /\ note \in Notes(s, t)
  /\ IF note.a = -1 THEN Holders(x, f, v) = {} ELSE s.lists[note.a + 1] = Holders(x, f, v)
  /\ IF note.b = -1 THEN Holders(y, f, v) = {} ELSE t.lists[note.b + 1] = Holders(y, f, v)
  /\ note.a # -1 \/ note.b # -1

(* Such a note asks for the posting list of the token in all documents.    *)
LEMMA NoteMerges ==
  ASSUME Inputs, NEW f, NEW v, NEW note, NoteRight(a, b, docsA, docsB, f, v, note)
  PROVE  MergedList(note) = Holders(All, f, v)
<1>. DEFINE hA == Holders(docsA, f, v)
            hB == Holders(docsB, f, v)
            m == Len(docsA)
<1>1. /\ IsBatch(docsA) /\ IsBatch(docsB) /\ DocumentOffset = m
  BY AllValues
<1>2. Holders(All, f, v) = hA \union Behind(hB, m)
  BY <1>1, SetsConcat DEF All
<1>3. IsFiniteSet(hB) /\ Numbers(hB)
  BY <1>1, BatchSets
<1>4. \A dst : AddOffsetFrom(dst, hB) = dst \union Behind(hB, m)
  BY <1>1, <1>3, OffsetAdded
<1>5. /\ IF note.a = -1 THEN hA = {} ELSE a.lists[note.a + 1] = hA
      /\ IF note.b = -1 THEN hB = {} ELSE b.lists[note.b + 1] = hB
      /\ note.a # -1 \/ note.b # -1
  BY DEF NoteRight
<1>6. MergedList(note)
        = IF note.b = -1 THEN a.lists[note.a + 1]
          ELSE AddOffsetFrom(IF note.a = -1 THEN {} ELSE a.lists[note.a + 1],
                             b.lists[note.b + 1])
  BY DEF MergedList
<1>7. Behind({}, m) = {}
  BY DEF Behind
<1>. HIDE DEF hA, hB, m
<1>8. CASE note.b = -1
  <2>1. MergedList(note) = hA /\ hB = {}
    BY <1>5, <1>6, <1>8
  <2>. QED BY <1>2, <1>7, <2>1
<1>9. CASE note.b # -1
  <2>1. MergedList(note) = AddOffsetFrom(hA, hB)
    BY <1>5, <1>6, <1>9
  <2>. QED BY <1>2, <1>4, <2>1
<1>. QED BY <1>8, <1>9

(* What a turn takes: the next value of the field with all it has in both  *)
(* storages.                                                               *)
TurnRight(f, v) ==
  /\ TurnValue = v
  /\ TurnFreqsA \in Seq(Entry) /\ TurnFreqsB \in Seq(Entry)
  /\ TurnFreqsA \o TurnFreqsB = EntriesOf(All, f, v)
  /\ DocumentFrequency = Len(EntriesOf(All, f, v))
  /\ NoteRight(a, b, docsA, docsB, f, v, TurnNote)

(* Each turn takes the right things.                                       *)
LEMMA TurnTaken ==
  ASSUME Inputs, NEW k, Taken(docsA, docsB, walk.field, walk.i, walk.j, k), Walking,
         Shaped(walk)
  PROVE  TurnRight(walk.field, Vals(All, walk.field)[k + 1])
<1>. DEFINE f == walk.field
            v == Vals(All, f)[k + 1]
            S == ValuesOf(docsA, f)
            T == ValuesOf(docsB, f)
            m == Len(docsA)
            eA == EntriesOf(docsA, f, v)
            eB == EntriesOf(docsB, f, v)
            hA == Holders(docsA, f, v)
            hB == Holders(docsB, f, v)
            note == TurnNote
<1>1. /\ WalkSide \in {"A", "B", "both"}
      /\ WalkSide = "B" <=> v \notin S
      /\ WalkSide = "A" <=> v \notin T
      /\ WalkSide # "B" => /\ TokenA \in Token
                           /\ TokenA.value = v
                           /\ TokenA.list + 1 \in 1 .. Len(a.lists)
                           /\ a.lists[TokenA.list + 1] = hA
                           /\ TokenA.count = Cardinality(hA)
                           /\ Slice(a, TokenA) = eA
      /\ WalkSide # "A" => /\ TokenB \in Token
                           /\ TokenB.value = v
                           /\ TokenB.list + 1 \in 1 .. Len(b.lists)
                           /\ b.lists[TokenB.list + 1] = hB
                           /\ TokenB.count = Cardinality(hB)
                           /\ Slice(b, TokenB) = eB
      /\ v \in ValuesOf(All, f)
  BY TurnSides
<1>2. /\ IsBatch(docsA) /\ IsBatch(docsB) /\ IsBatch(All)
      /\ ValuesOf(All, f) = S \union T
      /\ DocumentOffset = m /\ m \in Nat
  BY AllValues
<1>3. /\ EntriesOf(All, f, v) = eA \o Moved(eB, m)
      /\ Cardinality(Holders(All, f, v)) = Cardinality(hA) + Cardinality(hB)
  BY SMTT(30), <1>2, EntriesConcat DEF All
<1>4. /\ eA \in Seq(Entry) /\ eB \in Seq(Entry)
      /\ Cardinality(hA) \in Nat /\ Cardinality(hB) \in Nat
      /\ Len(EntriesOf(All, f, v)) = Cardinality(Holders(All, f, v))
      /\ Cardinality(Holders(All, f, v)) \in Nat
  BY <1>2, EntriesAre
<1>5. Moved(eB, m) \in Seq(Entry) /\ Shifted(eB) = Moved(eB, m)
  BY <1>2, <1>4, MovedEntries, ShiftedIsMoved
<1>6. v \notin S => hA = {} /\ Cardinality(hA) = 0 /\ eA = << >>
  BY <1>2, NoHolders
<1>7. v \notin T => hB = {} /\ Cardinality(hB) = 0 /\ eB = << >> /\ Moved(eB, m) = << >>
  <2>1. v \notin T => hB = {} /\ Cardinality(hB) = 0 /\ eB = << >>
    BY <1>2, NoHolders
  <2>2. Moved(<< >>, m) = << >>
    BY DEF Moved
  <2>. QED BY <2>1, <2>2
<1>8. /\ TurnValue = IF WalkSide = "B" THEN TokenB.value ELSE TokenA.value
      /\ TurnFreqsA = IF WalkSide = "B" THEN << >> ELSE Slice(a, TokenA)
      /\ TurnFreqsB = IF WalkSide = "A" THEN << >> ELSE Shifted(Slice(b, TokenB))
      /\ note.a = IF WalkSide = "B" THEN -1 ELSE TokenA.list
      /\ note.b = IF WalkSide = "A" THEN -1 ELSE TokenB.list
  BY DEF TurnValue, TurnFreqsA, TurnFreqsB, TurnNote
<1>9. DocumentFrequency = CASE WalkSide = "A" -> TokenA.count
                            [] WalkSide = "B" -> TokenB.count
                            [] OTHER -> TokenA.count + TokenB.count
  BY DEF DocumentFrequency
<1>10. /\ Len(a.lists) \in Nat /\ Len(b.lists) \in Nat
       /\ WalkSide # "B" => TokenA.list \in Nat /\ TokenA.list + 1 <= Len(a.lists)
       /\ WalkSide # "A" => TokenB.list \in Nat /\ TokenB.list + 1 <= Len(b.lists)
  <2>. DEFINE x == a.lists
              y == b.lists
  <2>1. x \in Seq(SUBSET Nat) /\ y \in Seq(SUBSET Nat)
    BY DEF Inputs, Sound, Typed
  <2>2. Len(x) \in Nat /\ Len(y) \in Nat
    <3>. HIDE DEF x, y
    <3>. QED BY <2>1
  <2>. QED BY <1>1, <2>2 DEF Token
<1>. HIDE DEF f, v, S, T, m, eA, eB, hA, hB, note
<1>11. note \in Notes(a, b)
  <2>1. note = [a |-> note.a, b |-> note.b]
    BY DEF note, TurnNote
  <2>2. note.a \in -1 .. Len(a.lists) - 1 /\ note.b \in -1 .. Len(b.lists) - 1
    BY <1>1, <1>8, <1>10
  <2>. QED BY <2>1, <2>2 DEF Notes
<1>12. TurnValue = v
  BY <1>1, <1>8
<1>13. /\ TurnFreqsA = eA
       /\ TurnFreqsB = Moved(eB, m)
  BY <1>1, <1>5, <1>6, <1>7, <1>8
<1>14. DocumentFrequency = Len(EntriesOf(All, f, v))
  <2>1. CASE WalkSide = "A"
    BY <1>1, <1>3, <1>4, <1>7, <1>9, <2>1
  <2>2. CASE WalkSide = "B"
    BY <1>1, <1>3, <1>4, <1>6, <1>9, <2>2
  <2>3. CASE WalkSide = "both"
    BY <1>1, <1>3, <1>4, <1>9, <2>3
  <2>. QED BY <1>1, <2>1, <2>2, <2>3
<1>15. /\ IF note.a = -1 THEN hA = {} ELSE a.lists[note.a + 1] = hA
       /\ IF note.b = -1 THEN hB = {} ELSE b.lists[note.b + 1] = hB
       /\ note.a # -1 \/ note.b # -1
  <2>1. CASE WalkSide = "A"
    BY <1>1, <1>7, <1>8, <1>10, <2>1
  <2>2. CASE WalkSide = "B"
    BY <1>1, <1>6, <1>8, <1>10, <2>2
  <2>3. CASE WalkSide = "both"
    BY <1>1, <1>8, <1>10, <2>3
  <2>. QED BY <1>1, <2>1, <2>2, <2>3
<1>16. TurnFreqsA \o TurnFreqsB = EntriesOf(All, f, v)
  BY <1>3, <1>13
<1>17. TurnFreqsA \in Seq(Entry) /\ TurnFreqsB \in Seq(Entry)
  BY <1>4, <1>5, <1>13
<1>18. NoteRight(a, b, docsA, docsB, f, v, note)
  BY <1>11, <1>15 DEF NoteRight, hA, hB
<1>19. TurnRight(f, v)
  BY <1>12, <1>14, <1>16, <1>17, <1>18 DEF TurnRight, note
<1>. QED BY <1>19 DEF f, v

(***************************************************************************)
(* How far a pass over the fields of an order is: in its n-th field, with  *)
(* this walk, and with so many cells behind it.                            *)
(***************************************************************************)
Reached(x, y, o, n, w, count) ==
  IF n = 0 THEN w = NoWalk /\ count = 0
  ELSE /\ Shaped(w) /\ w.field = o[n]
       /\ \E k \in Nat : /\ Taken(x, y, w.field, w.i, w.j, k)
                         /\ count = Before(x \o y, o, n) + k

(* A walk starts with nothing taken.                                       *)
LEMMA WalkStarts ==
  ASSUME Inputs, NEW f
  PROVE  Taken(docsA, docsB, f, 1, 1, 0)
<1>1. Taken(docsA, docsB, f, 1, 1, 0) <=> Cut(Vals(docsA, f), Vals(docsB, f), Vals(All, f), 1, 1, 0)
  BY DEF Taken, Vals, All
<1>2. /\ Lists(Vals(docsA, f), ValuesOf(docsA, f)) /\ Lists(Vals(docsB, f), ValuesOf(docsB, f))
      /\ Lists(Vals(All, f), ValuesOf(docsA, f) \union ValuesOf(docsB, f))
  BY AllValues
<1>3. HalfCut(Vals(docsA, f), Vals(All, f), 1, 0)
  BY <1>2, HalfStarts
<1>4. HalfCut(Vals(docsB, f), Vals(All, f), 1, 0)
  BY <1>2, HalfStarts
<1>. QED BY <1>1, <1>3, <1>4 DEF Cut

(* A walk with nothing left has taken all the values of its field.         *)
LEMMA WalkStops ==
  ASSUME Inputs, NEW k, Taken(docsA, docsB, walk.field, walk.i, walk.j, k), ~Walking
  PROVE  k = Cardinality(ValuesOf(All, walk.field))
<1>. DEFINE f == walk.field
            x == Vals(docsA, f)
            y == Vals(docsB, f)
            z == Vals(All, f)
            S == ValuesOf(docsA, f)
            T == ValuesOf(docsB, f)
            i == walk.i
            j == walk.j
<1>1. /\ Lists(x, S) /\ Lists(y, T) /\ Lists(z, S \union T) /\ Numbers(S \union T)
      /\ Valued(TokensIn(a, f), x) /\ Valued(TokensIn(b, f), y)
      /\ Len(z) = Cardinality(ValuesOf(All, f))
  BY AllValues
<1>2. Cut(x, y, z, i, j, k)
  BY DEF Taken, Vals, All
<1>3. walk # NoWalk
  <2>1. i >= 1
    BY <1>2 DEF Cut, HalfCut
  <2>2. NoWalk.i = 0
    BY DEF NoWalk
  <2>. QED BY <2>1, <2>2
<1>4. ~(i <= Len(x) \/ j <= Len(y))
  BY <1>1, <1>3 DEF Walking, Valued
<1>. HIDE DEF f, x, y, z, S, T, i, j
<1>5. k = Len(z)
  BY <1>1, <1>2, <1>4, WalkEnds
<1>. QED BY <1>1, <1>5 DEF f

(* When a walk has ended, the cells of its field are behind the pass.      *)
LEMMA FieldDone ==
  ASSUME Inputs, NEW o \in Seq(FieldsOf(All)), NEW n \in 0 .. Len(o), NEW count,
         Reached(docsA, docsB, o, n, walk, count), ~Walking
  PROVE  count = Before(All, o, n + 1)
<1>. DEFINE w == Lens(Rows(All, o))
<1>1. /\ w \in Seq(Nat) /\ Len(w) = Len(o)
      /\ \A m \in 1 .. Len(o) : w[m] = Cardinality(ValuesOf(All, o[m]))
  <2>1. IsBatch(All)
    BY AllValues
  <2>2. /\ Rows(All, o) \in Seq(Seq(Cell(All))) /\ Len(Rows(All, o)) = Len(o)
        /\ \A m \in 1 .. Len(o) : w[m] = Cardinality(ValuesOf(All, o[m]))
    BY <2>1, CellsAre
  <2>. QED BY <2>2, LensAre
<1>2. Before(All, o, n + 1) = Total(w, n) /\ Before(All, o, n) = Total(w, n - 1)
  BY DEF Before
<1>3. CASE n = 0
  <2>1. count = 0
    BY <1>3 DEF Reached
  <2>. HIDE DEF w
  <2>2. Total(w, 0) = 0
    BY <1>1, TotalSteps
  <2>. QED BY <1>2, <1>3, <2>1, <2>2
<1>4. CASE n # 0
  <2>1. PICK k \in Nat : Taken(docsA, docsB, walk.field, walk.i, walk.j, k)
                         /\ count = Before(docsA \o docsB, o, n) + k
    BY <1>4 DEF Reached
  <2>2. walk.field = o[n]
    BY <1>4 DEF Reached
  <2>3. k = Cardinality(ValuesOf(All, o[n]))
    BY <2>1, <2>2, WalkStops
  <2>4. n \in 1 .. Len(o) /\ n \in Nat
    BY <1>4
  <2>5. count = Total(w, n - 1) + k
    BY <1>2, <2>1 DEF All
  <2>6. w[n] = k
    BY <1>1, <2>3, <2>4
  <2>. HIDE DEF w
  <2>7. Total(w, n) = Total(w, n - 1) + w[n]
    BY <1>1, <2>4, TotalSteps
  <2>. QED BY <1>2, <2>5, <2>6, <2>7
<1>. QED BY <1>3, <1>4

(* The next field of the order starts where the last one ended.            *)
LEMMA FieldStarts ==
  ASSUME Inputs, NEW o, NEW n \in Nat, NEW count, count = Before(All, o, n + 1), count \in Nat
  PROVE  Reached(docsA, docsB, o, n + 1, StartOf(o[n + 1]), count)
<1>. DEFINE w == StartOf(o[n + 1])
<1>1. w = [field |-> o[n + 1], i |-> 1, j |-> 1]
  BY DEF StartOf
<1>2. w.field = o[n + 1] /\ w.i = 1 /\ w.j = 1
  BY <1>1
<1>3. Shaped(w)
  BY <1>1, <1>2 DEF Shaped
<1>4. Taken(docsA, docsB, w.field, w.i, w.j, 0)
  BY <1>2, WalkStarts
<1>5. count = Before(docsA \o docsB, o, n + 1) + 0
  BY DEF All
<1>. HIDE DEF w
<1>6. \E k \in Nat : Taken(docsA, docsB, w.field, w.i, w.j, k)
                     /\ count = Before(docsA \o docsB, o, n + 1) + k
  BY <1>4, <1>5
<1>7. n + 1 # 0
  OBVIOUS
<1>8. Reached(docsA, docsB, o, n + 1, w, count)
  BY <1>2, <1>3, <1>6, <1>7 DEF Reached
<1>. QED BY <1>8 DEF w

(* A turn takes the next cell of the order.                                *)
CellTaken(o, n, count) ==
  /\ n \in 1 .. Len(o)
  /\ walk.field = o[n]
  /\ count + 1 \in 1 .. Len(Cells(All, o))
  /\ count - Before(All, o, n) \in 0 .. Cardinality(ValuesOf(All, o[n])) - 1
  /\ Cells(All, o)[count + 1].f = walk.field
  /\ TurnRight(walk.field, Cells(All, o)[count + 1].v)
  /\ Reached(docsA, docsB, o, n, Stepped, count + 1)

(* Every turn does so while the walk has something to take.                *)
LEMMA TurnReaches ==
  ASSUME Inputs, NEW o \in Seq(FieldsOf(All)), NEW n \in 0 .. Len(o), NEW count,
         Reached(docsA, docsB, o, n, walk, count), Walking
  PROVE  CellTaken(o, n, count)
<1>. DEFINE B == Before(All, o, n)
            f == walk.field
<1>1. n # 0
  BY DEF Reached, Walking
<1>2. PICK k \in Nat : Taken(docsA, docsB, walk.field, walk.i, walk.j, k)
                       /\ count = Before(docsA \o docsB, o, n) + k
  BY <1>1 DEF Reached
<1>3. Shaped(walk) /\ walk.field = o[n] /\ n \in 1 .. Len(o)
  BY <1>1 DEF Reached
<1>4. IsBatch(All)
  BY AllValues
<1>5. /\ k + 1 \in 1 .. Cardinality(ValuesOf(All, f))
      /\ Taken(docsA, docsB, f, Stepped.i, Stepped.j, k + 1)
      /\ Shaped(Stepped) /\ Stepped.field = f
  BY <1>2, <1>3, TurnSides
<1>6. TurnRight(f, Vals(All, f)[k + 1])
  BY <1>2, <1>3, TurnTaken
<1>7. /\ Rows(All, o) \in Seq(Seq(Cell(All))) /\ Len(Rows(All, o)) = Len(o)
      /\ B + (k + 1) \in 1 .. Len(Cells(All, o))
      /\ Cells(All, o)[B + (k + 1)] = [f |-> o[n], v |-> Ascending(ValuesOf(All, o[n]))[k + 1]]
  BY <1>3, <1>4, <1>5, CellsAre
<1>8. B \in Nat
  <2>1. Lens(Rows(All, o)) \in Seq(Nat) /\ Len(Lens(Rows(All, o))) = Len(o)
    BY <1>7, LensAre
  <2>. DEFINE w == Lens(Rows(All, o))
  <2>2. n - 1 \in 0 .. Len(w)
    BY <1>3, <2>1
  <2>3. B = Total(w, n - 1)
    BY DEF Before
  <2>. HIDE DEF w, B
  <2>. QED BY <2>1, <2>2, <2>3, TotalSteps DEF w
<1>9. count = B + k /\ count + 1 = B + (k + 1)
  <2>1. count = B + k
    BY <1>2 DEF All
  <2>. HIDE DEF B
  <2>. QED BY <1>8, <2>1
<1>10. /\ Cells(All, o)[count + 1].f = f
       /\ Cells(All, o)[count + 1].v = Vals(All, f)[k + 1]
       /\ count + 1 \in 1 .. Len(Cells(All, o))
  <2>. DEFINE C == Cells(All, o)[count + 1]
  <2>1. C = [f |-> o[n], v |-> Ascending(ValuesOf(All, o[n]))[k + 1]]
    BY <1>7, <1>9
  <2>2. C.f = o[n] /\ C.v = Ascending(ValuesOf(All, o[n]))[k + 1]
    <3>. HIDE DEF C
    <3>. QED BY <2>1
  <2>. QED BY <1>3, <1>7, <1>9, <2>2 DEF Vals
<1>11. Reached(docsA, docsB, o, n, Stepped, count + 1)
  <2>1. count + 1 = Before(docsA \o docsB, o, n) + (k + 1)
    BY <1>9 DEF All
  <2>2. \E m \in Nat : Taken(docsA, docsB, Stepped.field, Stepped.i, Stepped.j, m)
                       /\ count + 1 = Before(docsA \o docsB, o, n) + m
    BY <1>5, <2>1
  <2>. QED BY <1>1, <1>3, <1>5, <2>2 DEF Reached
<1>12. count - B \in 0 .. Cardinality(ValuesOf(All, o[n])) - 1
  <2>1. Cardinality(ValuesOf(All, o[n])) \in Nat
    BY AllValues
  <2>. DEFINE c == Cardinality(ValuesOf(All, o[n]))
  <2>2. k + 1 \in 1 .. c
    BY <1>3, <1>5
  <2>. HIDE DEF B, c
  <2>3. count - B \in 0 .. c - 1
    BY <1>8, <1>9, <2>1, <2>2 DEF c
  <2>. QED BY <2>3 DEF c
<1>. QED BY <1>3, <1>6, <1>10, <1>11, <1>12 DEF CellTaken

(* Another field at the end of the order changes nothing for the ones      *)
(* before it.                                                              *)
LEMMA ReachedMore ==
  ASSUME Inputs, NEW o \in Seq(FieldsOf(All)), NEW g \in FieldsOf(All),
         NEW n \in 0 .. Len(o), NEW w, NEW count, Reached(docsA, docsB, o, n, w, count)
  PROVE  Reached(docsA, docsB, Append(o, g), n, w, count)
<1>1. IsBatch(All)
  BY AllValues
<1>2. CASE n = 0
  BY <1>2 DEF Reached
<1>3. CASE n # 0
  <2>1. n \in 1 .. Len(o) /\ n \in 1 .. Len(o) + 1
    BY <1>3
  <2>2. /\ Append(o, g)[n] = o[n]
        /\ Before(All, Append(o, g), n) = Before(All, o, n)
    BY <1>1, <2>1, CellsExtend
  <2>. QED BY <1>3, <2>2 DEF Reached, All
<1>. QED BY <1>2, <1>3

FA == DOMAIN a.fields
FB == DOMAIN b.fields

(* The fields of both storages.                                            *)
LEMMA AllFields ==
  ASSUME Inputs
  PROVE  /\ FieldsOf(All) = FA \union FB
         /\ FA = FieldsOf(docsA) /\ FB = FieldsOf(docsB)
         /\ IsFiniteSet(FieldsOf(All))
<1>1. IsBatch(All) /\ IsBatch(docsA) /\ IsBatch(docsB)
  BY AllValues
<1>2. FA = FieldsOf(docsA) /\ FB = FieldsOf(docsB)
  BY DEF Inputs, Sound, Indexes, FA, FB
<1>3. FieldsOf(All) = FieldsOf(docsA) \union FieldsOf(docsB)
  BY <1>1, SetsConcat DEF All
<1>. QED BY <1>1, <1>2, <1>3, BatchSets

(* The recorded order has every field of both storages once.               *)
Ordered == /\ Once(orderA, FA \ FB)
           /\ Once(orderB, FB \ FA)
           /\ Once(orderC, FA \intersect FB)

(* It is one of the orders of the fields of all the documents.             *)
LEMMA OrderedHasAll ==
  ASSUME Inputs, Ordered
  PROVE  /\ Once(RecordedOrder, FieldsOf(All))
         /\ RecordedOrder \in SetToSeqs(FieldsOf(All))
         /\ RecordedOrder \in Seq(FieldsOf(All))
         /\ Len(RecordedOrder) = Len(orderA) + Len(orderB) + Len(orderC)
<1>1. Once(orderA \o orderB, (FA \ FB) \union (FB \ FA))
  BY OnceBoth DEF Ordered
<1>2. Once((orderA \o orderB) \o orderC,
           ((FA \ FB) \union (FB \ FA)) \union (FA \intersect FB))
  BY <1>1, OnceBoth DEF Ordered
<1>3. ((FA \ FB) \union (FB \ FA)) \union (FA \intersect FB) = FieldsOf(All)
  BY AllFields
<1>4. RecordedOrder = (orderA \o orderB) \o orderC
  BY DEF RecordedOrder
<1>5. Once(RecordedOrder, FieldsOf(All))
  BY <1>2, <1>3, <1>4
<1>6. RecordedOrder \in Seq(FieldsOf(All))
  BY <1>5 DEF Once
<1>7. IsFiniteSet(FieldsOf(All))
  BY AllFields
<1>8. Len(RecordedOrder) = Len(orderA) + Len(orderB) + Len(orderC)
  <2>. DEFINE U == FieldsOf(All)
  <2>1. FA \ FB \subseteq U /\ FB \ FA \subseteq U /\ FA \intersect FB \subseteq U
    BY AllFields
  <2>2. orderA \in Seq(FA \ FB) /\ orderB \in Seq(FB \ FA) /\ orderC \in Seq(FA \intersect FB)
    BY DEF Ordered, Once
  <2>. HIDE DEF U
  <2>3. orderA \in Seq(U) /\ orderB \in Seq(U) /\ orderC \in Seq(U)
    BY <2>1, <2>2, SeqMonotonic
  <2>4. orderA \o orderB \in Seq(U) /\ Len(orderA \o orderB) = Len(orderA) + Len(orderB)
    BY <2>3, CatParts
  <2>5. Len((orderA \o orderB) \o orderC) = Len(orderA \o orderB) + Len(orderC)
    BY <2>3, <2>4, CatParts
  <2>. QED BY <1>4, <2>4, <2>5
<1>. QED BY <1>5, <1>6, <1>7, <1>8, OnceOrders

(***************************************************************************)
(* The preparation.                                                        *)
(***************************************************************************)
(* The frequencies of the cells the preparation has passed.                *)
Prepared(x, y, o, w, count, F) ==
  /\ Reached(x, y, o, Len(o), w, count)
  /\ F \in Seq(Entry)
  /\ Placed(F, CellEntries(x \o y, o), count)

(* The next field.                                                         *)
LEMMA PrepareField ==
  ASSUME Inputs, NEW o \in Seq(FieldsOf(All)), NEW g \in FieldsOf(All),
         NEW count, NEW F, Prepared(docsA, docsB, o, walk, count, F), ~Walking
  PROVE  Prepared(docsA, docsB, Append(o, g), StartOf(g), count, F)
<1>. DEFINE more == Append(o, g)
            q == CellEntries(All, o)
            r == CellEntries(All, more)
            N == Len(Cells(All, o))
<1>1. IsBatch(All)
  BY AllValues
<1>2. Len(o) \in Nat /\ Len(o) \in 0 .. Len(o)
  OBVIOUS
<1>3. /\ more \in Seq(FieldsOf(All)) /\ Len(more) = Len(o) + 1
      /\ more[Len(o) + 1] = g
      /\ \A m \in 1 .. Len(o) + 1 : Before(All, more, m) = Before(All, o, m)
      /\ N \in Nat
      /\ Before(All, more, Len(o) + 1) = N
      /\ N <= Len(Cells(All, more))
      /\ \A p \in 1 .. N : r[p] = q[p]
  BY <1>1, CellsExtend
<1>4. count = Before(All, o, Len(o) + 1)
  BY <1>2, FieldDone DEF Prepared
<1>5. Len(o) + 1 \in 1 .. Len(o) + 1
  BY <1>2
<1>6. count = N /\ count \in Nat /\ count = Before(All, more, Len(o) + 1)
  BY <1>3, <1>4, <1>5
<1>7. Reached(docsA, docsB, more, Len(o) + 1, StartOf(more[Len(o) + 1]), count)
  BY <1>2, <1>6, FieldStarts
<1>8. Reached(docsA, docsB, more, Len(more), StartOf(g), count)
  BY <1>3, <1>7
<1>9. q \in Seq(Seq(Entry)) /\ Len(q) = N /\ r \in Seq(Seq(Entry)) /\ Len(r) = Len(Cells(All, more))
  BY <1>1, <1>3, CellEntriesAre
<1>10. Placed(F, q, count)
  BY DEF Prepared, All
<1>11. Placed(F, r, count)
  <2>. HIDE DEF q, r, N, more
  <2>. DEFINE M == Len(Cells(All, more))
  <2>1. count <= Len(q) /\ count <= Len(r)
    <3>1. N <= M /\ count = N /\ Len(q) = N /\ Len(r) = M
      BY <1>3, <1>6, <1>9
    <3>. HIDE DEF M
    <3>2. count <= M /\ count <= N
      BY <1>6, <3>1
    <3>. QED BY <3>1, <3>2
  <2>2. \A m \in 1 .. count : q[m] = r[m]
    BY <1>3, <1>6
  <2>. QED BY <1>6, <1>9, <1>10, <2>1, <2>2, PlacedSame
<1>. QED BY <1>8, <1>11 DEF Prepared, All

(* The next turn of the walk.                                              *)
LEMMA PrepareTurn ==
  ASSUME Inputs, NEW o \in Seq(FieldsOf(All)),
         NEW count \in Nat, NEW F, Prepared(docsA, docsB, o, walk, count, F), Walking
  PROVE  Prepared(docsA, docsB, o, Stepped, count + 1, (F \o TurnFreqsA) \o TurnFreqsB)
<1>. DEFINE q == CellEntries(All, o)
            X == TurnFreqsA
            Y == TurnFreqsB
<1>1. IsBatch(All)
  BY AllValues
<1>2. Len(o) \in 0 .. Len(o)
  OBVIOUS
<1>3. CellTaken(o, Len(o), count)
  BY <1>2, TurnReaches DEF Prepared
<1>4. q \in Seq(Seq(Entry)) /\ Len(q) = Len(Cells(All, o))
      /\ q[count + 1] = EntriesOf(All, Cells(All, o)[count + 1].f, Cells(All, o)[count + 1].v)
  BY <1>1, <1>3, CellEntriesAre DEF CellTaken
<1>5. X \in Seq(Entry) /\ Y \in Seq(Entry) /\ X \o Y = q[count + 1]
  BY <1>3, <1>4 DEF CellTaken, TurnRight
<1>6. F \in Seq(Entry) /\ Placed(F, q, count)
  BY DEF Prepared, All
<1>7. count + 1 \in 1 .. Len(q)
  BY <1>3, <1>4 DEF CellTaken
<1>8. Reached(docsA, docsB, o, Len(o), Stepped, count + 1)
  BY <1>3 DEF CellTaken
<1>. HIDE DEF q, X, Y
<1>9. (F \o X) \o Y = F \o q[count + 1]
  <2>1. \A x, y \in Seq(Entry) : (F \o x) \o y = F \o (x \o y)
    BY SMTT(30), <1>6, CatAssociates
  <2>2. X \in Seq(Entry) /\ Y \in Seq(Entry)
    BY <1>5
  <2>3. (F \o X) \o Y = F \o (X \o Y)
    BY <2>1, <2>2
  <2>. QED BY <1>5, <2>3
<1>10. F \o q[count + 1] \in Seq(Entry) /\ Placed(F \o q[count + 1], q, count + 1)
  BY <1>4, <1>6, <1>7, PlacedStep
<1>. QED BY <1>8, <1>9, <1>10 DEF Prepared, All, q, X, Y

(* At the end, all cells have been passed.                                 *)
LEMMA PrepareEnds ==
  ASSUME Inputs, NEW o \in Seq(FieldsOf(All)),
         NEW count, NEW F, Prepared(docsA, docsB, o, walk, count, F), ~Walking
  PROVE  count = Len(Cells(All, o)) /\ F = FlattenSeq(CellEntries(All, o))
<1>. DEFINE q == CellEntries(All, o)
<1>1. IsBatch(All)
  BY AllValues
<1>2. Len(o) \in 0 .. Len(o) /\ Len(o) \in Nat
  OBVIOUS
<1>3. count = Before(All, o, Len(o) + 1)
  BY <1>2, FieldDone DEF Prepared
<1>4. Len(Cells(All, o)) = Total(Lens(Rows(All, o)), Len(o))
  BY <1>1, CellsAre
<1>5. count = Len(Cells(All, o))
  BY <1>2, <1>3, <1>4 DEF Before
<1>6. q \in Seq(Seq(Entry)) /\ Len(q) = Len(Cells(All, o))
  BY <1>1, CellEntriesAre
<1>7. F \in Seq(Entry) /\ Placed(F, q, Len(q))
  BY <1>5, <1>6 DEF Prepared, All
<1>8. F = FlattenSeq(q)
  <2>. HIDE DEF q
  <2>. QED BY <1>6, <1>7, PlacedAll
<1>. QED BY <1>5, <1>8

(* Each side of a cut adds up to the same number of holders.               *)
Together(x, y, f, i, j, k) ==
  /\ Cut(Vals(x, f), Vals(y, f), Vals(x \o y, f), i, j, k)
  /\ Total(HolderCounts(x \o y, f), k)
       = Total(HolderCounts(x, f), i - 1) + Total(HolderCounts(y, f), j - 1)

(* One more value of the field.                                            *)
LEMMA TogetherStep ==
  ASSUME Inputs, NEW f, NEW i, NEW j, NEW k \in Nat, Together(docsA, docsB, f, i, j, k),
         k + 1 \in 1 .. Cardinality(ValuesOf(All, f))
  PROVE  \E m, n : Together(docsA, docsB, f, m, n, k + 1)
<1>. DEFINE x == Vals(docsA, f)
            y == Vals(docsB, f)
            z == Vals(All, f)
            S == ValuesOf(docsA, f)
            T == ValuesOf(docsB, f)
            U == S \union T
            wA == HolderCounts(docsA, f)
            wB == HolderCounts(docsB, f)
            w == HolderCounts(All, f)
            v == z[k + 1]
            m == IF v \in S THEN i + 1 ELSE i
            n == IF v \in T THEN j + 1 ELSE j
            hA == Cardinality(Holders(docsA, f, v))
            hB == Cardinality(Holders(docsB, f, v))
<1>1. /\ IsBatch(docsA) /\ IsBatch(docsB) /\ IsBatch(All)
      /\ Lists(x, S) /\ Lists(y, T) /\ ValuesOf(All, f) = U
      /\ Lists(z, U) /\ Numbers(U)
      /\ Len(z) = Cardinality(ValuesOf(All, f))
  BY AllValues
<1>2. S \subseteq U /\ T \subseteq U
  OBVIOUS
<1>3. /\ HalfCut(x, z, i, k) /\ HalfCut(y, z, j, k)
      /\ Total(w, k) = Total(wA, i - 1) + Total(wB, j - 1)
  BY DEF Together, Cut, All
<1>4. /\ wA \in Seq(Nat) /\ Len(wA) = Cardinality(S)
      /\ \A p \in 1 .. Cardinality(S) : wA[p] = Cardinality(Holders(docsA, f, x[p]))
  BY <1>1, HolderCountsAre
<1>5. /\ wB \in Seq(Nat) /\ Len(wB) = Cardinality(T)
      /\ \A p \in 1 .. Cardinality(T) : wB[p] = Cardinality(Holders(docsB, f, y[p]))
  BY <1>1, HolderCountsAre
<1>6. /\ w \in Seq(Nat) /\ Len(w) = Cardinality(ValuesOf(All, f))
      /\ \A p \in 1 .. Cardinality(ValuesOf(All, f)) : w[p] = Cardinality(Holders(All, f, z[p]))
  BY <1>1, HolderCountsAre
<1>7. Len(x) = Cardinality(S) /\ Len(y) = Cardinality(T)
  BY <1>1, ValuesListed DEF Vals
<1>8. w[k + 1] = hA + hB
  <2>1. w[k + 1] = Cardinality(Holders(All, f, v))
    BY <1>6
  <2>2. \A u : Cardinality(Holders(docsA \o docsB, f, u))
                = Cardinality(Holders(docsA, f, u)) + Cardinality(Holders(docsB, f, u))
    BY <1>1, EntriesConcat
  <2>3. Cardinality(Holders(All, f, v)) = hA + hB
    <3>. HIDE DEF v
    <3>. QED BY <2>2 DEF All
  <2>. QED BY <2>1, <2>3
<1>9. /\ v \notin S => hA = 0
      /\ v \notin T => hB = 0
      /\ hA \in Nat /\ hB \in Nat
  BY <1>1, NoHolders, EntriesAre
<1>. HIDE DEF x, y, z, S, T, U, wA, wB, w, hA, hB
<1>10. k + 1 \in 1 .. Len(z)
  BY <1>1
<1>11. /\ v \in S => i <= Len(x) /\ x[i] = v
       /\ v \in T => j <= Len(y) /\ y[j] = v
  BY <1>1, <1>2, <1>3, <1>10, HalfTakes
<1>12. HalfCut(x, z, m, k + 1) /\ HalfCut(y, z, n, k + 1)
  BY <1>1, <1>2, <1>3, <1>10, HalfSteps
<1>13. i \in 1 .. Len(x) + 1 /\ j \in 1 .. Len(y) + 1
  BY <1>3 DEF HalfCut
<1>14. Total(wA, m - 1) = Total(wA, i - 1) + hA
  <2>1. CASE v \in S
    <3>1. i \in 1 .. Cardinality(S) /\ x[i] = v
      BY <1>7, <1>11, <1>13, <2>1
    <3>2. wA[i] = hA
      BY <1>4, <3>1 DEF hA
    <3>3. i \in 1 .. Len(wA)
      BY <1>4, <3>1
    <3>4. Total(wA, i) = Total(wA, i - 1) + wA[i]
      BY <1>4, <3>3, TotalSteps
    <3>5. m - 1 = i
      BY <1>13, <2>1
    <3>. QED BY <3>2, <3>4, <3>5
  <2>2. CASE v \notin S
    <3>1. i - 1 \in 0 .. Len(wA)
      BY <1>4, <1>7, <1>13
    <3>2. Total(wA, i - 1) \in Nat
      BY <1>4, <3>1, TotalSteps
    <3>. QED BY <1>9, <2>2, <3>2
  <2>. QED BY <2>1, <2>2
<1>15. Total(wB, n - 1) = Total(wB, j - 1) + hB
  <2>1. CASE v \in T
    <3>1. j \in 1 .. Cardinality(T) /\ y[j] = v
      BY <1>7, <1>11, <1>13, <2>1
    <3>2. wB[j] = hB
      BY <1>5, <3>1 DEF hB
    <3>3. j \in 1 .. Len(wB)
      BY <1>5, <3>1
    <3>4. Total(wB, j) = Total(wB, j - 1) + wB[j]
      BY <1>5, <3>3, TotalSteps
    <3>5. n - 1 = j
      BY <1>13, <2>1
    <3>. QED BY <3>2, <3>4, <3>5
  <2>2. CASE v \notin T
    <3>1. j - 1 \in 0 .. Len(wB)
      BY <1>5, <1>7, <1>13
    <3>2. Total(wB, j - 1) \in Nat
      BY <1>5, <3>1, TotalSteps
    <3>. QED BY <1>9, <2>2, <3>2
  <2>. QED BY <2>1, <2>2
<1>16. Total(w, k + 1) = Total(w, k) + w[k + 1]
  <2>1. k + 1 \in 1 .. Len(w)
    BY <1>1, <1>6, <1>10
  <2>2. Total(w, k + 1) = Total(w, k + 1 - 1) + w[k + 1]
    BY SMTT(30), <1>6, <2>1, TotalSteps
  <2>. QED BY <2>2
<1>17. Total(wA, i - 1) \in Nat /\ Total(wB, j - 1) \in Nat
  <2>1. i - 1 \in 0 .. Len(wA) /\ j - 1 \in 0 .. Len(wB)
    BY <1>4, <1>5, <1>7, <1>13
  <2>. QED BY <1>4, <1>5, <2>1, TotalSteps
<1>18. Total(w, k + 1) = Total(wA, m - 1) + Total(wB, n - 1)
  <2>. HIDE DEF m, n
  <2>. QED BY <1>3, <1>8, <1>9, <1>14, <1>15, <1>16, <1>17
<1>19. Together(docsA, docsB, f, m, n, k + 1)
  <2>. HIDE DEF m, n
  <2>. QED BY <1>12, <1>18 DEF Together, Cut, All, x, y, z, w, wA, wB
<1>. QED BY <1>19

(* The occurrences of a field in both storages are those in the one and    *)
(* those in the other.                                                     *)
LEMMA OccurrencesAdd ==
  ASSUME Inputs, NEW f
  PROVE  Occurrences(All, f) = Occurrences(docsA, f) + Occurrences(docsB, f)
<1>. DEFINE c == Cardinality(ValuesOf(All, f))
            x == Vals(docsA, f)
            y == Vals(docsB, f)
            z == Vals(All, f)
            S == ValuesOf(docsA, f)
            T == ValuesOf(docsB, f)
            wA == HolderCounts(docsA, f)
            wB == HolderCounts(docsB, f)
            w == HolderCounts(All, f)
            N == {k \in Nat : k <= c => \E i, j : Together(docsA, docsB, f, i, j, k)}
<1>1. /\ IsBatch(docsA) /\ IsBatch(docsB) /\ IsBatch(All)
      /\ Lists(x, S) /\ Lists(y, T) /\ ValuesOf(All, f) = S \union T
      /\ Lists(z, S \union T) /\ Numbers(S \union T)
      /\ Len(z) = c /\ c \in Nat
  BY AllValues
<1>2. Len(x) = Cardinality(S) /\ Len(y) = Cardinality(T)
  BY <1>1, ValuesListed DEF Vals
<1>3. wA \in Seq(Nat) /\ wB \in Seq(Nat) /\ w \in Seq(Nat)
  BY <1>1, HolderCountsAre
<1>4. 0 \in N
  <2>1. HalfCut(x, z, 1, 0) /\ HalfCut(y, z, 1, 0)
    BY <1>1, HalfStarts
  <2>2. Total(w, 0) = 0 /\ Total(wA, 0) = 0 /\ Total(wB, 0) = 0
    BY <1>3, TotalSteps
  <2>3. Total(w, 0) = Total(wA, 1 - 1) + Total(wB, 1 - 1)
    BY <2>2
  <2>4. Together(docsA, docsB, f, 1, 1, 0)
    BY <2>1, <2>3 DEF Together, Cut, All
  <2>. QED BY <2>4
<1>5. ASSUME NEW k \in Nat, k \in N PROVE k + 1 \in N
  <2>. SUFFICES ASSUME k + 1 <= c
                PROVE  \E i, j : Together(docsA, docsB, f, i, j, k + 1)
    OBVIOUS
  <2>1. k <= c /\ k + 1 \in 1 .. c
    BY <1>1
  <2>2. PICK i, j : Together(docsA, docsB, f, i, j, k)
    BY <1>5, <2>1
  <2>. QED BY <2>1, <2>2, TogetherStep
<1>6. c \in N
  <2>. HIDE DEF N
  <2>1. \A k \in Nat : k \in N
    BY <1>4, <1>5, NatInductive
  <2>. QED BY <1>1, <2>1
<1>7. PICK i, j : Together(docsA, docsB, f, i, j, c)
  <2>1. c \in Nat /\ c <= c
    BY <1>1
  <2>2. c \in N => (c <= c => \E i, j : Together(docsA, docsB, f, i, j, c))
    <3>. HIDE DEF c
    <3>. QED OBVIOUS
  <2>. QED BY <1>6, <2>1, <2>2
<1>8. /\ HalfCut(x, z, i, c) /\ HalfCut(y, z, j, c)
      /\ Total(w, c) = Total(wA, i - 1) + Total(wB, j - 1)
  BY <1>7 DEF Together, Cut, All
<1>. HIDE DEF c, x, y, z, S, T, wA, wB, w
<1>9. i \in 1 .. Len(x) + 1 /\ j \in 1 .. Len(y) + 1
  BY <1>8 DEF HalfCut
<1>10. ~(c + 1 \in 1 .. Len(z))
  BY <1>1
<1>11. ~(i <= Len(x)) /\ ~(j <= Len(y))
  <2>1. S \subseteq S \union T /\ T \subseteq S \union T
    OBVIOUS
  <2>. QED BY <1>1, <1>8, <1>10, <2>1, HalfTakes
<1>12. Len(x) \in Nat /\ Len(y) \in Nat
  BY <1>1 DEF Lists
<1>13. i - 1 = Len(x) /\ j - 1 = Len(y)
  BY <1>9, <1>11, <1>12
<1>14. Total(w, c) = Total(wA, Len(x)) + Total(wB, Len(y))
  BY <1>8, <1>13
<1>. QED BY <1>2, <1>14 DEF Occurrences, c, wA, wB, w, S, T

(* A storage says it of each of its fields.                                *)
LEMMA SoundSays ==
  ASSUME NEW s, NEW docs, Sound(s, docs), NEW f \in DOMAIN s.fields
  PROVE  FieldSays(s, docs, f)
<1>1. IsBatch(docs) /\ IndexesField(s, docs, f) /\ s.fields[f].tokens \in Seq(Token)
  BY DEF Sound, Indexes, Typed
<1>. QED BY <1>1, FieldIndexSays

(* Merger writes it for each field of the recorded order: copied from the  *)
(* storage that has the field, or added up from both.                      *)
LEMMA BlockStarts ==
  ASSUME Inputs, NEW f \in FieldsOf(All)
  PROVE  BlockHeader(f) = BlockSays(docsA \o docsB, f, << >>)
<1>. DEFINE n == Len(docsA)
            LA == LengthsOf(docsA, f)
            LB == LengthsOf(docsB, f)
            L == LengthsOf(All, f)
            S == ValuesOf(docsA, f)
            T == ValuesOf(docsB, f)
            V == ValuesOf(All, f)
            fa == a.fields[f]
            fb == b.fields[f]
<1>1. /\ IsBatch(docsA) /\ IsBatch(docsB) /\ IsBatch(All)
      /\ DocumentOffset = n /\ n \in Nat
      /\ V = S \union T
      /\ Lists(Vals(docsA, f), S) /\ Lists(Vals(docsB, f), T) /\ Numbers(S \union T)
      /\ Valued(TokensIn(a, f), Vals(docsA, f))
      /\ Valued(TokensIn(b, f), Vals(docsB, f))
  BY AllValues
<1>2. LA \in Seq(LengthEntry) /\ LB \in Seq(LengthEntry)
  BY <1>1, LengthsAre
<1>3. L = LA \o Moved(LB, n)
  BY <1>1, LengthsConcat DEF All
<1>4. Moved(LB, n) \in Seq(LengthEntry) /\ Len(Moved(LB, n)) = Len(LB)
      /\ Shifted(LB) = Moved(LB, n)
  BY <1>1, <1>2, MovedLengths, ShiftedIsMoved
<1>5. LengthSum(L) = LengthSum(LA) + LengthSum(LB)
  BY <1>1, <1>2, <1>3, LengthSumConcat
<1>6. LengthSum(LA) \in Nat /\ LengthSum(LB) \in Nat
  BY <1>2, LengthSumIsNat
<1>7. Occurrences(All, f) = Occurrences(docsA, f) + Occurrences(docsB, f)
  BY OccurrencesAdd
<1>8. Occurrences(docsA, f) \in Nat /\ Occurrences(docsB, f) \in Nat
  <2>1. ASSUME NEW docs, IsBatch(docs) PROVE Occurrences(docs, f) \in Nat
    <3>. DEFINE w == HolderCounts(docs, f)
                c == Cardinality(ValuesOf(docs, f))
    <3>1. w \in Seq(Nat) /\ Len(w) = c /\ c \in Nat
      BY <2>1, HolderCountsAre
    <3>. HIDE DEF w, c
    <3>2. Total(w, c) \in Nat
      BY <3>1, TotalSteps
    <3>. QED BY <3>2 DEF Occurrences, w, c
  <2>. QED BY <1>1, <2>1
<1>9. LengthSum(<< >>) = 0
  <2>1. << >> \in Seq(LengthEntry) /\ Len(<< >>) = 0
    OBVIOUS
  <2>2. PICK w \in Seq(Nat) : Len(w) = Len(<< >>) /\ LengthSum(<< >>) = Total(w, Len(w))
    BY <2>1, LengthSumIsNat
  <2>. QED BY <2>1, <2>2, TotalSteps
<1>10. /\ f \notin FA => LA = << >> /\ Occurrences(docsA, f) = 0 /\ S = {}
       /\ f \notin FB => LB = << >> /\ Occurrences(docsB, f) = 0 /\ T = {}
  BY <1>1, AllFields, AbsentField
<1>11. f \in FA \/ f \in FB
  BY AllFields
<1>12. f \in FA => /\ Len(fa.tokens) = Cardinality(S) /\ fa.lengths = LA
                   /\ fa.total = LengthSum(LA) /\ fa.avg = Average(LengthSum(LA), Len(LA))
                   /\ fa.occurrences = Occurrences(docsA, f)
  BY SoundSays DEF Inputs, FA, FieldSays
<1>13. f \in FB => /\ Len(fb.tokens) = Cardinality(T) /\ fb.lengths = LB
                   /\ fb.total = LengthSum(LB) /\ fb.avg = Average(LengthSum(LB), Len(LB))
                   /\ fb.occurrences = Occurrences(docsB, f)
  BY SoundSays DEF Inputs, FB, FieldSays
<1>14. Len(L) = Len(LA) + Len(LB)
  <2>. HIDE DEF LA, LB, L
  <2>1. Len(LA \o Moved(LB, n)) = Len(LA) + Len(Moved(LB, n))
    BY <1>2, <1>4, CatParts
  <2>. QED BY <1>3, <1>4, <2>1
<1>. DEFINE says == BlockSays(All, f, << >>)
<1>15. says = [hash |-> f, avg |-> Average(LengthSum(L), Len(L)), total |-> LengthSum(L),
               tokenCount |-> Cardinality(V), occurrences |-> Occurrences(All, f),
               lengthCount |-> Len(L), lengths |-> L, tokens |-> << >>]
  BY DEF BlockSays
<1>16. CASE f \notin FB
  <2>1. f \in FA
    BY <1>11, <1>16
  <2>2. BlockHeader(f) = Copied(f, fa, fa.lengths)
    BY <1>16 DEF BlockHeader, FB
  <2>3. Copied(f, fa, fa.lengths)
          = [hash |-> f, avg |-> fa.avg, total |-> fa.total,
             tokenCount |-> Len(fa.tokens), occurrences |-> fa.occurrences,
             lengthCount |-> Len(fa.lengths), lengths |-> fa.lengths, tokens |-> << >>]
    BY DEF Copied
  <2>4. Moved(<< >>, n) = << >>
    BY DEF Moved
  <2>. HIDE DEF LA, LB, L, S, T, V, fa, fb, says
  <2>5. L = LA
    BY <1>2, <1>3, <1>10, <1>16, <2>4
  <2>6. V = S /\ Occurrences(All, f) = Occurrences(docsA, f)
    BY <1>1, <1>7, <1>8, <1>10, <1>16
  <2>. QED BY <1>12, <1>15, <2>1, <2>2, <2>3, <2>5, <2>6 DEF says, All
<1>17. CASE f \notin FA
  <2>1. f \in FB
    BY <1>11, <1>17
  <2>2. BlockHeader(f) = Copied(f, fb, Shifted(fb.lengths))
    BY <1>17, <2>1 DEF BlockHeader, FA, FB
  <2>3. Copied(f, fb, Shifted(fb.lengths))
          = [hash |-> f, avg |-> fb.avg, total |-> fb.total,
             tokenCount |-> Len(fb.tokens), occurrences |-> fb.occurrences,
             lengthCount |-> Len(fb.lengths), lengths |-> Shifted(fb.lengths), tokens |-> << >>]
    BY DEF Copied
  <2>. HIDE DEF LA, LB, L, S, T, V, fa, fb, says
  <2>4. L = Moved(LB, n)
    BY <1>3, <1>4, <1>10, <1>17
  <2>5. LengthSum(L) = LengthSum(LB)
    BY <1>5, <1>6, <1>9, <1>10, <1>17
  <2>6. Len(L) = Len(LB)
    BY <1>4, <2>4
  <2>7. V = T /\ Occurrences(All, f) = Occurrences(docsB, f)
    BY <1>1, <1>7, <1>8, <1>10, <1>17
  <2>8. fb.lengths = LB /\ Shifted(fb.lengths) = L
    BY <1>4, <1>13, <2>1, <2>4
  <2>. QED BY <1>13, <1>15, <2>1, <2>2, <2>3, <2>5, <2>6, <2>7, <2>8 DEF says, All
<1>18. CASE f \in FA /\ f \in FB
  <2>1. BlockHeader(f)
          = [hash |-> f,
             avg |-> Average(fa.total + fb.total, Len(fa.lengths) + Len(fb.lengths)),
             total |-> fa.total + fb.total,
             tokenCount |-> CountTokens(fa.tokens, fb.tokens),
             occurrences |-> fa.occurrences + fb.occurrences,
             lengthCount |-> Len(fa.lengths) + Len(fb.lengths),
             lengths |-> fa.lengths \o Shifted(fb.lengths),
             tokens |-> << >>]
    BY <1>18 DEF BlockHeader, FA, FB
  <2>2. Valued(fa.tokens, Vals(docsA, f)) /\ Valued(fb.tokens, Vals(docsB, f))
    BY <1>1, <1>18 DEF TokensIn, FA, FB
  <2>3. CountTokens(fa.tokens, fb.tokens) = Cardinality(S \union T)
    <3>. HIDE DEF S, T, fa, fb
    <3>. QED BY <1>1, <2>2, CountsUnion
  <2>. HIDE DEF LA, LB, L, S, T, V, fa, fb, says
  <2>4. /\ fa.total + fb.total = LengthSum(L)
        /\ fa.occurrences + fb.occurrences = Occurrences(All, f)
        /\ Len(fa.lengths) + Len(fb.lengths) = Len(L)
        /\ fa.lengths \o Shifted(fb.lengths) = L
        /\ CountTokens(fa.tokens, fb.tokens) = Cardinality(V)
    BY <1>1, <1>3, <1>4, <1>5, <1>7, <1>12, <1>13, <1>14, <1>18, <2>3
  <2>. QED BY <1>15, <2>1, <2>4 DEF says, All
<1>. QED BY <1>16, <1>17, <1>18

(***************************************************************************)
(* The field blocks.                                                       *)
(***************************************************************************)
(* The block of the m-th field of an order, with its first k tokens, and   *)
(* the first n blocks, the last of them with its first k tokens.           *)
BlockAt(docs, o, m, k) ==
  BlockSays(docs, o[m], [t \in 1 .. k |-> LaidToken(docs, o, Before(docs, o, m) + t)])
Blocks(docs, o, n, k) ==
  [m \in 1 .. n |-> BlockAt(docs, o, m, IF m < n THEN Cardinality(ValuesOf(docs, o[m])) ELSE k)]

(* The next block.                                                         *)
LEMMA BlocksStart ==
  ASSUME NEW docs, NEW o, NEW n \in Nat, NEW k,
         n > 0 => k = Cardinality(ValuesOf(docs, o[n]))
  PROVE  Append(Blocks(docs, o, n, k), BlockSays(docs, o[n + 1], << >>)) = Blocks(docs, o, n + 1, 0)
<1>. DEFINE s == Blocks(docs, o, n, k)
            e == BlockSays(docs, o[n + 1], << >>)
            c(m) == Cardinality(ValuesOf(docs, o[m]))
            B(m, i) == BlockAt(docs, o, m, i)
            r == Blocks(docs, o, n + 1, 0)
<1>1. s = [m \in 1 .. n |-> B(m, IF m < n THEN c(m) ELSE k)]
  BY DEF Blocks
<1>2. r = [m \in 1 .. n + 1 |-> B(m, IF m < n + 1 THEN c(m) ELSE 0)]
  BY DEF Blocks
<1>3. B(n + 1, 0) = e
  <2>1. [t \in 1 .. 0 |-> LaidToken(docs, o, Before(docs, o, n + 1) + t)] = << >>
    <3>1. 1 .. 0 = {}
      OBVIOUS
    <3>. QED BY <3>1
  <2>. QED BY <2>1 DEF BlockAt
<1>4. n > 0 => k = c(n)
  OBVIOUS
<1>. HIDE DEF s, e, c, B, r
<1>5. s = [m \in 1 .. n |-> s[m]]
  BY <1>1
<1>6. Append(s, e) = [m \in 1 .. n + 1 |-> IF m = n + 1 THEN e ELSE s[m]]
  BY <1>5, AppendFunction
<1>7. ASSUME NEW m \in 1 .. n + 1
      PROVE  (IF m = n + 1 THEN e ELSE s[m]) = B(m, IF m < n + 1 THEN c(m) ELSE 0)
  <2>1. CASE m = n + 1
    BY <1>3, <2>1
  <2>2. CASE m # n + 1
    <3>1. m \in 1 .. n /\ m < n + 1
      BY <2>2
    <3>2. s[m] = B(m, IF m < n THEN c(m) ELSE k)
      BY <1>1, <3>1
    <3>3. (IF m < n THEN c(m) ELSE k) = c(m)
      BY <1>4, <3>1
    <3>. QED BY <2>2, <3>1, <3>2, <3>3
  <2>. QED BY <2>1, <2>2
<1>8. Append(s, e) = r
  BY <1>2, <1>6, <1>7
<1>. QED BY <1>8 DEF s, e, r

(* The n-th block takes another token.                                     *)
WithToken(blocks, n, token) == [blocks EXCEPT ![n].tokens = Append(@, token)]

(* The next token of the last block.                                       *)
LEMMA BlocksToken ==
  ASSUME NEW docs, NEW o, NEW n \in Nat, n > 0, NEW k \in Nat,
         NEW token, token = LaidToken(docs, o, Before(docs, o, n) + (k + 1))
  PROVE  /\ Len(Blocks(docs, o, n, k)) = n
         /\ WithToken(Blocks(docs, o, n, k), n, token) = Blocks(docs, o, n, k + 1)
<1>. DEFINE s == Blocks(docs, o, n, k)
            c(m) == Cardinality(ValuesOf(docs, o[m]))
            B(m, i) == BlockAt(docs, o, m, i)
            r == Blocks(docs, o, n, k + 1)
            ts(i) == [t \in 1 .. i |-> LaidToken(docs, o, Before(docs, o, n) + t)]
<1>1. s = [m \in 1 .. n |-> B(m, IF m < n THEN c(m) ELSE k)]
  BY DEF Blocks
<1>2. r = [m \in 1 .. n |-> B(m, IF m < n THEN c(m) ELSE k + 1)]
  BY DEF Blocks
<1>3. Append(ts(k), token) = ts(k + 1)
  <2>. DEFINE l(t) == LaidToken(docs, o, Before(docs, o, n) + t)
              x == ts(k)
              y == ts(k + 1)
  <2>1. x = [t \in 1 .. k |-> l(t)] /\ y = [t \in 1 .. k + 1 |-> l(t)] /\ token = l(k + 1)
    OBVIOUS
  <2>. HIDE DEF l, x, y
  <2>2. x = [t \in 1 .. k |-> x[t]]
    BY <2>1
  <2>3. Append(x, token) = [t \in 1 .. k + 1 |-> IF t = k + 1 THEN token ELSE x[t]]
    BY <2>2, AppendFunction
  <2>4. \A t \in 1 .. k + 1 : (IF t = k + 1 THEN token ELSE x[t]) = l(t)
    BY <2>1
  <2>5. Append(x, token) = y
    BY <2>1, <2>3, <2>4
  <2>. QED BY <2>5 DEF x, y
<1>4. B(n, k + 1) = [B(n, k) EXCEPT !.tokens = Append(@, token)]
  <2>1. B(n, k) = BlockSays(docs, o[n], ts(k)) /\ B(n, k + 1) = BlockSays(docs, o[n], ts(k + 1))
    BY DEF BlockAt
  <2>2. \A x, y : BlockSays(docs, o[n], y) = [BlockSays(docs, o[n], x) EXCEPT !.tokens = y]
    BY DEF BlockSays
  <2>3. \A x : BlockSays(docs, o[n], x).tokens = x
    BY DEF BlockSays
  <2>. HIDE DEF B, ts
  <2>. QED BY SMTT(30), <1>3, <2>1, <2>2, <2>3
<1>. HIDE DEF s, c, B, r, ts
<1>5. Len(s) = n
  <2>1. s = [m \in 1 .. n |-> s[m]]
    BY <1>1
  <2>. QED BY <2>1, AppendFunction
<1>6. s[n] = B(n, k)
  BY <1>1
<1>. DEFINE t == [s EXCEPT ![n].tokens = Append(@, token)]
<1>7. t = [s EXCEPT ![n] = B(n, k + 1)]
  BY <1>4, <1>6
<1>8. [s EXCEPT ![n] = B(n, k + 1)] = r
  <2>. DEFINE u == [s EXCEPT ![n] = B(n, k + 1)]
  <2>1. u = [m \in 1 .. n |-> IF m = n THEN B(n, k + 1) ELSE s[m]]
    BY <1>1
  <2>2. \A m \in 1 .. n : (IF m = n THEN B(n, k + 1) ELSE s[m])
                            = B(m, IF m < n THEN c(m) ELSE k + 1)
    BY <1>1
  <2>. HIDE DEF u
  <2>3. u = r
    BY <1>2, <2>1, <2>2
  <2>. QED BY <2>3 DEF u
<1>. QED BY <1>5, <1>7, <1>8 DEF s, r, t, WithToken

(* A pass is never beyond the cells.                                       *)
LEMMA ReachedBound ==
  ASSUME Inputs, NEW o \in Seq(FieldsOf(All)), NEW n \in 0 .. Len(o), NEW w, NEW count,
         Reached(docsA, docsB, o, n, w, count)
  PROVE  count \in Nat /\ count <= Len(Cells(All, o))
<1>1. IsBatch(All)
  BY AllValues
<1>2. CASE n = 0
  BY <1>1, <1>2, BeforeIs DEF Reached
<1>3. CASE n # 0
  <2>1. PICK k \in Nat : Taken(docsA, docsB, w.field, w.i, w.j, k)
                         /\ count = Before(docsA \o docsB, o, n) + k
    BY <1>3 DEF Reached
  <2>2. w.field = o[n] /\ n \in 1 .. Len(o)
    BY <1>3 DEF Reached
  <2>. DEFINE c == Cardinality(ValuesOf(All, o[n]))
              B == Before(All, o, n)
              C == Before(All, o, n + 1)
              N == Len(Cells(All, o))
  <2>3. k <= c /\ c \in Nat
    <3>1. k \in 0 .. Len(Vals(All, o[n]))
      BY <2>1, <2>2 DEF Taken, Cut, HalfCut, Vals, All
    <3>2. Len(Vals(All, o[n])) = c /\ c \in Nat
      BY AllValues
    <3>3. k \in 0 .. c
      BY <3>1, <3>2
    <3>. HIDE DEF c
    <3>. QED BY <3>2, <3>3
  <2>4. B \in Nat /\ C = B + c
    BY <1>1, <2>2, BeforeIs
  <2>5. n + 1 \in 1 .. Len(o) + 1
    BY <2>2
  <2>6. C <= N /\ C \in Nat /\ N \in Nat
    BY <1>1, <2>5, BeforeIs
  <2>7. count = B + k
    BY <2>1 DEF All
  <2>. HIDE DEF c, B, C, N
  <2>8. count \in Nat /\ count <= N
    BY <2>3, <2>4, <2>6, <2>7
  <2>. QED BY <2>8 DEF N
<1>. QED BY <1>2, <1>3

(* How far the blocks are written.                                         *)
Writing(x, y, o, n, w, count, cursor, fields) ==
  /\ n \in 0 .. Len(o)
  /\ Reached(x, y, o, n, w, count)
  /\ cursor = Total(Lens(CellEntries(x \o y, o)), count)
  /\ fields = Blocks(x \o y, o, n, count - Before(x \o y, o, n))

(* The pass starts with no blocks.                                         *)
LEMMA WritingStarts ==
  ASSUME Inputs, NEW o \in Seq(FieldsOf(All))
  PROVE  Writing(docsA, docsB, o, 0, NoWalk, 0, 0, << >>)
<1>1. IsBatch(All)
  BY AllValues
<1>2. Lens(CellEntries(All, o)) \in Seq(Nat)
  BY <1>1, CellEntriesAre
<1>3. 0 = Total(Lens(CellEntries(All, o)), 0)
  BY <1>2, TotalSteps
<1>4. \A k : Blocks(All, o, 0, k) = << >>
  <2>1. 1 .. 0 = {}
    OBVIOUS
  <2>. QED BY <2>1 DEF Blocks
<1>5. 0 \in 0 .. Len(o)
  OBVIOUS
<1>. QED BY <1>3, <1>4, <1>5 DEF Writing, Reached, All

(* The next field.                                                         *)
LEMMA WritingField ==
  ASSUME Inputs, NEW o \in Seq(FieldsOf(All)), NEW n, NEW count, NEW cursor, NEW fields,
         Writing(docsA, docsB, o, n, walk, count, cursor, fields), ~Walking, n < Len(o)
  PROVE  Writing(docsA, docsB, o, n + 1, StartOf(o[n + 1]), count, cursor,
                 Append(fields, BlockHeader(o[n + 1])))
<1>. DEFINE B(m) == Before(All, o, m)
            c(m) == Cardinality(ValuesOf(All, o[m]))
            k == count - B(n)
<1>1. IsBatch(All)
  BY AllValues
<1>2. /\ n \in 0 .. Len(o) /\ n \in Nat /\ n + 1 \in 0 .. Len(o) /\ n + 1 \in 1 .. Len(o)
      /\ o[n + 1] \in FieldsOf(All)
  BY DEF Writing
<1>3. /\ Reached(docsA, docsB, o, n, walk, count)
      /\ cursor = Total(Lens(CellEntries(All, o)), count)
      /\ fields = Blocks(All, o, n, k)
  BY DEF Writing, All
<1>4. count = B(n + 1)
  BY <1>2, <1>3, FieldDone
<1>5. B(n + 1) \in Nat /\ (n > 0 => B(n) \in Nat /\ B(n + 1) = B(n) + c(n))
  <2>1. n + 1 \in 1 .. Len(o) + 1
    BY <1>2
  <2>2. B(n + 1) \in Nat
    BY <1>1, <2>1, BeforeIs
  <2>3. n > 0 => n \in 1 .. Len(o) /\ n \in 1 .. Len(o) + 1
    BY <1>2
  <2>4. n > 0 => B(n) \in Nat /\ B(n + 1) = B(n) + c(n)
    BY <1>1, <2>3, BeforeIs
  <2>. QED BY <2>2, <2>4
<1>6. c(n) \in Nat
  BY AllValues
<1>7. (n > 0 => k = c(n)) /\ count - B(n + 1) = 0
  <2>. HIDE DEF B, c
  <2>. QED BY <1>4, <1>5, <1>6
<1>8. Reached(docsA, docsB, o, n + 1, StartOf(o[n + 1]), count)
  BY <1>2, <1>4, <1>5, FieldStarts
<1>9. Append(fields, BlockSays(All, o[n + 1], << >>)) = Blocks(All, o, n + 1, 0)
  <2>. HIDE DEF k
  <2>. QED BY <1>2, <1>3, <1>7, BlocksStart
<1>10. BlockHeader(o[n + 1]) = BlockSays(All, o[n + 1], << >>)
  BY <1>2, BlockStarts DEF All
<1>11. Append(fields, BlockHeader(o[n + 1])) = Blocks(All, o, n + 1, count - B(n + 1))
  BY <1>7, <1>9, <1>10
<1>. QED BY <1>2, <1>3, <1>8, <1>11 DEF Writing, All

(* The next token.                                                         *)
TurnToken(count, cursor) ==
  [value |-> TurnValue, count |-> DocumentFrequency, list |-> count, freq |-> cursor]

(* A turn of the walk writes the token of the next cell, and its note.     *)
LEMMA WritingToken ==
  ASSUME Inputs, NEW o \in Seq(FieldsOf(All)), NEW n, NEW count, NEW cursor, NEW fields,
         Writing(docsA, docsB, o, n, walk, count, cursor, fields), Walking
  PROVE  /\ Writing(docsA, docsB, o, n, Stepped, count + 1, cursor + DocumentFrequency,
                    [fields EXCEPT ![Len(fields)].tokens = Append(@, TurnToken(count, cursor))])
         /\ count + 1 \in 1 .. Len(Cells(All, o))
         /\ NoteRight(a, b, docsA, docsB, Cells(All, o)[count + 1].f,
                      Cells(All, o)[count + 1].v, TurnNote)
         /\ DocumentFrequency \in Nat
<1>. DEFINE B == Before(All, o, n)
            k == count - B
            w == Lens(CellEntries(All, o))
            p == count + 1
            C == Cells(All, o)[p]
            token == TurnToken(count, cursor)
<1>1. IsBatch(All)
  BY AllValues
<1>2. /\ n \in 0 .. Len(o)
      /\ Reached(docsA, docsB, o, n, walk, count)
      /\ cursor = Total(w, count)
      /\ fields = Blocks(All, o, n, k)
  BY DEF Writing, All
<1>3. CellTaken(o, n, count)
  BY <1>2, TurnReaches
<1>4. /\ n \in 1 .. Len(o) /\ n \in Nat /\ n > 0
      /\ count + 1 \in 1 .. Len(Cells(All, o))
      /\ C.f = walk.field
      /\ Reached(docsA, docsB, o, n, Stepped, count + 1)
      /\ TurnValue = C.v
      /\ DocumentFrequency = Len(EntriesOf(All, C.f, C.v))
      /\ NoteRight(a, b, docsA, docsB, C.f, C.v, TurnNote)
  BY <1>3 DEF CellTaken, TurnRight
<1>5. k \in 0 .. Cardinality(ValuesOf(All, o[n])) - 1 /\ Cardinality(ValuesOf(All, o[n])) \in Nat
  BY <1>3, AllValues DEF CellTaken
<1>6. count \in Nat /\ B \in Nat /\ k \in Nat
  <2>1. count \in Nat
    BY <1>2, ReachedBound
  <2>2. n \in 1 .. Len(o) + 1
    BY <1>4
  <2>3. B \in Nat
    BY <1>1, <2>2, BeforeIs
  <2>4. k \in Nat
    BY <1>5
  <2>. QED BY <2>1, <2>3, <2>4
<1>7. /\ w \in Seq(Nat) /\ Len(w) = Len(Cells(All, o))
      /\ CellEntries(All, o)[p] = EntriesOf(All, C.f, C.v)
      /\ w[p] = Len(CellEntries(All, o)[p])
      /\ LenSum(SubSeq(CellEntries(All, o), 1, p - 1)) = Total(w, p - 1)
  <2>1. p \in 1 .. Len(Cells(All, o))
    BY <1>4
  <2>. HIDE DEF p
  <2>. QED BY <1>1, <2>1, CellEntriesAre
<1>8. p - 1 = count
  BY <1>6
<1>9. token = LaidToken(All, o, p)
  <2>1. LaidToken(All, o, p)
          = [value |-> C.v, count |-> Len(CellEntries(All, o)[p]),
             list |-> p - 1, freq |-> LenSum(SubSeq(CellEntries(All, o), 1, p - 1))]
    <3>. HIDE DEF p
    <3>. QED BY DEF LaidToken
  <2>2. token = [value |-> C.v, count |-> Len(CellEntries(All, o)[p]),
                 list |-> count, freq |-> Total(w, count)]
    <3>. HIDE DEF p, C, w
    <3>. QED BY <1>2, <1>4, <1>7 DEF TurnToken
  <2>. HIDE DEF p, C, w, token
  <2>. QED BY <1>7, <1>8, <2>1, <2>2
<1>10. cursor + DocumentFrequency = Total(w, count + 1) /\ DocumentFrequency \in Nat
  <2>1. DocumentFrequency = w[p]
    BY <1>4, <1>7
  <2>2. p \in 1 .. Len(w)
    BY <1>4, <1>7
  <2>. HIDE DEF w, p
  <2>3. Total(w, p) = Total(w, p - 1) + w[p]
    BY <1>7, <2>2, TotalSteps
  <2>4. w[p] \in Nat
    BY <1>7, <2>2
  <2>5. cursor + DocumentFrequency = Total(w, p)
    BY <1>2, <1>8, <2>1, <2>3
  <2>. QED BY <2>1, <2>4, <2>5 DEF p
<1>11. B + (k + 1) = count + 1 /\ (count + 1) - B = k + 1
  <2>. HIDE DEF B
  <2>. QED BY <1>6
<1>12. token = LaidToken(All, o, B + (k + 1))
  BY <1>9, <1>11
<1>13. /\ Len(fields) = n
       /\ [fields EXCEPT ![n].tokens = Append(@, token)] = Blocks(All, o, n, k + 1)
  <2>1. n \in Nat /\ n > 0
    BY <1>4
  <2>2. k \in Nat
    BY <1>6
  <2>3. fields = Blocks(All, o, n, k)
    BY <1>2
  <2>4. token = LaidToken(All, o, Before(All, o, n) + (k + 1))
    BY <1>12
  <2>. HIDE DEF k, token
  <2>5. /\ Len(Blocks(All, o, n, k)) = n
        /\ WithToken(Blocks(All, o, n, k), n, token) = Blocks(All, o, n, k + 1)
    <3>1. \A x, y, m : m \in Nat /\ m > 0 => \A i : i \in Nat => \A e :
             e = LaidToken(x, y, Before(x, y, m) + (i + 1)) =>
               /\ Len(Blocks(x, y, m, i)) = m
               /\ WithToken(Blocks(x, y, m, i), m, e) = Blocks(x, y, m, i + 1)
      BY BlocksToken
    <3>2. \A i : i \in Nat => \A e :
             e = LaidToken(All, o, Before(All, o, n) + (i + 1)) =>
               /\ Len(Blocks(All, o, n, i)) = n
               /\ WithToken(Blocks(All, o, n, i), n, e) = Blocks(All, o, n, i + 1)
      BY ONLY <2>1, <3>1
    <3>. QED BY ONLY <2>2, <2>4, <3>2
  <2>6. WithToken(fields, n, token) = Blocks(All, o, n, k + 1)
    BY <2>3, <2>5
  <2>. QED BY <2>3, <2>5, <2>6 DEF WithToken
<1>14. [fields EXCEPT ![Len(fields)].tokens = Append(@, token)]
         = Blocks(All, o, n, (count + 1) - B)
  BY <1>11, <1>13
<1>15. Writing(docsA, docsB, o, n, Stepped, count + 1, cursor + DocumentFrequency,
               [fields EXCEPT ![Len(fields)].tokens = Append(@, token)])
  BY <1>2, <1>4, <1>10, <1>14 DEF Writing, All
<1>. QED BY <1>4, <1>10, <1>15

(* At the end every block has all its tokens.                              *)
AllBlocks(docs, o) ==
  [m \in 1 .. Len(o) |-> BlockAt(docs, o, m, Cardinality(ValuesOf(docs, o[m])))]

(* The blocks that are there when the pass ends.                           *)
LEMMA WritingEnds ==
  ASSUME Inputs, NEW o \in Seq(FieldsOf(All)), NEW count, NEW cursor, NEW fields,
         Writing(docsA, docsB, o, Len(o), walk, count, cursor, fields), ~Walking
  PROVE  /\ count = Len(Cells(All, o))
         /\ fields = AllBlocks(docsA \o docsB, o)
<1>. DEFINE n == Len(o)
            B(m) == Before(All, o, m)
            c(m) == Cardinality(ValuesOf(All, o[m]))
            k == count - B(n)
<1>1. IsBatch(All)
  BY AllValues
<1>2. /\ n \in 0 .. n /\ n \in Nat
      /\ Reached(docsA, docsB, o, n, walk, count)
      /\ fields = Blocks(All, o, n, k)
  BY DEF Writing, All
<1>3. count = B(n + 1)
  BY <1>2, FieldDone
<1>4. count = Len(Cells(All, o))
  BY <1>1, <1>3, BeforeIs
<1>5. n > 0 => k = c(n)
  <2>1. n > 0 => n \in 1 .. n /\ n \in 1 .. n + 1
    BY <1>2
  <2>2. n > 0 => B(n) \in Nat /\ B(n + 1) = B(n) + c(n)
    BY <1>1, <2>1, BeforeIs
  <2>3. c(n) \in Nat
    BY AllValues
  <2>. HIDE DEF B, c, n
  <2>. QED BY <1>3, <2>2, <2>3
<1>6. Blocks(All, o, n, k) = AllBlocks(All, o)
  <2>1. \A m \in 1 .. n : (IF m < n THEN c(m) ELSE k) = c(m)
    <3>. HIDE DEF c, k, n
    <3>. QED BY <1>2, <1>5
  <2>. QED BY <2>1 DEF Blocks, AllBlocks
<1>. QED BY <1>2, <1>4, <1>6 DEF All

-----------------------------------------------------------------------------
(***************************************************************************)
(* The file, when its header is written.                                   *)
(***************************************************************************)
MergedFile(docs, o) ==
  [header |-> <<[docs   |-> Len(docs),
                 fields |-> Len(o),
                 lists  |-> Len(Cells(docs, o)),
                 data   |-> Total(Sizes(docs, o), Len(Cells(docs, o))),
                 freqs  |-> Len(FlattenSeq(CellEntries(docs, o)))]>>,
   ids    |-> [k \in DOMAIN docs |-> docs[k].id],
   freqs  |-> FlattenSeq(CellEntries(docs, o)),
   fields |-> AllBlocks(docs, o),
   heads  |-> [p \in 1 .. Len(Cells(docs, o)) |-> CellHead(docs, o, p)],
   data   |-> CellHolders(docs, o)]

(* The blocks are those of a storage of all the documents.                 *)
LEMMA BlocksAreSaved ==
  ASSUME NEW docs, IsBatch(docs), NEW o \in SetToSeqs(FieldsOf(docs))
  PROVE  AllBlocks(docs, o) = [m \in 1 .. Len(o) |-> SavedBlock(docs, o, o[m])]
<1>1. ASSUME NEW m \in 1 .. Len(o)
      PROVE  BlockAt(docs, o, m, Cardinality(ValuesOf(docs, o[m]))) = SavedBlock(docs, o, o[m])
  <2>1. LaidOut(docs, o).fields[o[m]].tokens
          = [k \in 1 .. Cardinality(ValuesOf(docs, o[m])) |->
               LaidToken(docs, o, Before(docs, o, m) + k)]
    BY LaidFieldIndexes
  <2>. QED BY <2>1 DEF BlockAt, SavedBlock
<1>. QED BY <1>1 DEF AllBlocks

(* The file is the file of that storage, the blocks in the order of its    *)
(* cells.                                                                  *)
LEMMA MergedIsSaved ==
  ASSUME NEW docs, IsBatch(docs), NEW o \in SetToSeqs(FieldsOf(docs))
  PROVE  MergedFile(docs, o) = SavedFile(docs, o, o)
<1>1. AllBlocks(docs, o) = [m \in 1 .. Len(o) |-> SavedBlock(docs, o, o[m])]
  BY BlocksAreSaved
<1>. QED BY ZenonT(60), <1>1 DEF SavedFile, MergedFile

(* Load finds in it the layout of a storage of all the documents.          *)
LEMMA MergedLoads ==
  ASSUME NEW docs, IsBatch(docs), NEW o \in SetToSeqs(FieldsOf(docs))
  PROVE  Load(MergedFile(docs, o)) = LaidOut(docs, o)
BY MergedIsSaved, SavedLoads

(* The ids of both storages.                                               *)
LEMMA IdsConcat ==
  ASSUME Inputs
  PROVE  /\ a.ids \o b.ids = [k \in DOMAIN All |-> All[k].id]
         /\ Len(a.ids) + Len(b.ids) = Len(All)
         /\ \E V : a.ids \o b.ids \in Seq(V)
<1>. DEFINE V == {docsA[k].id : k \in 1 .. Len(docsA)} \union {docsB[k].id : k \in 1 .. Len(docsB)}
            x == a.ids
            y == b.ids
<1>1. /\ IsBatch(docsA) /\ IsBatch(docsB)
      /\ x = [k \in DOMAIN docsA |-> docsA[k].id] /\ y = [k \in DOMAIN docsB |-> docsB[k].id]
  BY DEF Inputs, Sound, Indexes
<1>2. /\ Len(docsA) \in Nat /\ Len(docsB) \in Nat
      /\ DOMAIN docsA = 1 .. Len(docsA) /\ DOMAIN docsB = 1 .. Len(docsB)
  BY <1>1, BatchSets
<1>. DEFINE m == Len(docsA)
            n == Len(docsB)
            u == docsA \o docsB
<1>. HIDE DEF V, x, y
<1>3. IsBatch(docsA) /\ IsBatch(docsB)
  BY <1>1
<1>4. /\ Len(u) = Len(docsA) + Len(docsB)
      /\ DOMAIN u = 1 .. Len(docsA) + Len(docsB)
      /\ \A k \in 1 .. Len(docsA) : u[k] = docsA[k]
      /\ \A k \in 1 .. Len(docsB) : u[Len(docsA) + k] = docsB[k]
  BY ONLY <1>3, BatchConcat
<1>5. /\ Len(u) = m + n
      /\ DOMAIN u = 1 .. m + n
      /\ \A k \in 1 .. m : u[k] = docsA[k]
      /\ \A k \in 1 .. n : u[m + k] = docsB[k]
      /\ \A k \in 1 .. m + n : k \in 1 .. m \/ (k - m \in 1 .. n /\ k = m + (k - m))
  <2>1. m \in Nat /\ n \in Nat
    BY <1>2
  <2>. HIDE DEF m, n, u
  <2>2. \A k \in 1 .. m + n : k \in 1 .. m \/ (k - m \in 1 .. n /\ k = m + (k - m))
    BY <2>1
  <2>. QED BY <1>4, <2>2 DEF m, n
<1>6. x \in [1 .. m -> V] /\ y \in [1 .. n -> V]
  <2>1. /\ \A k \in 1 .. m : docsA[k].id \in V
        /\ \A k \in 1 .. n : docsB[k].id \in V
    BY DEF V
  <2>. QED BY <1>1, <1>2, <2>1
<1>7. m \in Nat /\ n \in Nat /\ DOMAIN docsA = 1 .. m /\ DOMAIN docsB = 1 .. n
  BY <1>2
<1>. HIDE DEF m, n, u
<1>8. /\ x \in Seq(V) /\ Len(x) = m /\ y \in Seq(V) /\ Len(y) = n
  BY <1>7, <1>6, FunctionIsSeq
<1>9. x \in Seq(V) /\ y \in Seq(V)
  BY <1>8
<1>10. /\ x \o y \in Seq(V)
       /\ Len(x \o y) = Len(x) + Len(y)
       /\ \A k \in 1 .. Len(x) : (x \o y)[k] = x[k]
       /\ \A k \in 1 .. Len(y) : (x \o y)[Len(x) + k] = y[k]
  BY ONLY <1>9, CatParts
<1>11. \A k \in 1 .. m + n : (x \o y)[k] = u[k].id
  <2>. TAKE k \in 1 .. m + n
  <2>1. CASE k \in 1 .. m
    BY <1>1, <1>7, <1>5, <1>8, <1>10, <2>1
  <2>2. CASE k - m \in 1 .. n /\ k = m + (k - m)
    <3>. DEFINE j == k - m
    <3>1. j \in 1 .. n /\ k = m + j
      BY <2>2
    <3>. HIDE DEF j
    <3>2. (x \o y)[m + j] = y[j] /\ u[m + j] = docsB[j]
      BY <1>5, <1>8, <1>10, <3>1
    <3>3. y[j] = docsB[j].id
      BY <1>1, <1>7, <3>1
    <3>. QED BY <3>1, <3>2, <3>3
  <2>. QED BY <1>5, <2>1, <2>2
<1>12. x \o y = [k \in 1 .. m + n |-> (x \o y)[k]]
  <2>. DEFINE z == x \o y
  <2>1. z \in Seq(V) /\ Len(z) = m + n
    BY <1>8, <1>10
  <2>. HIDE DEF z
  <2>2. z = [k \in 1 .. Len(z) |-> z[k]]
    BY <2>1
  <2>. QED BY <2>1, <2>2 DEF z
<1>13. x \o y = [k \in DOMAIN u |-> u[k].id]
  BY <1>5, <1>11, <1>12
<1>14. Len(x) + Len(y) = Len(u)
  BY <1>5, <1>8
<1>. QED BY <1>10, <1>13, <1>14 DEF x, y, u, All

(* Another field behind two orders, and behind a part of one.              *)
Regroups(x, y, e) == Append(x \o y, e) = x \o Append(y, e)

(* Appending to the second of two orders appends to both together.         *)
LEMMA AppendBehind ==
  ASSUME NEW S, NEW x \in Seq(S), NEW y \in Seq(S), NEW e \in S
  PROVE  Regroups(x, y, e)
<1>1. /\ Append(x \o y, e) \in Seq(S) /\ x \o Append(y, e) \in Seq(S)
      /\ Len(Append(x \o y, e)) = Len(x) + Len(y) + 1
      /\ Len(x \o Append(y, e)) = Len(x) + Len(y) + 1
  OBVIOUS
<1>2. \A k \in 1 .. Len(x) + Len(y) + 1 : Append(x \o y, e)[k] = (x \o Append(y, e))[k]
  OBVIOUS
<1>. QED BY <1>1, <1>2, SameSeq DEF Regroups

(* A part of an order grows by its next field.                             *)
Grows(S, x, c, n) ==
  /\ Append(x \o SubSeq(c, 1, n), c[n + 1]) = x \o SubSeq(c, 1, n + 1)
  /\ x \o SubSeq(c, 1, n) \in Seq(S)
  /\ x \o SubSeq(c, 1, n + 1) \in Seq(S)
  /\ c[n + 1] \in S

(* Each order grows so, from nothing to the whole.                         *)
LEMMA PartGrows ==
  ASSUME NEW S, NEW x \in Seq(S), NEW c \in Seq(S)
  PROVE  /\ x \o SubSeq(c, 1, 0) = x
         /\ SubSeq(c, 1, Len(c)) = c
         /\ \A n \in Nat : n < Len(c) => Grows(S, x, c, n)
<1>1. SubSeq(c, 1, 0) \in Seq(S) /\ Len(SubSeq(c, 1, 0)) = 0
  BY SubSeqProperties
<1>2. x \o SubSeq(c, 1, 0) = x
  BY <1>1
<1>3. SubSeq(c, 1, Len(c)) = c
  <2>1. Len(c) \in Nat /\ c = [k \in 1 .. Len(c) |-> c[k]]
    OBVIOUS
  <2>. QED BY <2>1, WholeIs
<1>4. ASSUME NEW n \in Nat, n < Len(c)
      PROVE  Grows(S, x, c, n)
  <2>. DEFINE p == SubSeq(c, 1, n)
              q == SubSeq(c, 1, n + 1)
              e == c[n + 1]
  <2>1. e \in S
    BY <1>4
  <2>2. p \in Seq(S) /\ Len(p) = n /\ \A k \in 1 .. n : p[k] = c[k]
    BY <1>4
  <2>3. q \in Seq(S) /\ Len(q) = n + 1 /\ \A k \in 1 .. n + 1 : q[k] = c[k]
    BY <1>4
  <2>. HIDE DEF p, q
  <2>4. Append(p, e) \in Seq(S) /\ Len(Append(p, e)) = n + 1
        /\ \A k \in 1 .. n + 1 : Append(p, e)[k] = q[k]
    BY <2>1, <2>2, <2>3
  <2>5. Append(p, e) = q
    BY <2>3, <2>4, SameSeq
  <2>. HIDE DEF e
  <2>6. p \in Seq(S)
    BY <2>2
  <2>7. Append(x \o p, e) = x \o Append(p, e)
    <3>1. Regroups(x, p, e)
      BY <2>1, <2>6, AppendBehind
    <3>. QED BY <3>1 DEF Regroups
  <2>8. x \o p \in Seq(S) /\ x \o q \in Seq(S)
    BY <2>3, <2>6
  <2>. QED BY <2>1, <2>5, <2>7, <2>8 DEF Grows, p, q, e
<1>. QED BY <1>2, <1>3, <1>4

(* The preparation starts with nothing.                                    *)
LEMMA PrepareStarts ==
  ASSUME Inputs
  PROVE  Prepared(docsA, docsB, << >>, NoWalk, 0, << >>)
<1>1. IsBatch(All)
  BY AllValues
<1>2. << >> \in Seq(FieldsOf(All)) /\ Len(<< >>) = 0 /\ << >> \in Seq(Entry)
  OBVIOUS
<1>3. IsBatch(All) /\ << >> \in Seq(FieldsOf(All)) /\ Len(<< >>) = 0 /\ << >> \in Seq(Entry)
  BY <1>1, <1>2
<1>4. Lens(CellEntries(All, << >>)) \in Seq(Nat)
  BY <1>3, CellEntriesAre
<1>5. Total(Lens(CellEntries(All, << >>)), 0) = 0
  BY <1>4, TotalSteps
<1>6. 1 .. 0 = {}
  OBVIOUS
<1>7. Placed(<< >>, CellEntries(All, << >>), 0)
  BY <1>3, <1>5, <1>6 DEF Placed
<1>8. Reached(docsA, docsB, << >>, 0, NoWalk, 0)
  BY DEF Reached
<1>. QED BY <1>3, <1>7, <1>8 DEF Prepared, All

-----------------------------------------------------------------------------
(***************************************************************************)
(* The inductive invariant: what each pass has done, and what the passes   *)
(* after it will find.                                                     *)
(***************************************************************************)
(* The output file while its header is zero.                               *)
Unsigned(ids, freqs, fields, hs, data) ==
  [header |-> <<ZeroHeader>>, ids |-> ids, freqs |-> freqs, fields |-> fields,
   heads |-> hs, data |-> data]

(* The fields the preparation has started, in order.                       *)
Started ==
  IF pc = "prepareA" THEN orderA
  ELSE IF pc = "prepareB" THEN orderA \o orderB
  ELSE (orderA \o orderB) \o SubSeq(orderC, 1, turn)

OrdersInv ==
  /\ pc = "create" => orderA = << >> /\ orderB = << >> /\ orderC = << >> /\ turn = 0
  /\ pc = "prepareA" => /\ todo \subseteq FA
                        /\ Once(orderA, (FA \ FB) \ todo)
                        /\ Once(orderC, (FA \intersect FB) \ todo)
                        /\ orderB = << >> /\ turn = 0
  /\ pc = "prepareB" => /\ todo \subseteq FB
                        /\ Once(orderA, FA \ FB)
                        /\ Once(orderC, FA \intersect FB)
                        /\ Once(orderB, (FB \ FA) \ todo)
                        /\ turn = 0
  /\ pc = "prepareC" => turn \in 0 .. Len(orderC)
  /\ pc \in {"prepareC", "fields", "lists", "header", "done"} => Ordered

PrepareInv ==
  /\ pc = "create" => walk = NoWalk /\ listCount = 0 /\ out = NoSuchFile
  /\ pc \in {"prepareA", "prepareB", "prepareC"} =>
       /\ Started \in Seq(FieldsOf(docsA \o docsB))
       /\ Prepared(docsA, docsB, Started, walk, listCount, out.freqs)
       /\ out = Unsigned(a.ids \o b.ids, out.freqs, << >>, << >>, << >>)
  /\ pc \in {"create", "prepareA", "prepareB", "prepareC"} => notes = << >> /\ freqCursor = 0
  /\ pc \in {"create", "prepareA", "prepareB", "prepareC", "fields"} =>
       heads = << >> /\ at = 0 /\ dataSize = 0

(* The p-th note is that of the p-th cell.                                 *)
Noted(s, t, x, y, o, ns) ==
  \A p \in 1 .. Len(ns) :
    NoteRight(s, t, x, y, Cells(x \o y, o)[p].f, Cells(x \o y, o)[p].v, ns[p])

NotesInv ==
  /\ listCursor = Len(notes)
  /\ notes \in Seq(Notes(a, b))
  /\ pc \in {"fields", "lists", "header", "done"} =>
       Noted(a, b, docsA, docsB, RecordedOrder, notes)

FieldsInv ==
  pc = "fields" =>
    /\ Writing(docsA, docsB, RecordedOrder, turn, walk, Len(notes), freqCursor, out.fields)
    /\ listCount = Len(Cells(docsA \o docsB, RecordedOrder))
    /\ out = Unsigned(a.ids \o b.ids, FlattenSeq(CellEntries(docsA \o docsB, RecordedOrder)),
                      out.fields, << >>, << >>)

ListsInv ==
  pc \in {"lists", "header", "done"} =>
    /\ Len(notes) = Len(Cells(docsA \o docsB, RecordedOrder))
    /\ listCount = Len(Cells(docsA \o docsB, RecordedOrder))
    /\ freqCursor = Len(FlattenSeq(CellEntries(docsA \o docsB, RecordedOrder)))
    /\ Listing(docsA \o docsB, RecordedOrder, turn, out.data, dataSize, heads, at, out.heads)
    /\ pc \in {"lists", "header"} =>
         out = Unsigned(a.ids \o b.ids, FlattenSeq(CellEntries(docsA \o docsB, RecordedOrder)),
                        AllBlocks(docsA \o docsB, RecordedOrder), out.heads, out.data)
    /\ pc \in {"header", "done"} => turn = Len(notes) /\ heads = << >> /\ at = Len(notes)
    /\ pc = "done" => out = MergedFile(docsA \o docsB, RecordedOrder)

FailedInv == pc = "failed" => out = NoSuchFile

Inv == /\ Inputs /\ TypeOK /\ OrdersInv /\ PrepareInv /\ NotesInv /\ FieldsInv
       /\ ListsInv /\ FailedInv

(* Init establishes it: the storages index their documents, whatever the   *)
(* layout BuildFrom gave them.                                             *)
LEMMA InitInv == Init => Inv
<1>. SUFFICES ASSUME Init PROVE Inv
  OBVIOUS
<1>1. PICK p \in Pairs : /\ docsA = p[1] /\ docsB = p[2]
                         /\ a \in LayoutsOf(p[1]) /\ b \in LayoutsOf(p[2])
  BY DEF Init
<1>2. IsBatch(docsA) /\ IsBatch(docsB) /\ a \in LayoutsOf(docsA) /\ b \in LayoutsOf(docsB)
  BY <1>1, MergerAssumption
<1>3. Inputs
  BY <1>2, LaidOutIndexes DEF Inputs, Sound
<1>4. notes = << >> /\ heads = << >> /\ Len(<< >>) = 0 /\ DOMAIN << >> = {}
  BY DEF Init
<1>5. /\ pc = "create" /\ todo = {} /\ turn = 0 /\ listCount = 0 /\ listCursor = 0
      /\ freqCursor = 0 /\ temp = FALSE /\ at = 0 /\ dataSize = 0
      /\ lost = [blocks |-> 0, lists |-> 0]
  BY DEF Init
<1>6. temp \in BOOLEAN
  BY <1>5
<1>7. \A k \in DOMAIN notes : /\ notes[k].a \in -1 .. Len(a.lists) - 1
                             /\ notes[k].b \in -1 .. Len(b.lists) - 1
  BY <1>4
<1>8. at + Len(heads) <= Len(notes)
  BY <1>4, <1>5
<1>9. TypeOK
  <2>1. lost \in [blocks : Nat, lists : 0 .. Len(notes)]
    BY <1>4, <1>5
  <2>. QED BY <1>5, <1>6, <1>7, <1>8, <2>1 DEF TypeOK
<1>10. OrdersInv
  BY DEF Init, OrdersInv
<1>11. PrepareInv
  BY DEF Init, PrepareInv
<1>12. NotesInv
  BY <1>4 DEF Init, NotesInv
<1>13. FieldsInv /\ ListsInv /\ FailedInv
  BY DEF Init, FieldsInv, ListsInv, FailedInv
<1>. QED BY <1>3, <1>9, <1>10, <1>11, <1>12, <1>13 DEF Inv

(* No step changes the storages.                                           *)
LEMMA InputsStay ==
  ASSUME Inputs, UNCHANGED inputVars
  PROVE  /\ Inputs'
         /\ a' = a /\ b' = b /\ docsA' = docsA /\ docsB' = docsB
         /\ FA' = FA /\ FB' = FB /\ All' = All
BY DEF Inputs, inputVars, FA, FB, All

(* One step after the other keeps it.                                      *)
LEMMA CreateKeeps ==
  ASSUME Inv, Create
  PROVE  Inv'
<1>1. /\ Inputs /\ TypeOK /\ OrdersInv /\ PrepareInv /\ NotesInv
  BY DEF Inv
<1>2. /\ pc = "create" /\ pc' = "prepareA" /\ todo' = DOMAIN a.fields
      /\ UNCHANGED <<orderA, orderB, orderC, turn, walk, listCount, listCursor, freqCursor,
                     notes, temp, heads, at, dataSize, lost>>
      /\ UNCHANGED inputVars
      /\ out' = [NoSuchFile EXCEPT !.header = <<ZeroHeader>>, !.ids = a.ids \o b.ids]
  BY DEF Create, cursorVars, listVars
<1>3. /\ Inputs' /\ a' = a /\ b' = b /\ docsA' = docsA /\ docsB' = docsB /\ FA' = FA /\ FB' = FB
  BY <1>1, <1>2, InputsStay
<1>4. /\ orderA = << >> /\ orderB = << >> /\ orderC = << >> /\ turn = 0
      /\ walk = NoWalk /\ listCount = 0 /\ notes = << >> /\ freqCursor = 0
      /\ heads = << >> /\ at = 0 /\ dataSize = 0
  BY <1>1, <1>2 DEF OrdersInv, PrepareInv
<1>5. out' = Unsigned(a.ids \o b.ids, << >>, << >>, << >>, << >>) /\ out'.freqs = << >>
  BY <1>2 DEF Unsigned, NoSuchFile
<1>6. TypeOK'
  BY <1>1, <1>2, <1>3 DEF TypeOK
<1>7. \A S : S = {} => Once(<< >>, S)
  BY DEF Once
<1>8. OrdersInv'
  <2>1. (FA \ FB) \ todo' = {} /\ (FA \intersect FB) \ todo' = {} /\ todo' \subseteq FA
    BY <1>2 DEF FA
  <2>2. Once(orderA', (FA' \ FB') \ todo') /\ Once(orderC', (FA' \intersect FB') \ todo')
    BY <1>2, <1>3, <1>4, <1>7, <2>1
  <2>. QED BY <1>2, <1>3, <1>4, <2>1, <2>2 DEF OrdersInv
<1>9. PrepareInv'
  <2>1. Started' = << >>
    BY <1>2, <1>4 DEF Started
  <2>2. << >> \in Seq(FieldsOf(docsA \o docsB))
    OBVIOUS
  <2>3. Prepared(docsA, docsB, << >>, NoWalk, 0, << >>)
    BY <1>1, PrepareStarts
  <2>. QED BY <1>2, <1>3, <1>4, <1>5, <2>1, <2>2, <2>3 DEF PrepareInv
<1>10. NotesInv'
  BY <1>1, <1>2, <1>3 DEF NotesInv
<1>11. FieldsInv' /\ ListsInv' /\ FailedInv'
  BY <1>2 DEF FieldsInv, ListsInv, FailedInv
<1>. QED BY <1>3, <1>6, <1>8, <1>9, <1>10, <1>11 DEF Inv

(* PrepareFieldA: a field of A starts a walk, or is put off when B has it. *)
LEMMA PrepareFieldAKeeps ==
  ASSUME Inv, NEW f, PrepareFieldA(f)
  PROVE  Inv'
<1>1. /\ Inputs /\ TypeOK /\ OrdersInv /\ PrepareInv /\ NotesInv
  BY DEF Inv
<1>2. /\ pc = "prepareA" /\ pc' = "prepareA" /\ ~Walking /\ f \in todo /\ todo' = todo \ {f}
      /\ IF f \in FB THEN orderC' = Append(orderC, f) /\ orderA' = orderA /\ walk' = walk
         ELSE orderA' = Append(orderA, f) /\ walk' = StartOf(f) /\ orderC' = orderC
      /\ UNCHANGED <<orderB, turn, listCount, listCursor, freqCursor,
                     notes, temp, heads, at, dataSize, out, lost>>
      /\ UNCHANGED inputVars
  BY DEF PrepareFieldA, cursorVars, listVars, FB
<1>3. /\ Inputs' /\ a' = a /\ b' = b /\ docsA' = docsA /\ docsB' = docsB /\ FA' = FA /\ FB' = FB
  BY <1>1, <1>2, InputsStay
<1>4. /\ todo \subseteq FA /\ orderB = << >> /\ turn = 0
      /\ Once(orderA, (FA \ FB) \ todo) /\ Once(orderC, (FA \intersect FB) \ todo)
      /\ notes = << >> /\ freqCursor = 0 /\ heads = << >> /\ at = 0 /\ dataSize = 0
      /\ Started = orderA /\ Started' = orderA'
      /\ orderA \in Seq(FieldsOf(All))
      /\ Prepared(docsA, docsB, orderA, walk, listCount, out.freqs)
      /\ out = Unsigned(a.ids \o b.ids, out.freqs, << >>, << >>, << >>)
  BY <1>1, <1>2 DEF OrdersInv, PrepareInv, Started, All
<1>5. TypeOK'
  BY <1>1, <1>2, <1>3 DEF TypeOK
<1>6. OrdersInv'
  <2>1. CASE f \in FB
    <3>1. /\ (FA \ FB) \ todo' = (FA \ FB) \ todo
          /\ (FA \intersect FB) \ todo' = ((FA \intersect FB) \ todo) \union {f}
          /\ f \notin (FA \intersect FB) \ todo
      BY <1>2, <1>4, <2>1
    <3>2. Once(Append(orderC, f), (FA \intersect FB) \ todo')
      BY <1>4, <3>1, OnceMore
    <3>. QED BY <1>2, <1>3, <1>4, <2>1, <3>1, <3>2 DEF OrdersInv
  <2>2. CASE f \notin FB
    <3>1. /\ (FA \intersect FB) \ todo' = (FA \intersect FB) \ todo
          /\ (FA \ FB) \ todo' = ((FA \ FB) \ todo) \union {f}
          /\ f \notin (FA \ FB) \ todo
      BY <1>2, <1>4, <2>2
    <3>2. Once(Append(orderA, f), (FA \ FB) \ todo')
      BY <1>4, <3>1, OnceMore
    <3>. QED BY <1>2, <1>3, <1>4, <2>2, <3>1, <3>2 DEF OrdersInv
  <2>. QED BY <2>1, <2>2
<1>7. f \in FieldsOf(All)
  BY <1>1, <1>2, <1>4, AllFields
<1>8. /\ orderA' \in Seq(FieldsOf(All))
      /\ Prepared(docsA, docsB, orderA', walk', listCount, out.freqs)
  <2>1. CASE f \in FB
    BY <1>2, <1>4, <2>1
  <2>2. CASE f \notin FB
    <3>1. Prepared(docsA, docsB, Append(orderA, f), StartOf(f), listCount, out.freqs)
      BY <1>1, <1>2, <1>4, <1>7, PrepareField
    <3>2. Append(orderA, f) \in Seq(FieldsOf(All))
      BY <1>4, <1>7
    <3>. QED BY <1>2, <2>2, <3>1, <3>2
  <2>. QED BY <2>1, <2>2
<1>9. PrepareInv'
  BY <1>2, <1>3, <1>4, <1>8 DEF PrepareInv, All
<1>10. NotesInv'
  BY <1>1, <1>2, <1>3 DEF NotesInv
<1>11. FieldsInv' /\ ListsInv' /\ FailedInv'
  BY <1>2 DEF FieldsInv, ListsInv, FailedInv
<1>. QED BY <1>3, <1>5, <1>6, <1>9, <1>10, <1>11 DEF Inv

(* StartPrepareB: A's fields are all in the orders now.                    *)
LEMMA StartPrepareBKeeps ==
  ASSUME Inv, StartPrepareB
  PROVE  Inv'
<1>1. /\ Inputs /\ TypeOK /\ OrdersInv /\ PrepareInv /\ NotesInv
  BY DEF Inv
<1>2. /\ pc = "prepareA" /\ pc' = "prepareB" /\ todo = {} /\ todo' = FB
      /\ UNCHANGED <<orderA, orderB, orderC, turn, walk, listCount, listCursor, freqCursor,
                     notes, temp, heads, at, dataSize, out, lost>>
      /\ UNCHANGED inputVars
  BY DEF StartPrepareB, cursorVars, listVars, FB
<1>3. /\ Inputs' /\ a' = a /\ b' = b /\ docsA' = docsA /\ docsB' = docsB /\ FA' = FA /\ FB' = FB
  BY <1>1, <1>2, InputsStay
<1>4. /\ orderB = << >> /\ turn = 0
      /\ Once(orderA, (FA \ FB) \ todo) /\ Once(orderC, (FA \intersect FB) \ todo)
      /\ notes = << >> /\ freqCursor = 0 /\ heads = << >> /\ at = 0 /\ dataSize = 0
      /\ Started = orderA /\ Started' = orderA \o orderB
      /\ orderA \in Seq(FieldsOf(All))
      /\ Prepared(docsA, docsB, orderA, walk, listCount, out.freqs)
      /\ out = Unsigned(a.ids \o b.ids, out.freqs, << >>, << >>, << >>)
  BY <1>1, <1>2 DEF OrdersInv, PrepareInv, Started, All
<1>5. TypeOK'
  BY <1>1, <1>2, <1>3 DEF TypeOK, FB
<1>6. OrdersInv'
  <2>1. (FB \ FA) \ FB = {} /\ (FA \ FB) \ {} = FA \ FB
        /\ (FA \intersect FB) \ {} = FA \intersect FB
    OBVIOUS
  <2>2. Once(<< >>, {})
    BY DEF Once
  <2>3. Once(orderA, FA \ FB) /\ Once(orderC, FA \intersect FB) /\ Once(orderB, (FB \ FA) \ FB)
    BY <1>2, <1>4, <2>1, <2>2
  <2>. QED BY <1>2, <1>3, <1>4, <2>3 DEF OrdersInv
<1>7. orderA \o orderB = orderA
  <2>1. orderA \o << >> = orderA
    BY <1>4
  <2>. QED BY <1>4, <2>1
<1>8. PrepareInv'
  BY <1>2, <1>3, <1>4, <1>7 DEF PrepareInv, All
<1>9. NotesInv'
  BY <1>1, <1>2, <1>3 DEF NotesInv
<1>10. FieldsInv' /\ ListsInv' /\ FailedInv'
  BY <1>2 DEF FieldsInv, ListsInv, FailedInv
<1>. QED BY <1>3, <1>5, <1>6, <1>8, <1>9, <1>10 DEF Inv

(* PrepareFieldB: a field of B starts a walk, or is passed over.           *)
LEMMA PrepareFieldBKeeps ==
  ASSUME Inv, NEW f, PrepareFieldB(f)
  PROVE  Inv'
<1>1. /\ Inputs /\ TypeOK /\ OrdersInv /\ PrepareInv /\ NotesInv
  BY DEF Inv
<1>2. /\ pc = "prepareB" /\ pc' = "prepareB" /\ ~Walking /\ f \in todo /\ todo' = todo \ {f}
      /\ IF f \in FA THEN orderB' = orderB /\ walk' = walk
         ELSE orderB' = Append(orderB, f) /\ walk' = StartOf(f)
      /\ UNCHANGED <<orderA, orderC, turn, listCount, listCursor, freqCursor,
                     notes, temp, heads, at, dataSize, out, lost>>
      /\ UNCHANGED inputVars
  BY DEF PrepareFieldB, cursorVars, listVars, FA
<1>3. /\ Inputs' /\ a' = a /\ b' = b /\ docsA' = docsA /\ docsB' = docsB /\ FA' = FA /\ FB' = FB
  BY <1>1, <1>2, InputsStay
<1>4. /\ todo \subseteq FB /\ turn = 0
      /\ Once(orderA, FA \ FB) /\ Once(orderC, FA \intersect FB)
      /\ Once(orderB, (FB \ FA) \ todo)
      /\ notes = << >> /\ freqCursor = 0 /\ heads = << >> /\ at = 0 /\ dataSize = 0
      /\ Started = orderA \o orderB /\ Started' = orderA' \o orderB'
      /\ orderA \o orderB \in Seq(FieldsOf(All))
      /\ Prepared(docsA, docsB, orderA \o orderB, walk, listCount, out.freqs)
      /\ out = Unsigned(a.ids \o b.ids, out.freqs, << >>, << >>, << >>)
  BY <1>1, <1>2 DEF OrdersInv, PrepareInv, Started, All
<1>5. TypeOK'
  BY <1>1, <1>2, <1>3 DEF TypeOK
<1>6. OrdersInv'
  <2>1. CASE f \in FA
    <3>1. (FB \ FA) \ todo' = (FB \ FA) \ todo
      BY <1>2, <1>4, <2>1
    <3>. QED BY <1>2, <1>3, <1>4, <2>1, <3>1 DEF OrdersInv
  <2>2. CASE f \notin FA
    <3>1. /\ (FB \ FA) \ todo' = ((FB \ FA) \ todo) \union {f}
          /\ f \notin (FB \ FA) \ todo
      BY <1>2, <1>4, <2>2
    <3>. DEFINE S == (FB \ FA) \ todo
    <3>2. Once(orderB, S) /\ f \notin S /\ (FB \ FA) \ todo' = S \union {f}
      BY <1>4, <3>1
    <3>. HIDE DEF S
    <3>3. Once(Append(orderB, f), S \union {f})
      BY <3>2, OnceMore
    <3>4. Once(Append(orderB, f), (FB \ FA) \ todo')
      BY <3>2, <3>3
    <3>. QED BY <1>2, <1>3, <1>4, <2>2, <3>1, <3>4 DEF OrdersInv
  <2>. QED BY <2>1, <2>2
<1>7. f \in FieldsOf(All) /\ FieldsOf(All) = FA \union FB
  BY <1>1, <1>2, <1>4, AllFields
<1>8. /\ orderA \o orderB' \in Seq(FieldsOf(All))
      /\ Prepared(docsA, docsB, orderA \o orderB', walk', listCount, out.freqs)
  <2>1. CASE f \in FA
    BY <1>2, <1>4, <2>1
  <2>2. CASE f \notin FA
    <3>. DEFINE o == orderA \o orderB
    <3>1. o \in Seq(FieldsOf(All)) /\ Prepared(docsA, docsB, o, walk, listCount, out.freqs)
      BY <1>4
    <3>. HIDE DEF o
    <3>2. Prepared(docsA, docsB, Append(o, f), StartOf(f), listCount, out.freqs)
      BY <1>1, <1>2, <1>7, <3>1, PrepareField
    <3>3. Append(o, f) \in Seq(FieldsOf(All))
      BY <1>7, <3>1
    <3>4. orderA \in Seq(FieldsOf(All)) /\ orderB \in Seq(FieldsOf(All))
      BY <1>4, <1>7 DEF Once
    <3>5. Append(o, f) = orderA \o Append(orderB, f)
      <4>1. Regroups(orderA, orderB, f)
        BY <1>7, <3>4, AppendBehind
      <4>. QED BY <4>1 DEF Regroups, o
    <3>. QED BY <1>2, <2>2, <3>2, <3>3, <3>5
  <2>. QED BY <2>1, <2>2
<1>9. PrepareInv'
  BY <1>2, <1>3, <1>4, <1>8 DEF PrepareInv, All
<1>10. NotesInv'
  BY <1>1, <1>2, <1>3 DEF NotesInv
<1>11. FieldsInv' /\ ListsInv' /\ FailedInv'
  BY <1>2 DEF FieldsInv, ListsInv, FailedInv
<1>. QED BY <1>3, <1>5, <1>6, <1>9, <1>10, <1>11 DEF Inv

(* StartPrepareC: the three orders have all fields, the common ones are    *)
(* still to be walked.                                                     *)
LEMMA StartPrepareCKeeps ==
  ASSUME Inv, StartPrepareC
  PROVE  Inv'
<1>1. /\ Inputs /\ TypeOK /\ OrdersInv /\ PrepareInv /\ NotesInv
  BY DEF Inv
<1>2. /\ pc = "prepareB" /\ pc' = "prepareC" /\ todo = {}
      /\ UNCHANGED <<todo, orderA, orderB, orderC, turn, walk, listCount, listCursor,
                     freqCursor, notes, temp, heads, at, dataSize, out, lost>>
      /\ UNCHANGED inputVars
  BY DEF StartPrepareC, cursorVars, listVars, orderVars
<1>3. /\ Inputs' /\ a' = a /\ b' = b /\ docsA' = docsA /\ docsB' = docsB /\ FA' = FA /\ FB' = FB
  BY <1>1, <1>2, InputsStay
<1>4. /\ turn = 0
      /\ Once(orderA, FA \ FB) /\ Once(orderC, FA \intersect FB)
      /\ Once(orderB, (FB \ FA) \ todo)
      /\ notes = << >> /\ freqCursor = 0 /\ heads = << >> /\ at = 0 /\ dataSize = 0
      /\ Started = orderA \o orderB
      /\ Started' = (orderA \o orderB) \o SubSeq(orderC, 1, 0)
      /\ orderA \o orderB \in Seq(FieldsOf(All))
      /\ Prepared(docsA, docsB, orderA \o orderB, walk, listCount, out.freqs)
      /\ out = Unsigned(a.ids \o b.ids, out.freqs, << >>, << >>, << >>)
  BY <1>1, <1>2 DEF OrdersInv, PrepareInv, Started, All
<1>5. TypeOK'
  BY <1>1, <1>2, <1>3 DEF TypeOK
<1>6. OrdersInv'
  <2>1. (FB \ FA) \ {} = FB \ FA
    OBVIOUS
  <2>2. Ordered'
    BY <1>2, <1>3, <1>4, <2>1 DEF Ordered
  <2>3. turn' \in 0 .. Len(orderC')
    BY <1>2, <1>4 DEF Once
  <2>. QED BY <1>2, <2>2, <2>3 DEF OrdersInv
<1>7. (orderA \o orderB) \o SubSeq(orderC, 1, 0) = orderA \o orderB
  <2>. DEFINE o == orderA \o orderB
  <2>1. orderC \in Seq(FieldsOf(All))
    BY <1>1, <1>4, AllFields DEF Once
  <2>2. o \in Seq(FieldsOf(All))
    BY <1>4
  <2>. HIDE DEF o
  <2>3. o \o SubSeq(orderC, 1, 0) = o
    BY <2>1, <2>2, PartGrows
  <2>. QED BY <2>3 DEF o
<1>8. PrepareInv'
  BY <1>2, <1>3, <1>4, <1>7 DEF PrepareInv, All
<1>9. NotesInv'
  BY <1>1, <1>2, <1>3 DEF NotesInv
<1>10. FieldsInv' /\ ListsInv' /\ FailedInv'
  BY <1>2 DEF FieldsInv, ListsInv, FailedInv
<1>. QED BY <1>3, <1>5, <1>6, <1>8, <1>9, <1>10 DEF Inv

(* PrepareCollision: the next of the common fields.                        *)
LEMMA PrepareCollisionKeeps ==
  ASSUME Inv, PrepareCollision
  PROVE  Inv'
<1>1. /\ Inputs /\ TypeOK /\ OrdersInv /\ PrepareInv /\ NotesInv
  BY DEF Inv
<1>2. /\ pc = "prepareC" /\ pc' = "prepareC" /\ ~Walking
      /\ turn < Len(orderC) /\ turn' = turn + 1 /\ walk' = StartOf(orderC[turn + 1])
      /\ UNCHANGED <<todo, orderA, orderB, orderC, listCount, listCursor,
                     freqCursor, notes, temp, heads, at, dataSize, out, lost>>
      /\ UNCHANGED inputVars
  BY DEF PrepareCollision, cursorVars, listVars
<1>3. /\ Inputs' /\ a' = a /\ b' = b /\ docsA' = docsA /\ docsB' = docsB /\ FA' = FA /\ FB' = FB
  BY <1>1, <1>2, InputsStay
<1>. DEFINE x == orderA \o orderB
<1>4. /\ turn \in 0 .. Len(orderC) /\ Ordered
      /\ notes = << >> /\ freqCursor = 0 /\ heads = << >> /\ at = 0 /\ dataSize = 0
      /\ Started = x \o SubSeq(orderC, 1, turn)
      /\ Started' = x \o SubSeq(orderC, 1, turn + 1)
      /\ Prepared(docsA, docsB, x \o SubSeq(orderC, 1, turn), walk, listCount, out.freqs)
      /\ out = Unsigned(a.ids \o b.ids, out.freqs, << >>, << >>, << >>)
  BY <1>1, <1>2 DEF OrdersInv, PrepareInv, Started
<1>5. TypeOK'
  BY <1>1, <1>2, <1>3 DEF TypeOK
<1>6. turn \in Nat /\ Len(orderC) \in Nat /\ turn + 1 \in 0 .. Len(orderC)
  <2>1. turn \in Nat /\ orderC \in Seq(FA \intersect FB)
    BY <1>1, <1>4 DEF TypeOK, Ordered, Once
  <2>2. Len(orderC) \in Nat
    BY <2>1
  <2>. QED BY <1>2, <2>1, <2>2
<1>7. OrdersInv'
  <2>1. Ordered'
    BY <1>2, <1>3, <1>4 DEF Ordered
  <2>. QED BY <1>2, <1>6, <2>1 DEF OrdersInv
<1>8. x \in Seq(FieldsOf(All)) /\ orderC \in Seq(FieldsOf(All))
  <2>1. /\ orderA \in Seq(FA \ FB) /\ orderB \in Seq(FB \ FA) /\ orderC \in Seq(FA \intersect FB)
        /\ FieldsOf(All) = FA \union FB
    BY <1>1, <1>4, AllFields DEF Ordered, Once
  <2>2. /\ orderA \in Seq(FieldsOf(All)) /\ orderB \in Seq(FieldsOf(All))
        /\ orderC \in Seq(FieldsOf(All))
    BY <2>1
  <2>. QED BY <2>2
<1>. HIDE DEF x
<1>. DEFINE o == x \o SubSeq(orderC, 1, turn)
            g == orderC[turn + 1]
<1>9. /\ o \in Seq(FieldsOf(All)) /\ g \in FieldsOf(All)
      /\ Append(o, g) = x \o SubSeq(orderC, 1, turn + 1)
      /\ x \o SubSeq(orderC, 1, turn + 1) \in Seq(FieldsOf(All))
  <2>1. Grows(FieldsOf(All), x, orderC, turn)
    BY <1>2, <1>6, <1>8, PartGrows
  <2>. QED BY <2>1 DEF Grows
<1>10. Prepared(docsA, docsB, o, walk, listCount, out.freqs) /\ walk' = StartOf(g)
  BY <1>2, <1>4
<1>. HIDE DEF o, g
<1>11. /\ Prepared(docsA, docsB, Append(o, g), StartOf(g), listCount, out.freqs)
       /\ Append(o, g) \in Seq(FieldsOf(All))
  <2>1. Prepared(docsA, docsB, Append(o, g), StartOf(g), listCount, out.freqs)
    BY <1>1, <1>2, <1>9, <1>10, PrepareField
  <2>2. Append(o, g) \in Seq(FieldsOf(All))
    BY <1>9
  <2>. QED BY <2>1, <2>2
<1>12. PrepareInv'
  BY <1>2, <1>3, <1>4, <1>9, <1>10, <1>11 DEF PrepareInv, All
<1>13. NotesInv'
  BY <1>1, <1>2, <1>3 DEF NotesInv
<1>14. FieldsInv' /\ ListsInv' /\ FailedInv'
  BY <1>2 DEF FieldsInv, ListsInv, FailedInv
<1>. QED BY <1>3, <1>5, <1>7, <1>12, <1>13, <1>14 DEF Inv

(* PrepareToken: the frequencies of one more cell are in the file.         *)
LEMMA PrepareTokenKeeps ==
  ASSUME Inv, PrepareToken
  PROVE  Inv'
<1>1. /\ Inputs /\ TypeOK /\ OrdersInv /\ PrepareInv /\ NotesInv
  BY DEF Inv
<1>2. /\ pc \in {"prepareA", "prepareB", "prepareC"} /\ pc' = pc /\ Walking
      /\ listCount' = listCount + 1
      /\ out' = [out EXCEPT !.freqs = (@ \o TurnFreqsA) \o TurnFreqsB]
      /\ walk' = Stepped
      /\ UNCHANGED <<todo, orderA, orderB, orderC, turn, listCursor,
                     freqCursor, notes, temp, heads, at, dataSize, lost>>
      /\ UNCHANGED inputVars
  BY DEF PrepareToken, Advance, Stepped, TurnFreqsA, TurnFreqsB, cursorVars, listVars, orderVars
<1>3. /\ Inputs' /\ a' = a /\ b' = b /\ docsA' = docsA /\ docsB' = docsB /\ FA' = FA /\ FB' = FB
  BY <1>1, <1>2, InputsStay
<1>4. /\ notes = << >> /\ freqCursor = 0 /\ heads = << >> /\ at = 0 /\ dataSize = 0
      /\ Started' = Started
      /\ Started \in Seq(FieldsOf(All))
      /\ Prepared(docsA, docsB, Started, walk, listCount, out.freqs)
      /\ out = Unsigned(a.ids \o b.ids, out.freqs, << >>, << >>, << >>)
  BY <1>1, <1>2 DEF PrepareInv, Started, All
<1>5. listCount \in Nat
  BY <1>1 DEF TypeOK
<1>6. TypeOK'
  BY <1>1, <1>2, <1>3 DEF TypeOK
<1>7. OrdersInv'
  BY <1>1, <1>2, <1>3 DEF OrdersInv, Ordered
<1>. DEFINE F == (out.freqs \o TurnFreqsA) \o TurnFreqsB
<1>8. Prepared(docsA, docsB, Started, Stepped, listCount + 1, F)
  BY <1>1, <1>2, <1>4, <1>5, PrepareTurn
<1>. HIDE DEF F
<1>9. out' = Unsigned(a.ids \o b.ids, F, << >>, << >>, << >>) /\ out'.freqs = F
  <2>1. out' = [out EXCEPT !.freqs = F]
    BY <1>2 DEF F
  <2>2. \A x, y, z : /\ [Unsigned(x, y, << >>, << >>, << >>) EXCEPT !.freqs = z]
                          = Unsigned(x, z, << >>, << >>, << >>)
                    /\ Unsigned(x, z, << >>, << >>, << >>).freqs = z
    BY DEF Unsigned
  <2>3. out = Unsigned(a.ids \o b.ids, out.freqs, << >>, << >>, << >>)
    BY <1>4
  <2>. DEFINE x == a.ids \o b.ids
              y == out.freqs
  <2>. HIDE DEF x, y
  <2>4. [Unsigned(x, y, << >>, << >>, << >>) EXCEPT !.freqs = F]
          = Unsigned(x, F, << >>, << >>, << >>)
    BY <2>2
  <2>5. out' = Unsigned(x, F, << >>, << >>, << >>)
    BY <2>1, <2>3, <2>4 DEF x, y
  <2>. QED BY <2>2, <2>5 DEF x
<1>10. PrepareInv'
  BY <1>2, <1>3, <1>4, <1>8, <1>9 DEF PrepareInv, All
<1>11. NotesInv'
  BY <1>1, <1>2, <1>3 DEF NotesInv
<1>12. FieldsInv' /\ ListsInv' /\ FailedInv'
  BY <1>2 DEF FieldsInv, ListsInv, FailedInv
<1>. QED BY <1>3, <1>6, <1>7, <1>10, <1>11, <1>12 DEF Inv

(* MakeTemp: all cells are counted, and the field pass starts over.        *)
LEMMA MakeTempKeeps ==
  ASSUME Inv, MakeTemp
  PROVE  Inv'
<1>1. /\ Inputs /\ TypeOK /\ OrdersInv /\ PrepareInv /\ NotesInv
  BY DEF Inv
<1>2. /\ pc = "prepareC" /\ pc' = "fields" /\ ~Walking
      /\ turn = Len(orderC) /\ turn' = 0 /\ walk' = NoWalk /\ temp' = (listCount > 0)
      /\ UNCHANGED <<todo, orderA, orderB, orderC, listCount, listCursor,
                     freqCursor, notes, heads, at, dataSize, out, lost>>
      /\ UNCHANGED inputVars
  BY DEF MakeTemp, cursorVars, listVars
<1>3. /\ Inputs' /\ a' = a /\ b' = b /\ docsA' = docsA /\ docsB' = docsB /\ FA' = FA /\ FB' = FB
  BY <1>1, <1>2, InputsStay
<1>. DEFINE x == orderA \o orderB
<1>4. /\ Ordered
      /\ notes = << >> /\ freqCursor = 0 /\ heads = << >> /\ at = 0 /\ dataSize = 0
      /\ Prepared(docsA, docsB, x \o SubSeq(orderC, 1, turn), walk, listCount, out.freqs)
      /\ out = Unsigned(a.ids \o b.ids, out.freqs, << >>, << >>, << >>)
  BY <1>1, <1>2 DEF OrdersInv, PrepareInv, Started
<1>5. RecordedOrder = x \o orderC /\ RecordedOrder' = RecordedOrder
  BY <1>2 DEF RecordedOrder
<1>6. RecordedOrder \in Seq(FieldsOf(All))
  BY <1>1, <1>4, OrderedHasAll
<1>7. x \in Seq(FieldsOf(All)) /\ orderC \in Seq(FieldsOf(All))
  <2>1. /\ orderA \in Seq(FA \ FB) /\ orderB \in Seq(FB \ FA) /\ orderC \in Seq(FA \intersect FB)
        /\ FieldsOf(All) = FA \union FB
    BY <1>1, <1>4, AllFields DEF Ordered, Once
  <2>2. /\ orderA \in Seq(FieldsOf(All)) /\ orderB \in Seq(FieldsOf(All))
        /\ orderC \in Seq(FieldsOf(All))
    BY <2>1
  <2>. QED BY <2>2
<1>. HIDE DEF x
<1>8. x \o SubSeq(orderC, 1, turn) = RecordedOrder
  <2>1. SubSeq(orderC, 1, Len(orderC)) = orderC
    BY <1>7, PartGrows
  <2>. QED BY <1>2, <1>5, <2>1
<1>9. /\ listCount = Len(Cells(All, RecordedOrder))
      /\ out.freqs = FlattenSeq(CellEntries(All, RecordedOrder))
  <2>1. Prepared(docsA, docsB, RecordedOrder, walk, listCount, out.freqs)
    BY <1>4, <1>8
  <2>. QED BY <1>1, <1>2, <1>6, <2>1, PrepareEnds
<1>10. TypeOK'
  <2>1. temp' \in BOOLEAN
    BY <1>2
  <2>. QED BY <1>1, <1>2, <1>3, <2>1 DEF TypeOK
<1>11. OrdersInv'
  <2>1. Ordered'
    BY <1>2, <1>3, <1>4 DEF Ordered
  <2>. QED BY <1>2, <2>1 DEF OrdersInv
<1>12. PrepareInv'
  BY <1>2, <1>4 DEF PrepareInv
<1>13. NotesInv'
  <2>1. \A s, t, u, v, o : Noted(s, t, u, v, o, << >>)
    BY DEF Noted
  <2>. QED BY <1>1, <1>2, <1>3, <1>4, <2>1 DEF NotesInv
<1>14. FieldsInv'
  <2>1. Writing(docsA, docsB, RecordedOrder, 0, NoWalk, 0, 0, << >>)
    BY <1>1, <1>6, WritingStarts
  <2>2. out.fields = << >> /\ Len(<< >>) = 0
    <3>1. \A ids, freqs, u, v, w : Unsigned(ids, freqs, u, v, w).fields = u
      BY DEF Unsigned
    <3>. QED BY <1>4, <3>1
  <2>. QED BY <1>2, <1>3, <1>4, <1>5, <1>9, <2>1, <2>2 DEF FieldsInv, All
<1>15. ListsInv' /\ FailedInv'
  BY <1>2 DEF ListsInv, FailedInv
<1>. QED BY <1>3, <1>10, <1>11, <1>12, <1>13, <1>14, <1>15 DEF Inv

(* StartBlock: the header of the next field block.                         *)
LEMMA StartBlockKeeps ==
  ASSUME Inv, StartBlock
  PROVE  Inv'
<1>1. /\ Inputs /\ TypeOK /\ OrdersInv /\ PrepareInv /\ NotesInv /\ FieldsInv
  BY DEF Inv
<1>. DEFINE o == RecordedOrder
            g == RecordedOrder[turn + 1]
            fs == Append(out.fields, BlockHeader(g))
<1>2. /\ pc = "fields" /\ pc' = "fields" /\ ~Walking
      /\ turn < Len(o) /\ turn' = turn + 1 /\ walk' = StartOf(g)
      /\ out' = [out EXCEPT !.fields = fs]
      /\ UNCHANGED <<todo, orderA, orderB, orderC, listCount, listCursor,
                     freqCursor, notes, temp, heads, at, dataSize, lost>>
      /\ UNCHANGED inputVars
  BY DEF StartBlock, cursorVars, listVars
<1>3. /\ Inputs' /\ a' = a /\ b' = b /\ docsA' = docsA /\ docsB' = docsB /\ FA' = FA /\ FB' = FB
  BY <1>1, <1>2, InputsStay
<1>4. o' = o
  BY <1>2 DEF RecordedOrder
<1>5. /\ Ordered
      /\ heads = << >> /\ at = 0 /\ dataSize = 0
      /\ Writing(docsA, docsB, o, turn, walk, Len(notes), freqCursor, out.fields)
      /\ listCount = Len(Cells(All, o))
      /\ out = Unsigned(a.ids \o b.ids, FlattenSeq(CellEntries(All, o)), out.fields, << >>, << >>)
      /\ Noted(a, b, docsA, docsB, o, notes)
  BY <1>1, <1>2 DEF OrdersInv, PrepareInv, FieldsInv, NotesInv, All
<1>6. o \in Seq(FieldsOf(All))
  BY <1>1, <1>5, OrderedHasAll
<1>7. TypeOK'
  BY <1>1, <1>2, <1>3 DEF TypeOK
<1>8. OrdersInv'
  BY <1>1, <1>2, <1>3 DEF OrdersInv, Ordered
<1>9. PrepareInv'
  BY <1>2, <1>5 DEF PrepareInv
<1>10. NotesInv'
  BY <1>1, <1>2, <1>3, <1>4, <1>5 DEF NotesInv
<1>. HIDE DEF o
<1>11. Writing(docsA, docsB, o, turn + 1, StartOf(o[turn + 1]), Len(notes), freqCursor,
               Append(out.fields, BlockHeader(o[turn + 1])))
  <2>. DEFINE N == Len(notes)
              F == out.fields
  <2>1. Writing(docsA, docsB, o, turn, walk, N, freqCursor, F)
    BY <1>5
  <2>. HIDE DEF N, F
  <2>2. Writing(docsA, docsB, o, turn + 1, StartOf(o[turn + 1]), N, freqCursor,
                Append(F, BlockHeader(o[turn + 1])))
    BY <1>1, <1>2, <1>6, <2>1, WritingField
  <2>. QED BY <2>2 DEF N, F
<1>12. out' = Unsigned(a.ids \o b.ids, FlattenSeq(CellEntries(All, o)), fs, << >>, << >>)
       /\ out'.fields = fs
  <2>. DEFINE x == a.ids \o b.ids
              y == FlattenSeq(CellEntries(All, o))
              z == out.fields
  <2>1. out = Unsigned(x, y, z, << >>, << >>)
    BY <1>5
  <2>. HIDE DEF x, y, z, fs
  <2>2. [Unsigned(x, y, z, << >>, << >>) EXCEPT !.fields = fs]
          = Unsigned(x, y, fs, << >>, << >>)
        /\ Unsigned(x, y, fs, << >>, << >>).fields = fs
    BY DEF Unsigned
  <2>3. out' = Unsigned(x, y, fs, << >>, << >>)
    BY <1>2, <2>1, <2>2
  <2>. QED BY <2>2, <2>3 DEF x, y
<1>13. FieldsInv'
  <2>1. fs = Append(out.fields, BlockHeader(o[turn + 1])) /\ g = o[turn + 1]
    BY DEF o
  <2>2. RecordedOrder' = o
    BY <1>4 DEF o
  <2>. HIDE DEF fs
  <2>. QED BY <1>2, <1>3, <1>5, <1>11, <1>12, <2>1, <2>2 DEF FieldsInv, All
<1>14. ListsInv' /\ FailedInv'
  BY <1>2 DEF ListsInv, FailedInv
<1>. QED BY <1>3, <1>7, <1>8, <1>9, <1>10, <1>13, <1>14 DEF Inv

(* WriteToken: one more token and its note, numbered by the cursors.       *)
LEMMA WriteTokenKeeps ==
  ASSUME Inv, WriteToken
  PROVE  Inv'
<1>1. /\ Inputs /\ TypeOK /\ OrdersInv /\ PrepareInv /\ NotesInv /\ FieldsInv
  BY DEF Inv
<1>. DEFINE o == RecordedOrder
            F == out.fields
            N == Len(notes)
            G == [F EXCEPT ![Len(F)].tokens = Append(@, TurnToken(N, freqCursor))]
            df == DocumentFrequency
            note == TurnNote
<1>2. /\ pc = "fields" /\ pc' = "fields" /\ Walking
      /\ listCursor' = listCursor + 1 /\ freqCursor' = freqCursor + df
      /\ notes' = Append(notes, note)
      /\ walk' = Stepped
      /\ UNCHANGED <<todo, orderA, orderB, orderC, turn, listCount, temp, heads, at, dataSize, lost>>
      /\ UNCHANGED inputVars
  BY DEF WriteToken, Advance, Stepped, TurnNote, orderVars, listVars
<1>3. listCursor = N /\ notes \in Seq(Notes(a, b))
  BY <1>1 DEF NotesInv
<1>4. out' = [out EXCEPT !.fields = G]
  <2>1. out' = [out EXCEPT !.fields[Len(out.fields)].tokens
                  = Append(@, TurnToken(listCursor, freqCursor))]
    BY DEF WriteToken, TurnToken, TurnValue
  <2>. QED BY <1>3, <2>1
<1>5. /\ Inputs' /\ a' = a /\ b' = b /\ docsA' = docsA /\ docsB' = docsB /\ FA' = FA /\ FB' = FB
  BY <1>1, <1>2, InputsStay
<1>6. o' = o
  BY <1>2 DEF RecordedOrder
<1>7. /\ Ordered
      /\ heads = << >> /\ at = 0 /\ dataSize = 0
      /\ Writing(docsA, docsB, o, turn, walk, N, freqCursor, F)
      /\ listCount = Len(Cells(All, o))
      /\ out = Unsigned(a.ids \o b.ids, FlattenSeq(CellEntries(All, o)), F, << >>, << >>)
      /\ Noted(a, b, docsA, docsB, o, notes)
  BY <1>1, <1>2 DEF OrdersInv, PrepareInv, FieldsInv, NotesInv, All
<1>8. o \in Seq(FieldsOf(All))
  BY <1>1, <1>7, OrderedHasAll
<1>. HIDE DEF o
<1>9. /\ Writing(docsA, docsB, o, turn, Stepped, N + 1, freqCursor + df, G)
      /\ N + 1 \in 1 .. Len(Cells(All, o))
      /\ NoteRight(a, b, docsA, docsB, Cells(All, o)[N + 1].f, Cells(All, o)[N + 1].v, note)
      /\ df \in Nat
  <2>. HIDE DEF N, F
  <2>. QED BY <1>1, <1>2, <1>7, <1>8, WritingToken
<1>10. /\ note \in Notes(a, b)
       /\ Append(notes, note) \in Seq(Notes(a, b))
       /\ N \in Nat /\ Len(Append(notes, note)) = N + 1
       /\ \A k \in 1 .. N : Append(notes, note)[k] = notes[k]
       /\ Append(notes, note)[N + 1] = note
  <2>1. note \in Notes(a, b)
    BY <1>9 DEF NoteRight
  <2>. HIDE DEF note
  <2>. QED BY <1>3, <2>1
<1>. HIDE DEF df, note, F, G
<1>11. TypeOK'
  <2>1. /\ freqCursor' \in Nat /\ listCursor' \in Nat
    BY <1>1, <1>2, <1>9 DEF TypeOK
  <2>2. notes' \in Seq(Notes(a, b)) /\ Len(notes') = N + 1
    BY <1>2, <1>10
  <2>3. \A k \in DOMAIN notes' : /\ notes'[k].a \in -1 .. Len(a.lists) - 1
                                 /\ notes'[k].b \in -1 .. Len(b.lists) - 1
    <3>1. \A n \in Notes(a, b) : n.a \in -1 .. Len(a.lists) - 1 /\ n.b \in -1 .. Len(b.lists) - 1
      BY DEF Notes
    <3>. QED BY <2>2, <3>1
  <2>4. at + Len(heads) <= Len(notes')
    BY <1>7, <1>10, <2>2
  <2>5. lost' \in [blocks : Nat, lists : 0 .. Len(notes')]
    <3>1. lost' = lost /\ lost \in [blocks : Nat, lists : 0 .. N]
      BY <1>1, <1>2 DEF TypeOK, N
    <3>2. 0 .. N \subseteq 0 .. Len(notes')
      BY <1>10, <2>2
    <3>. QED BY <3>1, <3>2
  <2>. QED BY <1>1, <1>2, <1>5, <2>1, <2>3, <2>4, <2>5 DEF TypeOK
<1>12. OrdersInv'
  BY <1>1, <1>2, <1>5 DEF OrdersInv, Ordered
<1>13. PrepareInv'
  BY <1>2, <1>7 DEF PrepareInv
<1>14. NotesInv'
  <2>1. Noted(a, b, docsA, docsB, o, Append(notes, note))
    <3>. SUFFICES ASSUME NEW p \in 1 .. N + 1
                  PROVE  NoteRight(a, b, docsA, docsB, Cells(All, o)[p].f, Cells(All, o)[p].v,
                                   Append(notes, note)[p])
      BY <1>10 DEF Noted, All
    <3>1. CASE p = N + 1
      BY <1>9, <1>10, <3>1
    <3>2. CASE p # N + 1
      <4>1. p \in 1 .. N
        BY <1>10, <3>2
      <4>2. NoteRight(a, b, docsA, docsB, Cells(All, o)[p].f, Cells(All, o)[p].v, notes[p])
        BY <1>7, <4>1 DEF Noted, All
      <4>. QED BY <1>10, <4>1, <4>2
    <3>. QED BY <3>1, <3>2
  <2>2. listCursor' = Len(notes')
    BY <1>2, <1>10, <1>3
  <2>3. RecordedOrder' = o
    BY <1>6 DEF o
  <2>4. notes' \in Seq(Notes(a', b'))
    BY <1>2, <1>5, <1>10
  <2>5. Noted(a', b', docsA', docsB', RecordedOrder', notes')
    BY <1>2, <1>5, <2>1, <2>3
  <2>. QED BY <2>2, <2>4, <2>5 DEF NotesInv
<1>15. FieldsInv'
  <2>. DEFINE x == a.ids \o b.ids
              y == FlattenSeq(CellEntries(All, o))
  <2>1. out = Unsigned(x, y, F, << >>, << >>)
    BY <1>7
  <2>. HIDE DEF x, y
  <2>2. [Unsigned(x, y, F, << >>, << >>) EXCEPT !.fields = G]
          = Unsigned(x, y, G, << >>, << >>)
        /\ Unsigned(x, y, G, << >>, << >>).fields = G
    BY DEF Unsigned
  <2>3. out' = Unsigned(x, y, G, << >>, << >>)
    BY <1>4, <2>1, <2>2
  <2>4. out'.fields = G
    BY <2>2, <2>3
  <2>5. RecordedOrder' = o
    BY <1>6 DEF o
  <2>6. Len(notes') = N + 1
    BY <1>2, <1>10
  <2>7. Writing(docsA', docsB', RecordedOrder', turn', walk', Len(notes'), freqCursor', out'.fields)
    BY <1>2, <1>5, <1>9, <2>4, <2>5, <2>6
  <2>8. listCount' = Len(Cells(docsA' \o docsB', RecordedOrder'))
    BY <1>2, <1>5, <1>7, <2>5 DEF All
  <2>9. out' = Unsigned(a'.ids \o b'.ids,
                        FlattenSeq(CellEntries(docsA' \o docsB', RecordedOrder')),
                        out'.fields, << >>, << >>)
    BY <1>5, <2>3, <2>4, <2>5 DEF x, y, All
  <2>. QED BY <2>7, <2>8, <2>9 DEF FieldsInv
<1>16. ListsInv' /\ FailedInv'
  BY <1>2 DEF ListsInv, FailedInv
<1>. QED BY <1>5, <1>11, <1>12, <1>13, <1>14, <1>15, <1>16 DEF Inv

(* Assemble: all blocks are written, and there is a note for each cell.    *)
LEMMA AssembleKeeps ==
  ASSUME Inv, Assemble
  PROVE  Inv'
<1>1. /\ Inputs /\ TypeOK /\ OrdersInv /\ PrepareInv /\ NotesInv /\ FieldsInv
  BY DEF Inv
<1>. DEFINE o == RecordedOrder
            hs == [k \in DOMAIN notes |-> ZeroHead]
            N == Len(notes)
<1>2. /\ pc = "fields" /\ pc' = "lists" /\ ~Walking
      /\ turn = Len(o) /\ turn' = 0 /\ walk' = NoWalk
      /\ out' = [out EXCEPT !.heads = hs]
      /\ \E n \in 0 .. Least(MaxLost, Len(out.freqs) + Len(out.fields)) :
           lost' = [lost EXCEPT !.blocks = n]
      /\ UNCHANGED <<todo, orderA, orderB, orderC, listCount, listCursor,
                     freqCursor, notes, temp, heads, at, dataSize>>
      /\ UNCHANGED inputVars
  BY DEF Assemble, cursorVars
<1>3. /\ Inputs' /\ a' = a /\ b' = b /\ docsA' = docsA /\ docsB' = docsB /\ FA' = FA /\ FB' = FB
  BY <1>1, <1>2, InputsStay
<1>4. o' = o
  BY <1>2 DEF RecordedOrder
<1>5. /\ Ordered
      /\ heads = << >> /\ at = 0 /\ dataSize = 0
      /\ Writing(docsA, docsB, o, turn, walk, N, freqCursor, out.fields)
      /\ listCount = Len(Cells(All, o))
      /\ out = Unsigned(a.ids \o b.ids, FlattenSeq(CellEntries(All, o)), out.fields, << >>, << >>)
      /\ Noted(a, b, docsA, docsB, o, notes)
      /\ notes \in Seq(Notes(a, b))
  BY <1>1, <1>2 DEF OrdersInv, PrepareInv, FieldsInv, NotesInv, All
<1>6. o \in Seq(FieldsOf(All)) /\ IsBatch(All)
  BY <1>1, <1>5, OrderedHasAll, AllValues
<1>7. TypeOK'
  <2>1. lost \in [blocks : Nat, lists : 0 .. Len(notes)]
    BY <1>1 DEF TypeOK
  <2>2. PICK n \in 0 .. Least(MaxLost, Len(out.freqs) + Len(out.fields)) :
          lost' = [lost EXCEPT !.blocks = n]
    BY <1>2
  <2>3. lost' \in [blocks : Nat, lists : 0 .. Len(notes)]
    BY <2>1, <2>2
  <2>. QED BY <1>1, <1>2, <1>3, <2>3 DEF TypeOK
<1>8. OrdersInv'
  BY <1>1, <1>2, <1>3 DEF OrdersInv, Ordered
<1>9. PrepareInv'
  BY <1>2, <1>5 DEF PrepareInv
<1>10. NotesInv'
  BY <1>1, <1>2, <1>3, <1>4, <1>5 DEF NotesInv
<1>11. FieldsInv' /\ FailedInv'
  BY <1>2 DEF FieldsInv, FailedInv
<1>. HIDE DEF o
<1>12. N = Len(Cells(All, o)) /\ out.fields = AllBlocks(All, o)
  <2>. DEFINE F == out.fields
  <2>1. Writing(docsA, docsB, o, Len(o), walk, N, freqCursor, F)
    BY <1>2, <1>5
  <2>. HIDE DEF F, N
  <2>2. N = Len(Cells(All, o)) /\ F = AllBlocks(docsA \o docsB, o)
    BY <1>1, <1>2, <1>6, <2>1, WritingEnds
  <2>. QED BY <2>2 DEF F, All
<1>13. freqCursor = Len(FlattenSeq(CellEntries(All, o)))
  <2>1. freqCursor = Total(Lens(CellEntries(All, o)), N)
    BY <1>5 DEF Writing, All
  <2>2. CellEntries(All, o) \in Seq(Seq(Entry)) /\ Len(CellEntries(All, o)) = Len(Cells(All, o))
    BY <1>6, CellEntriesAre
  <2>3. Len(FlattenSeq(CellEntries(All, o)))
          = Total(Lens(CellEntries(All, o)), Len(CellEntries(All, o)))
    BY <2>2, FlattenPlaces
  <2>. QED BY <1>12, <2>1, <2>2, <2>3
<1>14. hs = [k \in 1 .. Len(Cells(All, o)) |-> ZeroHead]
  <2>1. DOMAIN notes = 1 .. N
    BY <1>5
  <2>. QED BY <1>12, <2>1
<1>. HIDE DEF hs, N
<1>15. Listing(All, o, 0, << >>, 0, << >>, 0, hs)
  BY <1>6, <1>14, ListingStarts
<1>16. out' = Unsigned(a.ids \o b.ids, FlattenSeq(CellEntries(All, o)), AllBlocks(All, o),
                       hs, << >>)
       /\ out'.heads = hs /\ out'.data = << >>
  <2>. DEFINE x == a.ids \o b.ids
              y == FlattenSeq(CellEntries(All, o))
              z == AllBlocks(All, o)
  <2>1. out = Unsigned(x, y, z, << >>, << >>)
    BY <1>5, <1>12
  <2>. HIDE DEF x, y, z
  <2>2. [Unsigned(x, y, z, << >>, << >>) EXCEPT !.heads = hs] = Unsigned(x, y, z, hs, << >>)
        /\ Unsigned(x, y, z, hs, << >>).heads = hs
        /\ Unsigned(x, y, z, hs, << >>).data = << >>
    BY DEF Unsigned
  <2>3. out' = Unsigned(x, y, z, hs, << >>)
    BY <1>2, <2>1, <2>2
  <2>. QED BY <2>2, <2>3 DEF x, y, z
<1>17. ListsInv'
  <2>1. RecordedOrder' = o
    BY <1>4 DEF o
  <2>2. /\ Len(notes') = Len(Cells(docsA' \o docsB', RecordedOrder'))
        /\ listCount' = Len(Cells(docsA' \o docsB', RecordedOrder'))
        /\ freqCursor' = Len(FlattenSeq(CellEntries(docsA' \o docsB', RecordedOrder')))
    BY <1>2, <1>3, <1>5, <1>12, <1>13, <2>1 DEF N, All
  <2>3. Listing(docsA' \o docsB', RecordedOrder', turn', out'.data, dataSize', heads', at',
                out'.heads)
    BY <1>2, <1>3, <1>5, <1>15, <1>16, <2>1 DEF All
  <2>4. out' = Unsigned(a'.ids \o b'.ids,
                        FlattenSeq(CellEntries(docsA' \o docsB', RecordedOrder')),
                        AllBlocks(docsA' \o docsB', RecordedOrder'), out'.heads, out'.data)
    BY <1>3, <1>16, <2>1 DEF All
  <2>. QED BY <1>2, <2>2, <2>3, <2>4 DEF ListsInv
<1>. QED BY <1>3, <1>7, <1>8, <1>9, <1>10, <1>11, <1>17 DEF Inv

(* What the passes over the posting lists have in common: the lists that   *)
(* were written, and everything else as it was.                            *)
LEMMA ListStep ==
  ASSUME Inv, pc = "lists", pc' \in {"lists", "header"},
         UNCHANGED <<todo, orderA, orderB, orderC, walk, listCount, listCursor, freqCursor,
                     notes, temp>>,
         UNCHANGED inputVars,
         turn' \in Nat, dataSize' \in Nat, at' + Len(heads') <= Len(notes),
         lost' \in [blocks : Nat, lists : 0 .. Len(notes)],
         NEW hs, NEW data, out' = [out EXCEPT !.heads = hs, !.data = data],
         Listing(docsA \o docsB, RecordedOrder, turn', data, dataSize', heads', at', hs),
         pc' = "header" => turn' = Len(notes) /\ heads' = << >> /\ at' = Len(notes)
  PROVE  Inv'
<1>1. /\ Inputs /\ TypeOK /\ OrdersInv /\ PrepareInv /\ NotesInv /\ ListsInv
  BY DEF Inv
<1>. DEFINE o == RecordedOrder
<1>2. /\ Inputs' /\ a' = a /\ b' = b /\ docsA' = docsA /\ docsB' = docsB /\ FA' = FA /\ FB' = FB
  BY <1>1, InputsStay
<1>3. o' = o
  BY DEF RecordedOrder
<1>4. /\ Ordered
      /\ Len(notes) = Len(Cells(All, o))
      /\ listCount = Len(Cells(All, o))
      /\ freqCursor = Len(FlattenSeq(CellEntries(All, o)))
      /\ out = Unsigned(a.ids \o b.ids, FlattenSeq(CellEntries(All, o)),
                        AllBlocks(All, o), out.heads, out.data)
      /\ Noted(a, b, docsA, docsB, o, notes)
  BY <1>1 DEF OrdersInv, ListsInv, NotesInv, All
<1>5. TypeOK'
  BY <1>1, <1>2 DEF TypeOK
<1>6. OrdersInv'
  BY <1>1, <1>2 DEF OrdersInv, Ordered
<1>7. PrepareInv' /\ FieldsInv' /\ FailedInv'
  BY DEF PrepareInv, FieldsInv, FailedInv
<1>8. NotesInv'
  BY <1>1, <1>2, <1>3, <1>4 DEF NotesInv
<1>. HIDE DEF o
<1>9. out' = Unsigned(a.ids \o b.ids, FlattenSeq(CellEntries(All, o)), AllBlocks(All, o), hs, data)
      /\ out'.heads = hs /\ out'.data = data
  <2>. DEFINE x == a.ids \o b.ids
              y == FlattenSeq(CellEntries(All, o))
              z == AllBlocks(All, o)
              u == out.heads
              v == out.data
  <2>1. out = Unsigned(x, y, z, u, v)
    BY <1>4
  <2>. HIDE DEF x, y, z, u, v
  <2>2. /\ Unsigned(x, y, z, hs, data).heads = hs
        /\ Unsigned(x, y, z, hs, data).data = data
    BY DEF Unsigned
  <2>3. out' = Unsigned(x, y, z, hs, data)
    <3>1. [Unsigned(x, y, z, u, v) EXCEPT !.heads = hs] = Unsigned(x, y, z, hs, v)
      BY ONLY DEF Unsigned
    <3>2. [Unsigned(x, y, z, hs, v) EXCEPT !.data = data] = Unsigned(x, y, z, hs, data)
      BY ONLY DEF Unsigned
    <3>3. out' = [[out EXCEPT !.heads = hs] EXCEPT !.data = data]
      OBVIOUS
    <3>. QED BY <2>1, <3>1, <3>2, <3>3
  <2>. QED BY <2>2, <2>3 DEF x, y, z
<1>10. ListsInv'
  <2>1. RecordedOrder' = o
    BY <1>3 DEF o
  <2>2. /\ Len(notes') = Len(Cells(docsA' \o docsB', RecordedOrder'))
        /\ listCount' = Len(Cells(docsA' \o docsB', RecordedOrder'))
        /\ freqCursor' = Len(FlattenSeq(CellEntries(docsA' \o docsB', RecordedOrder')))
    BY <1>2, <1>4, <2>1 DEF All
  <2>3. Listing(docsA' \o docsB', RecordedOrder', turn', out'.data, dataSize', heads', at',
                out'.heads)
    <3>1. Listing(docsA \o docsB, o, turn', data, dataSize', heads', at', hs)
      BY DEF o
    <3>. QED BY <1>2, <1>9, <2>1, <3>1
  <2>4. out' = Unsigned(a'.ids \o b'.ids,
                        FlattenSeq(CellEntries(docsA' \o docsB', RecordedOrder')),
                        AllBlocks(docsA' \o docsB', RecordedOrder'), out'.heads, out'.data)
    BY <1>2, <1>9, <2>1 DEF All
  <2>5. pc' = "header" => turn' = Len(notes') /\ heads' = << >> /\ at' = Len(notes')
    OBVIOUS
  <2>6. pc' # "done"
    OBVIOUS
  <2>. QED BY <2>2, <2>3, <2>4, <2>5, <2>6 DEF ListsInv
<1>. QED BY <1>2, <1>5, <1>6, <1>7, <1>8, <1>10 DEF Inv

(* The posting lists, as the invariant has them.                           *)
LEMMA ListFacts ==
  ASSUME Inv, pc = "lists"
  PROVE  /\ Inputs /\ IsBatch(All) /\ RecordedOrder \in Seq(FieldsOf(All))
         /\ turn \in Nat /\ dataSize \in Nat
         /\ Len(notes) = Len(Cells(All, RecordedOrder)) /\ Len(notes) \in Nat
         /\ Listing(All, RecordedOrder, turn, out.data, dataSize, heads, at, out.heads)
         /\ \A p \in 1 .. Len(notes) : MergedList(notes[p]) = CellHolders(All, RecordedOrder)[p]
<1>1. /\ Inputs /\ TypeOK /\ OrdersInv /\ NotesInv /\ ListsInv
  BY DEF Inv
<1>. DEFINE o == RecordedOrder
            N == Len(notes)
<1>2. /\ Ordered
      /\ N = Len(Cells(All, o))
      /\ Listing(All, o, turn, out.data, dataSize, heads, at, out.heads)
      /\ Noted(a, b, docsA, docsB, o, notes)
      /\ turn \in Nat /\ dataSize \in Nat
  BY <1>1 DEF OrdersInv, ListsInv, NotesInv, TypeOK, All
<1>3. IsBatch(All)
  BY <1>1, AllValues
<1>4. o \in Seq(FieldsOf(All))
  BY <1>1, <1>2, OrderedHasAll
<1>5. N \in Nat
  <2>1. Len(Cells(All, o)) \in Nat
    BY <1>3, <1>4, SizesAre
  <2>. QED BY <1>2, <2>1
<1>6. ASSUME NEW p \in 1 .. N
      PROVE  MergedList(notes[p]) = CellHolders(All, o)[p]
  <2>. DEFINE f == Cells(All, o)[p].f
              v == Cells(All, o)[p].v
              note == notes[p]
  <2>1. NoteRight(a, b, docsA, docsB, f, v, note)
    BY <1>2 DEF Noted, All
  <2>2. CellHolders(All, o)[p] = Holders(All, f, v)
    BY <1>2 DEF CellHolders
  <2>. HIDE DEF f, v, note
  <2>3. MergedList(note) = Holders(All, f, v)
    BY <1>1, <2>1, NoteMerges
  <2>. QED BY <2>2, <2>3 DEF note
<1>. QED BY <1>1, <1>2, <1>3, <1>4, <1>5, <1>6

(* WriteList: one more posting list, whether or not the batch of headers   *)
(* is full with it.                                                        *)
LEMMA WriteListKeeps ==
  ASSUME Inv, WriteList
  PROVE  Inv'
<1>. DEFINE o == RecordedOrder
            N == Len(notes)
            list == MergedList(notes[turn + 1])
            batch == Append(heads, [offset |-> dataSize, length |-> BitmapSize(list)])
            full == Len(batch) >= MaxHeaders
            hs == IF full THEN WriteAt(out.heads, at, batch) ELSE out.heads
            data == Append(out.data, list)
            size == dataSize + BitmapSize(list)
<1>1. /\ pc = "lists" /\ pc' = "lists"
      /\ turn < N /\ turn' = turn + 1
      /\ heads' = IF full THEN << >> ELSE batch
      /\ at' = IF full THEN at + Len(batch) ELSE at
      /\ dataSize' = size
      /\ out' = [out EXCEPT !.heads = hs, !.data = data]
      /\ UNCHANGED <<todo, orderA, orderB, orderC, walk, listCount, listCursor, freqCursor,
                     notes, temp, lost>>
      /\ UNCHANGED inputVars
  BY DEF WriteList, BatchPosition, cursorVars
<1>2. /\ Inputs /\ IsBatch(All) /\ o \in Seq(FieldsOf(All))
      /\ turn \in Nat /\ dataSize \in Nat
      /\ N = Len(Cells(All, o)) /\ N \in Nat
      /\ Listing(All, o, turn, out.data, dataSize, heads, at, out.heads)
      /\ \A p \in 1 .. N : MergedList(notes[p]) = CellHolders(All, o)[p]
  BY <1>1, ListFacts
<1>3. list = CellHolders(All, o)[turn + 1]
  BY <1>1, <1>2
<1>. HIDE DEF list, o, N
<1>4. /\ Listing(All, o, turn + 1, data, size, batch, at, out.heads)
      /\ BitmapSize(list) \in Nat
  <2>. DEFINE x == out.data
              h == out.heads
  <2>. HIDE DEF x, h
  <2>1. Listing(All, o, turn, x, dataSize, heads, at, h) /\ turn < Len(Cells(All, o))
    BY <1>1, <1>2 DEF x, h
  <2>2. /\ Listing(All, o, turn + 1, Append(x, list), dataSize + BitmapSize(list),
                   Append(heads, [offset |-> dataSize, length |-> BitmapSize(list)]), at, h)
        /\ BitmapSize(list) \in Nat
    BY <1>2, <1>3, <2>1, ListingNext
  <2>. QED BY <2>2 DEF x, h
<1>. DEFINE m == turn + 1
<1>5. m \in Nat /\ m <= N
  BY <1>1, <1>2
<1>. HIDE DEF data, size, batch, m
<1>6. /\ Listing(All, o, m, data, size, << >>, at + Len(batch), WriteAt(out.heads, at, batch))
      /\ at + Len(batch) = m
  <2>. DEFINE h == out.heads
  <2>. HIDE DEF h
  <2>1. Listing(All, o, m, data, size, batch, at, h)
    BY <1>4 DEF m, h
  <2>2. /\ Listing(All, o, m, data, size, << >>, at + Len(batch), WriteAt(h, at, batch))
        /\ at + Len(batch) = m
    BY <1>2, <1>5, <2>1, ListingWrites
  <2>. QED BY <2>2 DEF h
<1>7. /\ Listing(All, o, m, data, size, heads', at', hs)
      /\ at' + Len(heads') <= N
  <2>1. CASE full
    <3>1. heads' = << >> /\ at' = at + Len(batch) /\ hs = WriteAt(out.heads, at, batch)
      BY <1>1, <2>1
    <3>2. at' + Len(heads') = m
      BY <1>5, <1>6, <3>1
    <3>. QED BY <1>5, <1>6, <3>1, <3>2
  <2>2. CASE ~full
    <3>1. heads' = batch /\ at' = at /\ hs = out.heads
      BY <1>1, <2>2
    <3>. QED BY <1>4, <1>5, <1>6, <3>1 DEF m
  <2>. QED BY <2>1, <2>2
<1>. HIDE DEF hs, full
<1>8. size \in Nat
  BY <1>2, <1>4 DEF size
<1>9. Listing(docsA \o docsB, RecordedOrder, turn', data, dataSize', heads', at', hs)
  BY <1>1, <1>7 DEF All, o, m
<1>10. turn' \in Nat /\ dataSize' \in Nat /\ at' + Len(heads') <= Len(notes)
  BY <1>1, <1>5, <1>7, <1>8 DEF m, N
<1>11. lost' \in [blocks : Nat, lists : 0 .. Len(notes)]
  BY <1>1 DEF Inv, TypeOK
<1>. QED BY <1>1, <1>9, <1>10, <1>11, ListStep

(* WriteRest: the headers that waited close the gap.                       *)
LEMMA WriteRestKeeps ==
  ASSUME Inv, WriteRest
  PROVE  Inv'
<1>. DEFINE o == RecordedOrder
            N == Len(notes)
            hs == WriteAt(out.heads, at, heads)
            data == out.data
<1>1. /\ pc = "lists" /\ pc' = "header"
      /\ turn = N /\ turn' = turn
      /\ heads' = << >>
      /\ at' = at + Len(heads)
      /\ dataSize' = dataSize
      /\ out' = [out EXCEPT !.heads = hs]
      /\ \E n \in 0 .. Least(MaxLost, Len(data)) : lost' = [lost EXCEPT !.lists = n]
      /\ UNCHANGED <<todo, orderA, orderB, orderC, walk, listCount, listCursor, freqCursor,
                     notes, temp>>
      /\ UNCHANGED inputVars
  BY DEF WriteRest, cursorVars, orderVars
<1>2. /\ Inputs /\ IsBatch(All) /\ o \in Seq(FieldsOf(All))
      /\ turn \in Nat /\ dataSize \in Nat /\ N \in Nat
      /\ Listing(All, o, turn, data, dataSize, heads, at, out.heads)
  BY <1>1, ListFacts
<1>. HIDE DEF o, N, data
<1>3. /\ Listing(All, o, turn, data, dataSize, << >>, at + Len(heads), hs)
      /\ at + Len(heads) = turn
  <2>. DEFINE h == out.heads
  <2>. HIDE DEF h
  <2>1. Listing(All, o, turn, data, dataSize, heads, at, h)
    BY <1>2 DEF h
  <2>2. /\ Listing(All, o, turn, data, dataSize, << >>, at + Len(heads), WriteAt(h, at, heads))
        /\ at + Len(heads) = turn
    BY <1>2, <2>1, ListingWrites
  <2>. QED BY <2>2 DEF h
<1>4. out' = [out EXCEPT !.heads = hs, !.data = data]
  <2>1. ListsInv
    BY DEF Inv
  <2>. DEFINE x == a.ids \o b.ids
              y == FlattenSeq(CellEntries(docsA \o docsB, o))
              z == AllBlocks(docsA \o docsB, o)
              u == out.heads
  <2>2. out = Unsigned(x, y, z, u, data)
    BY <1>1, <2>1 DEF ListsInv, o, data
  <2>. HIDE DEF x, y, z, u, hs
  <2>3. [Unsigned(x, y, z, u, data) EXCEPT !.heads = hs] = Unsigned(x, y, z, hs, data)
    BY ONLY DEF Unsigned
  <2>4. [Unsigned(x, y, z, hs, data) EXCEPT !.data = data] = Unsigned(x, y, z, hs, data)
    BY ONLY DEF Unsigned
  <2>5. out' = [[out EXCEPT !.heads = hs] EXCEPT !.data = data]
    BY <1>1, <2>2, <2>3, <2>4
  <2>. QED BY <2>5
<1>. HIDE DEF hs
<1>5. Listing(docsA \o docsB, RecordedOrder, turn', data, dataSize', heads', at', hs)
  BY <1>1, <1>3 DEF All, o
<1>6. turn' \in Nat /\ dataSize' \in Nat /\ at' + Len(heads') <= Len(notes)
      /\ turn' = Len(notes) /\ heads' = << >> /\ at' = Len(notes)
  BY <1>1, <1>2, <1>3 DEF N
<1>7. lost' \in [blocks : Nat, lists : 0 .. Len(notes)]
  <2>1. lost \in [blocks : Nat, lists : 0 .. Len(notes)]
    BY DEF Inv, TypeOK
  <2>2. PICK n \in 0 .. Least(MaxLost, Len(data)) : lost' = [lost EXCEPT !.lists = n]
    BY <1>1
  <2>3. Len(data) = Len(notes) /\ Len(notes) \in Nat
    BY <1>1, <1>2 DEF Listing, N
  <2>4. n \in 0 .. Len(notes)
    BY <2>3, MergerAssumption DEF Least
  <2>. QED BY <2>1, <2>2, <2>4
<1>. QED BY <1>1, <1>4, <1>5, <1>6, <1>7, ListStep

(* WriteHeader: the cursors are what the header has to announce.           *)
LEMMA WriteHeaderKeeps ==
  ASSUME Inv, WriteHeader
  PROVE  Inv'
<1>1. /\ Inputs /\ TypeOK /\ OrdersInv /\ PrepareInv /\ NotesInv /\ ListsInv
  BY DEF Inv
<1>. DEFINE o == RecordedOrder
            N == Len(notes)
            H == [docs   |-> Len(a.ids) + Len(b.ids),
                  fields |-> Len(orderA) + Len(orderB) + Len(orderC),
                  lists  |-> listCursor,
                  data   |-> dataSize,
                  freqs  |-> freqCursor]
<1>2. /\ pc = "header" /\ pc' = "done" /\ temp' = FALSE
      /\ out' = [out EXCEPT !.header = <<H>>]
      /\ UNCHANGED <<todo, orderA, orderB, orderC, turn, walk, listCount, listCursor,
                     freqCursor, notes, heads, at, dataSize, lost>>
      /\ UNCHANGED inputVars
  BY DEF WriteHeader, cursorVars, listVars, orderVars
<1>3. /\ Inputs' /\ a' = a /\ b' = b /\ docsA' = docsA /\ docsB' = docsB /\ FA' = FA /\ FB' = FB
  BY <1>1, <1>2, InputsStay
<1>4. o' = o
  BY <1>2 DEF RecordedOrder
<1>5. /\ Ordered
      /\ listCursor = N
      /\ N = Len(Cells(All, o)) /\ listCount = Len(Cells(All, o))
      /\ freqCursor = Len(FlattenSeq(CellEntries(All, o)))
      /\ Listing(All, o, turn, out.data, dataSize, heads, at, out.heads)
      /\ out = Unsigned(a.ids \o b.ids, FlattenSeq(CellEntries(All, o)),
                        AllBlocks(All, o), out.heads, out.data)
      /\ turn = N /\ heads = << >> /\ at = N
      /\ Noted(a, b, docsA, docsB, o, notes)
  BY <1>1, <1>2 DEF OrdersInv, ListsInv, NotesInv, All
<1>6. /\ o \in Seq(FieldsOf(All)) /\ IsBatch(All)
      /\ Len(o) = Len(orderA) + Len(orderB) + Len(orderC)
  BY <1>1, <1>5, OrderedHasAll, AllValues
<1>7. TypeOK'
  <2>1. temp' \in BOOLEAN
    BY <1>2
  <2>. QED BY <1>1, <1>2, <1>3, <2>1 DEF TypeOK
<1>8. OrdersInv'
  BY <1>1, <1>2, <1>3 DEF OrdersInv, Ordered
<1>9. PrepareInv' /\ FieldsInv' /\ FailedInv'
  BY <1>2 DEF PrepareInv, FieldsInv, FailedInv
<1>10. NotesInv'
  BY <1>1, <1>2, <1>3, <1>4, <1>5 DEF NotesInv
<1>. HIDE DEF o
<1>11. /\ Len(a.ids) + Len(b.ids) = Len(All)
       /\ a.ids \o b.ids = [k \in DOMAIN All |-> All[k].id]
  BY <1>1, IdsConcat
<1>12. /\ out.data = CellHolders(All, o)
       /\ dataSize = Total(Sizes(All, o), N)
       /\ out.heads = [p \in 1 .. N |-> CellHead(All, o, p)]
  <2>1. /\ out.data = [p \in 1 .. N |-> CellHolders(All, o)[p]]
        /\ dataSize = Total(Sizes(All, o), N)
        /\ out.heads = [p \in 1 .. N |-> IF p <= N THEN CellHead(All, o, p) ELSE ZeroHead]
    BY <1>5 DEF Listing
  <2>2. CellHolders(All, o) = [p \in 1 .. N |-> CellHolders(All, o)[p]]
    BY <1>5 DEF CellHolders
  <2>3. \A p \in 1 .. N : p <= N
    OBVIOUS
  <2>. QED BY <2>1, <2>2, <2>3
<1>13. H = [docs   |-> Len(All),
            fields |-> Len(o),
            lists  |-> Len(Cells(All, o)),
            data   |-> Total(Sizes(All, o), Len(Cells(All, o))),
            freqs  |-> Len(FlattenSeq(CellEntries(All, o)))]
  BY <1>5, <1>6, <1>11, <1>12
<1>14. out' = MergedFile(All, o)
  <2>. DEFINE x == a.ids \o b.ids
              y == FlattenSeq(CellEntries(All, o))
              z == AllBlocks(All, o)
              u == out.heads
              v == out.data
  <2>1. out = Unsigned(x, y, z, u, v)
    BY <1>5
  <2>2. MergedFile(All, o) = [header |-> <<H>>, ids |-> x, freqs |-> y, fields |-> z,
                              heads |-> u, data |-> v]
    <3>1. /\ x = [k \in DOMAIN All |-> All[k].id]
          /\ u = [p \in 1 .. Len(Cells(All, o)) |-> CellHead(All, o, p)]
          /\ v = CellHolders(All, o)
      BY <1>5, <1>11, <1>12
    <3>. HIDE DEF H, x, u, v
    <3>. QED BY <1>13, <3>1 DEF MergedFile
  <2>. HIDE DEF x, y, z, u, v, H
  <2>3. [Unsigned(x, y, z, u, v) EXCEPT !.header = <<H>>]
          = [header |-> <<H>>, ids |-> x, freqs |-> y, fields |-> z, heads |-> u, data |-> v]
    BY ONLY DEF Unsigned
  <2>4. out' = [header |-> <<H>>, ids |-> x, freqs |-> y, fields |-> z, heads |-> u, data |-> v]
    BY <1>2, <2>1, <2>3
  <2>. QED BY <2>2, <2>4
<1>15. out'.heads = out.heads /\ out'.data = out.data
  <2>1. \A x, y : /\ MergedFile(x, y).heads = [p \in 1 .. Len(Cells(x, y)) |-> CellHead(x, y, p)]
                  /\ MergedFile(x, y).data = CellHolders(x, y)
    BY DEF MergedFile
  <2>. QED BY <1>5, <1>12, <1>14, <2>1
<1>. HIDE DEF H
<1>16. ListsInv'
  <2>1. RecordedOrder' = o
    BY <1>4 DEF o
  <2>2. /\ Len(notes') = Len(Cells(docsA' \o docsB', RecordedOrder'))
        /\ listCount' = Len(Cells(docsA' \o docsB', RecordedOrder'))
        /\ freqCursor' = Len(FlattenSeq(CellEntries(docsA' \o docsB', RecordedOrder')))
    BY <1>2, <1>3, <1>5, <2>1 DEF All
  <2>3. Listing(docsA' \o docsB', RecordedOrder', turn', out'.data, dataSize', heads', at',
                out'.heads)
    BY <1>2, <1>3, <1>5, <1>15, <2>1 DEF All
  <2>4. turn' = Len(notes') /\ heads' = << >> /\ at' = Len(notes')
    BY <1>2, <1>5
  <2>5. out' = MergedFile(docsA' \o docsB', RecordedOrder')
    BY <1>3, <1>14, <2>1 DEF All
  <2>. QED BY <1>2, <2>2, <2>3, <2>4, <2>5 DEF ListsInv
<1>. QED BY <1>3, <1>7, <1>8, <1>9, <1>10, <1>16 DEF Inv

(* MergeFails: no file is left.                                            *)
LEMMA MergeFailsKeeps ==
  ASSUME Inv, MergeFails
  PROVE  Inv'
<1>1. Inputs /\ TypeOK /\ NotesInv
  BY DEF Inv
<1>2. /\ pc' = "failed" /\ temp' = FALSE /\ out' = NoSuchFile
      /\ UNCHANGED <<todo, turn, listCount, listCursor, freqCursor, notes, heads, at, dataSize, lost>>
      /\ UNCHANGED inputVars
  BY DEF MergeFails, cursorVars, listVars, orderVars
<1>3. /\ Inputs' /\ a' = a /\ b' = b /\ docsA' = docsA /\ docsB' = docsB
  BY <1>1, <1>2, InputsStay
<1>4. TypeOK'
  <2>1. temp' \in BOOLEAN
    BY <1>2
  <2>. QED BY <1>1, <1>2, <1>3, <2>1 DEF TypeOK
<1>5. NotesInv'
  BY <1>1, <1>2, <1>3 DEF NotesInv
<1>6. OrdersInv' /\ PrepareInv' /\ FieldsInv' /\ ListsInv' /\ FailedInv'
  BY <1>2 DEF OrdersInv, PrepareInv, FieldsInv, ListsInv, FailedInv
<1>. QED BY <1>3, <1>4, <1>5, <1>6 DEF Inv

(* A step that changes nothing.                                            *)
LEMMA StutterKeeps ==
  ASSUME Inv, UNCHANGED vars
  PROVE  Inv'
<1>1. /\ Inputs /\ TypeOK /\ OrdersInv /\ PrepareInv /\ NotesInv /\ FieldsInv /\ ListsInv
      /\ FailedInv
  BY DEF Inv
<1>2. /\ UNCHANGED <<pc, todo, orderA, orderB, orderC, turn, walk, listCount, listCursor,
                     freqCursor, notes, temp, heads, at, dataSize, out, lost>>
      /\ UNCHANGED inputVars
  BY DEF vars, cursorVars, listVars, orderVars
<1>3. /\ Inputs' /\ a' = a /\ b' = b /\ docsA' = docsA /\ docsB' = docsB /\ FA' = FA /\ FB' = FB
  BY <1>1, <1>2, InputsStay
<1>4. RecordedOrder' = RecordedOrder /\ Started' = Started
  BY <1>2 DEF RecordedOrder, Started
<1>5. TypeOK'
  BY <1>1, <1>2, <1>3 DEF TypeOK
<1>6. OrdersInv'
  BY <1>1, <1>2, <1>3 DEF OrdersInv, Ordered
<1>7. PrepareInv'
  BY <1>1, <1>2, <1>3, <1>4 DEF PrepareInv
<1>8. NotesInv'
  BY <1>1, <1>2, <1>3, <1>4 DEF NotesInv
<1>9. FieldsInv'
  BY <1>1, <1>2, <1>3, <1>4 DEF FieldsInv
<1>10. ListsInv'
  BY <1>1, <1>2, <1>3, <1>4 DEF ListsInv
<1>11. FailedInv'
  BY <1>1, <1>2 DEF FailedInv
<1>. QED BY <1>3, <1>5, <1>6, <1>7, <1>8, <1>9, <1>10, <1>11 DEF Inv

-----------------------------------------------------------------------------
(***************************************************************************)
(* The theorems.                                                           *)
(***************************************************************************)
(* Every step keeps the invariant.                                         *)
LEMMA NextKeeps == Inv /\ [Next]_vars => Inv'
<1>. SUFFICES ASSUME Inv, [Next]_vars PROVE Inv'
  OBVIOUS
<1>1. CASE Create
  BY <1>1, CreateKeeps
<1>2. ASSUME NEW f \in todo, PrepareFieldA(f) PROVE Inv'
  BY <1>2, PrepareFieldAKeeps
<1>3. CASE StartPrepareB
  BY <1>3, StartPrepareBKeeps
<1>4. ASSUME NEW f \in todo, PrepareFieldB(f) PROVE Inv'
  BY <1>4, PrepareFieldBKeeps
<1>5. CASE StartPrepareC
  BY <1>5, StartPrepareCKeeps
<1>6. CASE PrepareCollision
  BY <1>6, PrepareCollisionKeeps
<1>7. CASE PrepareToken
  BY <1>7, PrepareTokenKeeps
<1>8. CASE MakeTemp
  BY <1>8, MakeTempKeeps
<1>9. CASE StartBlock
  BY <1>9, StartBlockKeeps
<1>10. CASE WriteToken
  BY <1>10, WriteTokenKeeps
<1>11. CASE Assemble
  BY <1>11, AssembleKeeps
<1>12. CASE WriteList
  BY <1>12, WriteListKeeps
<1>13. CASE WriteRest
  BY <1>13, WriteRestKeeps
<1>14. CASE WriteHeader
  BY <1>14, WriteHeaderKeeps
<1>15. CASE MergeFails
  BY <1>15, MergeFailsKeeps
<1>16. CASE UNCHANGED vars
  BY <1>16, StutterKeeps
<1>. QED
  BY <1>1, <1>2, <1>3, <1>4, <1>5, <1>6, <1>7, <1>8, <1>9, <1>10, <1>11, <1>12, <1>13,
     <1>14, <1>15, <1>16 DEF Next, Proceed

(* In every state of Merge: the inductive invariant.                       *)
THEOREM PassesKeepPace == Spec => []Inv
<1>1. Init => Inv
  BY InitInv
<1>2. Inv /\ [Next]_vars => Inv'
  BY NextKeeps
<1>. QED BY <1>1, <1>2, PTL DEF Spec

(* The type invariant of storage.Merger.Merge: what is in its variables,   *)
(* and that the posting-list headers never outgrow the room made for them. *)
THEOREM TypesAreRight == Spec => []TypeOK
<1>1. Inv => TypeOK
  BY DEF Inv
<1>. QED BY <1>1, PassesKeepPace, PTL

(* A file with a zero header is an empty storage, if it is one at all.     *)
LEMMA UnsignedIsNothing ==
  ASSUME NEW V, NEW W, NEW ids \in Seq(V), NEW freqs \in Seq(W), NEW fields, NEW hs, NEW data
  PROVE  Load(Unsigned(ids, freqs, fields, hs, data)) \in {Rejected, EmptySegment}
<1>. DEFINE f == Unsigned(ids, freqs, fields, hs, data)
<1>1. /\ f.header = <<ZeroHeader>> /\ f.header # << >> /\ f.header[1] = ZeroHeader
      /\ f.ids = ids /\ f.freqs = freqs
  BY DEF Unsigned
<1>2. ZeroHeader.docs = 0 /\ ZeroHeader.freqs = 0 /\ ZeroHeader.lists = 0 /\ ZeroHeader.fields = 0
  BY DEF ZeroHeader
<1>. HIDE DEF f
<1>3. SubSeq(f.ids, 1, 0) = << >> /\ SubSeq(f.freqs, 1, 0) = << >>
  BY <1>1
<1>4. 1 .. 0 = {}
  OBVIOUS
<1>. DEFINE block(hash) == f.fields[CHOOSE n \in 1 .. 0 : f.fields[n].hash = hash]
            lists == [n \in 1 .. 0 |-> BitmapAt(f.data, f.heads[n])]
            blocks == [hash \in {f.fields[n].hash : n \in 1 .. 0} |->
                         [tokens      |-> SubSeq(block(hash).tokens, 1, block(hash).tokenCount),
                          lengths     |-> SubSeq(block(hash).lengths, 1, block(hash).lengthCount),
                          total       |-> block(hash).total,
                          avg         |-> block(hash).avg,
                          occurrences |-> block(hash).occurrences]]
<1>5. lists = << >>
  BY <1>4
<1>6. blocks = << >>
  <2>1. {f.fields[n].hash : n \in 1 .. 0} = {}
    BY <1>4
  <2>. HIDE DEF block
  <2>. QED BY <2>1
<1>7. HeaderOnly(f) => Load(f) = EmptySegment
  BY <1>1 DEF Load
<1>8. ~HeaderOnly(f) /\ Unreadable(f) => Load(f) = Rejected
  BY <1>1 DEF Load
<1>9. ASSUME ~HeaderOnly(f), ~Unreadable(f) PROVE Load(f) = EmptySegment
  <2>1. Load(f) = [ids |-> SubSeq(f.ids, 1, 0), freqs |-> SubSeq(f.freqs, 1, 0),
                   lists |-> lists, fields |-> blocks]
    BY <1>1, <1>2, <1>9 DEF Load
  <2>. HIDE DEF lists, blocks
  <2>. QED BY <1>3, <1>5, <1>6, <2>1 DEF EmptySegment
<1>10. Load(f) \in {Rejected, EmptySegment}
  BY <1>7, <1>8, <1>9
<1>. QED BY <1>10 DEF f

(* What is on disk of a file with a zero header is such a file.            *)
LEMMA CutIsUnsigned ==
  ASSUME lost \in [blocks : Nat, lists : 0 .. Len(notes)],
         NEW W, NEW ids, NEW freqs \in Seq(W), NEW fields, Len(fields) \in Nat,
         NEW hs, NEW data, out = Unsigned(ids, freqs, fields, hs, data)
  PROVE  \E g \in Seq(W) : \E fs, d : OnDisk = Unsigned(ids, g, fs, hs, d)
<1>. DEFINE L == Len(freqs)
            kept == L + Len(fields) - lost.blocks
            g == SubSeq(freqs, 1, Least(kept, L))
            fs == SubSeq(fields, 1, kept - L)
            d == SubSeq(data, 1, Len(data) - lost.lists)
<1>1. g \in Seq(W)
  <2>. DEFINE k == Least(kept, L)
  <2>1. lost.blocks \in Nat /\ L \in Nat
    OBVIOUS
  <2>2. k \in Int /\ k <= L
    BY <2>1 DEF Least
  <2>. HIDE DEF k
  <2>3. SubSeq(freqs, 1, k) \in Seq(W)
    BY <2>1, <2>2
  <2>. QED BY <2>3 DEF k
<1>2. /\ out.freqs = freqs /\ out.fields = fields /\ out.data = data
  BY DEF Unsigned
<1>3. OnDisk = [out EXCEPT !.freqs = g, !.fields = fs, !.data = d]
  BY <1>2 DEF OnDisk
<1>. HIDE DEF g, fs, d
<1>4. [Unsigned(ids, freqs, fields, hs, data) EXCEPT !.freqs = g, !.fields = fs, !.data = d]
        = Unsigned(ids, g, fs, hs, d)
  <2>1. [Unsigned(ids, freqs, fields, hs, data) EXCEPT !.freqs = g]
          = Unsigned(ids, g, fields, hs, data)
    BY ONLY DEF Unsigned
  <2>2. [Unsigned(ids, g, fields, hs, data) EXCEPT !.fields = fs] = Unsigned(ids, g, fs, hs, data)
    BY ONLY DEF Unsigned
  <2>3. [Unsigned(ids, g, fs, hs, data) EXCEPT !.data = d] = Unsigned(ids, g, fs, hs, d)
    BY ONLY DEF Unsigned
  <2>. QED BY <2>1, <2>2, <2>3
<1>5. OnDisk = Unsigned(ids, g, fs, hs, d)
  BY <1>3, <1>4
<1>. QED BY <1>1, <1>5

(* The header is the commit point of Merge: a file it leaves without having*)
(* returned nil is rejected by Load, or is an empty storage, also if a     *)
(* Flush whose error Merge drops had left out the end of a table.          *)
THEOREM UnfinishedIsNothing == Spec => []ReadsAsNothing
<1>1. ASSUME Inv PROVE ReadsAsNothing
  <2>. SUFFICES ASSUME pc # "done" PROVE Load(OnDisk) \in {Rejected, EmptySegment}
    BY DEF ReadsAsNothing
  <2>1. /\ Inputs /\ TypeOK /\ OrdersInv /\ PrepareInv /\ FieldsInv /\ ListsInv /\ FailedInv
        /\ lost \in [blocks : Nat, lists : 0 .. Len(notes)]
    BY <1>1 DEF Inv, TypeOK
  <2>2. CASE out = NoSuchFile
    <3>1. OnDisk.header = << >>
      BY <2>2 DEF OnDisk, NoSuchFile
    <3>. QED BY <3>1 DEF Load
  <2>3. ASSUME NEW W, NEW freqs \in Seq(W), NEW fields, Len(fields) \in Nat, NEW hs, NEW data,
               out = Unsigned(a.ids \o b.ids, freqs, fields, hs, data)
        PROVE  Load(OnDisk) \in {Rejected, EmptySegment}
    <3>. DEFINE ids == a.ids \o b.ids
    <3>1. PICK V : ids \in Seq(V)
      BY <2>1, IdsConcat
    <3>. HIDE DEF ids
    <3>2. out = Unsigned(ids, freqs, fields, hs, data)
      BY <2>3 DEF ids
    <3>3. PICK g \in Seq(W) : \E fs, d : OnDisk = Unsigned(ids, g, fs, hs, d)
      BY <2>1, <2>3, <3>2, CutIsUnsigned
    <3>4. PICK fs, d : OnDisk = Unsigned(ids, g, fs, hs, d)
      BY <3>3
    <3>5. Load(Unsigned(ids, g, fs, hs, d)) \in {Rejected, EmptySegment}
      BY <3>1, UnsignedIsNothing
    <3>. QED BY <3>4, <3>5
  <2>4. CASE pc \in {"create", "failed"}
    BY <2>1, <2>2, <2>4 DEF PrepareInv, FailedInv
  <2>5. CASE pc \in {"prepareA", "prepareB", "prepareC"}
    <3>1. /\ out = Unsigned(a.ids \o b.ids, out.freqs, << >>, << >>, << >>)
          /\ out.freqs \in Seq(Entry)
      BY <2>1, <2>5 DEF PrepareInv, Prepared
    <3>2. Len(<< >>) \in Nat
      OBVIOUS
    <3>. QED BY <2>3, <3>1, <3>2
  <2>6. CASE pc \in {"fields", "lists", "header"}
    <3>1. /\ RecordedOrder \in Seq(FieldsOf(All)) /\ IsBatch(All)
      <4>1. Ordered
        BY <2>1, <2>6 DEF OrdersInv
      <4>2. IsBatch(All)
        BY <2>1, AllValues
      <4>. QED BY <2>1, <4>1, <4>2, OrderedHasAll
    <3>2. CellEntries(All, RecordedOrder) \in Seq(Seq(Entry))
      BY <3>1, CellEntriesAre
    <3>. DEFINE q == CellEntries(All, RecordedOrder)
    <3>. HIDE DEF q
    <3>3. FlattenSeq(q) \in Seq(Entry)
      BY <3>2, FlattenPlaces DEF q
    <3>4. CASE pc = "fields"
      <4>1. /\ out = Unsigned(a.ids \o b.ids, FlattenSeq(q), out.fields, << >>, << >>)
            /\ Writing(docsA, docsB, RecordedOrder, turn, walk, Len(notes), freqCursor,
                       out.fields)
        BY <2>1, <3>4 DEF FieldsInv, q, All
      <4>2. Len(out.fields) \in Nat
        BY <2>1, <3>1, <4>1 DEF Writing, Blocks, TypeOK
      <4>. QED BY <2>3, <3>3, <4>1, <4>2
    <3>5. CASE pc \in {"lists", "header"}
      <4>. DEFINE z == AllBlocks(All, RecordedOrder)
      <4>1. Len(z) \in Nat
        BY <3>1 DEF AllBlocks
      <4>2. out = Unsigned(a.ids \o b.ids, FlattenSeq(q), z, out.heads, out.data)
        BY <2>1, <3>5 DEF ListsInv, q, All
      <4>. HIDE DEF z
      <4>. QED BY <2>3, <3>3, <4>1, <4>2
    <3>. QED BY <2>6, <3>4, <3>5
  <2>. QED BY <2>1, <2>4, <2>5, <2>6 DEF TypeOK
<1>2. Inv => ReadsAsNothing
  BY <1>1
<1>. QED BY <1>2, PassesKeepPace, PTL

(* The file, its order and what it is loaded as, when Merge has returned   *)
(* nil.                                                                    *)
LEMMA DoneIs ==
  ASSUME Inv, pc \in {"fields", "lists", "header", "done"}
  PROVE  /\ Inputs /\ IsBatch(All)
         /\ RecordedOrder \in SetToSeqs(FieldsOf(All))
         /\ RecordedOrder \in Seq(FieldsOf(All))
         /\ pc = "done" => out = MergedFile(All, RecordedOrder)
<1>1. Inputs /\ OrdersInv /\ ListsInv
  BY DEF Inv
<1>2. Ordered
  BY <1>1 DEF OrdersInv
<1>3. IsBatch(All)
  BY <1>1, AllValues
<1>4. pc = "done" => out = MergedFile(All, RecordedOrder)
  BY <1>1 DEF ListsInv, All
<1>. QED BY <1>1, <1>2, <1>3, <1>4, OrderedHasAll

(* A complete file is on disk as it was written, if no Flush failed.       *)
LEMMA NothingLost ==
  ASSUME NEW docs, IsBatch(docs), NEW o \in Seq(FieldsOf(docs)),
         out = MergedFile(docs, o), lost.blocks = 0, lost.lists = 0
  PROVE  OnDisk = out
<1>. DEFINE x == FlattenSeq(CellEntries(docs, o))
            y == AllBlocks(docs, o)
            z == CellHolders(docs, o)
<1>1. \A W : \A s \in Seq(W) : SubSeq(s, 1, Len(s)) = s
  OBVIOUS
<1>2. x \in Seq(Entry)
  <2>1. CellEntries(docs, o) \in Seq(Seq(Entry))
    BY CellEntriesAre
  <2>. QED BY <2>1, FlattenPlaces
<1>3. \E W : y \in Seq(W)
  <2>1. y = [m \in 1 .. Len(o) |-> BlockAt(docs, o, m, Cardinality(ValuesOf(docs, o[m])))]
    BY DEF AllBlocks
  <2>2. Len(o) \in Nat
    OBVIOUS
  <2>. HIDE DEF y
  <2>3. y \in Seq({y[m] : m \in 1 .. Len(o)})
    BY <2>1, <2>2
  <2>. QED BY <2>3
<1>4. z \in Seq(SUBSET Nat)
  BY SizesAre
<1>5. out.freqs = x /\ out.fields = y /\ out.data = z
  BY DEF MergedFile
<1>. HIDE DEF x, y, z
<1>6. /\ SubSeq(x, 1, Len(x)) = x /\ SubSeq(y, 1, Len(y)) = y /\ SubSeq(z, 1, Len(z)) = z
      /\ Len(x) \in Nat /\ Len(y) \in Nat /\ Len(z) \in Nat
  BY <1>1, <1>2, <1>3, <1>4
<1>7. Least((Len(x) + Len(y)) - 0, Len(x)) = Len(x) /\ ((Len(x) + Len(y)) - 0) - Len(x) = Len(y)
      /\ Len(z) - 0 = Len(z)
  <2>. DEFINE j == Len(x)
              k == Len(y)
              m == Len(z)
  <2>1. j \in Nat /\ k \in Nat /\ m \in Nat
    BY <1>6
  <2>. HIDE DEF j, k, m
  <2>2. Least((j + k) - 0, j) = j /\ ((j + k) - 0) - j = k /\ m - 0 = m
    BY <2>1 DEF Least
  <2>. QED BY <2>2 DEF j, k, m
<1>8. OnDisk = [out EXCEPT !.freqs = x, !.fields = y, !.data = z]
  <2>. DEFINE kept == Len(out.freqs) + Len(out.fields) - lost.blocks
  <2>1. /\ SubSeq(out.freqs, 1, Least(kept, Len(out.freqs))) = x
        /\ SubSeq(out.fields, 1, kept - Len(out.freqs)) = y
        /\ SubSeq(out.data, 1, Len(out.data) - lost.lists) = z
    BY <1>5, <1>6, <1>7
  <2>2. OnDisk = [out EXCEPT !.freqs  = SubSeq(out.freqs, 1, Least(kept, Len(out.freqs))),
                             !.fields = SubSeq(out.fields, 1, kept - Len(out.freqs)),
                             !.data   = SubSeq(out.data, 1, Len(out.data) - lost.lists)]
    BY Zenon, <1>5 DEF OnDisk, MergedFile
  <2>. HIDE DEF kept
  <2>. QED BY <2>1, <2>2
<1>9. \A f \in {MergedFile(docs, o)} :
        [f EXCEPT !.freqs = f.freqs, !.fields = f.fields, !.data = f.data] = f
  BY DEF MergedFile
<1>. QED BY <1>5, <1>8, <1>9

(* If the last of the posting lists are missing, Load finds less data than *)
(* the header announces.                                                   *)
LEMMA LostListsRejected ==
  ASSUME NEW docs, IsBatch(docs), NEW o \in Seq(FieldsOf(docs)),
         out = MergedFile(docs, o), lost.lists \in 1 .. Len(Cells(docs, o))
  PROVE  Load(OnDisk) = Rejected
<1>. DEFINE N == Len(Cells(docs, o))
            n == N - lost.lists
            w == Sizes(docs, o)
            f == OnDisk
<1>1. /\ N \in Nat /\ Len(CellHolders(docs, o)) = N
      /\ w \in Seq(Nat) /\ Len(w) = N /\ \A p \in 1 .. N : w[p] > 0
  BY SizesAre
<1>2. n \in 0 .. N /\ n \in Nat /\ n < N /\ N > 0
  BY <1>1
<1>3. /\ f.header = out.header /\ f.heads = out.heads
      /\ f.data = SubSeq(out.data, 1, Len(out.data) - lost.lists)
  BY DEF OnDisk, MergedFile
<1>4. /\ out.header # << >> /\ out.header[1].lists = N /\ out.header[1].data = Total(w, N)
      /\ out.heads = [p \in 1 .. N |-> CellHead(docs, o, p)]
      /\ out.data = CellHolders(docs, o)
  BY DEF MergedFile
<1>. HIDE DEF N, f, w
<1>5. f.heads # << >>
  <2>1. 1 \in 1 .. N
    BY <1>1, <1>2
  <2>. DEFINE hs == [p \in 1 .. N |-> CellHead(docs, o, p)]
  <2>2. DOMAIN hs = 1 .. N
    OBVIOUS
  <2>. HIDE DEF hs
  <2>3. hs # << >>
    <3>1. DOMAIN << >> = {}
      OBVIOUS
    <3>2. 1 .. N # {}
      BY <2>1
    <3>. QED BY ONLY <2>2, <3>1, <3>2
  <2>. QED BY <1>3, <1>4, <2>3 DEF hs
<1>6. DataSize(f.data) = Total(w, n)
  <2>. HIDE DEF n
  <2>1. DataSize(SubSeq(CellHolders(docs, o), 1, n)) = Total(w, n)
    BY <1>2, DataSizes DEF N, w
  <2>. QED BY <1>1, <1>3, <1>4, <2>1 DEF n
<1>7. Total(w, n) < Total(w, N)
  <2>. HIDE DEF n
  <2>. QED BY <1>1, <1>2, TotalLess
<1>8. Unreadable(f)
  <2>. DEFINE h == f.header[1]
  <2>1. h.lists > 0 /\ DataSize(f.data) < h.data
    BY <1>2, <1>3, <1>4, <1>6, <1>7
  <2>. QED BY <2>1 DEF Unreadable
<1>9. ~HeaderOnly(f) /\ f.header # << >>
  BY <1>3, <1>4, <1>5 DEF HeaderOnly
<1>10. Load(f) = Rejected
  BY <1>8, <1>9 DEF Load
<1>. QED BY <1>10 DEF f

(* When Merge returns nil and no Flush failed, what Load finds in its      *)
(* output indexes A's documents followed by B's: every token of every field*)
(* has the documents, the frequencies and the lengths it has in both, and  *)
(* every table of the file is covered.  Merge drops the error of a Flush:  *)
(* it may also return nil when the one behind the posting lists left some  *)
(* of them out, and Load rejects the file then.                            *)
THEOREM OutputIndexesBoth == Spec => []MergedIndexes
<1>1. ASSUME Inv PROVE MergedIndexes
  <2>. SUFFICES ASSUME pc = "done", lost.blocks = 0
                PROVE  IF lost.lists = 0 THEN Indexes(Load(OnDisk), docsA \o docsB)
                                         ELSE Load(OnDisk) = Rejected
    BY DEF MergedIndexes
  <2>. DEFINE o == RecordedOrder
  <2>1. /\ IsBatch(All) /\ o \in SetToSeqs(FieldsOf(All)) /\ o \in Seq(FieldsOf(All))
        /\ out = MergedFile(All, o)
    BY <1>1, DoneIs
  <2>2. lost.lists \in 0 .. Len(notes) /\ Len(notes) = Len(Cells(All, o))
    BY <1>1 DEF Inv, TypeOK, ListsInv, All
  <2>. HIDE DEF o
  <2>3. CASE lost.lists = 0
    <3>1. OnDisk = out
      BY <2>1, <2>3, NothingLost
    <3>2. Load(OnDisk) = LaidOut(All, o)
      BY <2>1, <3>1, MergedLoads
    <3>3. LaidOut(All, o) \in LayoutsOf(All)
      BY <2>1 DEF LayoutsOf
    <3>4. Indexes(LaidOut(All, o), All)
      BY <2>1, <3>3, LaidOutIndexes
    <3>. QED BY <2>3, <3>2, <3>4 DEF All
  <2>4. CASE lost.lists # 0
    <3>1. Len(Cells(All, o)) \in Nat
      BY <2>1, SizesAre
    <3>2. lost.lists \in 1 .. Len(Cells(All, o))
      BY <2>2, <2>4, <3>1
    <3>3. Load(OnDisk) = Rejected
      BY <2>1, <3>2, LostListsRejected
    <3>. QED BY <2>4, <3>3
  <2>. QED BY <2>3, <2>4
<1>2. Inv => MergedIndexes
  BY <1>1
<1>. QED BY <1>2, PassesKeepPace, PTL

(* The cells of the fields before come before, in a pass as in the order.  *)
LEMMA BeforeGrows ==
  ASSUME NEW docs, IsBatch(docs), NEW o \in Seq(FieldsOf(docs)),
         NEW m \in 1 .. Len(o), NEW n \in 1 .. Len(o), m < n
  PROVE  Before(docs, o, m) + Cardinality(ValuesOf(docs, o[m])) <= Before(docs, o, n)
<1>. DEFINE w == Lens(Rows(docs, o))
<1>1. Rows(docs, o) \in Seq(Seq(Cell(docs))) /\ Len(Rows(docs, o)) = Len(o)
  BY CellsAre
<1>2. w \in Seq(Nat) /\ Len(w) = Len(o)
  BY <1>1, LensAre
<1>3. Before(docs, o, m) + Cardinality(ValuesOf(docs, o[m])) = Before(docs, o, m + 1)
  BY BeforeIs
<1>4. Before(docs, o, m + 1) = Total(w, m) /\ Before(docs, o, n) = Total(w, n - 1)
  <2>1. (m + 1) - 1 = m
    OBVIOUS
  <2>. HIDE DEF w
  <2>2. \A k : Before(docs, o, k) = Total(Lens(Rows(docs, o)), k - 1)
    BY DEF Before
  <2>. QED BY <2>1, <2>2 DEF w
<1>. HIDE DEF w
<1>5. m \in Nat /\ n - 1 \in Nat /\ m <= n - 1 /\ n - 1 <= Len(w)
  BY <1>2
<1>6. Total(w, m) <= Total(w, n - 1)
  BY <1>2, <1>5, TotalGrows
<1>. QED BY <1>3, <1>4, <1>6

(* Each token that is written is that of a cell behind the pass.           *)
LEMMA BlocksHave ==
  ASSUME Inputs, NEW o \in Seq(FieldsOf(All)), NEW last, NEW w, NEW count, NEW cursor,
         NEW fields, Writing(docsA, docsB, o, last, w, count, cursor, fields),
         NEW n \in DOMAIN fields, NEW k \in DOMAIN fields[n].tokens
  PROVE  \E p \in 1 .. count : fields[n].tokens[k] = LaidToken(All, o, p)
<1>1. /\ last \in 0 .. Len(o)
      /\ Reached(docsA, docsB, o, last, w, count)
      /\ fields = Blocks(All, o, last, count - Before(All, o, last))
      /\ IsBatch(All)
  BY AllValues DEF Writing, All
<1>2. n \in 1 .. last
  BY <1>1 DEF Blocks
<1>. DEFINE c == IF n < last THEN Cardinality(ValuesOf(All, o[n]))
                            ELSE count - Before(All, o, last)
<1>3. fields[n].tokens = [t \in 1 .. c |-> LaidToken(All, o, Before(All, o, n) + t)]
  <2>1. \A f, ts : BlockSays(All, f, ts).tokens = ts
    BY DEF BlockSays
  <2>2. fields[n] = BlockAt(All, o, n, c)
    BY <1>1, <1>2 DEF Blocks
  <2>. HIDE DEF c
  <2>. QED BY <2>1, <2>2 DEF BlockAt
<1>4. PICK taken \in Nat : count = Before(All, o, last) + taken
  BY <1>1, <1>2 DEF Reached, All
<1>5. /\ Before(All, o, n) \in Nat /\ Before(All, o, last) \in Nat
      /\ Cardinality(ValuesOf(All, o[n])) \in Nat
  <2>1. n \in 1 .. Len(o) + 1 /\ last \in 1 .. Len(o) + 1
    BY <1>1, <1>2
  <2>2. Before(All, o, n) \in Nat /\ Before(All, o, last) \in Nat
    BY <1>1, <2>1, BeforeIs
  <2>3. Cardinality(ValuesOf(All, o[n])) \in Nat
    BY AllValues
  <2>. QED BY <2>2, <2>3
<1>6. n < last => Before(All, o, n) + Cardinality(ValuesOf(All, o[n])) <= Before(All, o, last)
  <2>1. n \in 1 .. Len(o) /\ last \in 1 .. Len(o)
    BY <1>1, <1>2
  <2>. QED BY <1>1, <2>1, BeforeGrows
<1>7. k \in 1 .. c /\ fields[n].tokens[k] = LaidToken(All, o, Before(All, o, n) + k)
  BY <1>3
<1>8. Before(All, o, n) + k \in 1 .. count
  <2>1. CASE n < last
    <3>1. k \in 1 .. Cardinality(ValuesOf(All, o[n]))
      BY <1>7, <2>1
    <3>. QED BY <1>4, <1>5, <1>6, <2>1, <3>1
  <2>2. CASE ~(n < last)
    <3>1. n = last /\ k \in 1 .. count - Before(All, o, last)
      BY <1>1, <1>2, <1>7, <2>2
    <3>. QED BY <1>4, <1>5, <3>1
  <2>. QED BY <2>1, <2>2
<1>. QED BY <1>7, <1>8

(* The documents of the frequencies of a token are those that have it.     *)
LEMMA EntryDocs ==
  ASSUME NEW docs, IsBatch(docs), NEW f, NEW v, NEW e, e = EntriesOf(docs, f, v)
  PROVE  [m \in DOMAIN e |-> e[m].doc] = Ascending(Holders(docs, f, v))
<1>. DEFINE asc == Ascending(Holders(docs, f, v))
<1>1. e = [k \in DOMAIN asc |-> [doc |-> asc[k], freq |-> docs[asc[k] + 1].fields[f].tokens[v]]]
  BY DEF EntriesOf
<1>2. asc = [k \in DOMAIN asc |-> asc[k]]
  <2>. DEFINE S == Holders(docs, f, v)
  <2>1. IsFiniteSet(S) /\ Numbers(S)
    BY BatchSets
  <2>. HIDE DEF S
  <2>2. Ascending(S) \in [1 .. Len(Ascending(S)) -> S]
    BY <2>1, AscendingLists DEF Lists
  <2>3. Ascending(S) = [k \in DOMAIN Ascending(S) |-> Ascending(S)[k]]
    BY <2>2
  <2>. QED BY <2>3 DEF S
<1>. HIDE DEF asc
<1>3. DOMAIN e = DOMAIN asc /\ \A m \in DOMAIN asc : e[m].doc = asc[m]
  BY <1>1
<1>4. [m \in DOMAIN e |-> e[m].doc] = asc
  BY <1>2, <1>3
<1>. QED BY <1>4 DEF asc

(* The posting list that the note of a cell asks for, and the frequencies  *)
(* of its token, are of the same documents.                                *)
LEMMA SliceOwned ==
  ASSUME Inv, pc = "fields", NEW p \in 1 .. Len(notes),
         NEW t, t = LaidToken(All, RecordedOrder, p)
  PROVE  LET slice == SubSeq(out.freqs, t.freq + 1, t.freq + t.count)
         IN  [m \in DOMAIN slice |-> slice[m].doc] = Ascending(MergedList(notes[t.list + 1]))
<1>. DEFINE o == RecordedOrder
            f == Cells(All, o)[p].f
            v == Cells(All, o)[p].v
            s == LaidOut(All, o)
<1>1. Inputs /\ NotesInv /\ FieldsInv
  BY DEF Inv
<1>2. /\ IsBatch(All) /\ o \in Seq(FieldsOf(All))
  BY DoneIs
<1>3. /\ Writing(docsA, docsB, o, turn, walk, Len(notes), freqCursor, out.fields)
      /\ out.freqs = FlattenSeq(CellEntries(All, o))
      /\ NoteRight(a, b, docsA, docsB, f, v, notes[p])
  <2>1. \A x1, x2, x3, x4, x5 : Unsigned(x1, x2, x3, x4, x5).freqs = x2
    BY DEF Unsigned
  <2>. QED BY <1>1, <2>1 DEF FieldsInv, NotesInv, Noted, All
<1>4. p \in 1 .. Len(Cells(All, o))
  <2>1. Len(notes) \in Nat /\ Len(notes) <= Len(Cells(All, o))
    BY <1>1, <1>2, <1>3, ReachedBound DEF Writing
  <2>2. Len(Cells(All, o)) \in Nat
    BY <1>2, BeforeIs
  <2>. QED BY <2>1, <2>2
<1>5. MergedList(notes[p]) = Holders(All, f, v)
  BY <1>1, <1>3, NoteMerges
<1>6. s.freqs = out.freqs
  BY <1>3, LaidOutParts
<1>. HIDE DEF o
<1>7. t.list = p - 1 /\ Slice(s, t) = EntriesOf(All, f, v)
  BY <1>2, <1>4, CellToken DEF o
<1>8. notes[t.list + 1] = notes[p]
  BY <1>7
<1>. HIDE DEF s, f, v
<1>. DEFINE slice == SubSeq(out.freqs, t.freq + 1, t.freq + t.count)
<1>9. slice = EntriesOf(All, f, v)
  BY <1>6, <1>7 DEF Slice
<1>. HIDE DEF slice
<1>10. [m \in DOMAIN slice |-> slice[m].doc] = Ascending(Holders(All, f, v))
  BY <1>2, <1>9, EntryDocs
<1>11. [m \in DOMAIN slice |-> slice[m].doc] = Ascending(MergedList(notes[t.list + 1]))
  BY <1>5, <1>8, <1>10
<1>. QED BY <1>11 DEF slice

(* The frequencies of the first cells are part of all of them.             *)
LEMMA CursorBound ==
  ASSUME NEW docs, IsBatch(docs), NEW o \in Seq(FieldsOf(docs)),
         NEW count \in Nat, count <= Len(Cells(docs, o))
  PROVE  Total(Lens(CellEntries(docs, o)), count) <= Len(FlattenSeq(CellEntries(docs, o)))
<1>. DEFINE q == CellEntries(docs, o)
            w == Lens(q)
<1>1. /\ q \in Seq(Seq(Entry)) /\ w \in Seq(Nat) /\ Len(w) = Len(Cells(docs, o))
      /\ Len(q) = Len(w) /\ Len(w) \in Nat
  BY CellEntriesAre
<1>. HIDE DEF q
<1>2. Len(FlattenSeq(q)) = Total(w, Len(w))
  BY <1>1, FlattenPlaces
<1>. HIDE DEF w
<1>3. Total(w, count) <= Total(w, Len(w))
  BY <1>1, TotalGrows
<1>. QED BY <1>2, <1>3 DEF q, w

(* The passes of Merge agree, each with its own cursors: the posting lists *)
(* are numbered like the notes, the notes never outgrow the temporary file,*)
(* what a block announces is what it has, and the frequencies a token      *)
(* points at are of the documents in the posting list it will get.         *)
THEOREM CursorsAgree == Spec => []PassesAgree
<1>1. ASSUME Inv PROVE PassesAgree
  <2>1. Inputs /\ TypeOK /\ OrdersInv /\ PrepareInv /\ NotesInv /\ FieldsInv /\ ListsInv
    BY <1>1 DEF Inv
  <2>. DEFINE o == RecordedOrder
              q == CellEntries(All, o)
  <2>2. listCursor = Len(notes)
    BY <2>1 DEF NotesInv
  <2>3. ASSUME pc \in {"fields", "lists", "header", "done"}
        PROVE  /\ IsBatch(All) /\ o \in SetToSeqs(FieldsOf(All)) /\ o \in Seq(FieldsOf(All))
               /\ out.freqs = FlattenSeq(q)
               /\ pc # "fields" => out.fields = AllBlocks(All, o)
    <3>1. /\ IsBatch(All) /\ o \in SetToSeqs(FieldsOf(All)) /\ o \in Seq(FieldsOf(All))
          /\ pc = "done" => out = MergedFile(All, o)
      BY <1>1, <2>3, DoneIs
    <3>2. \A x1, x2, x3, x4, x5 : /\ Unsigned(x1, x2, x3, x4, x5).freqs = x2
                                  /\ Unsigned(x1, x2, x3, x4, x5).fields = x3
      BY DEF Unsigned
    <3>3. \A x, y : /\ MergedFile(x, y).freqs = FlattenSeq(CellEntries(x, y))
                    /\ MergedFile(x, y).fields = AllBlocks(x, y)
      BY DEF MergedFile
    <3>4. pc = "fields" => out = Unsigned(a.ids \o b.ids, FlattenSeq(q), out.fields, << >>, << >>)
      BY <2>1 DEF FieldsInv, All
    <3>5. pc \in {"lists", "header"} =>
            out = Unsigned(a.ids \o b.ids, FlattenSeq(q), AllBlocks(All, o), out.heads, out.data)
      BY <2>1 DEF ListsInv, All
    <3>. HIDE DEF o, q
    <3>6. CASE pc = "fields"
      BY <3>1, <3>2, <3>4, <3>6
    <3>7. CASE pc \in {"lists", "header"}
      BY <3>1, <3>2, <3>5, <3>7
    <3>8. CASE pc = "done"
      BY <3>1, <3>3, <3>8 DEF q
    <3>. QED BY <2>3, <3>6, <3>7, <3>8
  <2>4. ASSUME pc = "fields"
        PROVE  freqCursor <= Len(out.freqs) /\ Len(notes) <= listCount /\ TokenOwnsSlice
    <3>1. /\ Writing(docsA, docsB, o, turn, walk, Len(notes), freqCursor, out.fields)
          /\ listCount = Len(Cells(All, o))
      BY <2>1, <2>4 DEF FieldsInv, All
    <3>2. IsBatch(All) /\ o \in Seq(FieldsOf(All)) /\ out.freqs = FlattenSeq(q)
      BY <2>3, <2>4
    <3>3. Len(notes) \in Nat /\ Len(notes) <= Len(Cells(All, o))
      BY <2>1, <3>1, <3>2, ReachedBound DEF Writing
    <3>4. freqCursor = Total(Lens(q), Len(notes))
      BY <3>1 DEF Writing, All
    <3>. HIDE DEF o
    <3>5. Total(Lens(q), Len(notes)) <= Len(FlattenSeq(q))
      BY <3>2, <3>3, CursorBound
    <3>6. TokenOwnsSlice
      <4>. SUFFICES ASSUME NEW n \in DOMAIN out.fields, NEW k \in DOMAIN out.fields[n].tokens
                    PROVE  LET t     == out.fields[n].tokens[k]
                               slice == SubSeq(out.freqs, t.freq + 1, t.freq + t.count)
                           IN  [m \in DOMAIN slice |-> slice[m].doc]
                                 = Ascending(MergedList(notes[t.list + 1]))
        BY DEF TokenOwnsSlice
      <4>. DEFINE t == out.fields[n].tokens[k]
      <4>1. PICK p \in 1 .. Len(notes) : t = LaidToken(All, RecordedOrder, p)
        BY <2>1, <3>1, <3>2, BlocksHave DEF o
      <4>. QED BY <1>1, <2>4, <4>1, SliceOwned
    <3>. QED BY <3>1, <3>2, <3>3, <3>4, <3>5, <3>6
  <2>5. ASSUME pc \in {"lists", "header", "done"}
        PROVE  /\ Len(notes) = listCount
               /\ freqCursor = Len(out.freqs)
               /\ \A k \in DOMAIN out.fields :
                    /\ out.fields[k].tokenCount = Len(out.fields[k].tokens)
                    /\ out.fields[k].lengthCount = Len(out.fields[k].lengths)
    <3>1. Len(notes) = listCount /\ freqCursor = Len(FlattenSeq(q))
      BY <2>1, <2>5 DEF ListsInv, All
    <3>2. /\ IsBatch(All) /\ o \in SetToSeqs(FieldsOf(All))
          /\ out.freqs = FlattenSeq(q) /\ out.fields = AllBlocks(All, o)
      BY <2>3, <2>5
    <3>. HIDE DEF o, q
    <3>3. ASSUME NEW k \in DOMAIN out.fields
          PROVE  /\ out.fields[k].tokenCount = Len(out.fields[k].tokens)
                 /\ out.fields[k].lengthCount = Len(out.fields[k].lengths)
      <4>1. k \in 1 .. Len(o)
        BY <3>2, <3>3 DEF AllBlocks
      <4>. DEFINE x == AllBlocks(All, o)[k]
                  ts == LaidOut(All, o).fields[o[k]].tokens
      <4>2. x = BlockSays(All, o[k], ts) /\ Len(ts) = Cardinality(ValuesOf(All, o[k]))
        <5>1. o[k] \in FieldsOf(All)
          BY <3>2, <4>1, OrderIsSeq
        <5>2. AllBlocks(All, o)[k] = SavedBlock(All, o, o[k])
          BY <3>2, <4>1, BlocksAreSaved
        <5>3. LaidSays(All, o[k], LaidOut(All, o).fields[o[k]])
          BY <3>2, <5>1, FieldIsLaid
        <5>. QED BY <5>2, <5>3 DEF SavedBlock, LaidSays
      <4>3. out.fields[k] = x
        BY <3>2
      <4>. HIDE DEF x, ts
      <4>4. /\ x.tokenCount = Cardinality(ValuesOf(All, o[k])) /\ x.tokens = ts
            /\ x.lengthCount = Len(x.lengths)
        BY <4>2 DEF BlockSays
      <4>. QED BY <4>2, <4>3, <4>4
    <3>. QED BY <3>1, <3>2, <3>3
  <2>6. ASSUME pc \in {"create", "prepareA", "prepareB", "prepareC"}
        PROVE  freqCursor <= Len(out.freqs)
    <3>1. freqCursor = 0
      BY <2>1, <2>6 DEF PrepareInv
    <3>2. Len(out.freqs) \in Nat
      <4>1. CASE pc = "create"
        <5>1. out.freqs = << >>
          BY <2>1, <4>1 DEF PrepareInv, NoSuchFile
        <5>. QED BY <5>1
      <4>2. CASE pc # "create"
        <5>1. out.freqs \in Seq(Entry)
          BY <2>1, <2>6, <4>2 DEF PrepareInv, Prepared
        <5>. QED BY <5>1
      <4>. QED BY <4>1, <4>2
    <3>. QED BY <3>1, <3>2
  <2>7. ASSUME pc \in {"lists", "header", "done"} PROVE freqCursor <= Len(out.freqs)
    BY <2>1, <2>5, <2>7 DEF TypeOK
  <2>8. pc # "fields" => TokenOwnsSlice
    BY DEF TokenOwnsSlice
  <2>. HIDE DEF o, q
  <2>9. pc # "failed" => freqCursor <= Len(out.freqs)
    BY <2>1, <2>4, <2>6, <2>7 DEF TypeOK
  <2>. QED BY <2>2, <2>4, <2>5, <2>8, <2>9 DEF PassesAgree
<1>2. Inv => PassesAgree
  BY <1>1
<1>. QED BY <1>2, PassesKeepPace, PTL
=============================================================================
