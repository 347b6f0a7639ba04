---------------------------- MODULE QueryProofs ----------------------------
(***************************************************************************)
(* FilterDocuments keeps the documents that are meant, FieldScore ranks    *)
(* them and BM25Score gives each the sum of its own parts, for any         *)
(* documents and any query, whichever field of a bare keyword comes next;  *)
(* a page is then read in the order of the scores, every document that     *)
(* counts and no other.                                                    *)
(***************************************************************************)
EXTENDS Query, SegmentProofs

-----------------------------------------------------------------------------
(***************************************************************************)
(* Searches by halving, and what is selected from a table.                 *)
(***************************************************************************)
LowerIn(n, y, x) == Cardinality({k \in 1 .. n : y[k] < x})

(* In an ascending sequence the lower ones come first, as many as they are.*)
LEMMA Halving ==
  ASSUME NEW n \in Nat, NEW y \in [1 .. n -> Nat], Climbs(y), NEW x \in Nat
  PROVE  /\ LowerIn(n, y, x) \in 0 .. n
         /\ \A k \in 1 .. n : y[k] < x <=> k <= LowerIn(n, y, x)
<1>. DEFINE T == {k \in 1 .. n + 1 : k <= n => x <= y[k]}
<1>1. T \in SUBSET Nat /\ T # {}
  <2>1. n + 1 \in T
    OBVIOUS
  <2>2. \A k \in T : k \in 1 .. n + 1
    OBVIOUS
  <2>. HIDE DEF T
  <2>3. \A k \in T : k \in Nat
    BY <2>2
  <2>. QED BY <2>1, <2>3
<1>2. PICK m \in T : \A k \in T : m <= k
  BY <1>1, NatLeast
<1>3. m \in 1 .. n + 1 /\ (m <= n => x <= y[m])
  BY <1>2
<1>4. \A k \in 1 .. n : y[k] \in Nat
  OBVIOUS
<1>5. ASSUME NEW k \in 1 .. n PROVE y[k] < x <=> k <= m - 1
  <2>1. CASE k < m
    <3>1. k \notin T
      BY <1>2, <1>3, <2>1
    <3>2. y[k] < x
      BY <3>1, <1>4
    <3>. QED BY <3>2, <2>1, <1>3
  <2>2. CASE m <= k
    <3>1. x <= y[m] /\ y[m] \in Nat /\ m \in 1 .. n
      BY <1>3, <1>4, <2>2
    <3>2. y[m] <= y[k]
      <4>1. CASE m = k
        BY <4>1, <3>1
      <4>2. CASE m < k
        BY <4>2, <3>1, <1>4 DEF Climbs
      <4>. QED BY <4>1, <4>2, <2>2, <3>1
    <3>3. ~(y[k] < x)
      BY <3>1, <3>2, <1>4
    <3>. QED BY <3>3, <2>2, <1>3
  <2>. QED BY <2>1, <2>2, <1>3
<1>6. {k \in 1 .. n : y[k] < x} = 1 .. m - 1
  BY <1>3, <1>5
<1>7. LowerIn(n, y, x) = m - 1
  <2>1. Cardinality(1 .. m - 1) = IF 1 > m - 1 THEN 0 ELSE (m - 1) - 1 + 1
    <3>1. 1 \in Int /\ m - 1 \in Int
      BY <1>3
    <3>. QED BY <3>1, FS_Interval
  <2>2. Cardinality(1 .. m - 1) = m - 1
    BY ONLY <2>1, <1>3, n \in Nat
  <2>. QED BY <1>6, <2>2 DEF LowerIn
<1>. QED BY <1>3, <1>5, <1>7

(* A table of tokens that lists the values S.                              *)
ValueSeq(tokens) == [k \in DOMAIN tokens |-> tokens[k].value]
Sorted(tokens, S) == tokens \in Seq(Token) /\ Lists(ValueSeq(tokens), S)

(* What that says of its tokens.                                           *)
LEMMA SortedSays ==
  ASSUME NEW S, NEW tokens, Sorted(tokens, S)
  PROVE  /\ Len(tokens) \in Nat /\ DOMAIN tokens = 1 .. Len(tokens)
         /\ ValueSeq(tokens) \in [1 .. Len(tokens) -> Nat]
         /\ Len(ValueSeq(tokens)) = Len(tokens)
         /\ Climbs(ValueSeq(tokens))
         /\ \A k \in 1 .. Len(tokens) : /\ tokens[k] \in Token
                                        /\ tokens[k].value \in Nat /\ tokens[k].value \in S
                                        /\ ValueSeq(tokens)[k] = tokens[k].value
         /\ \A x \in S : x \in Nat /\ \E k \in 1 .. Len(tokens) : tokens[k].value = x
         /\ \A i, j \in 1 .. Len(tokens) : i < j => tokens[i].value < tokens[j].value
<1>1. tokens \in Seq(Token) /\ Len(tokens) \in Nat /\ DOMAIN tokens = 1 .. Len(tokens)
  BY DEF Sorted
<1>2. \A k \in 1 .. Len(tokens) : tokens[k] \in Token /\ tokens[k].value \in Nat
  <2>1. \A t \in Token : t.value \in Nat
    BY DEF Token
  <2>. QED BY <1>1, <2>1
<1>3. /\ DOMAIN ValueSeq(tokens) = 1 .. Len(tokens)
      /\ \A k \in 1 .. Len(tokens) : ValueSeq(tokens)[k] = tokens[k].value
  BY <1>1 DEF ValueSeq
<1>4. ValueSeq(tokens) \in [1 .. Len(tokens) -> Nat]
  BY <1>1, <1>2 DEF ValueSeq
<1>5. Len(ValueSeq(tokens)) = Len(tokens)
  BY <1>1, <1>4
<1>6. /\ Climbs(ValueSeq(tokens))
      /\ \A x \in S : \E k \in 1 .. Len(tokens) : ValueSeq(tokens)[k] = x
      /\ \A k \in 1 .. Len(tokens) : ValueSeq(tokens)[k] \in S
  BY <1>5 DEF Sorted, Lists
<1>7. \A i, j \in 1 .. Len(tokens) : i < j => tokens[i].value < tokens[j].value
  BY <1>3, <1>6 DEF Climbs
<1>. QED BY <1>1, <1>2, <1>3, <1>4, <1>5, <1>6, <1>7

(* Tokens.BinarySearchBytes: the tokens below a value are those before.    *)
LEMMA BinarySearchIs ==
  ASSUME NEW S, NEW tokens, Sorted(tokens, S), NEW v \in Nat
  PROVE  /\ BinarySearch(tokens, v) \in 0 .. Len(tokens)
         /\ \A k \in 1 .. Len(tokens) :
              tokens[k].value < v <=> k <= BinarySearch(tokens, v)
<1>. DEFINE y == ValueSeq(tokens)
            n == Len(tokens)
<1>1. /\ n \in Nat /\ DOMAIN tokens = 1 .. n /\ y \in [1 .. n -> Nat] /\ Climbs(y)
      /\ \A k \in 1 .. n : y[k] = tokens[k].value
  BY SortedSays
<1>2. BinarySearch(tokens, v) = LowerIn(n, y, v)
  <2>1. {k \in 1 .. n : Value(tokens[k]) < v} = {k \in 1 .. n : y[k] < v}
    BY <1>1 DEF Value
  <2>2. BinarySearch(tokens, v) = Cardinality({k \in 1 .. n : Value(tokens[k]) < v})
    BY <1>1 DEF BinarySearch, Search
  <2>. QED BY <2>1, <2>2 DEF LowerIn
<1>. HIDE DEF y, n
<1>3. /\ LowerIn(n, y, v) \in 0 .. n
      /\ \A k \in 1 .. n : y[k] < v <=> k <= LowerIn(n, y, v)
  BY <1>1, Halving
<1>. QED BY <1>1, <1>2, <1>3 DEF n

(* Tokens.GetBytes finds a token just when there is one.                   *)
LEMMA FoundIs ==
  ASSUME NEW S, NEW tokens, Sorted(tokens, S), NEW v \in Nat
  PROVE  /\ Found(tokens, v) <=> v \in S
         /\ Found(tokens, v) => /\ BinarySearch(tokens, v) + 1 \in 1 .. Len(tokens)
                                /\ tokens[BinarySearch(tokens, v) + 1].value = v
<1>. DEFINE c == BinarySearch(tokens, v)
            n == Len(tokens)
<1>1. /\ n \in Nat
      /\ \A k \in 1 .. n : tokens[k].value \in Nat /\ tokens[k].value \in S
      /\ \A x \in S : \E k \in 1 .. n : tokens[k].value = x
      /\ \A i, j \in 1 .. n : i < j => tokens[i].value < tokens[j].value
  BY SortedSays
<1>2. c \in 0 .. n /\ \A k \in 1 .. n : tokens[k].value < v <=> k <= c
  BY BinarySearchIs
<1>3. Found(tokens, v) <=> c < n /\ tokens[c + 1].value = v
  BY DEF Found, Has, Value
<1>. HIDE DEF c, n
<1>4. ASSUME c < n PROVE c + 1 \in 1 .. n
  BY <1>1, <1>2, <1>4
<1>5. ASSUME v \in S PROVE Found(tokens, v)
  <2>1. PICK k \in 1 .. n : tokens[k].value = v
    BY <1>1, <1>5
  <2>2. ~(k <= c)
    BY <2>1, <1>2, <1>1
  <2>3. c < n /\ c + 1 \in 1 .. n /\ c + 1 <= k
    BY <2>2, <1>1, <1>2
  <2>4. tokens[c + 1].value \in Nat /\ ~(tokens[c + 1].value < v)
    BY <2>3, <1>2, <1>1
  <2>5. c + 1 = k
    <3>1. CASE c + 1 < k
      BY <3>1, <2>1, <2>3, <2>4, <1>1
    <3>. QED BY <3>1, <2>3, <1>1, <1>2
  <2>. QED BY <2>1, <2>3, <2>5, <1>3
<1>6. ASSUME Found(tokens, v) PROVE v \in S
  BY <1>6, <1>3, <1>4, <1>1
<1>. QED BY <1>3, <1>4, <1>5, <1>6 DEF c, n

(* Some of the tokens of a table, those of the values P, in order.         *)
Takes(sub, tokens, P) ==
  /\ Sorted(sub, P)
  /\ \A k \in 1 .. Len(sub) : \E j \in 1 .. Len(tokens) : sub[k] = tokens[j]

TakesAt(sub, tokens, n, at) ==
  /\ Takes(sub, tokens, {tokens[at[k]].value : k \in 1 .. n})
  /\ Len(sub) = n

(* Tokens at ascending positions are some of the tokens.                   *)
LEMMA PositionsTake ==
  ASSUME NEW S, NEW tokens, Sorted(tokens, S), NEW n \in Nat,
         NEW at \in [1 .. n -> 1 .. Len(tokens)], Climbs(at),
         NEW sub, sub = [k \in 1 .. n |-> tokens[at[k]]]
  PROVE  TakesAt(sub, tokens, n, at)
<1>. DEFINE P == {tokens[at[k]].value : k \in 1 .. n}
            y == ValueSeq(sub)
<1>1. /\ Len(tokens) \in Nat
      /\ \A k \in 1 .. Len(tokens) : tokens[k] \in Token /\ tokens[k].value \in Nat
      /\ \A i, j \in 1 .. Len(tokens) : i < j => tokens[i].value < tokens[j].value
  BY SortedSays
<1>2. \A k \in 1 .. n : at[k] \in 1 .. Len(tokens)
  OBVIOUS
<1>3. \A i, j \in 1 .. n : i < j => at[i] < at[j]
  BY DEF Climbs
<1>4. DOMAIN sub = 1 .. n /\ \A k \in 1 .. n : sub[k] = tokens[at[k]]
  OBVIOUS
<1>5. \A k \in 1 .. n : sub[k] \in Token
  BY <1>1, <1>2, <1>4
<1>6. sub \in Seq(Token) /\ Len(sub) = n
  <2>1. sub = [k \in 1 .. n |-> sub[k]]
    BY <1>4
  <2>. HIDE DEF P
  <2>. QED BY <1>5, <2>1
<1>7. DOMAIN y = 1 .. n /\ \A k \in 1 .. n : y[k] = tokens[at[k]].value
  BY <1>4 DEF ValueSeq
<1>8. y = [k \in 1 .. n |-> y[k]] /\ \A k \in 1 .. n : y[k] \in P
  <2>1. y = [k \in 1 .. n |-> y[k]]
    BY <1>4 DEF ValueSeq
  <2>. QED BY <1>7, <2>1
<1>9. y \in [1 .. n -> P] /\ Len(y) = n
  <2>. HIDE DEF y, P
  <2>. QED BY <1>8
<1>10. Climbs(y)
  <2>1. \A i, j \in 1 .. n : i < j => y[i] < y[j]
    <3>. SUFFICES ASSUME NEW i \in 1 .. n, NEW j \in 1 .. n, i < j PROVE y[i] < y[j]
      OBVIOUS
    <3>. HIDE DEF y
    <3>1. at[i] < at[j] /\ at[i] \in 1 .. Len(tokens) /\ at[j] \in 1 .. Len(tokens)
      BY <1>2, <1>3
    <3>. QED BY <3>1, <1>1, <1>7
  <2>. HIDE DEF y
  <2>. QED BY <2>1, <1>7 DEF Climbs
<1>11. \A x \in P : \E k \in 1 .. Len(y) : y[k] = x
  BY <1>7, <1>9
<1>12. Sorted(sub, P)
  <2>. HIDE DEF y, P
  <2>1. Lists(y, P)
    BY <1>9, <1>10, <1>11 DEF Lists
  <2>. QED BY <2>1, <1>6 DEF Sorted, y
<1>13. \A k \in 1 .. Len(sub) : \E j \in 1 .. Len(tokens) : sub[k] = tokens[j]
  BY <1>2, <1>4, <1>6
<1>. HIDE DEF P
<1>14. Takes(sub, tokens, P)
  BY <1>12, <1>13 DEF Takes
<1>. QED BY <1>6, <1>14 DEF P, TakesAt

(* Some of some of the tokens are some of the tokens.                      *)
LEMMA TakesAgain ==
  ASSUME NEW P, NEW Q, NEW tokens, NEW sub, NEW subsub,
         Takes(sub, tokens, P), Takes(subsub, sub, Q)
  PROVE  Takes(subsub, tokens, Q)
BY DEF Takes

(* All of the tokens are, and none.                                        *)
LEMMA TakesAll ==
  ASSUME NEW S, NEW tokens, Sorted(tokens, S)
  PROVE  Takes(tokens, tokens, S)
BY DEF Takes

(* Nothing is what is taken for no value.                                  *)
LEMMA TakesNone ==
  ASSUME NEW tokens
  PROVE  Takes(<< >>, tokens, {})
<1>1. << >> \in Seq(Token) /\ Len(<< >>) = 0
  OBVIOUS
<1>2. ValueSeq(<< >>) = << >>
  BY DEF ValueSeq
<1>3. Lists(<< >>, {})
  BY DEF Lists, Climbs
<1>. QED BY <1>1, <1>2, <1>3 DEF Takes, Sorted

(* A table with no token lists no value, and no other does.                *)
LEMMA SortedEmpty ==
  ASSUME NEW S, NEW tokens, Sorted(tokens, S)
  PROVE  tokens = << >> <=> S = {}
<1>1. /\ Len(tokens) \in Nat /\ tokens \in Seq(Token)
      /\ \A k \in 1 .. Len(tokens) : tokens[k].value \in S
      /\ \A x \in S : \E k \in 1 .. Len(tokens) : tokens[k].value = x
  BY SortedSays DEF Sorted
<1>2. tokens = << >> <=> Len(tokens) = 0
  BY <1>1
<1>3. ASSUME S # {} PROVE Len(tokens) # 0
  BY <1>1, <1>3
<1>4. ASSUME Len(tokens) # 0 PROVE S # {}
  <2>1. 1 \in 1 .. Len(tokens)
    BY <1>1, <1>4
  <2>. QED BY <1>1, <2>1
<1>. QED BY <1>2, <1>3, <1>4

StretchOf(tokens, a, b) ==
  {tokens[k].value : k \in {j \in 1 .. Len(tokens) : a <= j /\ j <= b}}

(* A stretch of the tokens.                                                *)
LEMMA StretchTakes ==
  ASSUME NEW S, NEW tokens, Sorted(tokens, S),
         NEW a \in Nat \ {0}, NEW b \in Nat, b <= Len(tokens)
  PROVE  Takes(SubSeq(tokens, a, b), tokens, StretchOf(tokens, a, b))
<1>. DEFINE n == IF a <= b THEN b - a + 1 ELSE 0
            at == [k \in 1 .. n |-> a + k - 1]
            sub == SubSeq(tokens, a, b)
<1>1. tokens \in Seq(Token) /\ Len(tokens) \in Nat /\ DOMAIN tokens = 1 .. Len(tokens)
  BY SortedSays DEF Sorted
<1>2. n \in Nat
  OBVIOUS
<1>3. \A k \in 1 .. n : a + k - 1 \in 1 .. Len(tokens) /\ a + k - 1 <= b /\ a <= a + k - 1
  BY <1>1
<1>4. at \in [1 .. n -> 1 .. Len(tokens)] /\ Climbs(at)
  BY <1>3 DEF Climbs
<1>5. sub = [k \in 1 .. n |-> tokens[at[k]]]
  <2>1. sub = [k \in 1 .. n |-> tokens[a + k - 1]]
    BY <1>1, <1>2, <1>3
  <2>. QED BY <2>1
<1>6. {tokens[at[k]].value : k \in 1 .. n}
        = {tokens[k].value : k \in {j \in 1 .. Len(tokens) : a <= j /\ j <= b}}
  <2>1. ASSUME NEW j \in 1 .. Len(tokens), a <= j, j <= b
        PROVE  \E k \in 1 .. n : at[k] = j
    <3>1. j - a + 1 \in 1 .. n /\ a + (j - a + 1) - 1 = j
      BY <2>1, <1>1
    <3>. QED BY <3>1
  <2>2. \A k \in 1 .. n : at[k] \in {j \in 1 .. Len(tokens) : a <= j /\ j <= b}
    BY <1>3
  <2>. HIDE DEF at, n
  <2>. QED BY <2>1, <2>2
<1>. HIDE DEF n, at, sub
<1>7. TakesAt(sub, tokens, n, at)
  BY ZenonT(60), <1>2, <1>4, <1>5, PositionsTake
<1>. QED BY <1>6, <1>7 DEF sub, TakesAt, StretchOf

(* The tokens at the positions I.                                          *)
LEMMA SelectedTakes ==
  ASSUME NEW S, NEW tokens, Sorted(tokens, S), NEW I \in SUBSET (1 .. Len(tokens))
  PROVE  /\ Takes(Selected(tokens, I), tokens, {tokens[k].value : k \in I})
         /\ Len(Selected(tokens, I)) = Cardinality(I)
         /\ Cardinality(I) \in Nat
<1>. DEFINE n == Cardinality(I)
            at == Ascending(I)
            sub == Selected(tokens, I)
<1>1. Len(tokens) \in Nat
  BY SortedSays
<1>2. IsFiniteSet(I) /\ Numbers(I) /\ n \in Nat
  <2>1. IsFiniteSet(1 .. Len(tokens))
    BY <1>1, FS_Interval
  <2>2. IsFiniteSet(I)
    BY <2>1, FS_Subset
  <2>3. Numbers(I)
    BY <1>1 DEF Numbers
  <2>. QED BY <2>2, <2>3, FS_CardinalityType
<1>3. Lists(at, I) /\ Len(at) = n
  BY <1>2, AscendingLists
<1>4. at \in [1 .. n -> I] /\ Climbs(at) /\ \A x \in I : \E k \in 1 .. n : at[k] = x
  BY <1>3 DEF Lists
<1>5. at \in [1 .. n -> 1 .. Len(tokens)] /\ DOMAIN at = 1 .. n
  BY <1>4
<1>6. sub = [k \in 1 .. n |-> tokens[at[k]]]
  BY <1>5 DEF Selected
<1>7. {tokens[at[k]].value : k \in 1 .. n} = {tokens[k].value : k \in I}
  BY <1>4
<1>. HIDE DEF n, at, sub
<1>8. TakesAt(sub, tokens, n, at)
  BY ZenonT(60), <1>2, <1>5, <1>4, <1>6, PositionsTake
<1>. QED BY <1>2, <1>7, <1>8 DEF sub, n, TakesAt

(* A range whose high end is above every value.                            *)
Beyond(r, S) == r.high # Open /\ \A v \in S : v < r.high

(* The tokens between the ends of a range, as far as they are included.    *)
Between(x, lo, hi, mode) ==
  /\ lo <= x /\ x <= hi
  /\ mode \in {"right", "none"} => x # lo
  /\ mode \in {"left", "none"} => x # hi

(* They are what the range means, when an end that is not given is the     *)
(* least or the greatest token.                                            *)
LEMMA IntervalIs ==
  ASSUME NEW S, NEW tokens, Sorted(tokens, S), tokens # << >>,
         NEW r, IsEntry(r), r.kind = "fieldRange"
  PROVE  /\ LowOf(r, tokens) \in Nat /\ HighOf(r, tokens) \in Nat
         /\ Interval(r, S) = {x \in S : Between(x, LowOf(r, tokens), HighOf(r, tokens), r.mode)}
<1>. DEFINE n == Len(tokens)
            lo == LowOf(r, tokens)
            hi == HighOf(r, tokens)
<1>1. /\ n \in Nat
      /\ \A k \in 1 .. n : tokens[k].value \in Nat /\ tokens[k].value \in S
      /\ \A x \in S : x \in Nat /\ \E k \in 1 .. n : tokens[k].value = x
      /\ \A i, j \in 1 .. n : i < j => tokens[i].value < tokens[j].value
  BY SortedSays
<1>2. n # 0 /\ 1 \in 1 .. n /\ n \in 1 .. n
  <2>1. tokens \in Seq(Token)
    BY DEF Sorted
  <2>. QED BY <2>1, <1>1
<1>3. /\ r.low = Open \/ r.low \in Nat
      /\ r.high = Open \/ r.high \in Nat
      /\ r.mode \in {"left", "right", "both", "none"}
      /\ r.low = Open => r.mode \in {"left", "both"}
      /\ r.high = Open => r.mode \in {"right", "both"}
  BY DEF IsEntry
<1>4. /\ r.low = Open => lo = tokens[1].value
      /\ r.low # Open => lo = r.low
      /\ r.high = Open => hi = tokens[n].value
      /\ r.high # Open => hi = r.high
  BY DEF LowOf, HighOf
<1>5. lo \in Nat /\ hi \in Nat
  BY <1>1, <1>2, <1>3, <1>4
<1>6. \A x \in S : tokens[1].value <= x /\ x <= tokens[n].value
  <2>. SUFFICES ASSUME NEW x \in S PROVE tokens[1].value <= x /\ x <= tokens[n].value
    OBVIOUS
  <2>1. PICK k \in 1 .. n : tokens[k].value = x
    BY <1>1
  <2>2. tokens[1].value \in Nat /\ tokens[n].value \in Nat /\ x \in Nat
    BY <1>1, <1>2
  <2>. HIDE DEF n
  <2>3. tokens[1].value <= x
    <3>1. CASE k = 1
      BY <3>1, <2>1, <2>2
    <3>2. CASE 1 < k
      BY <3>2, <2>1, <2>2, <1>1, <1>2
    <3>. QED BY <3>1, <3>2, <1>1
  <2>4. x <= tokens[n].value
    <3>1. CASE k = n
      BY <3>1, <2>1, <2>2
    <3>2. CASE k < n
      BY <3>2, <2>1, <2>2, <1>1, <1>2
    <3>. QED BY <3>1, <3>2, <1>1
  <2>. QED BY <2>3, <2>4
<1>. HIDE DEF lo, hi, n
<1>7. ASSUME NEW x \in S
      PROVE  x \in Interval(r, S) <=> Between(x, lo, hi, r.mode)
  <2>1. x \in Nat
    BY <1>1
  <2>2. x \in Interval(r, S) <=>
          /\ r.low # Open => IF r.mode \in {"left", "both"} THEN x >= r.low ELSE x > r.low
          /\ r.high # Open => IF r.mode \in {"right", "both"} THEN x <= r.high ELSE x < r.high
    BY DEF Interval
  <2>3. (r.low # Open => IF r.mode \in {"left", "both"} THEN x >= r.low ELSE x > r.low)
          <=> lo <= x /\ (r.mode \in {"right", "none"} => x # lo)
    <3>1. CASE r.low = Open
      BY <3>1, <1>3, <1>4, <1>6
    <3>2. CASE r.low # Open
      BY <3>2, <1>3, <1>4, <1>5, <2>1
    <3>. QED BY <3>1, <3>2
  <2>4. (r.high # Open => IF r.mode \in {"right", "both"} THEN x <= r.high ELSE x < r.high)
          <=> x <= hi /\ (r.mode \in {"left", "none"} => x # hi)
    <3>1. CASE r.high = Open
      BY <3>1, <1>3, <1>4, <1>6
    <3>2. CASE r.high # Open
      BY <3>2, <1>3, <1>4, <1>5, <2>1
    <3>. QED BY <3>1, <3>2
  <2>. QED BY <2>2, <2>3, <2>4 DEF Between
<1>8. Interval(r, S) \subseteq S
  BY DEF Interval
<1>. QED BY <1>5, <1>7, <1>8 DEF lo, hi

(* Tokens.IterBytes: nothing below the low end, and everything between the *)
(* ends, unless the high end is above every token.                         *)
RunsOver(sub, tokens, S, P, lo, hi) ==
  /\ Takes(sub, tokens, P)
  /\ \A x \in P : x \in S /\ lo <= x
  /\ (\E x \in S : hi <= x) => \A x \in S : lo <= x /\ x <= hi => x \in P

(* An iteration by bytes runs over some of the tokens, in order.           *)
LEMMA IterBytesIs ==
  ASSUME NEW S, NEW tokens, Sorted(tokens, S), NEW lo \in Nat, NEW hi \in Nat
  PROVE  \E P : RunsOver(IterBytes(tokens, lo, hi), tokens, S, P, lo, hi)
<1>. DEFINE n == Len(tokens)
            start == BinarySearch(tokens, lo)
            end == BinarySearch(tokens, hi)
            run == IterBytes(tokens, lo, hi)
<1>1. /\ n \in Nat
      /\ \A k \in 1 .. n : tokens[k].value \in Nat /\ tokens[k].value \in S
      /\ \A x \in S : x \in Nat /\ \E k \in 1 .. n : tokens[k].value = x
      /\ \A i, j \in 1 .. n : i < j => tokens[i].value < tokens[j].value
  BY SortedSays
<1>2. /\ start \in 0 .. n /\ end \in 0 .. n
      /\ \A k \in 1 .. n : tokens[k].value < lo <=> k <= start
      /\ \A k \in 1 .. n : tokens[k].value < hi <=> k <= end
  BY BinarySearchIs
<1>3. run = IF start >= n \/ end >= n THEN << >> ELSE SubSeq(tokens, start + 1, end + 1)
  BY DEF IterBytes
<1>. HIDE DEF start, end, run
<1>4. CASE start >= n \/ end >= n
  <2>1. Takes(run, tokens, {})
    BY <1>3, <1>4, TakesNone
  <2>2. ASSUME NEW z \in S, hi <= z, NEW x \in S, lo <= x, x <= hi PROVE FALSE
    <3>1. PICK k \in 1 .. n : tokens[k].value = x
      BY <1>1
    <3>2. PICK j \in 1 .. n : tokens[j].value = z
      BY <1>1
    <3>3. x \in Nat /\ z \in Nat
      BY <1>1
    <3>. HIDE DEF n
    <3>4. ~(k <= start)
      BY <3>1, <3>3, <2>2, <1>2
    <3>5. ~(j <= end)
      BY <3>2, <3>3, <2>2, <1>2
    <3>. QED BY <3>4, <3>5, <1>1, <1>2, <1>4
  <2>3. RunsOver(run, tokens, S, {}, lo, hi)
    BY <2>1, <2>2 DEF RunsOver
  <2>. QED BY <2>3 DEF run
<1>5. CASE ~(start >= n \/ end >= n)
  <2>. DEFINE J == {j \in 1 .. n : start + 1 <= j /\ j <= end + 1}
              P == {tokens[k].value : k \in J}
  <2>1. start + 1 \in Nat \ {0} /\ end + 1 \in Nat /\ end + 1 <= n
    BY <1>1, <1>2, <1>5
  <2>2. Takes(run, tokens, P)
    <3>1. run = SubSeq(tokens, start + 1, end + 1)
      BY <1>3, <1>5
    <3>2. Takes(SubSeq(tokens, start + 1, end + 1), tokens, StretchOf(tokens, start + 1, end + 1))
      <4>. DEFINE a == start + 1
                  b == end + 1
      <4>1. a \in Nat \ {0} /\ b \in Nat /\ b <= Len(tokens)
        BY <2>1
      <4>. HIDE DEF a, b
      <4>2. Takes(SubSeq(tokens, a, b), tokens, StretchOf(tokens, a, b))
        BY <4>1, StretchTakes
      <4>. QED BY <4>2 DEF a, b
    <3>. QED BY <3>1, <3>2 DEF StretchOf
  <2>3. \A x \in P : x \in S /\ lo <= x
    <3>. SUFFICES ASSUME NEW k \in J PROVE tokens[k].value \in S /\ lo <= tokens[k].value
      OBVIOUS
    <3>1. k \in 1 .. n /\ ~(k <= start) /\ tokens[k].value \in Nat
      BY <1>1, <1>2
    <3>. HIDE DEF J, n
    <3>2. ~(tokens[k].value < lo)
      BY <3>1, <1>2
    <3>. QED BY <3>1, <3>2, <1>1
  <2>4. ASSUME NEW x \in S, lo <= x, x <= hi PROVE x \in P
    <3>1. PICK k \in 1 .. n : tokens[k].value = x
      BY <1>1
    <3>2. x \in Nat /\ k \in Nat
      BY <1>1
    <3>3. ~(k <= start)
      BY <3>1, <3>2, <2>4, <1>2
    <3>4. k <= end + 1
      <4>1. SUFFICES ASSUME end + 1 < k PROVE FALSE
        BY <3>2, <1>2, <1>1
      <4>2. end + 1 \in 1 .. n
        BY <4>1, <1>1, <1>2
      <4>3. tokens[end + 1].value < x /\ tokens[end + 1].value \in Nat
        BY <4>1, <4>2, <3>1, <1>1
      <4>4. tokens[end + 1].value < hi
        BY <4>3, <3>2, <2>4
      <4>5. end + 1 <= end
        BY <4>2, <4>4, <1>2
      <4>. QED BY <4>5, <1>1, <1>2
    <3>5. k \in J
      BY <3>2, <3>3, <3>4, <1>1, <1>2
    <3>. QED BY <3>1, <3>5
  <2>. HIDE DEF P, J
  <2>5. RunsOver(run, tokens, S, P, lo, hi)
    BY <2>2, <2>3, <2>4 DEF RunsOver
  <2>. QED BY <2>5 DEF run
<1>. QED BY <1>4, <1>5

(* The tokens of a table whose values pass a test, and those without the   *)
(* first one.                                                              *)
LEMMA PassingTake ==
  ASSUME NEW P, NEW tokens, Sorted(tokens, P), NEW Q \in SUBSET P
  PROVE  Takes(Selected(tokens, {k \in 1 .. Len(tokens) : tokens[k].value \in Q}), tokens, Q)
<1>. DEFINE I == {k \in 1 .. Len(tokens) : tokens[k].value \in Q}
<1>1. I \in SUBSET (1 .. Len(tokens))
  OBVIOUS
<1>2. \A x \in P : \E k \in 1 .. Len(tokens) : tokens[k].value = x
  BY SortedSays
<1>3. {tokens[k].value : k \in I} = Q
  BY <1>2
<1>. HIDE DEF I
<1>4. Takes(Selected(tokens, I), tokens, {tokens[k].value : k \in I})
  BY <1>1, SelectedTakes
<1>. QED BY <1>3, <1>4 DEF I

(* All but the first of the tokens.                                        *)
LEMMA TailTakes ==
  ASSUME NEW P, NEW tokens, Sorted(tokens, P), tokens # << >>
  PROVE  Takes(Tail(tokens), tokens, P \ {tokens[1].value})
<1>. DEFINE n == Len(tokens)
<1>1. /\ n \in Nat /\ tokens \in Seq(Token)
      /\ \A k \in 1 .. n : tokens[k].value \in Nat /\ tokens[k].value \in P
      /\ \A x \in P : x \in Nat /\ \E k \in 1 .. n : tokens[k].value = x
      /\ \A i, j \in 1 .. n : i < j => tokens[i].value < tokens[j].value
  BY SortedSays DEF Sorted
<1>2. n # 0 /\ 1 \in 1 .. n
  BY <1>1
<1>3. Tail(tokens) = SubSeq(tokens, 2, n)
  BY <1>1, <1>2
<1>4. Takes(SubSeq(tokens, 2, n), tokens, StretchOf(tokens, 2, n))
  <2>. HIDE DEF n
  <2>1. 2 \in Nat \ {0} /\ n <= Len(tokens)
    BY <1>1 DEF n
  <2>. QED BY <1>1, <2>1, StretchTakes
<1>5. StretchOf(tokens, 2, n) = P \ {tokens[1].value}
  <2>. HIDE DEF n
  <2>1. StretchOf(tokens, 2, n) = {tokens[k].value : k \in {j \in 1 .. n : 2 <= j /\ j <= n}}
    BY DEF StretchOf, n
  <2>2. ASSUME NEW k \in 1 .. n, 2 <= k
        PROVE  tokens[k].value \in P /\ tokens[k].value # tokens[1].value
    <3>1. 1 < k
      BY <2>2, <1>1
    <3>2. tokens[1].value < tokens[k].value
      BY <3>1, <1>1, <1>2
    <3>. QED BY <3>2, <1>1, <1>2
  <2>3. ASSUME NEW x \in P, x # tokens[1].value
        PROVE  \E k \in {j \in 1 .. n : 2 <= j /\ j <= n} : tokens[k].value = x
    <3>1. PICK k \in 1 .. n : tokens[k].value = x
      BY <1>1
    <3>2. k # 1
      BY <3>1, <2>3
    <3>. QED BY <3>1, <3>2, <1>1
  <2>. QED BY <2>1, <2>2, <2>3
<1>. QED BY <1>3, <1>4, <1>5

(* What the handler gets of a range.                                       *)
RangeSays(sub, tokens, S, r) ==
  /\ \E P : Takes(sub, tokens, P)
  /\ ~Beyond(r, S) => Takes(sub, tokens, Interval(r, S))

(* The tokens of a range, open or closed at either end.                    *)
LEMMA RangeIs ==
  ASSUME NEW S, NEW tokens, Sorted(tokens, S), tokens # << >>,
         NEW r, IsEntry(r), r.kind = "fieldRange"
  PROVE  RangeSays(RangeTokens(r, tokens), tokens, S, r)
<1>. DEFINE lo == LowOf(r, tokens)
            hi == HighOf(r, tokens)
            run == IterBytes(tokens, lo, hi)
            skips == run # << >> /\ run[1].value = lo /\ r.mode \in {"right", "none"}
            stops(v) == v > hi \/ (v = hi /\ r.mode \in {"left", "none"})
            rest == IF skips THEN Tail(run) ELSE run
            sub == RangeTokens(r, tokens)
<1>1. /\ lo \in Nat /\ hi \in Nat
      /\ Interval(r, S) = {x \in S : Between(x, lo, hi, r.mode)}
  BY IntervalIs
<1>2. sub = Selected(rest, {k \in DOMAIN rest : ~stops(rest[k].value)})
  BY DEF RangeTokens
<1>3. PICK P : RunsOver(run, tokens, S, P, lo, hi)
  BY <1>1, IterBytesIs
<1>4. /\ Takes(run, tokens, P)
      /\ \A x \in P : x \in S /\ lo <= x
      /\ (\E x \in S : hi <= x) => \A x \in S : lo <= x /\ x <= hi => x \in P
  BY <1>3 DEF RunsOver
<1>5. Sorted(run, P)
  BY <1>4 DEF Takes
<1>6. \A x \in S : x \in Nat
  BY SortedSays
<1>. DEFINE Q == {x \in P : r.mode \in {"right", "none"} => x # lo}
            R == {x \in Q : ~stops(x)}
<1>7. Takes(rest, run, Q)
  <2>1. CASE skips
    <3>1. Takes(Tail(run), run, P \ {lo})
      BY <1>5, <2>1, TailTakes
    <3>2. Q = P \ {lo}
      BY <2>1
    <3>. QED BY <2>1, <3>1, <3>2
  <2>2. CASE ~skips
    <3>1. Takes(run, run, P)
      BY <1>5, TakesAll
    <3>2. Q = P
      <4>1. SUFFICES ASSUME r.mode \in {"right", "none"}, lo \in P PROVE FALSE
        OBVIOUS
      <4>2. /\ Len(run) \in Nat /\ run \in Seq(Token)
            /\ \A k \in 1 .. Len(run) : run[k].value \in Nat /\ run[k].value \in P
            /\ \A x \in P : x \in Nat /\ \E k \in 1 .. Len(run) : run[k].value = x
            /\ \A i, j \in 1 .. Len(run) : i < j => run[i].value < run[j].value
        BY <1>5, SortedSays DEF Sorted
      <4>. HIDE DEF run, lo
      <4>3. PICK k \in 1 .. Len(run) : run[k].value = lo
        BY <4>1, <4>2
      <4>4. 1 \in 1 .. Len(run) /\ run # << >>
        BY <4>2
      <4>5. lo <= run[1].value /\ run[1].value \in Nat
        BY <4>2, <4>4, <1>4
      <4>6. ~(1 < k)
        <5>1. SUFFICES ASSUME 1 < k PROVE FALSE
          OBVIOUS
        <5>2. run[1].value < run[k].value
          BY <4>2, <4>3, <4>4, <5>1
        <5>. QED BY <4>3, <4>5, <5>2, <1>1
      <4>7. k = 1
        BY <4>6, <4>2
      <4>. QED BY <4>1, <4>3, <4>4, <4>7, <2>2
    <3>. QED BY <2>2, <3>1, <3>2
  <2>. QED BY <2>1, <2>2
<1>8. Sorted(rest, Q)
  BY <1>7 DEF Takes
<1>9. /\ Len(rest) \in Nat /\ DOMAIN rest = 1 .. Len(rest)
      /\ \A k \in 1 .. Len(rest) : rest[k].value \in Q
  <2>. HIDE DEF rest, Q
  <2>. QED BY <1>8, SortedSays
<1>. HIDE DEF rest, run, lo, hi
<1>10. {k \in DOMAIN rest : ~stops(rest[k].value)}
         = {k \in 1 .. Len(rest) : rest[k].value \in R}
  BY <1>9
<1>11. Takes(sub, rest, R)
  <2>1. R \in SUBSET Q
    OBVIOUS
  <2>. HIDE DEF R, Q, sub, stops
  <2>2. Takes(Selected(rest, {k \in 1 .. Len(rest) : rest[k].value \in R}), rest, R)
    BY <2>1, <1>8, PassingTake
  <2>. QED BY <2>2, <1>2, <1>10
<1>12. Takes(sub, tokens, R)
  <2>. HIDE DEF R, Q, sub, stops
  <2>1. Takes(sub, run, R)
    BY <1>7, <1>11, TakesAgain
  <2>. QED BY <1>4, <2>1, TakesAgain
<1>13. ASSUME ~Beyond(r, S) PROVE R = Interval(r, S)
  <2>1. \E x \in S : hi <= x
    <3>1. CASE r.high = Open
      <4>1. hi = tokens[Len(tokens)].value
        BY <3>1 DEF hi, HighOf
      <4>2. /\ Len(tokens) \in Nat /\ tokens \in Seq(Token)
            /\ \A k \in 1 .. Len(tokens) : tokens[k].value \in S
        BY SortedSays DEF Sorted
      <4>3. Len(tokens) \in 1 .. Len(tokens)
        BY <4>2
      <4>4. hi \in S
        BY <4>1, <4>2, <4>3
      <4>. QED BY <4>4, <1>1
    <3>2. CASE r.high # Open
      <4>1. hi = r.high
        BY <3>2 DEF hi, HighOf
      <4>2. PICK x \in S : ~(x < hi)
        BY <3>2, <4>1, <1>13 DEF Beyond
      <4>. QED BY <4>2, <1>1, <1>6
    <3>. QED BY <3>1, <3>2
  <2>2. \A x \in S : lo <= x /\ x <= hi => x \in P
    BY <1>4, <2>1
  <2>3. ASSUME NEW x PROVE x \in R <=> x \in S /\ Between(x, lo, hi, r.mode)
    <3>1. CASE x \notin S
      BY <3>1, <1>4
    <3>2. CASE x \in S
      <4>1. x \in Nat
        BY <3>2, <1>6
      <4>2. x \in P /\ ~(x > hi) <=> lo <= x /\ x <= hi
        BY <1>1, <1>4, <2>2, <3>2, <4>1
      <4>. QED BY <4>2, <3>2 DEF Between
    <3>. QED BY <3>1, <3>2
  <2>. HIDE DEF R
  <2>. QED BY <2>3, <1>1
<1>. QED BY <1>12, <1>13 DEF RangeSays

(* The values that a keyword means in a field that has the values S.       *)
Fuzziness(e) == IF e.fuzzy < LevenshteinMaxK THEN e.fuzzy ELSE LevenshteinMaxK
NearTo(S, v, k) == {x \in S : k > 0 /\ x - v \in (-k) .. k}
KeywordMeans(e, S) ==
  IF e.value \in S THEN {e.value}
  ELSE Least(NearTo(S, e.value, Fuzziness(e)), LevenshteinM)

(* The first m tokens of a table are those of the least m values.          *)
LEMMA FirstAreLeast ==
  ASSUME NEW P, NEW tokens, Sorted(tokens, P), NEW m \in Nat
  PROVE  Takes(SubSeq(tokens, 1, IF Len(tokens) < m THEN Len(tokens) ELSE m), tokens, Least(P, m))
<1>. DEFINE n == Len(tokens)
            b == IF n < m THEN n ELSE m
            y == ValueSeq(tokens)
<1>1. /\ n \in Nat /\ y \in [1 .. n -> Nat] /\ Climbs(y) /\ Len(y) = n
      /\ \A k \in 1 .. n : /\ tokens[k].value \in Nat /\ tokens[k].value \in P
                           /\ y[k] = tokens[k].value
      /\ \A x \in P : x \in Nat /\ \E k \in 1 .. n : tokens[k].value = x
      /\ \A i, j \in 1 .. n : i < j => tokens[i].value < tokens[j].value
  BY SortedSays
<1>2. b \in Nat /\ b <= n
  BY <1>1
<1>3. Lists(y, P) /\ Numbers(P)
  BY <1>1 DEF Sorted, Numbers
<1>4. IsFiniteSet(P) /\ y = Ascending(P) /\ Cardinality(P) = n
  <2>. HIDE DEF y, n
  <2>1. IsFiniteSet(P) /\ Cardinality(P) = Len(y) /\ y = Ascending(P) /\ y \in Seq(P)
    BY <1>3, ListedOnce
  <2>. QED BY <2>1, <1>1
<1>5. \A k \in 1 .. n : Cardinality({z \in P : z < y[k]}) = k - 1
  <2>. HIDE DEF y, n
  <2>1. \A k \in 1 .. Cardinality(P) : Cardinality({z \in P : z < Ascending(P)[k]}) = k - 1
    BY <1>3, <1>4, AscendingLists
  <2>. QED BY <2>1, <1>4
<1>6. StretchOf(tokens, 1, b) = Least(P, m)
  <2>. HIDE DEF y
  <2>1. ASSUME NEW k \in 1 .. n
        PROVE  tokens[k].value \in Least(P, m) <=> k <= b
    <3>1. tokens[k].value \in Least(P, m) <=> Cardinality({z \in P : z < tokens[k].value}) < m
      BY <1>1 DEF Least
    <3>2. Cardinality({z \in P : z < tokens[k].value}) = k - 1
      BY <1>1, <1>5
    <3>. HIDE DEF n
    <3>. QED BY <3>1, <3>2, <1>1
  <2>2. Least(P, m) \subseteq P
    BY DEF Least
  <2>3. StretchOf(tokens, 1, b) = {tokens[k].value : k \in {j \in 1 .. n : 1 <= j /\ j <= b}}
    BY DEF StretchOf
  <2>4. \A k \in 1 .. n : k \in {j \in 1 .. n : 1 <= j /\ j <= b} <=> k <= b
    BY <1>1
  <2>. HIDE DEF b, n
  <2>5. ASSUME NEW x \in Least(P, m) PROVE x \in StretchOf(tokens, 1, b)
    <3>1. PICK k \in 1 .. n : tokens[k].value = x
      BY <2>2, <1>1
    <3>. QED BY <3>1, <2>1, <2>3, <2>4
  <2>6. ASSUME NEW x \in StretchOf(tokens, 1, b) PROVE x \in Least(P, m)
    BY <2>1, <2>3, <2>4
  <2>. QED BY <2>5, <2>6
<1>7. Takes(SubSeq(tokens, 1, b), tokens, StretchOf(tokens, 1, b))
  <2>. HIDE DEF b
  <2>1. 1 \in Nat \ {0} /\ b <= Len(tokens)
    BY <1>2
  <2>. QED BY <1>2, <2>1, StretchTakes
<1>. QED BY <1>6, <1>7

(* What the handler gets of a keyword, in one field.                       *)
LEMMA KeywordIs ==
  ASSUME NEW S, NEW tokens, Sorted(tokens, S),
         NEW e, IsEntry(e), e.kind \in {"keyword", "fieldKeyword"}
  PROVE  Takes(KeywordTokens(e, tokens), tokens, KeywordMeans(e, S))
<1>. DEFINE v == e.value
            k == Fuzziness(e)
            c == BinarySearch(tokens, v)
            sub == KeywordTokens(e, tokens)
            W == NearTo(S, v, k)
            near == Selected(tokens, {n \in DOMAIN tokens : tokens[n].value - v \in (-k) .. k})
<1>1. v \in Nat /\ e.fuzzy \in Nat
  BY DEF IsEntry
<1>2. k \in Nat /\ LevenshteinM \in Nat
  BY <1>1, QueryAssumption DEF Fuzziness
<1>3. sub = IF Found(tokens, v) THEN <<tokens[c + 1]>> ELSE Near(tokens, v, k)
  BY DEF KeywordTokens, Fuzziness
<1>4. /\ Len(tokens) \in Nat /\ DOMAIN tokens = 1 .. Len(tokens)
      /\ \A n \in 1 .. Len(tokens) : tokens[n].value \in S /\ tokens[n].value \in Nat
  BY SortedSays
<1>. HIDE DEF sub, v, c
<1>5. CASE Found(tokens, v)
  <2>1. /\ v \in S /\ c + 1 \in 1 .. Len(tokens) /\ tokens[c + 1].value = v
    BY <1>1, <1>5, FoundIs DEF c
  <2>. DEFINE at == [n \in 1 .. 1 |-> c + 1]
  <2>2. at \in [1 .. 1 -> 1 .. Len(tokens)] /\ Climbs(at)
    BY <2>1 DEF Climbs
  <2>3. sub = [n \in 1 .. 1 |-> tokens[at[n]]]
    BY <1>3, <1>5, <2>1
  <2>. HIDE DEF at
  <2>4. TakesAt(sub, tokens, 1, at)
    BY ZenonT(60), <2>2, <2>3, PositionsTake, 1 \in Nat
  <2>5. {tokens[at[n]].value : n \in 1 .. 1} = {v}
    BY <2>1 DEF at
  <2>6. KeywordMeans(e, S) = {v}
    BY <2>1 DEF KeywordMeans, v
  <2>. QED BY <2>4, <2>5, <2>6 DEF TakesAt, sub
<1>6. CASE ~Found(tokens, v)
  <2>1. v \notin S
    BY <1>1, <1>6, FoundIs
  <2>2. KeywordMeans(e, S) = Least(W, LevenshteinM)
    BY <2>1 DEF KeywordMeans, v
  <2>3. sub = IF k = 0 THEN << >>
              ELSE SubSeq(near, 1, IF Len(near) < LevenshteinM THEN Len(near) ELSE LevenshteinM)
    BY <1>3, <1>6 DEF Near
  <2>4. CASE k = 0
    <3>1. W = {}
      BY <2>4 DEF NearTo
    <3>2. Least(W, LevenshteinM) = {}
      BY <3>1 DEF Least
    <3>. QED BY <2>2, <2>3, <2>4, <3>2, TakesNone DEF sub
  <2>5. CASE k # 0
    <3>1. {n \in DOMAIN tokens : tokens[n].value - v \in (-k) .. k}
            = {n \in 1 .. Len(tokens) : tokens[n].value \in W}
      BY <2>5, <1>2, <1>4 DEF NearTo
    <3>2. W \in SUBSET S
      BY DEF NearTo
    <3>. HIDE DEF W
    <3>3. Takes(near, tokens, W)
      BY <3>1, <3>2, PassingTake
    <3>. HIDE DEF near
    <3>4. Sorted(near, W)
      BY <3>3 DEF Takes
    <3>5. Takes(SubSeq(near, 1, IF Len(near) < LevenshteinM THEN Len(near) ELSE LevenshteinM),
                near, Least(W, LevenshteinM))
      BY <3>4, <1>2, FirstAreLeast
    <3>6. Takes(sub, near, Least(W, LevenshteinM))
      BY <3>5, <2>3, <2>5
    <3>. QED BY <3>3, <3>6, <2>2, TakesAgain DEF sub
  <2>. QED BY <2>4, <2>5
<1>. QED BY <1>5, <1>6

-----------------------------------------------------------------------------
(***************************************************************************)
(* What an entry finds in a storage.                                       *)
(***************************************************************************)
(* A storage of documents that can be searched.                            *)
Searchable(D, s) == IsCorpus(D) /\ Indexes(s, D) /\ Typed(s)

TokensIn(s, e, f) ==
  IF e.kind = "fieldRange" THEN RangeTokens(e, s.fields[f].tokens)
  ELSE KeywordTokens(e, s.fields[f].tokens)

FieldsIn(s, e) ==
  IF e.kind = "keyword" THEN DOMAIN s.fields ELSE {e.field} \intersect DOMAIN s.fields

PanicsIn(s, e) ==
  e.kind = "fieldRange" /\ e.field \in DOMAIN s.fields /\ s.fields[e.field].tokens = << >>

ListedIn(s, sub) == UNION {s.lists[sub[k].list + 1] : k \in DOMAIN sub}

MeantIn(D, e, f) ==
  IF e.kind = "fieldRange" THEN Interval(e, ValuesOf(D, f)) ELSE KeywordMeans(e, ValuesOf(D, f))

(* The documents that have one of the values P in field f.                 *)
Having(D, f, P) == {d \in 0 .. Len(D) - 1 : \E v \in P : HasToken(D[d + 1], f, v)}

TooHighIn(D, s, e) ==
  /\ e.kind = "fieldRange" /\ e.field \in DOMAIN s.fields
  /\ Beyond(e, ValuesOf(D, e.field))

(* The tokens of a field are those of the documents.                       *)
LEMMA FieldTokens ==
  ASSUME NEW D, NEW s, Searchable(D, s), NEW f \in DOMAIN s.fields
  PROVE  /\ Sorted(s.fields[f].tokens, ValuesOf(D, f))
         /\ \A k \in 1 .. Len(s.fields[f].tokens) :
              LET t == s.fields[f].tokens[k] IN
              /\ t.list + 1 \in DOMAIN s.lists
              /\ s.lists[t.list + 1] = Holders(D, f, t.value)
              /\ t.count = Cardinality(Holders(D, f, t.value))
              /\ Slice(s, t) = EntriesOf(D, f, t.value)
         /\ s.fields[f].lengths = LengthsOf(D, f)
<1>. DEFINE tokens == s.fields[f].tokens
<1>1. IsBatch(D) /\ IndexesField(s, D, f) /\ tokens \in Seq(Token)
  BY DEF Searchable, IsCorpus, Indexes, Typed
<1>2. /\ ValueSeq(tokens) = Ascending(ValuesOf(D, f))
      /\ \A k \in DOMAIN tokens :
           LET t == tokens[k] IN
           /\ t.list + 1 \in DOMAIN s.lists
           /\ s.lists[t.list + 1] = Holders(D, f, t.value)
           /\ t.count = Cardinality(Holders(D, f, t.value))
           /\ Slice(s, t) = EntriesOf(D, f, t.value)
      /\ s.fields[f].lengths = LengthsOf(D, f)
  BY <1>1 DEF IndexesField, ValueSeq
<1>3. Lists(Ascending(ValuesOf(D, f)), ValuesOf(D, f))
  BY <1>1, ValuesListed
<1>4. DOMAIN tokens = 1 .. Len(tokens)
  BY <1>1
<1>. QED BY <1>1, <1>2, <1>3, <1>4 DEF Sorted

(* The holders of a token.                                                 *)
LEMMA HolderSays ==
  ASSUME NEW D, NEW s, Searchable(D, s), NEW f, NEW v
  PROVE  Holders(D, f, v) = {d \in 0 .. Len(D) - 1 : HasToken(D[d + 1], f, v)}
<1>1. Len(D) \in Nat /\ DOMAIN D = 1 .. Len(D)
  BY BatchSets DEF Searchable, IsCorpus
<1>2. \A d \in Holders(D, f, v) : d \in 0 .. Len(D) - 1 /\ HasToken(D[d + 1], f, v)
  <2>. SUFFICES ASSUME NEW k \in 1 .. Len(D), HasToken(D[k], f, v)
                PROVE  k - 1 \in 0 .. Len(D) - 1 /\ HasToken(D[(k - 1) + 1], f, v)
    BY <1>1 DEF Holders
  <2>1. (k - 1) + 1 = k
    BY <1>1
  <2>. QED BY <2>1, <1>1
<1>3. ASSUME NEW d \in 0 .. Len(D) - 1, HasToken(D[d + 1], f, v) PROVE d \in Holders(D, f, v)
  <2>1. d + 1 \in 1 .. Len(D) /\ d = (d + 1) - 1
    BY <1>1
  <2>. QED BY <2>1, <1>3, <1>1 DEF Holders
<1>. QED BY <1>2, <1>3

(* The lists of some tokens are those of the documents that have them.     *)
LEMMA ListedIs ==
  ASSUME NEW D, NEW s, Searchable(D, s), NEW f \in DOMAIN s.fields,
         NEW sub, NEW P, Takes(sub, s.fields[f].tokens, P)
  PROVE  ListedIn(s, sub) = Having(D, f, P)
<1>. DEFINE tokens == s.fields[f].tokens
<1>1. /\ Len(sub) \in Nat /\ DOMAIN sub = 1 .. Len(sub)
      /\ \A k \in 1 .. Len(sub) : sub[k].value \in P
      /\ \A x \in P : \E k \in 1 .. Len(sub) : sub[k].value = x
  BY SortedSays DEF Takes
<1>2. \A k \in 1 .. Len(sub) : s.lists[sub[k].list + 1] = Holders(D, f, sub[k].value)
  <2>. SUFFICES ASSUME NEW k \in 1 .. Len(sub)
                PROVE  s.lists[sub[k].list + 1] = Holders(D, f, sub[k].value)
    OBVIOUS
  <2>1. PICK j \in 1 .. Len(tokens) : sub[k] = tokens[j]
    BY DEF Takes
  <2>2. s.lists[tokens[j].list + 1] = Holders(D, f, tokens[j].value)
    BY FieldTokens
  <2>. QED BY <2>1, <2>2
<1>4. \A v : Holders(D, f, v) = {d \in 0 .. Len(D) - 1 : HasToken(D[d + 1], f, v)}
  BY HolderSays
<1>5. ASSUME NEW d PROVE d \in ListedIn(s, sub) <=> d \in Having(D, f, P)
  <2>1. d \in ListedIn(s, sub) <=> \E k \in 1 .. Len(sub) : d \in Holders(D, f, sub[k].value)
    BY <1>1, <1>2 DEF ListedIn
  <2>2. d \in Having(D, f, P) <=> \E v \in P : d \in Holders(D, f, v)
    BY <1>4 DEF Having
  <2>. QED BY <2>1, <2>2, <1>1
<1>. QED BY <1>5

(* What an entry finds in one field.                                       *)
LEMMA EntryFinds ==
  ASSUME NEW D, NEW s, Searchable(D, s), NEW e, IsEntry(e), ~PanicsIn(s, e),
         NEW f \in FieldsIn(s, e)
  PROVE  /\ f \in DOMAIN s.fields
         /\ \E P : Takes(TokensIn(s, e, f), s.fields[f].tokens, P)
         /\ ~TooHighIn(D, s, e) => Takes(TokensIn(s, e, f), s.fields[f].tokens, MeantIn(D, e, f))
<1>. DEFINE tokens == s.fields[f].tokens
            S == ValuesOf(D, f)
<1>1. f \in DOMAIN s.fields
  BY DEF FieldsIn
<1>2. Sorted(tokens, S)
  BY <1>1, FieldTokens
<1>3. CASE e.kind = "fieldRange"
  <2>1. f = e.field /\ tokens # << >>
    BY <1>1, <1>3 DEF FieldsIn, PanicsIn
  <2>2. RangeSays(RangeTokens(e, tokens), tokens, S, e)
    <3>. HIDE DEF tokens, S
    <3>. QED BY <1>2, <1>3, <2>1, RangeIs
  <2>3. TokensIn(s, e, f) = RangeTokens(e, tokens) /\ MeantIn(D, e, f) = Interval(e, S)
    BY <1>3 DEF TokensIn, MeantIn
  <2>4. TooHighIn(D, s, e) <=> Beyond(e, S)
    BY <1>1, <1>3, <2>1 DEF TooHighIn
  <2>. QED BY <1>1, <2>2, <2>3, <2>4 DEF RangeSays
<1>4. CASE e.kind # "fieldRange"
  <2>1. e.kind \in {"keyword", "fieldKeyword"}
    BY <1>4 DEF IsEntry
  <2>2. Takes(KeywordTokens(e, tokens), tokens, KeywordMeans(e, S))
    <3>. HIDE DEF tokens, S
    <3>. QED BY <1>2, <2>1, KeywordIs
  <2>3. TokensIn(s, e, f) = KeywordTokens(e, tokens) /\ MeantIn(D, e, f) = KeywordMeans(e, S)
    BY <1>4 DEF TokensIn, MeantIn
  <2>. QED BY <1>1, <2>2, <2>3
<1>. QED BY <1>3, <1>4

(* The documents an entry finds in a field, and whether it finds a token.  *)
LEMMA EntryLists ==
  ASSUME NEW D, NEW s, Searchable(D, s), NEW e, IsEntry(e), ~PanicsIn(s, e),
         NEW f \in FieldsIn(s, e)
  PROVE  /\ ListedIn(s, TokensIn(s, e, f)) \subseteq 0 .. Len(D) - 1
         /\ ~TooHighIn(D, s, e) =>
              /\ ListedIn(s, TokensIn(s, e, f)) = Having(D, f, MeantIn(D, e, f))
              /\ TokensIn(s, e, f) = << >> <=> MeantIn(D, e, f) = {}
<1>. DEFINE sub == TokensIn(s, e, f)
<1>1. /\ f \in DOMAIN s.fields
      /\ \E P : Takes(sub, s.fields[f].tokens, P)
      /\ ~TooHighIn(D, s, e) => Takes(sub, s.fields[f].tokens, MeantIn(D, e, f))
  BY EntryFinds
<1>. HIDE DEF sub
<1>2. PICK P : Takes(sub, s.fields[f].tokens, P)
  BY <1>1
<1>3. ListedIn(s, sub) = Having(D, f, P)
  BY <1>1, <1>2, ListedIs
<1>4. Having(D, f, P) \subseteq 0 .. Len(D) - 1
  BY DEF Having
<1>5. ASSUME ~TooHighIn(D, s, e)
      PROVE  /\ ListedIn(s, sub) = Having(D, f, MeantIn(D, e, f))
             /\ sub = << >> <=> MeantIn(D, e, f) = {}
  <2>1. Takes(sub, s.fields[f].tokens, MeantIn(D, e, f))
    BY <1>1, <1>5
  <2>2. Sorted(sub, MeantIn(D, e, f))
    BY <2>1 DEF Takes
  <2>. QED BY <2>1, <2>2, <1>1, ListedIs, SortedEmpty
<1>. QED BY <1>3, <1>4, <1>5 DEF sub

(* A range over a field without tokens means nothing.                      *)
LEMMA PanicMeansNothing ==
  ASSUME NEW D, NEW s, Searchable(D, s), NEW e, PanicsIn(s, e), NEW f \in FieldsIn(s, e)
  PROVE  MeantIn(D, e, f) = {} /\ f = e.field
<1>1. e.kind = "fieldRange" /\ f = e.field /\ f \in DOMAIN s.fields /\ s.fields[f].tokens = << >>
  BY DEF PanicsIn, FieldsIn
<1>2. Sorted(s.fields[f].tokens, ValuesOf(D, f))
  BY <1>1, FieldTokens
<1>3. ValuesOf(D, f) = {}
  BY <1>1, <1>2, SortedEmpty
<1>. QED BY <1>1, <1>3 DEF MeantIn, Interval

-----------------------------------------------------------------------------
(***************************************************************************)
(* The storage a search starts with.                                       *)
(***************************************************************************)
(* The order of the fields: one after the other, as CHOOSE takes them.     *)
Lining(h, S) ==
  h = [s \in SUBSET S |->
         IF s = {} THEN << >>
         ELSE LET x == CHOOSE x \in s : TRUE IN Append(h[s \ {x}], x)]

(* The order is defined, and has each field once.                          *)
LEMMA LiningOrders ==
  ASSUME NEW S, IsFiniteSet(S)
  PROVE  /\ \E h : Lining(h, S)
         /\ \A h : Lining(h, S) => Once(h[S], S)
<1>. DEFINE At(h, s) == IF s = {} THEN << >>
                        ELSE LET x == CHOOSE x \in s : TRUE IN Append(h[s \ {x}], x)
            Upto(m) == \E h : \A s \in SUBSET S : Cardinality(s) <= m => h[s] = At(h, s)
            K == {m \in Nat : Upto(m)}
<1>1. ASSUME NEW s \in SUBSET S
      PROVE  IsFiniteSet(s) /\ Cardinality(s) \in Nat /\ (Cardinality(s) = 0 <=> s = {})
  BY FS_Subset, FS_CardinalityType, FS_EmptySet
<1>2. ASSUME NEW s \in SUBSET S, NEW x \in s
      PROVE  s \ {x} \in SUBSET S /\ Cardinality(s \ {x}) = Cardinality(s) - 1
  <2>1. s \ {x} \in SUBSET S
    OBVIOUS
  <2>2. Cardinality(s \ {x}) = Cardinality(s) - 1
    BY <1>1, FS_RemoveElement
  <2>. QED BY <2>1, <2>2
<1>3. 0 \in K
  <2>. DEFINE g == [s \in SUBSET S |-> << >>]
  <2>1. ASSUME NEW s \in SUBSET S, Cardinality(s) <= 0 PROVE g[s] = At(g, s)
    <3>1. s = {}
      BY <1>1, <2>1
    <3>. QED BY <3>1
  <2>2. Upto(0)
    <3>. HIDE DEF g, At
    <3>. QED BY <2>1
  <2>. HIDE DEF Upto
  <2>. QED BY <2>2
<1>4. ASSUME NEW m \in Nat, m \in K PROVE m + 1 \in K
  <2>1. PICK h : \A s \in SUBSET S : Cardinality(s) <= m => h[s] = At(h, s)
    BY <1>4
  <2>. DEFINE g == [s \in SUBSET S |-> IF Cardinality(s) <= m THEN h[s] ELSE At(h, s)]
  <2>2. ASSUME NEW s \in SUBSET S, Cardinality(s) <= m + 1 PROVE g[s] = At(g, s)
    <3>1. g[s] = At(h, s)
      <4>. HIDE DEF At
      <4>. QED BY <2>1
    <3>2. CASE s = {}
      BY <3>1, <3>2
    <3>3. CASE s # {}
      <4>. DEFINE x == CHOOSE x \in s : TRUE
      <4>1. x \in s
        BY <3>3
      <4>2. At(h, s) = Append(h[s \ {x}], x) /\ At(g, s) = Append(g[s \ {x}], x)
        BY <3>3
      <4>. HIDE DEF x, At
      <4>3. s \ {x} \in SUBSET S /\ Cardinality(s \ {x}) <= m
        BY <1>1, <1>2, <2>2, <4>1
      <4>4. g[s \ {x}] = h[s \ {x}]
        BY <4>3
      <4>. HIDE DEF g
      <4>. QED BY <3>1, <4>2, <4>4
    <3>. QED BY <3>2, <3>3
  <2>3. Upto(m + 1)
    <3>. HIDE DEF g, At
    <3>. QED BY <2>2
  <2>. HIDE DEF Upto
  <2>. QED BY <2>3
<1>. HIDE DEF K
<1>5. \A m \in Nat : m \in K
  BY <1>3, <1>4, NatInductive
<1>6. \E h : Lining(h, S)
  <2>1. Upto(Cardinality(S))
    <3>1. Cardinality(S) \in Nat
      BY FS_CardinalityType
    <3>. HIDE DEF Upto
    <3>. QED BY <3>1, <1>5 DEF K
  <2>2. PICK h : \A s \in SUBSET S : Cardinality(s) <= Cardinality(S) => h[s] = At(h, s)
    BY <2>1
  <2>3. \A s \in SUBSET S : Cardinality(s) <= Cardinality(S)
    BY FS_Subset
  <2>. DEFINE g == [s \in SUBSET S |-> h[s]]
  <2>4. ASSUME NEW s \in SUBSET S PROVE g[s] = At(g, s)
    <3>1. g[s] = At(h, s)
      <4>. HIDE DEF At
      <4>. QED BY <2>2, <2>3
    <3>2. CASE s = {}
      BY <3>1, <3>2
    <3>3. CASE s # {}
      <4>. DEFINE x == CHOOSE x \in s : TRUE
      <4>1. s \ {x} \in SUBSET S
        OBVIOUS
      <4>2. At(h, s) = Append(h[s \ {x}], x) /\ At(g, s) = Append(g[s \ {x}], x)
        BY <3>3
      <4>. HIDE DEF x, At
      <4>4. g[s \ {x}] = h[s \ {x}]
        BY <4>1
      <4>. HIDE DEF g
      <4>. QED BY <3>1, <4>2, <4>4
    <3>. QED BY <3>2, <3>3
  <2>5. g = [s \in SUBSET S |-> g[s]]
    OBVIOUS
  <2>. HIDE DEF g
  <2>6. Lining(g, S)
    BY <2>4, <2>5 DEF Lining
  <2>. QED BY <2>6
<1>7. ASSUME NEW h, Lining(h, S) PROVE Once(h[S], S)
  <2>. DEFINE L == {m \in Nat : \A s \in SUBSET S : Cardinality(s) = m => Once(h[s], s)}
  <2>1. \A s \in SUBSET S : h[s] = At(h, s)
    BY <1>7 DEF Lining
  <2>2. 0 \in L
    <3>. SUFFICES ASSUME NEW s \in SUBSET S, Cardinality(s) = 0 PROVE Once(h[s], s)
      OBVIOUS
    <3>1. s = {}
      BY <1>1
    <3>2. h[s] = << >>
      BY <2>1, <3>1
    <3>. QED BY <3>1, <3>2 DEF Once
  <2>3. ASSUME NEW m \in Nat, m \in L PROVE m + 1 \in L
    <3>. SUFFICES ASSUME NEW s \in SUBSET S, Cardinality(s) = m + 1 PROVE Once(h[s], s)
      OBVIOUS
    <3>1. s # {}
      BY <1>1
    <3>. DEFINE x == CHOOSE x \in s : TRUE
    <3>2. x \in s
      BY <3>1
    <3>3. h[s] = Append(h[s \ {x}], x)
      BY <2>1, <3>1
    <3>. HIDE DEF x
    <3>4. s \ {x} \in SUBSET S /\ Cardinality(s \ {x}) = m
      BY <1>1, <1>2, <3>2
    <3>5. Once(h[s \ {x}], s \ {x})
      BY <2>3, <3>4
    <3>6. x \notin s \ {x} /\ (s \ {x}) \union {x} = s
      BY <3>2
    <3>7. Once(Append(h[s \ {x}], x), (s \ {x}) \union {x})
      BY <3>5, <3>6, OnceMore
    <3>. QED BY <3>3, <3>6, <3>7
  <2>. HIDE DEF L
  <2>4. \A m \in Nat : m \in L
    BY <2>2, <2>3, NatInductive
  <2>5. Cardinality(S) \in Nat
    BY FS_CardinalityType
  <2>. QED BY <2>4, <2>5 DEF L
<1>. QED BY <1>6, <1>7

(* The storage that Init builds can be searched.                           *)
LEMMA InitSearchable ==
  ASSUME NEW D, IsCorpus(D)
  PROVE  Searchable(D, LaidOut(D, FoldSet(LAMBDA f, order : Append(order, f), << >>,
                                          FieldsOf(D))))
<1>. DEFINE S == FieldsOf(D)
            o == FoldSet(LAMBDA f, order : Append(order, f), << >>, S)
            Fold(h) == h = [s \in SUBSET S |->
                              IF s = {} THEN << >>
                              ELSE LET x == CHOOSE x \in s : TRUE IN Append(h[s \ {x}], x)]
            b == CHOOSE h : Fold(h)
<1>1. o = b[S]
  BY DEF FoldSet, MapThenFoldSet
<1>2. IsBatch(D) /\ IsFiniteSet(S)
  BY BatchSets DEF IsCorpus
<1>3. \A h : Fold(h) <=> Lining(h, S)
  <2>. HIDE DEF S
  <2>. QED BY DEF Lining
<1>. HIDE DEF S, Fold
<1>4. Fold(b)
  <2>1. \E h : Lining(h, S)
    BY <1>2, LiningOrders
  <2>. QED BY <2>1, <1>3
<1>. HIDE DEF b
<1>5. Once(b[S], S)
  BY <1>2, <1>3, <1>4, LiningOrders
<1>6. o \in SetToSeqs(S)
  <2>. HIDE DEF o
  <2>. QED BY <1>1, <1>2, <1>5, OnceOrders
<1>. HIDE DEF o
<1>7. LaidOut(D, o) \in LayoutsOf(D)
  BY <1>6 DEF LayoutsOf, S
<1>. DEFINE s == LaidOut(D, o)
<1>. HIDE DEF s
<1>8. Indexes(s, D) /\ Typed(s)
  BY <1>2, <1>7, LaidOutIndexes DEF s
<1>. QED BY <1>8 DEF Searchable, s, o, S
-----------------------------------------------------------------------------
(***************************************************************************)
(* The entries still to be handled.                                        *)
(***************************************************************************)
TurnsIn(s, e, cond) ==
  LET holding == {f \in FieldsIn(s, e) : TokensIn(s, e, f) # << >>} IN
  IF PanicsIn(s, e) \/ (holding = {} /\ cond) THEN {NoField} ELSE holding

PassIn(s, clause, cond) ==
  LET all == [k \in DOMAIN clause |-> [entry |-> clause[k], turns |-> TurnsIn(s, clause[k], cond)]]
  IN  Selected(all, {k \in DOMAIN all : all[k].turns # {}})

AfterIn(td, f) == IF Head(td).turns = {f} THEN Tail(td) ELSE [td EXCEPT ![1].turns = @ \ {f}]

(* The entries of a clause that have a turn, in their order.               *)
PassIs(td, s, clause, cond, n, at) ==
  /\ n \in Nat /\ at \in [1 .. n -> 1 .. Len(clause)] /\ Climbs(at)
  /\ td = [k \in 1 .. n |-> [entry |-> clause[at[k]], turns |-> TurnsIn(s, clause[at[k]], cond)]]
  /\ \A k \in 1 .. n : TurnsIn(s, clause[at[k]], cond) # {}
  /\ \A j \in 1 .. Len(clause) : TurnsIn(s, clause[j], cond) # {} => \E k \in 1 .. n : at[k] = j

(* A pass takes these entries.                                             *)
LEMMA PassTurns ==
  ASSUME NEW s, NEW clause, IsClause(clause), NEW cond
  PROVE  \E n, at : PassIs(PassIn(s, clause, cond), s, clause, cond, n, at)
<1>. DEFINE N == Len(clause)
            all == [k \in 1 .. N |-> [entry |-> clause[k], turns |-> TurnsIn(s, clause[k], cond)]]
            I == {k \in 1 .. N : TurnsIn(s, clause[k], cond) # {}}
            n == Cardinality(I)
            at == Ascending(I)
<1>1. N \in Nat /\ DOMAIN clause = 1 .. N
  BY DEF IsClause
<1>2. PassIn(s, clause, cond) = Selected(all, I)
  <2>1. \A k \in 1 .. N : all[k].turns = TurnsIn(s, clause[k], cond)
    OBVIOUS
  <2>2. {k \in DOMAIN all : all[k].turns # {}} = I
    BY <2>1
  <2>. HIDE DEF I
  <2>. QED BY <1>1, <2>2 DEF PassIn
<1>3. IsFiniteSet(I) /\ Numbers(I) /\ n \in Nat
  <2>1. IsFiniteSet(1 .. N)
    BY <1>1, FS_Interval
  <2>2. IsFiniteSet(I)
    BY <2>1, FS_Subset
  <2>3. Numbers(I)
    BY <1>1 DEF Numbers
  <2>. QED BY <2>2, <2>3, FS_CardinalityType
<1>4. \A k \in I : k \in 1 .. N /\ TurnsIn(s, clause[k], cond) # {}
  OBVIOUS
<1>5. \A k \in 1 .. N : TurnsIn(s, clause[k], cond) # {} => k \in I
  OBVIOUS
<1>6. \A k \in 1 .. N : all[k] = [entry |-> clause[k], turns |-> TurnsIn(s, clause[k], cond)]
  OBVIOUS
<1>. HIDE DEF I, all
<1>7. Lists(at, I) /\ Len(at) = n
  BY <1>3, AscendingLists
<1>8. at \in [1 .. n -> I] /\ Climbs(at) /\ \A x \in I : \E k \in 1 .. n : at[k] = x
  BY <1>7 DEF Lists
<1>9. at \in [1 .. n -> 1 .. N] /\ DOMAIN at = 1 .. n
  BY <1>4, <1>8
<1>10. Selected(all, I) = [k \in 1 .. n |-> all[at[k]]]
  BY <1>9 DEF Selected
<1>. HIDE DEF n, at, N
<1>11. Selected(all, I)
         = [k \in 1 .. n |-> [entry |-> clause[at[k]], turns |-> TurnsIn(s, clause[at[k]], cond)]]
  <2>1. \A k \in 1 .. n : at[k] \in 1 .. N
    BY <1>9
  <2>2. \A k \in 1 .. n :
          all[at[k]] = [entry |-> clause[at[k]], turns |-> TurnsIn(s, clause[at[k]], cond)]
    BY <1>6, <2>1
  <2>. QED BY <1>10, <2>2
<1>12. PassIs(Selected(all, I), s, clause, cond, n, at)
  <2>1. \A k \in 1 .. n : TurnsIn(s, clause[at[k]], cond) # {}
    BY <1>4, <1>8
  <2>2. \A j \in 1 .. N : TurnsIn(s, clause[j], cond) # {} => \E k \in 1 .. n : at[k] = j
    BY <1>5, <1>8
  <2>. QED BY <1>3, <1>8, <1>9, <1>11, <2>1, <2>2 DEF PassIs, N
<1>. QED BY <1>2, <1>12

(* Each waiting entry has a turn, and only turns of its own.               *)
Waiting(s, clause) == [entry : ToSet(clause), turns : SUBSET (DOMAIN s.fields \union {NoField})]
Queue(s, td, clause, cond) ==
  /\ td \in Seq(Waiting(s, clause))
  /\ \A k \in 1 .. Len(td) : td[k].turns # {} /\ td[k].turns \subseteq TurnsIn(s, td[k].entry, cond)

Left(td, e, f) == \E k \in 1 .. Len(td) : td[k].entry = e /\ f \in td[k].turns

(* All turns of a clause wait when a pass starts.                          *)
LEMMA PassQueues ==
  ASSUME NEW s, NEW clause, IsClause(clause), NEW cond
  PROVE  /\ Queue(s, PassIn(s, clause, cond), clause, cond)
         /\ \A e \in ToSet(clause) : \A f \in TurnsIn(s, e, cond) :
              Left(PassIn(s, clause, cond), e, f)
<1>. DEFINE td == PassIn(s, clause, cond)
<1>1. PICK n, at : PassIs(td, s, clause, cond, n, at)
  BY PassTurns
<1>. HIDE DEF td
<1>2. /\ n \in Nat /\ DOMAIN td = 1 .. n
      /\ \A k \in 1 .. n : at[k] \in 1 .. Len(clause)
      /\ td = [k \in 1 .. n |-> [entry |-> clause[at[k]], turns |-> TurnsIn(s, clause[at[k]], cond)]]
  BY <1>1 DEF PassIs
<1>3. /\ Len(clause) \in Nat /\ DOMAIN clause = 1 .. Len(clause)
      /\ ToSet(clause) = {clause[k] : k \in 1 .. Len(clause)}
  BY DEF IsClause, ToSet
<1>4. \A k \in 1 .. n : td[k].entry = clause[at[k]] /\ td[k].turns = TurnsIn(s, clause[at[k]], cond)
  BY <1>2
<1>5. \A e : TurnsIn(s, e, cond) \in SUBSET (DOMAIN s.fields \union {NoField})
  BY DEF TurnsIn, FieldsIn
<1>6. \A k \in 1 .. n : td[k] \in Waiting(s, clause)
  BY <1>2, <1>3, <1>5 DEF Waiting
<1>7. td \in [1 .. n -> Waiting(s, clause)]
  BY <1>2, <1>6
<1>8. td \in Seq(Waiting(s, clause)) /\ Len(td) = n
  BY <1>2, <1>7
<1>9. \A k \in 1 .. n : td[k].turns # {} /\ td[k].turns \subseteq TurnsIn(s, td[k].entry, cond)
  BY <1>1, <1>4 DEF PassIs
<1>10. ASSUME NEW e \in ToSet(clause), NEW f \in TurnsIn(s, e, cond) PROVE Left(td, e, f)
  <2>1. PICK j \in 1 .. Len(clause) : clause[j] = e
    BY <1>3
  <2>2. PICK k \in 1 .. n : at[k] = j
    BY <1>1, <2>1, <1>10 DEF PassIs
  <2>. QED BY <1>4, <1>8, <2>1, <2>2 DEF Left
<1>. QED BY <1>8, <1>9, <1>10 DEF Queue, td

(* A queue with one turn less of its first entry.                          *)
OneLess(td, n, f) ==
  [td EXCEPT ![1].turns = @ \ {f}]
    = [k \in 1 .. n |->
         IF k = 1 THEN [entry |-> td[1].entry, turns |-> td[1].turns \ {f}] ELSE td[k]]

(* It is the same but for its first entry.                                 *)
LEMMA OneTurnLess ==
  ASSUME NEW n \in Nat, n >= 1, NEW td, DOMAIN td = 1 .. n,
         td[1] = [entry |-> td[1].entry, turns |-> td[1].turns], NEW f
  PROVE  OneLess(td, n, f)
<1>. DEFINE h == td[1]
            v == [entry |-> h.entry, turns |-> h.turns \ {f}]
<1>1. [h EXCEPT !.turns = @ \ {f}] = v
  <2>1. \A a, b, c : [[entry |-> a, turns |-> b] EXCEPT !.turns = c] = [entry |-> a, turns |-> c]
    <3>. TAKE a, b, c
    <3>1. /\ DOMAIN [entry |-> a, turns |-> b] = {"entry", "turns"}
          /\ DOMAIN [[entry |-> a, turns |-> b] EXCEPT !.turns = c] = {"entry", "turns"}
          /\ DOMAIN [entry |-> a, turns |-> c] = {"entry", "turns"}
      OBVIOUS
    <3>2. /\ [[entry |-> a, turns |-> b] EXCEPT !.turns = c].turns = c
          /\ [[entry |-> a, turns |-> b] EXCEPT !.turns = c].entry = a
      OBVIOUS
    <3>. QED BY <3>1, <3>2
  <2>2. [h EXCEPT !.turns = h.turns \ {f}] = v
    <3>. HIDE DEF h
    <3>1. [[entry |-> h.entry, turns |-> h.turns] EXCEPT !.turns = h.turns \ {f}] = v
      BY <2>1
    <3>2. h = [entry |-> h.entry, turns |-> h.turns]
      BY DEF h
    <3>. QED BY <3>1, <3>2
  <2>. QED BY <2>2
<1>2. [td EXCEPT ![1].turns = @ \ {f}] = [td EXCEPT ![1] = [h EXCEPT !.turns = @ \ {f}]]
  OBVIOUS
<1>3. [td EXCEPT ![1] = v] = [k \in 1 .. n |-> IF k = 1 THEN v ELSE td[k]]
  OBVIOUS
<1>4. [td EXCEPT ![1].turns = @ \ {f}] = [k \in 1 .. n |-> IF k = 1 THEN v ELSE td[k]]
  <2>. HIDE DEF v, h
  <2>. QED BY <1>1, <1>2, <1>3
<1>. QED BY <1>4 DEF OneLess

(* The first one has a turn; after it the others still wait.               *)
LEMMA AfterQueues ==
  ASSUME NEW s, NEW td, NEW clause, NEW cond, Queue(s, td, clause, cond), td # << >>,
         NEW f \in Head(td).turns
  PROVE  /\ Queue(s, AfterIn(td, f), clause, cond)
         /\ Head(td).entry \in ToSet(clause)
         /\ f \in TurnsIn(s, Head(td).entry, cond)
         /\ f \in DOMAIN s.fields \union {NoField}
         /\ \A e, g : Left(td, e, g) /\ ~(e = Head(td).entry /\ g = f) => Left(AfterIn(td, f), e, g)
<1>. DEFINE n == Len(td)
            w == Waiting(s, clause)
            h == td[1]
<1>1. n \in Nat /\ n >= 1 /\ td \in [1 .. n -> w] /\ DOMAIN td = 1 .. n /\ Head(td) = h /\ td \in Seq(w)
  BY DEF Queue
<1>2. \A k \in 1 .. n : td[k].turns # {} /\ td[k].turns \subseteq TurnsIn(s, td[k].entry, cond)
  BY DEF Queue
<1>3. 1 \in 1 .. n
  BY <1>1
<1>. HIDE DEF w
<1>4. \A k \in 1 .. n : td[k] \in w
  BY <1>1
<1>5. /\ h.entry \in ToSet(clause) /\ h.turns \in SUBSET (DOMAIN s.fields \union {NoField})
      /\ h = [entry |-> h.entry, turns |-> h.turns]
  BY <1>3, <1>4 DEF w, Waiting
<1>6. CASE Head(td).turns = {f}
  <2>. DEFINE u == Tail(td)
  <2>1. u \in Seq(w) /\ Len(u) = n - 1 /\ \A k \in 1 .. n - 1 : u[k] = td[k + 1]
    BY <1>1
  <2>2. AfterIn(td, f) = u
    BY <1>6 DEF AfterIn
  <2>. HIDE DEF u
  <2>3. \A k \in 1 .. n - 1 : k + 1 \in 1 .. n
    BY <1>1
  <2>4. Queue(s, u, clause, cond)
    BY <1>2, <2>1, <2>3 DEF Queue, w
  <2>5. ASSUME NEW e, NEW g, Left(td, e, g), ~(e = h.entry /\ g = f) PROVE Left(u, e, g)
    <3>1. PICK k \in 1 .. n : td[k].entry = e /\ g \in td[k].turns
      BY <2>5 DEF Left
    <3>2. k # 1
      BY <1>1, <1>6, <2>5, <3>1
    <3>. DEFINE j == k - 1
    <3>3. j \in 1 .. n - 1 /\ j + 1 = k
      BY <1>1, <3>2
    <3>. HIDE DEF j
    <3>. QED BY <2>1, <3>1, <3>3 DEF Left
  <2>. QED BY <1>1, <1>2, <1>3, <1>5, <2>2, <2>4, <2>5
<1>7. CASE Head(td).turns # {f}
  <2>. DEFINE v == [entry |-> h.entry, turns |-> h.turns \ {f}]
              u == [k \in 1 .. n |-> IF k = 1 THEN v ELSE td[k]]
  <2>1. AfterIn(td, f) = u
    <3>1. AfterIn(td, f) = [td EXCEPT ![1].turns = @ \ {f}]
      BY <1>7 DEF AfterIn
    <3>2. OneLess(td, n, f)
      <4>. HIDE DEF n
      <4>. QED BY <1>1, <1>5, OneTurnLess
    <3>3. [td EXCEPT ![1].turns = @ \ {f}] = u
      BY <3>2 DEF OneLess
    <3>. QED BY <3>1, <3>3
  <2>2. v \in w /\ v.entry = h.entry /\ v.turns = h.turns \ {f}
    BY <1>5 DEF w, Waiting
  <2>3. /\ u[1] = v
        /\ \A k \in 1 .. n : k # 1 => u[k] = td[k]
        /\ u = [k \in 1 .. n |-> u[k]]
    BY <1>3
  <2>. HIDE DEF u, v
  <2>4. \A k \in 1 .. n : u[k] \in w
    BY <1>4, <2>2, <2>3
  <2>5. u \in [1 .. n -> w]
    BY <2>3, <2>4
  <2>6. u \in Seq(w) /\ Len(u) = n
    BY <1>1, <2>5
  <2>7. Queue(s, u, clause, cond)
    <3>1. v.turns # {} /\ v.turns \subseteq TurnsIn(s, v.entry, cond)
      BY <1>1, <1>2, <1>3, <1>7, <2>2
    <3>2. ASSUME NEW k \in 1 .. n
          PROVE  u[k].turns # {} /\ u[k].turns \subseteq TurnsIn(s, u[k].entry, cond)
      <4>1. CASE k = 1
        BY <2>3, <3>1, <4>1
      <4>2. CASE k # 1
        BY <2>3, <1>2, <4>2
      <4>. QED BY <4>1, <4>2
    <3>. QED BY <2>6, <3>2 DEF Queue, w
  <2>8. ASSUME NEW e, NEW g, Left(td, e, g), ~(e = h.entry /\ g = f) PROVE Left(u, e, g)
    <3>1. PICK k \in 1 .. n : td[k].entry = e /\ g \in td[k].turns
      BY <2>8 DEF Left
    <3>2. CASE k = 1
      <4>1. u[k].entry = e /\ g \in u[k].turns
        BY <2>2, <2>3, <2>8, <3>1, <3>2
      <4>. QED BY <2>6, <4>1 DEF Left
    <3>3. CASE k # 1
      <4>1. u[k].entry = e /\ g \in u[k].turns
        BY <2>3, <3>1, <3>3
      <4>. QED BY <2>6, <4>1 DEF Left
    <3>. QED BY <3>2, <3>3
  <2>. QED BY <1>1, <1>2, <1>3, <1>5, <2>1, <2>7, <2>8
<1>. QED BY <1>6, <1>7
-----------------------------------------------------------------------------
(***************************************************************************)
(* FilterDocuments: what the passes leave.                                 *)
(***************************************************************************)
(* Entry e tells something in field f.                                     *)
Tells(s, e, f) == ~PanicsIn(s, e) /\ f \in FieldsIn(s, e) /\ TokensIn(s, e, f) # << >>

(* The turns of an entry are the fields it tells something in.             *)
LEMMA TurnsTell ==
  ASSUME NEW D, NEW s, Searchable(D, s), NEW e, NEW cond \in BOOLEAN
  PROVE  /\ NoField \notin FieldsIn(s, e)
         /\ \A f : Tells(s, e, f) => f \in TurnsIn(s, e, cond)
         /\ ~PanicsIn(s, e) =>
              \A f \in TurnsIn(s, e, cond) :
                IF f = NoField THEN cond /\ \A g \in FieldsIn(s, e) : TokensIn(s, e, g) = << >>
                ELSE Tells(s, e, f)
         /\ cond => TurnsIn(s, e, cond) # {}
<1>1. NoField \notin DOMAIN s.fields
  BY DEF Searchable, IsCorpus, Indexes
<1>2. NoField \notin FieldsIn(s, e)
  BY <1>1 DEF FieldsIn
<1>3. \A f : Tells(s, e, f) => f \in TurnsIn(s, e, cond)
  BY DEF Tells, TurnsIn
<1>4. cond => TurnsIn(s, e, cond) # {}
  BY DEF TurnsIn
<1>5. ASSUME ~PanicsIn(s, e), NEW f \in TurnsIn(s, e, cond)
      PROVE  IF f = NoField THEN cond /\ \A g \in FieldsIn(s, e) : TokensIn(s, e, g) = << >>
             ELSE Tells(s, e, f)
  <2>. DEFINE holding == {g \in FieldsIn(s, e) : TokensIn(s, e, g) # << >>}
  <2>1. CASE holding = {} /\ cond
    <3>1. TurnsIn(s, e, cond) = {NoField}
      BY <2>1 DEF TurnsIn
    <3>2. f = NoField
      BY <1>5, <3>1
    <3>. QED BY <2>1, <3>2
  <2>2. CASE ~(holding = {} /\ cond)
    <3>1. TurnsIn(s, e, cond) = holding
      BY <1>5, <2>2 DEF TurnsIn
    <3>2. f \in FieldsIn(s, e) /\ TokensIn(s, e, f) # << >>
      BY <1>5, <3>1
    <3>. QED BY <1>2, <1>5, <3>2 DEF Tells
  <2>. QED BY <2>1, <2>2
<1>. QED BY <1>2, <1>3, <1>4, <1>5

(* A document meets an entry in some field.                                *)
MeetsOf(D, s, d, e) ==
  \E f \in FieldsIn(s, e) : \E v \in MeantIn(D, e, f) : HasToken(D[d + 1], f, v)

(* It is on the list of that field.                                        *)
LEMMA MeetsIs ==
  ASSUME NEW D, NEW s, Searchable(D, s), NEW e, IsEntry(e), ~TooHighIn(D, s, e)
  PROVE  /\ \A d \in 0 .. Len(D) - 1 :
              MeetsOf(D, s, d, e) <=>
                \E f \in FieldsIn(s, e) : Tells(s, e, f) /\ d \in ListedIn(s, TokensIn(s, e, f))
         /\ \A f : Tells(s, e, f) =>
              /\ ListedIn(s, TokensIn(s, e, f)) = Having(D, f, MeantIn(D, e, f))
              /\ MeantIn(D, e, f) # {}
<1>1. ASSUME NEW f, Tells(s, e, f)
      PROVE  /\ ListedIn(s, TokensIn(s, e, f)) = Having(D, f, MeantIn(D, e, f))
             /\ MeantIn(D, e, f) # {}
  <2>1. ~PanicsIn(s, e) /\ f \in FieldsIn(s, e) /\ TokensIn(s, e, f) # << >>
    BY <1>1 DEF Tells
  <2>2. /\ ListedIn(s, TokensIn(s, e, f)) = Having(D, f, MeantIn(D, e, f))
        /\ TokensIn(s, e, f) = << >> <=> MeantIn(D, e, f) = {}
    BY <2>1, EntryLists
  <2>. QED BY <2>1, <2>2
<1>2. ASSUME NEW f \in FieldsIn(s, e), MeantIn(D, e, f) # {} PROVE Tells(s, e, f)
  <2>1. ~PanicsIn(s, e)
    BY <1>2, PanicMeansNothing
  <2>2. TokensIn(s, e, f) = << >> <=> MeantIn(D, e, f) = {}
    BY <2>1, EntryLists
  <2>. QED BY <1>2, <2>1, <2>2 DEF Tells
<1>3. ASSUME NEW d \in 0 .. Len(D) - 1
      PROVE  MeetsOf(D, s, d, e) <=>
               \E f \in FieldsIn(s, e) : Tells(s, e, f) /\ d \in ListedIn(s, TokensIn(s, e, f))
  <2>1. ASSUME NEW f \in FieldsIn(s, e), Tells(s, e, f), d \in ListedIn(s, TokensIn(s, e, f))
        PROVE  \E v \in MeantIn(D, e, f) : HasToken(D[d + 1], f, v)
    BY <1>1, <2>1 DEF Having
  <2>2. ASSUME NEW f \in FieldsIn(s, e), NEW v \in MeantIn(D, e, f), HasToken(D[d + 1], f, v)
        PROVE  Tells(s, e, f) /\ d \in ListedIn(s, TokensIn(s, e, f))
    <3>1. Tells(s, e, f)
      BY <1>2
    <3>2. ListedIn(s, TokensIn(s, e, f)) = Having(D, f, MeantIn(D, e, f))
      BY <1>1, <3>1
    <3>. QED BY <2>2, <3>1, <3>2 DEF Having
  <2>. QED BY <2>1, <2>2 DEF MeetsOf
<1>. QED BY <1>1, <1>3

(* While the Musts are handled: each turn is left or its list is there, and*)
(* nothing else is; or a Must without tokens ended the pass.               *)
ListOf(s, e, f) == ListedIn(s, TokensIn(s, e, f))

MustsInv(s, clause, td, bs) ==
  /\ Queue(s, td, clause, TRUE)
  /\ \/ /\ bs = {} /\ td = << >>
        /\ \E e \in ToSet(clause) : ~PanicsIn(s, e) /\ \A f \in FieldsIn(s, e) : TokensIn(s, e, f) = << >>
     \/ /\ \A e \in ToSet(clause) : \A f \in TurnsIn(s, e, TRUE) :
             Left(td, e, f) \/ (Tells(s, e, f) /\ ListOf(s, e, f) \in bs)
        /\ \A x \in bs : \E e \in ToSet(clause) : \E f : Tells(s, e, f) /\ x = ListOf(s, e, f)

(* A turn of a Must.                                                       *)
LEMMA MustStep ==
  ASSUME NEW D, NEW s, Searchable(D, s), NEW clause, NEW td, NEW bs, MustsInv(s, clause, td, bs),
         td # << >>, NEW f \in Head(td).turns, ~PanicsIn(s, Head(td).entry),
         NEW sub, sub = IF f = NoField THEN << >> ELSE TokensIn(s, Head(td).entry, f)
  PROVE  IF sub = << >> THEN MustsInv(s, clause, << >>, {})
         ELSE MustsInv(s, clause, AfterIn(td, f), bs \union {ListedIn(s, sub)})
<1>. DEFINE h == Head(td).entry
            u == AfterIn(td, f)
<1>1. /\ Queue(s, u, clause, TRUE)
      /\ h \in ToSet(clause)
      /\ f \in TurnsIn(s, h, TRUE)
      /\ \A e, g : Left(td, e, g) /\ ~(e = h /\ g = f) => Left(u, e, g)
  BY AfterQueues DEF MustsInv
<1>2. /\ \A e \in ToSet(clause) : \A g \in TurnsIn(s, e, TRUE) :
           Left(td, e, g) \/ (Tells(s, e, g) /\ ListOf(s, e, g) \in bs)
      /\ \A x \in bs : \E e \in ToSet(clause) : \E g : Tells(s, e, g) /\ x = ListOf(s, e, g)
  BY DEF MustsInv
<1>3. IF f = NoField THEN \A g \in FieldsIn(s, h) : TokensIn(s, h, g) = << >> ELSE Tells(s, h, f)
  <2>. HIDE DEF h
  <2>. QED BY <1>1, TurnsTell DEF h
<1>. HIDE DEF u
<1>4. CASE sub = << >>
  <2>1. f = NoField
    BY <1>3, <1>4 DEF Tells
  <2>2. Queue(s, << >>, clause, TRUE)
    BY DEF Queue
  <2>. QED BY <1>1, <1>3, <1>4, <2>1, <2>2 DEF MustsInv
<1>5. CASE sub # << >>
  <2>1. Tells(s, h, f) /\ ListedIn(s, sub) = ListOf(s, h, f)
    BY <1>3, <1>5 DEF ListOf
  <2>. DEFINE c == bs \union {ListOf(s, h, f)}
  <2>2. ASSUME NEW e \in ToSet(clause), NEW g \in TurnsIn(s, e, TRUE)
        PROVE  Left(u, e, g) \/ (Tells(s, e, g) /\ ListOf(s, e, g) \in c)
    BY <1>1, <1>2, <2>1
  <2>3. \A x \in c : \E e \in ToSet(clause) : \E g : Tells(s, e, g) /\ x = ListOf(s, e, g)
    BY <1>1, <1>2, <2>1
  <2>. HIDE DEF c
  <2>4. MustsInv(s, clause, u, c)
    BY <1>1, <2>2, <2>3 DEF MustsInv
  <2>. QED BY <1>5, <2>1, <2>4 DEF u, c
<1>. QED BY <1>4, <1>5

(* The documents that the Musts leave: no other than those that meet all,  *)
(* and all of them when no bare one is found in several fields.            *)
TooHighSome(D, s, clause) == \E e \in ToSet(clause) : TooHighIn(D, s, e)
ScatteredIn(D, s, clause) ==
  \E e \in ToSet(clause) :
    e.kind = "keyword" /\ Cardinality({f \in FieldsIn(s, e) : MeantIn(D, e, f) # {}}) > 1

MeetingAll(D, s, clause) == {d \in 0 .. Len(D) - 1 : \A e \in ToSet(clause) : MeetsOf(D, s, d, e)}
MeetingSome(D, s, clause) == {d \in 0 .. Len(D) - 1 : \E e \in ToSet(clause) : MeetsOf(D, s, d, e)}

Common(bs) == IF bs = {} THEN {} ELSE {d \in UNION bs : \A x \in bs : d \in x}

(* Outside of several fields, an entry tells something in one only.        *)
LEMMA TellsOnce ==
  ASSUME NEW D, NEW s, Searchable(D, s), NEW clause, NEW e \in ToSet(clause), IsEntry(e),
         ~TooHighIn(D, s, e), ~ScatteredIn(D, s, clause),
         NEW f, Tells(s, e, f), NEW g, Tells(s, e, g)
  PROVE  f = g
<1>1. f \in FieldsIn(s, e) /\ g \in FieldsIn(s, e)
  BY DEF Tells
<1>2. MeantIn(D, e, f) # {} /\ MeantIn(D, e, g) # {}
  BY MeetsIs
<1>3. CASE e.kind # "keyword"
  BY <1>1, <1>3 DEF FieldsIn
<1>4. CASE e.kind = "keyword"
  <2>. DEFINE T == {h \in FieldsIn(s, e) : MeantIn(D, e, h) # {}}
  <2>1. f \in T /\ g \in T
    BY <1>1, <1>2
  <2>2. IsFiniteSet(T)
    <3>1. IsFiniteSet(FieldsOf(D))
      BY BatchSets DEF Searchable, IsCorpus
    <3>2. T \subseteq FieldsOf(D)
      BY DEF FieldsIn, Searchable, Indexes
    <3>. QED BY <3>1, <3>2, FS_Subset
  <2>3. ~(Cardinality(T) > 1)
    BY <1>4 DEF ScatteredIn
  <2>. HIDE DEF T
  <2>4. ASSUME f # g PROVE FALSE
    <3>1. {f, g} \subseteq T
      BY <2>1
    <3>2. IsFiniteSet({f, g}) /\ Cardinality({f, g}) = 2
      <4>1. IsFiniteSet({f}) /\ Cardinality({f}) = 1
        BY FS_Singleton
      <4>2. IsFiniteSet({f} \union {g}) /\ Cardinality({f} \union {g}) = Cardinality({f}) + 1
        BY <2>4, <4>1, FS_AddElement
      <4>3. {f} \union {g} = {f, g}
        OBVIOUS
      <4>. QED BY <4>1, <4>2, <4>3
    <3>3. Cardinality({f, g}) <= Cardinality(T) /\ Cardinality(T) \in Nat
      BY <2>2, <3>1, FS_Subset, FS_CardinalityType
    <3>. QED BY <2>3, <3>2, <3>3
  <2>. QED BY <2>4
<1>. QED BY <1>3, <1>4
(* The Musts are through.                                                  *)
LEMMA MustEnd ==
  ASSUME NEW D, NEW s, Searchable(D, s), NEW clause, IsClause(clause), clause # << >>,
         NEW bs, MustsInv(s, clause, << >>, bs)
  PROVE  /\ Common(bs) \subseteq 0 .. Len(D) - 1
         /\ ~TooHighSome(D, s, clause) =>
              /\ Common(bs) \subseteq MeetingAll(D, s, clause)
              /\ ~ScatteredIn(D, s, clause) => Common(bs) = MeetingAll(D, s, clause)
<1>. DEFINE E == ToSet(clause)
            I == 0 .. Len(D) - 1
<1>1. E # {} /\ \A e \in E : IsEntry(e)
  <2>1. clause \in Seq(E) /\ \A e \in E : IsEntry(e)
    BY DEF IsClause
  <2>. HIDE DEF E
  <2>2. 1 \in DOMAIN clause /\ clause[1] \in E
    BY <2>1
  <2>. QED BY <2>1, <2>2
<1>2. \A e, f : ~Left(<< >>, e, f)
  BY DEF Left
<1>3. ASSUME NEW e \in E, NEW f, Tells(s, e, f) PROVE ListOf(s, e, f) \subseteq I
  <2>1. IsEntry(e) /\ ~PanicsIn(s, e) /\ f \in FieldsIn(s, e)
    BY <1>1, <1>3 DEF Tells
  <2>. QED BY <2>1, EntryLists DEF ListOf
<1>4. CASE \E e \in E : ~PanicsIn(s, e) /\ (\A f \in FieldsIn(s, e) : TokensIn(s, e, f) = << >>)
           /\ bs = {}
  <2>1. PICK e \in E : ~PanicsIn(s, e) /\ (\A f \in FieldsIn(s, e) : TokensIn(s, e, f) = << >>)
                       /\ bs = {}
    BY <1>4
  <2>2. Common(bs) = {}
    BY <2>1 DEF Common
  <2>3. ASSUME ~TooHighSome(D, s, clause), NEW d \in MeetingAll(D, s, clause) PROVE FALSE
    <3>1. IsEntry(e) /\ ~TooHighIn(D, s, e) /\ d \in I /\ MeetsOf(D, s, d, e)
      BY <1>1, <2>3 DEF TooHighSome, MeetingAll
    <3>2. PICK f \in FieldsIn(s, e) : Tells(s, e, f)
      BY <3>1, MeetsIs
    <3>. QED BY <2>1, <3>2 DEF Tells
  <2>. QED BY <2>2, <2>3
<1>5. CASE /\ \A e \in E : \A f \in TurnsIn(s, e, TRUE) : Tells(s, e, f) /\ ListOf(s, e, f) \in bs
           /\ \A x \in bs : \E e \in E : \E f : Tells(s, e, f) /\ x = ListOf(s, e, f)
  <2>1. \A e \in E : \E f : Tells(s, e, f) /\ ListOf(s, e, f) \in bs
    <3>1. \A e \in E : TurnsIn(s, e, TRUE) # {}
      BY TurnsTell
    <3>. QED BY <1>5, <3>1
  <2>2. bs # {}
    BY <1>1, <2>1
  <2>3. Common(bs) = {d \in UNION bs : \A x \in bs : d \in x}
    BY <2>2 DEF Common
  <2>4. Common(bs) \subseteq I
    BY <1>3, <1>5, <2>3
  <2>5. ASSUME ~TooHighSome(D, s, clause) PROVE Common(bs) \subseteq MeetingAll(D, s, clause)
    <3>. SUFFICES ASSUME NEW d \in Common(bs), NEW e \in E PROVE d \in I /\ MeetsOf(D, s, d, e)
      BY <1>1 DEF MeetingAll
    <3>1. PICK f : Tells(s, e, f) /\ ListOf(s, e, f) \in bs
      BY <2>1
    <3>2. d \in ListedIn(s, TokensIn(s, e, f)) /\ f \in FieldsIn(s, e) /\ d \in I
      BY <2>3, <2>4, <3>1 DEF ListOf, Tells
    <3>3. IsEntry(e) /\ ~TooHighIn(D, s, e)
      BY <1>1, <2>5 DEF TooHighSome
    <3>. QED BY <3>1, <3>2, <3>3, MeetsIs
  <2>6. ASSUME ~TooHighSome(D, s, clause), ~ScatteredIn(D, s, clause)
        PROVE  MeetingAll(D, s, clause) \subseteq Common(bs)
    <3>. SUFFICES ASSUME NEW d \in MeetingAll(D, s, clause), NEW x \in bs PROVE d \in x
      BY <2>2, <2>3
    <3>0. PICK e \in E : \E f : Tells(s, e, f) /\ x = ListOf(s, e, f)
      BY <1>5
    <3>1. PICK f : Tells(s, e, f) /\ x = ListOf(s, e, f)
      BY <3>0
    <3>2. IsEntry(e) /\ ~TooHighIn(D, s, e)
      BY <1>1, <2>6 DEF TooHighSome
    <3>3. d \in I /\ MeetsOf(D, s, d, e)
      BY DEF MeetingAll
    <3>4. PICK g \in FieldsIn(s, e) : Tells(s, e, g) /\ d \in ListedIn(s, TokensIn(s, e, g))
      BY <3>2, <3>3, MeetsIs
    <3>5. f = g
      BY <2>6, <3>1, <3>2, <3>4, TellsOnce
    <3>. QED BY <3>1, <3>4, <3>5 DEF ListOf
  <2>. QED BY <2>4, <2>5, <2>6
<1>6. \/ \E e \in E : ~PanicsIn(s, e) /\ (\A f \in FieldsIn(s, e) : TokensIn(s, e, f) = << >>)
           /\ bs = {}
      \/ /\ \A e \in E : \A f \in TurnsIn(s, e, TRUE) : Tells(s, e, f) /\ ListOf(s, e, f) \in bs
         /\ \A x \in bs : \E e \in E : \E f : Tells(s, e, f) /\ x = ListOf(s, e, f)
  BY <1>2 DEF MustsInv
<1>. QED BY <1>4, <1>5, <1>6

(* While the Shoulds are handled: each turn is left or its documents are   *)
(* there, and no others are.                                               *)
ShouldsInv(s, clause, td, b) ==
  /\ Queue(s, td, clause, FALSE)
  /\ \A e \in ToSet(clause) : \A f : Tells(s, e, f) => Left(td, e, f) \/ ListOf(s, e, f) \subseteq b
  /\ \A d \in b : \E e \in ToSet(clause) : \E f : Tells(s, e, f) /\ d \in ListOf(s, e, f)

(* A turn of a Should.                                                     *)
LEMMA ShouldStep ==
  ASSUME NEW D, NEW s, Searchable(D, s), NEW clause, NEW td, NEW b, ShouldsInv(s, clause, td, b),
         td # << >>, NEW f \in Head(td).turns, ~PanicsIn(s, Head(td).entry),
         NEW sub, sub = IF f = NoField THEN << >> ELSE TokensIn(s, Head(td).entry, f)
  PROVE  ShouldsInv(s, clause, AfterIn(td, f), b \union ListedIn(s, sub))
<1>. DEFINE h == Head(td).entry
            u == AfterIn(td, f)
<1>1. /\ Queue(s, u, clause, FALSE)
      /\ h \in ToSet(clause)
      /\ f \in TurnsIn(s, h, FALSE)
      /\ \A e, g : Left(td, e, g) /\ ~(e = h /\ g = f) => Left(u, e, g)
  BY AfterQueues DEF ShouldsInv
<1>2. f # NoField /\ Tells(s, h, f)
  <2>. HIDE DEF h
  <2>. QED BY <1>1, TurnsTell DEF h
<1>3. ListedIn(s, sub) = ListOf(s, h, f)
  BY <1>2 DEF ListOf
<1>. HIDE DEF u, h
<1>4. /\ \A e \in ToSet(clause) : \A g : Tells(s, e, g) => Left(td, e, g) \/ ListOf(s, e, g) \subseteq b
      /\ \A d \in b : \E e \in ToSet(clause) : \E g : Tells(s, e, g) /\ d \in ListOf(s, e, g)
  BY DEF ShouldsInv
<1>. DEFINE c == b \union ListOf(s, h, f)
<1>5. ASSUME NEW e \in ToSet(clause), NEW g, Tells(s, e, g)
      PROVE  Left(u, e, g) \/ ListOf(s, e, g) \subseteq c
  BY <1>1, <1>4, <1>5
<1>6. \A d \in c : \E e \in ToSet(clause) : \E g : Tells(s, e, g) /\ d \in ListOf(s, e, g)
  BY <1>1, <1>2, <1>4
<1>. HIDE DEF c
<1>7. ShouldsInv(s, clause, u, c)
  BY <1>1, <1>5, <1>6 DEF ShouldsInv
<1>. QED BY <1>3, <1>7 DEF u, c

(* The Shoulds are through.                                                *)
LEMMA ShouldEnd ==
  ASSUME NEW D, NEW s, Searchable(D, s), NEW clause, IsClause(clause),
         NEW b, ShouldsInv(s, clause, << >>, b)
  PROVE  ~TooHighSome(D, s, clause) => b = MeetingSome(D, s, clause)
<1>. SUFFICES ASSUME ~TooHighSome(D, s, clause) PROVE b = MeetingSome(D, s, clause)
  OBVIOUS
<1>. DEFINE E == ToSet(clause)
            I == 0 .. Len(D) - 1
<1>1. \A e \in E : IsEntry(e) /\ ~TooHighIn(D, s, e)
  BY DEF IsClause, TooHighSome
<1>2. \A e, f : ~Left(<< >>, e, f)
  BY DEF Left
<1>3. /\ \A e \in E : \A f : Tells(s, e, f) => ListOf(s, e, f) \subseteq b
      /\ \A d \in b : \E e \in E : \E f : Tells(s, e, f) /\ d \in ListOf(s, e, f)
  BY <1>2 DEF ShouldsInv
<1>4. ASSUME NEW d \in b PROVE d \in I /\ \E e \in E : MeetsOf(D, s, d, e)
  <2>0. PICK e \in E : \E f : Tells(s, e, f) /\ d \in ListOf(s, e, f)
    BY <1>3
  <2>1. PICK f : Tells(s, e, f) /\ d \in ListOf(s, e, f)
    BY <2>0
  <2>2. IsEntry(e) /\ ~PanicsIn(s, e) /\ f \in FieldsIn(s, e) /\ ~TooHighIn(D, s, e)
    BY <1>1, <2>1 DEF Tells
  <2>3. d \in I
    <3>1. ListedIn(s, TokensIn(s, e, f)) \subseteq I
      BY <2>2, EntryLists
    <3>. QED BY <2>1, <3>1 DEF ListOf
  <2>. QED BY <2>1, <2>2, <2>3, MeetsIs DEF ListOf
<1>5. ASSUME NEW d \in I, NEW e \in E, MeetsOf(D, s, d, e) PROVE d \in b
  <2>1. PICK f \in FieldsIn(s, e) : Tells(s, e, f) /\ d \in ListedIn(s, TokensIn(s, e, f))
    BY <1>1, <1>5, MeetsIs
  <2>. QED BY <1>3, <2>1 DEF ListOf
<1>6. \A d : d \in b <=> d \in MeetingSome(D, s, clause)
  BY <1>4, <1>5 DEF MeetingSome
<1>. QED BY <1>6
(* What the first passes are to leave, and what all of them.               *)
ChosenIn(D, s, query) ==
  IF query.musts # << >> THEN MeetingAll(D, s, query.musts) ELSE MeetingSome(D, s, query.shoulds)
WantedIn(D, s, query) == ChosenIn(D, s, query) \ MeetingSome(D, s, query.mustNots)

HighIn(D, s, query) == \/ TooHighSome(D, s, query.musts)
                       \/ TooHighSome(D, s, query.shoulds)
                       \/ TooHighSome(D, s, query.mustNots)

RightFor(D, s, query, b, W) ==
  ~HighIn(D, s, query) => b \subseteq W /\ (~ScatteredIn(D, s, query.musts) => b = W)

AskedInv(D, s, query) ==
  /\ Searchable(D, s)
  /\ IsClause(query.musts) /\ IsClause(query.shoulds) /\ IsClause(query.mustNots)

(* While the MustNots are handled: each turn is left or its documents are  *)
(* gone, and only documents that meet a MustNot are.                       *)
MustNotsInv(D, s, query, td, b) ==
  /\ Queue(s, td, query.mustNots, TRUE)
  /\ ~HighIn(D, s, query) =>
       /\ b \subseteq ChosenIn(D, s, query)
       /\ ~ScatteredIn(D, s, query.musts) =>
            ChosenIn(D, s, query) \subseteq b \union MeetingSome(D, s, query.mustNots)
  /\ \A e \in ToSet(query.mustNots) : \A f :
       Tells(s, e, f) => Left(td, e, f) \/ ListOf(s, e, f) \intersect b = {}

(* A turn of a MustNot.                                                    *)
LEMMA MustNotStep ==
  ASSUME NEW D, NEW s, NEW query, AskedInv(D, s, query), NEW td, NEW b,
         MustNotsInv(D, s, query, td, b),
         td # << >>, NEW f \in Head(td).turns, ~PanicsIn(s, Head(td).entry),
         NEW sub, sub = IF f = NoField THEN << >> ELSE TokensIn(s, Head(td).entry, f),
         NEW c, c = b \ ListedIn(s, sub)
  PROVE  MustNotsInv(D, s, query, IF c = {} THEN << >> ELSE AfterIn(td, f), c)
<1>. DEFINE h == Head(td).entry
            u == AfterIn(td, f)
            clause == query.mustNots
<1>0. Searchable(D, s) /\ IsClause(clause)
  BY DEF AskedInv
<1>1. /\ Queue(s, u, clause, TRUE)
      /\ h \in ToSet(clause)
      /\ f \in TurnsIn(s, h, TRUE)
      /\ \A e, g : Left(td, e, g) /\ ~(e = h /\ g = f) => Left(u, e, g)
  <2>1. Queue(s, td, clause, TRUE)
    BY DEF MustNotsInv
  <2>. HIDE DEF clause
  <2>. QED BY <2>1, AfterQueues
<1>2. IF f = NoField THEN \A g \in FieldsIn(s, h) : TokensIn(s, h, g) = << >> ELSE Tells(s, h, f)
  <2>. HIDE DEF h
  <2>. QED BY <1>0, <1>1, TurnsTell DEF h
<1>3. \/ Tells(s, h, f) /\ ListedIn(s, sub) = ListOf(s, h, f)
      \/ ListedIn(s, sub) = {} /\ \A g : ~Tells(s, h, g)
  <2>1. CASE f = NoField
    <3>1. sub = << >>
      BY <2>1
    <3>2. ListedIn(s, << >>) = {}
      BY DEF ListedIn
    <3>. QED BY <1>2, <2>1, <3>1, <3>2 DEF Tells
  <2>2. CASE f # NoField
    BY <1>2, <2>2 DEF ListOf
  <2>. QED BY <2>1, <2>2
<1>. HIDE DEF u, h
<1>4. \A e \in ToSet(clause) : \A g :
        Tells(s, e, g) => Left(td, e, g) \/ ListOf(s, e, g) \intersect b = {}
  BY DEF MustNotsInv
<1>5. ASSUME NEW e \in ToSet(clause), NEW g, Tells(s, e, g)
      PROVE  Left(u, e, g) \/ ListOf(s, e, g) \intersect c = {}
  <2>1. CASE e = h /\ g = f
    <3>1. ListedIn(s, sub) = ListOf(s, e, g)
      BY <1>3, <1>5, <2>1
    <3>. QED BY <3>1
  <2>2. CASE ~(e = h /\ g = f)
    BY <1>1, <1>4, <1>5, <2>2
  <2>. QED BY <2>1, <2>2
<1>6. ASSUME ~HighIn(D, s, query)
      PROVE  /\ c \subseteq ChosenIn(D, s, query)
             /\ ~ScatteredIn(D, s, query.musts) =>
                  ChosenIn(D, s, query) \subseteq c \union MeetingSome(D, s, query.mustNots)
  <2>1. /\ b \subseteq ChosenIn(D, s, query)
        /\ ~ScatteredIn(D, s, query.musts) =>
             ChosenIn(D, s, query) \subseteq b \union MeetingSome(D, s, query.mustNots)
    BY <1>6 DEF MustNotsInv
  <2>2. ChosenIn(D, s, query) \subseteq 0 .. Len(D) - 1
    BY DEF ChosenIn, MeetingAll, MeetingSome
  <2>3. ASSUME NEW d \in ListedIn(s, sub), d \in 0 .. Len(D) - 1
        PROVE  d \in MeetingSome(D, s, clause)
    <3>1. Tells(s, h, f) /\ ListedIn(s, sub) = ListOf(s, h, f)
      BY <1>3, <2>3
    <3>2. IsEntry(h) /\ ~TooHighIn(D, s, h) /\ f \in FieldsIn(s, h)
      BY <1>0, <1>1, <1>6, <3>1 DEF IsClause, HighIn, TooHighSome, Tells
    <3>3. MeetsOf(D, s, d, h)
      BY <1>0, <2>3, <3>1, <3>2, MeetsIs DEF ListOf
    <3>. QED BY <1>1, <2>3, <3>3 DEF MeetingSome
  <2>. QED BY <2>1, <2>2, <2>3
<1>7. CASE c = {}
  <2>1. Queue(s, << >>, clause, TRUE)
    BY DEF Queue
  <2>2. \A e, g : ListOf(s, e, g) \intersect c = {}
    BY <1>7
  <2>. QED BY <1>6, <1>7, <2>1, <2>2 DEF MustNotsInv
<1>8. CASE c # {}
  BY <1>1, <1>5, <1>6, <1>8 DEF MustNotsInv, u
<1>. QED BY <1>7, <1>8

(* The MustNots are through.                                               *)
LEMMA MustNotEnd ==
  ASSUME NEW D, NEW s, NEW query, AskedInv(D, s, query), NEW b,
         MustNotsInv(D, s, query, << >>, b)
  PROVE  RightFor(D, s, query, b, WantedIn(D, s, query))
<1>. DEFINE clause == query.mustNots
<1>. SUFFICES ASSUME ~HighIn(D, s, query)
              PROVE  /\ b \subseteq WantedIn(D, s, query)
                     /\ ~ScatteredIn(D, s, query.musts) => b = WantedIn(D, s, query)
  BY DEF RightFor
<1>1. /\ b \subseteq ChosenIn(D, s, query)
      /\ ~ScatteredIn(D, s, query.musts) =>
           ChosenIn(D, s, query) \subseteq b \union MeetingSome(D, s, clause)
      /\ \A e \in ToSet(clause) : \A f : Tells(s, e, f) => ListOf(s, e, f) \intersect b = {}
  BY DEF MustNotsInv, Left
<1>2. ASSUME NEW d \in b PROVE d \notin MeetingSome(D, s, clause)
  <2>. SUFFICES ASSUME d \in MeetingSome(D, s, clause) PROVE FALSE
    OBVIOUS
  <2>1. PICK e \in ToSet(clause) : MeetsOf(D, s, d, e)
    BY DEF MeetingSome
  <2>2. d \in 0 .. Len(D) - 1
    BY DEF MeetingSome
  <2>3. Searchable(D, s) /\ IsEntry(e) /\ ~TooHighIn(D, s, e)
    BY DEF AskedInv, IsClause, HighIn, TooHighSome
  <2>4. PICK f \in FieldsIn(s, e) : Tells(s, e, f) /\ d \in ListedIn(s, TokensIn(s, e, f))
    BY <2>1, <2>2, <2>3, MeetsIs
  <2>. QED BY <1>1, <2>4 DEF ListOf
<1>. HIDE DEF clause
<1>3. b \subseteq WantedIn(D, s, query)
  BY <1>1, <1>2 DEF WantedIn, clause
<1>4. ~ScatteredIn(D, s, query.musts) => WantedIn(D, s, query) \subseteq b
  BY <1>1 DEF WantedIn, clause
<1>. QED BY <1>3, <1>4

(* Without a MustNot, or without a candidate, there is nothing to remove.  *)
LEMMA NoMustNots ==
  ASSUME NEW D, NEW s, NEW query, NEW b,
         RightFor(D, s, query, b, ChosenIn(D, s, query)), query.mustNots = << >> \/ b = {}
  PROVE  RightFor(D, s, query, b, WantedIn(D, s, query))
<1>1. CASE query.mustNots = << >>
  <2>1. ToSet(query.mustNots) = {}
    BY <1>1 DEF ToSet
  <2>2. WantedIn(D, s, query) = ChosenIn(D, s, query)
    BY <2>1 DEF WantedIn, MeetingSome
  <2>. QED BY <2>2
<1>2. CASE b = {}
  BY <1>2 DEF RightFor, WantedIn
<1>. QED BY <1>1, <1>2

(* The MustNots start.                                                     *)
LEMMA MustNotStart ==
  ASSUME NEW D, NEW s, NEW query, AskedInv(D, s, query), NEW b,
         RightFor(D, s, query, b, ChosenIn(D, s, query))
  PROVE  MustNotsInv(D, s, query, PassIn(s, query.mustNots, TRUE), b)
<1>. DEFINE clause == query.mustNots
            td == PassIn(s, clause, TRUE)
<1>1. IsClause(clause) /\ Searchable(D, s)
  BY DEF AskedInv
<1>2. Queue(s, td, clause, TRUE) /\ \A e \in ToSet(clause) : \A f \in TurnsIn(s, e, TRUE) : Left(td, e, f)
  <2>. HIDE DEF clause
  <2>. QED BY <1>1, PassQueues
<1>3. \A e \in ToSet(clause) : \A f : Tells(s, e, f) => Left(td, e, f)
  BY <1>1, <1>2, TurnsTell
<1>4. ~HighIn(D, s, query) =>
        /\ b \subseteq ChosenIn(D, s, query)
        /\ ~ScatteredIn(D, s, query.musts) =>
             ChosenIn(D, s, query) \subseteq b \union MeetingSome(D, s, query.mustNots)
  BY DEF RightFor
<1>. QED BY <1>2, <1>3, <1>4 DEF MustNotsInv
-----------------------------------------------------------------------------
(***************************************************************************)
(* The filter, from its start to the end of the search.                    *)
(***************************************************************************)
Ranking == {"candidates", "bm25", "field", "scored", "resolved", "yield", "done", "left"}

FilterInv(D, s, query, ph, td, bs, b) ==
  /\ b \subseteq 0 .. Len(D) - 1
  /\ \A x \in bs : x \subseteq 0 .. Len(D) - 1
  /\ ph = "start" => b = {} /\ bs = {}
  /\ ph = "musts" => query.musts # << >> /\ b = {} /\ MustsInv(s, query.musts, td, bs)
  /\ ph = "shoulds" => query.musts = << >> /\ ShouldsInv(s, query.shoulds, td, b)
  /\ ph = "filtered" => RightFor(D, s, query, b, ChosenIn(D, s, query))
  /\ ph = "mustNots" => MustNotsInv(D, s, query, td, b)
  /\ ph \in Ranking => RightFor(D, s, query, b, WantedIn(D, s, query))
  /\ ph = "bm25" => Queue(s, td, query.musts \o query.shoulds, FALSE)
  /\ ph \in (Ranking \ {"bm25"}) \union {"start", "filtered"} => td = << >>

SearchInv ==
  /\ [docs |-> docs, q |-> q, view |-> view] \in Searches
  /\ AskedInv(docs, seg, q)
  /\ FilterInv(docs, seg, q, phase, todo, bitmaps, bitmap)

(* The model's operators on the storage of the state are those on any.     *)
LEMMA SearchOperators ==
  /\ \A e, f : TokensFor(e, f) = TokensIn(seg, e, f)
  /\ \A e : FieldsFor(e) = FieldsIn(seg, e)
  /\ \A e : Panics(e) <=> PanicsIn(seg, e)
  /\ \A sub : Listed(sub) = ListedIn(seg, sub)
  /\ \A clause, cond : Pass(clause, cond) = PassIn(seg, clause, cond)
  /\ \A f : AfterTurn(f) = AfterIn(todo, f)
  /\ \A f : TurnTokens(f) = IF f = NoField THEN << >> ELSE TokensIn(seg, Head(todo).entry, f)
<1>1. \A e, f : TokensFor(e, f) = TokensIn(seg, e, f)
  BY DEF TokensFor, TokensIn
<1>2. \A e : FieldsFor(e) = FieldsIn(seg, e)
  BY DEF FieldsFor, FieldsIn
<1>3. \A e : Panics(e) <=> PanicsIn(seg, e)
  BY DEF Panics, PanicsIn
<1>4. \A sub : Listed(sub) = ListedIn(seg, sub)
  BY DEF Listed, ListedIn
<1>5. \A e, cond : Turns(e, cond) = TurnsIn(seg, e, cond)
  BY <1>1, <1>2, <1>3 DEF Turns, TurnsIn
<1>6. \A clause, cond : Pass(clause, cond) = PassIn(seg, clause, cond)
  BY <1>5 DEF Pass, PassIn
<1>7. \A f : AfterTurn(f) = AfterIn(todo, f)
  BY DEF AfterTurn, AfterIn
<1>8. \A f : TurnTokens(f) = IF f = NoField THEN << >> ELSE TokensIn(seg, Head(todo).entry, f)
  BY <1>1 DEF TurnTokens, Turn
<1>. QED BY <1>1, <1>2, <1>3, <1>4, <1>6, <1>7, <1>8

(* A search of the constant Searches is one that can be asked.             *)
LEMMA SearchAsked ==
  ASSUME NEW search \in Searches
  PROVE  /\ search = [docs |-> search.docs, q |-> search.q, view |-> search.view]
         /\ IsCorpus(search.docs)
         /\ IsClause(search.q.musts) /\ IsClause(search.q.shoulds) /\ IsClause(search.q.mustNots)
         /\ search.view.skip \in Nat /\ search.view.reverse \in BOOLEAN
  BY QueryAssumption DEF IsSearch

(* A handler's call.                                                       *)
LEMMA Calls ==
  ASSUME SearchInv, NEW f, AtTurn(f)
  PROVE  /\ todo # << >> /\ f \in Head(todo).turns /\ ~PanicsIn(seg, Head(todo).entry)
         /\ Searchable(docs, seg)
         /\ \A clause, cond : IsClause(clause) /\ cond \in BOOLEAN /\ Queue(seg, todo, clause, cond) =>
              ListedIn(seg, TurnTokens(f)) \subseteq 0 .. Len(docs) - 1
<1>. DEFINE h == Head(todo).entry
<1>1. todo # << >> /\ f \in Head(todo).turns /\ ~PanicsIn(seg, h) /\ Searchable(docs, seg)
  BY SearchOperators DEF AtTurn, SearchInv, AskedInv
<1>2. ASSUME NEW clause, NEW cond \in BOOLEAN, IsClause(clause), Queue(seg, todo, clause, cond)
      PROVE  ListedIn(seg, TurnTokens(f)) \subseteq 0 .. Len(docs) - 1
  <2>1. h \in ToSet(clause) /\ f \in TurnsIn(seg, h, cond)
    BY <1>1, <1>2, AfterQueues
  <2>. HIDE DEF h
  <2>2. CASE f = NoField
    <3>1. TurnTokens(f) = << >>
      BY <2>2, SearchOperators
    <3>2. ListedIn(seg, << >>) = {}
      BY DEF ListedIn
    <3>. QED BY <3>1, <3>2
  <2>3. CASE f # NoField
    <3>1. Tells(seg, h, f)
      BY <1>1, <2>1, <2>3, TurnsTell
    <3>2. IsEntry(h) /\ f \in FieldsIn(seg, h)
      BY <1>2, <2>1, <3>1 DEF IsClause, Tells
    <3>3. ListedIn(seg, TokensIn(seg, h, f)) \subseteq 0 .. Len(docs) - 1
      BY <1>1, <3>2, EntryLists
    <3>4. TurnTokens(f) = TokensIn(seg, h, f)
      BY <2>3, SearchOperators DEF h
    <3>. QED BY <3>3, <3>4
  <2>. QED BY <2>2, <2>3
<1>. QED BY <1>1, <1>2

(* The first state.                                                        *)
LEMMA SearchInit == Init => SearchInv
<1>. SUFFICES ASSUME Init PROVE SearchInv
  OBVIOUS
<1>1. PICK search \in Searches : docs = search.docs /\ q = search.q /\ view = search.view
  BY DEF Init
<1>2. [docs |-> docs, q |-> q, view |-> view] \in Searches
  BY <1>1, SearchAsked
<1>3. Searchable(docs, seg)
  <2>1. IsCorpus(docs)
    BY <1>1, SearchAsked
  <2>. QED BY <2>1, InitSearchable DEF Init
<1>4. AskedInv(docs, seg, q)
  BY <1>1, <1>3, SearchAsked DEF AskedInv
<1>5. phase = "start" /\ todo = << >> /\ bitmaps = {} /\ bitmap = {}
  BY DEF Init
<1>6. FilterInv(docs, seg, q, phase, todo, bitmaps, bitmap)
  BY <1>5 DEF FilterInv, Ranking
<1>. QED BY <1>2, <1>4, <1>6 DEF SearchInv
(* Each turn of the filter.                                                *)
LEMMA FilterTurns ==
  ASSUME SearchInv, NEW f, FilterMust(f) \/ FilterShould(f) \/ FilterMustNot(f)
  PROVE  FilterInv(docs, seg, q, phase', todo', bitmaps', bitmap')
<1>. DEFINE sub == TurnTokens(f)
            L == ListedIn(seg, sub)
            I == 0 .. Len(docs) - 1
<1>1. /\ AskedInv(docs, seg, q) /\ Searchable(docs, seg)
      /\ IsClause(q.musts) /\ IsClause(q.shoulds) /\ IsClause(q.mustNots)
      /\ FilterInv(docs, seg, q, phase, todo, bitmaps, bitmap)
      /\ bitmap \subseteq I /\ \A x \in bitmaps : x \subseteq I
  BY DEF SearchInv, AskedInv, FilterInv
<1>2. AtTurn(f)
  BY DEF FilterMust, FilterShould, FilterMustNot
<1>3. /\ todo # << >> /\ f \in Head(todo).turns /\ ~PanicsIn(seg, Head(todo).entry)
      /\ \A clause, cond : IsClause(clause) /\ cond \in BOOLEAN /\ Queue(seg, todo, clause, cond) =>
           L \subseteq I
  BY <1>2, Calls
<1>4. /\ Listed(sub) = L /\ AfterTurn(f) = AfterIn(todo, f)
      /\ sub = IF f = NoField THEN << >> ELSE TokensIn(seg, Head(todo).entry, f)
  BY SearchOperators
<1>. HIDE DEF sub, L, I
<1>5. CASE FilterMust(f)
  <2>1. /\ phase = "musts" /\ phase' = "musts" /\ bitmap' = bitmap
        /\ IF sub = << >> THEN bitmaps' = {} /\ todo' = << >>
           ELSE bitmaps' = bitmaps \union {L} /\ todo' = AfterIn(todo, f)
    BY <1>4, <1>5 DEF FilterMust, sub
  <2>2. q.musts # << >> /\ bitmap = {} /\ MustsInv(seg, q.musts, todo, bitmaps)
    BY <1>1, <2>1 DEF FilterInv
  <2>3. L \subseteq I
    BY <1>1, <1>3, <2>2 DEF MustsInv
  <2>4. IF sub = << >> THEN MustsInv(seg, q.musts, << >>, {})
        ELSE MustsInv(seg, q.musts, AfterIn(todo, f), bitmaps \union {L})
    BY <1>1, <1>3, <1>4, <2>2, MustStep DEF L
  <2>5. MustsInv(seg, q.musts, todo', bitmaps') /\ \A x \in bitmaps' : x \subseteq I
    BY <1>1, <2>1, <2>3, <2>4
  <2>. QED BY <1>1, <2>1, <2>2, <2>5 DEF FilterInv, Ranking, I
<1>6. CASE FilterShould(f)
  <2>1. /\ phase = "shoulds" /\ phase' = "shoulds" /\ bitmaps' = bitmaps
        /\ bitmap' = bitmap \union L /\ todo' = AfterIn(todo, f)
    BY <1>4, <1>6 DEF FilterShould, sub
  <2>2. q.musts = << >> /\ ShouldsInv(seg, q.shoulds, todo, bitmap)
    BY <1>1, <2>1 DEF FilterInv
  <2>3. L \subseteq I
    BY <1>1, <1>3, <2>2 DEF ShouldsInv
  <2>4. ShouldsInv(seg, q.shoulds, AfterIn(todo, f), bitmap \union L)
    BY <1>1, <1>3, <1>4, <2>2, ShouldStep DEF L
  <2>. QED BY <1>1, <2>1, <2>2, <2>3, <2>4 DEF FilterInv, Ranking, I
<1>7. CASE FilterMustNot(f)
  <2>1. /\ phase = "mustNots" /\ phase' = "mustNots" /\ bitmaps' = bitmaps
        /\ bitmap' = bitmap \ L
        /\ todo' = IF bitmap' = {} THEN << >> ELSE AfterIn(todo, f)
    BY <1>4, <1>7 DEF FilterMustNot, sub
  <2>2. MustNotsInv(docs, seg, q, todo, bitmap)
    BY <1>1, <2>1 DEF FilterInv
  <2>3. MustNotsInv(docs, seg, q, IF bitmap' = {} THEN << >> ELSE AfterIn(todo, f), bitmap')
    BY <1>1, <1>3, <1>4, <2>1, <2>2, MustNotStep DEF L
  <2>. QED BY <1>1, <2>1, <2>3 DEF FilterInv, Ranking, I
<1>. QED BY <1>5, <1>6, <1>7

(* The passes begin and end.                                               *)
LEMMA FilterPhases ==
  ASSUME SearchInv,
         StartFilter \/ EndMusts \/ EndShoulds \/ StartMustNots \/ EndMustNots
  PROVE  FilterInv(docs, seg, q, phase', todo', bitmaps', bitmap')
<1>. DEFINE I == 0 .. Len(docs) - 1
<1>1. /\ AskedInv(docs, seg, q) /\ Searchable(docs, seg)
      /\ IsClause(q.musts) /\ IsClause(q.shoulds) /\ IsClause(q.mustNots)
      /\ FilterInv(docs, seg, q, phase, todo, bitmaps, bitmap)
      /\ bitmap \subseteq I /\ \A x \in bitmaps : x \subseteq I
  BY DEF SearchInv, AskedInv, FilterInv
<1>2. \A clause, cond : Pass(clause, cond) = PassIn(seg, clause, cond)
  BY SearchOperators
<1>. HIDE DEF I
<1>3. CASE StartFilter /\ q.musts # << >>
  <2>1. /\ phase = "start" /\ phase' = "musts" /\ todo' = PassIn(seg, q.musts, TRUE)
        /\ bitmaps' = bitmaps /\ bitmap' = bitmap
    BY <1>2, <1>3 DEF StartFilter
  <2>2. bitmap = {} /\ bitmaps = {}
    BY <1>1, <2>1 DEF FilterInv
  <2>3. /\ Queue(seg, todo', q.musts, TRUE)
        /\ \A e \in ToSet(q.musts) : \A f \in TurnsIn(seg, e, TRUE) : Left(todo', e, f)
    BY <1>1, <2>1, PassQueues
  <2>4. MustsInv(seg, q.musts, todo', bitmaps')
    BY <2>1, <2>2, <2>3 DEF MustsInv
  <2>. QED BY <1>1, <1>3, <2>1, <2>2, <2>4 DEF FilterInv, Ranking, I
<1>4. CASE StartFilter /\ q.musts = << >>
  <2>1. /\ phase = "start" /\ phase' = "shoulds" /\ todo' = PassIn(seg, q.shoulds, FALSE)
        /\ bitmaps' = bitmaps /\ bitmap' = bitmap
    BY <1>2, <1>4 DEF StartFilter
  <2>2. bitmap = {} /\ bitmaps = {}
    BY <1>1, <2>1 DEF FilterInv
  <2>3. /\ Queue(seg, todo', q.shoulds, FALSE)
        /\ \A e \in ToSet(q.shoulds) : \A f \in TurnsIn(seg, e, FALSE) : Left(todo', e, f)
    BY <1>1, <2>1, PassQueues
  <2>4. \A e \in ToSet(q.shoulds) : \A f : Tells(seg, e, f) => Left(todo', e, f)
    BY <1>1, <2>3, TurnsTell
  <2>5. ShouldsInv(seg, q.shoulds, todo', bitmap')
    BY <2>1, <2>2, <2>3, <2>4 DEF ShouldsInv
  <2>. QED BY <1>1, <1>4, <2>1, <2>2, <2>5 DEF FilterInv, Ranking, I
<1>5. CASE EndMusts
  <2>1. /\ phase = "musts" /\ todo = << >> /\ phase' = "filtered" /\ todo' = todo
        /\ bitmaps' = bitmaps
        /\ bitmap' = IF bitmaps = {} THEN bitmap ELSE {d \in UNION bitmaps : \A b \in bitmaps : d \in b}
    BY <1>5 DEF EndMusts
  <2>2. q.musts # << >> /\ bitmap = {} /\ MustsInv(seg, q.musts, << >>, bitmaps)
    BY <1>1, <2>1 DEF FilterInv
  <2>3. bitmap' = Common(bitmaps)
    BY <2>1, <2>2 DEF Common
  <2>4. /\ bitmap' \subseteq I
        /\ ~TooHighSome(docs, seg, q.musts) =>
              /\ bitmap' \subseteq MeetingAll(docs, seg, q.musts)
              /\ ~ScatteredIn(docs, seg, q.musts) => bitmap' = MeetingAll(docs, seg, q.musts)
    BY <1>1, <2>2, <2>3, MustEnd DEF I
  <2>5. RightFor(docs, seg, q, bitmap', ChosenIn(docs, seg, q))
    BY <2>2, <2>4 DEF RightFor, ChosenIn, HighIn
  <2>. QED BY <1>1, <2>1, <2>4, <2>5 DEF FilterInv, Ranking, I
<1>6. CASE EndShoulds
  <2>1. /\ phase = "shoulds" /\ todo = << >> /\ phase' = "filtered" /\ todo' = todo
        /\ bitmaps' = bitmaps /\ bitmap' = bitmap
    BY <1>6 DEF EndShoulds
  <2>2. q.musts = << >> /\ ShouldsInv(seg, q.shoulds, << >>, bitmap)
    BY <1>1, <2>1 DEF FilterInv
  <2>3. ~TooHighSome(docs, seg, q.shoulds) => bitmap = MeetingSome(docs, seg, q.shoulds)
    BY <1>1, <2>2, ShouldEnd
  <2>4. RightFor(docs, seg, q, bitmap, ChosenIn(docs, seg, q))
    BY <2>2, <2>3 DEF RightFor, ChosenIn, HighIn
  <2>. QED BY <1>1, <2>1, <2>4 DEF FilterInv, Ranking, I
<1>7. CASE StartMustNots
  <2>1. /\ phase = "filtered" /\ bitmaps' = bitmaps /\ bitmap' = bitmap
        /\ IF q.mustNots # << >> /\ bitmap # {}
             THEN phase' = "mustNots" /\ todo' = PassIn(seg, q.mustNots, TRUE)
             ELSE phase' = "candidates" /\ todo' = todo
    BY <1>2, <1>7 DEF StartMustNots
  <2>2. RightFor(docs, seg, q, bitmap, ChosenIn(docs, seg, q)) /\ todo = << >>
    BY <1>1, <2>1 DEF FilterInv
  <2>3. CASE q.mustNots # << >> /\ bitmap # {}
    <3>1. MustNotsInv(docs, seg, q, todo', bitmap)
      BY <1>1, <2>1, <2>2, <2>3, MustNotStart
    <3>. QED BY <1>1, <2>1, <2>3, <3>1 DEF FilterInv, Ranking, I
  <2>4. CASE ~(q.mustNots # << >> /\ bitmap # {})
    <3>1. RightFor(docs, seg, q, bitmap, WantedIn(docs, seg, q))
      BY <2>2, <2>4, NoMustNots
    <3>. QED BY <1>1, <2>1, <2>2, <2>4, <3>1 DEF FilterInv, Ranking, I
  <2>. QED BY <2>3, <2>4
<1>8. CASE EndMustNots
  <2>1. /\ phase = "mustNots" /\ todo = << >> /\ phase' = "candidates" /\ todo' = todo
        /\ bitmaps' = bitmaps /\ bitmap' = bitmap
    BY <1>8 DEF EndMustNots
  <2>2. MustNotsInv(docs, seg, q, << >>, bitmap)
    BY <1>1, <2>1 DEF FilterInv
  <2>3. RightFor(docs, seg, q, bitmap, WantedIn(docs, seg, q))
    BY <1>1, <2>2, MustNotEnd
  <2>. QED BY <1>1, <2>1, <2>3 DEF FilterInv, Ranking, I
<1>. QED BY <1>3, <1>4, <1>5, <1>6, <1>7, <1>8

(* The clauses that BM25Score scores by.                                   *)
LEMMA ScoredAsked ==
  ASSUME NEW a, IsClause(a), NEW b, IsClause(b)
  PROVE  IsClause(a \o b) /\ ToSet(a \o b) = ToSet(a) \union ToSet(b)
<1>. DEFINE V == ToSet(a) \union ToSet(b)
            r == a \o b
<1>1. a \in Seq(ToSet(a)) /\ b \in Seq(ToSet(b))
  BY DEF IsClause
<1>2. a \in Seq(V) /\ b \in Seq(V)
  BY <1>1
<1>3. ToSet(a) = {a[k] : k \in 1 .. Len(a)} /\ ToSet(b) = {b[k] : k \in 1 .. Len(b)}
  BY <1>1 DEF ToSet
<1>4. \A e \in V : IsEntry(e)
  BY DEF IsClause
<1>. HIDE DEF V
<1>5. /\ r \in Seq(V) /\ Len(r) = Len(a) + Len(b)
      /\ \A i \in 1 .. Len(a) : r[i] = a[i]
      /\ \A i \in 1 .. Len(b) : r[Len(a) + i] = b[i]
  BY <1>2, CatParts
<1>. HIDE DEF r
<1>6. ToSet(r) = {r[k] : k \in 1 .. Len(r)}
  <2>1. DOMAIN r = 1 .. Len(r)
    BY <1>5
  <2>2. ToSet(r) = {r[k] : k \in DOMAIN r}
    BY DEF ToSet
  <2>. QED BY <2>1, <2>2
<1>7. Len(a) \in Nat /\ Len(b) \in Nat
  BY <1>1
<1>8. V \subseteq ToSet(r)
  <2>1. \A i \in 1 .. Len(a) : i \in 1 .. Len(r)
    BY <1>5, <1>7
  <2>2. \A i \in 1 .. Len(b) : Len(a) + i \in 1 .. Len(r)
    BY <1>5, <1>7
  <2>3. \A i \in 1 .. Len(a) : a[i] \in ToSet(r)
    BY <1>5, <1>6, <2>1
  <2>4. \A i \in 1 .. Len(b) : b[i] \in ToSet(r)
    BY <1>5, <1>6, <2>2
  <2>. QED BY <1>3, <2>3, <2>4 DEF V
<1>9. ToSet(r) \subseteq V
  BY <1>5, <1>6
<1>10. ToSet(r) = V
  BY <1>8, <1>9
<1>11. IsClause(r)
  BY <1>4, <1>5, <1>10 DEF IsClause
<1>. QED BY <1>10, <1>11 DEF r, V

(* A search is well asked, and its filter right, in every state.           *)
LEMMA SearchNext == SearchInv /\ [Next]_vars => SearchInv'
<1>. SUFFICES ASSUME SearchInv, [Next]_vars PROVE SearchInv'
  OBVIOUS
<1>. DEFINE Same == docs' = docs /\ seg' = seg /\ q' = q /\ view' = view
            Goal == FilterInv(docs, seg, q, phase', todo', bitmaps', bitmap')
<1>1. AskedInv(docs, seg, q) /\ [docs |-> docs, q |-> q, view |-> view] \in Searches
  BY DEF SearchInv
<1>2. ASSUME Same, Goal PROVE SearchInv'
  BY <1>1, <1>2 DEF SearchInv
<1>3. FilterInv(docs, seg, q, phase, todo, bitmaps, bitmap)
  BY DEF SearchInv
<1>4. ASSUME bitmaps' = bitmaps, bitmap' = bitmap, todo' = todo, phase' = phase PROVE Goal
  BY <1>3, <1>4
<1>5. ASSUME bitmaps' = bitmaps, bitmap' = bitmap, todo' = << >>, phase' \in Ranking \ {"bm25"},
             phase \in Ranking
      PROVE  Goal
  BY <1>3, <1>5 DEF FilterInv, Ranking
<1>. HIDE DEF Goal
<1>6. CASE UNCHANGED vars
  BY <1>2, <1>4, <1>6 DEF vars
<1>7. CASE StartFilter \/ EndMusts \/ EndShoulds \/ StartMustNots \/ EndMustNots
  <2>1. Same
    BY <1>7 DEF StartFilter, EndMusts, EndShoulds, StartMustNots, EndMustNots, Asked
  <2>2. Goal
    BY <1>7, FilterPhases DEF Goal
  <2>. QED BY <2>1, <2>2, <1>2
<1>8. CASE \E f \in DOMAIN seg.fields \union {NoField} : Turning(f)
  <2>1. PICK f \in DOMAIN seg.fields \union {NoField} : Turning(f)
    BY <1>8
  <2>2. CASE FilterMust(f) \/ FilterShould(f) \/ FilterMustNot(f)
    <3>1. Same
      BY <2>2 DEF FilterMust, FilterShould, FilterMustNot, Asked
    <3>2. Goal
      BY <2>2, FilterTurns DEF Goal
    <3>. QED BY <3>1, <3>2, <1>2
  <2>3. CASE AccumulateBM25(f)
    <3>1. Same /\ phase = "bm25" /\ phase' = phase /\ bitmaps' = bitmaps /\ bitmap' = bitmap
          /\ todo' = AfterTurn(f) /\ AtTurn(f)
      BY <2>3 DEF AccumulateBM25, Asked
    <3>2. todo' = AfterIn(todo, f) /\ todo # << >> /\ f \in Head(todo).turns
      BY <3>1, SearchOperators, Calls
    <3>3. Queue(seg, todo, q.musts \o q.shoulds, FALSE)
      BY <1>3, <3>1 DEF FilterInv
    <3>4. Queue(seg, todo', q.musts \o q.shoulds, FALSE)
      BY <3>2, <3>3, AfterQueues
    <3>5. Goal
      BY <1>3, <3>1, <3>4 DEF FilterInv, Ranking, Goal
    <3>. QED BY <3>1, <3>5, <1>2
  <2>. QED BY <2>1, <2>2, <2>3 DEF Turning
<1>9. CASE Panic
  <2>1. Same /\ bitmaps' = bitmaps /\ bitmap' = bitmap /\ phase' = "panicked"
    BY <1>9 DEF Panic, Asked
  <2>2. Goal
    BY <1>3, <2>1 DEF FilterInv, Ranking, Goal
  <2>. QED BY <2>1, <2>2, <1>2
<1>10. CASE StartBM25
  <2>1. /\ Same /\ bitmaps' = bitmaps /\ bitmap' = bitmap /\ phase = "candidates" /\ phase' = "bm25"
        /\ todo' = PassIn(seg, q.musts \o q.shoulds, FALSE)
    BY <1>10, SearchOperators DEF StartBM25, Asked, ScoredClauses
  <2>2. IsClause(q.musts \o q.shoulds)
    BY <1>1, ScoredAsked DEF AskedInv
  <2>3. Queue(seg, todo', q.musts \o q.shoulds, FALSE)
    BY <2>1, <2>2, PassQueues
  <2>4. Goal
    BY <1>3, <2>1, <2>3 DEF FilterInv, Ranking, Goal
  <2>. QED BY <2>1, <2>4, <1>2
<1>11. CASE EndBM25
  <2>1. Same /\ bitmaps' = bitmaps /\ bitmap' = bitmap /\ todo' = << >> /\ phase' = "scored" /\ phase = "bm25"
    BY <1>11 DEF EndBM25, Asked
  <2>. QED BY <2>1, <1>2, <1>5 DEF Ranking
<1>12. CASE StartField \/ ScoreByToken \/ EndField \/ ResolveScores \/ Yield \/ Return \/ Break
  <2>1. /\ Same /\ bitmaps' = bitmaps /\ bitmap' = bitmap /\ todo' = todo
        /\ phase \in Ranking \ {"bm25"} /\ phase' \in Ranking \ {"bm25"}
    BY <1>12 DEF StartField, ScoreByToken, EndField, ResolveScores, Yield, Return, Break,
                 Asked, FieldVars, Ranking
  <2>2. todo = << >>
    BY <1>3, <2>1 DEF FilterInv
  <2>. QED BY <2>1, <2>2, <1>2, <1>5
<1>13. CASE SkipResults
  <2>1. /\ Same /\ bitmaps' = bitmaps /\ bitmap' = bitmap /\ todo' = todo
        /\ phase = "resolved" /\ phase' \in {"yield", "panicked"}
    BY <1>13 DEF SkipResults, Asked
  <2>2. Goal
    BY <1>3, <2>1 DEF FilterInv, Ranking, Goal
  <2>. QED BY <2>1, <2>2, <1>2
<1>14. CASE SearchAgain
  <2>1. PICK search \in Followups : search.docs = docs /\ q' = search.q /\ view' = search.view
    BY <1>14 DEF SearchAgain
  <2>2. /\ docs' = docs /\ seg' = seg /\ phase = "resolved" /\ phase' = "start" /\ bitmaps' = {}
        /\ bitmap' = {} /\ todo' = todo
    BY <1>14 DEF SearchAgain
  <2>3. search \in Searches
    BY QueryAssumption
  <2>4. [docs |-> docs', q |-> q', view |-> view'] \in Searches
    BY <2>1, <2>2, <2>3, SearchAsked
  <2>5. AskedInv(docs, seg, q')
    BY <1>1, <2>1, <2>3, SearchAsked DEF AskedInv
  <2>6. FilterInv(docs, seg, q', phase', todo', bitmaps', bitmap')
    BY <1>3, <2>2 DEF FilterInv, Ranking
  <2>. QED BY <2>2, <2>4, <2>5, <2>6 DEF SearchInv
<1>. QED BY <1>6, <1>7, <1>8, <1>9, <1>10, <1>11, <1>12, <1>13, <1>14 DEF Next
(* What a query means, as the properties say it.                           *)
LEMMA Meanings ==
  ASSUME SearchInv
  PROVE  /\ Indices = 0 .. Len(docs) - 1
         /\ \A e, f : Meant(e, f) = MeantIn(docs, e, f)
         /\ \A d, e : Meets(d, e) <=> MeetsOf(docs, seg, d, e)
         /\ Wanted = WantedIn(docs, seg, q)
         /\ AnyTooHigh <=> HighIn(docs, seg, q)
         /\ Scattered <=> ScatteredIn(docs, seg, q.musts)
<1>1. /\ Searchable(docs, seg)
      /\ IsClause(q.musts) /\ IsClause(q.shoulds) /\ IsClause(q.mustNots)
  BY DEF SearchInv, AskedInv
<1>2. Len(docs) \in Nat /\ DOMAIN docs = 1 .. Len(docs)
  BY <1>1, BatchSets DEF Searchable, IsCorpus
<1>3. Indices = 0 .. Len(docs) - 1
  <2>1. \A d \in 0 .. Len(docs) - 1 : d + 1 \in 1 .. Len(docs) /\ d = (d + 1) - 1
    BY <1>2
  <2>2. \A k \in 1 .. Len(docs) : k - 1 \in 0 .. Len(docs) - 1
    BY <1>2
  <2>3. Indices = {k - 1 : k \in 1 .. Len(docs)}
    BY <1>2 DEF Indices
  <2>. QED BY <2>1, <2>2, <2>3
<1>4. \A e, f : Meant(e, f) = MeantIn(docs, e, f)
  BY DEF Meant, MeantIn, KeywordMeans, NearTo, Fuzziness
<1>5. \A e : FieldsFor(e) = FieldsIn(seg, e)
  BY SearchOperators
<1>6. \A d, e : Meets(d, e) <=> MeetsOf(docs, seg, d, e)
  BY <1>4, <1>5 DEF Meets, MeetsIn, MeetsOf
<1>7. ASSUME NEW clause, IsClause(clause), NEW d
      PROVE  /\ MeetsAll(d, clause) <=> \A e \in ToSet(clause) : MeetsOf(docs, seg, d, e)
             /\ MeetsSome(d, clause) <=> \E e \in ToSet(clause) : MeetsOf(docs, seg, d, e)
  <2>1. ToSet(clause) = {clause[k] : k \in DOMAIN clause}
    BY DEF ToSet
  <2>. QED BY <1>6, <2>1 DEF MeetsAll, MeetsSome
<1>8. Wanted = WantedIn(docs, seg, q)
  <2>1. ASSUME NEW d PROVE d \in Wanted <=> d \in WantedIn(docs, seg, q)
    <3>1. d \in Wanted <=>
            /\ d \in 0 .. Len(docs) - 1
            /\ IF q.musts # << >> THEN MeetsAll(d, q.musts) ELSE MeetsSome(d, q.shoulds)
            /\ ~MeetsSome(d, q.mustNots)
      BY <1>3 DEF Wanted
    <3>2. d \in ChosenIn(docs, seg, q) <=>
            /\ d \in 0 .. Len(docs) - 1
            /\ IF q.musts # << >> THEN MeetsAll(d, q.musts) ELSE MeetsSome(d, q.shoulds)
      BY <1>1, <1>7 DEF ChosenIn, MeetingAll, MeetingSome
    <3>3. d \in 0 .. Len(docs) - 1 =>
            (d \in MeetingSome(docs, seg, q.mustNots) <=> MeetsSome(d, q.mustNots))
      BY <1>1, <1>7 DEF MeetingSome
    <3>. QED BY <3>1, <3>2, <3>3 DEF WantedIn
  <2>. QED BY <2>1
<1>9. \A e : TooHigh(e) <=> TooHighIn(docs, seg, e)
  BY DEF TooHigh, TooHighIn, Beyond
<1>10. AnyTooHigh <=> HighIn(docs, seg, q)
  BY <1>9 DEF AnyTooHigh, Entries, HighIn, TooHighSome
<1>11. Scattered <=> ScatteredIn(docs, seg, q.musts)
  BY <1>4, <1>5 DEF Scattered, ScatteredIn
<1>. QED BY <1>3, <1>4, <1>6, <1>8, <1>10, <1>11

(* This holds in every state of a search.                                  *)
LEMMA SearchAlways == Spec => []SearchInv
  BY SearchInit, SearchNext, PTL DEF Spec

(* FilterDocuments leaves the documents that the query means, for any      *)
(* documents and any query, whatever order the map of fields is taken in:  *)
(* none that misses a Must or meets a MustNot, and all of the others unless*)
(* a bare Must is found in several fields.                                 *)
THEOREM FilterRight == Spec => []CandidatesRight
<1>1. SearchInv => CandidatesRight
  <2>. SUFFICES ASSUME SearchInv, Filtered, ~AnyTooHigh
                PROVE  bitmap \subseteq Wanted /\ (~Scattered => bitmap = Wanted)
    BY DEF CandidatesRight
  <2>1. phase \in Ranking
    BY DEF Filtered, Ranking
  <2>2. RightFor(docs, seg, q, bitmap, WantedIn(docs, seg, q))
    BY <2>1 DEF SearchInv, FilterInv
  <2>. QED BY <2>2, Meanings DEF RightFor
<1>. QED BY <1>1, SearchAlways, PTL
-----------------------------------------------------------------------------
(***************************************************************************)
(* Scores.                                                                 *)
(***************************************************************************)
(* A table with a score for each member of S, in ascending order.          *)
Scored(S, val) == LET at == Ascending(S) IN [k \in DOMAIN at |-> [index |-> at[k], value |-> val[at[k]]]]

(* Where a member of S is in it.                                           *)
Place(S, d) == Cardinality({x \in S : x < d}) + 1

Docs(S) == IsFiniteSet(S) /\ Numbers(S)

(* The places of a set.                                                    *)
LEMMA Places ==
  ASSUME NEW S, Docs(S)
  PROVE  /\ Cardinality(S) \in Nat
         /\ Ascending(S) \in [1 .. Cardinality(S) -> S] /\ DOMAIN Ascending(S) = 1 .. Cardinality(S)
         /\ Len(Ascending(S)) = Cardinality(S) /\ Climbs(Ascending(S))
         /\ \A d \in S : /\ d \in Nat /\ Place(S, d) \in 1 .. Cardinality(S)
                         /\ Ascending(S)[Place(S, d)] = d
         /\ \A k \in 1 .. Cardinality(S) : Place(S, Ascending(S)[k]) = k
         /\ \A d, e \in S : d < e => Place(S, d) < Place(S, e)
<1>. DEFINE N == Cardinality(S)
            at == Ascending(S)
<1>1. /\ Lists(at, S) /\ Len(at) = N /\ N \in Nat
      /\ \A k \in 1 .. N : Cardinality({y \in S : y < at[k]}) = k - 1
  BY AscendingLists, FS_CardinalityType DEF Docs
<1>2. /\ at \in [1 .. N -> S] /\ Climbs(at) /\ \A d \in S : \E k \in 1 .. N : at[k] = d
  BY <1>1 DEF Lists
<1>3. DOMAIN at = 1 .. N
  BY <1>2
<1>. HIDE DEF N, at
<1>4. \A k \in 1 .. N : Place(S, at[k]) = k
  <2>1. \A k \in 1 .. N : (k - 1) + 1 = k
    BY <1>1
  <2>. QED BY <1>1, <2>1 DEF Place
<1>5. ASSUME NEW d \in S PROVE d \in Nat /\ Place(S, d) \in 1 .. N /\ at[Place(S, d)] = d
  <2>1. PICK k \in 1 .. N : at[k] = d
    BY <1>2
  <2>. QED BY <1>4, <2>1 DEF Docs, Numbers
<1>6. ASSUME NEW d \in S, NEW e \in S, d < e PROVE Place(S, d) < Place(S, e)
  <2>. DEFINE i == Place(S, d)
              j == Place(S, e)
  <2>1. i \in 1 .. N /\ j \in 1 .. N /\ at[i] = d /\ at[j] = e /\ d \in Nat /\ e \in Nat
    BY <1>5
  <2>. HIDE DEF i, j
  <2>2. \A a, b \in 1 .. N : a < b => at[a] < at[b]
    BY <1>1, <1>2 DEF Climbs
  <2>3. ~(j < i) /\ i # j
    BY <1>6, <2>1, <2>2
  <2>4. i < j
    BY <2>1, <2>3, <1>1
  <2>. QED BY <2>4 DEF i, j
<1>. QED BY <1>1, <1>2, <1>3, <1>4, <1>5, <1>6 DEF N, at

ScoreOf(S) == [index : S, value : Int]

(* What such a table holds.                                                *)
LEMMA ScoredSays ==
  ASSUME NEW S, Docs(S), NEW val
  PROVE  /\ Scored(S, val) = [k \in 1 .. Cardinality(S) |->
                                [index |-> Ascending(S)[k], value |-> val[Ascending(S)[k]]]]
         /\ DOMAIN Scored(S, val) = 1 .. Cardinality(S)
         /\ \A d \in S : Scored(S, val)[Place(S, d)] = [index |-> d, value |-> val[d]]
         /\ val \in [S -> Int] =>
              /\ Scored(S, val) \in Seq(ScoreOf(S))
              /\ Len(Scored(S, val)) = Cardinality(S)
              /\ ToSet(Scored(S, val)) = {[index |-> d, value |-> val[d]] : d \in S}
<1>. DEFINE N == Cardinality(S)
            at == Ascending(S)
            t == Scored(S, val)
<1>1. /\ N \in Nat /\ at \in [1 .. N -> S] /\ DOMAIN at = 1 .. N
      /\ \A d \in S : Place(S, d) \in 1 .. N /\ at[Place(S, d)] = d
  BY Places
<1>2. t = [k \in 1 .. N |-> [index |-> at[k], value |-> val[at[k]]]]
  BY <1>1 DEF Scored
<1>. HIDE DEF N, at, t
<1>3. \A d \in S : t[Place(S, d)] = [index |-> d, value |-> val[d]]
  BY <1>1, <1>2
<1>4. ASSUME val \in [S -> Int]
      PROVE  /\ t \in Seq(ScoreOf(S)) /\ Len(t) = N
             /\ ToSet(t) = {[index |-> d, value |-> val[d]] : d \in S}
  <2>1. \A k \in 1 .. N : at[k] \in S /\ val[at[k]] \in Int
    BY <1>1, <1>4
  <2>2. t \in [1 .. N -> ScoreOf(S)]
    BY <1>2, <2>1 DEF ScoreOf
  <2>3. t \in Seq(ScoreOf(S)) /\ Len(t) = N
    BY <1>1, <2>2
  <2>4. ToSet(t) = {t[k] : k \in 1 .. N}
    BY <1>2 DEF ToSet
  <2>5. \A k \in 1 .. N : t[k] = [index |-> at[k], value |-> val[at[k]]]
    BY <1>2
  <2>6. ToSet(t) \subseteq {[index |-> d, value |-> val[d]] : d \in S}
    <3>1. ASSUME NEW k \in 1 .. N PROVE t[k] \in {[index |-> d, value |-> val[d]] : d \in S}
      <4>1. at[k] \in S /\ t[k] = [index |-> at[k], value |-> val[at[k]]]
        BY <2>1, <2>5
      <4>. QED BY <4>1
    <3>. QED BY <2>4, <3>1
  <2>7. {[index |-> d, value |-> val[d]] : d \in S} \subseteq ToSet(t)
    BY <1>1, <1>3, <2>4
  <2>. QED BY <2>3, <2>6, <2>7
<1>5. DOMAIN t = 1 .. N
  BY <1>2
<1>. QED BY <1>2, <1>3, <1>4, <1>5 DEF N, at, t

(* The scores of such a table.                                             *)
ScoreSet(S, val) == {[index |-> d, value |-> val[d]] : d \in S}

(* They are its members.                                                   *)
LEMMA ScoredSet ==
  ASSUME NEW S, Docs(S), NEW val \in [S -> Int]
  PROVE  ToSet(Scored(S, val)) = ScoreSet(S, val)
  BY ScoredSays DEF ScoreSet

(* What is searched for from a place that is not behind it, is found.      *)
LEMMA AddAtFinds ==
  ASSUME NEW S, Docs(S), NEW val \in [S -> Int], NEW d \in S, NEW g \in 0 .. Place(S, d) - 1
  PROVE  AddAt(g, Scored(S, val), d) = Place(S, d) - 1
<1>. DEFINE N == Cardinality(S)
            at == Ascending(S)
            t == Scored(S, val)
            p == Place(S, d)
            m == N - g
            r == Rest(t, g)
            y == [k \in 1 .. m |-> at[g + k]]
<1>1. /\ N \in Nat /\ at \in [1 .. N -> S] /\ Climbs(at) /\ Len(at) = N
      /\ p \in 1 .. N /\ at[p] = d
      /\ \A x \in S : x \in Nat
  BY Places
<1>2. /\ t \in Seq(ScoreOf(S)) /\ Len(t) = N
      /\ \A k \in 1 .. N : t[k].index = at[k]
  <2>1. /\ t = [k \in 1 .. N |-> [index |-> at[k], value |-> val[at[k]]]]
        /\ t \in Seq(ScoreOf(S)) /\ Len(t) = N
    BY ScoredSays
  <2>. HIDE DEF N, at, t
  <2>. QED BY <2>1
<1>. HIDE DEF N, at, t, p
<1>3. m \in Nat /\ g \in Nat /\ g < p /\ \A k \in 1 .. m : g + k \in 1 .. N
  BY <1>1 DEF p
<1>4. y \in [1 .. m -> Nat]
  BY <1>1, <1>3
<1>5. Climbs(y)
  <2>1. Len(y) = m
    BY <1>3, <1>4
  <2>2. \A i, j \in 1 .. N : i < j => at[i] < at[j]
    BY <1>1 DEF Climbs
  <2>3. ASSUME NEW i \in 1 .. m, NEW j \in 1 .. m, i < j PROVE y[i] < y[j]
    <3>1. g + i \in 1 .. N /\ g + j \in 1 .. N /\ g + i < g + j
      BY <1>3, <2>3
    <3>. QED BY <2>2, <3>1
  <2>. HIDE DEF y, m
  <2>. QED BY <2>1, <2>3 DEF Climbs
<1>6. /\ LowerIn(m, y, d) \in 0 .. m
      /\ \A k \in 1 .. m : y[k] < d <=> k <= LowerIn(m, y, d)
  <2>. HIDE DEF m, y
  <2>. QED BY <1>1, <1>3, <1>4, <1>5, Halving
<1>7. Search(r, Index, d) = LowerIn(m, y, d)
  <2>1. r = SubSeq(t, g + 1, N)
    BY <1>2 DEF Rest
  <2>2. DOMAIN r = 1 .. m /\ \A k \in 1 .. m : r[k] = t[g + k]
    <3>1. g + 1 \in 1 .. N /\ N \in 1 .. N
      BY <1>1, <1>3
    <3>2. /\ Len(r) = m /\ r \in Seq(ScoreOf(S))
          /\ \A k \in 1 .. m : r[k] = t[(g + 1) + k - 1]
      <4>. DEFINE a == g + 1
      <4>1. a \in 1 .. N /\ N - a + 1 = m
        BY <1>1, <1>3, <3>1
      <4>. HIDE DEF a, m, r
      <4>2. /\ Len(r) = N - a + 1 /\ r \in Seq(ScoreOf(S))
            /\ \A k \in 1 .. N - a + 1 : r[k] = t[a + k - 1]
        BY <1>1, <1>2, <2>1, <4>1, <3>1 DEF a
      <4>. QED BY <4>1, <4>2 DEF a
    <3>3. \A k \in 1 .. m : r[k] = t[(g + 1) + k - 1]
      BY <3>2
    <3>4. \A k \in 1 .. m : (g + 1) + k - 1 = g + k
      BY <1>3
    <3>. QED BY <3>2, <3>3, <3>4
  <2>3. \A k \in 1 .. m : Index(r[k]) = y[k]
    BY <1>2, <1>3, <2>2 DEF Index
  <2>4. {k \in 1 .. m : Index(r[k]) < d} = {k \in 1 .. m : y[k] < d}
    BY <2>3
  <2>5. Search(r, Index, d) = Cardinality({k \in 1 .. m : Index(r[k]) < d})
    BY <2>2 DEF Search
  <2>. QED BY <2>4, <2>5 DEF LowerIn
<1>. DEFINE c == LowerIn(m, y, d)
<1>8. c = p - 1 - g
  <2>. DEFINE j == p - g
  <2>1. j \in 1 .. m /\ g + j = p
    BY <1>1, <1>3
  <2>2. ~(j <= c)
    <3>1. y[j] = d
      BY <1>1, <2>1
    <3>. HIDE DEF m, y, j
    <3>. QED BY <1>1, <1>6, <2>1, <3>1
  <2>3. j > 1 => j - 1 <= c
    <3>. SUFFICES ASSUME j > 1 PROVE j - 1 <= c
      OBVIOUS
    <3>1. j - 1 \in 1 .. m /\ g + (j - 1) \in 1 .. N /\ g + (j - 1) < p
      BY <1>1, <1>3, <2>1
    <3>2. \A a, b \in 1 .. N : a < b => at[a] < at[b]
      BY <1>1 DEF Climbs
    <3>3. at[g + (j - 1)] < d
      BY <1>1, <3>1, <3>2
    <3>4. y[j - 1] < d
      BY <3>1, <3>3
    <3>. HIDE DEF m, y, j
    <3>. QED BY <1>6, <3>1, <3>4
  <2>4. c \in 0 .. m
    BY <1>6
  <2>. HIDE DEF c
  <2>. QED BY <1>1, <1>3, <2>1, <2>2, <2>3, <2>4
<1>9. AddAt(g, t, d) = g + c
  BY <1>7 DEF AddAt
<1>. HIDE DEF c
<1>10. g + (p - 1 - g) = p - 1
  BY <1>1, <1>3
<1>. QED BY <1>8, <1>9, <1>10 DEF t, p
(* One score is raised, and the search for the next one starts there.      *)
AddOne(acc, d, part) ==
  LET at == AddAt(acc.guess, acc.table, d) IN
  [table |-> [acc.table EXCEPT ![at + 1].value = @ + part], guess |-> at]

(* The scores val, those of the documents in B raised by their parts.      *)
Raised(val, part, B) == [d \in DOMAIN val |-> IF d \in B THEN val[d] + part[d] ELSE val[d]]

(* The search from place g finds d and raises its score, after those of B. *)
Credits(S, val, part, d, B, g) ==
  AddOne([table |-> Scored(S, Raised(val, part, B)), guess |-> g], d, part[d])
    = [table |-> Scored(S, Raised(val, part, B \union {d})), guess |-> Place(S, d) - 1]

(* It does, from every place that is not behind d.                         *)
LEMMA AddOneIs ==
  ASSUME NEW S, Docs(S), NEW val \in [S -> Int], NEW part \in [S -> Int], NEW d \in S,
         NEW B \in SUBSET S, d \notin B, NEW g \in 0 .. Place(S, d) - 1
  PROVE  Credits(S, val, part, d, B, g)
<1>. DEFINE N == Cardinality(S)
            at == Ascending(S)
            p == Place(S, d)
            v == Raised(val, part, B)
            w == Raised(val, part, B \union {d})
            t == Scored(S, v)
            u == Scored(S, w)
<1>1. /\ v \in [S -> Int] /\ w \in [S -> Int] /\ w[d] = v[d] + part[d]
      /\ \A x \in S : x # d => w[x] = v[x]
  BY DEF Raised
<1>2. /\ N \in Nat /\ at \in [1 .. N -> S] /\ p \in 1 .. N /\ at[p] = d
      /\ \A k \in 1 .. N : Place(S, at[k]) = k
  BY Places
<1>3. AddAt(g, t, d) = p - 1
  <2>. HIDE DEF v
  <2>. QED BY <1>1, AddAtFinds
<1>4. /\ t = [k \in 1 .. N |-> [index |-> at[k], value |-> v[at[k]]]]
      /\ u = [k \in 1 .. N |-> [index |-> at[k], value |-> w[at[k]]]]
  <2>1. Scored(S, v) = [k \in 1 .. N |-> [index |-> at[k], value |-> v[at[k]]]]
    <3>. HIDE DEF v
    <3>. QED BY <1>1, ScoredSays
  <2>2. Scored(S, w) = [k \in 1 .. N |-> [index |-> at[k], value |-> w[at[k]]]]
    <3>. HIDE DEF w
    <3>. QED BY <1>1, ScoredSays
  <2>. QED BY <2>1, <2>2
<1>5. (p - 1) + 1 = p
  BY <1>2
<1>. HIDE DEF N, at, p, v, w, t, u
<1>6. [t EXCEPT ![p].value = @ + part[d]] = u
  <2>. DEFINE x == [t EXCEPT ![p].value = @ + part[d]]
  <2>0. \A a, b, c : [[index |-> a, value |-> b] EXCEPT !.value = c] = [index |-> a, value |-> c]
    <3>. TAKE a, b, c
    <3>1. /\ DOMAIN [index |-> a, value |-> b] = {"index", "value"}
          /\ DOMAIN [[index |-> a, value |-> b] EXCEPT !.value = c] = {"index", "value"}
          /\ DOMAIN [index |-> a, value |-> c] = {"index", "value"}
      OBVIOUS
    <3>2. /\ [[index |-> a, value |-> b] EXCEPT !.value = c].value = c
          /\ [[index |-> a, value |-> b] EXCEPT !.value = c].index = a
      OBVIOUS
    <3>. QED BY <3>1, <3>2
  <2>1. DOMAIN t = 1 .. N /\ DOMAIN x = 1 .. N /\ DOMAIN u = 1 .. N
    BY <1>4
  <2>2. t[p] = [index |-> d, value |-> v[d]] /\ u[p] = [index |-> d, value |-> w[d]]
    BY <1>2, <1>4
  <2>3. x[p] = [t[p] EXCEPT !.value = t[p].value + part[d]]
    BY <1>2, <2>1
  <2>4. x[p] = u[p]
    <3>1. t[p].value + part[d] = w[d]
      BY <1>1, <2>2
    <3>2. x[p] = [[index |-> d, value |-> v[d]] EXCEPT !.value = w[d]]
      BY <2>2, <2>3, <3>1
    <3>. HIDE DEF x
    <3>. QED BY <2>0, <2>2, <3>2
  <2>5. ASSUME NEW k \in 1 .. N, k # p PROVE x[k] = u[k]
    <3>1. x[k] = t[k]
      BY <2>1, <2>5
    <3>2. at[k] # d /\ at[k] \in S
      BY <1>2, <2>5 DEF p
    <3>3. w[at[k]] = v[at[k]]
      BY <1>1, <3>2
    <3>. HIDE DEF x
    <3>. QED BY <1>4, <3>1, <3>3
  <2>6. x = [k \in 1 .. N |-> x[k]] /\ u = [k \in 1 .. N |-> u[k]]
    BY <2>1, <1>4
  <2>. HIDE DEF x
  <2>7. \A k \in 1 .. N : x[k] = u[k]
    BY <2>4, <2>5
  <2>8. x = u
    BY <2>6, <2>7
  <2>. QED BY <2>8 DEF x
<1>7. AddOne([table |-> t, guess |-> g], d, part[d])
        = [table |-> [t EXCEPT ![(p - 1) + 1].value = @ + part[d]], guess |-> p - 1]
  BY <1>3 DEF AddOne
<1>. QED BY <1>5, <1>6, <1>7 DEF p, v, w, t, u, Credits

(* The fold of a batch: one score after the other.                         *)
Crediting(f, n, base, batch, parts) ==
  f = [s \in SUBSET (1 .. n) |->
         IF s = {} THEN base
         ELSE AddOne(f[s \ {Max(s)}], batch[Max(s)], parts[Max(s)])]

(* A batch of documents of S, in ascending order.                          *)
BatchOf(S, batch) == batch \in [1 .. Len(batch) -> S] /\ Len(batch) \in Nat /\ Climbs(batch)

DocsIn(batch, I) == {batch[k] : k \in I}

(* What it comes to, from place g.                                         *)
Credited(S, val, part, batch, g) ==
  [table |-> Scored(S, Raised(val, part, DocsIn(batch, 1 .. Len(batch)))),
   guess |-> IF Len(batch) = 0 THEN g ELSE Place(S, batch[Len(batch)]) - 1]
CreditsAll(S, val, part, batch, g, base, parts) ==
  /\ \E f : Crediting(f, Len(batch), base, batch, parts)
  /\ \A f : Crediting(f, Len(batch), base, batch, parts) =>
       f[1 .. Len(batch)] = Credited(S, val, part, batch, g)

(* It exists, and raises the scores of all documents of the batch.         *)
LEMMA CreditingIs ==
  ASSUME NEW S, Docs(S), NEW val \in [S -> Int], NEW part \in [S -> Int],
         NEW batch, BatchOf(S, batch), NEW g \in Nat,
         Len(batch) > 0 => g < Place(S, batch[1]),
         NEW parts, \A k \in 1 .. Len(batch) : parts[k] = part[batch[k]],
         NEW base, base = [table |-> Scored(S, val), guess |-> g]
  PROVE  CreditsAll(S, val, part, batch, g, base, parts)
<1>. DEFINE n == Len(batch)
            G(s) == IF s = {} THEN g ELSE Place(S, batch[Max(s)]) - 1
            T(s) == Scored(S, Raised(val, part, DocsIn(batch, s)))
            h == [s \in SUBSET (1 .. n) |-> [table |-> T(s), guess |-> G(s)]]
<1>1. /\ n \in Nat /\ \A k \in 1 .. n : batch[k] \in S
      /\ \A i, j \in 1 .. n : i < j => batch[i] < batch[j]
  BY DEF BatchOf, Climbs
<1>2. /\ \A k \in 1 .. n : Place(S, batch[k]) \in Nat /\ batch[k] \in Nat
      /\ \A i, j \in 1 .. n : i < j => Place(S, batch[i]) < Place(S, batch[j])
      /\ \A i, j \in 1 .. n : batch[i] = batch[j] => i = j
  <2>1. /\ \A d \in S : d \in Nat /\ Place(S, d) \in 1 .. Cardinality(S)
        /\ Cardinality(S) \in Nat
        /\ \A d, e \in S : d < e => Place(S, d) < Place(S, e)
    BY Places
  <2>2. \A k \in 1 .. n : Place(S, batch[k]) \in Nat /\ batch[k] \in Nat
    BY <1>1, <2>1
  <2>3. \A i, j \in 1 .. n : i < j => Place(S, batch[i]) < Place(S, batch[j])
    BY <1>1, <2>1
  <2>4. ASSUME NEW i \in 1 .. n, NEW j \in 1 .. n, batch[i] = batch[j] PROVE i = j
    <3>1. ~(batch[i] < batch[j]) /\ ~(batch[j] < batch[i])
      BY <2>2, <2>4
    <3>2. ~(i < j) /\ ~(j < i)
      BY <1>1, <3>1
    <3>. QED BY <3>2, <1>1
  <2>. QED BY <2>2, <2>3, <2>4
<1>3. n > 0 => g < Place(S, batch[1])
  OBVIOUS
<1>. HIDE DEF n
<1>4. ASSUME NEW s \in SUBSET (1 .. n), s # {}
      PROVE  /\ Max(s) \in s /\ s \ {Max(s)} \in SUBSET (1 .. n)
             /\ AddOne(h[s \ {Max(s)}], batch[Max(s)], parts[Max(s)]) = h[s]
  <2>. DEFINE m == Max(s)
              z == s \ {m}
              B == DocsIn(batch, z)
              d == batch[m]
  <2>1. m \in s /\ \A y \in s : m >= y
    BY <1>1, <1>4, MaxOfPositions
  <2>2. m \in 1 .. n /\ d \in S /\ parts[m] = part[d]
    BY <1>1, <2>1 DEF n
  <2>3. d \notin B /\ B \union {d} = DocsIn(batch, s) /\ B \in SUBSET S
    <3>1. \A k \in z : k \in 1 .. n /\ k # m
      OBVIOUS
    <3>2. d \notin B
      BY <1>2, <2>2, <3>1 DEF DocsIn
    <3>3. s = z \union {m}
      BY <2>1
    <3>4. B \union {d} = DocsIn(batch, s)
      <4>. HIDE DEF z, m
      <4>. QED BY <3>3 DEF DocsIn
    <3>5. B \in SUBSET S
      BY <1>1, <3>1 DEF DocsIn
    <3>. QED BY <3>2, <3>4, <3>5
  <2>4. G(z) \in 0 .. Place(S, d) - 1
    <3>0. Place(S, d) \in Nat
      BY <1>2, <2>2
    <3>1. CASE z = {}
      <4>1. G(z) = g /\ n > 0 /\ 1 \in 1 .. n
        BY <1>1, <2>2, <3>1
      <4>2. g < Place(S, batch[1]) /\ Place(S, batch[1]) \in Nat
        BY <4>1, <1>2, <1>3
      <4>3. Place(S, batch[1]) <= Place(S, d)
        <5>1. m = 1 \/ 1 < m
          BY <2>2
        <5>2. 1 < m => Place(S, batch[1]) < Place(S, batch[m])
          BY <1>2, <2>2, <4>1
        <5>. HIDE DEF m
        <5>3. CASE m = 1
          BY <5>3, <4>2
        <5>4. CASE 1 < m
          BY <5>2, <5>4, <4>2, <3>0
        <5>. QED BY <5>1, <5>3, <5>4
      <4>. HIDE DEF G, d, m, z
      <4>. QED BY <4>1, <4>2, <4>3, <3>0
    <3>2. CASE z # {}
      <4>. DEFINE l == Max(z)
      <4>1. l \in z
        <5>1. z \in SUBSET (1 .. n)
          OBVIOUS
        <5>. HIDE DEF z
        <5>. QED BY <1>1, <3>2, <5>1, MaxOfPositions
      <4>2. l \in 1 .. n /\ l \in s /\ l # m
        BY <4>1
      <4>3. G(z) = Place(S, batch[l]) - 1
        BY <3>2
      <4>. HIDE DEF l, z, G
      <4>4. l < m
        BY <2>1, <2>2, <4>2
      <4>5. Place(S, batch[l]) < Place(S, batch[m]) /\ Place(S, batch[l]) \in Nat
        BY <1>2, <2>2, <4>2, <4>4
      <4>6. Place(S, batch[l]) >= 1
        <5>1. batch[l] \in S
          BY <1>1, <4>2
        <5>2. Place(S, batch[l]) \in 1 .. Cardinality(S) /\ Cardinality(S) \in Nat
          BY <5>1, Places
        <5>. QED BY <5>2
      <4>. HIDE DEF d, m
      <4>. QED BY <4>3, <4>5, <4>6, <3>0 DEF d
    <3>. QED BY <3>1, <3>2
  <2>5. z \in SUBSET (1 .. n)
    OBVIOUS
  <2>6. h[z] = [table |-> T(z), guess |-> G(z)] /\ h[s] = [table |-> T(s), guess |-> G(s)]
    <3>. HIDE DEF T, G, z
    <3>. QED BY <2>5
  <2>7. AddOne([table |-> Scored(S, Raised(val, part, B)), guess |-> G(z)], d, part[d])
          = [table |-> Scored(S, Raised(val, part, B \union {d})), guess |-> Place(S, d) - 1]
    <3>. DEFINE gz == G(z)
    <3>1. /\ d \in S /\ B \in SUBSET S /\ d \notin B /\ gz \in 0 .. Place(S, d) - 1
      BY <2>2, <2>3, <2>4
    <3>. HIDE DEF B, d, gz, G, z, m
    <3>2. d \in S
      BY <3>1
    <3>3. B \in SUBSET S
      BY <3>1
    <3>4. d \notin B
      BY <3>1
    <3>5. gz \in 0 .. Place(S, d) - 1
      BY <3>1
    <3>6. Credits(S, val, part, d, B, gz)
      BY ZenonT(60), <3>2, <3>3, <3>4, <3>5, AddOneIs
    <3>. QED BY <3>6 DEF gz, Credits
  <2>8. G(s) = Place(S, d) - 1
    BY <1>4
  <2>9. h[s] = [table |-> Scored(S, Raised(val, part, B \union {d})), guess |-> Place(S, d) - 1]
    <3>1. h[s] = [table |-> Scored(S, Raised(val, part, DocsIn(batch, s))), guess |-> G(s)]
      BY <2>6
    <3>. HIDE DEF h, G, d, B
    <3>. QED BY <2>3, <2>8, <3>1
  <2>10. h[z] = [table |-> Scored(S, Raised(val, part, B)), guess |-> G(z)]
    BY <2>6
  <2>. HIDE DEF h, G, T
  <2>11. AddOne(h[z], d, parts[m]) = h[s]
    <3>. HIDE DEF z, d, m, B
    <3>. QED BY <2>2, <2>7, <2>9, <2>10
  <2>. QED BY <2>1, <2>5, <2>11
<1>5. h[{}] = base
  <2>1. {} \in SUBSET (1 .. n)
    OBVIOUS
  <2>2. Raised(val, part, DocsIn(batch, {})) = val
    <3>1. DocsIn(batch, {}) = {}
      BY DEF DocsIn
    <3>2. [d \in DOMAIN val |-> val[d]] = val
      OBVIOUS
    <3>. QED BY <3>1, <3>2 DEF Raised
  <2>3. T({}) = Scored(S, val) /\ G({}) = g
    BY <2>2
  <2>. HIDE DEF T, G
  <2>. QED BY <2>1, <2>3
<1>6. Crediting(h, n, base, batch, parts)
  <2>1. h = [s \in SUBSET (1 .. n) |-> h[s]]
    OBVIOUS
  <2>. HIDE DEF h
  <2>2. \A s \in SUBSET (1 .. n) :
          h[s] = IF s = {} THEN base ELSE AddOne(h[s \ {Max(s)}], batch[Max(s)], parts[Max(s)])
    BY <1>4, <1>5
  <2>. QED BY <2>1, <2>2 DEF Crediting
<1>7. ASSUME NEW f, Crediting(f, n, base, batch, parts) PROVE f[1 .. n] = h[1 .. n]
  <2>. DEFINE K == {k \in Nat : k <= n => f[1 .. k] = h[1 .. k]}
  <2>1. \A s \in SUBSET (1 .. n) :
          f[s] = IF s = {} THEN base ELSE AddOne(f[s \ {Max(s)}], batch[Max(s)], parts[Max(s)])
    BY <1>7 DEF Crediting
  <2>. HIDE DEF h
  <2>2. 0 \in K
    <3>1. 1 .. 0 = {} /\ {} \in SUBSET (1 .. n)
      OBVIOUS
    <3>. QED BY <1>5, <2>1, <3>1
  <2>3. ASSUME NEW k \in Nat, k \in K PROVE k + 1 \in K
    <3>. SUFFICES ASSUME k + 1 <= n PROVE f[1 .. k + 1] = h[1 .. k + 1]
      OBVIOUS
    <3>. DEFINE i == k + 1
    <3>1. i \in 1 .. n /\ i - 1 = k
      BY <1>1
    <3>2. f[1 .. k] = h[1 .. k]
      BY <2>3, <1>1
    <3>. HIDE DEF i
    <3>3. 1 .. i \in SUBSET (1 .. n) /\ 1 .. i # {} /\ Max(1 .. i) = i /\ (1 .. i) \ {i} = 1 .. k
      BY <1>1, <3>1, LastPosition
    <3>4. f[1 .. i] = AddOne(f[1 .. k], batch[i], parts[i])
      BY <2>1, <3>3
    <3>5. h[1 .. i] = AddOne(h[1 .. k], batch[i], parts[i])
      BY <1>4, <3>3
    <3>. QED BY <3>2, <3>4, <3>5 DEF i
  <2>. HIDE DEF K
  <2>4. \A k \in Nat : k \in K
    BY <2>2, <2>3, NatInductive
  <2>5. n \in K
    BY <1>1, <2>4
  <2>. QED BY <1>1, <2>5 DEF K
<1>8. h[1 .. n] = [table |-> Scored(S, Raised(val, part, DocsIn(batch, 1 .. n))),
                   guess |-> IF n = 0 THEN g ELSE Place(S, batch[n]) - 1]
  <2>1. h[1 .. n] = [table |-> T(1 .. n), guess |-> G(1 .. n)]
    OBVIOUS
  <2>2. G(1 .. n) = IF n = 0 THEN g ELSE Place(S, batch[n]) - 1
    <3>1. CASE n = 0
      BY <3>1
    <3>2. CASE n # 0
      <4>1. n \in 1 .. n
        BY <1>1, <3>2
      <4>2. Max(1 .. n) = n /\ 1 .. n # {}
        BY <1>1, <4>1, LastPosition
      <4>. QED BY <3>2, <4>2
    <3>. QED BY <3>1, <3>2
  <2>3. T(1 .. n) = Scored(S, Raised(val, part, DocsIn(batch, 1 .. n)))
    OBVIOUS
  <2>. HIDE DEF h, T, G
  <2>. QED BY <2>1, <2>2, <2>3
<1>. HIDE DEF h
<1>. QED BY <1>6, <1>7, <1>8 DEF n, CreditsAll, Credited
-----------------------------------------------------------------------------
(***************************************************************************)
(* FieldScore.                                                             *)
(***************************************************************************)
(* Whether a document has the field, its least token, and the documents    *)
(* that rank before it.                                                    *)
HasSortIn(D, f, d) == \E v \in ValuesOf(D, f) : HasToken(D[d + 1], f, v)
SmallestIn(D, f, d) ==
  CHOOSE v \in DOMAIN D[d + 1].fields[f].tokens :
    \A w \in DOMAIN D[d + 1].fields[f].tokens : v <= w
BeforeIn(D, f, C, d) ==
  {e \in C : /\ HasSortIn(D, f, e)
             /\ \/ SmallestIn(D, f, e) < SmallestIn(D, f, d)
                \/ SmallestIn(D, f, e) = SmallestIn(D, f, d) /\ e < d}

(* The list of a token, and the candidates on the first n lists.           *)
ListAt(s, f, k) == s.lists[s.fields[f].tokens[k].list + 1]
OnLists(s, f, C, n) == {d \in C : \E k \in 1 .. n : d \in ListAt(s, f, k)}

(* A document is on a list when it has the field, and the first list that  *)
(* it is on is that of its least token.                                    *)
LEMMA FirstList ==
  ASSUME NEW D, NEW s, Searchable(D, s), NEW f \in DOMAIN s.fields, NEW d \in 0 .. Len(D) - 1
  PROVE  /\ HasSortIn(D, f, d) <=> \E k \in 1 .. Len(s.fields[f].tokens) : d \in ListAt(s, f, k)
         /\ \A k \in 1 .. Len(s.fields[f].tokens) :
              d \in ListAt(s, f, k) /\ (\A j \in 1 .. k - 1 : d \notin ListAt(s, f, j)) =>
                SmallestIn(D, f, d) = s.fields[f].tokens[k].value
<1>. DEFINE T == s.fields[f].tokens
            n == Len(T)
            S == ValuesOf(D, f)
            doc == D[d + 1]
            X == DOMAIN doc.fields[f].tokens
<1>1. /\ Sorted(T, S)
      /\ \A k \in 1 .. n : s.lists[T[k].list + 1] = Holders(D, f, T[k].value)
  BY FieldTokens
<1>2. /\ n \in Nat
      /\ \A k \in 1 .. n : T[k].value \in Nat /\ T[k].value \in S
      /\ \A x \in S : \E k \in 1 .. n : T[k].value = x
      /\ \A i, j \in 1 .. n : i < j => T[i].value < T[j].value
  <2>. HIDE DEF T, S
  <2>. QED BY <1>1, SortedSays DEF n
<1>3. \A k \in 1 .. n : d \in ListAt(s, f, k) <=> HasToken(doc, f, T[k].value)
  <2>. TAKE k \in 1 .. n
  <2>1. Holders(D, f, T[k].value) = {x \in 0 .. Len(D) - 1 : HasToken(D[x + 1], f, T[k].value)}
    BY HolderSays
  <2>2. ListAt(s, f, k) = Holders(D, f, T[k].value)
    BY <1>1 DEF ListAt
  <2>. QED BY <2>1, <2>2
<1>4. \A v : HasToken(doc, f, v) => v \in S
  <2>1. DOMAIN D = 1 .. Len(D) /\ d + 1 \in 1 .. Len(D)
    BY BatchSets DEF Searchable, IsCorpus
  <2>. QED BY <2>1 DEF ValuesOf, HasToken
<1>5. \A v : HasToken(doc, f, v) <=> f \in DOMAIN doc.fields /\ v \in X
  BY DEF HasToken
<1>6. HasSortIn(D, f, d) <=> \E v \in S : HasToken(doc, f, v)
  BY DEF HasSortIn
<1>7. SmallestIn(D, f, d) = CHOOSE v \in X : \A w \in X : v <= w
  BY DEF SmallestIn
<1>. HIDE DEF T, n, S, doc, X
<1>8. HasSortIn(D, f, d) <=> \E k \in 1 .. n : d \in ListAt(s, f, k)
  BY <1>2, <1>3, <1>6
<1>9. ASSUME NEW k \in 1 .. n, d \in ListAt(s, f, k), \A j \in 1 .. k - 1 : d \notin ListAt(s, f, j)
      PROVE  SmallestIn(D, f, d) = T[k].value
  <2>. DEFINE x == T[k].value
  <2>1. x \in X /\ x \in Nat /\ f \in DOMAIN doc.fields
    BY <1>2, <1>3, <1>5, <1>9
  <2>2. ASSUME NEW w \in X PROVE w \in Nat /\ x <= w
    <3>1. HasToken(doc, f, w) /\ w \in S
      BY <1>4, <1>5, <2>1
    <3>2. PICK j \in 1 .. n : T[j].value = w
      BY <1>2, <3>1
    <3>3. d \in ListAt(s, f, j)
      BY <1>3, <3>1, <3>2
    <3>4. ~(j < k)
      <4>1. j < k => j \in 1 .. k - 1
        BY <1>2
      <4>. QED BY <1>9, <3>3, <4>1
    <3>5. k = j \/ k < j
      BY <1>2, <3>4
    <3>6. w \in Nat
      BY <1>2, <3>2
    <3>7. k < j => x < w
      BY <1>2, <3>2
    <3>8. k = j => x = w
      BY <3>2
    <3>. QED BY <2>1, <3>5, <3>6, <3>7, <3>8
  <2>. HIDE DEF x
  <2>. DEFINE m == CHOOSE v \in X : \A w \in X : v <= w
  <2>3. m \in X /\ \A w \in X : m <= w
    BY <2>1, <2>2
  <2>. HIDE DEF m
  <2>4. m \in Nat /\ x <= m /\ m <= x
    BY <2>1, <2>2, <2>3
  <2>5. m = x
    BY <2>1, <2>4
  <2>. QED BY <1>7, <2>5 DEF m, x
<1>. QED BY <1>8, <1>9 DEF n, T

(* What list w + 1 adds, the candidates R.                                 *)
Follows(D, s, f, C, w, R) ==
  /\ OnLists(s, f, C, w + 1) = OnLists(s, f, C, w) \union R
  /\ \A d \in R : BeforeIn(D, f, C, d) = OnLists(s, f, C, w) \union {x \in R : x < d}

(* The candidates that the list of the next token adds are ranked behind   *)
(* those on the lists before it, among each other by their index, and in   *)
(* front of all others.                                                    *)
LEMMA NextList ==
  ASSUME NEW D, NEW s, Searchable(D, s), NEW f \in DOMAIN s.fields,
         NEW C \in SUBSET (0 .. Len(D) - 1),
         NEW w \in Nat, w + 1 <= Len(s.fields[f].tokens),
         NEW R, R = (C \ OnLists(s, f, C, w)) \intersect ListAt(s, f, w + 1)
  PROVE  Follows(D, s, f, C, w, R)
<1>. DEFINE n == Len(s.fields[f].tokens)
            V(k) == s.fields[f].tokens[k].value
            A == OnLists(s, f, C, w)
<1>1. /\ n \in Nat
      /\ \A k \in 1 .. n : V(k) \in Nat
      /\ \A i, j \in 1 .. n : i < j => V(i) < V(j)
  <2>1. Sorted(s.fields[f].tokens, ValuesOf(D, f))
    BY FieldTokens
  <2>. QED BY <2>1, SortedSays
<1>2. w + 1 \in 1 .. n /\ (1 .. w + 1) = (1 .. w) \union {w + 1} /\ (w + 1) - 1 = w
  BY <1>1
<1>3. OnLists(s, f, C, w + 1) = A \union R
  BY <1>2 DEF OnLists
<1>4. \A d \in R : SmallestIn(D, f, d) = V(w + 1) /\ HasSortIn(D, f, d)
  <2>. TAKE d \in R
  <2>1. d \in C /\ d \in ListAt(s, f, w + 1) /\ \A j \in 1 .. (w + 1) - 1 : d \notin ListAt(s, f, j)
    BY <1>2 DEF OnLists
  <2>2. d \in 0 .. Len(D) - 1
    BY <2>1
  <2>. QED BY <1>2, <2>1, <2>2, FirstList
<1>5. \A d \in C : HasSortIn(D, f, d) =>
        \E k \in 1 .. n : /\ d \in ListAt(s, f, k) /\ SmallestIn(D, f, d) = V(k)
                          /\ \A j \in 1 .. k - 1 : d \notin ListAt(s, f, j)
  <2>. SUFFICES ASSUME NEW d \in C, HasSortIn(D, f, d)
                PROVE  \E k \in 1 .. n : /\ d \in ListAt(s, f, k) /\ SmallestIn(D, f, d) = V(k)
                                         /\ \A j \in 1 .. k - 1 : d \notin ListAt(s, f, j)
    OBVIOUS
  <2>. DEFINE K == {k \in 1 .. n : d \in ListAt(s, f, k)}
  <2>1. d \in 0 .. Len(D) - 1
    OBVIOUS
  <2>2. K # {} /\ K \in SUBSET Nat
    <3>1. \E k \in 1 .. n : d \in ListAt(s, f, k)
      BY <2>1, FirstList
    <3>2. \A k \in 1 .. n : k \in Nat
      BY <1>1
    <3>. QED BY <3>1, <3>2
  <2>3. PICK k \in K : \A j \in K : k <= j
    BY <2>2, NatLeast
  <2>4. k \in 1 .. n /\ d \in ListAt(s, f, k)
    BY <2>3
  <2>5. ASSUME NEW j \in 1 .. k - 1 PROVE d \notin ListAt(s, f, j)
    <3>1. j \in 1 .. n /\ ~(k <= j)
      BY <1>1, <2>4
    <3>. QED BY <2>3, <3>1
  <2>6. SmallestIn(D, f, d) = V(k)
    BY <2>1, <2>4, <2>5, FirstList
  <2>. QED BY <2>4, <2>5, <2>6
<1>6. \A d \in A : HasSortIn(D, f, d) /\ SmallestIn(D, f, d) < V(w + 1)
  <2>. SUFFICES ASSUME NEW d \in A PROVE HasSortIn(D, f, d) /\ SmallestIn(D, f, d) < V(w + 1)
    OBVIOUS
  <2>1. d \in C /\ d \in 0 .. Len(D) - 1
    BY DEF OnLists
  <2>2. PICK i \in 1 .. w : d \in ListAt(s, f, i)
    BY DEF OnLists
  <2>3. i \in 1 .. n /\ i < w + 1
    BY <1>1, <1>2
  <2>4. HasSortIn(D, f, d)
    BY <2>1, <2>2, <2>3, FirstList
  <2>5. PICK k \in 1 .. n : /\ d \in ListAt(s, f, k) /\ SmallestIn(D, f, d) = V(k)
                            /\ \A j \in 1 .. k - 1 : d \notin ListAt(s, f, j)
    BY <1>5, <2>1, <2>4
  <2>6. ~(i < k)
    <3>1. i < k => i \in 1 .. k - 1
      BY <1>1, <2>3
    <3>. QED BY <2>2, <2>5, <3>1
  <2>7. k < w + 1
    BY <1>1, <2>3, <2>6
  <2>. HIDE DEF V, n
  <2>. QED BY <1>1, <1>2, <2>4, <2>5, <2>7
<1>7. \A d \in C : d \notin A /\ d \notin R /\ HasSortIn(D, f, d) => V(w + 1) < SmallestIn(D, f, d)
  <2>. SUFFICES ASSUME NEW d \in C, d \notin A, d \notin R, HasSortIn(D, f, d)
                PROVE  V(w + 1) < SmallestIn(D, f, d)
    OBVIOUS
  <2>1. PICK k \in 1 .. n : d \in ListAt(s, f, k) /\ SmallestIn(D, f, d) = V(k)
    BY <1>5
  <2>2. k \notin 1 .. w + 1
    BY <1>3, <2>1 DEF OnLists
  <2>3. w + 1 < k
    BY <1>1, <1>2, <2>2
  <2>. HIDE DEF V, n
  <2>. QED BY <1>1, <1>2, <2>1, <2>3
<1>8. ASSUME NEW d \in R, NEW e
      PROVE  e \in BeforeIn(D, f, C, d) <=> e \in A \union {x \in R : x < d}
  <2>1. e \in BeforeIn(D, f, C, d) <=>
          /\ e \in C /\ HasSortIn(D, f, e)
          /\ \/ SmallestIn(D, f, e) < V(w + 1)
             \/ SmallestIn(D, f, e) = V(w + 1) /\ e < d
    BY <1>4 DEF BeforeIn
  <2>2. V(w + 1) \in Nat
    BY <1>1, <1>2
  <2>3. A \subseteq C /\ R \subseteq C
    BY DEF OnLists
  <2>4. CASE e \in A
    BY <1>6, <2>1, <2>3, <2>4
  <2>5. CASE e \in R
    <3>1. e \notin A
      BY <2>5
    <3>2. ~(V(w + 1) < V(w + 1))
      BY <2>2
    <3>. HIDE DEF A, V
    <3>. QED BY <1>4, <2>1, <2>3, <2>5, <3>1, <3>2
  <2>6. CASE e \notin A /\ e \notin R
    <3>1. ASSUME e \in C, HasSortIn(D, f, e)
          PROVE  ~(SmallestIn(D, f, e) < V(w + 1)) /\ SmallestIn(D, f, e) # V(w + 1)
      <4>1. PICK k \in 1 .. n : SmallestIn(D, f, e) = V(k)
        BY <1>5, <3>1
      <4>2. V(w + 1) < SmallestIn(D, f, e)
        BY <1>7, <2>6, <3>1
      <4>3. V(k) \in Nat
        BY <1>1
      <4>. HIDE DEF V
      <4>. QED BY <2>2, <4>1, <4>2, <4>3
    <3>. QED BY <2>1, <2>6, <3>1
  <2>. QED BY <2>4, <2>5, <2>6
<1>9. \A d \in R : BeforeIn(D, f, C, d) = A \union {x \in R : x < d}
  BY <1>8
<1>. QED BY <1>3, <1>9 DEF Follows

(* The scores when the candidates A have theirs: from the number of the    *)
(* candidates down.                                                        *)
RankedIn(D, f, C, A) ==
  [d \in C |-> IF d \in A THEN Cardinality(C) - Cardinality(BeforeIn(D, f, C, d)) ELSE 0]

(* FieldScore has walked over w tokens.                                    *)
WalkInv(D, s, f, C, P, a, w, sc) ==
  /\ f \in DOMAIN s.fields
  /\ w \in 0 .. Len(s.fields[f].tokens)
  /\ P = C \ OnLists(s, f, C, w)
  /\ a = Cardinality(OnLists(s, f, C, w))
  /\ sc = Scored(C, RankedIn(D, f, C, OnLists(s, f, C, w)))

(* Document indices are finitely many numbers.                             *)
LEMMA IndexSets ==
  ASSUME NEW D, NEW s, Searchable(D, s), NEW C \in SUBSET (0 .. Len(D) - 1)
  PROVE  Docs(C)
<1>1. Len(D) \in Nat
  BY BatchSets DEF Searchable, IsCorpus
<1>2. IsFiniteSet(0 .. Len(D) - 1)
  BY <1>1, FS_Interval
<1>3. IsFiniteSet(C)
  BY <1>2, FS_Subset
<1>4. \A d \in C : d \in Nat
  BY <1>1
<1>. QED BY <1>3, <1>4 DEF Docs, Numbers

(* A candidate is ranked.                                                  *)
LEMMA RankedSays ==
  ASSUME NEW D, NEW f, NEW C, Docs(C), NEW A
  PROVE  /\ \A d \in C : Cardinality(BeforeIn(D, f, C, d)) \in 0 .. Cardinality(C)
         /\ RankedIn(D, f, C, A) \in [C -> Int]
         /\ \A d \in C : RankedIn(D, f, C, A)[d] \in Nat
         /\ RankedIn(D, f, C, {}) = [d \in C |-> 0]
<1>1. IsFiniteSet(C) /\ Cardinality(C) \in Nat
  BY FS_CardinalityType DEF Docs
<1>2. ASSUME NEW d \in C
      PROVE  Cardinality(BeforeIn(D, f, C, d)) \in 0 .. Cardinality(C)
  <2>. DEFINE B == BeforeIn(D, f, C, d)
  <2>1. B \in SUBSET C
    BY DEF BeforeIn
  <2>2. IsFiniteSet(B) /\ Cardinality(B) <= Cardinality(C)
    BY <1>1, <2>1, FS_Subset
  <2>3. Cardinality(B) \in Nat
    BY <2>2, FS_CardinalityType
  <2>. QED BY <1>1, <2>2, <2>3
<1>3. \A d \in C : RankedIn(D, f, C, A)[d] \in Nat
  <2>. TAKE d \in C
  <2>1. RankedIn(D, f, C, A)[d]
          = IF d \in A THEN Cardinality(C) - Cardinality(BeforeIn(D, f, C, d)) ELSE 0
    BY DEF RankedIn
  <2>. QED BY <1>1, <1>2, <2>1
<1>4. DOMAIN RankedIn(D, f, C, A) = C
  BY DEF RankedIn
<1>5. RankedIn(D, f, C, A) \in [C -> Int]
  BY <1>3, <1>4 DEF RankedIn
<1>6. RankedIn(D, f, C, {}) = [d \in C |-> 0]
  BY DEF RankedIn
<1>. QED BY <1>2, <1>3, <1>5, <1>6

(* NewScoring: all scores are 0.                                           *)
LEMMA NewScores ==
  ASSUME NEW C, Docs(C)
  PROVE  NewScoring(C) = Scored(C, [d \in C |-> 0])
<1>. DEFINE at == Ascending(C)
            v == [d \in C |-> 0]
<1>1. at \in [1 .. Cardinality(C) -> C] /\ DOMAIN at = 1 .. Cardinality(C)
  BY Places
<1>2. \A k \in DOMAIN at : v[at[k]] = 0
  BY <1>1
<1>3. NewScoring(C) = [k \in DOMAIN at |-> [index |-> at[k], value |-> 0]]
  BY DEF NewScoring
<1>4. Scored(C, v) = [k \in DOMAIN at |-> [index |-> at[k], value |-> v[at[k]]]]
  BY DEF Scored
<1>. QED BY <1>2, <1>3, <1>4

(* FieldScore starts.                                                      *)
LEMMA WalkStarts ==
  ASSUME NEW D, NEW s, Searchable(D, s), NEW f \in DOMAIN s.fields,
         NEW C \in SUBSET (0 .. Len(D) - 1)
  PROVE  WalkInv(D, s, f, C, C, 0, 0, NewScoring(C))
<1>1. OnLists(s, f, C, 0) = {}
  BY DEF OnLists
<1>2. Docs(C)
  BY IndexSets
<1>3. Len(s.fields[f].tokens) \in Nat
  BY FieldTokens, SortedSays
<1>4. Cardinality({}) = 0
  BY FS_EmptySet
<1>5. NewScoring(C) = Scored(C, RankedIn(D, f, C, {}))
  BY <1>2, NewScores, RankedSays
<1>. QED BY <1>1, <1>3, <1>4, <1>5 DEF WalkInv

(* The part of the k-th one that a token resolves.                         *)
Resolving(C, a, R) == [k \in 1 .. Cardinality(R) |-> Cardinality(C) - (a + (k - 1))]

(* FieldScore walks over one more token.                                   *)
LEMMA WalkStep ==
  ASSUME NEW D, NEW s, Searchable(D, s), NEW f, NEW C \in SUBSET (0 .. Len(D) - 1),
         NEW P, NEW a, NEW w, NEW sc, WalkInv(D, s, f, C, P, a, w, sc),
         w < Len(s.fields[f].tokens), NEW R, R = P \intersect ListAt(s, f, w + 1)
  PROVE  /\ Len(Ascending(R)) = Cardinality(R) /\ Cardinality(R) \in Nat /\ Len(sc) = Cardinality(C)
         /\ \E h : Crediting(h, Cardinality(R), [table |-> sc, guess |-> 0], Ascending(R),
                             Resolving(C, a, R))
         /\ \A h : Crediting(h, Cardinality(R), [table |-> sc, guess |-> 0], Ascending(R),
                             Resolving(C, a, R)) =>
              WalkInv(D, s, f, C, P \ ListAt(s, f, w + 1), a + Cardinality(R), w + 1,
                      h[1 .. Cardinality(R)].table)
<1>. DEFINE n == Len(s.fields[f].tokens)
            A == OnLists(s, f, C, w)
            A2 == OnLists(s, f, C, w + 1)
            N == Cardinality(C)
            r == Cardinality(R)
            batch == Ascending(R)
            val == RankedIn(D, f, C, A)
            part == [d \in C |-> N - Cardinality(BeforeIn(D, f, C, d))]
            parts == Resolving(C, a, R)
<1>1. /\ f \in DOMAIN s.fields /\ w \in Nat /\ w + 1 <= n /\ w + 1 \in 0 .. n
      /\ P = C \ A /\ a = Cardinality(A) /\ sc = Scored(C, val)
      /\ R = (C \ A) \intersect ListAt(s, f, w + 1)
  <2>1. f \in DOMAIN s.fields /\ w \in 0 .. n /\ P = C \ A /\ a = Cardinality(A) /\ sc = Scored(C, val)
    BY DEF WalkInv
  <2>2. n \in Nat
    BY <2>1, FieldTokens, SortedSays
  <2>. HIDE DEF n
  <2>3. w \in Nat /\ w + 1 <= n /\ w + 1 \in 0 .. n
    BY <2>1, <2>2 DEF n
  <2>. QED BY <2>1, <2>3
<1>2. /\ A2 = A \union R
      /\ \A d \in R : BeforeIn(D, f, C, d) = A \union {x \in R : x < d}
  <2>1. f \in DOMAIN s.fields
    BY <1>1
  <2>2. w \in Nat
    BY <1>1
  <2>3. w + 1 <= Len(s.fields[f].tokens)
    BY <1>1
  <2>4. R = (C \ OnLists(s, f, C, w)) \intersect ListAt(s, f, w + 1)
    BY <1>1
  <2>5. Follows(D, s, f, C, w, R)
    BY <2>1, <2>2, <2>3, <2>4, NextList
  <2>. QED BY <2>5 DEF Follows
<1>3. Docs(C) /\ N \in Nat /\ R \in SUBSET C /\ A \in SUBSET C /\ R \intersect A = {}
  <2>1. Docs(C)
    BY IndexSets
  <2>2. N \in Nat
    BY <2>1, FS_CardinalityType DEF Docs
  <2>. QED BY <1>1, <2>1, <2>2 DEF OnLists
<1>4. Docs(R) /\ IsFiniteSet(A) /\ IsFiniteSet(R)
  BY <1>3, FS_Subset DEF Docs, Numbers
<1>5. /\ r \in Nat /\ batch \in [1 .. r -> R] /\ Len(batch) = r /\ Climbs(batch)
      /\ \A d \in R : \E k \in 1 .. r : batch[k] = d
      /\ \A k \in 1 .. r : Cardinality({x \in R : x < batch[k]}) = k - 1
  <2>1. r \in Nat
    BY <1>4, FS_CardinalityType
  <2>2. /\ Lists(batch, R) /\ Len(batch) = r
        /\ \A k \in 1 .. r : Cardinality({y \in R : y < batch[k]}) = k - 1
    <3>1. IsFiniteSet(R)
      BY <1>4
    <3>2. Numbers(R)
      BY <1>4 DEF Docs
    <3>. QED BY ONLY <3>1, <3>2, AscendingLists
  <2>. QED BY <2>1, <2>2 DEF Lists
<1>6. /\ val \in [C -> Int] /\ part \in [C -> Int]
      /\ \A d \in C : Cardinality(BeforeIn(D, f, C, d)) \in 0 .. N
  <2>1. /\ val \in [C -> Int]
        /\ \A d \in C : Cardinality(BeforeIn(D, f, C, d)) \in 0 .. N
    BY <1>3, RankedSays
  <2>. HIDE DEF N
  <2>2. part \in [C -> Int]
    BY <1>3, <2>1
  <2>. QED BY <2>1, <2>2
<1>7. Len(sc) = N
  <2>. HIDE DEF val
  <2>. QED BY <1>1, <1>3, <1>6, ScoredSays
<1>8. a \in Nat /\ Cardinality(A2) = a + r
  <2>1. Cardinality(A \union R) = Cardinality(A) + Cardinality(R) - Cardinality(A \intersect R)
    BY <1>4, FS_Union
  <2>2. Cardinality(A \intersect R) = 0
    BY <1>3, FS_EmptySet
  <2>3. Cardinality(A) \in Nat
    BY <1>4, FS_CardinalityType
  <2>4. Cardinality(R) = r /\ a = Cardinality(A) /\ r \in Nat
    BY <1>1, <1>5
  <2>5. A2 = A \union R
    BY <1>2
  <2>. HIDE DEF A, A2, r
  <2>. QED BY <2>1, <2>2, <2>3, <2>4, <2>5
<1>9. ASSUME NEW k \in 1 .. r PROVE parts[k] = part[batch[k]]
  <2>. DEFINE d == batch[k]
              B == {x \in R : x < d}
  <2>1. d \in R /\ d \in C /\ Cardinality(B) = k - 1
    BY <1>3, <1>5
  <2>2. IsFiniteSet(B) /\ A \intersect B = {}
    BY <1>3, <1>4, FS_Subset
  <2>3. Cardinality(A \union B) = Cardinality(A) + Cardinality(B) - Cardinality(A \intersect B)
    BY <1>4, <2>2, FS_Union
  <2>4. Cardinality(A \intersect B) = 0
    BY <2>2, FS_EmptySet
  <2>5. BeforeIn(D, f, C, d) = A \union B
    BY <1>2, <2>1
  <2>6. part[d] = N - Cardinality(A \union B)
    BY <2>1, <2>5
  <2>7. parts[k] = N - (a + (k - 1))
    BY DEF Resolving
  <2>8. k - 1 \in Int /\ a \in Int /\ Cardinality(A) = a
    BY <1>1, <1>5, <1>8
  <2>. HIDE DEF d, B, A, N, part, parts, r
  <2>9. Cardinality(A \union B) = a + (k - 1)
    BY <2>1, <2>3, <2>4, <2>8
  <2>. QED BY <2>6, <2>7, <2>9 DEF d
<1>10. BatchOf(C, batch) /\ DocsIn(batch, 1 .. r) = R
  <2>1. batch \in [1 .. r -> C]
    BY <1>3, <1>5
  <2>2. BatchOf(C, batch)
    BY <1>5, <2>1 DEF BatchOf
  <2>3. DocsIn(batch, 1 .. r) = R
    BY <1>5 DEF DocsIn
  <2>. QED BY <2>2, <2>3
<1>11. Raised(val, part, R) = RankedIn(D, f, C, A2)
  <2>1. ASSUME NEW d \in C
        PROVE  (IF d \in R THEN val[d] + part[d] ELSE val[d])
                 = (IF d \in A2 THEN N - Cardinality(BeforeIn(D, f, C, d)) ELSE 0)
    <3>1. val[d] = IF d \in A THEN N - Cardinality(BeforeIn(D, f, C, d)) ELSE 0
      BY DEF RankedIn
    <3>2. part[d] = N - Cardinality(BeforeIn(D, f, C, d)) /\ part[d] \in Int
      BY <1>6
    <3>3. CASE d \in R
      <4>1. d \notin A /\ d \in A2
        BY <1>2, <1>3, <3>3
      <4>2. val[d] = 0
        BY <3>1, <4>1
      <4>. HIDE DEF A, A2, val, part
      <4>. QED BY <3>2, <3>3, <4>1, <4>2
    <3>4. CASE d \notin R
      <4>1. d \in A <=> d \in A2
        BY <1>2, <3>4
      <4>. HIDE DEF A, A2, val, part
      <4>. QED BY <3>1, <3>4, <4>1
    <3>. QED BY <3>3, <3>4
  <2>2. DOMAIN val = C
    BY <1>6
  <2>3. Raised(val, part, R) = [d \in C |-> IF d \in R THEN val[d] + part[d] ELSE val[d]]
    BY <2>2 DEF Raised
  <2>4. RankedIn(D, f, C, A2)
          = [d \in C |-> IF d \in A2 THEN N - Cardinality(BeforeIn(D, f, C, d)) ELSE 0]
    BY DEF RankedIn
  <2>. HIDE DEF val, part, A2, N
  <2>. QED BY <2>1, <2>3, <2>4
<1>12. \A k \in 1 .. Len(batch) : parts[k] = part[batch[k]]
  BY <1>5, <1>9
<1>13. Len(batch) > 0 => 0 < Place(C, batch[1])
  <2>. SUFFICES ASSUME Len(batch) > 0 PROVE 0 < Place(C, batch[1])
    OBVIOUS
  <2>1. batch[1] \in C
    <3>1. batch[1] \in R
      <4>. HIDE DEF batch, r
      <4>. QED BY <1>5
    <3>. QED BY <1>3, <3>1
  <2>2. Place(C, batch[1]) \in 1 .. N
    BY <1>3, <2>1, Places
  <2>. QED BY <1>3, <2>2
<1>. DEFINE base == [table |-> sc, guess |-> 0]
<1>14. base = [table |-> Scored(C, val), guess |-> 0]
  BY <1>1
<1>15. CreditsAll(C, val, part, batch, 0, base, parts)
  <2>. HIDE DEF val, part, parts, batch, base
  <2>. QED BY <1>3, <1>6, <1>10, <1>12, <1>13, <1>14, CreditingIs
<1>16. ASSUME NEW h, Crediting(h, r, base, batch, parts)
       PROVE  WalkInv(D, s, f, C, P \ ListAt(s, f, w + 1), a + r, w + 1, h[1 .. r].table)
  <2>1. h[1 .. r].table = Scored(C, RankedIn(D, f, C, A2))
    <3>. HIDE DEF val, part, parts, batch, base, r, A2
    <3>1. h[1 .. r] = Credited(C, val, part, batch, 0)
      BY <1>5, <1>15, <1>16 DEF CreditsAll
    <3>2. Credited(C, val, part, batch, 0).table
            = Scored(C, Raised(val, part, DocsIn(batch, 1 .. Len(batch))))
      BY DEF Credited
    <3>3. DocsIn(batch, 1 .. Len(batch)) = R
      BY <1>5, <1>10
    <3>. QED BY <1>11, <3>1, <3>2, <3>3
  <2>2. P \ ListAt(s, f, w + 1) = C \ A2
    BY <1>1, <1>2
  <2>. QED BY <1>1, <1>8, <2>1, <2>2 DEF WalkInv
<1>. HIDE DEF r, batch, parts, base
<1>17. \E h : Crediting(h, r, base, batch, parts)
  BY <1>5, <1>15 DEF CreditsAll
<1>. QED BY <1>5, <1>7, <1>16, <1>17 DEF r, batch, parts, base
(* The scores that a search by a field ends with.                          *)
FieldScores(D, f, C) ==
  {[index |-> d,
    value |-> IF HasSortIn(D, f, d) THEN Cardinality(C) - Cardinality(BeforeIn(D, f, C, d)) ELSE 0]
     : d \in C}

(* FieldScore is through: no candidate is pending, or no token is left.    *)
LEMMA WalkEnds ==
  ASSUME NEW D, NEW s, Searchable(D, s), NEW f, NEW C \in SUBSET (0 .. Len(D) - 1),
         NEW P, NEW a, NEW w, NEW sc, WalkInv(D, s, f, C, P, a, w, sc),
         P = {} \/ w = Len(s.fields[f].tokens)
  PROVE  ToSet(sc) = FieldScores(D, f, C)
<1>. DEFINE n == Len(s.fields[f].tokens)
            A == OnLists(s, f, C, w)
            val == RankedIn(D, f, C, A)
<1>1. /\ f \in DOMAIN s.fields /\ w \in 0 .. n /\ P = C \ A /\ sc = Scored(C, val) /\ n \in Nat
  <2>1. f \in DOMAIN s.fields /\ w \in 0 .. n /\ P = C \ A /\ sc = Scored(C, val)
    BY DEF WalkInv
  <2>2. n \in Nat
    BY <2>1, FieldTokens, SortedSays
  <2>. QED BY <2>1, <2>2
<1>2. Docs(C)
  BY IndexSets
<1>3. val \in [C -> Int]
  BY <1>2, RankedSays
<1>4. ToSet(sc) = ScoreSet(C, val)
  <2>1. sc = Scored(C, val)
    BY <1>1
  <2>. HIDE DEF val
  <2>2. ToSet(Scored(C, val)) = ScoreSet(C, val)
    BY <1>2, <1>3, ScoredSet
  <2>. QED BY <2>1, <2>2
<1>5. \A d \in C : d \in A <=> HasSortIn(D, f, d)
  <2>. TAKE d \in C
  <2>1. d \in 0 .. Len(D) - 1
    OBVIOUS
  <2>2. HasSortIn(D, f, d) <=> \E k \in 1 .. n : d \in ListAt(s, f, k)
    BY <1>1, <2>1, FirstList
  <2>3. d \in A <=> \E k \in 1 .. w : d \in ListAt(s, f, k)
    BY DEF OnLists
  <2>4. \A k \in 1 .. w : k \in 1 .. n
    BY <1>1
  <2>5. CASE P = {}
    BY <1>1, <2>2, <2>3, <2>4, <2>5
  <2>6. CASE w = n
    BY <2>2, <2>3, <2>6
  <2>. QED BY <2>5, <2>6
<1>6. \A d \in C : val[d] = IF HasSortIn(D, f, d)
                            THEN Cardinality(C) - Cardinality(BeforeIn(D, f, C, d)) ELSE 0
  BY <1>5 DEF RankedIn
<1>. HIDE DEF val
<1>. QED BY <1>4, <1>6 DEF FieldScores, ScoreSet

(* ScoreByToken walks over one more token.                                 *)
LEMMA WalkTurns ==
  ASSUME SearchInv, WalkInv(docs, seg, view.field, bitmap, pending, assigned, walked, scores),
         ScoreByToken
  PROVE  WalkInv(docs, seg, view.field, bitmap, pending', assigned', walked', scores')
<1>. DEFINE f == view.field
            list == ListAt(seg, f, walked + 1)
            R == pending \intersect list
            r == Cardinality(R)
            batch == Ascending(R)
            ks == [k \in DOMAIN batch |-> k]
            base == [table |-> scores, guess |-> 0]
            parts == Resolving(bitmap, assigned, R)
            Fold(h) == h = [s \in SUBSET (DOMAIN ks) |->
                              IF s = {} THEN base
                              ELSE AddOne(h[s \ {Max(s)}], batch[ks[Max(s)]],
                                          Len(scores) - (assigned + ks[Max(s)] - 1))]
<1>1. /\ walked < Len(seg.fields[f].tokens)
      /\ scores' = (CHOOSE h : Fold(h))[DOMAIN ks].table
      /\ assigned' = assigned + Len(batch) /\ pending' = pending \ list /\ walked' = walked + 1
  BY DEF ScoreByToken, StillPending, ListAt, FoldLeft, MapThenFoldSet, AddOne
<1>2. Searchable(docs, seg) /\ bitmap \in SUBSET (0 .. Len(docs) - 1)
  BY DEF SearchInv, AskedInv, FilterInv
<1>3. /\ Len(batch) = r /\ r \in Nat /\ Len(scores) = Cardinality(bitmap)
      /\ \E h : Crediting(h, r, base, batch, parts)
      /\ \A h : Crediting(h, r, base, batch, parts) =>
           WalkInv(docs, seg, f, bitmap, pending \ list, assigned + r, walked + 1, h[1 .. r].table)
  BY <1>1, <1>2, WalkStep
<1>4. DOMAIN batch = 1 .. r /\ DOMAIN ks = 1 .. r /\ \A k \in 1 .. r : ks[k] = k
  <2>1. DOMAIN batch = 1 .. r
    BY DEF Ascending
  <2>. QED BY <2>1
<1>5. ASSUME NEW h PROVE Fold(h) <=> Crediting(h, r, base, batch, parts)
  <2>1. ASSUME NEW s \in SUBSET (1 .. r), s # {}
        PROVE  /\ ks[Max(s)] = Max(s)
               /\ parts[Max(s)] = Len(scores) - (assigned + ks[Max(s)] - 1)
    <3>1. Max(s) \in 1 .. r
      BY <1>3, <2>1, MaxOfPositions
    <3>2. ks[Max(s)] = Max(s)
      BY <1>4, <3>1
    <3>3. parts[Max(s)] = Cardinality(bitmap) - (assigned + (Max(s) - 1))
      BY <3>1 DEF Resolving
    <3>. HIDE DEF r, ks, parts
    <3>. QED BY <1>3, <3>2, <3>3
  <2>. HIDE DEF r, ks, parts, base, batch
  <2>2. \A s \in SUBSET (1 .. r) :
          (IF s = {} THEN base ELSE AddOne(h[s \ {Max(s)}], batch[ks[Max(s)]],
                                           Len(scores) - (assigned + ks[Max(s)] - 1)))
            = (IF s = {} THEN base ELSE AddOne(h[s \ {Max(s)}], batch[Max(s)], parts[Max(s)]))
    BY <2>1
  <2>3. Fold(h) <=> h = [s \in SUBSET (1 .. r) |->
                           IF s = {} THEN base
                           ELSE AddOne(h[s \ {Max(s)}], batch[ks[Max(s)]],
                                       Len(scores) - (assigned + ks[Max(s)] - 1))]
    BY <1>4
  <2>4. [s \in SUBSET (1 .. r) |->
           IF s = {} THEN base
           ELSE AddOne(h[s \ {Max(s)}], batch[ks[Max(s)]],
                       Len(scores) - (assigned + ks[Max(s)] - 1))]
          = [s \in SUBSET (1 .. r) |->
               IF s = {} THEN base ELSE AddOne(h[s \ {Max(s)}], batch[Max(s)], parts[Max(s)])]
    BY <2>2
  <2>. HIDE DEF Fold
  <2>. QED BY <2>3, <2>4 DEF Crediting
<1>. HIDE DEF Fold, r, ks, parts, base, batch, list
<1>6. \E h : Fold(h)
  BY <1>3, <1>5
<1>7. Fold(CHOOSE h : Fold(h))
  BY <1>6
<1>8. WalkInv(docs, seg, f, bitmap, pending \ list, assigned + r, walked + 1, scores')
  BY <1>1, <1>3, <1>4, <1>5, <1>7
<1>. QED BY <1>1, <1>3, <1>8

(* What a table is sorted to has the same scores.                          *)
LEMMA SortedSame ==
  ASSUME NEW t, IsFiniteSet(ToSet(t)), NEW table \in SetToSeqs(ToSet(t))
  PROVE  /\ ToSet(table) = ToSet(t)
         /\ DOMAIN table = 1 .. Len(table) /\ table \in Seq(ToSet(t))
         /\ \A i, j \in 1 .. Len(table) : table[i] = table[j] => i = j
<1>. DEFINE S == ToSet(t)
<1>1. IsFiniteSet(S)
  OBVIOUS
<1>. HIDE DEF S
<1>2. /\ table \in Seq(S) /\ DOMAIN table = 1 .. Len(table)
      /\ \A i, j \in 1 .. Len(table) : table[i] = table[j] => i = j
      /\ \A x \in S : \E m \in 1 .. Len(table) : table[m] = x
  BY <1>1, OrderHasAll DEF S
<1>3. ToSet(table) = S
  <2>1. ToSet(table) = {table[k] : k \in 1 .. Len(table)}
    BY <1>2 DEF ToSet
  <2>2. \A k \in 1 .. Len(table) : table[k] \in S
    BY <1>2
  <2>. QED BY <1>2, <2>1, <2>2
<1>. QED BY <1>2, <1>3 DEF S
(* The searches by a field.                                                *)
FieldInv ==
  /\ phase \in {"start", "musts", "shoulds", "filtered", "mustNots", "candidates"} =>
       pending = {} /\ assigned = 0 /\ walked = 0
  /\ phase = "bm25" => view.field = BM25
  /\ phase = "field" => WalkInv(docs, seg, view.field, bitmap, pending, assigned, walked, scores)
  /\ phase \in {"scored", "resolved"} /\ view.field \in DOMAIN seg.fields =>
       ToSet(scores) = FieldScores(docs, view.field, bitmap)

(* The field that is none is none of a storage's fields.                   *)
LEMMA NoSuchField ==
  ASSUME SearchInv
  PROVE  BM25 \notin DOMAIN seg.fields /\ NoField \notin DOMAIN seg.fields
  BY DEF SearchInv, AskedInv, Searchable, IsCorpus, Indexes

(* Sorting keeps the scores.                                               *)
LEMMA ResolvedSame ==
  ASSUME IsFiniteSet(ToSet(scores)), ResolveScores
  PROVE  /\ ToSet(scores') = ToSet(scores)
         /\ DOMAIN scores' = 1 .. Len(scores') /\ scores' \in Seq(ToSet(scores))
         /\ \A i, j \in 1 .. Len(scores') : scores'[i] = scores'[j] => i = j
         /\ \A i, j \in 1 .. Len(scores') : i < j => scores'[i].value >= scores'[j].value
<1>1. PICK table \in SetToSeqs(ToSet(scores)) :
         (\A i, j \in DOMAIN table : i < j => table[i].value >= table[j].value) /\ scores' = table
  BY DEF ResolveScores
<1>2. /\ ToSet(table) = ToSet(scores)
      /\ DOMAIN table = 1 .. Len(table) /\ table \in Seq(ToSet(scores))
      /\ \A i, j \in 1 .. Len(table) : table[i] = table[j] => i = j
  BY <1>1, SortedSame
<1>. QED BY <1>1, <1>2

(* A table with scores for finitely many documents has finitely many.      *)
LEMMA FiniteScores ==
  ASSUME NEW C, Docs(C), NEW val
  PROVE  IsFiniteSet(ScoreSet(C, val))
<1>. DEFINE N == Cardinality(C)
            at == Ascending(C)
            h == [k \in 1 .. N |-> [index |-> at[k], value |-> val[at[k]]]]
<1>1. /\ N \in Nat /\ at \in [1 .. N -> C]
      /\ \A d \in C : Place(C, d) \in 1 .. N /\ at[Place(C, d)] = d
  BY Places
<1>2. IsFiniteSet({h[k] : k \in 1 .. N})
  <2>. HIDE DEF h, N
  <2>. QED BY <1>1, FiniteImage
<1>3. ASSUME NEW d \in C PROVE [index |-> d, value |-> val[d]] \in {h[k] : k \in 1 .. N}
  <2>1. h[Place(C, d)] = [index |-> d, value |-> val[d]]
    BY <1>1
  <2>. QED BY <1>1, <2>1
<1>4. ASSUME NEW k \in 1 .. N PROVE h[k] \in ScoreSet(C, val)
  BY <1>1 DEF ScoreSet
<1>5. {h[k] : k \in 1 .. N} = ScoreSet(C, val)
  <2>. HIDE DEF h
  <2>. QED BY <1>3, <1>4 DEF ScoreSet
<1>. QED BY <1>2, <1>5

(* FieldScores are such scores.                                            *)
LEMMA FieldScoresFinite ==
  ASSUME NEW D, NEW f, NEW C, Docs(C)
  PROVE  IsFiniteSet(FieldScores(D, f, C))
<1>. DEFINE val == [d \in C |-> IF HasSortIn(D, f, d)
                               THEN Cardinality(C) - Cardinality(BeforeIn(D, f, C, d)) ELSE 0]
<1>1. FieldScores(D, f, C) = ScoreSet(C, val)
  BY DEF FieldScores, ScoreSet
<1>. HIDE DEF val
<1>. QED BY <1>1, FiniteScores

(* The searches by a field start right.                                    *)
LEMMA FieldInit == Init => FieldInv
  BY DEF Init, FieldInv

(* And each step keeps them right.                                         *)
LEMMA FieldNext ==
  ASSUME SearchInv, FieldInv, [Next]_vars
  PROVE  FieldInv'
<1>. DEFINE Filtering == {"start", "musts", "shoulds", "filtered", "mustNots", "candidates"}
<1>1. /\ Searchable(docs, seg) /\ bitmap \in SUBSET (0 .. Len(docs) - 1) /\ Docs(bitmap)
  <2>1. Searchable(docs, seg) /\ bitmap \in SUBSET (0 .. Len(docs) - 1)
    BY DEF SearchInv, AskedInv, FilterInv
  <2>. QED BY <2>1, IndexSets
<1>2. BM25 \notin DOMAIN seg.fields
  BY NoSuchField
<1>3. CASE UNCHANGED vars
  BY <1>3 DEF FieldInv, vars
<1>4. CASE StartFilter \/ EndMusts \/ EndShoulds \/ StartMustNots \/ EndMustNots
  <2>1. /\ phase \in Filtering /\ phase' \in Filtering
        /\ pending' = pending /\ assigned' = assigned /\ walked' = walked
    BY <1>4 DEF StartFilter, EndMusts, EndShoulds, StartMustNots, EndMustNots, FieldVars
  <2>. QED BY <2>1 DEF FieldInv
<1>5. ASSUME NEW f \in DOMAIN seg.fields \union {NoField}, Turning(f)
      PROVE  FieldInv'
  <2>1. CASE FilterMust(f) \/ FilterShould(f) \/ FilterMustNot(f)
    <3>1. /\ phase \in Filtering /\ phase' = phase
          /\ pending' = pending /\ assigned' = assigned /\ walked' = walked
      BY <2>1 DEF FilterMust, FilterShould, FilterMustNot, FieldVars
    <3>. QED BY <3>1 DEF FieldInv
  <2>2. CASE AccumulateBM25(f)
    <3>1. phase = "bm25" /\ phase' = phase /\ view' = view
      BY <2>2 DEF AccumulateBM25, Asked
    <3>. QED BY <3>1 DEF FieldInv
  <2>. QED BY <1>5, <2>1, <2>2 DEF Turning
<1>6. CASE Panic
  <2>1. phase' = "panicked"
    BY <1>6 DEF Panic
  <2>. QED BY <2>1 DEF FieldInv
<1>7. CASE StartBM25
  <2>1. phase' = "bm25" /\ view' = view /\ view.field = BM25
    BY <1>7 DEF StartBM25, Asked
  <2>. QED BY <2>1 DEF FieldInv
<1>8. CASE EndBM25
  <2>1. phase = "bm25" /\ phase' = "scored" /\ view' = view /\ seg' = seg
    BY <1>8 DEF EndBM25, Asked
  <2>. QED BY <1>2, <2>1 DEF FieldInv
<1>9. CASE StartField
  <2>1. /\ phase = "candidates" /\ docs' = docs /\ seg' = seg /\ view' = view /\ bitmap' = bitmap
        /\ assigned' = assigned /\ walked' = walked
        /\ IF view.field \in DOMAIN seg.fields
             THEN scores' = NewScoring(bitmap) /\ pending' = bitmap /\ phase' = "field"
             ELSE phase' = "scored"
    BY <1>9 DEF StartField, Asked
  <2>2. assigned = 0 /\ walked = 0
    BY <2>1 DEF FieldInv
  <2>3. CASE view.field \in DOMAIN seg.fields
    <3>1. WalkInv(docs, seg, view.field, bitmap, bitmap, 0, 0, NewScoring(bitmap))
      BY <1>1, <2>3, WalkStarts
    <3>. QED BY <2>1, <2>2, <2>3, <3>1 DEF FieldInv
  <2>4. CASE view.field \notin DOMAIN seg.fields
    BY <2>1, <2>4 DEF FieldInv
  <2>. QED BY <2>3, <2>4
<1>10. CASE ScoreByToken
  <2>1. /\ phase = "field" /\ phase' = phase /\ docs' = docs /\ seg' = seg /\ view' = view
        /\ bitmap' = bitmap
    BY <1>10 DEF ScoreByToken, Asked
  <2>2. WalkInv(docs, seg, view.field, bitmap, pending, assigned, walked, scores)
    BY <2>1 DEF FieldInv
  <2>3. WalkInv(docs, seg, view.field, bitmap, pending', assigned', walked', scores')
    BY <1>10, <2>2, WalkTurns
  <2>. QED BY <2>1, <2>3 DEF FieldInv
<1>11. CASE EndField
  <2>1. /\ phase = "field" /\ phase' = "scored" /\ docs' = docs /\ seg' = seg /\ view' = view
        /\ bitmap' = bitmap /\ scores' = scores
        /\ pending = {} \/ walked = Len(seg.fields[view.field].tokens)
    BY <1>11 DEF EndField, Asked
  <2>2. WalkInv(docs, seg, view.field, bitmap, pending, assigned, walked, scores)
    BY <2>1 DEF FieldInv
  <2>3. ToSet(scores) = FieldScores(docs, view.field, bitmap)
    BY <1>1, <2>1, <2>2, WalkEnds
  <2>. QED BY <2>1, <2>3 DEF FieldInv
<1>12. CASE ResolveScores
  <2>1. /\ phase = "scored" /\ phase' = "resolved" /\ docs' = docs /\ seg' = seg /\ view' = view
        /\ bitmap' = bitmap
    BY <1>12 DEF ResolveScores, Asked
  <2>2. ASSUME view.field \in DOMAIN seg.fields
        PROVE  ToSet(scores') = FieldScores(docs, view.field, bitmap)
    <3>1. ToSet(scores) = FieldScores(docs, view.field, bitmap)
      BY <2>1, <2>2 DEF FieldInv
    <3>2. IsFiniteSet(ToSet(scores))
      BY <1>1, <3>1, FieldScoresFinite
    <3>3. ToSet(scores') = ToSet(scores)
      BY <1>12, <3>2, ResolvedSame
    <3>. QED BY <3>1, <3>3
  <2>. QED BY <2>1, <2>2 DEF FieldInv
<1>13. CASE SearchAgain
  <2>1. phase' = "start" /\ pending' = {} /\ assigned' = 0 /\ walked' = 0
    BY <1>13 DEF SearchAgain
  <2>. QED BY <2>1 DEF FieldInv
<1>14. CASE SkipResults \/ Yield \/ Return \/ Break
  <2>1. phase' \in {"yield", "panicked", "done", "left"}
    BY <1>14 DEF SkipResults, Yield, Return, Break
  <2>. QED BY <2>1 DEF FieldInv
<1>. QED BY <1>3, <1>4, <1>5, <1>6, <1>7, <1>8, <1>9, <1>10, <1>11, <1>12, <1>13, <1>14 DEF Next

(* FieldScore ranks the candidates that have the field by their smallest   *)
(* token, then by index, and leaves the others without a score, for any    *)
(* documents and any candidates.                                           *)
THEOREM FieldRanked == Spec => []FieldRanks
<1>1. SearchInv /\ FieldInv /\ [Next]_vars => SearchInv' /\ FieldInv'
  BY SearchNext, FieldNext
<1>2. FieldInv => FieldRanks
  <2>. SUFFICES ASSUME FieldInv, phase \in {"scored", "resolved"}, view.field \in DOMAIN seg.fields
                PROVE  FieldRanks
    BY DEF FieldRanks
  <2>. DEFINE having == {d \in bitmap : HasSortToken(d)}
              before(d) == {e \in having : \/ SmallestToken(e) < SmallestToken(d)
                                           \/ SmallestToken(e) = SmallestToken(d) /\ e < d}
  <2>1. ToSet(scores) = FieldScores(docs, view.field, bitmap)
    BY DEF FieldInv
  <2>2. \A d : HasSortToken(d) <=> HasSortIn(docs, view.field, d)
    BY DEF HasSortToken, HasSortIn
  <2>3. \A d : SmallestToken(d) = SmallestIn(docs, view.field, d)
    BY DEF SmallestToken, SmallestIn
  <2>4. \A d : before(d) = BeforeIn(docs, view.field, bitmap, d)
    BY <2>2, <2>3 DEF BeforeIn
  <2>5. \A d \in bitmap : d \in having <=> HasSortIn(docs, view.field, d)
    BY <2>2
  <2>6. FieldScores(docs, view.field, bitmap)
          = {[index |-> d, value |-> IF d \in having
                                     THEN Cardinality(bitmap) - Cardinality(before(d)) ELSE 0]
               : d \in bitmap}
    <3>. HIDE DEF having, before
    <3>. QED BY <2>4, <2>5 DEF FieldScores
  <2>. QED BY <2>1, <2>6 DEF FieldRanks
<1>. QED BY <1>1, <1>2, SearchInit, FieldInit, PTL DEF Spec

-----------------------------------------------------------------------------
(***************************************************************************)
(* BM25Score.  The tables of frequencies and lengths.                      *)
(***************************************************************************)
(* The entries of the documents of H, in ascending order.                  *)
Table(E, H) == [k \in 1 .. Cardinality(H) |-> E[Ascending(H)[k]]]

(* E has an entry for each of them.                                        *)
Rowed(E, H) == Docs(H) /\ \A d \in H : E[d].doc = d

(* Where such a table has the entry of a document, and that it is found.   *)
LEMMA TableSays ==
  ASSUME NEW E, NEW H, Rowed(E, H)
  PROVE  /\ Cardinality(H) \in Nat
         /\ Table(E, H) \in Seq({E[d] : d \in H}) /\ Len(Table(E, H)) = Cardinality(H)
         /\ \A d \in H : /\ Place(H, d) \in 1 .. Cardinality(H)
                         /\ Table(E, H)[Place(H, d)] = E[d]
                         /\ Search(Table(E, H), ByDoc, d) = Place(H, d) - 1
<1>. DEFINE N == Cardinality(H)
            at == Ascending(H)
            t == Table(E, H)
            V == {E[d] : d \in H}
<1>1. /\ N \in Nat /\ at \in [1 .. N -> H] /\ Climbs(at) /\ DOMAIN at = 1 .. N
      /\ \A d \in H : d \in Nat /\ Place(H, d) \in 1 .. N /\ at[Place(H, d)] = d
  BY Places DEF Rowed
<1>2. t = [k \in 1 .. N |-> E[at[k]]]
  BY DEF Table
<1>. HIDE DEF N, at, t
<1>3. t \in Seq(V) /\ Len(t) = N
  <2>1. \A k \in 1 .. N : E[at[k]] \in V
    BY <1>1
  <2>. HIDE DEF V
  <2>2. t \in [1 .. N -> V]
    BY <1>2, <2>1
  <2>. QED BY <1>1, <2>2
<1>4. ASSUME NEW d \in H PROVE Search(t, ByDoc, d) = Place(H, d) - 1
  <2>. DEFINE p == Place(H, d)
              L == LowerIn(N, at, d)
  <2>1. p \in 1 .. N /\ at[p] = d /\ d \in Nat
    BY <1>1
  <2>2. at \in [1 .. N -> Nat]
    BY <1>1
  <2>3. L \in 0 .. N /\ \A k \in 1 .. N : at[k] < d <=> k <= L
    BY <1>1, <2>1, <2>2, Halving
  <2>4. Search(t, ByDoc, d) = L
    <3>1. \A k \in 1 .. N : ByDoc(t[k]) = at[k]
      BY <1>1, <1>2 DEF ByDoc, Rowed
    <3>2. DOMAIN t = 1 .. N
      BY <1>2
    <3>3. {k \in DOMAIN t : ByDoc(t[k]) < d} = {k \in 1 .. N : at[k] < d}
      BY <3>1, <3>2
    <3>. QED BY <3>3 DEF Search, LowerIn
  <2>. HIDE DEF L, p
  <2>5. ~(p <= L)
    BY <2>1, <2>3
  <2>6. p > 1 => p - 1 <= L
    <3>. SUFFICES ASSUME p > 1 PROVE p - 1 <= L
      OBVIOUS
    <3>1. p - 1 \in 1 .. N /\ p - 1 < p
      BY <1>1, <2>1
    <3>2. \A i, j \in 1 .. N : i < j => at[i] < at[j]
      BY <1>1 DEF Climbs
    <3>3. at[p - 1] < d
      BY <2>1, <3>1, <3>2
    <3>. QED BY <2>3, <3>1, <3>3
  <2>7. L = p - 1
    BY <1>1, <2>1, <2>3, <2>5, <2>6
  <2>. QED BY <2>4, <2>7 DEF p
<1>5. ASSUME NEW d \in H PROVE t[Place(H, d)] = E[d]
  BY <1>1, <1>2
<1>. QED BY <1>1, <1>3, <1>4, <1>5 DEF N, t, V

(* The same of one document.                                               *)
TableFinds(E, H, d) ==
  /\ Place(H, d) \in 1 .. Cardinality(H)
  /\ Table(E, H)[Place(H, d)] = E[d]
  /\ Search(Table(E, H), ByDoc, d) = Place(H, d) - 1

(* It is found.                                                            *)
LEMMA TableFound ==
  ASSUME NEW E, NEW H, Rowed(E, H), NEW d \in H
  PROVE  TableFinds(E, H, d)
<1>1. Place(H, d) \in 1 .. Cardinality(H)
  BY TableSays
<1>2. Table(E, H)[Place(H, d)] = E[d]
  BY TableSays
<1>3. Search(Table(E, H), ByDoc, d) = Place(H, d) - 1
  BY TableSays
<1>. QED BY <1>1, <1>2, <1>3 DEF TableFinds

(* The documents behind the ones in Z.                                     *)
Ahead(H, Z) == {x \in H : \A z \in Z : z < x}

(* What follows the entry of a document, and what precedes it.             *)
TableSplits(E, H, d) ==
  /\ Rest(Table(E, H), Place(H, d)) = Table(E, {x \in H : d < x})
  /\ SubSeq(Table(E, H), 1, Place(H, d) - 1) = Table(E, {x \in H : x < d})
  /\ Rowed(E, {x \in H : d < x}) /\ Rowed(E, {x \in H : x < d})

(* They are tables again.                                                  *)
LEMMA TableParts ==
  ASSUME NEW E, NEW H, Rowed(E, H), NEW d \in H
  PROVE  TableSplits(E, H, d)
<1>. DEFINE N == Cardinality(H)
            at == Ascending(H)
            t == Table(E, H)
            p == Place(H, d)
            V == {E[x] : x \in H}
            U == {x \in H : d < x}
            W == {x \in H : x < d}
            m == N - p
            n == p - 1
            y == [k \in 1 .. m |-> at[p + k]]
            z == [k \in 1 .. n |-> at[k]]
<1>1. /\ N \in Nat /\ at \in [1 .. N -> H] /\ Climbs(at) /\ DOMAIN at = 1 .. N
      /\ \A x \in H : x \in Nat /\ Place(H, x) \in 1 .. N /\ at[Place(H, x)] = x
      /\ \A x, w \in H : x < w => Place(H, x) < Place(H, w)
  BY Places DEF Rowed
<1>2. t \in Seq(V) /\ Len(t) = N /\ t = [k \in 1 .. N |-> E[at[k]]]
  <2>1. t \in Seq(V) /\ Len(t) = N
    BY TableSays
  <2>2. t = [k \in 1 .. N |-> E[at[k]]]
    BY DEF Table
  <2>. QED BY <2>1, <2>2
<1>3. \A i, j \in 1 .. N : i < j => at[i] < at[j]
  BY <1>1 DEF Climbs
<1>4. /\ p \in 1 .. N /\ at[p] = d /\ d \in Nat /\ m \in Nat /\ n \in Nat
      /\ \A k \in 1 .. m : p + k \in 1 .. N /\ p < p + k
      /\ \A k \in 1 .. n : k \in 1 .. N /\ k < p
  <2>1. p \in 1 .. N /\ at[p] = d /\ d \in Nat
    BY <1>1
  <2>. HIDE DEF p, N
  <2>. QED BY <1>1, <2>1
<1>5. Rowed(E, U) /\ Rowed(E, W)
  <2>1. IsFiniteSet(U) /\ IsFiniteSet(W)
    BY FS_Subset DEF Rowed, Docs
  <2>2. Numbers(U) /\ Numbers(W)
    BY <1>1 DEF Numbers
  <2>. QED BY <2>1, <2>2 DEF Rowed, Docs
<1>6. Ascending(U) = y /\ Cardinality(U) = m
  <2>1. \A k \in 1 .. m : at[p + k] \in U
    <3>. HIDE DEF N, at, p, m
    <3>. QED BY <1>1, <1>3, <1>4
  <2>2. y \in [1 .. m -> U] /\ Len(y) = m
    <3>. HIDE DEF m, U
    <3>. QED BY <1>4, <2>1
  <2>3. Climbs(y)
    <3>1. \A i, j \in 1 .. m : i < j => at[p + i] < at[p + j]
      <4>. TAKE i, j \in 1 .. m
      <4>. HAVE i < j
      <4>1. p + i \in 1 .. N /\ p + j \in 1 .. N /\ p + i < p + j
        <5>. HIDE DEF p, N, m
        <5>. QED BY <1>4
      <4>. QED BY <1>3, <4>1
    <3>2. DOMAIN y = 1 .. m /\ \A i \in 1 .. m : y[i] = at[p + i]
      OBVIOUS
    <3>. HIDE DEF y, m, at, p
    <3>. QED BY <3>1, <3>2 DEF Climbs
  <2>4. ASSUME NEW x \in U PROVE \E i \in 1 .. m : y[i] = x
    <3>. DEFINE j == Place(H, x)
    <3>1. j \in 1 .. N /\ at[j] = x /\ p < j
      BY <1>1
    <3>2. j - p \in 1 .. m /\ p + (j - p) = j
      <4>. HIDE DEF j, p, N
      <4>. QED BY <1>1, <1>4, <3>1
    <3>3. y[j - p] = x
      <4>. HIDE DEF j, p, m
      <4>. QED BY <3>1, <3>2
    <3>. QED BY <3>2, <3>3
  <2>5. Lists(y, U) /\ Numbers(U)
    <3>. HIDE DEF y, U, m
    <3>. QED BY <1>4, <1>5, <2>2, <2>3, <2>4 DEF Lists, Rowed, Docs
  <2>. HIDE DEF y, U
  <2>. QED BY <2>2, <2>5, ListedOnce
<1>7. Ascending(W) = z /\ Cardinality(W) = n
  <2>1. \A k \in 1 .. n : at[k] \in W
    <3>. HIDE DEF N, at, p, n
    <3>. QED BY <1>1, <1>3, <1>4
  <2>2. z \in [1 .. n -> W] /\ Len(z) = n
    <3>. HIDE DEF n, W
    <3>. QED BY <1>4, <2>1
  <2>3. Climbs(z)
    <3>1. DOMAIN z = 1 .. n /\ \A i \in 1 .. n : z[i] = at[i]
      OBVIOUS
    <3>. HIDE DEF z, n, at, p
    <3>. QED BY <1>3, <1>4, <3>1 DEF Climbs
  <2>4. ASSUME NEW x \in W PROVE \E i \in 1 .. n : z[i] = x
    <3>. DEFINE j == Place(H, x)
    <3>1. j \in 1 .. N /\ at[j] = x /\ j < p
      BY <1>1
    <3>2. j \in 1 .. n
      <4>. HIDE DEF j, p, N
      <4>. QED BY <1>1, <1>4, <3>1
    <3>. QED BY <3>1, <3>2
  <2>5. Lists(z, W) /\ Numbers(W)
    <3>. HIDE DEF z, W, n
    <3>. QED BY <1>4, <1>5, <2>2, <2>3, <2>4 DEF Lists, Rowed, Docs
  <2>. HIDE DEF z, W
  <2>. QED BY <2>2, <2>5, ListedOnce
<1>8. Rest(t, p) = Table(E, U)
  <2>. DEFINE r == Rest(t, p)
              u == Table(E, U)
  <2>1. u \in Seq(V) /\ Len(u) = m
    <3>1. u \in Seq({E[x] : x \in U}) /\ Len(u) = m
      BY <1>5, <1>6, TableSays
    <3>2. {E[x] : x \in U} \subseteq V
      OBVIOUS
    <3>. HIDE DEF u, V
    <3>. QED BY <3>1, <3>2
  <2>2. r \in Seq(V) /\ Len(r) = m /\ \A k \in 1 .. m : r[k] = t[p + k]
    <3>. DEFINE a == p + 1
    <3>1. r = SubSeq(t, a, N)
      BY <1>2 DEF Rest
    <3>2. a \in 1 .. N + 1 /\ N - a + 1 = m /\ \A k \in 1 .. m : a + k - 1 = p + k
      <4>. HIDE DEF p, N
      <4>. QED BY <1>1, <1>4
    <3>. HIDE DEF a, r, t, V, N, m, p
    <3>3. /\ Len(r) = N - a + 1 /\ r \in Seq(V)
          /\ \A k \in 1 .. N - a + 1 : r[k] = t[a + k - 1]
      BY <1>1, <1>2, <3>1, <3>2
    <3>. QED BY <3>2, <3>3
  <2>3. \A k \in 1 .. m : u[k] = E[at[p + k]] /\ t[p + k] = E[at[p + k]]
    <3>1. u = [k \in 1 .. m |-> E[y[k]]]
      BY <1>6 DEF Table
    <3>2. \A k \in 1 .. m : y[k] = at[p + k]
      OBVIOUS
    <3>. HIDE DEF u, y, m, p, t, N, at
    <3>. QED BY <1>2, <1>4, <3>1, <3>2
  <2>. HIDE DEF r, u, t, V, N, m, p, at
  <2>4. \A k \in 1 .. m : r[k] = u[k]
    BY <2>2, <2>3
  <2>5. r = u
    BY <2>1, <2>2, <2>4, SameSeq
  <2>. QED BY <2>5 DEF r, u
<1>9. SubSeq(t, 1, n) = Table(E, W)
  <2>. DEFINE r == SubSeq(t, 1, n)
              u == Table(E, W)
  <2>1. u \in Seq(V) /\ Len(u) = n
    <3>1. u \in Seq({E[x] : x \in W}) /\ Len(u) = n
      BY <1>5, <1>7, TableSays
    <3>2. {E[x] : x \in W} \subseteq V
      OBVIOUS
    <3>. HIDE DEF u, V
    <3>. QED BY <3>1, <3>2
  <2>2. r \in Seq(V) /\ Len(r) = n /\ \A k \in 1 .. n : r[k] = t[k]
    <3>1. n <= N /\ n \in Nat
      <4>. HIDE DEF p, N
      <4>. QED BY <1>1, <1>4
    <3>. HIDE DEF t, V, N, n, p
    <3>. QED BY <1>1, <1>2, <3>1
  <2>3. \A k \in 1 .. n : u[k] = E[at[k]] /\ t[k] = E[at[k]]
    <3>1. u = [k \in 1 .. n |-> E[z[k]]]
      BY <1>7 DEF Table
    <3>2. \A k \in 1 .. n : z[k] = at[k]
      OBVIOUS
    <3>. HIDE DEF u, z, n, p, t, N, at
    <3>. QED BY <1>2, <1>4, <3>1, <3>2
  <2>. HIDE DEF r, u, t, V, N, n, p, at
  <2>4. \A k \in 1 .. n : r[k] = u[k]
    BY <2>2, <2>3
  <2>5. r = u
    BY <2>1, <2>2, <2>4, SameSeq
  <2>. QED BY <2>5 DEF r, u
<1>. QED BY <1>5, <1>8, <1>9 DEF TableSplits
(* In a table with an entry for each document the place is the index.      *)
LEMMA DensePlaces ==
  ASSUME NEW n \in Nat, NEW H \in SUBSET (0 .. n - 1), Cardinality(H) = n
  PROVE  \A d \in H : Place(H, d) = d + 1
<1>1. IsFiniteSet(0 .. n - 1) /\ Cardinality(0 .. n - 1) = n
  <2>1. /\ IsFiniteSet(0 .. n - 1)
        /\ Cardinality(0 .. n - 1) = IF 0 > n - 1 THEN 0 ELSE (n - 1) - 0 + 1
    BY FS_Interval
  <2>. QED BY <2>1
<1>2. H = 0 .. n - 1
  BY <1>1, FS_Subset
<1>3. ASSUME NEW d \in H PROVE Place(H, d) = d + 1
  <2>1. d \in 0 .. n - 1
    BY <1>2
  <2>2. {x \in H : x < d} = 0 .. d - 1
    BY <1>2, <2>1
  <2>3. Cardinality(0 .. d - 1) = d
    BY <2>1, FS_Interval
  <2>. QED BY <2>2, <2>3 DEF Place
<1>. QED BY <1>3

(* The equation of the positions of a batch.                               *)
Positioned(p, t, dense, batch) ==
  p = [k \in DOMAIN batch |->
         IF dense THEN batch[k] + 1
         ELSE 1 + Search(IF k = Len(batch) THEN t ELSE SubSeq(t, 1, p[k + 1] - 1),
                         ByDoc, batch[k])]

(* They are the places of its documents.                                   *)
LEMMA PositionsAre ==
  ASSUME NEW E, NEW H, Rowed(E, H), NEW batch, BatchOf(H, batch), NEW dense,
         dense => \A d \in H : Place(H, d) = d + 1
  PROVE  Positions(Table(E, H), dense, batch) = [k \in 1 .. Len(batch) |-> Place(H, batch[k])]
<1>. DEFINE n == Len(batch)
            t == Table(E, H)
            pos == [k \in 1 .. n |-> Place(H, batch[k])]
            P(p) == Positioned(p, t, dense, batch)
<1>1. /\ n \in Nat /\ batch \in [1 .. n -> H] /\ DOMAIN batch = 1 .. n
      /\ \A i, j \in 1 .. n : i < j => batch[i] < batch[j]
      /\ \A k \in 1 .. n : batch[k] \in H
  BY DEF BatchOf, Climbs
<1>2. \A d \in H : d \in Nat /\ Place(H, d) \in Nat /\ Search(t, ByDoc, d) = Place(H, d) - 1
  <2>1. Docs(H)
    BY DEF Rowed
  <2>2. \A d \in H : d \in Nat /\ Place(H, d) \in 1 .. Cardinality(H)
    BY <2>1, Places
  <2>3. \A d \in H : Search(t, ByDoc, d) = Place(H, d) - 1
    BY TableFound DEF TableFinds
  <2>4. \A x \in 1 .. Cardinality(H) : x \in Nat
    OBVIOUS
  <2>. HIDE DEF t
  <2>. QED BY <2>2, <2>3, <2>4
<1>3. Positions(t, dense, batch) = CHOOSE p : P(p)
  BY DEF Positions, Positioned
<1>. HIDE DEF n
<1>4. ASSUME NEW k \in 1 .. n, k # n
      PROVE  /\ k + 1 \in 1 .. n /\ pos[k + 1] = Place(H, batch[k + 1])
             /\ Search(SubSeq(t, 1, Place(H, batch[k + 1]) - 1), ByDoc, batch[k])
                  = Place(H, batch[k]) - 1
  <2>. DEFINE d == batch[k]
              e == batch[k + 1]
              W == {x \in H : x < e}
  <2>1. k + 1 \in 1 .. n /\ k < k + 1
    BY <1>1, <1>4
  <2>2. d \in H /\ e \in H /\ d < e
    BY <1>1, <2>1
  <2>3. SubSeq(t, 1, Place(H, e) - 1) = Table(E, W) /\ Rowed(E, W)
    <3>1. e \in H
      BY <2>2
    <3>. HIDE DEF e
    <3>2. TableSplits(E, H, e)
      BY <3>1, TableParts
    <3>. QED BY <3>2 DEF TableSplits
  <2>4. d \in W
    BY <2>2
  <2>5. {x \in W : x < d} = {x \in H : x < d}
    <3>1. \A x \in H : x \in Nat
      BY <1>2
    <3>. QED BY <2>2, <3>1
  <2>6. Place(W, d) = Place(H, d)
    BY <2>5 DEF Place
  <2>7. Search(Table(E, W), ByDoc, d) = Place(W, d) - 1
    <3>1. Rowed(E, W)
      BY <2>3
    <3>. HIDE DEF W, d
    <3>2. TableFinds(E, W, d)
      BY <2>4, <3>1, TableFound
    <3>. QED BY <3>2 DEF TableFinds
  <2>. HIDE DEF W, t, d, e
  <2>8. Search(SubSeq(t, 1, Place(H, e) - 1), ByDoc, d) = Place(H, d) - 1
    BY <2>3, <2>6, <2>7
  <2>9. pos[k + 1] = Place(H, e)
    BY <2>1 DEF e
  <2>. QED BY <2>1, <2>8, <2>9 DEF d, e
<1>5. ASSUME NEW k \in 1 .. n
      PROVE  /\ 1 + (Place(H, batch[k]) - 1) = Place(H, batch[k])
             /\ pos[k] = Place(H, batch[k])
             /\ Search(t, ByDoc, batch[k]) = Place(H, batch[k]) - 1
             /\ dense => Place(H, batch[k]) = batch[k] + 1
  <2>1. batch[k] \in H
    BY <1>1
  <2>2. Place(H, batch[k]) \in Nat
    BY <1>2, <2>1
  <2>. QED BY <1>2, <2>1, <2>2
<1>6. P(pos)
  <2>1. ASSUME NEW k \in 1 .. n
        PROVE  pos[k] = IF dense THEN batch[k] + 1
                        ELSE 1 + Search(IF k = n THEN t ELSE SubSeq(t, 1, pos[k + 1] - 1),
                                        ByDoc, batch[k])
    <3>1. CASE dense
      BY <1>5, <3>1
    <3>2. CASE ~dense /\ k = n
      <4>. HIDE DEF pos, t
      <4>. QED BY <1>5, <3>2
    <3>3. CASE ~dense /\ k # n
      <4>. HIDE DEF pos, t
      <4>. QED BY <1>4, <1>5, <3>3
    <3>. QED BY <3>1, <3>2, <3>3
  <2>2. pos = [k \in 1 .. n |-> pos[k]]
    OBVIOUS
  <2>. HIDE DEF pos, t
  <2>3. pos = [k \in 1 .. n |->
                IF dense THEN batch[k] + 1
                ELSE 1 + Search(IF k = n THEN t ELSE SubSeq(t, 1, pos[k + 1] - 1),
                                ByDoc, batch[k])]
    BY <2>1, <2>2
  <2>. QED BY <1>1, <2>3 DEF Positioned, n
<1>7. ASSUME NEW p, P(p) PROVE p = pos
  <2>. HIDE DEF t, pos
  <2>1. /\ p = [k \in 1 .. n |-> p[k]]
        /\ \A k \in 1 .. n :
             p[k] = IF dense THEN batch[k] + 1
                    ELSE 1 + Search(IF k = n THEN t ELSE SubSeq(t, 1, p[k + 1] - 1),
                                    ByDoc, batch[k])
    BY <1>1, <1>7 DEF Positioned, n
  <2>2. CASE dense
    <3>1. \A k \in 1 .. n : p[k] = pos[k]
      BY <1>5, <2>1, <2>2
    <3>2. pos = [k \in 1 .. n |-> pos[k]]
      BY DEF pos
    <3>. QED BY <2>1, <3>1, <3>2
  <2>3. CASE ~dense
    <3>. DEFINE K == {j \in Nat : j < n => p[n - j] = pos[n - j]}
    <3>1. 0 \in K
      <4>. SUFFICES ASSUME 0 < n PROVE p[n - 0] = pos[n - 0]
        OBVIOUS
      <4>1. n \in 1 .. n /\ n - 0 = n
        BY <1>1
      <4>2. p[n] = 1 + Search(t, ByDoc, batch[n])
        BY <2>1, <2>3, <4>1
      <4>. QED BY <1>5, <4>1, <4>2
    <3>2. ASSUME NEW j \in Nat, j \in K PROVE j + 1 \in K
      <4>. SUFFICES ASSUME j + 1 < n PROVE p[n - (j + 1)] = pos[n - (j + 1)]
        OBVIOUS
      <4>. DEFINE i == n - (j + 1)
      <4>1. i \in 1 .. n /\ i # n /\ i + 1 = n - j /\ j < n
        BY <1>1
      <4>2. p[n - j] = pos[n - j]
        BY <3>2, <4>1
      <4>. HIDE DEF i
      <4>3. p[i + 1] = Place(H, batch[i + 1])
        BY <1>4, <4>1, <4>2
      <4>4. p[i] = 1 + Search(SubSeq(t, 1, p[i + 1] - 1), ByDoc, batch[i])
        BY <2>1, <2>3, <4>1
      <4>5. p[i] = 1 + (Place(H, batch[i]) - 1)
        BY <1>4, <4>1, <4>3, <4>4
      <4>6. p[i] = pos[i]
        BY <1>5, <4>1, <4>5
      <4>. QED BY <4>6 DEF i
    <3>. HIDE DEF K
    <3>3. \A j \in Nat : j \in K
      BY <3>1, <3>2, NatInductive
    <3>4. ASSUME NEW k \in 1 .. n PROVE p[k] = pos[k]
      <4>1. n - k \in Nat /\ n - k < n /\ n - (n - k) = k
        BY <1>1
      <4>2. n - k \in K
        BY <3>3, <4>1
      <4>. QED BY <4>1, <4>2 DEF K
    <3>5. pos = [k \in 1 .. n |-> pos[k]]
      BY DEF pos
    <3>. QED BY <2>1, <3>4, <3>5
  <2>. QED BY <2>2, <2>3
<1>. HIDE DEF P, pos, t
<1>8. P(CHOOSE p : P(p))
  BY <1>6
<1>9. (CHOOSE p : P(p)) = pos
  BY <1>7, <1>8
<1>. QED BY <1>3, <1>9 DEF pos, t, n
(* A table, or what is left of it behind the documents in Z.               *)
Cursor(E, H, dense, Z) == Table(E, IF dense THEN H ELSE Ahead(H, Z))

(* A batch in front of the cursor finds its own entries, and the cursor    *)
(* moves behind it.                                                        *)
CursorMoves(E, H, dense, Z, batch) ==
  /\ Advance(Cursor(E, H, dense, Z), dense, batch)
       = Cursor(E, H, dense, Z \union DocsIn(batch, 1 .. Len(batch)))
  /\ \A k \in 1 .. Len(batch) :
       Cursor(E, H, dense, Z)[Positions(Cursor(E, H, dense, Z), dense, batch)[k]] = E[batch[k]]

(* So it is, in dense and in sparse tables.                                *)
LEMMA CursorsMove ==
  ASSUME NEW E, NEW H, Rowed(E, H), NEW dense, dense => \A d \in H : Place(H, d) = d + 1,
         NEW Z, NEW batch, BatchOf(Ahead(H, Z), batch), Len(batch) > 0
  PROVE  CursorMoves(E, H, dense, Z, batch)
<1>. DEFINE n == Len(batch)
            G == IF dense THEN H ELSE Ahead(H, Z)
            t == Table(E, G)
            pos == [k \in 1 .. n |-> Place(G, batch[k])]
            B == DocsIn(batch, 1 .. n)
            l == batch[n]
<1>1. /\ n \in Nat /\ n \in 1 .. n
      /\ \A k \in 1 .. n : batch[k] \in Ahead(H, Z)
      /\ \A i, j \in 1 .. n : i < j => batch[i] < batch[j]
      /\ batch \in [1 .. n -> Ahead(H, Z)]
  BY DEF BatchOf, Climbs
<1>2. Ahead(H, Z) \subseteq H /\ G \subseteq H /\ Ahead(H, Z) \subseteq G
  BY DEF Ahead
<1>3. Rowed(E, G)
  <2>1. IsFiniteSet(G)
    BY <1>2, FS_Subset DEF Rowed, Docs
  <2>. QED BY <1>2, <2>1 DEF Rowed, Docs, Numbers
<1>4. BatchOf(G, batch)
  <2>1. batch \in [1 .. n -> G]
    BY <1>1, <1>2
  <2>. HIDE DEF G
  <2>. QED BY <1>1, <2>1 DEF BatchOf
<1>5. dense => \A d \in G : Place(G, d) = d + 1
  OBVIOUS
<1>6. Positions(t, dense, batch) = pos
  <2>. HIDE DEF G
  <2>. QED BY <1>3, <1>4, <1>5, PositionsAre
<1>7. ASSUME NEW k \in 1 .. n PROVE t[pos[k]] = E[batch[k]]
  <2>1. batch[k] \in G
    BY <1>1, <1>2
  <2>. HIDE DEF G
  <2>2. TableFinds(E, G, batch[k])
    BY <1>3, <2>1, TableFound
  <2>. QED BY <2>2 DEF TableFinds
<1>8. Advance(t, dense, batch) = Cursor(E, H, dense, Z \union B)
  <2>1. CASE dense
    BY <2>1 DEF Advance, Cursor
  <2>2. CASE ~dense
    <3>1. Last(pos) = Place(G, l)
      <4>1. pos = [k \in 1 .. n |-> Place(G, batch[k])]
        OBVIOUS
      <4>2. Len(pos) = n
        <5>1. pos \in [1 .. n -> {Place(G, batch[k]) : k \in 1 .. n}]
          OBVIOUS
        <5>. HIDE DEF pos, n
        <5>2. \A V : pos \in [1 .. n -> V] => Len(pos) = n
          BY <1>1
        <5>. QED BY <5>1, <5>2
      <4>. QED BY <1>1, <4>2 DEF Last
    <3>2. l \in G
      BY <1>1, <1>2
    <3>3. TableSplits(E, G, l)
      <4>. HIDE DEF G, l
      <4>. QED BY <1>3, <3>2, TableParts
    <3>4. Rest(t, Place(G, l)) = Table(E, {x \in G : l < x})
      <4>. HIDE DEF G, l
      <4>. QED BY <3>3 DEF TableSplits
    <3>5. {x \in G : l < x} = Ahead(H, Z \union B)
      <4>0. \A k \in 1 .. n : batch[k] \in Nat /\ (k # n => batch[k] < l)
        <5>1. \A x \in H : x \in Nat
          BY DEF Rowed, Docs, Numbers
        <5>2. \A k \in 1 .. n : k # n => k < n
          BY <1>1
        <5>3. \A k \in 1 .. n : batch[k] \in Nat
          BY <1>1, <1>2, <5>1
        <5>4. \A k \in 1 .. n : k # n => batch[k] < l
          BY <1>1, <5>2
        <5>. QED BY <5>3, <5>4
      <4>1. \A x \in H : l < x <=> \A z \in B : z < x
        <5>. TAKE x \in H
        <5>1. x \in Nat
          BY DEF Rowed, Docs, Numbers
        <5>2. l \in B
          BY <1>1 DEF DocsIn
        <5>3. ASSUME l < x, NEW z \in B PROVE z < x
          <6>1. PICK k \in 1 .. n : z = batch[k]
            BY DEF DocsIn
          <6>2. l \in Nat /\ z \in Nat
            BY <1>1, <4>0, <6>1
          <6>3. z = l \/ z < l
            BY <4>0, <6>1
          <6>. HIDE DEF l
          <6>. QED BY <5>1, <5>3, <6>2, <6>3
        <5>. HIDE DEF B, l
        <5>. QED BY <5>2, <5>3
      <4>. HIDE DEF B, l
      <4>. QED BY <2>2, <4>1 DEF Ahead
    <3>. HIDE DEF G, l, t, B
    <3>6. Advance(t, dense, batch) = Rest(t, Place(G, l))
      BY <1>6, <2>2, <3>1 DEF Advance
    <3>. QED BY <2>2, <3>4, <3>5, <3>6 DEF Cursor, t
  <2>. QED BY <2>1, <2>2
<1>9. Cursor(E, H, dense, Z) = t
  BY DEF Cursor
<1>. HIDE DEF t, pos, B, n, G
<1>. QED BY <1>6, <1>7, <1>8, <1>9 DEF CursorMoves, B, n
(* AddParts gives each document of a batch its part.                       *)
PartsAdd(S, val, part, batch, g, parts) ==
  AddParts([table |-> Scored(S, val), guess |-> g], batch, parts)
    = Credited(S, val, part, batch, g)

(* It does, when the last place is in front of the first document.         *)
LEMMA AddPartsIs ==
  ASSUME NEW S, Docs(S), NEW val \in [S -> Int], NEW part \in [S -> Int],
         NEW batch, BatchOf(S, batch), NEW g \in Nat,
         Len(batch) > 0 => g < Place(S, batch[1]),
         NEW parts, \A k \in 1 .. Len(batch) : parts[k] = part[batch[k]]
  PROVE  PartsAdd(S, val, part, batch, g, parts)
<1>. DEFINE n == Len(batch)
            base == [table |-> Scored(S, val), guess |-> g]
            ks == [k \in DOMAIN batch |-> k]
            Fold(h) == h = [s \in SUBSET (DOMAIN ks) |->
                              IF s = {} THEN base
                              ELSE AddOne(h[s \ {Max(s)}], batch[ks[Max(s)]], parts[ks[Max(s)]])]
<1>1. AddParts(base, batch, parts) = (CHOOSE h : Fold(h))[DOMAIN ks]
  BY DEF AddParts, FoldLeft, MapThenFoldSet, AddOne
<1>2. n \in Nat /\ DOMAIN batch = 1 .. n /\ DOMAIN ks = 1 .. n /\ \A k \in 1 .. n : ks[k] = k
  <2>1. n \in Nat /\ DOMAIN batch = 1 .. n
    BY DEF BatchOf
  <2>. QED BY <2>1
<1>3. CreditsAll(S, val, part, batch, g, base, parts)
  <2>1. base = [table |-> Scored(S, val), guess |-> g]
    OBVIOUS
  <2>. HIDE DEF base
  <2>. QED BY <2>1, CreditingIs
<1>4. ASSUME NEW h PROVE Fold(h) <=> Crediting(h, n, base, batch, parts)
  <2>1. \A s \in SUBSET (1 .. n) : s # {} => ks[Max(s)] = Max(s)
    <3>1. \A s \in SUBSET (1 .. n) : s # {} => Max(s) \in s
      BY <1>2, MaxOfPositions
    <3>. HIDE DEF n, ks
    <3>. QED BY <1>2, <3>1
  <2>. HIDE DEF n, ks, base
  <2>2. \A s \in SUBSET (1 .. n) :
          (IF s = {} THEN base ELSE AddOne(h[s \ {Max(s)}], batch[ks[Max(s)]], parts[ks[Max(s)]]))
            = (IF s = {} THEN base ELSE AddOne(h[s \ {Max(s)}], batch[Max(s)], parts[Max(s)]))
    BY <2>1
  <2>3. Fold(h) <=> h = [s \in SUBSET (1 .. n) |->
                           IF s = {} THEN base
                           ELSE AddOne(h[s \ {Max(s)}], batch[ks[Max(s)]], parts[ks[Max(s)]])]
    BY <1>2
  <2>4. [s \in SUBSET (1 .. n) |->
           IF s = {} THEN base
           ELSE AddOne(h[s \ {Max(s)}], batch[ks[Max(s)]], parts[ks[Max(s)]])]
          = [s \in SUBSET (1 .. n) |->
               IF s = {} THEN base ELSE AddOne(h[s \ {Max(s)}], batch[Max(s)], parts[Max(s)])]
    BY <2>2
  <2>. HIDE DEF Fold
  <2>. QED BY <2>3, <2>4 DEF Crediting
<1>. HIDE DEF Fold, ks, base
<1>5. \E h : Fold(h)
  BY <1>3, <1>4 DEF CreditsAll, n
<1>6. Fold(CHOOSE h : Fold(h))
  BY <1>5
<1>. DEFINE b == CHOOSE h : Fold(h)
<1>. HIDE DEF b
<1>7. b[1 .. n] = Credited(S, val, part, batch, g)
  BY <1>3, <1>4, <1>6 DEF CreditsAll, n, b
<1>. QED BY <1>1, <1>2, <1>7 DEF PartsAdd, base, b
(* A part of a part of a sequence.                                         *)
PartOfPart(y, a, b, i, j) ==
  SubSeq(SubSeq(y, a, b), i, j) = SubSeq(y, a + i - 1, a + j - 1)

(* It is a part of the whole.                                              *)
LEMMA SubSub ==
  ASSUME NEW V, NEW y \in Seq(V), NEW a \in Nat \ {0}, NEW b \in Nat, b <= Len(y), a <= b + 1,
         NEW i \in Nat \ {0}, NEW j \in Nat, i <= j + 1, j <= b - a + 1
  PROVE  PartOfPart(y, a, b, i, j)
<1>. DEFINE x == SubSeq(y, a, b)
            m == b - a + 1
            A == a + i - 1
            B == a + j - 1
            n == j - i + 1
            u == SubSeq(x, i, j)
            z == SubSeq(y, A, B)
<1>1. x \in Seq(V) /\ Len(x) = m /\ \A k \in 1 .. m : x[k] = y[a + k - 1]
  OBVIOUS
<1>2. /\ m \in Nat /\ n \in Nat /\ A \in Nat \ {0} /\ B \in Nat /\ B <= Len(y) /\ A <= B + 1
      /\ n = B - A + 1 /\ \A k \in 1 .. n : i + k - 1 \in 1 .. m /\ a + (i + k - 1) - 1 = A + k - 1
  OBVIOUS
<1>. HIDE DEF x, m, A, B, n
<1>3. u \in Seq(V) /\ Len(u) = n /\ \A k \in 1 .. n : u[k] = x[i + k - 1]
  <2>1. u \in Seq(V) /\ Len(u) = j - i + 1 /\ \A k \in 1 .. j - i + 1 : u[k] = x[i + k - 1]
    <3>1. j <= Len(x)
      BY <1>1 DEF m
    <3>. QED BY <1>1, <3>1
  <2>. QED BY <2>1 DEF n
<1>4. z \in Seq(V) /\ Len(z) = n /\ \A k \in 1 .. n : z[k] = y[A + k - 1]
  <2>1. /\ z \in Seq(V) /\ Len(z) = B - A + 1
        /\ \A k \in 1 .. B - A + 1 : z[k] = y[A + k - 1]
    BY <1>2
  <2>. QED BY <1>2, <2>1
<1>5. \A k \in 1 .. n : u[k] = z[k]
  <2>. TAKE k \in 1 .. n
  <2>1. u[k] = y[a + (i + k - 1) - 1]
    BY <1>1, <1>2, <1>3
  <2>. QED BY <1>2, <1>4, <2>1
<1>. HIDE DEF u, z
<1>6. u = z
  BY <1>3, <1>4, <1>5, SameSeq
<1>. QED BY <1>6 DEF PartOfPart, u, z, x, A, B

(* How often a width fits in a length.                                     *)
LEMMA Fits ==
  ASSUME NEW n \in Nat, NEW w \in Nat \ {0}
  PROVE  /\ n \div w \in Nat
         /\ w * (n \div w) \in Nat /\ w * (n \div w) <= n
         /\ w = 1 => w * (n \div w) = n
  OBVIOUS

(* The multiples of a width.                                               *)
LEMMA Multiples ==
  ASSUME NEW w \in Nat \ {0}
  PROVE  /\ \A k \in Nat : k * w \in Nat
         /\ 0 * w = 0
         /\ \A k \in Nat : (k + 1) * w = k * w + w
         /\ \A k, l \in Nat : k <= l => k * w <= l * w
  OBVIOUS
(* c cuts the first numbers of y into pieces, b says where.                *)
Cuts(c, y, b) ==
  /\ c \in Seq(Seq(Nat)) /\ Len(c) \in Nat
  /\ b \in [0 .. Len(c) -> 0 .. Len(y)] /\ b[0] = 0
  /\ \A k \in 1 .. Len(c) : b[k - 1] < b[k] /\ c[k] = SubSeq(y, b[k - 1] + 1, b[k])

(* What the fold of Batched has cut and what is left.                      *)
Chopped(acc, y, b) ==
  /\ Cuts(acc.cut, y, b)
  /\ acc.rest = SubSeq(y, b[Len(acc.cut)] + 1, Len(y))

ChopOne(acc, width) ==
  [cut  |-> acc.cut \o Cut(acc.rest, width),
   rest |-> Rest(acc.rest, width * (Len(acc.rest) \div width))]

(* The pieces of one width are cut off the rest, all of it by width 1.     *)
LEMMA ChopsMore ==
  ASSUME NEW y \in Seq(Nat), NEW acc, NEW b, Chopped(acc, y, b), NEW w \in Nat \ {0}
  PROVE  \E e : /\ Chopped(ChopOne(acc, w), y, e)
                /\ w = 1 => e[Len(ChopOne(acc, w).cut)] = Len(y)
<1>. DEFINE c == acc.cut
            rest == acc.rest
            n == Len(c)
            N == Len(y)
            s == b[n]
            l == Len(rest)
            r == l \div w
            t == w * r
            M == [k \in Nat |-> k * w]
            x == Cut(rest, w)
            e == [k \in 0 .. n + r |-> IF k <= n THEN b[k] ELSE s + M[k - n]]
<1>1. /\ c \in Seq(Seq(Nat)) /\ n \in Nat /\ b \in [0 .. n -> 0 .. N] /\ b[0] = 0 /\ N \in Nat
      /\ s \in 0 .. N /\ rest = SubSeq(y, s + 1, N)
      /\ \A k \in 1 .. n : b[k - 1] < b[k] /\ c[k] = SubSeq(y, b[k - 1] + 1, b[k])
  <2>1. /\ c \in Seq(Seq(Nat)) /\ n \in Nat
        /\ b \in [0 .. n -> 0 .. N] /\ b[0] = 0
        /\ rest = SubSeq(y, s + 1, N)
        /\ \A k \in 1 .. n : b[k - 1] < b[k] /\ c[k] = SubSeq(y, b[k - 1] + 1, b[k])
    BY Zenon DEF Chopped, Cuts
  <2>2. N \in Nat
    OBVIOUS
  <2>. HIDE DEF n, N, c
  <2>3. n \in 0 .. n
    BY <2>1
  <2>4. s \in 0 .. N
    BY <2>1, <2>3
  <2>. QED BY <2>1, <2>2, <2>4
<1>2. rest \in Seq(Nat) /\ l = N - s /\ l \in Nat
  <2>. HIDE DEF s, N, rest
  <2>1. N = Len(y)
    BY DEF N
  <2>. QED BY <1>1, <2>1
<1>3. r \in Nat /\ t \in Nat /\ t <= l /\ (w = 1 => t = l)
  <2>. HIDE DEF l
  <2>. QED BY <1>2, Fits
<1>4. /\ \A k \in Nat : M[k] \in Nat /\ M[k] = k * w /\ M[k + 1] = M[k] + w
      /\ M[0] = 0 /\ M[r] = t
      /\ \A k, j \in Nat : k <= j => M[k] <= M[j]
  <2>1. \A k \in Nat : M[k] = k * w
    OBVIOUS
  <2>2. r * w = t
    <3>. HIDE DEF r
    <3>. QED BY <1>3
  <2>3. /\ \A k \in Nat : k * w \in Nat
        /\ 0 * w = 0
        /\ \A k \in Nat : (k + 1) * w = k * w + w
        /\ \A k, j \in Nat : k <= j => k * w <= j * w
    BY Multiples
  <2>. HIDE DEF M, r, t
  <2>4. \A k \in Nat : M[k] \in Nat /\ M[k] = k * w
    BY <2>1, <2>3
  <2>5. \A k \in Nat : M[k + 1] = M[k] + w
    <3>1. \A k \in Nat : M[k + 1] = (k + 1) * w
      BY <2>1
    <3>. QED BY <2>1, <2>3, <3>1
  <2>6. M[0] = 0 /\ M[r] = t
    BY <1>3, <2>1, <2>2, <2>3
  <2>7. \A k, j \in Nat : k <= j => M[k] <= M[j]
    BY <2>1, <2>3
  <2>. QED BY <2>4, <2>5, <2>6, <2>7
<1>5. /\ x = [k \in 1 .. r |-> SubSeq(rest, M[k - 1] + 1, M[k])]
      /\ \A k \in 1 .. r : M[k - 1] \in Nat /\ M[k] = M[k - 1] + w /\ M[k] <= l
  <2>1. \A k \in 1 .. r : /\ (k - 1) * w = M[k - 1] /\ k * w = M[k]
                          /\ M[k - 1] \in Nat /\ M[k] = M[k - 1] + w /\ M[k] <= l
    <3>. TAKE k \in 1 .. r
    <3>1. k \in Nat /\ k - 1 \in Nat /\ k <= r /\ (k - 1) + 1 = k
      <4>. HIDE DEF r
      <4>. QED BY <1>3
    <3>2. (k - 1) * w = M[k - 1] /\ k * w = M[k] /\ M[k - 1] \in Nat /\ M[k] \in Nat
      <4>. HIDE DEF M
      <4>. QED BY <1>4, <3>1
    <3>3. M[k] = M[k - 1] + w
      <4>. HIDE DEF M
      <4>1. M[(k - 1) + 1] = M[k - 1] + w
        BY <1>4, <3>1
      <4>. QED BY <3>1, <4>1
    <3>4. M[k] <= M[r]
      <4>. HIDE DEF M, r
      <4>. QED BY <1>3, <1>4, <3>1
    <3>5. M[k] <= l
      <4>. DEFINE a == M[k]
                  z == M[r]
      <4>1. a \in Nat /\ a <= z /\ z = t
        <5>. HIDE DEF M, t, r
        <5>. QED BY <1>4, <3>2, <3>4
      <4>. HIDE DEF a, z, l, t
      <4>2. a <= l
        BY <1>2, <1>3, <4>1
      <4>. QED BY <4>2 DEF a
    <3>. HIDE DEF M, l, t, r
    <3>. QED BY <3>2, <3>3, <3>5
  <2>2. x = [k \in 1 .. r |-> SubSeq(rest, (k - 1) * w + 1, k * w)]
    BY DEF Cut
  <2>. HIDE DEF x, M, r, l, rest
  <2>. QED BY <2>1, <2>2
<1>6. ASSUME NEW k \in 1 .. r
      PROVE  x[k] = SubSeq(y, s + M[k - 1] + 1, s + M[k]) /\ x[k] \in Seq(Nat)
  <2>1. x[k] = SubSeq(rest, M[k - 1] + 1, M[k])
    <3>. HIDE DEF x, M, rest
    <3>. QED BY <1>5
  <2>. DEFINE i == M[k - 1] + 1
              j == M[k]
  <2>2. i \in Nat \ {0} /\ j \in Nat /\ i <= j + 1 /\ j <= N - (s + 1) + 1
    <3>. HIDE DEF M, l, N, s
    <3>1. M[k - 1] \in Nat /\ M[k] = M[k - 1] + w /\ M[k] <= l
      BY <1>5
    <3>2. l = N - s /\ s \in Nat /\ N \in Nat /\ s <= N
      BY <1>1, <1>2
    <3>. QED BY <3>1, <3>2
  <2>3. s + 1 \in Nat \ {0} /\ N <= Len(y) /\ s + 1 <= N + 1 /\ N \in Nat
    <3>1. s \in 0 .. N
      BY <1>1
    <3>. HIDE DEF s
    <3>. QED BY <1>1, <3>1
  <2>4. SubSeq(SubSeq(y, s + 1, N), i, j) = SubSeq(y, (s + 1) + i - 1, (s + 1) + j - 1)
    <3>. DEFINE a == s + 1
    <3>. HIDE DEF i, j, s, N, a
    <3>1. a \in Nat \ {0} /\ N <= Len(y) /\ a <= N + 1 /\ N \in Nat /\ j <= N - a + 1
      BY <2>2, <2>3 DEF a
    <3>2. PartOfPart(y, a, N, i, j)
      BY <2>2, <3>1, SubSub
    <3>. QED BY <3>2 DEF PartOfPart, a
  <2>5. (s + 1) + i - 1 = s + M[k - 1] + 1 /\ (s + 1) + j - 1 = s + M[k]
    <3>1. s \in Nat /\ M[k - 1] \in Nat /\ M[k] \in Nat
      <4>. HIDE DEF M, s, l
      <4>. QED BY <1>1, <1>2, <1>5, <2>2
    <3>. DEFINE a == M[k - 1]
                z == M[k]
    <3>2. i = a + 1 /\ j = z
      OBVIOUS
    <3>. HIDE DEF M, s, a, z, i, j
    <3>3. s \in Nat /\ a \in Nat /\ z \in Nat
      BY <3>1 DEF a, z
    <3>4. (s + 1) + i - 1 = s + a + 1 /\ (s + 1) + j - 1 = s + z
      BY <3>2, <3>3
    <3>. QED BY <3>4 DEF a, z
  <2>6. SubSeq(rest, i, j) \in Seq(Nat)
    <3>1. j <= l
      <4>. HIDE DEF M, l
      <4>. QED BY <1>5
    <3>. HIDE DEF i, j, rest, l
    <3>2. l = Len(rest)
      BY DEF l
    <3>. QED BY <1>2, <2>2, <3>1, <3>2
  <2>7. SubSeq(rest, i, j) = SubSeq(y, (s + 1) + i - 1, (s + 1) + j - 1)
    <3>. HIDE DEF i, j, s, N, rest
    <3>. QED BY <1>1, <2>4
  <2>. HIDE DEF x, M, s, rest, N
  <2>. QED BY <2>1, <2>5, <2>6, <2>7
<1>7. x \in Seq(Seq(Nat)) /\ Len(x) = r
  <2>. DEFINE V == Seq(Nat)
  <2>1. DOMAIN x = 1 .. r /\ x = [k \in 1 .. r |-> x[k]]
    <3>. HIDE DEF M
    <3>. QED BY <1>5
  <2>. HIDE DEF x, r
  <2>2. \A k \in 1 .. r : x[k] \in V
    BY <1>6
  <2>. HIDE DEF V
  <2>3. x \in [1 .. r -> V]
    BY <2>1, <2>2
  <2>4. x \in Seq(V) /\ Len(x) = r
    BY <1>3, <2>3, FunctionIsSeq
  <2>. QED BY <2>4 DEF V
<1>. DEFINE cc == c \o x
<1>8. /\ cc \in Seq(Seq(Nat)) /\ Len(cc) = n + r
      /\ \A m \in 1 .. n : cc[m] = c[m]
      /\ \A m \in 1 .. r : cc[n + m] = x[m]
  <2>. DEFINE V == Seq(Nat)
  <2>. HIDE DEF x, c, V
  <2>1. c \in Seq(V) /\ x \in Seq(V)
    BY <1>1, <1>7 DEF V
  <2>2. /\ cc \in Seq(V)
        /\ Len(cc) = Len(c) + Len(x)
        /\ \A m \in 1 .. Len(c) : cc[m] = c[m]
        /\ \A m \in 1 .. Len(x) : cc[Len(c) + m] = x[m]
    BY <2>1, CatParts
  <2>. QED BY <1>7, <2>2 DEF V
<1>9. /\ e \in [0 .. n + r -> 0 .. N] /\ e[0] = 0 /\ e[n + r] = s + t
      /\ \A k \in 0 .. n : e[k] = b[k]
      /\ \A k \in 0 .. r : e[n + k] = s + M[k]
  <2>1. \A k \in 0 .. r : s + M[k] \in 0 .. N
    <3>. TAKE k \in 0 .. r
    <3>1. M[k] \in Nat /\ M[k] <= M[r]
      <4>. HIDE DEF M, r
      <4>1. k \in Nat /\ k <= r /\ r \in Nat
        BY <1>3
      <4>. QED BY <1>4, <4>1
    <3>2. s \in Nat /\ N - s = l /\ N \in Nat
      <4>. HIDE DEF s, N, l
      <4>. QED BY <1>1, <1>2
    <3>3. M[r] = t /\ t \in Nat /\ t <= l
      <4>. HIDE DEF M, r, t, l
      <4>. QED BY <1>3, <1>4
    <3>. DEFINE a == M[k]
                z == M[r]
    <3>. HIDE DEF M, s, N, l, t, r, a, z
    <3>4. a \in Nat /\ a <= z /\ z = t
      BY <3>1, <3>3 DEF a, z
    <3>5. s + a \in 0 .. N
      BY <1>2, <3>2, <3>3, <3>4
    <3>. QED BY <3>5 DEF a
  <2>2. s = b[n] /\ M[0] = 0 /\ M[r] = t
    <3>. HIDE DEF M, t, r
    <3>. QED BY <1>4
  <2>. HIDE DEF s, M, r, t, N, n
  <2>3. \A k \in 0 .. n : e[k] = b[k]
    BY <1>1, <1>3
  <2>4. ASSUME NEW k \in 0 .. r PROVE e[n + k] = s + M[k]
    <3>1. CASE k = 0
      <4>1. s + 0 = s
        BY <1>1
      <4>. QED BY <1>1, <1>3, <2>2, <2>3, <3>1, <4>1
    <3>2. CASE k # 0
      <4>1. n + k \in 0 .. n + r /\ ~(n + k <= n) /\ (n + k) - n = k
        BY <1>1, <1>3, <3>2
      <4>. QED BY <4>1
    <3>. QED BY <3>1, <3>2
  <2>5. ASSUME NEW k \in 0 .. n + r PROVE e[k] \in 0 .. N
    <3>1. CASE k <= n
      BY <1>1, <1>3, <2>3, <3>1
    <3>2. CASE ~(k <= n)
      <4>1. k - n \in 0 .. r /\ n + (k - n) = k
        BY <1>1, <1>3, <3>2
      <4>. DEFINE i == k - n
      <4>. HIDE DEF i
      <4>2. e[n + i] = s + M[i] /\ s + M[i] \in 0 .. N
        BY <2>1, <2>4, <4>1 DEF i
      <4>. QED BY <4>1, <4>2 DEF i
    <3>. QED BY <3>1, <3>2
  <2>6. e \in [0 .. n + r -> 0 .. N]
    BY <2>5
  <2>7. e[0] = 0 /\ e[n + r] = s + t
    <3>1. 0 \in 0 .. n /\ r \in 0 .. r
      BY <1>1, <1>3
    <3>2. e[0] = b[0] /\ e[n + r] = s + M[r]
      BY <2>3, <2>4, <3>1
    <3>. QED BY <1>1, <1>3, <2>2, <3>2
  <2>. QED BY <2>3, <2>4, <2>6, <2>7
<1>10. ASSUME NEW k \in 1 .. n + r
       PROVE  e[k - 1] < e[k] /\ cc[k] = SubSeq(y, e[k - 1] + 1, e[k])
  <2>. HIDE DEF s, M, r, t, N, n, e, cc, c, x
  <2>1. CASE k <= n
    <3>1. k \in 1 .. n /\ k - 1 \in 0 .. n /\ k \in 0 .. n
      BY <1>1, <1>3, <2>1
    <3>. QED BY <1>1, <1>8, <1>9, <3>1
  <2>2. CASE ~(k <= n)
    <3>. DEFINE i == k - n
    <3>1. i \in 1 .. r /\ i - 1 \in 0 .. r /\ i \in 0 .. r /\ k = n + i /\ k - 1 = n + (i - 1)
      BY <1>1, <1>3, <2>2
    <3>. HIDE DEF i
    <3>2. e[k - 1] = s + M[i - 1] /\ e[k] = s + M[i]
      BY <1>9, <3>1
    <3>3. cc[k] = x[i] /\ x[i] = SubSeq(y, s + M[i - 1] + 1, s + M[i])
      BY <1>6, <1>8, <3>1
    <3>4. M[i - 1] \in Nat /\ M[i] = M[i - 1] + w /\ s \in Nat
      BY <1>1, <1>5, <3>1
    <3>. DEFINE p == M[i - 1]
                q2 == M[i]
    <3>. HIDE DEF p, q2
    <3>5. s + p < s + q2 /\ s + (p + 1) = (s + p) + 1
      BY <3>4 DEF p, q2
    <3>. QED BY <3>2, <3>3, <3>5 DEF p, q2
  <2>. QED BY <2>1, <2>2
<1>11. Cuts(cc, y, e)
  <2>1. Len(cc) = n + r /\ n + r \in Nat
    <3>. HIDE DEF cc, n, r
    <3>. QED BY <1>1, <1>3, <1>8
  <2>. HIDE DEF e, cc, n, r
  <2>. QED BY <1>8, <1>9, <1>10, <2>1 DEF Cuts, N
<1>12. Rest(rest, t) = SubSeq(y, e[n + r] + 1, N)
  <2>1. Rest(rest, t) = SubSeq(rest, t + 1, l)
    BY DEF Rest
  <2>. DEFINE i == t + 1
  <2>2. s + 1 \in Nat \ {0} /\ N <= Len(y) /\ s + 1 <= N + 1 /\ N \in Nat
    <3>1. s \in 0 .. N
      BY <1>1
    <3>. HIDE DEF s
    <3>. QED BY <1>1, <3>1
  <2>3. i \in Nat \ {0} /\ l \in Nat /\ i <= l + 1 /\ l <= N - (s + 1) + 1
    <3>. HIDE DEF s, N, l, t
    <3>. QED BY <1>1, <1>2, <1>3
  <2>4. SubSeq(SubSeq(y, s + 1, N), i, l) = SubSeq(y, (s + 1) + i - 1, (s + 1) + l - 1)
    <3>. DEFINE a == s + 1
    <3>. HIDE DEF i, l, s, N, a
    <3>1. a \in Nat \ {0} /\ N <= Len(y) /\ a <= N + 1 /\ N \in Nat /\ l <= N - a + 1
      BY <2>2, <2>3 DEF a
    <3>2. PartOfPart(y, a, N, i, l)
      BY <2>3, <3>1, SubSub
    <3>. QED BY <3>2 DEF PartOfPart, a
  <2>5. (s + 1) + i - 1 = e[n + r] + 1 /\ (s + 1) + l - 1 = N
    <3>. HIDE DEF s, N, l, t, e, n, r
    <3>. QED BY <1>1, <1>2, <1>3, <1>9
  <2>. HIDE DEF e, n, r, t, l, s, N, rest
  <2>. QED BY <1>1, <2>1, <2>4, <2>5 DEF i
<1>13. w = 1 => e[n + r] = N
  <2>. HIDE DEF s, N, l, t, e, n, r
  <2>. QED BY <1>1, <1>2, <1>3, <1>9
<1>14. /\ ChopOne(acc, w).cut = cc /\ ChopOne(acc, w).rest = Rest(rest, t)
       /\ Len(cc) = n + r
  <2>. HIDE DEF n, r
  <2>1. Len(cc) = n + r
    BY <1>8
  <2>. QED BY <2>1 DEF ChopOne, r, n
<1>. HIDE DEF e, cc, n, r, rest, t, N
<1>15. Chopped(ChopOne(acc, w), y, e)
  BY <1>11, <1>12, <1>14 DEF Chopped, N
<1>16. w = 1 => e[Len(ChopOne(acc, w).cut)] = Len(y)
  BY <1>13, <1>14 DEF N
<1>. QED BY <1>15, <1>16
(* Batched cuts all of a list into pieces that are not empty.              *)
LEMMA BatchedCuts ==
  ASSUME NEW y \in Seq(Nat), NEW widths \in Seq(Nat \ {0})
  PROVE  \E b : /\ Cuts(Batched(y, widths), y, b)
                /\ b[Len(Batched(y, widths))] = Len(y)
<1>. DEFINE ws == Append(widths, 1)
            n == Len(ws)
            base == [cut |-> << >>, rest |-> y]
            R == [cut : Seq(Seq(Nat)), rest : Seq(Nat)]
            V == {v \in R : \E b : Chopped(v, y, b)}
            Fold(h) == h = [s \in SUBSET (DOMAIN ws) |->
                              IF s = {} THEN base ELSE ChopOne(h[s \ {Max(s)}], ws[Max(s)])]
            step == [p \in V \X (1 .. n) |-> ChopOne(p[1], ws[p[2]])]
<1>1. Batched(y, widths) = (CHOOSE h : Fold(h))[DOMAIN ws].cut
  BY Zenon DEF Batched, FoldLeft, MapThenFoldSet, ChopOne
<1>2. /\ n \in Nat /\ n \in 1 .. n /\ DOMAIN ws = 1 .. n /\ ws[n] = 1
      /\ \A k \in 1 .. n : ws[k] \in Nat \ {0}
  <2>1. ws \in Seq(Nat \ {0}) /\ n = Len(widths) + 1 /\ ws[Len(widths) + 1] = 1
    OBVIOUS
  <2>. HIDE DEF ws
  <2>. QED BY <2>1
<1>. HIDE DEF ws, n
<1>3. base \in V
  <2>. DEFINE W == Seq(Nat)
              b == [k \in {0} |-> 0]
  <2>1. << >> \in Seq(W) /\ Len(<< >>) = 0
    BY EmptySeq
  <2>2. base \in R
    <3>. HIDE DEF W
    <3>1. base \in [cut : Seq(W), rest : W]
      BY <2>1 DEF W
    <3>. QED BY <3>1 DEF W
  <2>3. Cuts(<< >>, y, b)
    <3>1. b \in [0 .. 0 -> 0 .. Len(y)] /\ b[0] = 0
      <4>1. 0 .. 0 = {0} /\ 0 \in 0 .. Len(y)
        OBVIOUS
      <4>. QED BY <4>1
    <3>2. 1 .. 0 = {}
      OBVIOUS
    <3>3. << >> \in Seq(Seq(Nat))
      BY <2>1 DEF W
    <3>. HIDE DEF b
    <3>. QED BY <2>1, <3>1, <3>2, <3>3 DEF Cuts
  <2>4. y = SubSeq(y, b[0] + 1, Len(y))
    <3>1. b[0] + 1 = 1
      OBVIOUS
    <3>2. SubSeq(y, 1, Len(y)) = y
      BY WholeIs
    <3>. HIDE DEF b
    <3>. QED BY <3>1, <3>2
  <2>5. base.cut = << >> /\ base.rest = y
    OBVIOUS
  <2>. HIDE DEF b, base
  <2>6. Chopped(base, y, b)
    BY <2>1, <2>3, <2>4, <2>5 DEF Chopped
  <2>. HIDE DEF R
  <2>. QED BY <2>2, <2>6
<1>4. ASSUME NEW v, NEW b, Chopped(v, y, b), v = [cut |-> v.cut, rest |-> v.rest] PROVE v \in V
  <2>1. v.cut \in Seq(Seq(Nat)) /\ b[Len(v.cut)] \in 0 .. Len(y)
        /\ v.rest = SubSeq(y, b[Len(v.cut)] + 1, Len(y))
    <3>1. /\ v.cut \in Seq(Seq(Nat)) /\ Len(v.cut) \in Nat
          /\ b \in [0 .. Len(v.cut) -> 0 .. Len(y)]
          /\ v.rest = SubSeq(y, b[Len(v.cut)] + 1, Len(y))
      BY <1>4, Zenon DEF Chopped, Cuts
    <3>. DEFINE m == Len(v.cut)
    <3>. HIDE DEF m
    <3>2. m \in 0 .. m
      BY <3>1 DEF m
    <3>3. b[m] \in 0 .. Len(y)
      BY <3>1, <3>2 DEF m
    <3>. QED BY <3>1, <3>3 DEF m
  <2>2. v.rest \in Seq(Nat)
    <3>. DEFINE i == b[Len(v.cut)]
                a == i + 1
                N == Len(y)
    <3>1. i \in 0 .. N /\ N \in Nat
      BY <2>1
    <3>. HIDE DEF i, N
    <3>2. a \in 1 .. N + 1
      BY <3>1
    <3>. HIDE DEF a
    <3>3. SubSeq(y, a, N) \in Seq(Nat)
      BY <3>1, <3>2 DEF N
    <3>. QED BY <2>1, <3>3 DEF a, i, N
  <2>. DEFINE W == Seq(Nat)
  <2>. HIDE DEF W
  <2>3. v \in [cut : Seq(W), rest : W]
    BY <1>4, <2>1, <2>2 DEF W
  <2>4. v \in R
    BY <2>3 DEF W
  <2>. HIDE DEF R
  <2>. QED BY <1>4, <2>4
<1>5. ASSUME NEW v \in V, NEW w \in Nat \ {0}
      PROVE  ChopOne(v, w) \in V
  <2>1. PICK b : Chopped(v, y, b)
    <3>. HIDE DEF R
    <3>. QED BY <1>5
  <2>2. PICK e : Chopped(ChopOne(v, w), y, e)
    BY <2>1, ChopsMore
  <2>3. ChopOne(v, w) = [cut |-> ChopOne(v, w).cut, rest |-> ChopOne(v, w).rest]
    BY DEF ChopOne
  <2>. HIDE DEF V
  <2>. QED BY <1>4, <2>2, <2>3
<1>. HIDE DEF base
<1>6. \E h : Fold(h)
  <2>. HIDE DEF V
  <2>1. step \in [V \X (1 .. n) -> V]
    BY <1>2, <1>5
  <2>. DEFINE st == step
  <2>. HIDE DEF st
  <2>2. PICK h : Folding(h, n, V, base, st)
    <3>1. st \in [V \X (1 .. n) -> V]
      BY <2>1 DEF st
    <3>. QED BY <1>2, <1>3, <3>1, FoldExists
  <2>3. /\ h \in [SUBSET (1 .. n) -> V]
        /\ \A s \in SUBSET (1 .. n) :
             h[s] = IF s = {} THEN base ELSE st[<<h[s \ {Max(s)}], Max(s)>>]
    BY <2>2 DEF Folding
  <2>4. ASSUME NEW s \in SUBSET (1 .. n)
        PROVE  h[s] = IF s = {} THEN base ELSE ChopOne(h[s \ {Max(s)}], ws[Max(s)])
    <3>1. CASE s = {}
      BY <2>3, <3>1
    <3>2. CASE s # {}
      <4>1. Max(s) \in 1 .. n /\ s \ {Max(s)} \in SUBSET (1 .. n)
        BY <1>2, <3>2, MaxOfPositions
      <4>. DEFINE p == <<h[s \ {Max(s)}], Max(s)>>
      <4>2. p \in V \X (1 .. n)
        BY <2>3, <4>1
      <4>3. st[p] = ChopOne(p[1], ws[p[2]])
        BY <4>2 DEF st
      <4>4. p[1] = h[s \ {Max(s)}] /\ p[2] = Max(s)
        OBVIOUS
      <4>. HIDE DEF p
      <4>5. st[p] = ChopOne(h[s \ {Max(s)}], ws[Max(s)])
        BY <4>3, <4>4
      <4>. QED BY <2>3, <3>2, <4>5 DEF p
    <3>. QED BY <3>1, <3>2
  <2>5. h = [s \in SUBSET (1 .. n) |-> h[s]]
    BY <2>3
  <2>6. h = [s \in SUBSET (1 .. n) |->
               IF s = {} THEN base ELSE ChopOne(h[s \ {Max(s)}], ws[Max(s)])]
    BY <2>4, <2>5
  <2>7. Fold(h)
    BY <1>2, <2>6
  <2>. QED BY <2>7
<1>. DEFINE h == CHOOSE x : Fold(x)
<1>7. Fold(h)
  BY <1>6
<1>. HIDE DEF h
<1>8. h[{}] = base /\ \A s \in SUBSET (1 .. n) :
                        s # {} => h[s] = ChopOne(h[s \ {Max(s)}], ws[Max(s)])
  BY <1>2, <1>7
<1>9. \A k \in 1 .. n : h[1 .. k] = ChopOne(h[1 .. k - 1], ws[k])
  <2>. TAKE k \in 1 .. n
  <2>1. 1 .. k \in SUBSET (1 .. n) /\ 1 .. k # {} /\ Max(1 .. k) = k /\ (1 .. k) \ {k} = 1 .. k - 1
    BY <1>2, LastPosition
  <2>. QED BY <1>8, <2>1
<1>. DEFINE S == {k \in Nat : k <= n => h[1 .. k] \in V}
<1>. HIDE DEF V
<1>10. 0 \in S
  <2>1. 1 .. 0 = {}
    OBVIOUS
  <2>. QED BY <1>3, <1>8, <2>1
<1>11. ASSUME NEW k \in Nat, k \in S PROVE k + 1 \in S
  <2>. SUFFICES ASSUME k + 1 <= n PROVE h[1 .. k + 1] \in V
    OBVIOUS
  <2>1. k + 1 \in 1 .. n /\ (k + 1) - 1 = k /\ k <= n
    BY <1>2
  <2>2. h[1 .. k + 1] = ChopOne(h[1 .. k], ws[k + 1])
    BY <1>9, <2>1
  <2>. QED BY <1>2, <1>5, <1>11, <2>1, <2>2
<1>. HIDE DEF S
<1>12. \A k \in Nat : k \in S
  BY <1>10, <1>11, NatInductive
<1>13. h[1 .. n - 1] \in V
  <2>1. n - 1 \in Nat /\ n - 1 <= n
    BY <1>2
  <2>. QED BY <1>12, <2>1 DEF S
<1>14. PICK b : Chopped(h[1 .. n - 1], y, b)
  <2>. HIDE DEF R
  <2>. QED BY <1>13 DEF V
<1>. DEFINE f == ChopOne(h[1 .. n - 1], 1)
<1>15. h[1 .. n] = f
  BY <1>2, <1>9
<1>16. PICK e : Chopped(f, y, e) /\ e[Len(f.cut)] = Len(y)
  BY <1>14, ChopsMore
<1>17. Batched(y, widths) = f.cut
  BY <1>1, <1>2, <1>15 DEF h
<1>. HIDE DEF f
<1>18. Cuts(f.cut, y, e)
  BY <1>16 DEF Chopped
<1>. QED BY <1>16, <1>17, <1>18
(* The documents of a piece, and of several.                               *)
PieceOf(c, j) == DocsIn(c[j], 1 .. Len(c[j]))
PiecesOf(c, s) == UNION {PieceOf(c, j) : j \in s}

(* The pieces follow on each other and have each document of R.            *)
Slices(c, R) ==
  /\ Len(c) \in Nat /\ DOMAIN c = 1 .. Len(c)
  /\ \A j \in 1 .. Len(c) : BatchOf(R, c[j]) /\ Len(c[j]) > 0
  /\ \A i, j \in 1 .. Len(c) : i < j => \A x \in PieceOf(c, i) : \A z \in PieceOf(c, j) : x < z
  /\ PiecesOf(c, 1 .. Len(c)) = R

(* The pieces of an ascending list are like that.                          *)
LEMMA CutPieces ==
  ASSUME NEW R, Docs(R), NEW y, y = Ascending(R), NEW c, NEW b, Cuts(c, y, b), b[Len(c)] = Len(y)
  PROVE  Slices(c, R)
<1>. DEFINE n == Len(c)
            N == Cardinality(R)
<1>1. /\ N \in Nat /\ y \in [1 .. N -> R] /\ Len(y) = N /\ Climbs(y) /\ DOMAIN y = 1 .. N
      /\ \A d \in R : d \in Nat /\ Place(R, d) \in 1 .. N /\ y[Place(R, d)] = d
  BY Places
<1>2. /\ c \in Seq(Seq(Nat)) /\ n \in Nat /\ b \in [0 .. n -> 0 .. N] /\ b[0] = 0 /\ b[n] = N
      /\ \A k \in 1 .. n : b[k - 1] < b[k] /\ c[k] = SubSeq(y, b[k - 1] + 1, b[k])
  BY <1>1, Zenon DEF Cuts
<1>3. \A i, j \in 1 .. N : i < j => y[i] < y[j]
  BY <1>1 DEF Climbs
<1>4. DOMAIN c = 1 .. n
  <2>. DEFINE V == Seq(Nat)
  <2>1. c \in Seq(V)
    BY <1>2
  <2>. HIDE DEF V
  <2>. QED BY <2>1
<1>. HIDE DEF n, N
<1>5. ASSUME NEW j \in 1 .. n
      PROVE  /\ b[j - 1] \in 0 .. N /\ b[j] \in 0 .. N /\ b[j - 1] < b[j]
             /\ Len(c[j]) = b[j] - b[j - 1]
             /\ \A k \in 1 .. Len(c[j]) : c[j][k] = y[b[j - 1] + k]
             /\ c[j] \in [1 .. Len(c[j]) -> R]
  <2>. DEFINE p == b[j - 1]
              r == b[j]
              a == p + 1
              x == SubSeq(y, a, r)
              l == r - p
  <2>1. j - 1 \in 0 .. n /\ j \in 0 .. n
    BY <1>2
  <2>2. p \in 0 .. N /\ r \in 0 .. N /\ p < r /\ c[j] = x
    BY <1>2, <2>1
  <2>. HIDE DEF p, r
  <2>3. y \in Seq(R) /\ Len(y) = N
    BY <1>1
  <2>4. a \in 1 .. N /\ r <= N /\ r - a + 1 = l /\ l \in Nat /\ \A k \in 1 .. l : a + k - 1 = p + k
    BY <1>1, <2>2
  <2>. HIDE DEF a, l
  <2>5. x \in Seq(R) /\ Len(x) = l /\ \A k \in 1 .. l : x[k] = y[a + k - 1]
    <3>1. x \in Seq(R) /\ Len(x) = r - a + 1 /\ \A k \in 1 .. r - a + 1 : x[k] = y[a + k - 1]
      BY <1>1, <2>2, <2>3, <2>4
    <3>. QED BY <2>4, <3>1
  <2>6. \A k \in 1 .. l : x[k] = y[p + k]
    BY <2>4, <2>5
  <2>8. l = r - p
    BY DEF l
  <2>. HIDE DEF x
  <2>7. x \in [1 .. l -> R]
    BY <2>5
  <2>. QED BY <2>2, <2>5, <2>6, <2>7, <2>8 DEF p, r
<1>6. ASSUME NEW j \in 1 .. n, NEW k \in 1 .. Len(c[j])
      PROVE  /\ b[j - 1] + k \in 1 .. N /\ b[j - 1] < b[j - 1] + k /\ b[j - 1] + k <= b[j]
             /\ c[j][k] = y[b[j - 1] + k]
  <2>. DEFINE p == b[j - 1]
              r == b[j]
  <2>1. p \in 0 .. N /\ r \in 0 .. N /\ p < r /\ Len(c[j]) = r - p /\ c[j][k] = y[p + k]
    BY <1>5
  <2>. HIDE DEF p, r
  <2>2. p + k \in 1 .. N /\ p < p + k /\ p + k <= r
    BY <1>1, <2>1
  <2>. QED BY <2>1, <2>2 DEF p, r
<1>7. ASSUME NEW j \in 1 .. n PROVE BatchOf(R, c[j]) /\ Len(c[j]) > 0
  <2>. DEFINE p == b[j - 1]
              l == Len(c[j])
              x == c[j]
  <2>1. p \in 0 .. N /\ b[j] \in 0 .. N /\ p < b[j] /\ l = b[j] - p
        /\ x \in [1 .. l -> R]
    BY <1>5
  <2>2. \A k \in 1 .. l : p + k \in 1 .. N /\ x[k] = y[p + k]
    BY <1>6
  <2>. HIDE DEF p, l
  <2>3. l \in Nat /\ l > 0
    BY <1>1, <2>1
  <2>4. \A i, k \in 1 .. l : i < k => x[i] < x[k]
    <3>. TAKE i, k \in 1 .. l
    <3>. HAVE i < k
    <3>1. p + i < p + k
      BY <1>1, <2>1, <2>3
    <3>. QED BY <1>3, <2>2, <3>1
  <2>. HIDE DEF x
  <2>5. Climbs(x)
    BY <2>1, <2>4 DEF Climbs
  <2>. QED BY <2>1, <2>3, <2>5 DEF BatchOf, x, l
<1>8. \A i, j \in 0 .. n : i <= j => b[i] <= b[j]
  <2>. DEFINE K == {k \in Nat : \A i \in 0 .. n : i + k <= n => b[i] <= b[i + k]}
  <2>1. 0 \in K
    <3>1. ASSUME NEW i \in 0 .. n PROVE b[i] <= b[i + 0]
      <4>1. i + 0 = i /\ b[i] \in 0 .. N
        BY <1>2
      <4>. QED BY <1>1, <4>1
    <3>. QED BY <3>1
  <2>2. ASSUME NEW k \in Nat, k \in K PROVE k + 1 \in K
    <3>. SUFFICES ASSUME NEW i \in 0 .. n, i + (k + 1) <= n PROVE b[i] <= b[i + (k + 1)]
      OBVIOUS
    <3>1. i + (k + 1) \in 1 .. n /\ (i + (k + 1)) - 1 = i + k /\ i + k \in 0 .. n /\ i + k <= n
      BY <1>2
    <3>2. b[i] <= b[i + k]
      BY <2>2, <3>1
    <3>. DEFINE m == i + (k + 1)
                g == i + k
    <3>. HIDE DEF m, g
    <3>3. b[g] < b[m] /\ m \in 0 .. n /\ g \in 0 .. n
      <4>1. m \in 1 .. n /\ m - 1 = g
        BY <3>1 DEF m, g
      <4>. QED BY <1>2, <3>1, <4>1 DEF g
    <3>4. b[i] \in Nat /\ b[g] \in Nat /\ b[m] \in Nat
      <4>1. \A u \in 0 .. n : b[u] \in 0 .. N
        BY <1>2
      <4>2. \A u \in 0 .. N : u \in Nat
        BY <1>1
      <4>. QED BY <3>3, <4>1, <4>2
    <3>5. b[i] <= b[g]
      BY <3>2 DEF g
    <3>6. b[i] <= b[m]
      BY <3>3, <3>4, <3>5
    <3>. QED BY <3>6 DEF m
  <2>. HIDE DEF K
  <2>3. \A k \in Nat : k \in K
    BY <2>1, <2>2, NatInductive
  <2>4. ASSUME NEW i \in 0 .. n, NEW j \in 0 .. n, i <= j PROVE b[i] <= b[j]
    <3>1. j - i \in Nat /\ i + (j - i) = j /\ i + (j - i) <= n
      BY <1>2, <2>4
    <3>2. j - i \in K
      BY <2>3, <3>1
    <3>. QED BY <3>1, <3>2 DEF K
  <2>. QED BY <2>4
<1>9. ASSUME NEW i \in 1 .. n, NEW j \in 1 .. n, i < j,
             NEW x \in PieceOf(c, i), NEW z \in PieceOf(c, j)
      PROVE  x < z
  <2>1. PICK k \in 1 .. Len(c[i]) : x = c[i][k]
    BY DEF PieceOf, DocsIn
  <2>2. PICK l \in 1 .. Len(c[j]) : z = c[j][l]
    BY DEF PieceOf, DocsIn
  <2>. DEFINE p == b[i - 1] + k
              r == b[j - 1] + l
  <2>3. p \in 1 .. N /\ p <= b[i] /\ x = y[p]
    BY <1>6, <2>1
  <2>4. r \in 1 .. N /\ b[j - 1] < r /\ z = y[r]
    BY <1>6, <2>2
  <2>. HIDE DEF p, r
  <2>5. i \in 0 .. n /\ j - 1 \in 0 .. n /\ i <= j - 1
    BY <1>2, <1>9
  <2>6. b[i] <= b[j - 1] /\ b[i] \in 0 .. N /\ b[j - 1] \in 0 .. N
    BY <1>2, <1>8, <2>5
  <2>7. p < r
    BY <1>1, <2>3, <2>4, <2>6
  <2>. QED BY <1>3, <2>3, <2>4, <2>7
<1>10. PiecesOf(c, 1 .. n) \subseteq R
  <2>. SUFFICES ASSUME NEW j \in 1 .. n, NEW k \in 1 .. Len(c[j]) PROVE c[j][k] \in R
    BY DEF PiecesOf, PieceOf, DocsIn
  <2>. QED BY <1>5
<1>11. ASSUME NEW x \in R PROVE x \in PiecesOf(c, 1 .. n)
  <2>. DEFINE p == Place(R, x)
              T == {k \in 0 .. n : p <= b[k]}
  <2>1. p \in 1 .. N /\ y[p] = x
    BY <1>1
  <2>. HIDE DEF p
  <2>2. n \in T
    <3>1. n \in 0 .. n /\ p <= N
      BY <1>1, <1>2, <2>1
    <3>. QED BY <1>2, <3>1
  <2>3. T \in SUBSET Nat /\ T # {}
    <3>1. \A k \in 0 .. n : k \in Nat
      BY <1>2
    <3>. QED BY <2>2, <3>1
  <2>4. PICK j \in T : \A m \in T : j <= m
    <3>. HIDE DEF T
    <3>. QED BY <2>3, NatLeast
  <2>5. j \in 0 .. n /\ p <= b[j] /\ j # 0
    <3>1. ~(p <= b[0])
      BY <1>1, <1>2, <2>1
    <3>. QED BY <3>1
  <2>6. j \in 1 .. n /\ j - 1 \in 0 .. n /\ ~(j <= j - 1)
    BY <1>2, <2>5
  <2>7. ~(p <= b[j - 1])
    BY <2>4, <2>6
  <2>. DEFINE k == p - b[j - 1]
  <2>8. k \in 1 .. Len(c[j]) /\ b[j - 1] + k = p
    <3>. DEFINE a == b[j - 1]
                e == b[j]
    <3>1. a \in 0 .. N /\ e \in 0 .. N /\ Len(c[j]) = e - a
      BY <1>5, <2>6
    <3>. HIDE DEF a, e
    <3>2. p - a \in 1 .. (e - a) /\ a + (p - a) = p
      <4>1. p <= e /\ ~(p <= a)
        BY <2>5, <2>7 DEF a, e
      <4>. QED BY <1>1, <2>1, <3>1, <4>1
    <3>. QED BY <3>1, <3>2 DEF a
  <2>. HIDE DEF k
  <2>9. c[j][k] = x
    BY <1>6, <2>1, <2>6, <2>8
  <2>10. x \in PieceOf(c, j)
    BY <2>8, <2>9 DEF PieceOf, DocsIn
  <2>. QED BY <2>6, <2>10 DEF PiecesOf
<1>12. PiecesOf(c, 1 .. n) = R
  BY <1>10, <1>11
<1>. QED BY <1>2, <1>4, <1>7, <1>9, <1>12 DEF Slices, n
(* The tables that the accumulators go through for one token.              *)
Tabled(T) ==
  /\ Rowed(T.freqs, T.holders) /\ Rowed(T.lens, T.lengthy) /\ T.holders \subseteq T.lengthy
  /\ T.denseFreqs => \A d \in T.holders : Place(T.holders, d) = d + 1
  /\ T.denseLens => \A d \in T.lengthy : Place(T.lengthy, d) = d + 1
  /\ Docs(T.cands) /\ T.val \in [T.cands -> Int] /\ T.part \in [T.cands -> Int]
  /\ \A d \in T.cands \intersect T.holders :
       T.part[d] = Part(T.freqs[d].freq, T.lens[d].length, T.boost)

(* Where they stand behind the documents of Z.                             *)
Standing(T, Z, g) ==
  [freqs   |-> Cursor(T.freqs, T.holders, T.denseFreqs, Z),
   lens    |-> Cursor(T.lens, T.lengthy, T.denseLens, Z),
   scoring |-> [table |-> Scored(T.cands, Raised(T.val, T.part, Z)), guess |-> g]]

(* The body of their loop.                                                 *)
TakeBatch(T, acc, batch) ==
  LET tf == Positions(acc.freqs, T.denseFreqs, batch)
      dl == Positions(acc.lens, T.denseLens, batch)
      part(k) == Part(acc.freqs[tf[k]].freq, acc.lens[dl[k]].length, T.boost)
  IN  [freqs   |-> Advance(acc.freqs, T.denseFreqs, batch),
       lens    |-> Advance(acc.lens, T.denseLens, batch),
       scoring |-> AddParts(acc.scoring, batch, [k \in DOMAIN batch |-> part(k)])]

(* A batch gives its documents their parts and moves the cursors.          *)
LEMMA BatchAdds ==
  ASSUME NEW T, Tabled(T), NEW Z \in SUBSET (T.cands \intersect T.holders), NEW batch,
         BatchOf(Ahead(T.cands \intersect T.holders, Z), batch), Len(batch) > 0,
         NEW g \in Nat, g < Place(T.cands, batch[1])
  PROVE  TakeBatch(T, Standing(T, Z, g), batch)
           = Standing(T, Z \union DocsIn(batch, 1 .. Len(batch)),
                      Place(T.cands, batch[Len(batch)]) - 1)
<1>. DEFINE C == T.cands
            H == T.holders
            G == T.lengthy
            R == C \intersect H
            n == Len(batch)
            B == DocsIn(batch, 1 .. n)
            acc == Standing(T, Z, g)
            fs == Cursor(T.freqs, H, T.denseFreqs, Z)
            ls == Cursor(T.lens, G, T.denseLens, Z)
            val == Raised(T.val, T.part, Z)
            tf == Positions(fs, T.denseFreqs, batch)
            dl == Positions(ls, T.denseLens, batch)
            parts == [k \in DOMAIN batch |-> Part(fs[tf[k]].freq, ls[dl[k]].length, T.boost)]
<1>1. /\ n \in Nat /\ n > 0 /\ batch \in [1 .. n -> Ahead(R, Z)] /\ Climbs(batch)
      /\ DOMAIN batch = 1 .. n
  BY DEF BatchOf
<1>2. Ahead(R, Z) \subseteq Ahead(H, Z) /\ Ahead(H, Z) \subseteq Ahead(G, Z) /\ Ahead(R, Z) \subseteq C
  BY DEF Ahead, Tabled
<1>3. BatchOf(Ahead(H, Z), batch) /\ BatchOf(Ahead(G, Z), batch) /\ BatchOf(C, batch)
  <2>. HIDE DEF n, R, H, G, C
  <2>1. /\ batch \in [1 .. n -> Ahead(H, Z)]
        /\ batch \in [1 .. n -> Ahead(G, Z)]
        /\ batch \in [1 .. n -> C]
    BY <1>1, <1>2
  <2>. QED BY <1>1, <2>1 DEF BatchOf, n
<1>4. CursorMoves(T.freqs, H, T.denseFreqs, Z, batch)
  <2>1. Rowed(T.freqs, H) /\ (T.denseFreqs => \A d \in H : Place(H, d) = d + 1)
    BY DEF Tabled
  <2>. HIDE DEF H, n
  <2>2. Len(batch) > 0
    BY <1>1 DEF n
  <2>. QED BY <1>3, <2>1, <2>2, CursorsMove
<1>5. CursorMoves(T.lens, G, T.denseLens, Z, batch)
  <2>1. Rowed(T.lens, G) /\ (T.denseLens => \A d \in G : Place(G, d) = d + 1)
    BY DEF Tabled
  <2>. HIDE DEF G, n
  <2>2. Len(batch) > 0
    BY <1>1 DEF n
  <2>. QED BY <1>3, <2>1, <2>2, CursorsMove
<1>6. /\ Advance(fs, T.denseFreqs, batch) = Cursor(T.freqs, H, T.denseFreqs, Z \union B)
      /\ Advance(ls, T.denseLens, batch) = Cursor(T.lens, G, T.denseLens, Z \union B)
      /\ \A k \in 1 .. n : fs[tf[k]] = T.freqs[batch[k]] /\ ls[dl[k]] = T.lens[batch[k]]
  BY <1>4, <1>5 DEF CursorMoves
<1>7. \A k \in 1 .. n : parts[k] = T.part[batch[k]]
  <2>. TAKE k \in 1 .. n
  <2>1. batch[k] \in R
    BY <1>1 DEF Ahead
  <2>2. T.part[batch[k]] = Part(T.freqs[batch[k]].freq, T.lens[batch[k]].length, T.boost)
    BY <2>1 DEF Tabled
  <2>3. parts[k] = Part(fs[tf[k]].freq, ls[dl[k]].length, T.boost)
    BY <1>1
  <2>. QED BY <1>6, <2>2, <2>3
<1>8. Docs(C) /\ T.val \in [C -> Int] /\ T.part \in [C -> Int]
  BY DEF Tabled
<1>9. val \in [C -> Int] /\ val = [d \in C |-> IF d \in Z THEN T.val[d] + T.part[d] ELSE T.val[d]]
  <2>1. DOMAIN T.val = C
    BY <1>8
  <2>2. val = [d \in C |-> IF d \in Z THEN T.val[d] + T.part[d] ELSE T.val[d]]
    BY <2>1 DEF Raised
  <2>. HIDE DEF val, C
  <2>. QED BY <1>8, <2>2
<1>10. AddParts([table |-> Scored(C, val), guess |-> g], batch, parts)
         = Credited(C, val, T.part, batch, g)
  <2>. DEFINE pt == T.part
  <2>. HIDE DEF C, val, parts, n, pt
  <2>1. Len(batch) > 0 => g < Place(C, batch[1])
    BY DEF C
  <2>2. \A k \in 1 .. Len(batch) : parts[k] = pt[batch[k]]
    BY <1>7 DEF n, pt
  <2>3. val \in [C -> Int] /\ pt \in [C -> Int] /\ Docs(C) /\ BatchOf(C, batch)
    BY <1>3, <1>8, <1>9 DEF pt
  <2>4. PartsAdd(C, val, pt, batch, g, parts)
    BY <2>1, <2>2, <2>3, AddPartsIs
  <2>. QED BY <2>4 DEF PartsAdd, pt
<1>11. Raised(val, T.part, B) = Raised(T.val, T.part, Z \union B)
  <2>1. B \intersect Z = {}
    <3>1. ASSUME NEW k \in 1 .. n, batch[k] \in Z PROVE FALSE
      <4>1. batch[k] \in Ahead(R, Z)
        BY <1>1
      <4>2. batch[k] < batch[k] /\ batch[k] \in C
        BY <3>1, <4>1 DEF Ahead
      <4>3. batch[k] \in Nat
        BY <1>8, <4>2 DEF Docs, Numbers
      <4>. QED BY <4>2, <4>3
    <3>. QED BY <3>1 DEF DocsIn
  <2>2. DOMAIN val = C /\ DOMAIN T.val = C
    BY <1>8, <1>9
  <2>. HIDE DEF val, B, C
  <2>3. \A d \in C : (IF d \in B THEN val[d] + T.part[d] ELSE val[d])
                       = (IF d \in Z \union B THEN T.val[d] + T.part[d] ELSE T.val[d])
    BY <1>9, <2>1
  <2>. QED BY <2>2, <2>3 DEF Raised
<1>12. Credited(C, val, T.part, batch, g)
         = [table |-> Scored(C, Raised(T.val, T.part, Z \union B)), guess |-> Place(C, batch[n]) - 1]
  <2>1. n # 0
    BY <1>1
  <2>. QED BY <1>11, <2>1 DEF Credited
<1>13. TakeBatch(T, acc, batch)
         = [freqs   |-> Advance(fs, T.denseFreqs, batch),
            lens    |-> Advance(ls, T.denseLens, batch),
            scoring |-> AddParts([table |-> Scored(C, val), guess |-> g], batch, parts)]
  BY DEF TakeBatch, Standing
<1>. HIDE DEF fs, ls, val, parts, tf, dl, acc
<1>14. TakeBatch(T, acc, batch)
         = [freqs   |-> Cursor(T.freqs, H, T.denseFreqs, Z \union B),
            lens    |-> Cursor(T.lens, G, T.denseLens, Z \union B),
            scoring |-> [table |-> Scored(C, Raised(T.val, T.part, Z \union B)),
                         guess |-> Place(C, batch[n]) - 1]]
  BY <1>6, <1>10, <1>12, <1>13
<1>. QED BY <1>14 DEF Standing, acc
(* The fold of the accumulators over the batches.                          *)
BatchFold(T, c, h) ==
  h = [s \in SUBSET (1 .. Len(c)) |->
         IF s = {} THEN Standing(T, {}, 0)
         ELSE TakeBatch(T, h[s \ {Max(s)}], c[Max(s)])]

(* Where a score was found last.                                           *)
LastPlace(T, c, s) ==
  IF s = {} THEN 0 ELSE Place(T.cands, c[Max(s)][Len(c[Max(s)])]) - 1

(* The state after the batches of s.                                       *)
Reached(T, c, s) == Standing(T, PiecesOf(c, s), LastPlace(T, c, s))

(* One batch leads from one such state to the next.                        *)
LEMMA BatchLeads ==
  ASSUME NEW T, Tabled(T), NEW c, Slices(c, T.cands \intersect T.holders),
         NEW s \in SUBSET (1 .. Len(c)), s # {}
  PROVE  TakeBatch(T, Reached(T, c, s \ {Max(s)}), c[Max(s)]) = Reached(T, c, s)
<1>. DEFINE C == T.cands
            R == T.cands \intersect T.holders
            n == Len(c)
            j == Max(s)
            r == s \ {j}
            Z == PiecesOf(c, r)
            g == LastPlace(T, c, r)
            batch == c[j]
            l == Len(batch)
<1>1. /\ n \in Nat
      /\ \A i \in 1 .. n : BatchOf(R, c[i]) /\ Len(c[i]) > 0
      /\ \A i, k \in 1 .. n : i < k => \A x \in PieceOf(c, i) : \A z \in PieceOf(c, k) : x < z
      /\ PiecesOf(c, 1 .. n) = R
  BY DEF Slices
<1>2. j \in s /\ j \in 1 .. n /\ (\A i \in s : j >= i) /\ r \in SUBSET (1 .. n) /\ \A i \in r : i < j
  <2>1. j \in s /\ \A i \in s : j >= i
    BY <1>1, MaxOfPositions
  <2>2. s \in SUBSET (1 .. n)
    OBVIOUS
  <2>. HIDE DEF j, n
  <2>3. \A i \in s : i \in Nat
    BY <1>1, <2>2
  <2>4. \A i \in s : i # j => i < j
    BY <2>1, <2>3
  <2>. QED BY <2>1, <2>2, <2>4
<1>. HIDE DEF j, n, r
<1>3. /\ l \in Nat /\ l > 0 /\ batch \in [1 .. l -> R] /\ Climbs(batch) /\ 1 \in 1 .. l /\ l \in 1 .. l
  BY <1>1, <1>2 DEF BatchOf
<1>4. \A i \in 1 .. n : PieceOf(c, i) \subseteq R
  BY <1>1 DEF PiecesOf
<1>5. Z \in SUBSET R
  BY <1>2, <1>4 DEF PiecesOf
<1>6. \A k \in 1 .. l : batch[k] \in PieceOf(c, j)
  BY DEF PieceOf, DocsIn
<1>7. BatchOf(Ahead(R, Z), batch)
  <2>1. ASSUME NEW k \in 1 .. l PROVE batch[k] \in Ahead(R, Z)
    <3>1. batch[k] \in R
      BY <1>3
    <3>2. ASSUME NEW z \in Z PROVE z < batch[k]
      <4>1. PICK i \in r : z \in PieceOf(c, i)
        BY DEF PiecesOf
      <4>2. i \in 1 .. n /\ i < j
        BY <1>2, <4>1
      <4>. QED BY <1>1, <1>2, <1>6, <4>1, <4>2
    <3>. QED BY <3>1, <3>2 DEF Ahead
  <2>. HIDE DEF Z, R, batch
  <2>2. batch \in [1 .. l -> Ahead(R, Z)]
    BY <1>3, <2>1
  <2>. QED BY <1>3, <2>2 DEF BatchOf
<1>8. Docs(C)
  BY DEF Tabled
<1>9. \A x \in C : Place(C, x) \in Nat /\ Place(C, x) >= 1
  <2>1. /\ \A x \in C : Place(C, x) \in 1 .. Cardinality(C)
        /\ Cardinality(C) \in Nat
    BY <1>8, Places
  <2>. HIDE DEF C
  <2>2. \A x \in C : LET p == Place(C, x) IN p \in Nat /\ p >= 1
    BY <2>1
  <2>. QED BY <2>2
<1>10. batch[1] \in C /\ batch[l] \in C
  BY <1>3
<1>11. g \in Nat /\ g < Place(C, batch[1])
  <2>1. CASE r = {}
    <3>1. g = 0
      BY <2>1 DEF LastPlace
    <3>. HIDE DEF C, batch, g
    <3>. QED BY <1>9, <1>10, <3>1
  <2>2. CASE r # {}
    <3>. DEFINE i == Max(r)
                m == Len(c[i])
                d == c[i][m]
                e == batch[1]
    <3>1. i \in r
      <4>. HIDE DEF n
      <4>. QED BY <1>1, <1>2, <2>2, MaxOfPositions
    <3>2. i \in 1 .. n /\ i < j
      BY <1>2, <3>1
    <3>3. m \in 1 .. m /\ d \in R
      BY <1>1, <3>2 DEF BatchOf
    <3>4. d \in PieceOf(c, i)
      BY <3>3 DEF PieceOf, DocsIn
    <3>5. d < e /\ d \in C /\ e \in C
      BY <1>1, <1>2, <1>3, <1>6, <1>10, <3>2, <3>3, <3>4
    <3>6. g = Place(C, d) - 1
      BY <2>2 DEF LastPlace
    <3>. HIDE DEF d, e, g, C
    <3>7. Place(C, d) < Place(C, e)
      BY <1>8, <3>5, Places
    <3>8. g \in Nat /\ g < Place(C, e)
      BY <1>9, <3>5, <3>6, <3>7
    <3>. QED BY <3>8 DEF e
  <2>. QED BY <2>1, <2>2
<1>12. TakeBatch(T, Standing(T, Z, g), batch)
         = Standing(T, Z \union DocsIn(batch, 1 .. l), Place(C, batch[l]) - 1)
  <2>. DEFINE b == batch
              y == Z
              k == g
  <2>1. /\ y \in SUBSET (T.cands \intersect T.holders)
        /\ BatchOf(Ahead(T.cands \intersect T.holders, y), b) /\ Len(b) > 0
        /\ k \in Nat /\ k < Place(T.cands, b[1])
    BY <1>3, <1>5, <1>7, <1>11
  <2>. HIDE DEF b, y, k
  <2>2. TakeBatch(T, Standing(T, y, k), b)
          = Standing(T, y \union DocsIn(b, 1 .. Len(b)), Place(T.cands, b[Len(b)]) - 1)
    BY <2>1, BatchAdds
  <2>. QED BY <2>2 DEF b, y, k
<1>13. PiecesOf(c, s) = Z \union DocsIn(batch, 1 .. l)
  <2>1. s = r \union {j}
    BY <1>2 DEF r
  <2>. QED BY <2>1 DEF PiecesOf, PieceOf
<1>14. LastPlace(T, c, s) = Place(C, batch[l]) - 1
  BY DEF LastPlace, j
<1>. HIDE DEF Z, g, batch, C, l
<1>15. TakeBatch(T, Standing(T, Z, g), batch) = Standing(T, PiecesOf(c, s), LastPlace(T, c, s))
  BY <1>12, <1>13, <1>14
<1>. QED BY <1>15 DEF Reached, Z, g, batch, r, j

(* All of them give each candidate that has the token its part.            *)
LEMMA BatchesAdd ==
  ASSUME NEW T, Tabled(T), NEW c, Slices(c, T.cands \intersect T.holders)
  PROVE  /\ \E h : BatchFold(T, c, h)
         /\ \A h : BatchFold(T, c, h) =>
              h[1 .. Len(c)].scoring.table
                = Scored(T.cands, Raised(T.val, T.part, T.cands \intersect T.holders))
<1>. DEFINE n == Len(c)
            F == [s \in SUBSET (1 .. n) |-> Reached(T, c, s)]
<1>1. n \in Nat /\ PiecesOf(c, 1 .. n) = T.cands \intersect T.holders
  BY DEF Slices
<1>2. Reached(T, c, {}) = Standing(T, {}, 0)
  BY DEF Reached, PiecesOf, LastPlace
<1>3. \A s \in SUBSET (1 .. n) :
        s # {} => TakeBatch(T, Reached(T, c, s \ {Max(s)}), c[Max(s)]) = Reached(T, c, s)
  BY BatchLeads
<1>4. BatchFold(T, c, F)
  <2>1. ASSUME NEW s \in SUBSET (1 .. n)
        PROVE  F[s] = IF s = {} THEN Standing(T, {}, 0)
                      ELSE TakeBatch(T, F[s \ {Max(s)}], c[Max(s)])
    <3>1. CASE s = {}
      BY <1>2, <3>1
    <3>2. CASE s # {}
      <4>1. s \ {Max(s)} \in SUBSET (1 .. n)
        OBVIOUS
      <4>2. F[s \ {Max(s)}] = Reached(T, c, s \ {Max(s)})
        BY <4>1
      <4>. QED BY <1>3, <3>2, <4>2
    <3>. QED BY <3>1, <3>2
  <2>2. F = [s \in SUBSET (1 .. n) |-> F[s]]
    OBVIOUS
  <2>. HIDE DEF F
  <2>3. F = [s \in SUBSET (1 .. n) |->
               IF s = {} THEN Standing(T, {}, 0)
               ELSE TakeBatch(T, F[s \ {Max(s)}], c[Max(s)])]
    BY <2>1, <2>2
  <2>. QED BY <2>3 DEF BatchFold
<1>5. ASSUME NEW h, BatchFold(T, c, h)
      PROVE  h[1 .. n] = Reached(T, c, 1 .. n)
  <2>1. \A s \in SUBSET (1 .. n) :
          h[s] = IF s = {} THEN Standing(T, {}, 0) ELSE TakeBatch(T, h[s \ {Max(s)}], c[Max(s)])
    BY <1>5 DEF BatchFold
  <2>. DEFINE K == {k \in Nat : k <= n => h[1 .. k] = Reached(T, c, 1 .. k)}
  <2>2. 0 \in K
    <3>1. 1 .. 0 = {}
      OBVIOUS
    <3>. QED BY <1>2, <2>1, <3>1
  <2>3. ASSUME NEW k \in Nat, k \in K PROVE k + 1 \in K
    <3>. SUFFICES ASSUME k + 1 <= n PROVE h[1 .. k + 1] = Reached(T, c, 1 .. k + 1)
      OBVIOUS
    <3>. DEFINE i == k + 1
    <3>1. i \in 1 .. n /\ i - 1 = k /\ k <= n
      BY <1>1
    <3>. HIDE DEF i, n
    <3>2. 1 .. i \in SUBSET (1 .. n) /\ 1 .. i # {} /\ Max(1 .. i) = i /\ (1 .. i) \ {i} = 1 .. k
      BY <1>1, <3>1, LastPosition
    <3>3. h[1 .. k] = Reached(T, c, 1 .. k)
      BY <2>3, <3>1
    <3>4. h[1 .. i] = TakeBatch(T, h[1 .. k], c[i])
      BY <2>1, <3>2
    <3>5. TakeBatch(T, Reached(T, c, 1 .. k), c[i]) = Reached(T, c, 1 .. i)
      BY <1>3, <3>2
    <3>. QED BY <3>3, <3>4, <3>5 DEF i
  <2>. HIDE DEF K
  <2>4. \A k \in Nat : k \in K
    BY <2>2, <2>3, NatInductive
  <2>5. n \in K /\ n <= n
    BY <1>1, <2>4
  <2>. QED BY <2>5 DEF K
<1>6. Reached(T, c, 1 .. n).scoring.table
        = Scored(T.cands, Raised(T.val, T.part, T.cands \intersect T.holders))
  BY <1>1 DEF Reached, Standing
<1>. HIDE DEF F
<1>. QED BY <1>4, <1>5, <1>6
(* What a document says of a token it has.                                 *)
FreqIn(D, f, v, d) == D[d + 1].fields[f].tokens[v]
LengthIn(D, f, d) == D[d + 1].fields[f].length

(* Such a token is counted, and no more often than the field is long.      *)
LEMMA Occurs ==
  ASSUME NEW D, IsCorpus(D), NEW f, NEW v, NEW d \in 0 .. Len(D) - 1, HasToken(D[d + 1], f, v)
  PROVE  /\ LengthIn(D, f, d) \in Nat /\ FreqIn(D, f, v, d) \in 1 .. LengthIn(D, f, d)
         /\ FreqIn(D, f, v, d) + LengthIn(D, f, d) <= Scale
         /\ d \in Lengthy(D, f)
<1>1. Len(D) \in Nat /\ DOMAIN D = 1 .. Len(D) /\ d + 1 \in 1 .. Len(D) /\ d = (d + 1) - 1
  <2>1. Len(D) \in Nat /\ DOMAIN D = 1 .. Len(D)
    BY BatchSets DEF IsCorpus
  <2>. QED BY <2>1
<1>2. f \in DOMAIN D[d + 1].fields /\ v \in DOMAIN D[d + 1].fields[f].tokens
  BY DEF HasToken
<1>3. LengthIn(D, f, d) \in Nat
  BY <1>1, <1>2 DEF IsCorpus, IsBatch, IsDocument, LengthIn
<1>4. /\ FreqIn(D, f, v, d) \in 1 .. LengthIn(D, f, d)
      /\ FreqIn(D, f, v, d) + LengthIn(D, f, d) <= Scale
  BY <1>1, <1>2 DEF IsCorpus, LengthIn, FreqIn
<1>5. LengthIn(D, f, d) > 0
  BY <1>3, <1>4
<1>6. d \in Lengthy(D, f)
  BY <1>1, <1>2, <1>5 DEF Lengthy, LengthIn
<1>. QED BY <1>3, <1>4, <1>6

(* The part of a term is a number, and none without a boost.               *)
LEMMA PartIs ==
  ASSUME NEW tf \in Nat, NEW dl \in Nat, tf + dl > 0, NEW boost \in Nat
  PROVE  Part(tf, dl, boost) \in Nat /\ Part(tf, dl, 0) = 0
<1>. DEFINE n == Scale * tf
            w == tf + dl
            r == n \div w
<1>1. n \in Nat /\ w \in Nat \ {0}
  BY QueryAssumption
<1>. HIDE DEF n, w
<1>2. r \in Nat
  BY <1>1, Fits
<1>. HIDE DEF r
<1>3. boost * r \in Nat /\ 0 * r = 0
  BY <1>2
<1>. QED BY <1>3 DEF Part, r, n, w

(* What a token gives to the score of a document.                          *)
Gain(D, f, v, boost, d) ==
  IF HasToken(D[d + 1], f, v) THEN Part(FreqIn(D, f, v, d), LengthIn(D, f, d), boost) ELSE 0
Gains(D, f, v, boost, C) == [d \in C |-> Gain(D, f, v, boost, d)]

(* It is a number.                                                         *)
LEMMA GainIs ==
  ASSUME NEW D, IsCorpus(D), NEW f, NEW v, NEW boost \in Nat, NEW d \in 0 .. Len(D) - 1
  PROVE  /\ Gain(D, f, v, boost, d) \in Nat
         /\ boost = 0 => Gain(D, f, v, boost, d) = 0
<1>1. CASE ~HasToken(D[d + 1], f, v)
  BY <1>1 DEF Gain
<1>2. CASE HasToken(D[d + 1], f, v)
  <2>. DEFINE tf == FreqIn(D, f, v, d)
              dl == LengthIn(D, f, d)
  <2>1. dl \in Nat /\ tf \in 1 .. dl
    BY <1>2, Occurs
  <2>. HIDE DEF tf, dl
  <2>2. tf \in Nat /\ tf + dl > 0
    BY <2>1
  <2>3. Part(tf, dl, boost) \in Nat
    BY <2>1, <2>2, PartIs
  <2>4. boost = 0 => Part(tf, dl, boost) = 0
    BY <2>1, <2>2, PartIs
  <2>5. Gain(D, f, v, boost, d) = Part(tf, dl, boost)
    BY <1>2 DEF Gain, tf, dl
  <2>. QED BY <2>3, <2>4, <2>5
<1>. QED BY <1>1, <1>2

(* The tables of one token of the documents D.                             *)
TablesFor(D, f, v, C, val, dense, ldense, boost) ==
  [freqs      |-> [d \in Holders(D, f, v) |-> [doc |-> d, freq |-> FreqIn(D, f, v, d)]],
   holders    |-> Holders(D, f, v),
   denseFreqs |-> dense,
   lens       |-> [d \in Lengthy(D, f) |-> [doc |-> d, length |-> LengthIn(D, f, d)]],
   lengthy    |-> Lengthy(D, f),
   denseLens  |-> ldense,
   cands      |-> C,
   val        |-> val,
   part       |-> Gains(D, f, v, boost, C),
   boost      |-> boost]

(* They are tables, and a dense one has an entry for each document.        *)
LEMMA TablesAre ==
  ASSUME NEW D, NEW s, Searchable(D, s), NEW f \in DOMAIN s.fields, NEW v,
         NEW C \in SUBSET (0 .. Len(D) - 1), NEW val \in [C -> Int], NEW boost \in Nat,
         NEW dense, dense <=> Len(EntriesOf(D, f, v)) = Len(s.ids),
         NEW ldense, ldense <=> Len(LengthsOf(D, f)) = Len(s.ids),
         NEW T, T = TablesFor(D, f, v, C, val, dense, ldense, boost)
  PROVE  /\ Tabled(T)
         /\ Table(T.freqs, T.holders) = EntriesOf(D, f, v)
         /\ Table(T.lens, T.lengthy) = LengthsOf(D, f)
         /\ Cardinality(T.holders) <= Len(LengthsOf(D, f))
<1>. DEFINE H == Holders(D, f, v)
            G == Lengthy(D, f)
            N == Len(D)
            E == [d \in H |-> [doc |-> d, freq |-> FreqIn(D, f, v, d)]]
            L == [d \in G |-> [doc |-> d, length |-> LengthIn(D, f, d)]]
            P == Gains(D, f, v, boost, C)
<1>1. IsCorpus(D) /\ IsBatch(D) /\ N \in Nat
  BY BatchSets DEF Searchable, IsCorpus
<1>2. /\ T.freqs = E /\ T.holders = H /\ T.denseFreqs = dense /\ T.lens = L /\ T.lengthy = G
      /\ T.denseLens = ldense /\ T.cands = C /\ T.val = val /\ T.part = P /\ T.boost = boost
  BY DEF TablesFor
<1>3. Docs(H) /\ H \subseteq 0 .. N - 1 /\ H = {d \in 0 .. N - 1 : HasToken(D[d + 1], f, v)}
  BY <1>1, BatchSets, HolderSays DEF Docs
<1>4. Docs(G) /\ G \subseteq 0 .. N - 1
  BY <1>1, LengthySets DEF Docs
<1>5. H \subseteq G
  BY <1>1, <1>3, Occurs
<1>6. Rowed(E, H) /\ Rowed(L, G)
  <2>. HIDE DEF H, G
  <2>. QED BY <1>3, <1>4 DEF Rowed
<1>7. /\ Len(EntriesOf(D, f, v)) = Cardinality(H) /\ Cardinality(H) \in Nat
      /\ EntriesOf(D, f, v) \in Seq(Entry)
      /\ \A k \in 1 .. Cardinality(H) :
           EntriesOf(D, f, v)[k] = [doc |-> Ascending(H)[k], freq |-> FreqIn(D, f, v, Ascending(H)[k])]
  <2>1. /\ EntriesOf(D, f, v) \in Seq(Entry)
        /\ Len(EntriesOf(D, f, v)) = Cardinality(H) /\ Cardinality(H) \in Nat
        /\ \A k \in 1 .. Len(EntriesOf(D, f, v)) :
             EntriesOf(D, f, v)[k]
               = [doc |-> Ascending(H)[k], freq |-> D[Ascending(H)[k] + 1].fields[f].tokens[v]]
    BY <1>1, EntriesAre
  <2>. QED BY <2>1 DEF FreqIn
<1>8. /\ Len(LengthsOf(D, f)) = Cardinality(G)
      /\ LengthsOf(D, f) \in Seq(LengthEntry)
      /\ \A k \in 1 .. Cardinality(G) :
           LengthsOf(D, f)[k] = [doc |-> Ascending(G)[k], length |-> LengthIn(D, f, Ascending(G)[k])]
  <2>1. /\ LengthsOf(D, f) \in Seq(LengthEntry)
        /\ Len(LengthsOf(D, f)) = Cardinality(G)
        /\ \A k \in 1 .. Len(LengthsOf(D, f)) :
             LengthsOf(D, f)[k]
               = [doc |-> Ascending(G)[k], length |-> D[Ascending(G)[k] + 1].fields[f].length]
    BY <1>1, LengthsAre
  <2>. QED BY <2>1 DEF LengthIn
<1>9. Cardinality(H) <= Cardinality(G) /\ Cardinality(G) \in Nat
  BY <1>4, <1>5, FS_Subset, FS_CardinalityType DEF Docs
<1>10. Len(s.ids) = N
  <2>1. s.ids = [k \in 1 .. N |-> D[k].id]
    BY <1>1, BatchSets DEF Searchable, Indexes
  <2>2. \A V : s.ids \in [1 .. N -> V] => Len(s.ids) = N
    BY <1>1
  <2>3. s.ids \in [1 .. N -> {D[k].id : k \in 1 .. N}]
    BY <2>1
  <2>. QED BY <2>2, <2>3
<1>. HIDE DEF H, G, N, P, E, L
<1>11. dense => \A d \in H : Place(H, d) = d + 1
  <2>. SUFFICES ASSUME dense PROVE \A d \in H : Place(H, d) = d + 1
    OBVIOUS
  <2>1. Cardinality(H) = N /\ H \in SUBSET (0 .. N - 1)
    BY <1>3, <1>7, <1>10
  <2>. QED BY <1>1, <2>1, DensePlaces
<1>12. ldense => \A d \in G : Place(G, d) = d + 1
  <2>. SUFFICES ASSUME ldense PROVE \A d \in G : Place(G, d) = d + 1
    OBVIOUS
  <2>1. Cardinality(G) = N /\ G \in SUBSET (0 .. N - 1)
    BY <1>4, <1>8, <1>10
  <2>. QED BY <1>1, <2>1, DensePlaces
<1>13. Docs(C)
  BY IndexSets
<1>14. P \in [C -> Int]
  <2>1. \A d \in C : Gain(D, f, v, boost, d) \in Int
    <3>1. \A d \in 0 .. Len(D) - 1 : Gain(D, f, v, boost, d) \in Nat
      BY <1>1, GainIs
    <3>. QED BY <3>1
  <2>2. P = [d \in C |-> Gain(D, f, v, boost, d)]
    BY DEF P, Gains
  <2>. QED BY <2>1, <2>2
<1>15. ASSUME NEW d \in C \intersect H PROVE P[d] = Part(E[d].freq, L[d].length, boost)
  <2>1. HasToken(D[d + 1], f, v) /\ d \in G
    BY <1>3, <1>5
  <2>2. P[d] = Part(FreqIn(D, f, v, d), LengthIn(D, f, d), boost)
    BY <2>1 DEF P, Gains, Gain
  <2>3. E[d].freq = FreqIn(D, f, v, d) /\ L[d].length = LengthIn(D, f, d)
    BY <2>1 DEF E, L
  <2>. QED BY <2>2, <2>3
<1>16. Tabled(T)
  <2>1. Rowed(T.freqs, T.holders) /\ Rowed(T.lens, T.lengthy) /\ T.holders \subseteq T.lengthy
    BY <1>2, <1>5, <1>6
  <2>2. /\ T.denseFreqs => \A d \in T.holders : Place(T.holders, d) = d + 1
        /\ T.denseLens => \A d \in T.lengthy : Place(T.lengthy, d) = d + 1
    BY <1>2, <1>11, <1>12
  <2>3. Docs(T.cands) /\ T.val \in [T.cands -> Int] /\ T.part \in [T.cands -> Int]
    BY <1>2, <1>13, <1>14
  <2>4. \A d \in T.cands \intersect T.holders :
          T.part[d] = Part(T.freqs[d].freq, T.lens[d].length, T.boost)
    <3>. TAKE d \in T.cands \intersect T.holders
    <3>1. d \in C \intersect H
      BY <1>2
    <3>2. P[d] = Part(E[d].freq, L[d].length, boost)
      BY <1>15, <3>1
    <3>3. /\ T.part[d] = P[d] /\ T.freqs[d].freq = E[d].freq
          /\ T.lens[d].length = L[d].length /\ T.boost = boost
      BY <1>2
    <3>. QED BY <3>2, <3>3
  <2>. QED BY <2>1, <2>2, <2>3, <2>4, Zenon DEF Tabled
<1>17. Table(E, H) = EntriesOf(D, f, v)
  <2>. DEFINE n == Cardinality(H)
              x == EntriesOf(D, f, v)
  <2>1. Table(E, H) = [k \in 1 .. n |-> E[Ascending(H)[k]]]
    BY DEF Table
  <2>2. \A k \in 1 .. n : Ascending(H)[k] \in H
    <3>1. Ascending(H) \in [1 .. Cardinality(H) -> H]
      BY <1>3, Places
    <3>. QED BY <3>1
  <2>3. \A k \in 1 .. n : E[Ascending(H)[k]] = x[k]
    BY <1>7, <2>2 DEF E
  <2>4. x = [k \in 1 .. n |-> x[k]]
    <3>1. Len(x) = n
      BY <1>7
    <3>2. x \in Seq(Entry)
      BY <1>7
    <3>. HIDE DEF x, n
    <3>. QED BY <3>1, <3>2
  <2>. HIDE DEF x, n
  <2>. QED BY <2>1, <2>3, <2>4 DEF x
<1>18. Table(L, G) = LengthsOf(D, f)
  <2>. DEFINE n == Cardinality(G)
              x == LengthsOf(D, f)
  <2>1. Table(L, G) = [k \in 1 .. n |-> L[Ascending(G)[k]]]
    BY DEF Table
  <2>2. \A k \in 1 .. n : Ascending(G)[k] \in G
    <3>1. Ascending(G) \in [1 .. Cardinality(G) -> G]
      BY <1>4, Places
    <3>. QED BY <3>1
  <2>3. \A k \in 1 .. n : L[Ascending(G)[k]] = x[k]
    BY <1>8, <2>2 DEF L
  <2>4. x = [k \in 1 .. n |-> x[k]]
    <3>1. Len(x) = n
      BY <1>8
    <3>2. x \in Seq(LengthEntry)
      BY <1>8
    <3>. HIDE DEF x, n
    <3>. QED BY <3>1, <3>2
  <2>. HIDE DEF x, n
  <2>. QED BY <2>1, <2>3, <2>4 DEF x
<1>. QED BY <1>2, <1>8, <1>9, <1>16, <1>17, <1>18
Plus(val, part) == [d \in DOMAIN val |-> val[d] + part[d]]

(* A token gives its part to each candidate that has it, in batches of any *)
(* widths: AccumulateToken.                                                *)
TokenAdds(f, token, boost, widths, val) ==
  AccumulateToken(Scored(bitmap, val), f, token, boost, widths)
    = Scored(bitmap, Plus(val, Gains(docs, f, token.value, boost, bitmap)))

(* So does every token of a field.                                         *)
LEMMA TokenScores ==
  ASSUME Searchable(docs, seg), bitmap \in SUBSET (0 .. Len(docs) - 1),
         NEW f \in DOMAIN seg.fields, NEW token,
         NEW n \in 1 .. Len(seg.fields[f].tokens), token = seg.fields[f].tokens[n],
         NEW boost \in Nat, NEW widths \in Seq(Nat \ {0}), NEW val \in [bitmap -> Int]
  PROVE  TokenAdds(f, token, boost, widths, val)
<1>. DEFINE v == token.value
            H == Holders(docs, f, v)
            R == bitmap \intersect H
            freqs == Slice(seg, token)
            lens == seg.fields[f].lengths
            T == TablesFor(docs, f, v, bitmap, val, Dense(freqs), Dense(lens), boost)
            part == Gains(docs, f, v, boost, bitmap)
            table == Scored(bitmap, val)
            docAt == Ascending(bitmap \intersect seg.lists[token.list + 1])
            c == Batched(docAt, widths)
            base == [freqs |-> freqs, lens |-> lens, scoring |-> [table |-> table, guess |-> 0]]
            Take(acc, batch) ==
              [freqs   |-> Advance(acc.freqs, Dense(freqs), batch),
               lens    |-> Advance(acc.lens, Dense(lens), batch),
               scoring |->
                 AddParts(acc.scoring, batch,
                          [k \in DOMAIN batch |->
                             Part(acc.freqs[Positions(acc.freqs, Dense(freqs), batch)[k]].freq,
                                  acc.lens[Positions(acc.lens, Dense(lens), batch)[k]].length,
                                  boost)])]
            Fold(h) == h = [s \in SUBSET (DOMAIN c) |->
                              IF s = {} THEN base ELSE Take(h[s \ {Max(s)}], c[Max(s)])]
            idf == token.count <= Len(lens) /\ lens # << >>
<1>1. AccumulateToken(table, f, token, boost, widths)
        = IF ~idf \/ boost = 0 THEN table
          ELSE (CHOOSE h : Fold(h))[DOMAIN c].scoring.table
  BY Zenon DEF AccumulateToken, FoldLeft, MapThenFoldSet
<1>2. /\ seg.lists[token.list + 1] = H /\ token.count = Cardinality(H)
      /\ freqs = EntriesOf(docs, f, v) /\ lens = LengthsOf(docs, f)
  BY FieldTokens
<1>3. /\ Tabled(T)
      /\ Table(T.freqs, T.holders) = freqs /\ Table(T.lens, T.lengthy) = lens
      /\ Cardinality(T.holders) <= Len(lens)
  <2>. DEFINE dense == Dense(freqs)
              ldense == Dense(lens)
  <2>1. /\ dense <=> Len(EntriesOf(docs, f, v)) = Len(seg.ids)
        /\ ldense <=> Len(LengthsOf(docs, f)) = Len(seg.ids)
    BY <1>2 DEF Dense
  <2>2. T = TablesFor(docs, f, v, bitmap, val, dense, ldense, boost)
    OBVIOUS
  <2>. HIDE DEF T, dense, ldense, v
  <2>3. /\ Tabled(T)
        /\ Table(T.freqs, T.holders) = EntriesOf(docs, f, v)
        /\ Table(T.lens, T.lengthy) = LengthsOf(docs, f)
        /\ Cardinality(T.holders) <= Len(LengthsOf(docs, f))
    BY <2>1, <2>2, TablesAre
  <2>. QED BY <1>2, <2>3
<1>4. /\ T.holders = H /\ T.cands = bitmap /\ T.val = val /\ T.part = part /\ T.boost = boost
      /\ T.denseFreqs = Dense(freqs) /\ T.denseLens = Dense(lens)
  BY DEF TablesFor
<1>5. IsCorpus(docs) /\ H = {d \in 0 .. Len(docs) - 1 : HasToken(docs[d + 1], f, v)}
  BY HolderSays DEF Searchable
<1>6. part = [d \in bitmap |-> Gain(docs, f, v, boost, d)] /\ DOMAIN val = bitmap
  BY DEF Gains
<1>. HIDE DEF T, part, base, c, Fold, Take
<1>7. CASE ~idf \/ boost = 0
  <2>1. \A d \in bitmap : part[d] = 0
    <3>1. CASE boost = 0
      <4>1. \A d \in 0 .. Len(docs) - 1 : Gain(docs, f, v, boost, d) = 0
        <5>. HIDE DEF v
        <5>. QED BY <1>5, <3>1, GainIs
      <4>. QED BY <1>6, <4>1
    <3>2. CASE ~idf
      <4>1. Cardinality(H) <= Len(lens)
        BY <1>3, <1>4
      <4>2. lens = << >>
        BY <1>2, <3>2, <4>1
      <4>3. Len(lens) = 0
        <5>. HIDE DEF lens
        <5>. QED BY <4>2
      <4>4. IsFiniteSet(H) /\ Cardinality(H) \in Nat
        <5>1. IsFiniteSet(H)
          BY <1>5, BatchSets DEF IsCorpus
        <5>. QED BY <5>1, FS_CardinalityType
      <4>5. Cardinality(H) = 0
        BY <4>1, <4>3, <4>4
      <4>6. H = {}
        BY <4>4, <4>5, FS_EmptySet
      <4>7. \A d \in bitmap : ~HasToken(docs[d + 1], f, v)
        BY <1>5, <4>6
      <4>. QED BY <1>6, <4>7 DEF Gain
    <3>. QED BY <1>7, <3>1, <3>2
  <2>2. \A d \in bitmap : val[d] + part[d] = val[d]
    BY <2>1
  <2>3. Plus(val, part) = val
    BY <1>6, <2>2 DEF Plus
  <2>4. AccumulateToken(table, f, token, boost, widths) = Scored(bitmap, Plus(val, part))
    BY <1>1, <1>7, <2>3
  <2>. QED BY <2>4 DEF TokenAdds, part
<1>8. CASE ~(~idf \/ boost = 0)
  <2>1. Slices(c, R)
    <3>1. docAt = Ascending(R)
      BY <1>2
    <3>2. Docs(bitmap)
      BY IndexSets
    <3>3. Docs(R)
      <4>1. IsFiniteSet(R)
        BY <3>2, FS_Subset DEF Docs
      <4>. QED BY <3>2, <4>1 DEF Docs, Numbers
    <3>4. docAt \in Seq(Nat)
      <4>1. Ascending(R) \in [1 .. Cardinality(R) -> R] /\ Cardinality(R) \in Nat /\ R \subseteq Nat
        <5>. HIDE DEF R
        <5>. QED BY <3>3, Places DEF Docs, Numbers
      <4>. DEFINE m == Cardinality(R)
      <4>. HIDE DEF m, docAt, R
      <4>2. docAt \in [1 .. m -> Nat]
        BY <3>1, <4>1 DEF m
      <4>3. m \in Nat
        BY <4>1 DEF m
      <4>. QED BY <4>2, <4>3, FunctionIsSeq
    <3>. HIDE DEF docAt, R
    <3>5. PICK b : Cuts(c, docAt, b) /\ b[Len(c)] = Len(docAt)
      BY <3>4, BatchedCuts DEF c
    <3>. QED BY <3>1, <3>3, <3>5, CutPieces
  <2>2. R = T.cands \intersect T.holders
    BY <1>4
  <2>3. /\ \E h : BatchFold(T, c, h)
        /\ \A h : BatchFold(T, c, h) =>
             h[1 .. Len(c)].scoring.table = Scored(T.cands, Raised(T.val, T.part, R))
    <3>. HIDE DEF R
    <3>1. Slices(c, T.cands \intersect T.holders)
      BY <2>1, <2>2
    <3>2. /\ \E h : BatchFold(T, c, h)
          /\ \A h : BatchFold(T, c, h) =>
               h[1 .. Len(c)].scoring.table
                 = Scored(T.cands, Raised(T.val, T.part, T.cands \intersect T.holders))
      BY <1>3, <3>1, BatchesAdd
    <3>. QED BY <2>2, <3>2
  <2>4. DOMAIN c = 1 .. Len(c)
    BY <2>1 DEF Slices
  <2>5. base = Standing(T, {}, 0)
    <3>1. /\ Cursor(T.freqs, T.holders, T.denseFreqs, {}) = freqs
          /\ Cursor(T.lens, T.lengthy, T.denseLens, {}) = lens
      <4>1. \A X : Ahead(X, {}) = X
        BY DEF Ahead
      <4>. QED BY <1>3, <4>1 DEF Cursor
    <3>2. Raised(T.val, T.part, {}) = val
      <4>1. val = [d \in bitmap |-> val[d]]
        OBVIOUS
      <4>. QED BY <1>4, <1>6, <4>1 DEF Raised
    <3>. HIDE DEF freqs, lens
    <3>. QED BY <1>4, <3>1, <3>2 DEF Standing, base
  <2>6. \A acc, batch : Take(acc, batch) = TakeBatch(T, acc, batch)
    <3>. HIDE DEF freqs, lens
    <3>. QED BY <1>4 DEF Take, TakeBatch
  <2>7. ASSUME NEW h PROVE Fold(h) <=> BatchFold(T, c, h)
    <3>. DEFINE X == [s \in SUBSET (DOMAIN c) |->
                        IF s = {} THEN base ELSE Take(h[s \ {Max(s)}], c[Max(s)])]
                Y == [s \in SUBSET (1 .. Len(c)) |->
                        IF s = {} THEN Standing(T, {}, 0)
                        ELSE TakeBatch(T, h[s \ {Max(s)}], c[Max(s)])]
    <3>1. X = Y
      <4>1. \A s : (IF s = {} THEN base ELSE Take(h[s \ {Max(s)}], c[Max(s)]))
                     = (IF s = {} THEN Standing(T, {}, 0)
                        ELSE TakeBatch(T, h[s \ {Max(s)}], c[Max(s)]))
        BY <2>5, <2>6
      <4>. QED BY <2>4, <4>1
    <3>. QED BY <3>1 DEF Fold, BatchFold
  <2>8. Fold(CHOOSE h : Fold(h))
    BY <2>3, <2>7
  <2>. DEFINE h == CHOOSE x : Fold(x)
  <2>9. AccumulateToken(table, f, token, boost, widths) = h[DOMAIN c].scoring.table
    BY <1>1, <1>8
  <2>. HIDE DEF h
  <2>10. BatchFold(T, c, h)
    BY <2>7, <2>8 DEF h
  <2>11. h[DOMAIN c].scoring.table = Scored(bitmap, Raised(val, part, R))
    <3>. HIDE DEF R
    <3>. QED BY <1>4, <2>3, <2>4, <2>10
  <2>12. Raised(val, part, R) = Plus(val, part)
    <3>1. ASSUME NEW d \in bitmap, d \notin R PROVE val[d] = val[d] + part[d]
      <4>1. ~HasToken(docs[d + 1], f, v)
        BY <1>5, <3>1
      <4>2. part[d] = 0 /\ val[d] \in Int
        BY <1>6, <4>1 DEF Gain
      <4>. QED BY <4>2
    <3>. QED BY <1>6, <3>1 DEF Raised, Plus
  <2>13. AccumulateToken(table, f, token, boost, widths) = Scored(bitmap, Plus(val, part))
    BY <2>9, <2>11, <2>12
  <2>. QED BY <2>13 DEF TokenAdds, part
<1>. QED BY <1>7, <1>8
-----------------------------------------------------------------------------
(***************************************************************************)
(* BM25Score.  The sum over the terms of a query.                          *)
(***************************************************************************)
(* A term is a token for which an entry of a clause stands.                *)
Term(k, f, v) == [at |-> k, field |-> f, value |-> v]
Terms(D) == [at : Nat, field : FieldsOf(D), value : Nat]

(* What each gives to a document, and the documents' sums of some of them. *)
Weigh(D, clause, d) ==
  [t \in Terms(D) |-> Gain(D, t.field, t.value, clause[t.at].boost, d)]
SumOver(D, clause, C, A) == [d \in C |-> AddUp(Weigh(D, clause, d), A)]

(* Terms of the entries of a clause.                                       *)
OfClause(D, clause, A) ==
  /\ IsFiniteSet(A)
  /\ \A t \in A : t \in Terms(D) /\ t.at \in 1 .. Len(clause)

(* One more term is one more summand.                                      *)
SumsMore(D, clause, C, A, k, f, v) ==
  /\ SumOver(D, clause, C, A) \in [C -> Nat]
  /\ SumOver(D, clause, C, A \union {Term(k, f, v)})
       = Plus(SumOver(D, clause, C, A), Gains(D, f, v, clause[k].boost, C))
  /\ OfClause(D, clause, A \union {Term(k, f, v)})

(* So it is, as weights are numbers.                                       *)
LEMMA SumMore ==
  ASSUME NEW D, IsCorpus(D), NEW clause, IsClause(clause), NEW C \in SUBSET (0 .. Len(D) - 1),
         NEW A, OfClause(D, clause, A), NEW k \in 1 .. Len(clause), NEW f \in FieldsOf(D),
         NEW v \in Nat, Term(k, f, v) \notin A
  PROVE  SumsMore(D, clause, C, A, k, f, v)
<1>. DEFINE t == Term(k, f, v)
<1>1. t \in Terms(D) /\ t.at = k /\ t.field = f /\ t.value = v
  <2>1. Len(clause) \in Nat
    BY DEF IsClause
  <2>2. k \in Nat
    BY <2>1
  <2>. QED BY <2>2 DEF Term, Terms
<1>. HIDE DEF t
<1>2. OfClause(D, clause, A \union {t})
  <2>1. IsFiniteSet(A \union {t})
    BY FS_AddElement DEF OfClause
  <2>. QED BY <1>1, <2>1 DEF OfClause
<1>3. \A i \in 1 .. Len(clause) : clause[i].boost \in Nat
  <2>1. \A i \in 1 .. Len(clause) : clause[i] \in ToSet(clause)
    <3>1. clause \in Seq(ToSet(clause))
      BY DEF IsClause
    <3>. QED BY <3>1
  <2>. QED BY <2>1 DEF IsClause, IsEntry
<1>4. ASSUME NEW d \in C
      PROVE  /\ AddUp(Weigh(D, clause, d), A) \in Nat
             /\ AddUp(Weigh(D, clause, d), A \union {t})
                  = AddUp(Weigh(D, clause, d), A) + Gain(D, f, v, clause[k].boost, d)
  <2>. DEFINE c == Weigh(D, clause, d)
  <2>1. \A x \in Terms(D) : c[x] = Gain(D, x.field, x.value, clause[x.at].boost, d)
    BY DEF Weigh
  <2>2. d \in 0 .. Len(D) - 1
    OBVIOUS
  <2>. HIDE DEF c
  <2>3. ASSUME NEW x \in Terms(D), x.at \in 1 .. Len(clause) PROVE c[x] \in Nat
    <3>. DEFINE b == clause[x.at].boost
                g == x.field
                u == x.value
    <3>1. b \in Nat
      BY <1>3, <2>3
    <3>. HIDE DEF b, g, u
    <3>2. Gain(D, g, u, b, d) \in Nat
      BY <2>2, <3>1, GainIs
    <3>. QED BY <2>1, <3>2 DEF b, g, u
  <2>4. Counted(c, A) /\ IsFiniteSet(A)
    BY <2>3 DEF Counted, OfClause
  <2>5. c[t] = Gain(D, f, v, clause[k].boost, d) /\ c[t] \in Nat
    BY <1>1, <2>1, <2>3
  <2>6. /\ AddUp(c, A) \in Nat
        /\ \A x : x \notin A /\ c[x] \in Nat => AddUp(c, A \union {x}) = AddUp(c, A) + c[x]
    BY <2>4, AddUpSteps
  <2>7. AddUp(c, A \union {t}) = AddUp(c, A) + c[t]
    BY <2>5, <2>6 DEF t
  <2>. QED BY <2>5, <2>6, <2>7 DEF c
<1>5. SumOver(D, clause, C, A) \in [C -> Nat]
  BY <1>4 DEF SumOver
<1>6. SumOver(D, clause, C, A \union {t})
        = Plus(SumOver(D, clause, C, A), Gains(D, f, v, clause[k].boost, C))
  BY <1>4 DEF SumOver, Plus, Gains
<1>. QED BY <1>2, <1>5, <1>6 DEF t, SumsMore

(* The values that an entry finds in a field.                              *)
FoundIn(s, e, f) == {TokensIn(s, e, f)[i].value : i \in DOMAIN TokensIn(s, e, f)}

(* They are finitely many tokens of that field.                            *)
LEMMA FoundTokens ==
  ASSUME NEW D, NEW s, Searchable(D, s), NEW e, IsEntry(e), ~PanicsIn(s, e), NEW f \in FieldsIn(s, e),
         NEW sub, sub = TokensIn(s, e, f)
  PROVE  /\ f \in DOMAIN s.fields /\ f \in FieldsOf(D)
         /\ Len(sub) \in Nat /\ DOMAIN sub = 1 .. Len(sub)
         /\ \A i \in 1 .. Len(sub) : /\ sub[i].value \in Nat
                                     /\ \E n \in 1 .. Len(s.fields[f].tokens) :
                                          sub[i] = s.fields[f].tokens[n]
         /\ \A i, j \in 1 .. Len(sub) : i < j => sub[i].value < sub[j].value
         /\ ~TooHighIn(D, s, e) => FoundIn(s, e, f) = MeantIn(D, e, f)
<1>1. f \in DOMAIN s.fields
  BY EntryFinds
<1>2. f \in FieldsOf(D)
  BY <1>1 DEF Searchable, Indexes
<1>3. PICK P : Takes(sub, s.fields[f].tokens, P)
  BY EntryFinds
<1>4. /\ Len(sub) \in Nat /\ DOMAIN sub = 1 .. Len(sub)
      /\ \A i \in 1 .. Len(sub) : sub[i].value \in Nat
      /\ \A i, j \in 1 .. Len(sub) : i < j => sub[i].value < sub[j].value
  BY <1>3, SortedSays DEF Takes
<1>5. \A i \in 1 .. Len(sub) : \E n \in 1 .. Len(s.fields[f].tokens) : sub[i] = s.fields[f].tokens[n]
  BY <1>3 DEF Takes
<1>6. ASSUME ~TooHighIn(D, s, e) PROVE FoundIn(s, e, f) = MeantIn(D, e, f)
  <2>. DEFINE M == MeantIn(D, e, f)
  <2>1. Takes(sub, s.fields[f].tokens, M)
    BY <1>6, EntryFinds
  <2>. HIDE DEF M
  <2>2. Sorted(sub, M)
    BY <2>1 DEF Takes
  <2>3. \A i \in 1 .. Len(sub) : sub[i].value \in M
    BY <2>2, SortedSays
  <2>4. \A x \in M : \E i \in 1 .. Len(sub) : sub[i].value = x
    BY <2>2, SortedSays
  <2>5. FoundIn(s, e, f) = M
    BY <1>4, <2>3, <2>4 DEF FoundIn
  <2>. QED BY <2>5 DEF M
<1>. QED BY <1>1, <1>2, <1>4, <1>5, <1>6
(* The tokens of an entry in a field, with other terms summed before.      *)
Entering(clause, k, f, sub, A) ==
  /\ Searchable(docs, seg) /\ bitmap \in SUBSET (0 .. Len(docs) - 1)
  /\ IsClause(clause) /\ k \in 1 .. Len(clause)
  /\ f \in DOMAIN seg.fields /\ f \in FieldsOf(docs) /\ Len(sub) \in Nat
  /\ \A i \in 1 .. Len(sub) : /\ sub[i].value \in Nat
                              /\ \E n \in 1 .. Len(seg.fields[f].tokens) :
                                   sub[i] = seg.fields[f].tokens[n]
  /\ \A i, j \in 1 .. Len(sub) : i < j => sub[i].value < sub[j].value
  /\ OfClause(docs, clause, A)
  /\ \A t \in A : t.field = f => t.at # k

(* The terms of some of them, and the scores after these.                  *)
TermsAt(sub, k, f, s) == {Term(k, f, sub[i].value) : i \in s}
Summed(clause, A) == Scored(bitmap, SumOver(docs, clause, bitmap, A))
SummedAt(clause, k, f, sub, A, s) == Summed(clause, A \union TermsAt(sub, k, f, s))

(* These are terms of the clause too.                                      *)
LEMMA EnteringTerms ==
  ASSUME NEW clause, NEW k, NEW f, NEW sub, NEW A, Entering(clause, k, f, sub, A),
         NEW s \in SUBSET (1 .. Len(sub))
  PROVE  OfClause(docs, clause, A \union TermsAt(sub, k, f, s))
<1>. DEFINE X == TermsAt(sub, k, f, s)
<1>1. IsFiniteSet(X)
  <2>. DEFINE h == [i \in 1 .. Len(sub) |-> Term(k, f, sub[i].value)]
  <2>1. X = {h[i] : i \in s}
    BY DEF TermsAt
  <2>. HIDE DEF h, X
  <2>2. Len(sub) \in Nat
    BY DEF Entering
  <2>3. IsFiniteSet({h[i] : i \in s})
    BY <2>2, FiniteImage
  <2>. QED BY <2>1, <2>3
<1>2. \A x \in X : x \in Terms(docs) /\ x.at = k
  <2>1. k \in Nat
    <3>1. Len(clause) \in Nat /\ k \in 1 .. Len(clause)
      BY DEF Entering, IsClause
    <3>. QED BY <3>1
  <2>2. \A i \in s : sub[i].value \in Nat
    BY DEF Entering
  <2>3. f \in FieldsOf(docs)
    BY DEF Entering
  <2>. QED BY <2>1, <2>2, <2>3 DEF TermsAt, Term, Terms
<1>3. k \in 1 .. Len(clause)
  BY DEF Entering
<1>4. IsFiniteSet(A) /\ \A t \in A : t \in Terms(docs) /\ t.at \in 1 .. Len(clause)
  BY DEF Entering, OfClause
<1>. HIDE DEF X
<1>5. IsFiniteSet(A \union X)
  BY <1>1, <1>4, FS_Union
<1>. QED BY <1>2, <1>3, <1>4, <1>5 DEF OfClause, X

(* One token more adds its term.                                           *)
LEMMA TokenLeads ==
  ASSUME NEW clause, NEW k, NEW f, NEW sub, NEW A, Entering(clause, k, f, sub, A),
         NEW widths \in Seq(Nat \ {0}), NEW s \in SUBSET (1 .. Len(sub)), s # {}
  PROVE  AccumulateToken(SummedAt(clause, k, f, sub, A, s \ {Max(s)}), f, sub[Max(s)],
                         clause[k].boost, widths)
           = SummedAt(clause, k, f, sub, A, s)
<1>. DEFINE n == Len(sub)
            j == Max(s)
            r == s \ {j}
            B == A \union TermsAt(sub, k, f, r)
            v == sub[j].value
            b == clause[k].boost
            val == SumOver(docs, clause, bitmap, B)
<1>1. /\ Searchable(docs, seg) /\ IsCorpus(docs) /\ bitmap \in SUBSET (0 .. Len(docs) - 1)
      /\ IsClause(clause) /\ k \in 1 .. Len(clause)
      /\ f \in DOMAIN seg.fields /\ f \in FieldsOf(docs) /\ n \in Nat
  BY DEF Entering, Searchable
<1>2. j \in s /\ j \in 1 .. n /\ r \in SUBSET (1 .. n) /\ \A i \in r : i \in 1 .. n /\ i # j
  <2>1. j \in s
    BY <1>1, MaxOfPositions
  <2>. QED BY <2>1
<1>3. s = r \union {j}
  BY <1>2
<1>. HIDE DEF j, r, n
<1>4. OfClause(docs, clause, B)
  BY <1>2, EnteringTerms DEF n
<1>5. /\ v \in Nat
      /\ \E m \in 1 .. Len(seg.fields[f].tokens) : sub[j] = seg.fields[f].tokens[m]
  BY <1>2 DEF Entering, n
<1>6. Term(k, f, v) \notin B
  <2>1. Term(k, f, v) \notin A
    <3>1. Term(k, f, v).field = f /\ Term(k, f, v).at = k
      BY DEF Term
    <3>. HIDE DEF v
    <3>. QED BY <3>1 DEF Entering
  <2>2. \A i \in r : sub[i].value # v
    <3>1. \A i \in r : i < j \/ j < i
      BY <1>1, <1>2
    <3>2. \A i, l \in 1 .. n : i < l => sub[i].value < sub[l].value
      BY DEF Entering, n
    <3>3. \A i \in 1 .. n : sub[i].value \in Nat
      BY DEF Entering, n
    <3>. SUFFICES ASSUME NEW i \in r PROVE sub[i].value # v
      OBVIOUS
    <3>. DEFINE x == sub[i].value
    <3>4. x \in Nat /\ (x < v \/ v < x)
      BY <1>2, <3>1, <3>2, <3>3
    <3>. HIDE DEF x, v
    <3>5. x # v
      BY <1>5, <3>4
    <3>. QED BY <3>5 DEF x
  <2>3. Term(k, f, v) \notin TermsAt(sub, k, f, r)
    <3>1. \A i \in r : Term(k, f, sub[i].value) # Term(k, f, v)
      <4>1. \A x : Term(k, f, x).value = x
        BY DEF Term
      <4>. QED BY <2>2, <4>1
    <3>. QED BY <3>1 DEF TermsAt
  <2>. QED BY <2>1, <2>3
<1>7. A \union TermsAt(sub, k, f, s) = B \union {Term(k, f, v)}
  BY <1>3 DEF TermsAt
<1>. HIDE DEF B, v
<1>8. /\ val \in [bitmap -> Nat]
      /\ SumOver(docs, clause, bitmap, B \union {Term(k, f, v)})
           = Plus(val, Gains(docs, f, v, b, bitmap))
  <2>1. SumsMore(docs, clause, bitmap, B, k, f, v)
    BY <1>1, <1>4, <1>5, <1>6, SumMore
  <2>. QED BY <2>1 DEF SumsMore
<1>9. b \in Nat
  <2>1. clause[k] \in ToSet(clause)
    <3>1. clause \in Seq(ToSet(clause))
      BY <1>1 DEF IsClause
    <3>. QED BY <1>1, <3>1
  <2>. QED BY <1>1, <2>1 DEF IsClause, IsEntry
<1>10. val \in [bitmap -> Int]
  <2>. HIDE DEF val
  <2>. QED BY <1>8
<1>11. TokenAdds(f, sub[j], b, widths, val)
  <2>. HIDE DEF val, b
  <2>. QED BY <1>1, <1>5, <1>9, <1>10, TokenScores
<1>12. AccumulateToken(Scored(bitmap, val), f, sub[j], b, widths)
         = Scored(bitmap, Plus(val, Gains(docs, f, v, b, bitmap)))
  BY <1>11 DEF TokenAdds, v
<1>. HIDE DEF b
<1>. QED BY <1>7, <1>8, <1>12 DEF SummedAt, Summed, B, r, j, b
(* The scores after each set of the tokens.                                *)
TokenFold(clause, k, f, sub, A, widths, h) ==
  h = [s \in SUBSET (1 .. Len(sub)) |->
         IF s = {} THEN Summed(clause, A)
         ELSE AccumulateToken(h[s \ {Max(s)}], f, sub[Max(s)], clause[k].boost, widths)]

(* After all of them, their terms are summed too.                          *)
LEMMA TokensAdd ==
  ASSUME NEW clause, NEW k, NEW f, NEW sub, NEW A, Entering(clause, k, f, sub, A),
         NEW widths \in Seq(Nat \ {0})
  PROVE  /\ \E h : TokenFold(clause, k, f, sub, A, widths, h)
         /\ \A h : TokenFold(clause, k, f, sub, A, widths, h) =>
              h[1 .. Len(sub)] = SummedAt(clause, k, f, sub, A, 1 .. Len(sub))
<1>. DEFINE n == Len(sub)
            Sum(s) == SummedAt(clause, k, f, sub, A, s)
            Take(acc, j) == AccumulateToken(acc, f, sub[j], clause[k].boost, widths)
            F == [s \in SUBSET (1 .. n) |-> Sum(s)]
<1>1. n \in Nat
  BY DEF Entering
<1>2. Sum({}) = Summed(clause, A)
  <2>1. A \union TermsAt(sub, k, f, {}) = A
    BY DEF TermsAt
  <2>. QED BY <2>1 DEF SummedAt
<1>3. \A s \in SUBSET (1 .. n) : s # {} => Take(Sum(s \ {Max(s)}), Max(s)) = Sum(s)
  BY TokenLeads
<1>4. \A h : TokenFold(clause, k, f, sub, A, widths, h) <=>
        h = [s \in SUBSET (1 .. n) |->
               IF s = {} THEN Summed(clause, A) ELSE Take(h[s \ {Max(s)}], Max(s))]
  BY DEF TokenFold
<1>. HIDE DEF Sum, Take
<1>5. TokenFold(clause, k, f, sub, A, widths, F)
  <2>1. ASSUME NEW s \in SUBSET (1 .. n)
        PROVE  F[s] = IF s = {} THEN Summed(clause, A) ELSE Take(F[s \ {Max(s)}], Max(s))
    <3>1. CASE s = {}
      BY <1>2, <3>1
    <3>2. CASE s # {}
      <4>1. s \ {Max(s)} \in SUBSET (1 .. n)
        OBVIOUS
      <4>2. F[s \ {Max(s)}] = Sum(s \ {Max(s)})
        BY <4>1
      <4>. QED BY <1>3, <3>2, <4>2
    <3>. QED BY <3>1, <3>2
  <2>2. F = [s \in SUBSET (1 .. n) |-> F[s]]
    OBVIOUS
  <2>. HIDE DEF F
  <2>3. F = [s \in SUBSET (1 .. n) |->
               IF s = {} THEN Summed(clause, A) ELSE Take(F[s \ {Max(s)}], Max(s))]
    BY <2>1, <2>2
  <2>. QED BY <1>4, <2>3
<1>6. ASSUME NEW h, TokenFold(clause, k, f, sub, A, widths, h)
      PROVE  h[1 .. n] = Sum(1 .. n)
  <2>1. \A s \in SUBSET (1 .. n) :
          h[s] = IF s = {} THEN Summed(clause, A) ELSE Take(h[s \ {Max(s)}], Max(s))
    <3>1. h = [s \in SUBSET (1 .. n) |->
                 IF s = {} THEN Summed(clause, A) ELSE Take(h[s \ {Max(s)}], Max(s))]
      BY <1>4, <1>6
    <3>. QED BY <3>1
  <2>. DEFINE K == {i \in Nat : i <= n => h[1 .. i] = Sum(1 .. i)}
  <2>2. 0 \in K
    <3>1. 1 .. 0 = {}
      OBVIOUS
    <3>. QED BY <1>2, <2>1, <3>1
  <2>3. ASSUME NEW m \in Nat, m \in K PROVE m + 1 \in K
    <3>. SUFFICES ASSUME m + 1 <= n PROVE h[1 .. m + 1] = Sum(1 .. m + 1)
      OBVIOUS
    <3>. DEFINE i == m + 1
    <3>1. i \in 1 .. n /\ i - 1 = m /\ m <= n
      BY <1>1
    <3>. HIDE DEF i, n
    <3>2. 1 .. i \in SUBSET (1 .. n) /\ 1 .. i # {} /\ Max(1 .. i) = i /\ (1 .. i) \ {i} = 1 .. m
      BY <1>1, <3>1, LastPosition
    <3>3. h[1 .. m] = Sum(1 .. m)
      BY <2>3, <3>1
    <3>4. h[1 .. i] = Take(h[1 .. m], i)
      BY <2>1, <3>2
    <3>5. Take(Sum(1 .. m), i) = Sum(1 .. i)
      BY <1>3, <3>2
    <3>. QED BY <3>3, <3>4, <3>5 DEF i
  <2>. HIDE DEF K
  <2>4. \A i \in Nat : i \in K
    BY <2>2, <2>3, NatInductive
  <2>5. n \in K /\ n <= n
    BY <1>1, <2>4
  <2>. QED BY <2>5 DEF K
<1>. HIDE DEF F
<1>. QED BY <1>5, <1>6 DEF Sum

(* A call of the handler of BM25Score sums the terms that its entry finds. *)
LEMMA CallScores ==
  ASSUME NEW clause, NEW k, NEW f, NEW A, NEW sub, sub = TurnTokens(f), DOMAIN sub = 1 .. Len(sub),
         Entering(clause, k, f, sub, A), Head(todo).entry = clause[k], scores = Summed(clause, A),
         NEW widths \in Seq(Nat \ {0})
  PROVE  Accumulate(f, widths) = SummedAt(clause, k, f, sub, A, 1 .. Len(sub))
<1>. DEFINE b == clause[k].boost
            Fold(h) == h = [s \in SUBSET (DOMAIN sub) |->
                              IF s = {} THEN scores
                              ELSE AccumulateToken(h[s \ {Max(s)}], f, sub[Max(s)], b, widths)]
<1>1. Accumulate(f, widths) = (CHOOSE h : Fold(h))[DOMAIN sub]
  <2>1. Head(todo).entry.boost = b
    OBVIOUS
  <2>. HIDE DEF b
  <2>. QED BY <2>1, Zenon DEF Accumulate, Turn, FoldLeft, MapThenFoldSet
<1>2. \A h : Fold(h) <=> TokenFold(clause, k, f, sub, A, widths, h)
  BY DEF TokenFold
<1>3. /\ \E h : TokenFold(clause, k, f, sub, A, widths, h)
      /\ \A h : TokenFold(clause, k, f, sub, A, widths, h) =>
           h[1 .. Len(sub)] = SummedAt(clause, k, f, sub, A, 1 .. Len(sub))
  BY TokensAdd
<1>. HIDE DEF Fold
<1>4. Fold(CHOOSE h : Fold(h))
  BY <1>2, <1>3
<1>. DEFINE h == CHOOSE x : Fold(x)
<1>5. Accumulate(f, widths) = h[DOMAIN sub] /\ Fold(h)
  BY <1>1, <1>4
<1>. HIDE DEF h
<1>6. TokenFold(clause, k, f, sub, A, widths, h)
  BY <1>2, <1>5
<1>. QED BY <1>3, <1>5, <1>6-----------------------------------------------------------------------------
(***************************************************************************)
(* BM25Score.  The terms that are summed while entries wait.               *)
(***************************************************************************)
(* Which entries of the clause those that wait are.                        *)
Placing(td, clause, at) ==
  /\ at \in [1 .. Len(td) -> 1 .. Len(clause)]
  /\ \A i, j \in 1 .. Len(td) : at[i] = at[j] => i = j
  /\ \A j \in 1 .. Len(td) : td[j].entry = clause[at[j]]

(* Entry k is still to be handled with field f.                            *)
OpenTurn(td, at, k, f) == \E j \in 1 .. Len(td) : at[j] = k /\ f \in td[j].turns

(* A call handles one of these turns.                                      *)
Handles(td, u, clause, at, f) ==
  \E b : /\ Placing(u, clause, b)
         /\ \A k, g : OpenTurn(u, b, k, g) <=> OpenTurn(td, at, k, g) /\ ~(k = at[1] /\ g = f)

(* It is the turn of the first entry, and no other.                        *)
LEMMA CallHandles ==
  ASSUME NEW s, NEW td, NEW clause, NEW cond, Queue(s, td, clause, cond), td # << >>,
         NEW f \in Head(td).turns, NEW at, Placing(td, clause, at)
  PROVE  Handles(td, AfterIn(td, f), clause, at, f)
<1>. DEFINE n == Len(td)
            N == Len(clause)
            h == td[1]
            w == Waiting(s, clause)
<1>1. n \in Nat /\ n >= 1 /\ DOMAIN td = 1 .. n /\ Head(td) = h /\ td \in Seq(w) /\ 1 \in 1 .. n
  BY DEF Queue
<1>2. h = [entry |-> h.entry, turns |-> h.turns] /\ f \in h.turns
  <2>1. h \in w
    <3>. HIDE DEF w
    <3>. QED BY <1>1
  <2>. QED BY <1>1, <2>1 DEF w, Waiting
<1>3. /\ at \in [1 .. n -> 1 .. N]
      /\ \A i, j \in 1 .. n : at[i] = at[j] => i = j
      /\ \A j \in 1 .. n : td[j].entry = clause[at[j]]
  BY DEF Placing
<1>4. CASE h.turns = {f}
  <2>. DEFINE u == Tail(td)
              m == n - 1
              b == [j \in 1 .. m |-> at[j + 1]]
  <2>1. AfterIn(td, f) = u
    BY <1>1, <1>4 DEF AfterIn
  <2>2. Len(u) = m /\ \A j \in 1 .. m : u[j] = td[j + 1]
    <3>. HIDE DEF w
    <3>. QED BY <1>1
  <2>. HIDE DEF u, w
  <2>3. m \in Nat /\ \A j \in 1 .. m : j + 1 \in 1 .. n /\ j + 1 # 1
    BY <1>1
  <2>4. \A i \in 1 .. n : i # 1 => i - 1 \in 1 .. m /\ (i - 1) + 1 = i
    BY <1>1
  <2>. HIDE DEF m
  <2>5. \A j \in 1 .. m : b[j] = at[j + 1]
    OBVIOUS
  <2>6. b \in [1 .. m -> 1 .. N]
    BY <1>3, <2>3
  <2>. HIDE DEF b, n, N, h
  <2>7. \A i, j \in 1 .. m : b[i] = b[j] => i = j
    <3>. SUFFICES ASSUME NEW i \in 1 .. m, NEW j \in 1 .. m, b[i] = b[j] PROVE i = j
      OBVIOUS
    <3>1. i + 1 = j + 1
      BY <1>3, <2>3, <2>5
    <3>. QED BY <2>3, <3>1
  <2>8. Placing(u, clause, b)
    <3>1. ASSUME NEW j \in 1 .. m PROVE u[j].entry = clause[b[j]]
      <4>. DEFINE i == j + 1
      <4>1. i \in 1 .. n /\ u[j] = td[i] /\ b[j] = at[i]
        BY <2>2, <2>3, <2>5
      <4>. HIDE DEF i
      <4>. QED BY <1>3, <4>1
    <3>. QED BY <2>2, <2>6, <2>7, <3>1 DEF Placing, N
  <2>9. ASSUME NEW k, NEW g
        PROVE  OpenTurn(u, b, k, g) <=> OpenTurn(td, at, k, g) /\ ~(k = at[1] /\ g = f)
    <3>1. ASSUME OpenTurn(u, b, k, g) PROVE OpenTurn(td, at, k, g) /\ k # at[1]
      <4>1. PICK j \in 1 .. m : b[j] = k /\ g \in u[j].turns
        BY <2>2, <3>1 DEF OpenTurn
      <4>2. j + 1 \in 1 .. n /\ at[j + 1] = k /\ g \in td[j + 1].turns /\ j + 1 # 1
        BY <2>2, <2>3, <2>5, <4>1
      <4>. DEFINE i == j + 1
      <4>3. i \in 1 .. n /\ at[i] = k /\ g \in td[i].turns /\ i # 1
        BY <4>2
      <4>. HIDE DEF i
      <4>. QED BY <1>1, <1>3, <4>3 DEF OpenTurn, n
    <3>2. ASSUME OpenTurn(td, at, k, g), ~(k = at[1] /\ g = f) PROVE OpenTurn(u, b, k, g)
      <4>1. PICK i \in 1 .. n : at[i] = k /\ g \in td[i].turns
        BY <3>2 DEF OpenTurn, n
      <4>2. i # 1
        BY <1>4, <3>2, <4>1 DEF h
      <4>. DEFINE j == i - 1
      <4>3. j \in 1 .. m /\ j + 1 = i
        BY <2>4, <4>2
      <4>. HIDE DEF j
      <4>4. b[j] = k /\ g \in u[j].turns
        BY <2>2, <2>5, <4>1, <4>3
      <4>. QED BY <2>2, <4>3, <4>4 DEF OpenTurn
    <3>. QED BY <3>1, <3>2
  <2>. QED BY <2>1, <2>8, <2>9 DEF Handles
<1>5. CASE h.turns # {f}
  <2>. DEFINE v == [entry |-> h.entry, turns |-> h.turns \ {f}]
              u == [k \in 1 .. n |-> IF k = 1 THEN v ELSE td[k]]
  <2>1. AfterIn(td, f) = u
    <3>1. AfterIn(td, f) = [td EXCEPT ![1].turns = @ \ {f}]
      BY <1>1, <1>5 DEF AfterIn
    <3>2. OneLess(td, n, f)
      <4>. HIDE DEF n, w
      <4>. QED BY <1>1, <1>2, OneTurnLess
    <3>3. [td EXCEPT ![1].turns = @ \ {f}] = u
      BY <3>2 DEF OneLess
    <3>. QED BY <3>1, <3>3
  <2>2. /\ u[1] = v /\ v.entry = h.entry /\ v.turns = h.turns \ {f}
        /\ \A k \in 1 .. n : k # 1 => u[k] = td[k]
        /\ DOMAIN u = 1 .. n
    BY <1>1
  <2>3. Len(u) = n
    <3>. HIDE DEF w, v
    <3>1. u \in Seq({u[k] : k \in 1 .. n})
      <4>1. u \in [1 .. n -> {u[k] : k \in 1 .. n}]
        OBVIOUS
      <4>. HIDE DEF u, n
      <4>. QED BY <1>1, <4>1, FunctionIsSeq
    <3>. HIDE DEF u, n
    <3>. QED BY <1>1, <2>2, <3>1
  <2>. HIDE DEF u, v, w, n, h
  <2>4. ASSUME NEW j \in 1 .. n
        PROVE  /\ u[j].entry = td[j].entry
               /\ \A g : g \in u[j].turns <=> g \in td[j].turns /\ ~(j = 1 /\ g = f)
    <3>1. CASE j = 1
      BY <2>2, <3>1 DEF h
    <3>2. CASE j # 1
      BY <2>2, <3>2
    <3>. QED BY <3>1, <3>2
  <2>5. Placing(u, clause, at)
    BY <1>3, <2>3, <2>4 DEF Placing, N
  <2>6. ASSUME NEW k, NEW g
        PROVE  OpenTurn(u, at, k, g) <=> OpenTurn(td, at, k, g) /\ ~(k = at[1] /\ g = f)
    <3>1. \A j \in 1 .. n : at[j] = at[1] => j = 1
      BY <1>1, <1>3
    <3>2. OpenTurn(u, at, k, g) <=> \E j \in 1 .. n : at[j] = k /\ g \in u[j].turns
      BY <2>3 DEF OpenTurn
    <3>3. OpenTurn(td, at, k, g) <=> \E j \in 1 .. n : at[j] = k /\ g \in td[j].turns
      BY DEF OpenTurn, n
    <3>. QED BY <2>4, <3>1, <3>2, <3>3
  <2>. QED BY <2>1, <2>5, <2>6 DEF Handles
<1>. QED BY <1>4, <1>5
(* The terms that a clause finds, and those it has been handled for.       *)
AllTerms(D, s, clause) ==
  {t \in Terms(D) : /\ t.at \in 1 .. Len(clause) /\ ~PanicsIn(s, clause[t.at])
                    /\ t.field \in FieldsIn(s, clause[t.at])
                    /\ t.value \in FoundIn(s, clause[t.at], t.field)}
DoneTerms(D, s, clause, td, at) ==
  {t \in AllTerms(D, s, clause) : ~OpenTurn(td, at, t.at, t.field)}

(* The scores of the candidates C are the sums of the latter.              *)
ScoringAt(D, s, clause, td, at, C, sc) ==
  /\ Placing(td, clause, at)
  /\ OfClause(D, clause, DoneTerms(D, s, clause, td, at))
  /\ sc = Scored(C, SumOver(D, clause, C, DoneTerms(D, s, clause, td, at)))

ScoringInv(D, s, clause, td, C, sc) == \E at : ScoringAt(D, s, clause, td, at, C, sc)

(* The sum of no terms is 0.                                               *)
LEMMA SumNone ==
  ASSUME NEW D, NEW clause, NEW C
  PROVE  OfClause(D, clause, {}) /\ SumOver(D, clause, C, {}) = [d \in C |-> 0]
<1>1. \A c : AddUp(c, {}) = 0
  <2>. TAKE c
  <2>1. IsFiniteSet({}) /\ Counted(c, {})
    BY FS_EmptySet DEF Counted
  <2>. QED BY <2>1, AddUpSteps
<1>2. IsFiniteSet({})
  BY FS_EmptySet
<1>. QED BY <1>1, <1>2 DEF OfClause, SumOver

(* An entry of a clause.                                                   *)
LEMMA EntryOf ==
  ASSUME NEW clause, IsClause(clause), NEW k \in 1 .. Len(clause)
  PROVE  IsEntry(clause[k]) /\ clause[k] \in ToSet(clause) /\ k \in Nat
<1>1. clause \in Seq(ToSet(clause)) /\ \A e \in ToSet(clause) : IsEntry(e)
  BY DEF IsClause
<1>2. clause[k] \in ToSet(clause) /\ Len(clause) \in Nat
  BY <1>1
<1>. QED BY <1>1, <1>2

(* BM25Score starts, with every turn open.                                 *)
LEMMA ScoringStarts ==
  ASSUME NEW D, NEW s, Searchable(D, s), NEW clause, IsClause(clause),
         NEW C \in SUBSET (0 .. Len(D) - 1)
  PROVE  ScoringInv(D, s, clause, PassIn(s, clause, FALSE), C, NewScoring(C))
<1>. DEFINE td == PassIn(s, clause, FALSE)
<1>1. PICK n, at : PassIs(td, s, clause, FALSE, n, at)
  BY PassTurns
<1>2. Queue(s, td, clause, FALSE)
  BY PassQueues
<1>. HIDE DEF td
<1>3. /\ n \in Nat /\ at \in [1 .. n -> 1 .. Len(clause)] /\ Climbs(at)
      /\ td = [k \in 1 .. n |->
                 [entry |-> clause[at[k]], turns |-> TurnsIn(s, clause[at[k]], FALSE)]]
      /\ \A j \in 1 .. Len(clause) : TurnsIn(s, clause[j], FALSE) # {} => \E k \in 1 .. n : at[k] = j
  BY <1>1 DEF PassIs
<1>4. Len(td) = n
  <2>1. DOMAIN td = 1 .. Len(td) /\ Len(td) \in Nat
    BY <1>2 DEF Queue
  <2>2. DOMAIN td = 1 .. n
    BY <1>3
  <2>. HIDE DEF td
  <2>. QED BY <1>3, <2>1, <2>2
<1>5. \A k \in 1 .. n : td[k].entry = clause[at[k]] /\ td[k].turns = TurnsIn(s, clause[at[k]], FALSE)
  BY <1>3
<1>6. Placing(td, clause, at)
  <2>1. \A i, j \in 1 .. n : at[i] = at[j] => i = j
    <3>. SUFFICES ASSUME NEW i \in 1 .. n, NEW j \in 1 .. n, at[i] = at[j] PROVE i = j
      OBVIOUS
    <3>1. Len(clause) \in Nat
      BY DEF IsClause
    <3>2. at[i] \in Nat /\ DOMAIN at = 1 .. n
      BY <1>3, <3>1
    <3>3. ~(i < j) /\ ~(j < i)
      BY <1>3, <3>2 DEF Climbs
    <3>. QED BY <1>3, <3>3
  <2>. QED BY <1>3, <1>4, <1>5, <2>1 DEF Placing
<1>7. DoneTerms(D, s, clause, td, at) = {}
  <2>. SUFFICES ASSUME NEW t \in AllTerms(D, s, clause) PROVE OpenTurn(td, at, t.at, t.field)
    BY DEF DoneTerms
  <2>. DEFINE k == t.at
              f == t.field
              e == clause[k]
  <2>1. /\ k \in 1 .. Len(clause) /\ ~PanicsIn(s, e) /\ f \in FieldsIn(s, e)
        /\ t.value \in FoundIn(s, e, f)
    BY DEF AllTerms
  <2>2. TokensIn(s, e, f) # << >>
    <3>1. \E i \in DOMAIN TokensIn(s, e, f) : TRUE
      BY <2>1 DEF FoundIn
    <3>. HIDE DEF e, f
    <3>. QED BY <3>1
  <2>3. f \in TurnsIn(s, e, FALSE)
    <3>1. Tells(s, e, f)
      BY <2>1, <2>2 DEF Tells
    <3>. HIDE DEF e, f
    <3>. QED BY <3>1, TurnsTell
  <2>4. PICK j \in 1 .. n : at[j] = k
    BY <1>3, <2>1, <2>3
  <2>. QED BY <1>4, <1>5, <2>3, <2>4 DEF OpenTurn
<1>8. NewScoring(C) = Scored(C, SumOver(D, clause, C, {}))
  <2>1. Docs(C)
    <3>1. IsBatch(D)
      BY DEF Searchable, IsCorpus
    <3>. QED BY <3>1, IndexSets
  <2>2. NewScoring(C) = Scored(C, [d \in C |-> 0])
    BY <2>1, NewScores
  <2>3. SumOver(D, clause, C, {}) = [d \in C |-> 0]
    BY SumNone
  <2>. QED BY <2>2, <2>3
<1>9. OfClause(D, clause, {})
  BY SumNone
<1>10. ScoringAt(D, s, clause, td, at, C, NewScoring(C))
  BY <1>6, <1>7, <1>8, <1>9 DEF ScoringAt
<1>. QED BY <1>10 DEF ScoringInv, td

(* A call of its handler.                                                  *)
LEMMA ScoringStep ==
  ASSUME Searchable(docs, seg), bitmap \in SUBSET (0 .. Len(docs) - 1),
         NEW clause, IsClause(clause), Queue(seg, todo, clause, FALSE),
         ScoringInv(docs, seg, clause, todo, bitmap, scores),
         todo # << >>, NEW f \in Head(todo).turns, ~PanicsIn(seg, Head(todo).entry),
         NEW widths \in Seq(Nat \ {0})
  PROVE  ScoringInv(docs, seg, clause, AfterIn(todo, f), bitmap, Accumulate(f, widths))
<1>1. PICK at : ScoringAt(docs, seg, clause, todo, at, bitmap, scores)
  BY DEF ScoringInv
<1>. DEFINE k == at[1]
            e == clause[k]
            sub == TokensIn(seg, e, f)
            A == DoneTerms(docs, seg, clause, todo, at)
            new == TermsAt(sub, k, f, 1 .. Len(sub))
            u == AfterIn(todo, f)
<1>2. Placing(todo, clause, at) /\ OfClause(docs, clause, A) /\ scores = Summed(clause, A)
  BY <1>1 DEF ScoringAt, Summed
<1>3. Len(todo) \in Nat /\ 1 \in 1 .. Len(todo) /\ Head(todo) = todo[1]
  BY DEF Queue
<1>4. k \in 1 .. Len(clause) /\ Head(todo).entry = e
  BY <1>2, <1>3 DEF Placing
<1>5. IsEntry(e) /\ k \in Nat /\ ~PanicsIn(seg, e)
  BY <1>4, EntryOf
<1>6. f # NoField /\ f \in FieldsIn(seg, e)
  <2>1. f \in TurnsIn(seg, e, FALSE)
    BY <1>4, AfterQueues
  <2>. HIDE DEF e
  <2>2. IF f = NoField THEN FALSE /\ \A g \in FieldsIn(seg, e) : TokensIn(seg, e, g) = << >>
        ELSE Tells(seg, e, f)
    BY <1>5, <2>1, TurnsTell
  <2>. QED BY <2>2 DEF Tells
<1>7. sub = TurnTokens(f)
  BY <1>4, <1>6, SearchOperators
<1>8. OpenTurn(todo, at, k, f)
  BY <1>3 DEF OpenTurn
<1>9. /\ f \in DOMAIN seg.fields /\ f \in FieldsOf(docs)
      /\ Len(sub) \in Nat /\ DOMAIN sub = 1 .. Len(sub)
      /\ \A i \in 1 .. Len(sub) : /\ sub[i].value \in Nat
                                  /\ \E n \in 1 .. Len(seg.fields[f].tokens) :
                                       sub[i] = seg.fields[f].tokens[n]
      /\ \A i, j \in 1 .. Len(sub) : i < j => sub[i].value < sub[j].value
  <2>. HIDE DEF e
  <2>. QED BY <1>5, <1>6, FoundTokens
<1>10. Entering(clause, k, f, sub, A)
  <2>1. \A t \in A : t.field = f => t.at # k
    BY <1>8 DEF DoneTerms
  <2>. HIDE DEF A, sub, k
  <2>. QED BY <1>2, <1>4, <1>9, <2>1 DEF Entering
<1>11. Accumulate(f, widths) = Summed(clause, A \union new)
  <2>1. Accumulate(f, widths) = SummedAt(clause, k, f, sub, A, 1 .. Len(sub))
    <3>. HIDE DEF A, sub, k
    <3>. QED BY <1>2, <1>4, <1>7, <1>9, <1>10, CallScores DEF e
  <2>. QED BY <2>1 DEF SummedAt
<1>12. OfClause(docs, clause, A \union new)
  <2>. HIDE DEF A, sub, k
  <2>. QED BY <1>10, EnteringTerms
<1>13. Handles(todo, u, clause, at, f)
  <2>. HIDE DEF u
  <2>1. Handles(todo, AfterIn(todo, f), clause, at, f)
    BY <1>2, CallHandles
  <2>. QED BY <2>1 DEF u
<1>. HIDE DEF u, A
<1>14. PICK b : /\ Placing(u, clause, b)
                /\ \A i, g : OpenTurn(u, b, i, g) <=> OpenTurn(todo, at, i, g) /\ ~(i = k /\ g = f)
  BY <1>13 DEF Handles
<1>. DEFINE all == AllTerms(docs, seg, clause)
<1>15. new = {t \in all : t.at = k /\ t.field = f}
  <2>1. new = {Term(k, f, v) : v \in FoundIn(seg, e, f)}
    <3>. HIDE DEF e, k
    <3>. QED BY <1>9 DEF TermsAt, FoundIn
  <2>2. \A v \in FoundIn(seg, e, f) : v \in Nat
    <3>. HIDE DEF e, k
    <3>. QED BY <1>9 DEF FoundIn
  <2>3. ASSUME NEW v \in FoundIn(seg, e, f)
        PROVE  Term(k, f, v) \in all /\ Term(k, f, v).at = k /\ Term(k, f, v).field = f
    <3>1. Term(k, f, v) \in Terms(docs)
      BY <1>5, <1>9, <2>2 DEF Term, Terms
    <3>2. Term(k, f, v).at = k /\ Term(k, f, v).field = f /\ Term(k, f, v).value = v
      BY DEF Term
    <3>. QED BY <1>4, <1>5, <1>6, <2>3, <3>1, <3>2 DEF AllTerms
  <2>4. ASSUME NEW t \in all, t.at = k, t.field = f
        PROVE  \E v \in FoundIn(seg, e, f) : t = Term(k, f, v)
    <3>1. t \in Terms(docs) /\ t.value \in FoundIn(seg, e, f)
      BY <2>4 DEF AllTerms
    <3>2. t = [at |-> t.at, field |-> t.field, value |-> t.value]
      BY <3>1 DEF Terms
    <3>. QED BY <2>4, <3>1, <3>2 DEF Term
  <2>. HIDE DEF new, all, e, k, sub
  <2>. QED BY <2>1, <2>3, <2>4
<1>16. DoneTerms(docs, seg, clause, u, b) = A \union new
  <2>1. \A t : t \in A <=> t \in all /\ ~OpenTurn(todo, at, t.at, t.field)
    BY DEF A, DoneTerms
  <2>2. \A t : t \in DoneTerms(docs, seg, clause, u, b) <=> t \in all /\ ~OpenTurn(u, b, t.at, t.field)
    BY DEF DoneTerms
  <2>3. \A t : t \in new <=> t \in all /\ t.at = k /\ t.field = f
    BY <1>15
  <2>. HIDE DEF all, new, k
  <2>. QED BY <1>14, <2>1, <2>2, <2>3
<1>17. ScoringAt(docs, seg, clause, u, b, bitmap, Accumulate(f, widths))
  BY <1>11, <1>12, <1>14, <1>16 DEF ScoringAt, Summed
<1>. QED BY <1>17 DEF ScoringInv, u-----------------------------------------------------------------------------
(***************************************************************************)
(* BM25Score.  The sums are what the documents say.                        *)
(***************************************************************************)
(* Members without a number add nothing.                                   *)
LEMMA AddUpZeros ==
  ASSUME NEW S, IsFiniteSet(S), NEW c, Counted(c, S), NEW Z \in SUBSET S,
         \A x \in S \ Z : c[x] = 0
  PROVE  AddUp(c, S) = AddUp(c, Z)
<1>. DEFINE Y == S \ Z
<1>1. IsFiniteSet(Z) /\ IsFiniteSet(Y) /\ Counted(c, Z) /\ Counted(c, Y)
  BY FS_Subset DEF Counted
<1>2. \A x \in Y : c[x] = 0
  OBVIOUS
<1>3. S = Z \union Y /\ \A x \in Y : x \notin Z
  OBVIOUS
<1>. HIDE DEF Y
<1>4. Adds(c, c, Z, c, Y)
  <2>1. ASSUME NEW x \in Z \union Y
        PROVE  c[x] = (IF x \in Z THEN c[x] ELSE 0) + (IF x \in Y THEN c[x] ELSE 0)
    <3>1. c[x] \in Nat
      BY <1>1 DEF Counted
    <3>. QED BY <1>3, <3>1
  <2>. QED BY <2>1 DEF Adds
<1>5. AddUp(c, Z \union Y) = AddUp(c, Z) + AddUp(c, Y) /\ AddUp(c, Z) \in Nat
  BY <1>1, <1>4, AddUpAdds
<1>6. AddUp(c, Y) = 0
  <2>1. Adds(c, c, Y, c, Y)
    BY <1>2 DEF Adds
  <2>2. AddUp(c, Y \union Y) = AddUp(c, Y) + AddUp(c, Y) /\ AddUp(c, Y) \in Nat
    BY <1>1, <2>1, AddUpAdds
  <2>3. Y \union Y = Y
    OBVIOUS
  <2>. DEFINE a == AddUp(c, Y)
  <2>4. a = a + a /\ a \in Nat
    BY <2>2, <2>3
  <2>. HIDE DEF a
  <2>5. a = 0
    BY <2>4
  <2>. QED BY <2>5 DEF a
<1>. DEFINE a == AddUp(c, Z)
<1>7. AddUp(c, S) = a + 0 /\ a \in Nat
  BY <1>3, <1>5, <1>6
<1>. HIDE DEF a
<1>8. AddUp(c, S) = a
  BY <1>7
<1>. QED BY <1>8 DEF a

(* m takes each member of S to one of T, all of them and each once.        *)
Pairs(m, S, T) ==
  /\ \A x \in S : m[x] \in T
  /\ \A x, y \in S : m[x] = m[y] => x = y
  /\ \A z \in T : \E x \in S : m[x] = z

(* Sets that are paired have the same sum.                                 *)
LEMMA AddUpMoved ==
  ASSUME NEW S, IsFiniteSet(S), NEW c, Counted(c, S), NEW T, NEW m, Pairs(m, S, T),
         NEW d, \A x \in S : d[m[x]] = c[x]
  PROVE  SumsTo(d, T, AddUp(c, S))
<1>1. PICK g, w : Enumerates(g, w, c, S)
  BY Enumerated
<1>. DEFINE n == Len(g)
            b == [i \in 1 .. n |-> m[g[i]]]
<1>2. /\ n \in Nat /\ w \in Seq(Nat) /\ Len(w) = n /\ AddUp(c, S) = Total(w, n)
      /\ \A i \in 1 .. n : w[i] = c[g[i]] /\ g[i] \in S
      /\ g \in Seq(S)
      /\ \A i, j \in 1 .. n : g[i] = g[j] => i = j
      /\ \A x \in S : \E i \in 1 .. n : g[i] = x
  BY <1>1 DEF Enumerates, Once
<1>. HIDE DEF n
<1>3. \A i \in 1 .. n : b[i] = m[g[i]]
  OBVIOUS
<1>4. b \in [1 .. n -> T]
  BY <1>2 DEF Pairs
<1>. HIDE DEF b
<1>5. \A i, j \in 1 .. n : b[i] = b[j] => i = j
  <2>. SUFFICES ASSUME NEW i \in 1 .. n, NEW j \in 1 .. n, b[i] = b[j] PROVE i = j
    OBVIOUS
  <2>1. m[g[i]] = m[g[j]] /\ g[i] \in S /\ g[j] \in S
    BY <1>2, <1>3
  <2>2. g[i] = g[j]
    BY <2>1 DEF Pairs
  <2>. QED BY <1>2, <2>2
<1>6. \A z \in T : \E i \in 1 .. n : b[i] = z
  BY <1>2, <1>3 DEF Pairs
<1>7. b \in Seq(T) /\ Len(b) = n
  BY <1>2, <1>4, FunctionIsSeq
<1>8. Once(b, T)
  BY <1>5, <1>6, <1>7 DEF Once
<1>9. \A i \in 1 .. Len(w) : d[b[i]] = w[i]
  BY <1>2, <1>3
<1>10. SumsTo(d, T, Total(w, Len(w)))
  <2>1. w \in Seq(Nat) /\ Len(w) = Len(b)
    BY <1>2, <1>7
  <2>. QED BY <1>8, <1>9, <2>1, ListSums
<1>. QED BY <1>2, <1>10
(* The terms of a clause have numbers.                                     *)
LEMMA WeighCounted ==
  ASSUME NEW D, IsCorpus(D), NEW clause, IsClause(clause), NEW d \in 0 .. Len(D) - 1,
         NEW A, OfClause(D, clause, A)
  PROVE  Counted(Weigh(D, clause, d), A) /\ IsFiniteSet(A)
<1>1. ASSUME NEW x \in A PROVE Weigh(D, clause, d)[x] \in Nat
  <2>1. x \in Terms(D) /\ x.at \in 1 .. Len(clause)
    BY DEF OfClause
  <2>. DEFINE b == clause[x.at].boost
              g == x.field
              u == x.value
  <2>2. b \in Nat
    BY <2>1, EntryOf DEF IsEntry
  <2>3. Weigh(D, clause, d)[x] = Gain(D, g, u, b, d)
    BY <2>1 DEF Weigh
  <2>. HIDE DEF b, g, u
  <2>4. Gain(D, g, u, b, d) \in Nat
    BY <2>2, GainIs
  <2>. QED BY <2>3, <2>4
<1>. QED BY <1>1 DEF Counted, OfClause

(* The terms of one entry are those of the values that it means.           *)
TermsOfEntry(D, s, clause, k) == {t \in AllTerms(D, s, clause) : t.at = k}

(* A range over a field without tokens means none.                         *)
LEMMA EntryMeans ==
  ASSUME NEW D, NEW s, Searchable(D, s), NEW clause, IsClause(clause),
         NEW k \in 1 .. Len(clause), NEW e, e = clause[k], ~TooHighIn(D, s, e)
  PROVE  /\ \A t \in TermsOfEntry(D, s, clause, k) :
              /\ t.field \in FieldsIn(s, e) /\ t.value \in MeantIn(D, e, t.field)
              /\ t = Term(k, t.field, t.value)
         /\ \A f \in FieldsIn(s, e) : \A v \in MeantIn(D, e, f) :
              Term(k, f, v) \in TermsOfEntry(D, s, clause, k)
<1>1. IsEntry(e) /\ k \in Nat
  BY EntryOf
<1>2. ASSUME NEW f \in FieldsIn(s, e), ~PanicsIn(s, e)
      PROVE  FoundIn(s, e, f) = MeantIn(D, e, f) /\ f \in FieldsOf(D)
  <2>. DEFINE sub == TokensIn(s, e, f)
  <2>. HIDE DEF sub
  <2>1. /\ f \in FieldsOf(D)
        /\ ~TooHighIn(D, s, e) => FoundIn(s, e, f) = MeantIn(D, e, f)
    BY <1>1, <1>2, FoundTokens DEF sub
  <2>. QED BY <2>1
<1>3. ASSUME NEW t \in TermsOfEntry(D, s, clause, k)
      PROVE  /\ t.field \in FieldsIn(s, e) /\ t.value \in MeantIn(D, e, t.field)
             /\ t = Term(k, t.field, t.value)
  <2>1. /\ t \in Terms(D) /\ t.at = k /\ ~PanicsIn(s, e)
        /\ t.field \in FieldsIn(s, e) /\ t.value \in FoundIn(s, e, t.field)
    BY DEF TermsOfEntry, AllTerms
  <2>2. t = [at |-> t.at, field |-> t.field, value |-> t.value]
    BY <2>1 DEF Terms
  <2>3. FoundIn(s, e, t.field) = MeantIn(D, e, t.field)
    BY <1>2, <2>1
  <2>. QED BY <2>1, <2>2, <2>3 DEF Term
<1>4. ASSUME NEW f \in FieldsIn(s, e), NEW v \in MeantIn(D, e, f)
      PROVE  Term(k, f, v) \in TermsOfEntry(D, s, clause, k)
  <2>1. ~PanicsIn(s, e)
    BY <1>4, PanicMeansNothing
  <2>2. FoundIn(s, e, f) = MeantIn(D, e, f) /\ f \in FieldsOf(D)
    BY <1>2, <2>1
  <2>3. v \in Nat
    <3>. DEFINE sub == TokensIn(s, e, f)
    <3>. HIDE DEF sub
    <3>1. /\ DOMAIN sub = 1 .. Len(sub)
          /\ \A i \in 1 .. Len(sub) : sub[i].value \in Nat
      BY <1>1, <2>1, FoundTokens DEF sub
    <3>2. v \in {sub[i].value : i \in DOMAIN sub}
      BY <2>2 DEF FoundIn, sub
    <3>. QED BY <3>1, <3>2
  <2>4. /\ Term(k, f, v) \in Terms(D)
        /\ Term(k, f, v).at = k /\ Term(k, f, v).field = f /\ Term(k, f, v).value = v
    BY <1>1, <2>2, <2>3 DEF Term, Terms
  <2>. HIDE DEF Term
  <2>. QED BY <2>1, <2>2, <2>4 DEF TermsOfEntry, AllTerms
<1>. QED BY <1>3, <1>4

(* One clause after another is a clause.                                   *)
LEMMA ClausesJoin ==
  ASSUME NEW x, IsClause(x), NEW y, IsClause(y)
  PROVE  IsClause(x \o y) /\ ToSet(x \o y) = ToSet(x) \union ToSet(y)
<1>. DEFINE M == ToSet(x) \union ToSet(y)
            n == Len(x)
            l == Len(y)
<1>1. x \in Seq(ToSet(x)) /\ y \in Seq(ToSet(y)) /\ \A e \in M : IsEntry(e)
  BY DEF IsClause
<1>2. /\ DOMAIN x = 1 .. n /\ DOMAIN y = 1 .. l /\ n \in Nat /\ l \in Nat
      /\ ToSet(x) = {x[k] : k \in 1 .. n} /\ ToSet(y) = {y[k] : k \in 1 .. l}
  BY <1>1 DEF ToSet
<1>3. /\ x \o y \in Seq(M) /\ Len(x \o y) = n + l /\ DOMAIN (x \o y) = 1 .. n + l
      /\ \A k \in 1 .. n + l : (x \o y)[k] = IF k <= n THEN x[k] ELSE y[k - n]
  <2>1. x \in Seq(M) /\ y \in Seq(M)
    BY <1>1
  <2>. HIDE DEF M
  <2>. QED BY <2>1
<1>4. ToSet(x \o y) = {(x \o y)[k] : k \in 1 .. n + l}
  BY <1>3 DEF ToSet
<1>. DEFINE z == x \o y
<1>. HIDE DEF n, l, z
<1>5. \A k \in 1 .. n : k \in 1 .. n + l /\ z[k] = x[k]
  BY <1>2, <1>3 DEF z
<1>6. ASSUME NEW k \in 1 .. l PROVE k + n \in 1 .. n + l /\ z[k + n] = y[k]
  <2>. DEFINE i == k + n
  <2>1. i \in 1 .. n + l /\ ~(i <= n) /\ i - n = k
    BY <1>2
  <2>. HIDE DEF i
  <2>2. z[i] = y[i - n]
    BY <1>3, <2>1 DEF z
  <2>. QED BY <2>1, <2>2 DEF i
<1>7. M \subseteq {z[k] : k \in 1 .. n + l}
  <2>1. \A k \in 1 .. n : x[k] \in {z[j] : j \in 1 .. n + l}
    BY <1>5
  <2>2. \A k \in 1 .. l : y[k] \in {z[j] : j \in 1 .. n + l}
    BY <1>6
  <2>. QED BY <1>2, <2>1, <2>2
<1>8. {z[k] : k \in 1 .. n + l} \subseteq M
  <2>1. \A k \in 1 .. n + l : z[k] \in M
    <3>. DEFINE m == n + l
    <3>1. z \in Seq(M) /\ Len(z) = m
      BY <1>3 DEF z
    <3>. HIDE DEF M, m
    <3>2. z \in [1 .. m -> M]
      BY <3>1
    <3>. QED BY <3>2 DEF m
  <2>. QED BY <2>1
<1>9. ToSet(z) = M
  BY <1>4, <1>7, <1>8 DEF z
<1>. QED BY <1>1, <1>3, <1>9 DEF IsClause, z

(* What a document is worth for an entry is the sum of its terms.          *)
LEMMA EntryRelevance ==
  ASSUME SearchInv, NEW clause, IsClause(clause), NEW k \in 1 .. Len(clause),
         ~TooHighIn(docs, seg, clause[k]),
         OfClause(docs, clause, AllTerms(docs, seg, clause)), NEW d \in 0 .. Len(docs) - 1
  PROVE  RelevanceTo(d, clause[k])
           = AddUp(Weigh(docs, clause, d), TermsOfEntry(docs, seg, clause, k))
<1>. DEFINE e == clause[k]
            c == Weigh(docs, clause, d)
            S == TermsOfEntry(docs, seg, clause, k)
            has(f, v) == HasToken(docs[d + 1], f, v)
            P == {t \in S : has(t.field, t.value)}
            T == {t \in TermsOf(e) : has(t[1], t[2])}
            part(p) == Part(docs[d + 1].fields[p[1]].tokens[p[2]],
                            docs[d + 1].fields[p[1]].length, e.boost)
            b == [p \in T |-> part(p)]
            m == [t \in P |-> <<t.field, t.value>>]
<1>1. Searchable(docs, seg) /\ IsCorpus(docs)
  BY DEF SearchInv, AskedInv, Searchable
<1>2. /\ \A t \in S : /\ t.field \in FieldsIn(seg, e) /\ t.value \in MeantIn(docs, e, t.field)
                      /\ t = Term(k, t.field, t.value)
      /\ \A f \in FieldsIn(seg, e) : \A v \in MeantIn(docs, e, f) : Term(k, f, v) \in S
  <2>. HIDE DEF S
  <2>. QED BY <1>1, EntryMeans DEF S
<1>3. OfClause(docs, clause, S)
  <2>1. IsFiniteSet(S)
    <3>1. S \subseteq AllTerms(docs, seg, clause)
      BY DEF TermsOfEntry
    <3>. QED BY <3>1, FS_Subset DEF OfClause
  <2>. QED BY <2>1 DEF OfClause, TermsOfEntry
<1>4. \A t \in S : t.at = k /\ c[t] = Gain(docs, t.field, t.value, e.boost, d)
  <2>1. \A t \in S : t \in Terms(docs) /\ t.at = k
    BY DEF TermsOfEntry, AllTerms
  <2>. QED BY <2>1 DEF Weigh
<1>5. \A p : p \in TermsOf(e) <=> \E f \in FieldsIn(seg, e) : \E v \in MeantIn(docs, e, f) : p = <<f, v>>
  <2>1. \A f : Meant(e, f) = MeantIn(docs, e, f)
    BY Meanings
  <2>2. FieldsFor(e) = FieldsIn(seg, e)
    BY SearchOperators
  <2>. QED BY <2>1, <2>2 DEF TermsOf
<1>. HIDE DEF S, c
<1>6. Counted(c, S) /\ IsFiniteSet(S)
  BY <1>1, <1>3, WeighCounted DEF c
<1>7. AddUp(c, S) = AddUp(c, P)
  <2>1. \A t \in S \ P : c[t] = 0
    BY <1>4 DEF Gain
  <2>2. P \in SUBSET S
    OBVIOUS
  <2>. HIDE DEF P
  <2>. QED BY <1>6, <2>1, <2>2, AddUpZeros
<1>8. IsFiniteSet(P) /\ Counted(c, P)
  <2>1. P \subseteq S
    OBVIOUS
  <2>. HIDE DEF P
  <2>. QED BY <1>6, <2>1, FS_Subset DEF Counted
<1>9. Pairs(m, P, T)
  <2>1. \A t \in P : m[t] = <<t.field, t.value>>
    OBVIOUS
  <2>. HIDE DEF m
  <2>2. ASSUME NEW t \in P PROVE m[t] \in T
    <3>1. <<t.field, t.value>> \in TermsOf(e)
      BY <1>2, <1>5
    <3>. QED BY <2>1, <3>1
  <2>3. ASSUME NEW x \in P, NEW y \in P, m[x] = m[y] PROVE x = y
    <3>1. x.field = y.field /\ x.value = y.value
      BY <2>1, <2>3
    <3>2. x = Term(k, x.field, x.value) /\ y = Term(k, y.field, y.value)
      BY <1>2
    <3>. QED BY <3>1, <3>2
  <2>4. ASSUME NEW z \in T PROVE \E t \in P : m[t] = z
    <3>1. PICK f \in FieldsIn(seg, e) : \E v \in MeantIn(docs, e, f) : z = <<f, v>>
      BY <1>5
    <3>2. PICK v \in MeantIn(docs, e, f) : z = <<f, v>>
      BY <3>1
    <3>3. Term(k, f, v) \in S /\ has(f, v)
      BY <1>2, <3>2
    <3>4. Term(k, f, v).field = f /\ Term(k, f, v).value = v
      BY DEF Term
    <3>5. Term(k, f, v) \in P
      BY <3>3, <3>4
    <3>. QED BY <2>1, <3>2, <3>4, <3>5
  <2>. HIDE DEF P, T
  <2>. QED BY <2>2, <2>3, <2>4 DEF Pairs
<1>10. \A t \in P : b[m[t]] = c[t]
  <2>. SUFFICES ASSUME NEW t \in P PROVE b[m[t]] = c[t]
    OBVIOUS
  <2>1. m[t] = <<t.field, t.value>> /\ m[t] \in T
    BY <1>9 DEF Pairs
  <2>2. b[m[t]] = part(<<t.field, t.value>>)
    BY <2>1
  <2>3. c[t] = Part(FreqIn(docs, t.field, t.value, d), LengthIn(docs, t.field, d), e.boost)
    BY <1>4 DEF Gain
  <2>. QED BY <2>2, <2>3 DEF FreqIn, LengthIn
<1>11. SumsTo(b, T, AddUp(c, P))
  <2>. HIDE DEF b, T, m, P
  <2>. QED BY <1>8, <1>9, <1>10, AddUpMoved
<1>. DEFINE Fold(h) == h = [z \in SUBSET T |->
                              IF z = {} THEN 0
                              ELSE LET x == CHOOSE x \in z : TRUE IN part(x) + h[z \ {x}]]
<1>12. RelevanceTo(d, e) = (CHOOSE h : Fold(h))[T]
  <2>. HIDE DEF e
  <2>. QED BY Zenon DEF RelevanceTo, MapThenSumSet, MapThenFoldSet
<1>13. ASSUME NEW h PROVE Fold(h) <=> SetSumming(h, b, T)
  <2>1. \A z \in SUBSET T :
          (IF z = {} THEN 0 ELSE LET x == CHOOSE x \in z : TRUE IN part(x) + h[z \ {x}])
            = (IF z = {} THEN 0 ELSE LET x == CHOOSE x \in z : TRUE IN b[x] + h[z \ {x}])
    <3>. SUFFICES ASSUME NEW z \in SUBSET T, z # {}
                  PROVE  part(CHOOSE x \in z : TRUE) = b[CHOOSE x \in z : TRUE]
      OBVIOUS
    <3>. DEFINE x == CHOOSE y \in z : TRUE
    <3>1. x \in T
      OBVIOUS
    <3>. HIDE DEF x, T
    <3>2. part(x) = b[x]
      BY <3>1
    <3>. HIDE DEF part, b
    <3>. QED BY <3>2 DEF x
  <2>. HIDE DEF b, T, part
  <2>2. [z \in SUBSET T |->
           IF z = {} THEN 0 ELSE LET x == CHOOSE x \in z : TRUE IN part(x) + h[z \ {x}]]
          = [z \in SUBSET T |->
               IF z = {} THEN 0 ELSE LET x == CHOOSE x \in z : TRUE IN b[x] + h[z \ {x}]]
    BY <2>1
  <2>. QED BY <2>2 DEF SetSumming
<1>. HIDE DEF Fold, T, b
<1>14. Fold(CHOOSE h : Fold(h))
  BY <1>11, <1>13 DEF SumsTo
<1>15. RelevanceTo(d, e) = AddUp(c, P)
  BY <1>11, <1>12, <1>13, <1>14 DEF SumsTo
<1>. QED BY <1>7, <1>15 DEF c, S
(* The clauses that are scored, taken together.                            *)
LEMMA ScoredClausesAre ==
  ASSUME SearchInv
  PROVE  /\ IsClause(ScoredClauses)
         /\ ~AnyTooHigh => \A k \in 1 .. Len(ScoredClauses) : ~TooHighIn(docs, seg, ScoredClauses[k])
<1>. DEFINE C == ScoredClauses
<1>1. IsClause(q.musts) /\ IsClause(q.shoulds)
  BY DEF SearchInv, AskedInv
<1>2. C = q.musts \o q.shoulds
  BY DEF ScoredClauses
<1>3. IsClause(C) /\ ToSet(C) = ToSet(q.musts) \union ToSet(q.shoulds)
  <2>. DEFINE x == q.musts
              y == q.shoulds
  <2>. HIDE DEF x, y
  <2>1. IsClause(x \o y) /\ ToSet(x \o y) = ToSet(x) \union ToSet(y)
    BY <1>1, ClausesJoin DEF x, y
  <2>. QED BY <1>2, <2>1 DEF x, y
<1>. HIDE DEF C
<1>4. ASSUME ~AnyTooHigh, NEW k \in 1 .. Len(C) PROVE ~TooHighIn(docs, seg, C[k])
  <2>1. C[k] \in Entries
    BY <1>3, EntryOf DEF Entries
  <2>2. ~TooHigh(C[k])
    BY <1>4, <2>1 DEF AnyTooHigh
  <2>. QED BY <2>2 DEF TooHigh, TooHighIn, Beyond
<1>. QED BY <1>3, <1>4 DEF C

(* The sum of all terms is what the document is worth.                     *)
LEMMA RelevanceIs ==
  ASSUME SearchInv, ~AnyTooHigh, NEW clause, clause = ScoredClauses,
         OfClause(docs, clause, AllTerms(docs, seg, clause)), NEW d \in 0 .. Len(docs) - 1
  PROVE  /\ AddUp(Weigh(docs, clause, d), AllTerms(docs, seg, clause)) = Relevance(d)
         /\ Relevance(d) \in Nat
<1>. DEFINE N == Len(clause)
            c == Weigh(docs, clause, d)
            All == AllTerms(docs, seg, clause)
            P(k) == TermsOfEntry(docs, seg, clause, k)
            w == [k \in 1 .. N |-> RelevanceTo(d, clause[k])]
            Upto(k) == {t \in All : t.at <= k}
<1>1. /\ IsClause(clause) /\ IsCorpus(docs) /\ N \in Nat /\ DOMAIN clause = 1 .. N
      /\ \A k \in 1 .. N : ~TooHighIn(docs, seg, clause[k])
  <2>1. IsClause(clause) /\ \A k \in 1 .. N : ~TooHighIn(docs, seg, clause[k])
    BY ScoredClausesAre
  <2>2. IsCorpus(docs)
    BY DEF SearchInv, AskedInv, Searchable
  <2>. QED BY <2>1, <2>2 DEF IsClause
<1>2. Counted(c, All) /\ IsFiniteSet(All)
  BY <1>1, WeighCounted
<1>3. \A t \in All : t.at \in 1 .. N
  BY DEF AllTerms
<1>4. ASSUME NEW k \in 1 .. N PROVE w[k] = AddUp(c, P(k)) /\ w[k] \in Nat
  <2>1. RelevanceTo(d, clause[k]) = AddUp(c, P(k))
    BY <1>1, EntryRelevance
  <2>2. P(k) \subseteq All
    BY DEF TermsOfEntry
  <2>. HIDE DEF P, All, c
  <2>3. IsFiniteSet(P(k)) /\ Counted(c, P(k))
    BY <1>2, <2>2, FS_Subset DEF Counted
  <2>4. AddUp(c, P(k)) \in Nat
    BY <2>3, AddUpSteps
  <2>. QED BY <2>1, <2>4
<1>5. w \in Seq(Nat) /\ Len(w) = N
  <2>1. w \in [1 .. N -> Nat]
    BY <1>4
  <2>. HIDE DEF w, N
  <2>. QED BY <1>1, <2>1, FunctionIsSeq
<1>6. \A k \in 1 .. N : w[k] = RelevanceTo(d, clause[k])
  OBVIOUS
<1>7. \A k, t : t \in P(k) <=> t \in All /\ t.at = k
  BY DEF TermsOfEntry
<1>. HIDE DEF w, P, All, c, N
<1>8. AddUp(c, Upto(N)) = Total(w, N)
  <2>. DEFINE K == {k \in Nat : k <= N => AddUp(c, Upto(k)) = Total(w, k)}
  <2>1. 0 \in K
    <3>1. Upto(0) = {}
      <4>1. \A t \in All : ~(t.at <= 0)
        BY <1>1, <1>3
      <4>. QED BY <4>1
    <3>2. AddUp(c, {}) = 0
      <4>1. IsFiniteSet({}) /\ Counted(c, {})
        BY FS_EmptySet DEF Counted
      <4>. QED BY <4>1, AddUpSteps
    <3>3. Total(w, 0) = 0
      BY <1>5, TotalSteps
    <3>. HIDE DEF Upto
    <3>. QED BY <3>1, <3>2, <3>3
  <2>2. ASSUME NEW k \in Nat, k \in K PROVE k + 1 \in K
    <3>. HIDE DEF Upto
    <3>. SUFFICES ASSUME k + 1 <= N PROVE AddUp(c, Upto(k + 1)) = Total(w, k + 1)
      OBVIOUS
    <3>. DEFINE i == k + 1
    <3>1. i \in 1 .. N /\ i - 1 = k /\ k <= N
      BY <1>1
    <3>2. AddUp(c, Upto(k)) = Total(w, k)
      BY <2>2, <3>1
    <3>3. \A t \in All : t.at <= i <=> t.at <= k \/ t.at = i
      <4>1. \A t \in All : t.at \in Nat
        BY <1>1, <1>3
      <4>. QED BY <4>1
    <3>. HIDE DEF i, K
    <3>4. Upto(i) = Upto(k) \union P(i)
      BY <1>7, <3>3 DEF Upto
    <3>5. Upto(k) \subseteq All /\ P(i) \subseteq All
      BY <1>7 DEF Upto
    <3>6. \A t \in Upto(k) : t \notin P(i)
      <4>1. ~(i <= k)
        BY <3>1
      <4>. QED BY <1>7, <4>1 DEF Upto
    <3>7. /\ IsFiniteSet(Upto(k)) /\ Counted(c, Upto(k))
          /\ IsFiniteSet(P(i)) /\ Counted(c, P(i))
      BY <1>2, <3>5, FS_Subset DEF Counted
    <3>8. Adds(c, c, Upto(k), c, P(i))
      <4>1. ASSUME NEW x \in Upto(k) \union P(i)
            PROVE  c[x] = (IF x \in Upto(k) THEN c[x] ELSE 0) + (IF x \in P(i) THEN c[x] ELSE 0)
        <5>1. c[x] \in Nat
          BY <3>7 DEF Counted
        <5>. QED BY <3>6, <5>1
      <4>. QED BY <4>1 DEF Adds
    <3>9. AddUp(c, Upto(k) \union P(i)) = AddUp(c, Upto(k)) + AddUp(c, P(i))
      BY <3>7, <3>8, AddUpAdds
    <3>10. Total(w, i) = Total(w, i - 1) + w[i]
      <4>1. i \in 1 .. Len(w)
        BY <1>5, <3>1
      <4>. QED BY <1>5, <4>1, TotalSteps
    <3>11. w[i] = AddUp(c, P(i))
      BY <1>4, <3>1
    <3>. QED BY <3>1, <3>2, <3>4, <3>9, <3>10, <3>11 DEF i
  <2>. HIDE DEF K
  <2>3. \A k \in Nat : k \in K
    BY <2>1, <2>2, NatInductive
  <2>4. N \in K /\ N <= N
    BY <1>1, <2>3
  <2>. QED BY <2>4 DEF K
<1>9. Upto(N) = All
  <2>1. \A t \in All : t.at <= N
    BY <1>1, <1>3
  <2>. QED BY <2>1
<1>. DEFINE Fold(h) == h = [s \in SUBSET DOMAIN clause |->
                              IF s = {} THEN 0
                              ELSE h[s \ {Max(s)}] + RelevanceTo(d, clause[Max(s)])]
<1>10. Relevance(d) = (CHOOSE h : Fold(h))[DOMAIN clause]
  <2>1. clause = q.musts \o q.shoulds
    BY DEF ScoredClauses
  <2>2. Relevance(d) = SumOf(clause, LAMBDA e : RelevanceTo(d, e))
    BY <2>1, Zenon DEF Relevance
  <2>. QED BY <2>2, Zenon DEF SumOf, FoldLeft, MapThenFoldSet
<1>11. ASSUME NEW h PROVE Fold(h) <=> Summing(h, w)
  <2>1. \A s \in SUBSET (1 .. N) :
          (IF s = {} THEN 0 ELSE h[s \ {Max(s)}] + RelevanceTo(d, clause[Max(s)]))
            = (IF s = {} THEN 0 ELSE h[s \ {Max(s)}] + w[Max(s)])
    <3>. SUFFICES ASSUME NEW s \in SUBSET (1 .. N), s # {}
                  PROVE  RelevanceTo(d, clause[Max(s)]) = w[Max(s)]
      OBVIOUS
    <3>1. Max(s) \in s
      BY <1>1, MaxOfPositions
    <3>. QED BY <1>6, <3>1
  <2>2. [s \in SUBSET (1 .. N) |->
           IF s = {} THEN 0 ELSE h[s \ {Max(s)}] + RelevanceTo(d, clause[Max(s)])]
          = [s \in SUBSET (1 .. N) |-> IF s = {} THEN 0 ELSE h[s \ {Max(s)}] + w[Max(s)]]
    BY <2>1
  <2>. QED BY <1>1, <1>5, <2>2 DEF Summing
<1>. HIDE DEF Fold
<1>12. /\ Summing(Sums(w), w)
       /\ \A h : Summing(h, w) => h[1 .. Len(w)] = Total(w, Len(w))
  BY <1>5, SummingIsTotal
<1>13. Fold(CHOOSE h : Fold(h))
  BY <1>11, <1>12
<1>14. Relevance(d) = Total(w, N)
  BY <1>1, <1>5, <1>10, <1>11, <1>12, <1>13
<1>15. AddUp(c, All) \in Nat
  BY <1>2, AddUpSteps
<1>. QED BY <1>8, <1>9, <1>14, <1>15 DEF c, All
(* All terms are summed for each candidate.                                *)
TermSums(D, s, clause, C, sc) ==
  /\ OfClause(D, clause, AllTerms(D, s, clause))
  /\ ToSet(sc) = ScoreSet(C, SumOver(D, clause, C, AllTerms(D, s, clause)))

(* They are when no entry waits.                                           *)
LEMMA ScoringEnds ==
  ASSUME NEW D, NEW s, Searchable(D, s), NEW clause, IsClause(clause),
         NEW C \in SUBSET (0 .. Len(D) - 1), NEW sc, ScoringInv(D, s, clause, << >>, C, sc)
  PROVE  TermSums(D, s, clause, C, sc)
<1>. DEFINE All == AllTerms(D, s, clause)
            val == SumOver(D, clause, C, All)
<1>1. PICK at : ScoringAt(D, s, clause, << >>, at, C, sc)
  BY DEF ScoringInv
<1>2. DoneTerms(D, s, clause, << >>, at) = All
  <2>1. \A k, f : ~OpenTurn(<< >>, at, k, f)
    BY DEF OpenTurn
  <2>. QED BY <2>1 DEF DoneTerms
<1>3. OfClause(D, clause, All) /\ sc = Scored(C, val)
  BY <1>1, <1>2 DEF ScoringAt
<1>4. IsCorpus(D) /\ Docs(C)
  <2>1. IsCorpus(D) /\ IsBatch(D)
    BY DEF Searchable, IsCorpus
  <2>. QED BY <2>1, IndexSets
<1>. HIDE DEF All
<1>5. val \in [C -> Int]
  <2>1. ASSUME NEW d \in C PROVE AddUp(Weigh(D, clause, d), All) \in Int
    <3>1. Counted(Weigh(D, clause, d), All) /\ IsFiniteSet(All)
      BY <1>3, <1>4, WeighCounted
    <3>. DEFINE a == AddUp(Weigh(D, clause, d), All)
    <3>2. a \in Nat
      BY <3>1, AddUpSteps
    <3>. QED BY <3>2
  <2>. QED BY <2>1 DEF SumOver
<1>. HIDE DEF val
<1>6. ToSet(sc) = ScoreSet(C, val)
  BY <1>3, <1>4, <1>5, ScoredSet
<1>. QED BY <1>3, <1>6 DEF TermSums, val, All

(* The searches that are ranked by BM25.                                   *)
BM25Inv(D, s, query, field, ph, td, C, sc) ==
  /\ ph = "bm25" => field = BM25 /\ ScoringInv(D, s, query.musts \o query.shoulds, td, C, sc)
  /\ ph \in {"scored", "resolved"} /\ field = BM25 =>
       TermSums(D, s, query.musts \o query.shoulds, C, sc)

ScoreInv == BM25Inv(docs, seg, q, view.field, phase, todo, bitmap, scores)

(* They start right.                                                       *)
LEMMA ScoreInit == Init => ScoreInv
  BY DEF Init, ScoreInv, BM25Inv

(* And each step keeps them right.                                         *)
LEMMA ScoreNext ==
  ASSUME SearchInv, FieldInv, ScoreInv, [Next]_vars
  PROVE  ScoreInv'
<1>. DEFINE C == q.musts \o q.shoulds
            Early == {"start", "musts", "shoulds", "filtered", "mustNots", "candidates",
                      "yield", "done", "left", "panicked", "field"}
<1>1. /\ Searchable(docs, seg) /\ bitmap \in SUBSET (0 .. Len(docs) - 1) /\ Docs(bitmap)
  <2>1. Searchable(docs, seg) /\ bitmap \in SUBSET (0 .. Len(docs) - 1)
    BY DEF SearchInv, AskedInv, FilterInv
  <2>. QED BY <2>1, IndexSets
<1>2. IsClause(C) /\ C = ScoredClauses
  <2>1. C = ScoredClauses
    BY DEF ScoredClauses
  <2>. QED BY <2>1, ScoredClausesAre
<1>3. BM25Inv(docs, seg, q, view.field, phase, todo, bitmap, scores)
  BY DEF ScoreInv
<1>4. ASSUME phase' \in Early PROVE ScoreInv'
  BY <1>4 DEF ScoreInv, BM25Inv
<1>. HIDE DEF C
<1>5. CASE UNCHANGED vars
  <2>1. /\ docs' = docs /\ seg' = seg /\ q' = q /\ view' = view /\ phase' = phase
        /\ todo' = todo /\ bitmap' = bitmap /\ scores' = scores
    BY <1>5 DEF vars
  <2>. QED BY <1>3, <2>1 DEF ScoreInv
<1>6. CASE StartFilter \/ EndMusts \/ EndShoulds \/ StartMustNots \/ EndMustNots \/ SearchAgain
  <2>1. phase' \in Early
    BY <1>6 DEF StartFilter, EndMusts, EndShoulds, StartMustNots, EndMustNots, SearchAgain
  <2>. QED BY <1>4, <2>1
<1>7. ASSUME NEW f \in DOMAIN seg.fields \union {NoField}, Turning(f)
      PROVE  ScoreInv'
  <2>1. CASE FilterMust(f) \/ FilterShould(f) \/ FilterMustNot(f)
    <3>1. phase' \in Early
      BY <2>1 DEF FilterMust, FilterShould, FilterMustNot
    <3>. QED BY <1>4, <3>1
  <2>2. CASE AccumulateBM25(f)
    <3>1. /\ phase = "bm25" /\ phase' = phase /\ bitmap' = bitmap
          /\ docs' = docs /\ seg' = seg /\ q' = q /\ view' = view
          /\ AtTurn(f) /\ todo' = AfterTurn(f)
          /\ \E widths \in Unrolls : scores' = Accumulate(f, widths)
      BY <2>2 DEF AccumulateBM25, Asked
    <3>2. PICK widths \in Unrolls : scores' = Accumulate(f, widths)
      BY <3>1
    <3>3. widths \in Seq(Nat \ {0})
      BY QueryAssumption
    <3>4. Queue(seg, todo, C, FALSE)
      BY <3>1 DEF SearchInv, FilterInv, C
    <3>5. todo # << >> /\ f \in Head(todo).turns /\ ~PanicsIn(seg, Head(todo).entry)
      BY <3>1, SearchOperators DEF AtTurn
    <3>6. view.field = BM25 /\ ScoringInv(docs, seg, C, todo, bitmap, scores)
      BY <1>3, <3>1 DEF BM25Inv, C
    <3>7. todo' = AfterIn(todo, f)
      BY <3>1, SearchOperators
    <3>8. ScoringInv(docs, seg, C, AfterIn(todo, f), bitmap, Accumulate(f, widths))
      BY <1>1, <1>2, <3>3, <3>4, <3>5, <3>6, ScoringStep
    <3>9. ScoringInv(docs, seg, C, todo', bitmap, scores')
      BY <3>2, <3>7, <3>8
    <3>10. BM25Inv(docs, seg, q, view.field, "bm25", todo', bitmap, scores')
      BY <3>6, <3>9 DEF BM25Inv, C
    <3>. QED BY <3>1, <3>10 DEF ScoreInv
  <2>. QED BY <1>7, <2>1, <2>2 DEF Turning
<1>8. CASE Panic
  <2>1. phase' \in Early
    BY <1>8 DEF Panic
  <2>. QED BY <1>4, <2>1
<1>9. CASE StartBM25
  <2>1. /\ phase' = "bm25" /\ view.field = BM25 /\ bitmap' = bitmap
        /\ docs' = docs /\ seg' = seg /\ q' = q /\ view' = view
        /\ scores' = NewScoring(bitmap) /\ todo' = Pass(ScoredClauses, FALSE)
    BY <1>9 DEF StartBM25, Asked
  <2>2. todo' = PassIn(seg, C, FALSE)
    BY <1>2, <2>1, SearchOperators
  <2>3. ScoringInv(docs, seg, C, PassIn(seg, C, FALSE), bitmap, NewScoring(bitmap))
    BY <1>1, <1>2, ScoringStarts
  <2>4. ScoringInv(docs, seg, C, todo', bitmap, scores')
    BY <2>1, <2>2, <2>3
  <2>5. BM25Inv(docs, seg, q, view.field, "bm25", todo', bitmap, scores')
    BY <2>1, <2>4 DEF BM25Inv, C
  <2>. QED BY <2>1, <2>5 DEF ScoreInv
<1>10. CASE EndBM25
  <2>1. /\ phase = "bm25" /\ todo = << >> /\ phase' = "scored" /\ bitmap' = bitmap
        /\ docs' = docs /\ seg' = seg /\ q' = q /\ view' = view
        /\ scores' = scores /\ todo' = todo
    BY <1>10 DEF EndBM25, Asked
  <2>2. ScoringInv(docs, seg, C, << >>, bitmap, scores)
    BY <1>3, <2>1 DEF BM25Inv, C
  <2>3. TermSums(docs, seg, C, bitmap, scores)
    BY <1>1, <1>2, <2>2, ScoringEnds
  <2>4. BM25Inv(docs, seg, q, view.field, "scored", todo, bitmap, scores)
    BY <2>3 DEF BM25Inv, C
  <2>. QED BY <2>1, <2>4 DEF ScoreInv
<1>11. CASE StartField
  <2>1. /\ view' = view /\ view.field # BM25 /\ phase' \in {"field", "scored"}
    BY <1>11 DEF StartField, Asked
  <2>. QED BY <2>1 DEF ScoreInv, BM25Inv
<1>12. CASE ScoreByToken
  <2>1. phase' \in Early
    BY <1>12 DEF ScoreByToken
  <2>. QED BY <1>4, <2>1
<1>13. CASE EndField
  <2>1. phase = "field" /\ phase' = "scored" /\ view' = view
    BY <1>13 DEF EndField, Asked
  <2>2. view.field # BM25
    <3>1. view.field \in DOMAIN seg.fields
      BY <2>1 DEF FieldInv, WalkInv
    <3>. QED BY <3>1, NoSuchField
  <2>. QED BY <2>1, <2>2 DEF ScoreInv, BM25Inv
<1>14. CASE ResolveScores
  <2>1. /\ phase = "scored" /\ phase' = "resolved" /\ bitmap' = bitmap
        /\ docs' = docs /\ seg' = seg /\ q' = q /\ view' = view /\ todo' = todo
    BY <1>14 DEF ResolveScores, Asked
  <2>2. ASSUME view.field = BM25 PROVE TermSums(docs, seg, C, bitmap, scores')
    <3>. DEFINE S == ScoreSet(bitmap, SumOver(docs, C, bitmap, AllTerms(docs, seg, C)))
    <3>1. OfClause(docs, C, AllTerms(docs, seg, C)) /\ ToSet(scores) = S
      BY <1>3, <2>1, <2>2 DEF BM25Inv, TermSums, C
    <3>2. IsFiniteSet(S)
      BY <1>1, FiniteScores
    <3>3. ToSet(scores') = S
      <4>. HIDE DEF S
      <4>1. IsFiniteSet(ToSet(scores))
        BY <3>1, <3>2
      <4>2. ToSet(scores') = ToSet(scores)
        BY <1>14, <4>1, ResolvedSame
      <4>. QED BY <3>1, <4>2
    <3>. QED BY <3>1, <3>3 DEF TermSums
  <2>3. BM25Inv(docs, seg, q, view.field, "resolved", todo, bitmap, scores')
    BY <2>2 DEF BM25Inv, C
  <2>. QED BY <2>1, <2>3 DEF ScoreInv
<1>15. CASE SkipResults \/ Yield \/ Return \/ Break
  <2>1. phase' \in Early
    BY <1>15 DEF SkipResults, Yield, Return, Break
  <2>. QED BY <1>4, <2>1
<1>. QED BY <1>5, <1>6, <1>7, <1>8, <1>9, <1>10, <1>11, <1>12, <1>13, <1>14, <1>15 DEF Next

(* The whole of a search, to the scores.                                   *)
LEMMA ScoreAlways == Spec => [](SearchInv /\ FieldInv /\ ScoreInv)
<1>1. SearchInv /\ FieldInv /\ ScoreInv /\ [Next]_vars => SearchInv' /\ FieldInv' /\ ScoreInv'
  BY SearchNext, FieldNext, ScoreNext
<1>. QED BY <1>1, SearchInit, FieldInit, ScoreInit, PTL DEF Spec

(* BM25Score gives every candidate what it is worth, for any documents and *)
(* any query: the frequency and the length of each term in that document,  *)
(* found by cursors in dense and in sparse tables, batch by batch, each    *)
(* term of the Musts and Shoulds once, whatever order the fields come in   *)
(* and whichever accumulator is used.                                      *)
THEOREM BM25Exact == Spec => []ScoresExact
<1>1. SearchInv /\ ScoreInv => ScoresExact
  <2>. SUFFICES ASSUME SearchInv, ScoreInv, phase \in {"scored", "resolved"}, view.field = BM25,
                       ~AnyTooHigh
                PROVE  ToSet(scores) = {[index |-> d, value |-> Relevance(d)] : d \in bitmap}
    BY DEF ScoresExact
  <2>. DEFINE C == ScoredClauses
              val == SumOver(docs, C, bitmap, AllTerms(docs, seg, C))
  <2>1. C = q.musts \o q.shoulds
    BY DEF ScoredClauses
  <2>. HIDE DEF C
  <2>2. OfClause(docs, C, AllTerms(docs, seg, C)) /\ ToSet(scores) = ScoreSet(bitmap, val)
    BY <2>1 DEF ScoreInv, BM25Inv, TermSums
  <2>3. ASSUME NEW d \in bitmap PROVE val[d] = Relevance(d)
    <3>1. d \in 0 .. Len(docs) - 1
      BY DEF SearchInv, FilterInv
    <3>2. AddUp(Weigh(docs, C, d), AllTerms(docs, seg, C)) = Relevance(d)
      BY <2>2, <3>1, RelevanceIs DEF C
    <3>. QED BY <3>2 DEF SumOver
  <2>. HIDE DEF val
  <2>. QED BY <2>2, <2>3 DEF ScoreSet
<1>. QED BY <1>1, ScoreAlways, PTL
-----------------------------------------------------------------------------
(***************************************************************************)
(* Tables of scores: at most one for each document.                        *)
(***************************************************************************)
DocScore(D) == [index : 0 .. Len(D) - 1, value : Nat]

IsTable(D, sc) ==
  /\ sc \in Seq(DocScore(D)) /\ Len(sc) \in Nat /\ DOMAIN sc = 1 .. Len(sc)
  /\ \A i, j \in 1 .. Len(sc) : sc[i].index = sc[j].index => i = j

(* The scores fall.                                                        *)
Falls(sc) == \A i, j \in 1 .. Len(sc) : i < j => sc[i].value >= sc[j].value

(* There is one for each of C.                                             *)
EachScored(D, C, sc) ==
  /\ IsTable(D, sc) /\ Len(sc) = Cardinality(C)
  /\ {sc[k].index : k \in DOMAIN sc} = C

(* A table is made with one for each candidate.                            *)
LEMMA ScoredTable ==
  ASSUME NEW D, Len(D) \in Nat, NEW C \in SUBSET (0 .. Len(D) - 1), Docs(C), NEW val,
         \A d \in C : val[d] \in Nat
  PROVE  EachScored(D, C, Scored(C, val))
<1>. DEFINE N == Cardinality(C)
            at == Ascending(C)
            t == Scored(C, val)
            R == DocScore(D)
<1>1. /\ N \in Nat /\ at \in [1 .. N -> C]
      /\ \A d \in C : Place(C, d) \in 1 .. N /\ at[Place(C, d)] = d
      /\ \A k \in 1 .. N : Place(C, at[k]) = k
  BY Places
<1>2. t = [k \in 1 .. N |-> [index |-> at[k], value |-> val[at[k]]]]
  BY ScoredSays
<1>. HIDE DEF N, at, t
<1>3. \A k \in 1 .. N : at[k] \in C /\ at[k] \in 0 .. Len(D) - 1 /\ val[at[k]] \in Nat
  BY <1>1
<1>4. \A k \in 1 .. N : t[k] \in R /\ t[k].index = at[k]
  BY <1>2, <1>3 DEF DocScore
<1>5. t \in [1 .. N -> R]
  <2>. HIDE DEF R
  <2>. QED BY <1>2, <1>4
<1>6. t \in Seq(R) /\ Len(t) = N /\ DOMAIN t = 1 .. N
  <2>. HIDE DEF R
  <2>. QED BY <1>1, <1>5, FunctionIsSeq
<1>7. \A i, j \in 1 .. N : t[i].index = t[j].index => i = j
  <2>. TAKE i, j \in 1 .. N
  <2>. HAVE t[i].index = t[j].index
  <2>1. at[i] = at[j]
    BY <1>4
  <2>2. Place(C, at[i]) = i /\ Place(C, at[j]) = j
    BY <1>1
  <2>. QED BY <2>1, <2>2
<1>8. {t[k].index : k \in DOMAIN t} = C
  <2>1. \A k \in DOMAIN t : t[k].index \in C
    BY <1>3, <1>4, <1>6
  <2>2. \A d \in C : Place(C, d) \in DOMAIN t /\ t[Place(C, d)].index = d
    BY <1>1, <1>4, <1>6
  <2>. QED BY <2>1, <2>2
<1>9. IsTable(D, t)
  BY <1>1, <1>6, <1>7 DEF IsTable
<1>. QED BY <1>6, <1>8, <1>9 DEF N, t, EachScored

(* So there is while BM25Score adds the sums up.                           *)
LEMMA SumsTable ==
  ASSUME NEW D, NEW s, Searchable(D, s), NEW clause, IsClause(clause),
         NEW C \in SUBSET (0 .. Len(D) - 1), NEW td, NEW sc, ScoringInv(D, s, clause, td, C, sc)
  PROVE  EachScored(D, C, sc)
<1>1. PICK at : ScoringAt(D, s, clause, td, at, C, sc)
  BY DEF ScoringInv
<1>. DEFINE A == DoneTerms(D, s, clause, td, at)
            val == SumOver(D, clause, C, A)
<1>2. OfClause(D, clause, A) /\ sc = Scored(C, val)
  BY <1>1 DEF ScoringAt
<1>3. IsCorpus(D) /\ Len(D) \in Nat
  BY BatchSets DEF Searchable, IsCorpus
<1>. HIDE DEF A
<1>4. IsFiniteSet(A)
  BY <1>2 DEF OfClause
<1>5. ASSUME NEW d \in C PROVE val[d] \in Nat
  <2>1. Counted(Weigh(D, clause, d), A)
    BY <1>2, <1>3, WeighCounted
  <2>2. AddUp(Weigh(D, clause, d), A) \in Nat
    BY <1>4, <2>1, AddUpSteps
  <2>. QED BY <2>2 DEF SumOver
<1>6. Docs(C)
  BY IndexSets
<1>. HIDE DEF val
<1>7. EachScored(D, C, Scored(C, val))
  BY <1>3, <1>5, <1>6, ScoredTable
<1>. QED BY <1>2, <1>7

(* And while FieldScore walks.                                             *)
LEMMA WalkTable ==
  ASSUME NEW D, NEW s, Searchable(D, s), NEW f, NEW C \in SUBSET (0 .. Len(D) - 1),
         NEW P, NEW a, NEW w, NEW sc, WalkInv(D, s, f, C, P, a, w, sc)
  PROVE  /\ EachScored(D, C, sc)
         /\ P \subseteq C /\ a \in 0 .. Cardinality(C) /\ w \in Nat
<1>. DEFINE A == OnLists(s, f, C, w)
            val == RankedIn(D, f, C, A)
<1>1. /\ f \in DOMAIN s.fields /\ w \in 0 .. Len(s.fields[f].tokens)
      /\ P = C \ A /\ a = Cardinality(A) /\ sc = Scored(C, val)
  BY DEF WalkInv
<1>2. A \subseteq C
  BY DEF OnLists
<1>3. Docs(C) /\ Len(D) \in Nat
  BY IndexSets, BatchSets DEF Searchable, IsCorpus
<1>. HIDE DEF A
<1>4. a \in 0 .. Cardinality(C)
  <2>1. IsFiniteSet(C) /\ Cardinality(C) \in Nat
    BY <1>3, FS_CardinalityType DEF Docs
  <2>2. IsFiniteSet(A) /\ Cardinality(A) <= Cardinality(C)
    BY <1>2, <2>1, FS_Subset
  <2>3. Cardinality(A) \in Nat
    BY <2>2, FS_CardinalityType
  <2>. QED BY <1>1, <2>1, <2>2, <2>3
<1>5. \A d \in C : val[d] \in Nat
  BY <1>3, RankedSays
<1>. HIDE DEF val
<1>6. EachScored(D, C, Scored(C, val))
  BY <1>3, <1>5, ScoredTable
<1>7. Len(s.fields[f].tokens) \in Nat
  BY <1>1, FieldTokens, SortedSays
<1>. QED BY <1>1, <1>4, <1>6, <1>7
(* A table has finitely many scores.                                       *)
LEMMA TableFinite ==
  ASSUME NEW D, NEW t, IsTable(D, t)
  PROVE  IsFiniteSet(ToSet(t))
<1>. DEFINE n == Len(t)
            h == t
            I == 1 .. n
<1>1. n \in Nat /\ DOMAIN t = I
  BY DEF IsTable
<1>2. I \in SUBSET (1 .. n)
  OBVIOUS
<1>3. ToSet(t) = {h[k] : k \in I}
  BY <1>1 DEF ToSet
<1>. HIDE DEF h, I, n
<1>4. IsFiniteSet({h[k] : k \in I})
  BY <1>1, <1>2, FiniteImage
<1>. QED BY <1>3, <1>4

(* Sorting keeps a table.                                                  *)
LEMMA ResolvedTable ==
  ASSUME NEW D, IsTable(D, scores), ResolveScores
  PROVE  IsTable(D, scores') /\ Falls(scores') /\ ToSet(scores') = ToSet(scores)
<1>. DEFINE n == Len(scores)
            R == DocScore(D)
<1>1. /\ scores \in Seq(R) /\ n \in Nat /\ DOMAIN scores = 1 .. n
      /\ \A i, j \in 1 .. n : scores[i].index = scores[j].index => i = j
  BY DEF IsTable
<1>. HIDE DEF n, R
<1>2. ToSet(scores) = {scores[k] : k \in 1 .. n}
  BY <1>1 DEF ToSet
<1>4. IsFiniteSet(ToSet(scores))
  BY TableFinite
<1>5. /\ ToSet(scores') = ToSet(scores)
      /\ DOMAIN scores' = 1 .. Len(scores') /\ scores' \in Seq(ToSet(scores))
      /\ \A i, j \in 1 .. Len(scores') : scores'[i] = scores'[j] => i = j
      /\ \A i, j \in 1 .. Len(scores') : i < j => scores'[i].value >= scores'[j].value
  BY <1>4, ResolvedSame
<1>6. \A x \in ToSet(scores) : x \in R
  <2>1. \A k \in 1 .. n : scores[k] \in R
    BY <1>1
  <2>. QED BY <1>2, <2>1
<1>7. scores' \in Seq(R) /\ Len(scores') \in Nat
  <2>. DEFINE S == ToSet(scores)
              t == scores'
  <2>1. t \in Seq(S) /\ S \subseteq R
    BY <1>5, <1>6
  <2>. HIDE DEF S, t
  <2>2. t \in Seq(R) /\ Len(t) \in Nat
    BY <2>1
  <2>. QED BY <2>2 DEF t
<1>8. \A k \in 1 .. Len(scores') : \E m \in 1 .. n : scores'[k] = scores[m]
  <2>1. \A k \in 1 .. Len(scores') : scores'[k] \in ToSet(scores)
    BY <1>5, <1>7
  <2>. QED BY <1>2, <2>1
<1>9. ASSUME NEW i \in 1 .. Len(scores'), NEW j \in 1 .. Len(scores'),
             scores'[i].index = scores'[j].index
      PROVE  i = j
  <2>1. PICK a \in 1 .. n : scores'[i] = scores[a]
    BY <1>8
  <2>2. PICK b \in 1 .. n : scores'[j] = scores[b]
    BY <1>8
  <2>3. a = b
    BY <1>1, <1>9, <2>1, <2>2
  <2>. QED BY <1>5, <2>1, <2>2, <2>3
<1>10. IsTable(D, scores')
  BY <1>5, <1>7, <1>9 DEF IsTable, R
<1>. QED BY <1>5, <1>10 DEF Falls

(* What is skipped is the first n scores, or the last ones in reverse.     *)
Skipped(D, t, n, reverse, sc) ==
  /\ IsTable(D, sc)
  /\ Len(sc) = Len(t) - (IF n < Len(t) THEN n ELSE Len(t))
  /\ \A k \in 1 .. Len(sc) : sc[k] = t[IF reverse THEN k ELSE k + (Len(t) - Len(sc))]

(* The rest of a table is a table.                                         *)
LEMMA SkipLeaves ==
  ASSUME NEW D, NEW t, IsTable(D, t), NEW n \in Nat, NEW reverse \in BOOLEAN,
         reverse => n <= Len(t)
  PROVE  Skipped(D, t, n, reverse, Skip(t, n, reverse))
<1>. DEFINE N == Len(t)
            R == DocScore(D)
            c == IF n < N THEN n ELSE N
            lo == IF reverse THEN 1 ELSE c + 1
            hi == IF reverse THEN N - n ELSE N
            m == N - c
            g == IF reverse THEN 0 ELSE c
            sc == SubSeq(t, lo, hi)
<1>1. /\ t \in Seq(R) /\ N \in Nat /\ DOMAIN t = 1 .. N
      /\ \A i, j \in 1 .. N : t[i].index = t[j].index => i = j
  BY DEF IsTable
<1>2. Skip(t, n, reverse) = sc
  BY DEF Skip, Rest
<1>. HIDE DEF R
<1>3. /\ c \in 0 .. N /\ m \in Nat /\ (reverse => n = c)
      /\ lo \in Nat /\ hi \in Nat /\ 1 <= lo /\ hi <= N /\ hi - lo + 1 = m /\ lo = g + 1
      /\ g \in Nat /\ g + m <= N
  <2>1. reverse => n <= N
    OBVIOUS
  <2>2. N \in Nat
    BY <1>1
  <2>. HIDE DEF N
  <2>3. CASE reverse
    BY <2>1, <2>2, <2>3
  <2>4. CASE ~reverse
    BY <2>2, <2>4
  <2>. QED BY <2>3, <2>4
<1>. HIDE DEF lo, hi, c, m, N, g
<1>4. N - m = c
  BY <1>1, <1>3 DEF m
<1>5. \A k \in 1 .. m : k + g \in 1 .. N /\ lo + k - 1 = k + g
  BY <1>1, <1>3
<1>6. sc \in Seq(R) /\ Len(sc) = m /\ DOMAIN sc = 1 .. m /\ \A k \in 1 .. m : sc[k] = t[lo + k - 1]
  <2>1. \A i \in lo .. hi : i \in 1 .. N
    BY <1>1, <1>3
  <2>2. \A i \in lo .. hi : t[i] \in R
    BY <1>1, <2>1 DEF N
  <2>3. sc \in Seq(R)
    BY <1>1, <1>3, <2>2 DEF N
  <2>4. Len(sc) = m /\ DOMAIN sc = 1 .. m
    BY <1>1, <1>3, <1>4 DEF N
  <2>5. \A k \in 1 .. m : sc[k] = t[lo + k - 1]
    BY <1>1, <1>3, <2>4 DEF N
  <2>. QED BY <2>3, <2>4, <2>5
<1>. HIDE DEF sc
<1>7. \A k \in 1 .. m : sc[k] = t[k + g]
  BY <1>5, <1>6
<1>8. \A i, j \in 1 .. m : sc[i].index = sc[j].index => i = j
  <2>. TAKE i, j \in 1 .. m
  <2>. HAVE sc[i].index = sc[j].index
  <2>1. i + g \in 1 .. N /\ j + g \in 1 .. N
    BY <1>5
  <2>2. t[i + g].index = t[j + g].index
    BY <1>7
  <2>3. i + g = j + g
    BY <1>1, <2>1, <2>2
  <2>. QED BY <1>3, <2>3
<1>9. IsTable(D, sc)
  BY <1>3, <1>6, <1>8 DEF IsTable, R
<1>10. \A k \in 1 .. Len(sc) : sc[k] = t[IF reverse THEN k ELSE k + (Len(t) - Len(sc))]
  <2>1. ASSUME NEW k \in 1 .. Len(sc) PROVE sc[k] = t[IF reverse THEN k ELSE k + (N - m)]
    BY <1>3, <1>4, <1>6, <1>7 DEF g
  <2>. QED BY <1>6, <2>1 DEF N
<1>. QED BY <1>2, <1>6, <1>9, <1>10 DEF Skipped, m, c, N-----------------------------------------------------------------------------
(***************************************************************************)
(* The state of a search.                                                  *)
(***************************************************************************)
Filtering == {"start", "musts", "shoulds", "filtered", "mustNots", "candidates"}
Reading == {"yield", "done", "left"}
Phases == Filtering \union {"bm25", "field", "scored", "resolved", "panicked"} \union Reading

WalkedIn(C, P, a, w) == P \subseteq C /\ a \in 0 .. Cardinality(C) /\ w \in Nat

StateInv ==
  /\ phase \in Phases /\ used \in BOOLEAN
  /\ IsTable(docs, scores)
  /\ phase = "resolved" => Falls(scores)
  /\ WalkedIn(bitmap, pending, assigned, walked)
  /\ yielded \in Seq(ToSet(seg.ids))
  /\ phase \notin Reading => yielded = << >>

(* No candidate has a score yet, nothing has been walked over.             *)
LEMMA StateInit == SearchInv /\ Init => StateInv
<1>. SUFFICES ASSUME SearchInv, Init PROVE StateInv
  OBVIOUS
<1>1. /\ phase = "start" /\ used = FALSE /\ scores = << >> /\ pending = {} /\ assigned = 0
      /\ walked = 0 /\ bitmap = {} /\ yielded = << >>
  BY DEF Init
<1>2. IsTable(docs, << >>)
  BY DEF IsTable
<1>3. WalkedIn({}, {}, 0, 0)
  BY FS_EmptySet DEF WalkedIn
<1>4. << >> \in Seq(ToSet(seg.ids))
  <2>. DEFINE V == ToSet(seg.ids)
  <2>. HIDE DEF V
  <2>1. << >> \in Seq(V)
    OBVIOUS
  <2>. QED BY <2>1 DEF V
<1>5. phase \in Phases
  BY <1>1 DEF Phases, Filtering
<1>6. phase \notin Reading /\ phase # "resolved" /\ used \in BOOLEAN
  BY <1>1 DEF Reading
<1>. QED BY <1>1, <1>2, <1>3, <1>4, <1>5, <1>6 DEF StateInv

(* What is read is a score of the table.                                   *)
LEMMA NextScoreIs ==
  ASSUME NEW D, IsTable(D, scores), yielded \in Seq(ToSet(seg.ids)), Len(yielded) < Len(scores)
  PROVE  /\ \E k \in 1 .. Len(scores) : NextScore = scores[k]
         /\ NextScore.index \in 0 .. Len(D) - 1 /\ NextScore.value \in Nat
<1>. DEFINE n == Len(scores)
            m == Len(yielded)
            R == DocScore(D)
            V == ToSet(seg.ids)
<1>1. scores \in Seq(R) /\ n \in Nat
  BY DEF IsTable
<1>2. m \in Nat
  <2>1. yielded \in Seq(V)
    OBVIOUS
  <2>. HIDE DEF V
  <2>. QED BY <2>1
<1>. HIDE DEF V, R
<1>3. PICK k \in 1 .. n : NextScore = scores[k]
  <2>1. NextScore = IF view.reverse THEN scores[n - m] ELSE scores[m + 1]
    BY DEF NextScore
  <2>2. m < n
    OBVIOUS
  <2>. HIDE DEF m, n
  <2>3. n - m \in 1 .. n /\ m + 1 \in 1 .. n
    BY <1>1, <1>2, <2>2
  <2>. QED BY <2>1, <2>3
<1>4. scores[k] \in R
  BY <1>1
<1>5. scores[k].index \in 0 .. Len(D) - 1 /\ scores[k].value \in Nat
  BY <1>4 DEF R, DocScore
<1>. QED BY <1>3, <1>5

(* The identifiers are those of the documents.                             *)
LEMMA IdsAre ==
  ASSUME NEW D, NEW s, Searchable(D, s)
  PROVE  /\ Len(D) \in Nat /\ DOMAIN s.ids = 1 .. Len(D)
         /\ \A d \in 0 .. Len(D) - 1 : /\ d + 1 \in 1 .. Len(D) /\ s.ids[d + 1] = D[d + 1].id
                                       /\ s.ids[d + 1] \in ToSet(s.ids)
<1>1. Len(D) \in Nat /\ DOMAIN D = 1 .. Len(D)
  BY BatchSets DEF Searchable, IsCorpus
<1>2. s.ids = [k \in DOMAIN D |-> D[k].id]
  BY DEF Searchable, Indexes
<1>3. \A d \in 0 .. Len(D) - 1 : d + 1 \in 1 .. Len(D)
  BY <1>1
<1>4. \A d \in 0 .. Len(D) - 1 : s.ids[d + 1] = D[d + 1].id /\ s.ids[d + 1] \in ToSet(s.ids)
  BY <1>1, <1>2, <1>3 DEF ToSet
<1>. QED BY <1>1, <1>2, <1>3, <1>4

(* The candidates that wait for a token, and how many do not.              *)
LEMMA WalkedNext ==
  ASSUME SearchInv', FieldInv', WalkedIn(bitmap, pending, assigned, walked), Next
  PROVE  WalkedIn(bitmap, pending, assigned, walked)'
<1>1. Searchable(docs', seg') /\ bitmap' \in SUBSET (0 .. Len(docs') - 1)
  BY DEF SearchInv, AskedInv, FilterInv
<1>2. Docs(bitmap')
  BY <1>1, IndexSets
<1>3. CASE phase' \in Filtering
  <2>1. pending' = {} /\ assigned' = 0 /\ walked' = 0
    BY <1>3 DEF FieldInv, Filtering
  <2>2. Cardinality(bitmap') \in Nat
    BY <1>2, FS_CardinalityType DEF Docs
  <2>. QED BY <2>1, <2>2 DEF WalkedIn
<1>4. CASE phase' = "field"
  <2>1. WalkInv(docs', seg', view'.field, bitmap', pending', assigned', walked', scores')
    BY <1>4 DEF FieldInv
  <2>2. pending' \subseteq bitmap' /\ assigned' \in 0 .. Cardinality(bitmap') /\ walked' \in Nat
    BY <1>1, <2>1, WalkTable
  <2>. QED BY <2>2 DEF WalkedIn
<1>5. CASE phase' \notin Filtering /\ phase' # "field"
  <2>1. ASSUME NEW f, Turning(f)
        PROVE  bitmap' = bitmap /\ pending' = pending /\ assigned' = assigned /\ walked' = walked
    BY <1>5, <2>1 DEF Turning, FilterMust, FilterShould, FilterMustNot, AccumulateBM25, FieldVars, Filtering
  <2>2. bitmap' = bitmap /\ pending' = pending /\ assigned' = assigned /\ walked' = walked
    BY <1>5, <2>1 DEF Next, StartFilter, EndMusts, EndShoulds, StartMustNots, EndMustNots, Panic,
         StartBM25, EndBM25, StartField, ScoreByToken, EndField, ResolveScores, SearchAgain,
         SkipResults, Yield, Return, Break, FieldVars, Filtering
  <2>. QED BY <2>2 DEF WalkedIn
<1>. QED BY <1>3, <1>4, <1>5
(* Each step keeps the table of scores.                                    *)
LEMMA TableNext ==
  ASSUME SearchInv, SearchInv', FieldInv', ScoreInv', StateInv, Next
  PROVE  IsTable(docs, scores)' /\ (phase' = "resolved" => Falls(scores'))
<1>1. Searchable(docs', seg') /\ bitmap' \in SUBSET (0 .. Len(docs') - 1)
  BY DEF SearchInv, AskedInv, FilterInv
<1>2. IsTable(docs, scores)
  BY DEF StateInv
<1>3. docs' = docs
  <2>1. ASSUME NEW f, Turning(f) PROVE docs' = docs
    BY <2>1 DEF Turning, FilterMust, FilterShould, FilterMustNot, AccumulateBM25, Asked
  <2>. QED BY <2>1 DEF Next, StartFilter, EndMusts, EndShoulds, StartMustNots, EndMustNots, Panic,
         StartBM25, EndBM25, StartField, ScoreByToken, EndField, ResolveScores, SearchAgain,
         SkipResults, Yield, Return, Break, Asked
<1>4. CASE phase' = "bm25"
  <2>. DEFINE C == q'.musts \o q'.shoulds
  <2>1. ScoringInv(docs', seg', C, todo', bitmap', scores')
    BY <1>4 DEF ScoreInv, BM25Inv
  <2>2. IsClause(C)
    <3>1. IsClause(q'.musts) /\ IsClause(q'.shoulds)
      BY DEF SearchInv, AskedInv
    <3>. QED BY <3>1, ClausesJoin
  <2>. HIDE DEF C
  <2>3. EachScored(docs', bitmap', scores')
    BY <1>1, <2>1, <2>2, SumsTable
  <2>. QED BY <1>4, <2>3 DEF EachScored
<1>5. CASE phase' = "field"
  <2>1. WalkInv(docs', seg', view'.field, bitmap', pending', assigned', walked', scores')
    BY <1>5 DEF FieldInv
  <2>2. EachScored(docs', bitmap', scores')
    BY <1>1, <2>1, WalkTable
  <2>. QED BY <1>5, <2>2 DEF EachScored
<1>6. CASE ResolveScores
  <2>1. IsTable(docs, scores') /\ Falls(scores')
    BY <1>2, <1>6, ResolvedTable
  <2>. QED BY <1>3, <2>1
<1>7. CASE SkipResults
  <2>1. phase = "resolved" /\ phase' \in {"panicked", "yield"}
    BY <1>7 DEF SkipResults
  <2>2. CASE scores' = scores
    BY <1>2, <1>3, <2>1, <2>2
  <2>3. CASE scores' # scores
    <3>1. view.skip \in Nat /\ view.reverse \in BOOLEAN
      BY SearchAsked DEF SearchInv
    <3>2. scores' = Skip(scores, view.skip, view.reverse) /\ ~(view.reverse /\ view.skip > Len(scores))
      BY <1>7, <2>3 DEF SkipResults
    <3>3. Len(scores) \in Nat
      BY <1>2 DEF IsTable
    <3>4. view.reverse => view.skip <= Len(scores)
      BY <3>1, <3>2, <3>3
    <3>5. Skipped(docs, scores, view.skip, view.reverse, Skip(scores, view.skip, view.reverse))
      BY <1>2, <3>1, <3>4, SkipLeaves
    <3>6. IsTable(docs, scores')
      BY <3>2, <3>5 DEF Skipped
    <3>. QED BY <1>3, <2>1, <3>6
  <2>. QED BY <2>2, <2>3
<1>8. CASE ~ResolveScores /\ ~SkipResults /\ phase' \notin {"bm25", "field"}
  <2>1. ASSUME NEW f, Turning(f) PROVE scores' = scores /\ phase' # "resolved"
    BY <1>8, <2>1 DEF Turning, FilterMust, FilterShould, FilterMustNot, AccumulateBM25
  <2>2. scores' = scores /\ phase' # "resolved"
    BY <1>8, <2>1 DEF Next, StartFilter, EndMusts, EndShoulds, StartMustNots, EndMustNots, Panic,
         StartBM25, EndBM25, StartField, ScoreByToken, EndField, SearchAgain, Yield, Return, Break
  <2>. QED BY <1>2, <1>3, <2>2
<1>. QED BY <1>4, <1>5, <1>6, <1>7, <1>8

(* Each step keeps the state typed.                                        *)
LEMMA StateNext ==
  ASSUME SearchInv, SearchInv', FieldInv', ScoreInv', StateInv, [Next]_vars
  PROVE  StateInv'
<1>1. CASE UNCHANGED vars
  BY <1>1 DEF StateInv, vars, IsTable, DocScore, Falls, WalkedIn
<1>2. CASE Next
  <2>1. IsTable(docs, scores)' /\ (phase' = "resolved" => Falls(scores)')
    BY <1>2, TableNext DEF Falls
  <2>2. WalkedIn(bitmap, pending, assigned, walked)'
    BY <1>2, WalkedNext DEF StateInv
  <2>3. phase' \in Phases /\ used' \in BOOLEAN
    <3>1. phase \in Phases /\ used \in BOOLEAN
      BY DEF StateInv
    <3>2. ASSUME NEW f, Turning(f) PROVE phase' = phase /\ used' = used
      BY <3>2 DEF Turning, FilterMust, FilterShould, FilterMustNot, AccumulateBM25, Asked
    <3>. QED BY <1>2, <3>1, <3>2 DEF Next, StartFilter, EndMusts, EndShoulds, StartMustNots,
           EndMustNots, Panic, StartBM25, EndBM25, StartField, ScoreByToken, EndField,
           ResolveScores, SearchAgain, SkipResults, Yield, Return, Break, Asked, Phases, Filtering,
           Reading
  <2>4. seg' = seg
    <3>1. ASSUME NEW f, Turning(f) PROVE seg' = seg
      BY <3>1 DEF Turning, FilterMust, FilterShould, FilterMustNot, AccumulateBM25, Asked
    <3>. QED BY <1>2, <3>1 DEF Next, StartFilter, EndMusts, EndShoulds, StartMustNots, EndMustNots,
           Panic, StartBM25, EndBM25, StartField, ScoreByToken, EndField, ResolveScores,
           SearchAgain, SkipResults, Yield, Return, Break, Asked
  <2>5. CASE Yield
    <3>1. /\ phase = "yield" /\ phase' = phase /\ Len(yielded) < Len(scores)
          /\ yielded' = Append(yielded, seg.ids[NextScore.index + 1])
      BY <2>5 DEF Yield
    <3>2. IsTable(docs, scores) /\ yielded \in Seq(ToSet(seg.ids))
      BY DEF StateInv
    <3>3. NextScore.index \in 0 .. Len(docs) - 1
      BY <3>1, <3>2, NextScoreIs
    <3>4. Searchable(docs, seg)
      BY DEF SearchInv, AskedInv
    <3>5. seg.ids[NextScore.index + 1] \in ToSet(seg.ids)
      BY <3>3, <3>4, IdsAre
    <3>6. yielded' \in Seq(ToSet(seg.ids))
      <4>. DEFINE V == ToSet(seg.ids)
      <4>. HIDE DEF V
      <4>1. Append(yielded, seg.ids[NextScore.index + 1]) \in Seq(V)
        BY <3>2, <3>5 DEF V
      <4>. QED BY <3>1, <4>1 DEF V
    <3>7. phase' \in Reading
      BY <3>1 DEF Reading
    <3>. QED BY <2>1, <2>2, <2>3, <2>4, <3>6, <3>7 DEF StateInv
  <2>6. CASE ~Yield
    <3>1. ASSUME NEW f, Turning(f) PROVE yielded' = yielded /\ phase' = phase
      BY <3>1 DEF Turning, FilterMust, FilterShould, FilterMustNot, AccumulateBM25
    <3>2. yielded' = yielded
      BY <1>2, <2>6, <3>1 DEF Next, StartFilter, EndMusts, EndShoulds, StartMustNots, EndMustNots,
           Panic, StartBM25, EndBM25, StartField, ScoreByToken, EndField, ResolveScores,
           SearchAgain, SkipResults, Return, Break
    <3>3. phase' \notin Reading => phase \notin Reading
      <4>1. phase \in Reading => todo = << >>
        BY DEF SearchInv, FilterInv, Ranking, Reading
      <4>2. ASSUME phase \in Reading, NEW f, Turning(f) PROVE FALSE
        BY <4>2 DEF Turning, FilterMust, FilterShould, FilterMustNot, AccumulateBM25, Reading
      <4>. QED BY <1>2, <4>1, <4>2 DEF Next, StartFilter, EndMusts, EndShoulds, StartMustNots,
             EndMustNots, Panic, StartBM25, EndBM25, StartField, ScoreByToken, EndField,
             ResolveScores, SearchAgain, SkipResults, Yield, Return, Break, Reading
    <3>. QED BY <2>1, <2>2, <2>3, <2>4, <3>2, <3>3 DEF StateInv
  <2>. QED BY <2>5, <2>6
<1>. QED BY <1>1, <1>2
(* This holds in every state of a search.                                  *)
LEMMA StateAlways == Spec => [](SearchInv /\ FieldInv /\ ScoreInv /\ StateInv)
<1>1. Init => SearchInv /\ FieldInv /\ ScoreInv /\ StateInv
  BY SearchInit, FieldInit, ScoreInit, StateInit
<1>2. SearchInv /\ FieldInv /\ ScoreInv /\ StateInv /\ [Next]_vars
        => SearchInv' /\ FieldInv' /\ ScoreInv' /\ StateInv'
  <2>. SUFFICES ASSUME SearchInv, FieldInv, ScoreInv, StateInv, [Next]_vars
                PROVE  SearchInv' /\ FieldInv' /\ ScoreInv' /\ StateInv'
    OBVIOUS
  <2>1. SearchInv'
    BY SearchNext
  <2>2. FieldInv'
    BY FieldNext
  <2>3. ScoreInv'
    BY ScoreNext
  <2>4. StateInv'
    BY <2>1, <2>2, <2>3, StateNext
  <2>. QED BY <2>1, <2>2, <2>3, <2>4
<1>. QED BY <1>1, <1>2, PTL DEF Spec

(* A search is well typed in every state, for any documents and any query: *)
(* its candidates are documents of the storage, and while they are scored  *)
(* each has one score; what a used context has left are scores of          *)
(* documents, each at most once, which the searches after it rely on.      *)
THEOREM SearchTyped == Spec => []TypeOK
<1>1. SearchInv /\ FieldInv /\ ScoreInv /\ StateInv => TypeOK
  <2>. SUFFICES ASSUME SearchInv, FieldInv, ScoreInv, StateInv PROVE TypeOK
    OBVIOUS
  <2>1. /\ Searchable(docs, seg) /\ bitmap \in SUBSET (0 .. Len(docs) - 1)
        /\ \A x \in bitmaps : x \subseteq 0 .. Len(docs) - 1
        /\ [docs |-> docs, q |-> q, view |-> view] \in Searches
    BY DEF SearchInv, AskedInv, FilterInv
  <2>2. Indices = 0 .. Len(docs) - 1
    BY Meanings
  <2>3. bitmap \subseteq Indices /\ \A b \in bitmaps : b \subseteq Indices
    BY <2>1, <2>2
  <2>4. IsTable(docs, scores)
    BY DEF StateInv
  <2>5. \A k \in DOMAIN scores : scores[k].index \in Indices /\ scores[k].value \in Nat
    <3>. DEFINE R == DocScore(docs)
    <3>1. scores \in Seq(R) /\ DOMAIN scores = 1 .. Len(scores)
      BY <2>4 DEF IsTable
    <3>. HIDE DEF R
    <3>2. \A k \in DOMAIN scores : scores[k] \in R
      BY <3>1
    <3>. QED BY <2>2, <3>2 DEF R, DocScore
  <2>6. IsInjective([k \in DOMAIN scores |-> scores[k].index])
    BY <2>4 DEF IsTable, IsInjective
  <2>7. ASSUME phase \in {"bm25", "field"}
        PROVE  {scores[k].index : k \in DOMAIN scores} = bitmap
    <3>1. EachScored(docs, bitmap, scores)
      <4>1. CASE phase = "bm25"
        <5>1. ScoringInv(docs, seg, q.musts \o q.shoulds, todo, bitmap, scores)
          BY <4>1 DEF ScoreInv, BM25Inv
        <5>2. IsClause(q.musts \o q.shoulds)
          BY ScoredClausesAre DEF ScoredClauses
        <5>. QED BY <2>1, <5>1, <5>2, SumsTable
      <4>2. CASE phase = "field"
        <5>1. WalkInv(docs, seg, view.field, bitmap, pending, assigned, walked, scores)
          BY <4>2 DEF FieldInv
        <5>. QED BY <2>1, <5>1, WalkTable
      <4>. QED BY <2>7, <4>1, <4>2
    <3>. QED BY <3>1 DEF EachScored
  <2>8. phase \in Phases /\ used \in BOOLEAN /\ yielded \in Seq(ToSet(seg.ids))
    BY DEF StateInv
  <2>9. pending \subseteq bitmap /\ assigned \in 0 .. Cardinality(bitmap) /\ walked \in Nat
    BY DEF StateInv, WalkedIn
  <2>10. phase \in {"start", "musts", "shoulds", "filtered", "mustNots", "candidates",
                    "bm25", "field", "scored", "resolved", "yield", "done", "left", "panicked"}
    BY <2>8 DEF Phases, Filtering, Reading
  <2>. QED BY <2>1, <2>3, <2>5, <2>6, <2>7, <2>8, <2>9, <2>10 DEF TypeOK
<1>. QED BY <1>1, StateAlways, PTL-----------------------------------------------------------------------------
(***************************************************************************)
(* The page that is read.                                                  *)
(***************************************************************************)
(* The k-th score that is read.                                            *)
ReadAt(sc, reverse, k) == IF reverse THEN sc[Len(sc) + 1 - k] ELSE sc[k]

(* The caller has been given these, and none of them is 0.                 *)
Received(s, sc, reverse, out) ==
  /\ Len(out) \in 0 .. Len(sc)
  /\ \A k \in 1 .. Len(out) : /\ out[k] = s.ids[ReadAt(sc, reverse, k).index + 1]
                              /\ ReadAt(sc, reverse, k).value # 0

(* The scores are what is left of those of the candidates, sorted.         *)
PagedFrom(D, s, query, v, C, sc, t) ==
  /\ IsTable(D, t) /\ Falls(t)
  /\ v.reverse => v.skip <= Len(t)
  /\ Skipped(D, t, v.skip, v.reverse, sc)
  /\ v.field = BM25 => TermSums(D, s, query.musts \o query.shoulds, C, t)

PageIn(D, s, query, v, ph, C, sc, out) ==
  /\ ph \in {"yield", "done"} => /\ \E t : PagedFrom(D, s, query, v, C, sc, t)
                                 /\ Received(s, sc, v.reverse, out)
  /\ ph = "done" /\ Len(out) < Len(sc) => ReadAt(sc, v.reverse, Len(out) + 1).value = 0

PageInv == PageIn(docs, seg, q, view, phase, bitmap, scores, yielded)

(* The score that is read next.                                            *)
LEMMA NextRead ==
  ASSUME NEW D, IsTable(D, scores), Len(yielded) \in Nat
  PROVE  NextScore = ReadAt(scores, view.reverse, Len(yielded) + 1)
<1>. DEFINE n == Len(scores)
            m == Len(yielded)
<1>1. n \in Nat /\ m \in Nat
  BY DEF IsTable
<1>2. NextScore = IF view.reverse THEN scores[n - m] ELSE scores[m + 1]
  BY DEF NextScore
<1>3. ReadAt(scores, view.reverse, m + 1) = IF view.reverse THEN scores[n + 1 - (m + 1)] ELSE scores[m + 1]
  BY DEF ReadAt
<1>. HIDE DEF n, m
<1>4. n + 1 - (m + 1) = n - m
  BY <1>1
<1>. QED BY <1>2, <1>3, <1>4 DEF m

(* Nothing is read at first.                                               *)
LEMMA PageInit == Init => PageInv
  BY DEF Init, PageInv, PageIn

(* Reader.Query reads the page.                                            *)
LEMMA PageNext ==
  ASSUME SearchInv, FieldInv, ScoreInv, StateInv, PageInv, [Next]_vars
  PROVE  PageInv'
<1>1. IsTable(docs, scores) /\ yielded \in Seq(ToSet(seg.ids)) /\ Len(yielded) \in Nat
  <2>1. IsTable(docs, scores) /\ yielded \in Seq(ToSet(seg.ids))
    BY DEF StateInv
  <2>2. Len(yielded) \in Nat
    <3>. DEFINE V == ToSet(seg.ids)
    <3>1. yielded \in Seq(V)
      BY <2>1
    <3>. HIDE DEF V
    <3>. QED BY <3>1
  <2>. QED BY <2>1, <2>2
<1>2. NextScore = ReadAt(scores, view.reverse, Len(yielded) + 1)
  BY <1>1, NextRead
<1>3. CASE UNCHANGED vars
  <2>1. /\ docs' = docs /\ seg' = seg /\ q' = q /\ view' = view /\ phase' = phase
        /\ bitmap' = bitmap /\ scores' = scores /\ yielded' = yielded
    BY <1>3 DEF vars
  <2>. QED BY <2>1 DEF PageInv
<1>4. CASE phase' \notin {"yield", "done"}
  BY <1>4 DEF PageInv, PageIn
<1>5. CASE Next /\ phase' \in {"yield", "done"} /\ ~SkipResults /\ ~Yield /\ ~Return
  <2>1. ASSUME NEW f, Turning(f) PROVE FALSE
    BY <1>5, <2>1 DEF Turning, FilterMust, FilterShould, FilterMustNot, AccumulateBM25
  <2>. QED BY <1>5, <2>1 DEF Next, StartFilter, EndMusts, EndShoulds, StartMustNots, EndMustNots,
         Panic, StartBM25, EndBM25, StartField, ScoreByToken, EndField, ResolveScores,
         SearchAgain, Break
<1>6. CASE SkipResults /\ phase' = "yield"
  <2>1. /\ phase = "resolved" /\ docs' = docs /\ seg' = seg /\ q' = q /\ view' = view
        /\ bitmap' = bitmap /\ yielded' = yielded
        /\ ~(view.reverse /\ view.skip > Len(scores))
        /\ scores' = Skip(scores, view.skip, view.reverse)
    BY <1>6 DEF SkipResults, Asked
  <2>2. view.skip \in Nat /\ view.reverse \in BOOLEAN
    BY SearchAsked DEF SearchInv
  <2>3. view.reverse => view.skip <= Len(scores)
    BY <1>1, <2>1, <2>2 DEF IsTable
  <2>4. Skipped(docs, scores, view.skip, view.reverse, Skip(scores, view.skip, view.reverse))
    BY <1>1, <2>2, <2>3, SkipLeaves
  <2>5. Falls(scores) /\ yielded = << >>
    BY <2>1 DEF StateInv, Reading
  <2>6. view.field = BM25 => TermSums(docs, seg, q.musts \o q.shoulds, bitmap, scores)
    BY <2>1 DEF ScoreInv, BM25Inv
  <2>7. PagedFrom(docs, seg, q, view, bitmap, scores', scores)
    BY <1>1, <2>1, <2>3, <2>4, <2>5, <2>6 DEF PagedFrom
  <2>8. Len(scores') \in Nat
    BY <2>7 DEF PagedFrom, Skipped, IsTable
  <2>9. Received(seg, scores', view.reverse, << >>)
    BY <2>8 DEF Received
  <2>10. PageIn(docs, seg, q, view, "yield", bitmap, scores', << >>)
    BY <2>7, <2>9 DEF PageIn
  <2>. QED BY <1>6, <2>1, <2>5, <2>10 DEF PageInv
<1>7. CASE Yield
  <2>. DEFINE m == Len(yielded)
              x == seg.ids[NextScore.index + 1]
  <2>1. /\ phase = "yield" /\ phase' = phase /\ docs' = docs /\ seg' = seg /\ q' = q
        /\ view' = view /\ bitmap' = bitmap /\ scores' = scores
        /\ m < Len(scores) /\ NextScore.value # 0 /\ yielded' = Append(yielded, x)
    BY <1>7 DEF Yield, Asked
  <2>2. (\E t : PagedFrom(docs, seg, q, view, bitmap, scores, t)) /\ Received(seg, scores, view.reverse, yielded)
    BY <2>1 DEF PageInv, PageIn
  <2>3. /\ Len(yielded') = m + 1 /\ yielded'[m + 1] = x
        /\ \A k \in 1 .. m : yielded'[k] = yielded[k]
    <3>. DEFINE V == ToSet(seg.ids) \union {x}
                y == yielded
    <3>1. y \in Seq(V) /\ x \in V
      <4>. DEFINE W == ToSet(seg.ids)
      <4>1. y \in Seq(W) /\ W \subseteq V
        BY <1>1
      <4>. HIDE DEF W, V, y
      <4>2. y \in Seq(V)
        BY <4>1
      <4>. QED BY <4>2 DEF V
    <3>. HIDE DEF V, x, y
    <3>2. /\ Len(Append(y, x)) = Len(y) + 1 /\ Append(y, x)[Len(y) + 1] = x
          /\ \A k \in 1 .. Len(y) : Append(y, x)[k] = y[k]
      BY <3>1
    <3>. QED BY <2>1, <3>2 DEF y
  <2>4. m \in Nat /\ Len(scores) \in Nat
    BY <1>1 DEF IsTable
  <2>5. Received(seg, scores, view.reverse, yielded')
    <3>1. m + 1 \in 0 .. Len(scores)
      BY <2>1, <2>4
    <3>2. ASSUME NEW k \in 1 .. m + 1
          PROVE  /\ yielded'[k] = seg.ids[ReadAt(scores, view.reverse, k).index + 1]
                 /\ ReadAt(scores, view.reverse, k).value # 0
      <4>1. CASE k = m + 1
        BY <1>2, <2>1, <2>3, <4>1
      <4>2. CASE k # m + 1
        <5>1. k \in 1 .. m
          BY <2>4, <4>2
        <5>. QED BY <2>2, <2>3, <5>1 DEF Received
      <4>. QED BY <4>1, <4>2
    <3>. HIDE DEF m
    <3>. QED BY <2>3, <3>1, <3>2 DEF Received
  <2>6. PageIn(docs, seg, q, view, "yield", bitmap, scores, yielded')
    BY <2>2, <2>5 DEF PageIn
  <2>. QED BY <2>1, <2>6 DEF PageInv
<1>8. CASE Return
  <2>1. /\ phase = "yield" /\ phase' = "done" /\ docs' = docs /\ seg' = seg /\ q' = q
        /\ view' = view /\ bitmap' = bitmap /\ scores' = scores /\ yielded' = yielded
        /\ Len(yielded) < Len(scores) => NextScore.value = 0
    BY <1>8 DEF Return, Asked
  <2>2. (\E t : PagedFrom(docs, seg, q, view, bitmap, scores, t)) /\ Received(seg, scores, view.reverse, yielded)
    BY <2>1 DEF PageInv, PageIn
  <2>3. PageIn(docs, seg, q, view, "done", bitmap, scores, yielded)
    BY <1>2, <2>1, <2>2 DEF PageIn
  <2>. QED BY <2>1, <2>3 DEF PageInv
<1>9. SkipResults => phase' \in {"yield", "panicked"}
  BY DEF SkipResults
<1>. QED BY <1>3, <1>4, <1>5, <1>6, <1>7, <1>8, <1>9
(* A term of an entry whose boost is not 0 counts.                         *)
LEMMA PartCounts ==
  ASSUME NEW tf \in Nat \ {0}, NEW dl \in Nat, tf + dl <= Scale, NEW boost \in Nat \ {0}
  PROVE  Part(tf, dl, boost) \in Nat \ {0}
<1>. DEFINE n == Scale * tf
            w == tf + dl
            r == n \div w
<1>1. n \in Nat /\ w \in Nat \ {0} /\ w <= Scale /\ Scale \in Nat
  BY QueryAssumption
<1>2. w <= n
  <2>1. tf = 1 + (tf - 1) /\ tf - 1 \in Nat
    OBVIOUS
  <2>. DEFINE a == tf - 1
  <2>2. n = Scale + Scale * a
    BY <1>1, <2>1
  <2>3. Scale * a \in Nat
    BY <1>1, <2>1
  <2>. QED BY <1>1, <2>2, <2>3
<1>3. Part(tf, dl, boost) = boost * r
  BY DEF Part
<1>. HIDE DEF n, w
<1>4. r \in Nat \ {0}
  <2>1. r \in Int /\ w * r <= n /\ n < w * (r + 1)
    BY <1>1
  <2>. HIDE DEF r
  <2>2. CASE r <= 0
    <3>1. w * (r + 1) <= w
      BY <1>1, <2>1, <2>2
    <3>. QED BY <1>1, <1>2, <2>1, <3>1
  <2>. QED BY <2>1, <2>2
<1>. HIDE DEF r
<1>. QED BY <1>3, <1>4

(* A sum is not 0 when a summand is not.                                   *)
LEMMA SummandCounts ==
  ASSUME NEW S, IsFiniteSet(S), NEW c, Counted(c, S), NEW x \in S, c[x] # 0
  PROVE  AddUp(c, S) \in Nat \ {0}
<1>. DEFINE R == S \ {x}
<1>1. IsFiniteSet(R) /\ Counted(c, R)
  <2>1. R \subseteq S
    OBVIOUS
  <2>. QED BY <2>1, FS_Subset DEF Counted
<1>2. x \notin R /\ S = R \union {x} /\ c[x] \in Nat
  BY DEF Counted
<1>. HIDE DEF R
<1>3. AddUp(c, R) \in Nat
  BY <1>1, AddUpSteps
<1>4. AddUp(c, R \union {x}) = AddUp(c, R) + c[x]
  BY <1>1, <1>2, AddUpSteps
<1>5. AddUp(c, S) = AddUp(c, R) + c[x]
  BY <1>2, <1>4
<1>. QED BY <1>2, <1>3, <1>5

(* A wanted document is worth something when no boost is 0: it meets an    *)
(* entry that is scored.                                                   *)
LEMMA WantedCounts ==
  ASSUME SearchInv, ~AnyTooHigh, NEW d \in Wanted,
         \A e \in ToSet(q.musts) \union ToSet(q.shoulds) : e.boost > 0,
         OfClause(docs, ScoredClauses, AllTerms(docs, seg, ScoredClauses))
  PROVE  Relevance(d) \in Nat \ {0}
<1>. DEFINE C == ScoredClauses
            All == AllTerms(docs, seg, C)
            c == Weigh(docs, C, d)
<1>1. Searchable(docs, seg) /\ IsCorpus(docs) /\ IsClause(q.musts) /\ IsClause(q.shoulds)
  BY DEF SearchInv, AskedInv, Searchable
<1>2. d \in 0 .. Len(docs) - 1
  BY Meanings DEF Wanted
<1>3. IsClause(C) /\ ToSet(C) = ToSet(q.musts) \union ToSet(q.shoulds)
  BY <1>1, ClausesJoin DEF ScoredClauses
<1>4. \A k \in 1 .. Len(C) : ~TooHighIn(docs, seg, C[k])
  BY ScoredClausesAre
<1>5. PICK e \in ToSet(C) : Meets(d, e)
  <2>1. CASE q.musts # << >>
    <3>1. MeetsAll(d, q.musts)
      BY <2>1 DEF Wanted
    <3>2. 1 \in DOMAIN q.musts /\ q.musts[1] \in ToSet(q.musts)
      <4>. DEFINE x == q.musts
                  M == ToSet(q.musts)
      <4>1. x \in Seq(M) /\ x # << >>
        BY <1>1, <2>1 DEF IsClause
      <4>. HIDE DEF x, M
      <4>2. 1 \in DOMAIN x /\ x[1] \in M
        BY <4>1
      <4>. QED BY <4>2 DEF x, M
    <3>. QED BY <1>3, <3>1, <3>2 DEF MeetsAll
  <2>2. CASE q.musts = << >>
    <3>1. MeetsSome(d, q.shoulds)
      BY <2>2 DEF Wanted
    <3>2. PICK k \in DOMAIN q.shoulds : Meets(d, q.shoulds[k])
      BY <3>1 DEF MeetsSome
    <3>3. q.shoulds[k] \in ToSet(q.shoulds)
      BY DEF ToSet
    <3>. QED BY <1>3, <3>2, <3>3
  <2>. QED BY <2>1, <2>2
<1>6. PICK k \in 1 .. Len(C) : C[k] = e
  <2>1. DOMAIN C = 1 .. Len(C)
    BY <1>3 DEF IsClause
  <2>. QED BY <2>1 DEF ToSet
<1>7. IsEntry(e) /\ e.boost \in Nat \ {0} /\ k \in Nat
  <2>1. IsEntry(C[k]) /\ k \in Nat
    BY <1>3, EntryOf
  <2>. QED BY <1>3, <1>6, <2>1 DEF IsEntry
<1>8. PICK f \in FieldsIn(seg, e) : \E v \in MeantIn(docs, e, f) : HasToken(docs[d + 1], f, v)
  BY <1>5, Meanings DEF MeetsOf
<1>9. PICK v \in MeantIn(docs, e, f) : HasToken(docs[d + 1], f, v)
  BY <1>8
<1>. DEFINE t == Term(k, f, v)
<1>. HIDE DEF C
<1>10. t \in All
  <2>1. Term(k, f, v) \in TermsOfEntry(docs, seg, C, k)
    BY <1>1, <1>3, <1>4, <1>6, EntryMeans
  <2>. QED BY <2>1 DEF TermsOfEntry
<1>11. c[t] \in Nat \ {0}
  <2>1. t \in Terms(docs)
    BY <1>10 DEF AllTerms
  <2>2. t.field = f /\ t.value = v /\ t.at = k
    BY DEF Term
  <2>3. c[t] = Gain(docs, f, v, e.boost, d)
    BY <1>6, <2>1, <2>2 DEF Weigh
  <2>4. /\ LengthIn(docs, f, d) \in Nat /\ FreqIn(docs, f, v, d) \in 1 .. LengthIn(docs, f, d)
        /\ FreqIn(docs, f, v, d) + LengthIn(docs, f, d) <= Scale
    BY <1>1, <1>2, <1>9, Occurs
  <2>5. Part(FreqIn(docs, f, v, d), LengthIn(docs, f, d), e.boost) \in Nat \ {0}
    <3>. DEFINE tf == FreqIn(docs, f, v, d)
                dl == LengthIn(docs, f, d)
    <3>1. tf \in Nat \ {0} /\ dl \in Nat /\ tf + dl <= Scale
      BY <2>4
    <3>. HIDE DEF tf, dl
    <3>2. Part(tf, dl, e.boost) \in Nat \ {0}
      BY <1>7, <3>1, PartCounts
    <3>. QED BY <3>2 DEF tf, dl
  <2>. QED BY <1>9, <2>3, <2>5 DEF Gain
<1>12. AddUp(c, All) = Relevance(d)
  BY <1>2, RelevanceIs DEF C
<1>13. Counted(c, All) /\ IsFiniteSet(All)
  BY <1>1, <1>2, <1>3, WeighCounted DEF C
<1>. HIDE DEF c, All, t
<1>14. AddUp(c, All) \in Nat \ {0}
  BY <1>10, <1>11, <1>13, SummandCounts
<1>. QED BY <1>12, <1>14

(* Which entry of a sorted table of N the k-th one read is, of n.          *)
PlaceIn(N, n, reverse, k) == IF reverse THEN n + 1 - k ELSE k + (N - n)

ReadsFrom(t, sc, reverse) ==
  /\ Len(t) \in Nat /\ Len(sc) \in 0 .. Len(t)
  /\ \A k \in 1 .. Len(sc) : /\ PlaceIn(Len(t), Len(sc), reverse, k) \in 1 .. Len(t)
                             /\ ReadAt(sc, reverse, k) = t[PlaceIn(Len(t), Len(sc), reverse, k)]

(* The page is read from the table.                                        *)
LEMMA PageReads ==
  ASSUME NEW D, NEW t, IsTable(D, t), NEW n \in Nat, NEW reverse \in BOOLEAN, NEW sc,
         Skipped(D, t, n, reverse, sc)
  PROVE  ReadsFrom(t, sc, reverse)
<1>. DEFINE N == Len(t)
            m == Len(sc)
<1>1. N \in Nat /\ m \in Nat
  BY DEF IsTable, Skipped
<1>2. m = N - (IF n < N THEN n ELSE N)
  BY DEF Skipped
<1>3. \A k \in 1 .. m : sc[k] = t[IF reverse THEN k ELSE k + (N - m)]
  BY DEF Skipped
<1>. HIDE DEF N, m
<1>4. m \in 0 .. N
  BY <1>1, <1>2
<1>5. ASSUME NEW k \in 1 .. m
      PROVE  /\ PlaceIn(N, m, reverse, k) \in 1 .. N
             /\ ReadAt(sc, reverse, k) = t[PlaceIn(N, m, reverse, k)]
  <2>1. CASE reverse
    <3>. DEFINE p == m + 1 - k
    <3>1. p \in 1 .. m /\ p \in 1 .. N
      BY <1>1, <1>4
    <3>2. PlaceIn(N, m, reverse, k) = p /\ ReadAt(sc, reverse, k) = sc[p]
      BY <2>1 DEF PlaceIn, ReadAt, m
    <3>. HIDE DEF p
    <3>. QED BY <1>3, <2>1, <3>1, <3>2
  <2>2. CASE ~reverse
    <3>1. k + (N - m) \in 1 .. N
      BY <1>1, <1>4
    <3>2. PlaceIn(N, m, reverse, k) = k + (N - m) /\ ReadAt(sc, reverse, k) = sc[k]
      BY <2>2 DEF PlaceIn, ReadAt
    <3>. QED BY <1>3, <2>2, <3>1, <3>2
  <2>. QED BY <2>1, <2>2
<1>. QED BY <1>1, <1>4, <1>5 DEF ReadsFrom, m, N

(* The table that BM25Score and ResolveScores leave is of the candidates.  *)
OfCandidates(t) ==
  /\ IsTable(docs, t) /\ Falls(t) /\ Len(t) = Cardinality(bitmap)
  /\ \A k \in 1 .. Len(t) : /\ t[k].index \in bitmap
                            /\ t[k].value = Relevance(t[k].index) /\ t[k].value \in Nat
  /\ \A d \in bitmap : \E k \in 1 .. Len(t) : t[k].index = d

(* Once the candidates are resolved, a walk has such a table to read.      *)
LEMMA CandidatesTable ==
  ASSUME SearchInv, ~AnyTooHigh, NEW t, IsTable(docs, t), Falls(t),
         TermSums(docs, seg, ScoredClauses, bitmap, t)
  PROVE  OfCandidates(t)
<1>. DEFINE C == ScoredClauses
            val == SumOver(docs, C, bitmap, AllTerms(docs, seg, C))
            n == Len(t)
            R == DocScore(docs)
<1>1. bitmap \in SUBSET (0 .. Len(docs) - 1) /\ Searchable(docs, seg)
  BY DEF SearchInv, AskedInv, FilterInv
<1>2. Docs(bitmap)
  BY <1>1, IndexSets
<1>3. OfClause(docs, C, AllTerms(docs, seg, C)) /\ ToSet(t) = ScoreSet(bitmap, val)
  BY DEF TermSums
<1>4. ASSUME NEW d \in bitmap PROVE val[d] = Relevance(d)
  <2>1. d \in 0 .. Len(docs) - 1
    BY <1>1
  <2>. HIDE DEF C
  <2>2. AddUp(Weigh(docs, C, d), AllTerms(docs, seg, C)) = Relevance(d)
    BY <1>3, <2>1, RelevanceIs DEF C
  <2>. QED BY <2>2 DEF SumOver
<1>. HIDE DEF val, C, n, R
<1>5. /\ t \in Seq(R) /\ n \in Nat /\ DOMAIN t = 1 .. n
      /\ \A i, j \in 1 .. n : t[i].index = t[j].index => i = j
  BY DEF IsTable, n, R
<1>6. ToSet(t) = {t[k] : k \in 1 .. n}
  BY <1>5 DEF ToSet
<1>7. ASSUME NEW k \in 1 .. n
      PROVE  t[k].index \in bitmap /\ t[k].value = Relevance(t[k].index) /\ t[k].value \in Nat
  <2>1. t[k] \in ScoreSet(bitmap, val)
    BY <1>3, <1>6
  <2>2. PICK d \in bitmap : t[k] = [index |-> d, value |-> val[d]]
    BY <2>1 DEF ScoreSet
  <2>3. t[k] \in R
    BY <1>5
  <2>4. t[k].value \in Nat
    BY <2>3 DEF R, DocScore
  <2>. QED BY <1>4, <2>2, <2>4
<1>8. ASSUME NEW d \in bitmap PROVE \E k \in 1 .. n : t[k].index = d
  <2>1. [index |-> d, value |-> val[d]] \in ToSet(t)
    BY <1>3 DEF ScoreSet
  <2>2. PICK k \in 1 .. n : t[k] = [index |-> d, value |-> val[d]]
    BY <1>6, <2>1
  <2>. QED BY <2>2
<1>9. n = Cardinality(bitmap)
  <2>. DEFINE f == [k \in 1 .. n |-> t[k].index]
              I == 1 .. n
              B == bitmap
  <2>1. \A k \in I : f[k] = t[k].index
    OBVIOUS
  <2>2. f \in [I -> B]
    BY <1>7
  <2>. HIDE DEF f, B
  <2>3. \A i, j \in I : f[i] = f[j] => i = j
    BY <1>5, <2>1
  <2>4. \A d \in B : \E k \in I : f[k] = d
    BY <1>8, <2>1 DEF B
  <2>5. f \in Bijection(I, B)
    <3>. HIDE DEF I
    <3>. QED BY <2>2, <2>3, <2>4 DEF Bijection, Injection, Surjection, IsInjective
  <2>6. ExistsBijection(1 .. n, B)
    BY <2>5 DEF ExistsBijection
  <2>7. Cardinality(B) = n
    BY <1>2, <1>5, <2>6, FS_CountingElements DEF Docs, B
  <2>. QED BY <2>7 DEF B
<1>. QED BY <1>7, <1>8, <1>9 DEF OfCandidates, n

(* What the caller has got when Reader.Query returns.                      *)
PlaceOf(t, k) == PlaceIn(Len(t), Len(scores), view.reverse, k)

Answering(t) ==
  /\ OfCandidates(t)
  /\ Len(scores) = Len(t) - (IF view.skip < Len(t) THEN view.skip ELSE Len(t))
  /\ Len(scores) \in 0 .. Len(t) /\ Len(yielded) \in 0 .. Len(scores)
  /\ DOMAIN yielded = 1 .. Len(yielded)
  /\ \A k \in 1 .. Len(scores) : PlaceOf(t, k) \in 1 .. Len(t)
  /\ \A k \in 1 .. Len(yielded) : /\ yielded[k] = seg.ids[t[PlaceOf(t, k)].index + 1]
                                  /\ t[PlaceOf(t, k)].value # 0
  /\ Len(yielded) < Len(scores) => t[PlaceOf(t, Len(yielded) + 1)].value = 0

(* What is yielded is the page, entry by entry, up to the first 0.         *)
LEMMA AnswerComes ==
  ASSUME SearchInv, StateInv, PageInv, phase = "done", view.field = BM25, ~AnyTooHigh
  PROVE  \E t : Answering(t)
<1>1. Received(seg, scores, view.reverse, yielded)
  BY DEF PageInv, PageIn
<1>2. PICK t : PagedFrom(docs, seg, q, view, bitmap, scores, t)
  BY DEF PageInv, PageIn
<1>3. /\ IsTable(docs, t) /\ Falls(t) /\ Skipped(docs, t, view.skip, view.reverse, scores)
      /\ TermSums(docs, seg, ScoredClauses, bitmap, t)
  BY <1>2 DEF PagedFrom, ScoredClauses
<1>4. OfCandidates(t)
  BY <1>3, CandidatesTable
<1>5. view.skip \in Nat /\ view.reverse \in BOOLEAN
  BY SearchAsked DEF SearchInv
<1>6. ReadsFrom(t, scores, view.reverse)
  BY <1>3, <1>5, PageReads
<1>7. Len(scores) = Len(t) - (IF view.skip < Len(t) THEN view.skip ELSE Len(t))
  BY <1>3 DEF Skipped
<1>8. DOMAIN yielded = 1 .. Len(yielded)
  <2>. DEFINE V == ToSet(seg.ids)
  <2>1. yielded \in Seq(V)
    BY DEF StateInv
  <2>. HIDE DEF V
  <2>. QED BY <2>1
<1>. DEFINE m == Len(yielded)
            n == Len(scores)
<1>9. n \in Nat /\ m \in 0 .. n
  BY <1>1, <1>6 DEF Received, ReadsFrom
<1>10. \A k \in 1 .. n : /\ PlaceOf(t, k) \in 1 .. Len(t)
                         /\ ReadAt(scores, view.reverse, k) = t[PlaceOf(t, k)]
  BY <1>6 DEF ReadsFrom, PlaceOf
<1>11. \A k \in 1 .. m : /\ yielded[k] = seg.ids[ReadAt(scores, view.reverse, k).index + 1]
                         /\ ReadAt(scores, view.reverse, k).value # 0
  BY <1>1 DEF Received
<1>12. \A k \in 1 .. m : k \in 1 .. n
  BY <1>9
<1>13. m < n => ReadAt(scores, view.reverse, m + 1).value = 0
  BY DEF PageInv, PageIn
<1>14. m < n => m + 1 \in 1 .. n
  BY <1>9
<1>15. \A k \in 1 .. m : /\ yielded[k] = seg.ids[t[PlaceOf(t, k)].index + 1]
                         /\ t[PlaceOf(t, k)].value # 0
  BY <1>10, <1>11, <1>12
<1>16. m < n => t[PlaceOf(t, m + 1)].value = 0
  <2>. HIDE DEF m, n
  <2>. QED BY <1>10, <1>13, <1>14
<1>17. n \in 0 .. Len(t)
  BY <1>6 DEF ReadsFrom
<1>18. Answering(t)
  BY <1>4, <1>7, <1>8, <1>9, <1>10, <1>15, <1>16, <1>17 DEF Answering
<1>. QED BY <1>18-----------------------------------------------------------------------------
(***************************************************************************)
(* What the caller has got.                                                *)
(***************************************************************************)
(* This holds in every state of a search.                                  *)
LEMMA PageAlways == Spec => [](SearchInv /\ StateInv /\ PageInv)
<1>1. Init => SearchInv /\ FieldInv /\ ScoreInv /\ StateInv /\ PageInv
  BY SearchInit, FieldInit, ScoreInit, StateInit, PageInit
<1>2. SearchInv /\ FieldInv /\ ScoreInv /\ StateInv /\ PageInv /\ [Next]_vars => PageInv'
  BY PageNext
<1>. QED BY <1>1, <1>2, StateAlways, PTL DEF Spec

(* The documents of a batch have identifiers of their own.                 *)
OwnIds == \A search \in Searches : \A i, j \in DOMAIN search.docs :
            search.docs[i].id = search.docs[j].id => i = j

(* An identifier stands for one document.                                  *)
LEMMA IdsDiffer ==
  ASSUME OwnIds, SearchInv
  PROVE  \A d, e \in 0 .. Len(docs) - 1 : seg.ids[d + 1] = seg.ids[e + 1] => d = e
<1>1. Searchable(docs, seg) /\ [docs |-> docs, q |-> q, view |-> view] \in Searches
  BY DEF SearchInv, AskedInv
<1>2. /\ Len(docs) \in Nat
      /\ \A d \in 0 .. Len(docs) - 1 : /\ d + 1 \in 1 .. Len(docs)
                                       /\ seg.ids[d + 1] = docs[d + 1].id
  BY <1>1, IdsAre
<1>3. DOMAIN docs = 1 .. Len(docs)
  BY <1>1, BatchSets DEF Searchable, IsCorpus
<1>4. \A i, j \in DOMAIN docs : docs[i].id = docs[j].id => i = j
  <2>1. [docs |-> docs, q |-> q, view |-> view].docs = docs
    OBVIOUS
  <2>. QED BY <1>1, <2>1 DEF OwnIds
<1>. SUFFICES ASSUME NEW d \in 0 .. Len(docs) - 1, NEW e \in 0 .. Len(docs) - 1,
                     seg.ids[d + 1] = seg.ids[e + 1]
              PROVE  d = e
  OBVIOUS
<1>5. d + 1 = e + 1
  BY <1>2, <1>3, <1>4
<1>. QED BY <1>2, <1>5

(* The k-th one read is further down the table, or up in reverse.          *)
LEMMA PlacesMove ==
  ASSUME NEW N \in Nat, NEW n \in 0 .. N, NEW reverse \in BOOLEAN
  PROVE  /\ \A k \in 1 .. n : PlaceIn(N, n, reverse, k) \in Int
         /\ \A i, j \in 1 .. n : i < j =>
              IF reverse THEN PlaceIn(N, n, reverse, j) < PlaceIn(N, n, reverse, i)
              ELSE PlaceIn(N, n, reverse, i) < PlaceIn(N, n, reverse, j)
         /\ \A x \in 1 .. N : \/ IF reverse THEN n < x ELSE x <= N - n
                              \/ \E k \in 1 .. n : PlaceIn(N, n, reverse, k) = x
<1>1. CASE reverse
  <2>1. \A k : PlaceIn(N, n, reverse, k) = n + 1 - k
    BY <1>1 DEF PlaceIn
  <2>2. \A k \in 1 .. n : n + 1 - k \in Int
    OBVIOUS
  <2>3. \A i, j \in 1 .. n : i < j => n + 1 - j < n + 1 - i
    OBVIOUS
  <2>4. ASSUME NEW x \in 1 .. N, ~(n < x) PROVE \E k \in 1 .. n : n + 1 - k = x
    <3>1. n + 1 - x \in 1 .. n /\ n + 1 - (n + 1 - x) = x
      BY <2>4
    <3>. QED BY <3>1
  <2>. QED BY <1>1, <2>1, <2>2, <2>3, <2>4
<1>2. CASE ~reverse
  <2>1. \A k : PlaceIn(N, n, reverse, k) = k + (N - n)
    BY <1>2 DEF PlaceIn
  <2>2. \A k \in 1 .. n : k + (N - n) \in Int
    OBVIOUS
  <2>3. \A i, j \in 1 .. n : i < j => i + (N - n) < j + (N - n)
    OBVIOUS
  <2>4. ASSUME NEW x \in 1 .. N, ~(x <= N - n) PROVE \E k \in 1 .. n : k + (N - n) = x
    <3>1. x - (N - n) \in 1 .. n /\ (x - (N - n)) + (N - n) = x
      BY <2>4
    <3>. QED BY <3>1
  <2>. QED BY <1>2, <2>1, <2>2, <2>3, <2>4
<1>. QED BY <1>1, <1>2

(* Every answer is a document of its own among the candidates.             *)
LEMMA AnswersDiffer ==
  ASSUME OwnIds, SearchInv, NEW t, Answering(t)
  PROVE  /\ \A k \in 1 .. Len(yielded) :
              /\ t[PlaceOf(t, k)].index \in bitmap
              /\ t[PlaceOf(t, k)].index \in 0 .. Len(docs) - 1
              /\ yielded[k] = seg.ids[t[PlaceOf(t, k)].index + 1]
         /\ \A i, j \in 1 .. Len(yielded) : yielded[i] = yielded[j] => i = j
<1>. DEFINE N == Len(t)
            n == Len(scores)
            m == Len(yielded)
            p(k) == PlaceOf(t, k)
<1>1. /\ n \in 0 .. N /\ m \in 0 .. n /\ \A k \in 1 .. n : p(k) \in 1 .. N
      /\ \A k \in 1 .. m : yielded[k] = seg.ids[t[p(k)].index + 1]
      /\ \A k \in 1 .. N : t[k].index \in bitmap
      /\ N \in Nat /\ \A i, j \in 1 .. N : t[i].index = t[j].index => i = j
  BY DEF Answering, OfCandidates, IsTable
<1>2. view.reverse \in BOOLEAN
  BY SearchAsked DEF SearchInv
<1>3. \A k \in 1 .. m : k \in 1 .. n
  BY <1>1
<1>4. \A i, j \in 1 .. n : p(i) = p(j) => i = j
  <2>. DEFINE P(k) == PlaceIn(N, n, view.reverse, k)
  <2>1. /\ \A k \in 1 .. n : P(k) \in Int
        /\ \A i, j \in 1 .. n : i < j => IF view.reverse THEN P(j) < P(i) ELSE P(i) < P(j)
    <3>. HIDE DEF n, N
    <3>. QED BY <1>1, <1>2, PlacesMove
  <2>2. \A k : p(k) = P(k)
    BY DEF PlaceOf
  <2>. HIDE DEF p, P, n, N
  <2>3. \A i, j \in 1 .. n : i < j => P(i) # P(j)
    BY <2>1
  <2>4. \A i, j \in 1 .. n : P(i) = P(j) => i = j
    BY <1>1, <2>3
  <2>. QED BY <2>2, <2>4
<1>5. bitmap \subseteq 0 .. Len(docs) - 1
  BY DEF SearchInv, FilterInv
<1>. HIDE DEF p, n, m, N
<1>6. \A k \in 1 .. m : t[p(k)].index \in bitmap /\ t[p(k)].index \in 0 .. Len(docs) - 1
  BY <1>1, <1>3, <1>5
<1>7. ASSUME NEW i \in 1 .. m, NEW j \in 1 .. m, yielded[i] = yielded[j] PROVE i = j
  <2>1. t[p(i)].index = t[p(j)].index
    <3>. DEFINE x == t[p(i)].index
                y == t[p(j)].index
    <3>1. x \in 0 .. Len(docs) - 1 /\ y \in 0 .. Len(docs) - 1
      BY <1>6
    <3>2. seg.ids[x + 1] = seg.ids[y + 1]
      BY <1>1, <1>7
    <3>. HIDE DEF x, y
    <3>3. x = y
      BY <3>1, <3>2, IdsDiffer
    <3>. QED BY <3>3 DEF x, y
  <2>2. p(i) = p(j)
    BY <1>1, <1>3, <2>1
  <2>. QED BY <1>3, <1>4, <2>2
<1>. QED BY <1>1, <1>6, <1>7 DEF p, m
(* Ranked by BM25, with no boost of 0, a caller that reads to the end gets *)
(* every wanted document but the skipped ones, and each once, for any      *)
(* documents with identifiers of their own, any query that is answered as  *)
(* it is meant and any page: none is lost between the filter, which calls  *)
(* IterCond, the scores, which call Iter, the sort and the page, and none  *)
(* that is wanted ends the loop with a score of 0.                         *)
THEOREM AnsweredAlways ==
  ASSUME OwnIds
  PROVE  Spec => []AllAnswered
<1>1. SearchInv /\ StateInv /\ PageInv => AllAnswered
  <2>. DEFINE W == Cardinality(Wanted)
              missing == W - Len(yielded)
  <2>. SUFFICES ASSUME SearchInv, StateInv, PageInv, phase = "done", view.field = BM25,
                       ~AnyTooHigh, ~Scattered,
                       \A e \in ToSet(q.musts) \union ToSet(q.shoulds) : e.boost > 0
                PROVE  /\ ToSet(yielded) \subseteq {seg.ids[d + 1] : d \in Wanted}
                       /\ IsInjective(yielded)
                       /\ missing = IF view.skip < W THEN view.skip ELSE W
    BY DEF AllAnswered
  <2>1. bitmap = Wanted
    <3>1. phase \in Ranking
      BY DEF Ranking
    <3>2. RightFor(docs, seg, q, bitmap, WantedIn(docs, seg, q))
      BY <3>1 DEF SearchInv, FilterInv
    <3>. QED BY <3>2, Meanings DEF RightFor
  <2>2. PICK t : Answering(t)
    BY AnswerComes
  <2>3. OfClause(docs, ScoredClauses, AllTerms(docs, seg, ScoredClauses))
    BY DEF PageInv, PageIn, PagedFrom, TermSums, ScoredClauses
  <2>. DEFINE N == Len(t)
              n == Len(scores)
              m == Len(yielded)
              p(k) == PlaceOf(t, k)
              c == IF view.skip < N THEN view.skip ELSE N
  <2>4. \A k \in 1 .. N : t[k].value # 0
    <3>. TAKE k \in 1 .. N
    <3>1. t[k].index \in Wanted /\ t[k].value = Relevance(t[k].index)
      BY <2>1, <2>2 DEF Answering, OfCandidates
    <3>2. Relevance(t[k].index) \in Nat \ {0}
      BY <2>3, <3>1, WantedCounts
    <3>. QED BY <3>1, <3>2
  <2>5. /\ n \in 0 .. N /\ m \in 0 .. n /\ n = N - c /\ N = W /\ N \in Nat
        /\ \A k \in 1 .. n : p(k) \in 1 .. N
        /\ m < n => t[p(m + 1)].value = 0
        /\ DOMAIN yielded = 1 .. m
    BY <2>1, <2>2 DEF Answering, OfCandidates, IsTable
  <2>6. /\ \A k \in 1 .. m : /\ t[p(k)].index \in bitmap
                             /\ yielded[k] = seg.ids[t[p(k)].index + 1]
        /\ \A i, j \in 1 .. m : yielded[i] = yielded[j] => i = j
    BY <2>2, AnswersDiffer
  <2>7. view.skip \in Nat
    BY SearchAsked DEF SearchInv
  <2>. HIDE DEF p, N, n
  <2>8. m = n
    <3>. HIDE DEF m
    <3>1. m < n => m + 1 \in 1 .. n
      BY <2>5
    <3>2. ~(m < n)
      BY <2>4, <2>5, <3>1
    <3>. QED BY <2>5, <3>2
  <2>9. missing = IF view.skip < W THEN view.skip ELSE W
    <3>1. N - (N - c) = c
      BY <2>5, <2>7
    <3>. QED BY <2>5, <2>8, <3>1
  <2>10. ToSet(yielded) \subseteq {seg.ids[d + 1] : d \in Wanted}
    <3>1. ToSet(yielded) = {yielded[k] : k \in 1 .. m}
      BY <2>5 DEF ToSet
    <3>2. \A k \in 1 .. m : yielded[k] \in {seg.ids[d + 1] : d \in Wanted}
      BY <2>1, <2>6
    <3>. HIDE DEF m
    <3>. QED BY <3>1, <3>2
  <2>11. IsInjective(yielded)
    BY <2>5, <2>6 DEF IsInjective
  <2>. QED BY <2>9, <2>10, <2>11
<1>. QED BY <1>1, PageAlways, PTL
(* Which scores the read ones come after: none that is not 0 is before     *)
(* them but the skipped ones.                                              *)
LEMMA ReadInOrder ==
  ASSUME SearchInv, NEW t, Answering(t), Len(yielded) # 0
  PROVE  /\ \A i, j \in 1 .. Len(yielded) : i < j =>
              IF view.reverse THEN t[PlaceOf(t, i)].value <= t[PlaceOf(t, j)].value
              ELSE t[PlaceOf(t, i)].value >= t[PlaceOf(t, j)].value
         /\ \A x \in 1 .. Len(t) : t[x].value # 0 =>
              \/ \E k \in 1 .. Len(yielded) : PlaceOf(t, k) = x
              \/ \A k \in 1 .. Len(yielded) :
                   IF view.reverse THEN t[PlaceOf(t, k)].value >= t[x].value
                   ELSE t[x].value >= t[PlaceOf(t, k)].value
<1>. DEFINE N == Len(t)
            n == Len(scores)
            m == Len(yielded)
            p(k) == PlaceOf(t, k)
            v(k) == t[k].value
            rev == view.reverse
<1>1. /\ n \in 0 .. N /\ m \in 0 .. n /\ \A k \in 1 .. n : p(k) \in 1 .. N
      /\ \A k \in 1 .. m : v(p(k)) # 0
      /\ m < n => v(p(m + 1)) = 0
      /\ N \in Nat /\ \A k \in 1 .. N : v(k) \in Nat
      /\ \A i, j \in 1 .. N : i < j => v(i) >= v(j)
  BY DEF Answering, OfCandidates, IsTable, Falls
<1>2. rev \in BOOLEAN /\ m # 0
  BY SearchAsked DEF SearchInv
<1>3. /\ \A i, j \in 1 .. n : i < j => IF rev THEN p(j) < p(i) ELSE p(i) < p(j)
      /\ \A x \in 1 .. N : \/ IF rev THEN n < x ELSE x <= N - n
                           \/ \E k \in 1 .. n : p(k) = x
      /\ \A k : p(k) = IF rev THEN n + 1 - k ELSE k + (N - n)
  <2>. DEFINE P(k) == PlaceIn(N, n, rev, k)
  <2>1. \A k : p(k) = P(k)
    BY DEF PlaceOf
  <2>2. \A i, j \in 1 .. n : i < j => IF rev THEN P(j) < P(i) ELSE P(i) < P(j)
    <3>. HIDE DEF n, N, rev
    <3>. QED BY <1>1, <1>2, PlacesMove
  <2>3. \A x \in 1 .. N : (IF rev THEN n < x ELSE x <= N - n) \/ \E k \in 1 .. n : P(k) = x
    <3>. HIDE DEF n, N, rev
    <3>. QED BY <1>1, <1>2, PlacesMove
  <2>4. \A k : P(k) = IF rev THEN n + 1 - k ELSE k + (N - n)
    BY DEF PlaceIn
  <2>. HIDE DEF p, P, n, N, rev
  <2>. QED BY <2>1, <2>2, <2>3, <2>4
<1>4. \A k \in 1 .. m : k \in 1 .. n
  BY <1>1
<1>. HIDE DEF p, n, m, N, v, rev
<1>5. ASSUME NEW i \in 1 .. m, NEW j \in 1 .. m, i < j
      PROVE  IF rev THEN v(p(i)) <= v(p(j)) ELSE v(p(i)) >= v(p(j))
  <2>1. p(i) \in 1 .. N /\ p(j) \in 1 .. N
    BY <1>1, <1>4
  <2>2. v(p(i)) \in Nat /\ v(p(j)) \in Nat
    BY <1>1, <2>1
  <2>3. CASE rev
    <3>1. p(j) < p(i)
      BY <1>3, <1>4, <1>5, <2>3
    <3>2. v(p(j)) >= v(p(i))
      BY <1>1, <2>1, <3>1
    <3>. QED BY <2>2, <2>3, <3>2
  <2>4. CASE ~rev
    <3>1. p(i) < p(j)
      BY <1>3, <1>4, <1>5, <2>4
    <3>. QED BY <1>1, <2>1, <2>4, <3>1
  <2>. QED BY <2>3, <2>4
<1>6. ASSUME NEW x \in 1 .. N, v(x) # 0, ~\E k \in 1 .. m : p(k) = x, NEW k \in 1 .. m
      PROVE  IF rev THEN v(p(k)) >= v(x) ELSE v(x) >= v(p(k))
  <2>1. k \in 1 .. n /\ p(k) \in 1 .. N /\ m \in Nat /\ n \in Nat /\ 1 \in 1 .. m
    BY <1>1, <1>2, <1>4
  <2>2. ASSUME NEW j \in 1 .. n, p(j) = x PROVE FALSE
    <3>1. m < j /\ m < n /\ m + 1 \in 1 .. n
      BY <1>6, <2>1, <2>2
    <3>2. v(p(m + 1)) = 0 /\ p(m + 1) \in 1 .. N
      BY <1>1, <3>1
    <3>3. CASE rev
      <4>1. p(m + 1) < p(1) /\ p(1) \in 1 .. N
        <5>1. 1 \in 1 .. n /\ 1 < m + 1
          BY <2>1, <3>1
        <5>. QED BY <1>1, <1>3, <3>1, <3>3, <5>1
      <4>2. v(p(m + 1)) >= v(p(1)) /\ v(p(1)) \in Nat /\ v(p(1)) # 0
        BY <1>1, <2>1, <3>2, <4>1
      <4>. QED BY <3>2, <4>2
    <3>4. CASE ~rev
      <4>1. p(m + 1) <= p(j)
        <5>1. CASE m + 1 = j
          <6>1. p(m + 1) = p(j) /\ p(m + 1) \in Int
            BY <3>2, <5>1
          <6>. QED BY ONLY <6>1
        <5>2. CASE m + 1 # j
          <6>1. m + 1 < j
            <7>1. m \in Int /\ j \in Int /\ m < j
              BY <2>1, <3>1
            <7>. QED BY ONLY <5>2, <7>1
          <6>2. p(m + 1) < p(j)
            BY <1>3, <3>1, <3>4, <6>1
          <6>. QED BY <6>2, <3>2, <2>2
        <5>. QED BY <5>1, <5>2
      <4>2. v(p(m + 1)) >= v(x)
        <5>1. CASE p(m + 1) = x
          BY <1>1, <5>1
        <5>2. CASE p(m + 1) # x
          BY <1>1, <2>2, <3>2, <4>1, <5>2
        <5>. QED BY <5>1, <5>2
      <4>3. v(x) \in Nat
        BY <1>1
      <4>. QED BY <1>6, <3>2, <4>2, <4>3
    <3>. QED BY <3>3, <3>4
  <2>3. IF rev THEN n < x ELSE x <= N - n
    BY <1>3, <2>2
  <2>4. CASE rev
    <3>1. p(k) < x
      BY <1>3, <2>1, <2>3, <2>4
    <3>. QED BY <1>1, <2>1, <2>4, <3>1
  <2>5. CASE ~rev
    <3>1. x < p(k)
      BY <1>1, <1>3, <2>1, <2>3, <2>5
    <3>. QED BY <1>1, <2>1, <2>5, <3>1
  <2>. QED BY <2>4, <2>5
<1>. QED BY <1>5, <1>6 DEF m, N, p, v, rev

(* The pages of a result follow on each other, in either order: what is    *)
(* skipped is what comes first, and no result outranks the ones before it, *)
(* for any documents with identifiers of their own and any query.          *)
THEOREM PagesFollow ==
  ASSUME OwnIds
  PROVE  Spec => []PageSkipsFirst
<1>1. SearchInv /\ StateInv /\ PageInv => PageSkipsFirst
  <2>. DEFINE docOf(id) == CHOOSE d \in Indices : seg.ids[d + 1] = id
              ahead(d, e) == IF view.reverse THEN Relevance(d) < Relevance(e)
                             ELSE Relevance(d) > Relevance(e)
              answered == {docOf(yielded[k]) : k \in DOMAIN yielded}
  <2>. SUFFICES ASSUME SearchInv, StateInv, PageInv, phase = "done", view.field = BM25,
                       ~AnyTooHigh, yielded # << >>
                PROVE  /\ \A d \in answered : \A e \in {c \in bitmap : Relevance(c) # 0} \ answered :
                            ~ahead(d, e)
                       /\ \A i, j \in DOMAIN yielded :
                            i < j => ~ahead(docOf(yielded[j]), docOf(yielded[i]))
    BY DEF PageSkipsFirst
  <2>1. PICK t : Answering(t)
    BY AnswerComes
  <2>. DEFINE m == Len(yielded)
              p(k) == PlaceOf(t, k)
              N == Len(t)
  <2>2. /\ DOMAIN yielded = 1 .. m /\ m # 0
        /\ \A k \in 1 .. m : p(k) \in 1 .. N
        /\ \A k \in 1 .. N : t[k].value = Relevance(t[k].index) /\ t[k].value \in Nat
        /\ \A d \in bitmap : \E k \in 1 .. N : t[k].index = d
    <3>1. /\ DOMAIN yielded = 1 .. m /\ m \in 0 .. Len(scores) /\ Len(scores) \in 0 .. N
          /\ \A k \in 1 .. Len(scores) : p(k) \in 1 .. N
          /\ \A k \in 1 .. N : t[k].value = Relevance(t[k].index) /\ t[k].value \in Nat
          /\ \A d \in bitmap : \E k \in 1 .. N : t[k].index = d
          /\ N \in Nat
      BY <2>1 DEF Answering, OfCandidates, IsTable
    <3>2. m # 0
      <4>. DEFINE V == ToSet(seg.ids)
      <4>1. yielded \in Seq(V)
        BY DEF StateInv
      <4>. HIDE DEF V
      <4>. QED BY <4>1
    <3>. HIDE DEF p, m, N
    <3>. QED BY <3>1, <3>2
  <2>3. \A k \in 1 .. m : docOf(yielded[k]) = t[p(k)].index
    <3>. TAKE k \in 1 .. m
    <3>. DEFINE d == t[p(k)].index
    <3>1. d \in 0 .. Len(docs) - 1 /\ yielded[k] = seg.ids[d + 1]
      BY <2>1, AnswersDiffer
    <3>2. Indices = 0 .. Len(docs) - 1
      BY Meanings
    <3>. HIDE DEF d
    <3>3. \A e \in Indices : seg.ids[e + 1] = yielded[k] => e = d
      BY <3>1, <3>2, IdsDiffer
    <3>4. docOf(yielded[k]) = d
      BY <3>1, <3>2, <3>3
    <3>. QED BY <3>4 DEF d
  <2>4. \A k \in 1 .. m : Relevance(docOf(yielded[k])) = t[p(k)].value /\ t[p(k)].value \in Nat
    <3>. TAKE k \in 1 .. m
    <3>1. p(k) \in 1 .. N
      BY <2>2
    <3>. HIDE DEF docOf, p, m, N
    <3>2. Relevance(t[p(k)].index) = t[p(k)].value /\ t[p(k)].value \in Nat
      BY <2>2, <3>1
    <3>. QED BY <2>3, <3>2
  <2>5. /\ \A i, j \in 1 .. m : i < j =>
              IF view.reverse THEN t[p(i)].value <= t[p(j)].value
              ELSE t[p(i)].value >= t[p(j)].value
        /\ \A x \in 1 .. N : t[x].value # 0 =>
              \/ \E k \in 1 .. m : p(k) = x
              \/ \A k \in 1 .. m : IF view.reverse THEN t[p(k)].value >= t[x].value
                                   ELSE t[x].value >= t[p(k)].value
    BY <2>1, <2>2, ReadInOrder
  <2>. HIDE DEF docOf, p, m, N
  <2>6. ASSUME NEW d \in answered, NEW e \in {c \in bitmap : Relevance(c) # 0} \ answered
        PROVE  ~ahead(d, e)
    <3>1. PICK k \in 1 .. m : d = docOf(yielded[k])
      BY <2>2
    <3>2. PICK x \in 1 .. N : t[x].index = e
      BY <2>2
    <3>3. t[x].value = Relevance(e) /\ Relevance(e) \in Nat /\ Relevance(e) # 0
      BY <2>2, <3>2
    <3>4. \A j \in 1 .. m : p(j) # x
      <4>. SUFFICES ASSUME NEW j \in 1 .. m, p(j) = x PROVE FALSE
        OBVIOUS
      <4>1. docOf(yielded[j]) = e
        BY <2>3, <3>2
      <4>. QED BY <2>2, <4>1
    <3>5. IF view.reverse THEN t[p(k)].value >= t[x].value ELSE t[x].value >= t[p(k)].value
      BY <2>5, <3>3, <3>4
    <3>6. Relevance(d) = t[p(k)].value /\ Relevance(d) \in Nat
      BY <2>4, <3>1
    <3>. QED BY <3>3, <3>5, <3>6
  <2>7. ASSUME NEW i \in 1 .. m, NEW j \in 1 .. m, i < j
        PROVE  ~ahead(docOf(yielded[j]), docOf(yielded[i]))
    <3>1. IF view.reverse THEN t[p(i)].value <= t[p(j)].value ELSE t[p(i)].value >= t[p(j)].value
      BY <2>5, <2>7
    <3>2. /\ Relevance(docOf(yielded[i])) = t[p(i)].value /\ t[p(i)].value \in Nat
          /\ Relevance(docOf(yielded[j])) = t[p(j)].value /\ t[p(j)].value \in Nat
      BY <2>4
    <3>. QED BY <3>1, <3>2
  <2>. QED BY <2>2, <2>6, <2>7
<1>. QED BY <1>1, PageAlways, PTL
=============================================================================
