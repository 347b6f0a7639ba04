---------------------------- MODULE DorksProofs ----------------------------
(***************************************************************************)
(* What is found for a query string, for any values, dorks and tokenizers. *)
(* The encodings of numbers keep their order, texts are cut into their     *)
(* words, and each key of a value has one token; so the candidates are the *)
(* documents whose values meet the dorks, and a field of numbers ranks     *)
(* them by the numbers.                                                    *)
(***************************************************************************)
EXTENDS Dorks, QueryProofs

-----------------------------------------------------------------------------
(***************************************************************************)
(* Sortable numbers: the encodings of Numeric keep the order of the        *)
(* numbers and lose none, for words of every width.  A range over a field  *)
(* of numbers compares their bytes.                                        *)
(***************************************************************************)

(* An encoded integer is a word, and it decodes to the integer             *)
(* (src/numeric/int64.go).                                                 *)
THEOREM IntegerRoundTrip ==
  ASSUME NEW v \in Integer
  PROVE  /\ PutSortableInteger(v) \in Word
         /\ DecodeInteger(PutSortableInteger(v)) = v
  BY NumericAssumption
  DEF Integer, Word, Full, PutSortableInteger, DecodeInteger, FlipTop, Unsigned, Signed

(* Integers are encoded in their order, negative ones first.               *)
THEOREM IntegersSort ==
  ASSUME NEW v \in Integer, NEW w \in Integer
  PROVE  PutSortableInteger(v) < PutSortableInteger(w) <=> v < w
  BY NumericAssumption
  DEF Integer, Full, PutSortableInteger, FlipTop, Unsigned

(* An encoded float is a word, and it decodes to the float                 *)
(* (src/numeric/float64.go).                                               *)
THEOREM FloatRoundTrip ==
  ASSUME NEW x \in Float
  PROVE  /\ PutSortableFloat(x) \in Word
         /\ DecodeFloat(PutSortableFloat(x)) = x
<1>1. PICK neg \in BOOLEAN, m \in 0 .. Half - 1 : x = [neg |-> neg, mag |-> m]
  BY DEF Float
<1>2. m \in Int /\ 0 <= m /\ m < Half
  BY NumericAssumption
<1>3. CASE neg
  <2>1. PutSortableFloat(x) = Half - 1 - m
    BY <1>1, <1>2, <1>3, NumericAssumption
    DEF PutSortableFloat, Float64bits, FlipAll, Full
  <2>2. DecodeFloat(Half - 1 - m) = Float64frombits(Half + m)
    BY <1>2, NumericAssumption DEF DecodeFloat, FlipAll, Full
  <2>3. Half + m >= Half /\ Half + m - Half = m
    BY <1>2, NumericAssumption
  <2>4. Float64frombits(Half + m) = [neg |-> TRUE, mag |-> m]
    BY <1>2, <2>3, NumericAssumption DEF Float64frombits
  <2>5. neg = TRUE
    BY <1>3
  <2>6. Half - 1 - m \in Word
    BY <1>2, NumericAssumption DEF Word, Full
  <2> QED
    BY <1>1, <2>1, <2>2, <2>4, <2>5, <2>6
<1>4. CASE ~neg
  <2>1. PutSortableFloat(x) = Half + m
    BY <1>1, <1>2, <1>4, NumericAssumption DEF PutSortableFloat, Float64bits, FlipTop
  <2>2. DecodeFloat(Half + m) = Float64frombits(m)
    BY <1>2, NumericAssumption DEF DecodeFloat, FlipTop
  <2>3. ~(m >= Half)
    BY <1>2, NumericAssumption
  <2>4. Float64frombits(m) = [neg |-> FALSE, mag |-> m]
    BY <1>2, <2>3, NumericAssumption DEF Float64frombits
  <2>5. neg = FALSE
    BY <1>4
  <2>6. Half + m \in Word
    BY <1>2, NumericAssumption DEF Word, Full
  <2> QED
    BY <1>1, <2>1, <2>2, <2>4, <2>5, <2>6
<1> QED
  BY <1>3, <1>4

(* Floats are encoded in their order: negative ones first, by falling      *)
(* magnitude, and -0 before 0.                                             *)
THEOREM FloatsSort ==
  ASSUME NEW x \in Float, NEW y \in Float
  PROVE  PutSortableFloat(x) < PutSortableFloat(y) <=> Rank(x) < Rank(y)
<1>1. \A z \in Float : PutSortableFloat(z) = Half + Rank(z) /\ Rank(z) \in Int
  BY NumericAssumption
  DEF Float, PutSortableFloat, Float64bits, FlipAll, FlipTop, Full, Rank
<1> QED
  BY <1>1, NumericAssumption

-----------------------------------------------------------------------------
(***************************************************************************)
(* Words: what is cut out of a text are its longest runs of words.         *)
(***************************************************************************)
(* A word ends at the next character that it does not keep.                *)
EndsAt(in, i, j) ==
  /\ j \in i + 1 .. Len(in) + 1
  /\ \A k \in i + 1 .. j - 1 : Kept(in, k)
  /\ j <= Len(in) => ~Kept(in, j)

Ending(e, in, i) ==
  e = [k \in i + 1 .. Len(in) + 1 |-> IF k <= Len(in) /\ Kept(in, k) THEN e[k + 1] ELSE k]

(* The scan of one word has an outcome.                                    *)
LEMMA EndExists ==
  ASSUME NEW in, Len(in) \in Nat, NEW i \in 1 .. Len(in)
  PROVE  \E e : Ending(e, in, i)
<1>. DEFINE n == Len(in)
            T(k) == {j \in k .. n + 1 : j <= n => ~Kept(in, j)}
            F(k) == CHOOSE j \in T(k) : \A m \in T(k) : j <= m
            e == [k \in i + 1 .. n + 1 |-> F(k)]
<1>1. ASSUME NEW k \in i + 1 .. n + 1
      PROVE  F(k) \in T(k) /\ \A m \in T(k) : F(k) <= m
  <2>1. T(k) \in SUBSET Nat
    OBVIOUS
  <2>2. n + 1 \in T(k)
    OBVIOUS
  <2>. HIDE DEF T
  <2>3. \E j \in T(k) : \A m \in T(k) : j <= m
    BY <2>1, <2>2, NatLeast
  <2>. QED BY <2>3
<1>2. ASSUME NEW k \in i + 1 .. n + 1
      PROVE  F(k) = IF k <= n /\ Kept(in, k) THEN e[k + 1] ELSE k
  <2>1. CASE k <= n /\ Kept(in, k)
    <3>1. k + 1 \in i + 1 .. n + 1
      BY <2>1
    <3>2. T(k) = T(k + 1)
      BY <2>1
    <3>3. F(k) = F(k + 1)
      BY <3>2
    <3>4. e[k + 1] = F(k + 1)
      BY <3>1
    <3>. HIDE DEF F, e
    <3>. QED BY <2>1, <3>3, <3>4
  <2>2. CASE ~(k <= n /\ Kept(in, k))
    <3>1. k \in T(k)
      BY <2>2
    <3>2. \A m \in T(k) : k <= m
      OBVIOUS
    <3>3. F(k) <= k /\ k <= F(k) /\ F(k) \in Nat /\ k \in Nat
      <4>1. \A m \in T(k) : m \in Nat
        OBVIOUS
      <4>. HIDE DEF F, T
      <4>. QED BY <1>1, <3>1, <3>2, <4>1
    <3>. HIDE DEF F, T, e
    <3>. QED BY <2>2, <3>3
  <2>. QED BY <2>1, <2>2
<1>3. \A k \in i + 1 .. n + 1 : e[k] = F(k)
  OBVIOUS
<1>4. e = [k \in i + 1 .. n + 1 |-> IF k <= n /\ Kept(in, k) THEN e[k + 1] ELSE k]
  <2>. HIDE DEF F
  <2>1. DOMAIN e = i + 1 .. n + 1 /\ e = [k \in i + 1 .. n + 1 |-> e[k]]
    OBVIOUS
  <2>. HIDE DEF e
  <2>2. \A k \in i + 1 .. n + 1 : e[k] = IF k <= n /\ Kept(in, k) THEN e[k + 1] ELSE k
    BY <1>2, <1>3
  <2>. QED BY <2>1, <2>2
<1>. HIDE DEF e
<1>. QED BY <1>4 DEF Ending, n

(* And it is the end of the word.                                          *)
LEMMA EndIs ==
  ASSUME NEW in, Len(in) \in Nat, NEW i \in 1 .. Len(in)
  PROVE  EndsAt(in, i, WordEnd(in, i))
<1>. DEFINE n == Len(in)
            e == CHOOSE x : Ending(x, in, i)
            Right(k) == /\ e[k] \in k .. n + 1
                        /\ \A j \in k .. e[k] - 1 : Kept(in, j)
                        /\ e[k] <= n => ~Kept(in, e[k])
            S == {m \in Nat : m <= n - i => Right(n + 1 - m)}
<1>1. WordEnd(in, i) = e[i + 1]
  BY DEF WordEnd, Ending
<1>2. Ending(e, in, i)
  BY EndExists
<1>3. \A k \in i + 1 .. n + 1 : e[k] = IF k <= n /\ Kept(in, k) THEN e[k + 1] ELSE k
  <2>. HIDE DEF e
  <2>. QED BY <1>2 DEF Ending
<1>. HIDE DEF e
<1>4. \A m \in Nat : m \in S
  <2>1. 0 \in S
    <3>1. n + 1 \in i + 1 .. n + 1
      OBVIOUS
    <3>2. e[n + 1] = n + 1
      BY <1>3, <3>1
    <3>. QED BY <3>2
  <2>2. ASSUME NEW m \in Nat, m \in S PROVE m + 1 \in S
    <3>. SUFFICES ASSUME m + 1 <= n - i PROVE Right(n + 1 - (m + 1))
      OBVIOUS
    <3>. DEFINE k == n - m
    <3>1. k \in i + 1 .. n /\ k + 1 = n + 1 - m /\ k = n + 1 - (m + 1)
      OBVIOUS
    <3>2. Right(k + 1)
      BY <2>2, <3>1
    <3>. HIDE DEF k
    <3>3. CASE Kept(in, k)
      <4>1. e[k] = e[k + 1]
        BY <1>3, <3>1, <3>3
      <4>2. \A j \in k .. e[k + 1] - 1 : j = k \/ j \in k + 1 .. e[k + 1] - 1
        BY <3>1, <3>2
      <4>3. Right(k)
        BY <3>1, <3>2, <3>3, <4>1, <4>2
      <4>. QED BY <3>1, <4>3
    <3>4. CASE ~Kept(in, k)
      <4>1. e[k] = k
        BY <1>3, <3>1, <3>4
      <4>2. Right(k)
        BY <3>1, <3>4, <4>1
      <4>. QED BY <3>1, <4>2
    <3>. QED BY <3>3, <3>4
  <2>. HIDE DEF S
  <2>. QED BY <2>1, <2>2, NatInductive
<1>5. Right(i + 1)
  <2>1. n - i \in Nat /\ n - i <= n - i /\ n + 1 - (n - i) = i + 1
    OBVIOUS
  <2>2. n - i \in S
    <3>. HIDE DEF S
    <3>. QED BY <1>4, <2>1
  <2>3. Right(n + 1 - (n - i))
    BY <2>1, <2>2
  <2>. HIDE DEF Right
  <2>. QED BY <2>1, <2>3
<1>. QED BY <1>1, <1>5 DEF EndsAt

(* The scan of a text.                                                     *)
Step(c, in, i) ==
  IF i > Len(in) THEN << >>
  ELSE IF ~isWord(in[i]) THEN c[i + 1]
  ELSE <<<<i, WordEnd(in, i)>>>> \o c[WordEnd(in, i)]

Cutting(c, in, m) == c = [i \in m .. Len(in) + 1 |-> Step(c, in, i)]

(* It has an outcome, from any position on.                                *)
LEMMA CuttingExists ==
  ASSUME NEW in, Len(in) \in Nat
  PROVE  \E c : Cutting(c, in, 1)
<1>. DEFINE n == Len(in)
            S == {m \in Nat : m <= n => \E c : Cutting(c, in, n + 1 - m)}
<1>1. 0 \in S
  <2>. DEFINE c == [i \in n + 1 .. n + 1 |-> << >>]
  <2>1. \A i \in n + 1 .. n + 1 : Step(c, in, i) = << >>
    BY DEF Step
  <2>. HIDE DEF n
  <2>2. Cutting(c, in, n + 1)
    BY <2>1 DEF Cutting, n
  <2>. HIDE DEF c
  <2>3. n + 1 - 0 = n + 1
    BY DEF n
  <2>. QED BY <2>2, <2>3
<1>2. ASSUME NEW m \in Nat, m \in S PROVE m + 1 \in S
  <2>. SUFFICES ASSUME m + 1 <= n PROVE \E c : Cutting(c, in, n + 1 - (m + 1))
    OBVIOUS
  <2>. DEFINE j == n - m
  <2>1. j \in 1 .. n /\ j + 1 = n + 1 - m /\ j = n + 1 - (m + 1)
    OBVIOUS
  <2>2. PICK c : Cutting(c, in, j + 1)
    BY <1>2, <2>1
  <2>. HIDE DEF j
  <2>. DEFINE g == [i \in j .. n + 1 |-> IF i = j THEN Step(c, in, j) ELSE c[i]]
  <2>3. \A i \in j + 1 .. n + 1 : g[i] = c[i]
    BY <2>1
  <2>4. g[j] = Step(c, in, j)
    BY <2>1
  <2>5. \A i \in j + 1 .. n + 1 : c[i] = Step(c, in, i)
    BY <2>2 DEF Cutting
  <2>6. \A i \in j .. n : isWord(in[i]) => WordEnd(in, i) \in j + 1 .. n + 1
    <3>1. ASSUME NEW i \in j .. n PROVE WordEnd(in, i) \in j + 1 .. n + 1
      <4>1. i \in 1 .. n
        BY <2>1
      <4>2. WordEnd(in, i) \in i + 1 .. n + 1
        BY <4>1, EndIs DEF EndsAt
      <4>. QED BY <2>1, <4>2
    <3>. QED BY <3>1
  <2>7. \A i \in j .. n : i + 1 \in j + 1 .. n + 1
    BY <2>1
  <2>8. ASSUME NEW i \in j .. n + 1 PROVE Step(g, in, i) = Step(c, in, i)
    <3>1. CASE i > n
      BY <3>1 DEF Step
    <3>2. CASE i <= n
      <4>1. i \in j .. n
        BY <2>1, <3>2
      <4>. HIDE DEF g
      <4>. QED BY <2>3, <2>6, <2>7, <4>1 DEF Step
    <3>. QED BY <2>1, <3>1, <3>2
  <2>9. \A i \in j .. n + 1 : i = j \/ i \in j + 1 .. n + 1
    BY <2>1
  <2>10. \A i \in j .. n + 1 : g[i] = Step(g, in, i)
    <3>. HIDE DEF g
    <3>. QED BY <2>3, <2>4, <2>5, <2>8, <2>9
  <2>11. g = [i \in j .. n + 1 |-> g[i]]
    OBVIOUS
  <2>. HIDE DEF g
  <2>12. Cutting(g, in, j)
    BY <2>10, <2>11 DEF Cutting
  <2>. QED BY <2>1, <2>12
<1>. HIDE DEF S
<1>3. n \in S
  BY <1>1, <1>2, NatInductive
<1>4. n + 1 - n = 1 /\ n <= n
  OBVIOUS
<1>5. \E c : Cutting(c, in, n + 1 - n)
  BY <1>3, <1>4 DEF S
<1>. QED BY <1>4, <1>5

(* One in front of a sequence.                                             *)
LEMMA PrependSays ==
  ASSUME NEW V, NEW x \in V, NEW s \in Seq(V)
  PROVE  /\ <<x>> \o s \in Seq(V)
         /\ Len(s) \in Nat /\ Len(<<x>> \o s) = Len(s) + 1
         /\ (<<x>> \o s)[1] = x
         /\ \A k \in 1 .. Len(s) : (<<x>> \o s)[k + 1] = s[k]
<1>1. <<x>> \in Seq(V) /\ Len(<<x>>) = 1 /\ <<x>>[1] = x
  OBVIOUS
<1>. QED BY <1>1

(* A character of a word goes on with it unless it is the first.           *)
LEMMA KeptInWord ==
  ASSUME NEW in, Len(in) \in Nat, NEW k \in 2 .. Len(in)
  PROVE  Kept(in, k) <=> InWord(in, k)
BY DEF Kept, InWord, nextIsDigit

(* Where the scan can be: not within a word.                               *)
AtWordEdge(in, i) == i = 1 \/ i = Len(in) + 1 \/ ~InWord(in, i - 1) \/ ~InWord(in, i)

RunsFrom(in, i) == {r \in Runs(in) : i <= r[1]}

(* The words that the scan still finds.                                    *)
CutsFrom(in, i, s) ==
  /\ s \in Seq(Nat \X Nat)
  /\ ToSet(s) = RunsFrom(in, i)
  /\ \A a, b \in DOMAIN s : a < b => s[a][2] < s[b][1]

(* At the end there is none.                                               *)
LEMMA NoRunsBehind ==
  ASSUME NEW in, Len(in) \in Nat, in \in [1 .. Len(in) -> ToSet(in)]
  PROVE  CutsFrom(in, Len(in) + 1, << >>)
<1>1. RunsFrom(in, Len(in) + 1) = {}
  BY DEF RunsFrom, Runs
<1>2. ToSet(<< >>) = {} /\ << >> \in Seq(Nat \X Nat)
  BY DEF ToSet
<1>3. DOMAIN << >> = {}
  OBVIOUS
<1>. QED BY <1>1, <1>2, <1>3 DEF CutsFrom

(* A character that is of no word is passed over.                          *)
LEMMA RunsBehindOther ==
  ASSUME NEW in, Len(in) \in Nat, in \in [1 .. Len(in) -> ToSet(in)],
         Digits \intersect NumSeps = {},
         NEW i \in 1 .. Len(in), AtWordEdge(in, i), ~isWord(in[i])
  PROVE  AtWordEdge(in, i + 1) /\ RunsFrom(in, i) = RunsFrom(in, i + 1)
<1>1. ~InWord(in, i)
  <2>1. SUFFICES ASSUME InWord(in, i) PROVE FALSE
    OBVIOUS
  <2>2. i > 1 /\ in[i - 1] \in Digits
    BY <2>1 DEF InWord
  <2>3. InWord(in, i - 1)
    BY <2>2 DEF InWord, isWord
  <2>. QED BY <2>1, <2>2, <2>3 DEF AtWordEdge
<1>2. AtWordEdge(in, i + 1)
  BY <1>1 DEF AtWordEdge
<1>3. ASSUME NEW r \in Runs(in), i <= r[1] PROVE i + 1 <= r[1]
  <2>1. r[1] \in Nat /\ r[2] \in Nat /\ r[1] < r[2] /\ InWord(in, r[1])
    BY DEF Runs
  <2>. QED BY <1>1, <1>3, <2>1
<1>4. \A r \in Runs(in) : r[1] \in Nat
  BY DEF Runs
<1>. QED BY <1>2, <1>3, <1>4 DEF RunsFrom

(* A character that is of a word starts a run, which ends with the word.   *)
LEMMA RunStarts ==
  ASSUME NEW in, Len(in) \in Nat, in \in [1 .. Len(in) -> ToSet(in)],
         NEW i \in 1 .. Len(in), AtWordEdge(in, i), isWord(in[i]),
         NEW j, EndsAt(in, i, j)
  PROVE  /\ <<i, j>> \in Runs(in) /\ j \in i + 1 .. Len(in) + 1
         /\ AtWordEdge(in, j)
         /\ RunsFrom(in, i) = {<<i, j>>} \union RunsFrom(in, j)
         /\ \A r \in RunsFrom(in, j) : j < r[1]
<1>. DEFINE n == Len(in)
<1>1. j \in i + 1 .. n + 1
  BY DEF EndsAt
<1>2. InWord(in, i)
  BY DEF InWord
<1>3. \A k \in i .. j - 1 : InWord(in, k)
  <2>1. ASSUME NEW k \in i + 1 .. j - 1 PROVE InWord(in, k)
    <3>1. k \in 2 .. n /\ Kept(in, k)
      BY <1>1 DEF EndsAt
    <3>. QED BY <3>1, KeptInWord
  <2>2. \A k \in i .. j - 1 : k = i \/ k \in i + 1 .. j - 1
    OBVIOUS
  <2>. QED BY <1>2, <2>1, <2>2
<1>4. i > 1 => ~InWord(in, i - 1)
  BY <1>2 DEF AtWordEdge
<1>5. j <= n => ~InWord(in, j)
  <2>1. ASSUME j <= n PROVE ~InWord(in, j)
    <3>1. j \in 2 .. n /\ ~Kept(in, j)
      BY <1>1, <2>1 DEF EndsAt
    <3>. QED BY <3>1, KeptInWord
  <2>. QED BY <2>1
<1>6. DOMAIN in = 1 .. n
  OBVIOUS
<1>7. <<i, j>> \in Runs(in)
  <2>1. <<i, j>> \in (1 .. n) \X (2 .. n + 1)
    BY <1>1
  <2>. QED BY <1>1, <1>3, <1>4, <1>5, <1>6, <2>1 DEF Runs
<1>8. AtWordEdge(in, j)
  BY <1>1, <1>5 DEF AtWordEdge
<1>9. ASSUME NEW r \in Runs(in)
      PROVE  /\ r = <<r[1], r[2]>> /\ r[1] \in 1 .. n /\ r[2] \in 2 .. n + 1 /\ r[1] < r[2]
             /\ \A k \in r[1] .. r[2] - 1 : InWord(in, k)
             /\ r[1] > 1 => ~InWord(in, r[1] - 1)
             /\ r[2] <= n => ~InWord(in, r[2])
  BY <1>6 DEF Runs
<1>10. ASSUME NEW r \in Runs(in), i <= r[1], r[1] < j PROVE r = <<i, j>>
  <2>1. r[1] = i
    <3>1. SUFFICES ASSUME r[1] > i PROVE FALSE
      BY <1>9, <1>10
    <3>2. r[1] - 1 \in i .. j - 1 /\ r[1] > 1
      BY <1>1, <1>9, <1>10, <3>1
    <3>. QED BY <1>3, <1>9, <3>2
  <2>2. ~(r[2] < j)
    <3>1. SUFFICES ASSUME r[2] < j PROVE FALSE
      OBVIOUS
    <3>2. r[2] \in i .. j - 1 /\ r[2] <= n
      BY <1>1, <1>9, <2>1, <3>1
    <3>. QED BY <1>3, <1>9, <3>2
  <2>3. ~(j < r[2])
    <3>1. SUFFICES ASSUME j < r[2] PROVE FALSE
      OBVIOUS
    <3>2. j \in r[1] .. r[2] - 1 /\ j <= n
      BY <1>1, <1>9, <2>1, <3>1
    <3>. QED BY <1>5, <1>9, <3>2
  <2>. QED BY <1>1, <1>9, <2>1, <2>2, <2>3
<1>11. ASSUME NEW r \in Runs(in), j <= r[1] PROVE j < r[1]
  <2>1. SUFFICES ASSUME r[1] = j PROVE FALSE
    BY <1>1, <1>9, <1>11
  <2>2. j \in r[1] .. r[2] - 1 /\ j <= n
    BY <1>1, <1>9, <2>1
  <2>. QED BY <1>5, <1>9, <2>2
<1>12. ASSUME NEW r \in Runs(in) PROVE i <= r[1] <=> r = <<i, j>> \/ j <= r[1]
  <2>1. CASE r = <<i, j>>
    BY <2>1
  <2>2. CASE j <= r[1]
    BY <1>1, <1>9, <2>2
  <2>3. CASE r # <<i, j>> /\ ~(j <= r[1])
    BY <1>1, <1>9, <1>10, <2>3
  <2>. QED BY <2>1, <2>2, <2>3
<1>13. RunsFrom(in, i) = {<<i, j>>} \union RunsFrom(in, j)
  BY <1>7, <1>12 DEF RunsFrom
<1>14. \A r \in RunsFrom(in, j) : j < r[1]
  BY <1>11 DEF RunsFrom
<1>. QED BY <1>1, <1>7, <1>8, <1>13, <1>14

(* A word in front of the ones behind it.                                  *)
LEMMA RunInFront ==
  ASSUME NEW in, NEW i \in Nat, NEW j \in Nat, NEW s, CutsFrom(in, j, s),
         RunsFrom(in, i) = {<<i, j>>} \union RunsFrom(in, j),
         \A r \in RunsFrom(in, j) : j < r[1]
  PROVE  CutsFrom(in, i, <<<<i, j>>>> \o s)
<1>. DEFINE x == <<i, j>>
            V == Nat \X Nat
            t == <<x>> \o s
<1>1. x \in V /\ s \in Seq(V)
  BY DEF CutsFrom
<1>2. /\ t \in Seq(V) /\ Len(s) \in Nat /\ Len(t) = Len(s) + 1
      /\ t[1] = x /\ \A k \in 1 .. Len(s) : t[k + 1] = s[k]
  <2>. HIDE DEF x, V
  <2>. QED BY <1>1, PrependSays
<1>3. DOMAIN s = 1 .. Len(s) /\ DOMAIN t = 1 .. Len(t)
  <2>. HIDE DEF t, V
  <2>. QED BY <1>1, <1>2
<1>. HIDE DEF t
<1>4. ASSUME NEW k \in 1 .. Len(t) PROVE k = 1 \/ (k - 1 \in 1 .. Len(s) /\ t[k] = s[k - 1])
  <2>1. CASE k = 1
    BY <2>1
  <2>2. CASE k # 1
    <3>1. k - 1 \in 1 .. Len(s) /\ (k - 1) + 1 = k
      BY <1>2, <2>2
    <3>. QED BY <1>2, <3>1
  <2>. QED BY <2>1, <2>2
<1>5. ToSet(t) = {x} \union ToSet(s)
  <2>1. \A k \in 1 .. Len(t) : t[k] = x \/ \E l \in 1 .. Len(s) : t[k] = s[l]
    BY <1>2, <1>4
  <2>2. \A k \in 1 .. Len(s) : k + 1 \in 1 .. Len(t)
    BY <1>2
  <2>3. 1 \in 1 .. Len(t)
    BY <1>2
  <2>. HIDE DEF x
  <2>4. ToSet(t) = {t[k] : k \in 1 .. Len(t)} /\ ToSet(s) = {s[k] : k \in 1 .. Len(s)}
    BY <1>3 DEF ToSet
  <2>5. ToSet(t) \subseteq {x} \union ToSet(s)
    BY <2>1, <2>4
  <2>6. {x} \union ToSet(s) \subseteq ToSet(t)
    <3>1. \A k \in 1 .. Len(s) : s[k] = t[k + 1] /\ k + 1 \in 1 .. Len(t)
      BY <1>2, <2>2
    <3>2. \A k \in 1 .. Len(s) : s[k] \in ToSet(t)
      BY <2>4, <3>1
    <3>. QED BY <1>2, <2>3, <2>4, <3>2
  <2>. QED BY <2>5, <2>6
<1>6. ASSUME NEW a \in 1 .. Len(t), NEW b \in 1 .. Len(t), a < b PROVE t[a][2] < t[b][1]
  <2>1. b - 1 \in 1 .. Len(s) /\ t[b] = s[b - 1]
    BY <1>4, <1>6
  <2>2. CASE a = 1
    <3>1. s[b - 1] \in RunsFrom(in, j)
      BY <1>3, <2>1 DEF CutsFrom, ToSet
    <3>2. t[a] = x /\ x[2] = j
      BY <1>2, <2>2
    <3>. HIDE DEF x
    <3>. QED BY <2>1, <3>1, <3>2
  <2>3. CASE a # 1
    <3>1. a - 1 \in 1 .. Len(s) /\ t[a] = s[a - 1] /\ a - 1 < b - 1
      BY <1>4, <1>6, <2>3
    <3>. QED BY <1>3, <2>1, <3>1 DEF CutsFrom
  <2>. QED BY <2>2, <2>3
<1>7. ToSet(t) = RunsFrom(in, i)
  BY <1>5 DEF CutsFrom
<1>8. CutsFrom(in, i, t)
  BY <1>2, <1>3, <1>6, <1>7 DEF CutsFrom
<1>. QED BY <1>8 DEF t

(* The words of a text are its runs.                                       *)
LEMMA WordsSplit ==
  ASSUME NEW in, IsText(in), Digits \intersect NumSeps = {}
  PROVE  CutsFrom(in, 1, WordsOf(in))
<1>. DEFINE n == Len(in)
            c == CHOOSE x : Cutting(x, in, 1)
            S == {m \in Nat : m <= n =>
                    (AtWordEdge(in, n + 1 - m) => CutsFrom(in, n + 1 - m, c[n + 1 - m]))}
<1>1. n \in Nat /\ in \in [1 .. n -> ToSet(in)]
  BY DEF IsText
<1>2. WordsOf(in) = c[1]
  BY DEF WordsOf, Cutting, Step
<1>3. Cutting(c, in, 1)
  BY <1>1, CuttingExists
<1>4. \A i \in 1 .. n + 1 : c[i] = Step(c, in, i)
  <2>. HIDE DEF c
  <2>. QED BY <1>3 DEF Cutting
<1>. HIDE DEF c
<1>5. ASSUME NEW m \in Nat, \A l \in Nat : l < m => l \in S, m <= n,
             AtWordEdge(in, n + 1 - m)
      PROVE  CutsFrom(in, n + 1 - m, c[n + 1 - m])
  <2>. DEFINE i == n + 1 - m
  <2>1. i \in 1 .. n + 1 /\ i \in Nat
    BY <1>1, <1>5
  <2>2. ASSUME NEW j \in i + 1 .. n + 1, AtWordEdge(in, j) PROVE CutsFrom(in, j, c[j])
    <3>. DEFINE l == n + 1 - j
    <3>1. l \in Nat /\ l < m /\ l <= n /\ n + 1 - l = j
      BY <1>1, <2>1
    <3>2. l \in S
      BY <1>5, <3>1
    <3>. HIDE DEF l
    <3>. QED BY <2>2, <3>1, <3>2
  <2>3. AtWordEdge(in, i)
    BY <1>5
  <2>. HIDE DEF i, S
  <2>4. c[i] = Step(c, in, i)
    BY <1>4, <2>1
  <2>5. CASE i = n + 1
    <3>1. c[i] = << >>
      BY <1>1, <2>4, <2>5 DEF Step
    <3>2. CutsFrom(in, n + 1, << >>)
      BY <1>1, NoRunsBehind
    <3>. QED BY <2>5, <3>1, <3>2 DEF i
  <2>6. CASE i # n + 1 /\ ~isWord(in[i])
    <3>1. i \in 1 .. n /\ i + 1 \in i + 1 .. n + 1
      BY <1>1, <2>1, <2>6
    <3>2. c[i] = c[i + 1]
      BY <2>4, <2>6, <3>1 DEF Step
    <3>3. AtWordEdge(in, i + 1) /\ RunsFrom(in, i) = RunsFrom(in, i + 1)
      BY <1>1, <2>3, <2>6, <3>1, RunsBehindOther
    <3>4. CutsFrom(in, i + 1, c[i + 1])
      BY <2>2, <3>1, <3>3
    <3>5. CutsFrom(in, i, c[i])
      BY <3>2, <3>3, <3>4 DEF CutsFrom
    <3>. QED BY <3>5 DEF i
  <2>7. CASE i # n + 1 /\ isWord(in[i])
    <3>. DEFINE j == WordEnd(in, i)
    <3>1. i \in 1 .. n
      BY <1>1, <2>1, <2>7
    <3>2. EndsAt(in, i, j)
      BY <1>1, <3>1, EndIs
    <3>3. c[i] = <<<<i, j>>>> \o c[j]
      BY <2>4, <2>7, <3>1 DEF Step
    <3>. HIDE DEF j
    <3>4. /\ j \in i + 1 .. n + 1
          /\ AtWordEdge(in, j)
          /\ RunsFrom(in, i) = {<<i, j>>} \union RunsFrom(in, j)
          /\ \A r \in RunsFrom(in, j) : j < r[1]
      BY <1>1, <2>3, <2>7, <3>1, <3>2, RunStarts
    <3>5. CutsFrom(in, j, c[j])
      BY <2>2, <3>4
    <3>6. j \in Nat
      BY <2>1, <3>4
    <3>7. CutsFrom(in, i, <<<<i, j>>>> \o c[j])
      BY <2>1, <3>4, <3>5, <3>6, RunInFront
    <3>8. CutsFrom(in, i, c[i])
      BY <3>3, <3>7
    <3>. QED BY <3>8 DEF i
  <2>. QED BY <2>5, <2>6, <2>7
<1>6. \A m \in Nat : (\A l \in Nat : l < m => l \in S) => m \in S
  BY <1>5
<1>7. n \in S
  <2>. HIDE DEF S
  <2>. QED BY <1>1, <1>6, NatStrongInductive
<1>8. n + 1 - n = 1 /\ n <= n
  BY <1>1
<1>9. AtWordEdge(in, 1)
  BY DEF AtWordEdge
<1>. QED BY <1>2, <1>7, <1>8, <1>9

(* In the order of the text, and none else.                                *)
LEMMA TextSplits ==
  ASSUME NEW in, IsText(in), Digits \intersect NumSeps = {}
  PROVE  Splits(in) /\ WordsOf(in) \in Seq(Nat \X Nat)
<1>1. CutsFrom(in, 1, WordsOf(in))
  BY WordsSplit
<1>2. RunsFrom(in, 1) = Runs(in)
  <2>1. Len(in) \in Nat /\ DOMAIN in = 1 .. Len(in)
    BY DEF IsText
  <2>2. \A r \in Runs(in) : 1 <= r[1]
    BY <2>1 DEF Runs
  <2>. QED BY <2>2 DEF RunsFrom
<1>. QED BY <1>1, <1>2 DEF CutsFrom, Splits

(* No separator is kept but between digits, no word is lost, cut or joined *)
(* with the next, in any text and for any letters and digits.              *)
THEOREM WordsAlways == Spec => []SplitsWords
<1>1. Digits \intersect NumSeps = {}
  BY TokenizerAssumption
<1>2. \A in \in Texts : Splits(in)
  BY <1>1, TextSplits, TokenizerAssumption
<1>3. SplitsWords
  BY <1>2 DEF SplitsWords, WronglySplit
<1>. QED BY <1>3, PTL

-----------------------------------------------------------------------------
(***************************************************************************)
(* Tokens: what a tokenizer makes of a value, one for each of its keys.    *)
(***************************************************************************)
(* A sequence of exactly the members of V.                                 *)
Spells(s, V) == s \in Seq(V) /\ ToSet(s) = V

(* A function on the first n numbers is one.                               *)
LEMMA SpellsSays ==
  ASSUME NEW n \in Nat, NEW s, s = [k \in 1 .. n |-> s[k]]
  PROVE  Spells(s, {s[k] : k \in 1 .. n}) /\ Len(s) = n
<1>. DEFINE V == {s[k] : k \in 1 .. n}
<1>1. s \in [1 .. n -> V] /\ DOMAIN s = 1 .. n
  OBVIOUS
<1>2. ToSet(s) = V
  BY <1>1 DEF ToSet
<1>. HIDE DEF V
<1>3. s \in Seq(V) /\ Len(s) = n
  BY <1>1
<1>. QED BY <1>2, <1>3 DEF Spells, V

(* The positions of a sequence.                                            *)
LEMMA SpelledAt ==
  ASSUME NEW V, NEW s, Spells(s, V)
  PROVE  /\ Len(s) \in Nat /\ DOMAIN s = 1 .. Len(s)
         /\ \A k \in 1 .. Len(s) : s[k] \in V
         /\ V = {s[k] : k \in 1 .. Len(s)}
<1>1. s \in Seq(V)
  BY DEF Spells
<1>2. Len(s) \in Nat /\ DOMAIN s = 1 .. Len(s) /\ \A k \in 1 .. Len(s) : s[k] \in V
  BY <1>1
<1>3. ToSet(s) = {s[k] : k \in 1 .. Len(s)}
  BY <1>2 DEF ToSet
<1>. QED BY <1>2, <1>3 DEF Spells

(* The terms of a text, one for each of its runs.                          *)
TermsIn(in) == {Stemmer(SubSeq(in, r[1], r[2] - 1)) : r \in Runs(in)}

(* The tokens of a text are its terms.                                   *)
LEMMA StemmedAre ==
  ASSUME NEW in, IsText(in)
  PROVE  Spells(TokenizeWithStemmer(in), TermsIn(in))
<1>. DEFINE w == WordsOf(in)
            n == Len(w)
            G(r) == Stemmer(SubSeq(in, r[1], r[2] - 1))
            t == TokenizeWithStemmer(in)
<1>1. Digits \intersect NumSeps = {}
  BY TokenizerAssumption
<1>2. ToSet(w) = Runs(in) /\ w \in Seq(Nat \X Nat)
  BY <1>1, TextSplits DEF Splits
<1>. HIDE DEF w
<1>3. n \in Nat /\ DOMAIN w = 1 .. n
  BY <1>2
<1>4. Runs(in) = {w[k] : k \in 1 .. n}
  BY <1>2, <1>3 DEF ToSet
<1>5. t = [k \in 1 .. n |-> G(w[k])]
  BY <1>3 DEF TokenizeWithStemmer, w
<1>6. t = [k \in 1 .. n |-> t[k]] /\ \A k \in 1 .. n : t[k] = G(w[k])
  <2>. HIDE DEF t
  <2>. QED BY <1>5
<1>7. {t[k] : k \in 1 .. n} = {G(r) : r \in Runs(in)}
  <2>. HIDE DEF t, n, G
  <2>. QED BY <1>4, <1>6
<1>8. Spells(t, {t[k] : k \in 1 .. n})
  <2>. HIDE DEF t, n
  <2>. QED BY <1>3, <1>6, SpellsSays
<1>9. TermsIn(in) = {G(r) : r \in Runs(in)}
  BY DEF TermsIn
<1>. HIDE DEF t, G, n
<1>10. Spells(t, TermsIn(in))
  BY <1>7, <1>8, <1>9
<1>. QED BY <1>10 DEF t

(* What is kept of the tokens, one after the other.                        *)
FilterOne(kept, v) == IF v \in Stopwords THEN kept ELSE Append(kept, v)

(* All but the stop words.                                                 *)
LEMMA FilteredAre ==
  ASSUME NEW V, NEW tokens, Spells(tokens, V)
  PROVE  Spells(FilterStopword(tokens), V \ Stopwords)
<1>. DEFINE n == Len(tokens)
            W == V \ Stopwords
            Fold(h) == h = [s \in SUBSET (DOMAIN tokens) |->
                              IF s = {} THEN << >>
                              ELSE FilterOne(h[s \ {Max(s)}], tokens[Max(s)])]
            step == [p \in Seq(W) \X (1 .. n) |-> FilterOne(p[1], tokens[p[2]])]
<1>1. FilterStopword(tokens) = (CHOOSE h : Fold(h))[DOMAIN tokens]
  BY Zenon DEF FilterStopword, FoldLeft, MapThenFoldSet, FilterOne
<1>2. /\ n \in Nat /\ DOMAIN tokens = 1 .. n /\ V = {tokens[k] : k \in 1 .. n}
      /\ \A k \in 1 .. n : tokens[k] \in V
  BY SpelledAt
<1>. HIDE DEF n
<1>3. << >> \in Seq(W)
  OBVIOUS
<1>4. step \in [Seq(W) \X (1 .. n) -> Seq(W)]
  <2>1. ASSUME NEW kept \in Seq(W), NEW k \in 1 .. n
        PROVE  FilterOne(kept, tokens[k]) \in Seq(W)
    <3>1. tokens[k] \in Stopwords \/ tokens[k] \in W
      BY <1>2
    <3>. HIDE DEF W
    <3>. QED BY <3>1 DEF FilterOne
  <2>2. \A p \in Seq(W) \X (1 .. n) : FilterOne(p[1], tokens[p[2]]) \in Seq(W)
    BY <2>1
  <2>. HIDE DEF W
  <2>. QED BY <2>2
<1>. HIDE DEF W
<1>5. \E h : Folding(h, n, Seq(W), << >>, step)
  <2>. HIDE DEF step
  <2>. QED BY <1>2, <1>3, <1>4, FoldExists
<1>6. ASSUME NEW h, Folding(h, n, Seq(W), << >>, step) PROVE Fold(h)
  <2>1. /\ h \in [SUBSET (1 .. n) -> Seq(W)]
        /\ \A s \in SUBSET (1 .. n) :
             h[s] = IF s = {} THEN << >> ELSE step[<<h[s \ {Max(s)}], Max(s)>>]
    BY <1>6 DEF Folding
  <2>2. ASSUME NEW s \in SUBSET (1 .. n), s # {}
        PROVE  step[<<h[s \ {Max(s)}], Max(s)>>] = FilterOne(h[s \ {Max(s)}], tokens[Max(s)])
    <3>1. Max(s) \in 1 .. n
      BY <1>2, <2>2, MaxOfPositions
    <3>2. h[s \ {Max(s)}] \in Seq(W)
      <4>1. s \ {Max(s)} \in SUBSET (1 .. n)
        OBVIOUS
      <4>. QED BY <2>1, <4>1
    <3>. QED BY <3>1, <3>2
  <2>. HIDE DEF step
  <2>3. \A s \in SUBSET (1 .. n) :
          h[s] = IF s = {} THEN << >> ELSE FilterOne(h[s \ {Max(s)}], tokens[Max(s)])
    BY <2>1, <2>2
  <2>4. h = [s \in SUBSET (1 .. n) |-> h[s]]
    BY <2>1
  <2>. QED BY <1>2, <2>3, <2>4
<1>. DEFINE h == CHOOSE x : Fold(x)
<1>7. Fold(h)
  <2>. HIDE DEF Fold
  <2>. QED BY <1>5, <1>6
<1>. HIDE DEF h
<1>8. \A s \in SUBSET (1 .. n) :
        h[s] = IF s = {} THEN << >> ELSE FilterOne(h[s \ {Max(s)}], tokens[Max(s)])
  BY <1>2, <1>7
<1>. DEFINE Some(k) == {tokens[j] : j \in 1 .. k} \ Stopwords
            S == {k \in Nat : k <= n => h[1 .. k] \in Seq(W) /\ ToSet(h[1 .. k]) = Some(k)}
<1>. HIDE DEF Fold
<1>9. 0 \in S
  <2>1. 1 .. 0 = {} /\ {} \in SUBSET (1 .. n)
    OBVIOUS
  <2>2. h[1 .. 0] = << >>
    BY <1>8, <2>1
  <2>3. ToSet(<< >>) = {}
    BY DEF ToSet
  <2>4. Some(0) = {}
    BY <2>1
  <2>. QED BY <1>3, <2>2, <2>3, <2>4
<1>10. ASSUME NEW k \in Nat, k \in S PROVE k + 1 \in S
  <2>. SUFFICES ASSUME k + 1 <= n
                PROVE  h[1 .. k + 1] \in Seq(W) /\ ToSet(h[1 .. k + 1]) = Some(k + 1)
    OBVIOUS
  <2>. DEFINE g == h[1 .. k]
              v == tokens[k + 1]
  <2>1. g \in Seq(W) /\ ToSet(g) = Some(k)
    BY <1>2, <1>10
  <2>2. k + 1 \in 1 .. n /\ (k + 1) - 1 = k
    BY <1>2
  <2>3. /\ 1 .. k + 1 \in SUBSET (1 .. n) /\ 1 .. k + 1 # {}
        /\ Max(1 .. k + 1) = k + 1 /\ (1 .. k + 1) \ {k + 1} = 1 .. k
    BY <1>2, <2>2, LastPosition
  <2>4. h[1 .. k + 1] = FilterOne(g, v)
    BY <1>8, <2>3
  <2>5. Some(k + 1) = Some(k) \union ({v} \ Stopwords)
    <3>1. \A j \in 1 .. k + 1 : j = k + 1 \/ j \in 1 .. k
      OBVIOUS
    <3>2. \A j \in 1 .. k : j \in 1 .. k + 1
      OBVIOUS
    <3>3. k + 1 \in 1 .. k + 1
      OBVIOUS
    <3>. QED BY <3>1, <3>2, <3>3
  <2>6. v \in Stopwords \/ v \in W
    BY <1>2, <2>2 DEF W
  <2>. HIDE DEF g, v, Some
  <2>7. CASE v \in Stopwords
    BY <2>1, <2>4, <2>5, <2>7 DEF FilterOne
  <2>8. CASE v \notin Stopwords
    <3>1. /\ Append(g, v) \in Seq(W)
          /\ Len(g) \in Nat /\ Len(Append(g, v)) = Len(g) + 1
          /\ \A j \in 1 .. Len(g) : Append(g, v)[j] = g[j]
          /\ Append(g, v)[Len(g) + 1] = v
          /\ DOMAIN g = 1 .. Len(g) /\ DOMAIN Append(g, v) = 1 .. Len(g) + 1
      BY <2>1, <2>6, <2>8
    <3>. DEFINE a == Append(g, v)
    <3>. HIDE DEF a
    <3>2. ToSet(a) = {a[j] : j \in 1 .. Len(g) + 1} /\ ToSet(g) = {g[j] : j \in 1 .. Len(g)}
      BY <3>1 DEF ToSet, a
    <3>3. \A j \in 1 .. Len(g) + 1 : j = Len(g) + 1 \/ j \in 1 .. Len(g)
      BY <3>1
    <3>4. \A j \in 1 .. Len(g) : j \in 1 .. Len(g) + 1
      BY <3>1
    <3>5. Len(g) + 1 \in 1 .. Len(g) + 1
      BY <3>1
    <3>6. ToSet(a) = ToSet(g) \union {v}
      BY <3>1, <3>2, <3>3, <3>4, <3>5 DEF a
    <3>. QED BY <2>1, <2>4, <2>5, <2>8, <3>1, <3>6 DEF FilterOne, a
  <2>. QED BY <2>7, <2>8
<1>11. n \in S
  <2>. HIDE DEF S
  <2>. QED BY <1>2, <1>9, <1>10, NatInductive
<1>12. Some(n) = W
  BY <1>2 DEF W
<1>. HIDE DEF Some
<1>13. h[1 .. n] \in Seq(W) /\ ToSet(h[1 .. n]) = W
  BY <1>2, <1>11, <1>12
<1>. QED BY <1>1, <1>2, <1>13 DEF Spells, h, W

(* The only member of a set, or none.                                      *)
LEMMA SingleSpelled ==
  ASSUME NEW S, AtMostOne(S)
  PROVE  Spells(SetToSeq(S), S)
<1>1. CASE S = {}
  <2>1. Cardinality(S) = 0
    BY <1>1, FS_EmptySet
  <2>2. 1 .. 0 = {}
    OBVIOUS
  <2>. DEFINE f == [k \in {} |-> k]
  <2>3. f \in [1 .. 0 -> S] /\ IsInjective(f)
    BY <2>2 DEF IsInjective
  <2>. HIDE DEF f
  <2>4. SetToSeq(S) \in [1 .. 0 -> S]
    BY <2>1, <2>3 DEF SetToSeq
  <2>. DEFINE s == SetToSeq(S)
  <2>. HIDE DEF s
  <2>5. s \in Seq(S) /\ DOMAIN s = {}
    BY <2>2, <2>4 DEF s
  <2>6. ToSet(s) = {}
    BY <2>5 DEF ToSet
  <2>. QED BY <1>1, <2>5, <2>6 DEF Spells, s
<1>2. CASE S # {}
  <2>1. PICK x : x \in S
    BY <1>2
  <2>2. S = {x}
    BY <2>1 DEF AtMostOne
  <2>3. Cardinality(S) = 1
    BY <2>2, FS_Singleton
  <2>4. 1 .. 1 = {1}
    OBVIOUS
  <2>. DEFINE f == [k \in {1} |-> x]
  <2>5. f \in [1 .. 1 -> S] /\ IsInjective(f)
    BY <2>1, <2>4 DEF IsInjective
  <2>. HIDE DEF f
  <2>. DEFINE s == SetToSeq(S)
  <2>6. s \in [1 .. 1 -> S]
    BY <2>3, <2>5 DEF SetToSeq
  <2>. HIDE DEF s
  <2>7. s = [k \in 1 .. 1 |-> s[k]] /\ s[1] \in S
    BY <2>4, <2>6
  <2>8. Spells(s, {s[k] : k \in 1 .. 1})
    <3>. DEFINE n == 1
    <3>1. n \in Nat
      OBVIOUS
    <3>. HIDE DEF n
    <3>2. s = [k \in 1 .. n |-> s[k]] => Spells(s, {s[k] : k \in 1 .. n})
      BY <3>1, SpellsSays
    <3>. QED BY <2>7, <3>2 DEF n
  <2>9. {s[k] : k \in 1 .. 1} = S
    BY <2>2, <2>4, <2>7
  <2>. QED BY <2>8, <2>9 DEF s
<1>. QED BY <1>1, <1>2

(* The number of a set of one.                                             *)
LEMMA NumberIs ==
  ASSUME NEW S, AtMostOne(S), NEW x \in S
  PROVE  S = {x} /\ Number(S) = x
<1>1. S = {x}
  BY DEF AtMostOne
<1>. QED BY <1>1 DEF Number

(* Sortable words are the numbers, moved up by half of the words there are.*)
LEMMA MovedUp ==
  /\ \A n \in Integer : PutSortableInteger(n) = n + Half /\ UnixNano(n) = n
  /\ \A x \in Float : PutSortableFloat(x) = Rank(x) + Half /\ Rank(x) \in Integer
<1>1. Half \in Nat \ {0} /\ Full = 2 * Half
  BY NumericAssumption DEF Full
<1>2. ASSUME NEW n \in Integer PROVE PutSortableInteger(n) = n + Half
  BY <1>1 DEF Integer, PutSortableInteger, FlipTop, Unsigned
<1>3. ASSUME NEW n \in Integer PROVE UnixNano(n) = n
  <2>1. n \in Int /\ n + Half \in 0 .. 2 * Half - 1
    BY <1>1 DEF Integer
  <2>2. (n + Half) % (2 * Half) = n + Half
    <3>. DEFINE a == n + Half
                b == 2 * Half
    <3>1. a \in Nat /\ b \in Nat \ {0} /\ a < b
      BY <1>1, <2>1
    <3>. HIDE DEF a, b
    <3>2. a % b = a
      BY <3>1
    <3>. QED BY <3>2 DEF a, b
  <2>. QED BY <1>1, <2>1, <2>2 DEF UnixNano
<1>4. ASSUME NEW x \in Float PROVE PutSortableFloat(x) = Rank(x) + Half /\ Rank(x) \in Integer
  BY <1>1 DEF Float, Integer, PutSortableFloat, Float64bits, FlipTop, FlipAll, Rank
<1>. QED BY <1>2, <1>3, <1>4

(* The token of a key.                                                     *)
TokenOf(tokenizer, key) == IF tokenizer \in TextTokenizers THEN key ELSE Encoded(key + Half)

IsTokenizer(t) == t \in TextTokenizers \union NumberTokenizers

(* The tokenizer of a query makes the tokens of the keys.                  *)
LEMMA TokensAre ==
  ASSUME NEW value, IsValue(value), InTime(value), NEW t, IsTokenizer(t)
  PROVE  Spells(Tokenize(t, value), {TokenOf(t, key) : key \in Keys(t, value)})
<1>. DEFINE K == Keys(t, value)
<1>1. /\ IsText(value.text)
      /\ value.int \subseteq Integer /\ AtMostOne(value.int)
      /\ value.float \subseteq Float /\ AtMostOne(value.float)
      /\ value.time \subseteq Integer /\ AtMostOne(value.time)
  BY DEF IsValue, InTime
<1>2. CASE t = "keyword"
  <2>1. Tokenize(t, value) = <<Bytes(value.text)>> /\ K = {Bytes(value.text)}
    BY <1>2 DEF Tokenize, Keys
  <2>2. {TokenOf(t, key) : key \in K} = {Bytes(value.text)}
    BY <1>2, <2>1 DEF TokenOf, TextTokenizers
  <2>. DEFINE b == Bytes(value.text)
  <2>. HIDE DEF b
  <2>3. <<b>> \in Seq({b}) /\ ToSet(<<b>>) = {b}
    BY DEF ToSet
  <2>. QED BY <2>1, <2>2, <2>3 DEF Spells, b
<1>3. CASE t = "words" \/ t = "meaning"
  <2>. DEFINE w == TokenizeWithStemmer(value.text)
              T == TermsIn(value.text)
  <2>1. Spells(w, T)
    BY <1>1, StemmedAre
  <2>2. {TokenOf(t, key) : key \in K} = K
    BY <1>3 DEF TokenOf, TextTokenizers
  <2>3. CASE t = "words"
    <3>1. Tokenize(t, value) = w /\ K = T
      BY <2>3 DEF Tokenize, Keys, TermsIn
    <3>. QED BY <2>1, <2>2, <3>1
  <2>4. CASE t = "meaning"
    <3>1. Tokenize(t, value) = FilterStopword(w) /\ K = T \ Stopwords
      BY <2>4 DEF Tokenize, Keys, TermsIn
    <3>2. Spells(FilterStopword(w), T \ Stopwords)
      <4>. HIDE DEF w, T
      <4>. QED BY <2>1, FilteredAre
    <3>. QED BY <2>2, <3>1, <3>2
  <2>. QED BY <1>3, <2>3, <2>4
<1>4. CASE t = "integer"
  <2>. DEFINE S == {Encoded(PutSortableInteger(n)) : n \in value.int}
  <2>1. Tokenize(t, value) = SetToSeq(S) /\ K = value.int
    BY <1>4 DEF Tokenize, Keys
  <2>2. Spells(SetToSeq(S), S)
    <3>1. AtMostOne(S)
      BY <1>1 DEF AtMostOne
    <3>. HIDE DEF S
    <3>. QED BY <3>1, SingleSpelled
  <2>3. {TokenOf(t, key) : key \in K} = {Encoded(n + Half) : n \in value.int}
    BY <1>4, <2>1 DEF TokenOf, TextTokenizers
  <2>4. \A n \in value.int : Encoded(PutSortableInteger(n)) = Encoded(n + Half)
    BY <1>1, MovedUp
  <2>5. S = {Encoded(n + Half) : n \in value.int}
    BY <2>4
  <2>. QED BY <2>1, <2>2, <2>3, <2>5
<1>5. CASE t = "float"
  <2>. DEFINE S == {Encoded(PutSortableFloat(x)) : x \in value.float}
  <2>1. Tokenize(t, value) = SetToSeq(S) /\ K = {Rank(x) : x \in value.float}
    BY <1>5 DEF Tokenize, Keys
  <2>2. Spells(SetToSeq(S), S)
    <3>1. AtMostOne(S)
      BY <1>1 DEF AtMostOne
    <3>. HIDE DEF S
    <3>. QED BY <3>1, SingleSpelled
  <2>3. {TokenOf(t, key) : key \in K} = {Encoded(Rank(x) + Half) : x \in value.float}
    BY <1>5, <2>1 DEF TokenOf, TextTokenizers
  <2>4. \A x \in value.float : Encoded(PutSortableFloat(x)) = Encoded(Rank(x) + Half)
    BY <1>1, MovedUp
  <2>5. S = {Encoded(Rank(x) + Half) : x \in value.float}
    BY <2>4
  <2>. QED BY <2>1, <2>2, <2>3, <2>5
<1>6. CASE t = "date"
  <2>. DEFINE S == {Encoded(PutSortableInteger(UnixNano(n))) : n \in value.time}
  <2>1. Tokenize(t, value) = SetToSeq(S) /\ K = value.time
    BY <1>6 DEF Tokenize, Keys
  <2>2. Spells(SetToSeq(S), S)
    <3>1. AtMostOne(S)
      BY <1>1 DEF AtMostOne
    <3>. HIDE DEF S
    <3>. QED BY <3>1, SingleSpelled
  <2>3. {TokenOf(t, key) : key \in K} = {Encoded(n + Half) : n \in value.time}
    BY <1>6, <2>1 DEF TokenOf, TextTokenizers
  <2>4. \A n \in value.time : Encoded(PutSortableInteger(UnixNano(n))) = Encoded(n + Half)
    BY <1>1, MovedUp
  <2>5. S = {Encoded(n + Half) : n \in value.time}
    BY <2>4
  <2>. QED BY <2>1, <2>2, <2>3, <2>5
<1>. QED BY <1>2, <1>3, <1>4, <1>5, <1>6 DEF IsTokenizer, TextTokenizers, NumberTokenizers

(* The field of a document has the tokens of the keys.                     *)
LEMMA FieldTokensAre ==
  ASSUME NEW value, NEW t, IsTokenizer(t), IsFieldValue(t, value), InTime(value)
  PROVE  DOMAIN FieldOf(t, value).tokens = {TokenOf(t, key) : key \in Keys(t, value)}
<1>. DEFINE K == Keys(t, value)
            D == DOMAIN FieldOf(t, value).tokens
<1>1. /\ IsValue(value)
      /\ value.int \subseteq Integer /\ AtMostOne(value.int)
      /\ value.float \subseteq Float /\ AtMostOne(value.float)
      /\ value.time \subseteq Integer /\ AtMostOne(value.time)
  BY DEF IsFieldValue, IsValue, InTime
<1>2. ASSUME NEW v PROVE DOMAIN OneToken(v).tokens = {v}
  BY DEF OneToken
<1>3. CASE t = "keyword"
  <2>1. FieldOf(t, value) = OneToken(Bytes(value.text)) /\ K = {Bytes(value.text)}
    BY <1>3 DEF FieldOf, Keys
  <2>2. {TokenOf(t, key) : key \in K} = {Bytes(value.text)}
    BY <1>3, <2>1 DEF TokenOf, TextTokenizers
  <2>. QED BY <1>2, <2>1, <2>2
<1>4. CASE t = "words" \/ t = "meaning"
  <2>. DEFINE w == Tokenize(t, value)
              V == {TokenOf(t, key) : key \in K}
              kept == {k \in DOMAIN w : w[k] # 0}
  <2>1. FieldOf(t, value) = TextField(w)
    BY <1>4 DEF FieldOf
  <2>2. Spells(w, V)
    BY <1>1, TokensAre
  <2>3. V = K
    BY <1>4 DEF TokenOf, TextTokenizers
  <2>4. K \subseteq TermsIn(value.text)
    BY <1>4 DEF Keys, TermsIn
  <2>5. \A v \in TermsIn(value.text) : v # 0
    <3>1. \A v \in TermsIn(value.text) : v \in Nat /\ v > Full
      BY <1>1 DEF IsValue, TermsIn, IsTerm
    <3>. QED BY <3>1, NumericAssumption DEF Full
  <2>6. \A v \in V : v # 0
    BY <2>3, <2>4, <2>5
  <2>7. DOMAIN TextField(w).tokens = {w[k] : k \in kept}
    BY DEF TextField
  <2>. HIDE DEF w, V
  <2>8. DOMAIN w = 1 .. Len(w) /\ \A k \in 1 .. Len(w) : w[k] \in V
    BY <2>2, SpelledAt
  <2>9. V = {w[k] : k \in 1 .. Len(w)}
    BY <2>2, SpelledAt
  <2>10. kept = 1 .. Len(w)
    BY <2>6, <2>8
  <2>11. D = V
    BY <2>1, <2>7, <2>9, <2>10
  <2>. QED BY <2>11 DEF V
<1>5. CASE t = "integer"
  <2>1. PICK n : n \in value.int
    BY <1>5 DEF IsFieldValue
  <2>2. value.int = {n} /\ Number(value.int) = n
    BY <1>1, <2>1, NumberIs
  <2>3. PutSortableInteger(n) = n + Half
    BY <1>1, <2>1, MovedUp
  <2>4. FieldOf(t, value) = OneToken(Encoded(n + Half)) /\ K = {n}
    BY <1>5, <2>2, <2>3 DEF FieldOf, Keys
  <2>5. {TokenOf(t, key) : key \in K} = {Encoded(n + Half)}
    BY <1>5, <2>4 DEF TokenOf, TextTokenizers
  <2>. QED BY <1>2, <2>4, <2>5
<1>6. CASE t = "float"
  <2>1. PICK x : x \in value.float
    BY <1>6 DEF IsFieldValue
  <2>2. value.float = {x} /\ Number(value.float) = x
    BY <1>1, <2>1, NumberIs
  <2>3. PutSortableFloat(x) = Rank(x) + Half
    BY <1>1, <2>1, MovedUp
  <2>4. FieldOf(t, value) = OneToken(Encoded(Rank(x) + Half)) /\ K = {Rank(x)}
    BY <1>6, <2>2, <2>3 DEF FieldOf, Keys
  <2>5. {TokenOf(t, key) : key \in K} = {Encoded(Rank(x) + Half)}
    BY <1>6, <2>4 DEF TokenOf, TextTokenizers
  <2>. QED BY <1>2, <2>4, <2>5
<1>7. CASE t = "date"
  <2>1. PICK n : n \in value.time
    BY <1>7 DEF IsFieldValue
  <2>2. value.time = {n} /\ Number(value.time) = n
    BY <1>1, <2>1, NumberIs
  <2>3. PutSortableInteger(UnixNano(n)) = n + Half
    BY <1>1, <2>1, MovedUp
  <2>4. FieldOf(t, value) = OneToken(Encoded(n + Half)) /\ K = {n}
    BY <1>7, <2>2, <2>3 DEF FieldOf, Keys
  <2>5. {TokenOf(t, key) : key \in K} = {Encoded(n + Half)}
    BY <1>7, <2>4 DEF TokenOf, TextTokenizers
  <2>. QED BY <1>2, <2>4, <2>5
<1>. QED BY <1>3, <1>4, <1>5, <1>6, <1>7 DEF IsTokenizer, TextTokenizers, NumberTokenizers

(* What can be a key.                                                      *)
KeySpace(t) == IF t \in TextTokenizers THEN Nat ELSE Integer

(* The keys of a value, none of a text taken for a number.               *)
LEMMA KeysAre ==
  ASSUME NEW value, IsValue(value), InTime(value), NEW t, IsTokenizer(t)
  PROVE  /\ Keys(t, value) \subseteq KeySpace(t)
         /\ t \in TextTokenizers => \A key \in Keys(t, value) : key = 0 \/ key > Full
<1>1. /\ value.int \subseteq Integer /\ value.time \subseteq Integer
      /\ \A x \in value.float : Rank(x) \in Integer
  BY MovedUp DEF IsValue, InTime
<1>2. ~(t \in TextTokenizers) =>
        /\ t \in {"integer", "float", "date"} /\ KeySpace(t) = Integer
  BY DEF IsTokenizer, NumberTokenizers, KeySpace
<1>3. CASE t = "keyword"
  <2>1. Keys(t, value) = {Bytes(value.text)} /\ KeySpace(t) = Nat
    BY <1>3 DEF Keys, KeySpace, TextTokenizers
  <2>2. value.text # << >> => Bytes(value.text) \in Nat /\ Bytes(value.text) > Full
    BY DEF IsValue, IsTerm
  <2>3. value.text = << >> => Bytes(value.text) = 0
    BY TokenizerAssumption
  <2>. QED BY <2>1, <2>2, <2>3
<1>4. CASE t = "words" \/ t = "meaning"
  <2>1. Keys(t, value) \subseteq TermsIn(value.text) /\ KeySpace(t) = Nat
    BY <1>4 DEF Keys, KeySpace, TextTokenizers, TermsIn
  <2>2. \A v \in TermsIn(value.text) : v \in Nat /\ v > Full
    BY DEF IsValue, TermsIn, IsTerm
  <2>. QED BY <2>1, <2>2
<1>5. CASE t \in {"integer", "float", "date"}
  <2>1. KeySpace(t) = Integer /\ ~(t \in TextTokenizers)
    BY <1>5 DEF KeySpace, TextTokenizers
  <2>2. Keys(t, value) \subseteq Integer
    BY <1>1, <1>5 DEF Keys
  <2>. QED BY <2>1, <2>2
<1>. QED BY <1>2, <1>3, <1>4, <1>5 DEF TextTokenizers

(* Tokens are in the order of their keys.                                  *)
LEMMA TokensInOrder ==
  ASSUME NEW t, NEW k \in KeySpace(t), NEW l \in KeySpace(t)
  PROVE  /\ TokenOf(t, k) \in Nat /\ k \in Int
         /\ TokenOf(t, k) < TokenOf(t, l) <=> k < l
         /\ TokenOf(t, k) = TokenOf(t, l) <=> k = l
         /\ t \notin TextTokenizers => TokenOf(t, k) \in 1 .. Full
<1>1. Half \in Nat \ {0} /\ Full = 2 * Half
  BY NumericAssumption DEF Full
<1>2. CASE t \in TextTokenizers
  BY <1>2 DEF KeySpace, TokenOf
<1>3. CASE t \notin TextTokenizers
  BY <1>1, <1>3 DEF KeySpace, TokenOf, Encoded, Integer
<1>. QED BY <1>2, <1>3

-----------------------------------------------------------------------------
(***************************************************************************)
(* Queries: the clauses that a query string is compiled to.                *)
(***************************************************************************)
(* One sequence after the other.                                           *)
LEMMA SpelledTogether ==
  ASSUME NEW V, NEW W, NEW s, NEW t, Spells(s, V), Spells(t, W)
  PROVE  Spells(s \o t, V \union W)
<1>. DEFINE U == V \union W
            m == Len(s)
            n == Len(t)
            c == s \o t
<1>1. /\ m \in Nat /\ V = {s[k] : k \in 1 .. m}
      /\ n \in Nat /\ W = {t[k] : k \in 1 .. n}
  BY SpelledAt
<1>2. s \in Seq(U) /\ t \in Seq(U)
  <2>1. s \in Seq(V) /\ t \in Seq(W) /\ V \subseteq U /\ W \subseteq U
    BY DEF Spells
  <2>. HIDE DEF U
  <2>. QED BY <2>1
<1>. HIDE DEF U
<1>3. /\ c \in Seq(U) /\ Len(c) = m + n
      /\ \A k \in 1 .. m : c[k] = s[k]
      /\ \A k \in 1 .. n : c[m + k] = t[k]
  BY <1>2
<1>. HIDE DEF c, m, n
<1>4. DOMAIN c = 1 .. m + n
  BY <1>3
<1>5. {c[k] : k \in 1 .. m + n} = V \union W
  <2>1. ASSUME NEW k \in 1 .. m + n PROVE c[k] \in V \union W
    <3>1. k \in 1 .. m \/ k - m \in 1 .. n
      BY <1>1
    <3>2. CASE k \in 1 .. m
      BY <1>1, <1>3, <3>2
    <3>3. CASE k - m \in 1 .. n
      <4>1. m + (k - m) = k
        BY <1>1
      <4>. QED BY <1>1, <1>3, <3>3, <4>1
    <3>. QED BY <3>1, <3>2, <3>3
  <2>2. \A x \in V : \E k \in 1 .. m + n : c[k] = x
    <3>1. \A k \in 1 .. m : k \in 1 .. m + n
      BY <1>1
    <3>. QED BY <1>1, <1>3, <3>1
  <2>3. \A x \in W : \E k \in 1 .. m + n : c[k] = x
    <3>1. \A k \in 1 .. n : m + k \in 1 .. m + n
      BY <1>1
    <3>. QED BY <1>1, <1>3, <3>1
  <2>. QED BY <2>1, <2>2, <2>3
<1>6. ToSet(c) = V \union W
  BY <1>4, <1>5 DEF ToSet
<1>. QED BY <1>3, <1>6 DEF Spells, c, U

(* The entries at some of the positions of a table.                        *)
LEMMA SelectedSpelled ==
  ASSUME NEW n \in Nat, NEW table, NEW I \in SUBSET (1 .. n)
  PROVE  Spells(Selected(table, I), {table[k] : k \in I})
<1>. DEFINE m == Cardinality(I)
            at == Ascending(I)
            sub == Selected(table, I)
<1>1. IsFiniteSet(I) /\ Numbers(I) /\ m \in Nat
  <2>1. IsFiniteSet(1 .. n)
    BY FS_Interval
  <2>2. IsFiniteSet(I)
    BY <2>1, FS_Subset
  <2>3. Numbers(I)
    BY DEF Numbers
  <2>. QED BY <2>2, <2>3, FS_CardinalityType
<1>2. Lists(at, I) /\ Len(at) = m
  BY <1>1, AscendingLists
<1>3. at \in [1 .. m -> I] /\ \A x \in I : \E k \in 1 .. m : at[k] = x
  BY <1>2 DEF Lists
<1>4. sub = [k \in 1 .. m |-> table[at[k]]]
  BY <1>3 DEF Selected
<1>. HIDE DEF m, at, sub
<1>5. sub = [k \in 1 .. m |-> sub[k]] /\ \A k \in 1 .. m : sub[k] = table[at[k]]
  BY <1>4
<1>6. {sub[k] : k \in 1 .. m} = {table[k] : k \in I}
  BY <1>3, <1>5
<1>7. Spells(sub, {sub[k] : k \in 1 .. m})
  BY <1>1, <1>5, SpellsSays
<1>. QED BY <1>6, <1>7 DEF sub

(* Keywords, scoped keywords and ranges apart are all entries there are.   *)
EntryKinds == {"keyword", "fieldKeyword", "fieldRange"}

(* A clause has the entries that it is made of.                          *)
LEMMA ClauseSpelled ==
  ASSUME NEW V, NEW entries, Spells(entries, V), \A e \in V : e.kind \in EntryKinds
  PROVE  Spells(Clause(entries), V)
<1>. DEFINE n == Len(entries)
            At(kind) == {k \in DOMAIN entries : entries[k].kind = kind}
            Of(kind) == {entries[k] : k \in At(kind)}
<1>1. /\ n \in Nat /\ DOMAIN entries = 1 .. n
      /\ \A k \in 1 .. n : entries[k] \in V
      /\ V = {entries[k] : k \in 1 .. n}
  BY SpelledAt
<1>. HIDE DEF n
<1>2. ASSUME NEW kind PROVE Spells(Selected(entries, At(kind)), Of(kind))
  <2>1. At(kind) \in SUBSET (1 .. n)
    BY <1>1
  <2>. HIDE DEF At
  <2>. QED BY <1>1, <2>1, SelectedSpelled
<1>. DEFINE a == Selected(entries, At("keyword"))
            b == Selected(entries, At("fieldKeyword"))
            c == Selected(entries, At("fieldRange"))
<1>3. Clause(entries) = a \o b \o c
  BY DEF Clause
<1>4. Spells(a, Of("keyword")) /\ Spells(b, Of("fieldKeyword")) /\ Spells(c, Of("fieldRange"))
  <2>. HIDE DEF Of, At
  <2>. QED BY <1>2
<1>5. V = (Of("keyword") \union Of("fieldKeyword")) \union Of("fieldRange")
  <2>1. ASSUME NEW x \in V
        PROVE  x \in Of("keyword") \/ x \in Of("fieldKeyword") \/ x \in Of("fieldRange")
    <3>1. PICK k \in 1 .. n : x = entries[k]
      BY <1>1
    <3>2. k \in At(x.kind)
      BY <1>1, <3>1
    <3>3. x \in Of(x.kind)
      BY <3>1, <3>2
    <3>4. x.kind = "keyword" \/ x.kind = "fieldKeyword" \/ x.kind = "fieldRange"
      BY DEF EntryKinds
    <3>. HIDE DEF Of
    <3>. QED BY <3>3, <3>4
  <2>2. ASSUME NEW kind PROVE Of(kind) \subseteq V
    BY <1>1
  <2>. HIDE DEF Of
  <2>. QED BY <2>1, <2>2
<1>. HIDE DEF a, b, c, Of
<1>6. Spells(a \o b, Of("keyword") \union Of("fieldKeyword"))
  BY <1>4, SpelledTogether
<1>7. Spells((a \o b) \o c, V)
  BY <1>4, <1>5, <1>6, SpelledTogether
<1>. QED BY <1>3, <1>7

(* Sequences in a row: the equation of FlattenSeq.                         *)
Flat(f, seqs, m) ==
  f = [i \in 1 .. m |-> IF i = 1 THEN seqs[i] ELSE f[i - 1] \o seqs[i]]

(* It has a solution.                                                    *)
LEMMA FlatExists ==
  ASSUME NEW seqs
  PROVE  \A m \in Nat : \E f : Flat(f, seqs, m)
<1>. DEFINE S == {m \in Nat : \E f : Flat(f, seqs, m)}
<1>1. 0 \in S
  <2>. DEFINE f == [i \in {} |-> i]
  <2>1. 1 .. 0 = {}
    OBVIOUS
  <2>2. Flat(f, seqs, 0)
    BY <2>1 DEF Flat
  <2>. HIDE DEF f
  <2>. QED BY <2>2
<1>2. ASSUME NEW m \in Nat, m \in S PROVE m + 1 \in S
  <2>1. PICK f : Flat(f, seqs, m)
    BY <1>2
  <2>. DEFINE g == [i \in 1 .. m + 1 |->
                      IF i = m + 1 THEN (IF i = 1 THEN seqs[i] ELSE f[m] \o seqs[i]) ELSE f[i]]
  <2>2. \A i \in 1 .. m + 1 : i = m + 1 \/ i \in 1 .. m
    OBVIOUS
  <2>3. \A i \in 1 .. m : g[i] = f[i] /\ i \in 1 .. m + 1
    OBVIOUS
  <2>4. g[m + 1] = IF m + 1 = 1 THEN seqs[m + 1] ELSE f[m] \o seqs[m + 1]
    OBVIOUS
  <2>5. \A i \in 1 .. m : f[i] = IF i = 1 THEN seqs[i] ELSE f[i - 1] \o seqs[i]
    BY <2>1 DEF Flat
  <2>6. g = [i \in 1 .. m + 1 |-> g[i]]
    OBVIOUS
  <2>. HIDE DEF g
  <2>7. ASSUME NEW i \in 1 .. m + 1
        PROVE  g[i] = IF i = 1 THEN seqs[i] ELSE g[i - 1] \o seqs[i]
    <3>1. CASE i = 1
      BY <2>2, <2>3, <2>4, <2>5, <3>1
    <3>2. CASE i # 1
      <4>1. i - 1 \in 1 .. m
        BY <3>2
      <4>2. g[i - 1] = f[i - 1]
        BY <2>3, <4>1
      <4>3. CASE i = m + 1
        <5>1. i - 1 = m /\ m + 1 # 1
          BY <3>2, <4>3
        <5>. QED BY <2>4, <3>2, <4>2, <4>3, <5>1
      <4>4. CASE i \in 1 .. m
        BY <2>3, <2>5, <3>2, <4>2, <4>4
      <4>. QED BY <2>2, <4>3, <4>4
    <3>. QED BY <3>1, <3>2
  <2>8. Flat(g, seqs, m + 1)
    BY <2>6, <2>7 DEF Flat
  <2>. QED BY <2>8
<1>. HIDE DEF S
<1>3. \A m \in Nat : m \in S
  BY <1>1, <1>2, NatInductive
<1>. QED BY <1>3 DEF S

(* They have the members of each.                                          *)
LEMMA FlatSpelled ==
  ASSUME NEW n \in Nat, NEW seqs, seqs = [k \in 1 .. n |-> seqs[k]],
         \A k \in 1 .. n : Spells(seqs[k], ToSet(seqs[k]))
  PROVE  Spells(FlattenSeq(seqs), UNION {ToSet(seqs[k]) : k \in 1 .. n})
<1>. DEFINE All(m) == UNION {ToSet(seqs[k]) : k \in 1 .. m}
            f == CHOOSE g : Flat(g, seqs, n)
            S == {m \in Nat : m \in 1 .. n => Spells(f[m], All(m))}
<1>1. Len(seqs) = n
  BY SpellsSays
<1>2. FlattenSeq(seqs) = IF n = 0 THEN seqs ELSE f[n]
  BY <1>1 DEF FlattenSeq, Flat
<1>3. \A i \in 1 .. n : f[i] = IF i = 1 THEN seqs[i] ELSE f[i - 1] \o seqs[i]
  <2>1. Flat(f, seqs, n)
    BY FlatExists
  <2>. HIDE DEF f
  <2>. QED BY <2>1 DEF Flat
<1>. HIDE DEF f
<1>4. CASE n = 0
  <2>1. 1 .. n = {}
    BY <1>4
  <2>2. Spells(seqs, {seqs[k] : k \in 1 .. n})
    BY SpellsSays
  <2>3. {seqs[k] : k \in 1 .. n} = {} /\ All(n) = {}
    BY <2>1
  <2>. HIDE DEF All
  <2>4. Spells(FlattenSeq(seqs), All(n))
    BY <1>2, <1>4, <2>2, <2>3
  <2>. QED BY <2>4 DEF All
<1>5. CASE n # 0
  <2>1. 0 \in S
    OBVIOUS
  <2>2. ASSUME NEW m \in Nat, m \in S PROVE m + 1 \in S
    <3>. SUFFICES ASSUME m + 1 \in 1 .. n PROVE Spells(f[m + 1], All(m + 1))
      OBVIOUS
    <3>1. All(m + 1) = All(m) \union ToSet(seqs[m + 1])
      <4>1. \A k \in 1 .. m + 1 : k = m + 1 \/ k \in 1 .. m
        OBVIOUS
      <4>2. m + 1 \in 1 .. m + 1 /\ \A k \in 1 .. m : k \in 1 .. m + 1
        OBVIOUS
      <4>. QED BY <4>1, <4>2
    <3>2. CASE m = 0
      <4>1. f[m + 1] = seqs[m + 1]
        BY <1>3, <3>2
      <4>2. All(m) = {}
        BY <3>2
      <4>. HIDE DEF All
      <4>3. All(m + 1) = ToSet(seqs[m + 1])
        BY <3>1, <4>2
      <4>. QED BY <4>1, <4>3
    <3>3. CASE m # 0
      <4>1. m \in 1 .. n /\ (m + 1) - 1 = m /\ m + 1 # 1
        BY <3>3
      <4>2. Spells(f[m], All(m))
        BY <2>2, <4>1
      <4>3. f[m + 1] = f[m] \o seqs[m + 1]
        BY <1>3, <4>1
      <4>. HIDE DEF All
      <4>4. Spells(f[m] \o seqs[m + 1], All(m) \union ToSet(seqs[m + 1]))
        BY <4>2, SpelledTogether
      <4>. QED BY <3>1, <4>3, <4>4
    <3>. QED BY <3>2, <3>3
  <2>3. n \in S
    <3>. HIDE DEF S
    <3>. QED BY <2>1, <2>2, NatInductive
  <2>4. n \in 1 .. n
    BY <1>5
  <2>5. Spells(f[n], All(n))
    BY <2>3, <2>4
  <2>. HIDE DEF All
  <2>6. Spells(FlattenSeq(seqs), All(n))
    BY <1>2, <1>5, <2>5
  <2>. QED BY <2>6 DEF All
<1>. QED BY <1>4, <1>5

(* The entries of one dork.                                                *)
EntrySet(dork, reader) ==
  LET t == DorkTokenizer(dork, reader)
  IN  {EntryFor(dork, reader, TokenOf(t, key)) : key \in KeysWanted(dork, reader)}

(* A tokenizer is picked for every dork and every field.                 *)
LEMMA DorkTokenizerIs ==
  ASSUME NEW reader, IsReader(reader), NEW dork
  PROVE  /\ IsTokenizer(DorkTokenizer(dork, reader))
         /\ dork.match = "bare" => DorkTokenizer(dork, reader) \in TextTokenizers
         /\ \A f : IsTokenizer(PickTokenizer(reader, f))
<1>1. \A f : PickTokenizer(reader, f) \in TextTokenizers \union NumberTokenizers
  BY DEF IsReader, PickTokenizer, TextTokenizers
<1>2. dork.match = "bare" => DorkTokenizer(dork, reader) \in TextTokenizers
  BY DEF IsReader, DorkTokenizer, TextTokenizers
<1>3. DorkTokenizer(dork, reader) \in TextTokenizers \union NumberTokenizers
  BY <1>1, <1>2 DEF DorkTokenizer
<1>. QED BY <1>1, <1>2, <1>3 DEF IsTokenizer

(* Compile makes them.                                                   *)
LEMMA EntriesForAre ==
  ASSUME NEW reader, IsReader(reader), NEW dork, IsDork(dork), InTime(dork.value)
  PROVE  /\ Spells(EntriesFor(dork, reader), EntrySet(dork, reader))
         /\ \A e \in EntrySet(dork, reader) : e.kind \in EntryKinds
<1>. DEFINE t == DorkTokenizer(dork, reader)
            w == Tokenize(t, dork.value)
            V == {TokenOf(t, key) : key \in KeysWanted(dork, reader)}
            n == Len(w)
            s == EntriesFor(dork, reader)
<1>1. Spells(w, V)
  BY DorkTokenizerIs, TokensAre DEF KeysWanted, IsDork
<1>. HIDE DEF w
<1>2. n \in Nat /\ DOMAIN w = 1 .. n /\ V = {w[k] : k \in 1 .. n}
  <2>. HIDE DEF V
  <2>. QED BY <1>1, SpelledAt
<1>3. s = [k \in 1 .. n |-> EntryFor(dork, reader, w[k])]
  BY <1>2 DEF EntriesFor, w
<1>. HIDE DEF s, n
<1>4. s = [k \in 1 .. n |-> s[k]] /\ \A k \in 1 .. n : s[k] = EntryFor(dork, reader, w[k])
  BY <1>3
<1>5. Spells(s, {s[k] : k \in 1 .. n})
  BY <1>2, <1>4, SpellsSays
<1>6. {s[k] : k \in 1 .. n} = {EntryFor(dork, reader, v) : v \in V}
  <2>. HIDE DEF V
  <2>. QED BY <1>2, <1>4
<1>7. EntrySet(dork, reader) = {EntryFor(dork, reader, v) : v \in V}
  BY DEF EntrySet
<1>8. \A v : EntryFor(dork, reader, v).kind \in EntryKinds
  BY DEF EntryFor, RangeEntry, EntryKinds
<1>. HIDE DEF V
<1>. QED BY <1>5, <1>6, <1>7, <1>8 DEF s

(* The entries of the dorks with one operator.                             *)
Dorked(dorks, reader, operator) ==
  UNION {EntrySet(dork, reader) : dork \in {x \in ToSet(dorks) : x.operator = operator}}

AllFor(dorks, reader, operator) ==
  FlattenSeq([k \in DOMAIN dorks |-> IF dorks[k].operator = operator
                                     THEN EntriesFor(dorks[k], reader) ELSE << >>])

(* Compile puts them in a row.                                           *)
LEMMA AllForAre ==
  ASSUME NEW reader, IsReader(reader), NEW dorks, dorks \in Seq(ToSet(dorks)),
         \A dork \in ToSet(dorks) : IsDork(dork) /\ InTime(dork.value), NEW operator
  PROVE  /\ Spells(AllFor(dorks, reader, operator), Dorked(dorks, reader, operator))
         /\ \A e \in Dorked(dorks, reader, operator) : e.kind \in EntryKinds
<1>. DEFINE n == Len(dorks)
            D == ToSet(dorks)
            s == [k \in DOMAIN dorks |-> IF dorks[k].operator = operator
                                         THEN EntriesFor(dorks[k], reader) ELSE << >>]
            Of(dork) == IF dork.operator = operator THEN EntrySet(dork, reader) ELSE {}
<1>1. /\ n \in Nat /\ DOMAIN dorks = 1 .. n /\ D = {dorks[k] : k \in 1 .. n}
      /\ \A k \in 1 .. n : dorks[k] \in D
  <2>1. Spells(dorks, D)
    BY DEF Spells
  <2>. HIDE DEF D
  <2>. QED BY <2>1, SpelledAt
<1>2. \A dork \in D : /\ Spells(EntriesFor(dork, reader), EntrySet(dork, reader))
                      /\ \A e \in EntrySet(dork, reader) : e.kind \in EntryKinds
  BY EntriesForAre
<1>. HIDE DEF n, D
<1>3. Spells(<< >>, {})
  BY DEF Spells, ToSet
<1>4. s = [k \in 1 .. n |-> s[k]] /\ \A k \in 1 .. n : s[k] =
        IF dorks[k].operator = operator THEN EntriesFor(dorks[k], reader) ELSE << >>
  BY <1>1
<1>. HIDE DEF s
<1>5. \A k \in 1 .. n : Spells(s[k], Of(dorks[k]))
  BY <1>1, <1>2, <1>3, <1>4
<1>6. \A k \in 1 .. n : ToSet(s[k]) = Of(dorks[k]) /\ Spells(s[k], ToSet(s[k]))
  <2>. HIDE DEF Of
  <2>. QED BY <1>5 DEF Spells
<1>7. Spells(FlattenSeq(s), UNION {ToSet(s[k]) : k \in 1 .. n})
  <2>1. n \in Nat /\ s = [k \in 1 .. n |-> s[k]]
    BY <1>1, <1>4
  <2>2. \A k \in 1 .. n : Spells(s[k], ToSet(s[k]))
    BY <1>6
  <2>. QED BY ONLY <2>1, <2>2, FlatSpelled
<1>8. Dorked(dorks, reader, operator) = UNION {Of(dork) : dork \in D}
  BY DEF Dorked, D
<1>9. UNION {ToSet(s[k]) : k \in 1 .. n} = UNION {Of(dork) : dork \in D}
  <2>. HIDE DEF Of
  <2>. QED BY <1>1, <1>6
<1>10. \A e \in Dorked(dorks, reader, operator) : e.kind \in EntryKinds
  BY <1>2, <1>8
<1>11. AllFor(dorks, reader, operator) = FlattenSeq(s)
  BY DEF AllFor, s
<1>. HIDE DEF Of
<1>. QED BY <1>7, <1>8, <1>9, <1>10, <1>11

(* The clauses of a query string.                                          *)
LEMMA CompiledAre ==
  ASSUME NEW reader, IsReader(reader), NEW dorks, dorks \in Seq(ToSet(dorks)),
         \A dork \in ToSet(dorks) : IsDork(dork) /\ InTime(dork.value)
  PROVE  /\ Spells(Compile(dorks, reader).musts, Dorked(dorks, reader, "+"))
         /\ Spells(Compile(dorks, reader).mustNots, Dorked(dorks, reader, "-"))
         /\ Spells(Compile(dorks, reader).shoulds, Dorked(dorks, reader, ""))
<1>1. ASSUME NEW operator
      PROVE  Spells(Clause(AllFor(dorks, reader, operator)), Dorked(dorks, reader, operator))
  BY AllForAre, ClauseSpelled
<1>2. /\ Compile(dorks, reader).musts = Clause(AllFor(dorks, reader, "+"))
      /\ Compile(dorks, reader).mustNots = Clause(AllFor(dorks, reader, "-"))
      /\ Compile(dorks, reader).shoulds = Clause(AllFor(dorks, reader, ""))
  BY DEF Compile, AllFor
<1>. QED BY <1>1, <1>2

-----------------------------------------------------------------------------
(***************************************************************************)
(* What is found: a document has the token of a key that is asked for when *)
(* a value of its own has the key.                                         *)
(***************************************************************************)
(* The d-th document is made from the d-th raw one.                        *)
MadeFrom(doc, values, reader) ==
  /\ DOMAIN doc.fields = DOMAIN values
  /\ \A f \in DOMAIN values : doc.fields[f] = FieldOf(PickTokenizer(reader, f), values[f])

(* Those of a batch are.                                                 *)
LEMMA DocumentsMade ==
  ASSUME NEW asked, NEW D, D = Batch(asked.raw, Tokenizers(asked.reader, asked.raw))
  PROVE  /\ DOMAIN D = DOMAIN asked.raw
         /\ \A k \in DOMAIN D : MadeFrom(D[k], asked.raw[k].values, asked.reader)
<1>. DEFINE T == Tokenizers(asked.reader, asked.raw)
<1>1. DOMAIN D = DOMAIN asked.raw
  BY DEF Batch
<1>2. \A k \in DOMAIN asked.raw : \A f \in DOMAIN asked.raw[k].values :
        T[f] = PickTokenizer(asked.reader, f)
  BY DEF Tokenizers
<1>3. ASSUME NEW k \in DOMAIN asked.raw
      PROVE  D[k] = [id     |-> asked.raw[k].id,
                     fields |-> [f \in DOMAIN asked.raw[k].values |->
                                   FieldOf(T[f], asked.raw[k].values[f])]]
  <2>. HIDE DEF T
  <2>. QED BY DEF Batch, T
<1>. HIDE DEF T
<1>4. ASSUME NEW k \in DOMAIN asked.raw
      PROVE  MadeFrom(D[k], asked.raw[k].values, asked.reader)
  <2>. DEFINE vals == asked.raw[k].values
              fields == D[k].fields
  <2>1. fields = [f \in DOMAIN vals |-> FieldOf(T[f], vals[f])]
    <3>. DEFINE g == [f \in DOMAIN vals |-> FieldOf(T[f], vals[f])]
                i == asked.raw[k].id
    <3>1. D[k] = [id |-> i, fields |-> g]
      BY ONLY <1>3
    <3>. HIDE DEF g, i
    <3>. QED BY <3>1 DEF g
  <2>2. \A f \in DOMAIN vals : T[f] = PickTokenizer(asked.reader, f)
    BY <1>2
  <2>. HIDE DEF vals, fields
  <2>3. DOMAIN fields = DOMAIN vals /\ \A f \in DOMAIN vals : fields[f] = FieldOf(T[f], vals[f])
    BY <2>1
  <2>4. \A f \in DOMAIN vals : fields[f] = FieldOf(PickTokenizer(asked.reader, f), vals[f])
    BY <2>2, <2>3
  <2>. QED BY <2>3, <2>4 DEF MadeFrom, vals, fields
<1>. QED BY <1>1, <1>4

(* A value has a key in a field, and the document its token.               *)
LEMMA TokensMade ==
  ASSUME NEW reader, IsReader(reader), NEW values, NEW doc, MadeFrom(doc, values, reader),
         \A f \in DOMAIN values : /\ IsFieldValue(PickTokenizer(reader, f), values[f])
                                  /\ InTime(values[f])
  PROVE  \A f, v : HasToken(doc, f, v) <=>
           /\ f \in DOMAIN values
           /\ \E k \in Keys(PickTokenizer(reader, f), values[f]) :
                v = TokenOf(PickTokenizer(reader, f), k)
<1>1. \A f : IsTokenizer(PickTokenizer(reader, f))
  BY DorkTokenizerIs
<1>2. ASSUME NEW f \in DOMAIN values
      PROVE  DOMAIN doc.fields[f].tokens =
               {TokenOf(PickTokenizer(reader, f), key) :
                  key \in Keys(PickTokenizer(reader, f), values[f])}
  BY <1>1, FieldTokensAre DEF MadeFrom
<1>. QED BY <1>2 DEF HasToken, MadeFrom

(* A token of a document is a value of the field.                          *)
LEMMA TokenIsValue ==
  ASSUME NEW D, NEW k \in DOMAIN D, NEW f, NEW v, HasToken(D[k], f, v)
  PROVE  v \in ValuesOf(D, f) /\ f \in FieldsOf(D)
BY DEF HasToken, ValuesOf, FieldsOf

(* A keyword that is not fuzzy means its own value.                        *)
LEMMA KeywordMeets ==
  ASSUME NEW d, d + 1 \in DOMAIN docs, NEW e,
         e.kind \in {"keyword", "fieldKeyword"}, e.fuzzy = 0, NEW f
  PROVE  MeetsIn(d, e, f) <=> HasToken(docs[d + 1], f, e.value)
<1>. DEFINE k == IF e.fuzzy < LevenshteinMaxK THEN e.fuzzy ELSE LevenshteinMaxK
            V == ValuesOf(docs, f)
            S == {v \in V : k > 0 /\ v - e.value \in (-k) .. k}
<1>1. k = 0
  BY QueryAssumption
<1>2. S = {}
  <2>1. ~(k > 0)
    BY <1>1
  <2>. HIDE DEF k
  <2>. QED BY <2>1
<1>3. Least(S, LevenshteinM) = {}
  BY <1>2 DEF Least
<1>4. Meant(e, f) = IF e.value \in V THEN {e.value} ELSE Least(S, LevenshteinM)
  BY DEF Meant
<1>. HIDE DEF S, k
<1>5. Meant(e, f) = IF e.value \in V THEN {e.value} ELSE {}
  BY <1>3, <1>4
<1>6. HasToken(docs[d + 1], f, e.value) => e.value \in V
  BY TokenIsValue
<1>. QED BY <1>5, <1>6 DEF MeetsIn

(* What is between the ends of a range.                                    *)
Within(r, v) ==
  /\ r.low # Open => IF r.mode \in {"left", "both"} THEN v >= r.low ELSE v > r.low
  /\ r.high # Open => IF r.mode \in {"right", "both"} THEN v <= r.high ELSE v < r.high

(* A range means the tokens between its ends.                            *)
LEMMA RangeMeets ==
  ASSUME NEW d, d + 1 \in DOMAIN docs, NEW e, e.kind = "fieldRange", NEW f
  PROVE  MeetsIn(d, e, f) <=> \E v : HasToken(docs[d + 1], f, v) /\ Within(e, v)
<1>1. Meant(e, f) = {v \in ValuesOf(docs, f) : Within(e, v)}
  BY DEF Meant, Interval, Within
<1>2. \A v : HasToken(docs[d + 1], f, v) => v \in ValuesOf(docs, f)
  BY TokenIsValue
<1>. QED BY <1>1, <1>2 DEF MeetsIn

(* A range from or to a key has the keys that compare so.                  *)
LEMMA KeysWithin ==
  ASSUME NEW t, NEW k \in KeySpace(t), NEW key \in KeySpace(t), TokenOf(t, key) # 0,
         NEW match \in {">", ">=", "<", "<="}, NEW f, NEW boost
  PROVE  Within(RangeEntry(f, match, TokenOf(t, key), boost), TokenOf(t, k))
           <=> Compared(match, k, key)
<1>. DEFINE x == TokenOf(t, k)
            y == TokenOf(t, key)
            r == RangeEntry(f, match, y, boost)
<1>1. /\ x \in Nat /\ y \in Nat /\ k \in Int /\ key \in Int
      /\ x < y <=> k < key
      /\ x = y <=> k = key
  BY TokensInOrder
<1>2. Open = 0
  BY SoughtAssumption
<1>3. y # Open
  BY <1>2
<1>. HIDE DEF x, y
<1>4. CASE match = ">"
  <2>1. r.low = y /\ r.high = Open /\ r.mode = "right"
    BY <1>4 DEF RangeEntry
  <2>2. Within(r, x) <=> x > y
    BY <1>3, <2>1 DEF Within
  <2>. QED BY <1>1, <1>4, <2>2 DEF Compared, x, y
<1>5. CASE match = ">="
  <2>1. r.low = y /\ r.high = Open /\ r.mode = "both"
    BY <1>5 DEF RangeEntry
  <2>2. Within(r, x) <=> x >= y
    BY <1>3, <2>1 DEF Within
  <2>. QED BY <1>1, <1>5, <2>2 DEF Compared, x, y
<1>6. CASE match = "<"
  <2>1. r.low = Open /\ r.high = y /\ r.mode = "left"
    BY <1>6 DEF RangeEntry
  <2>2. Within(r, x) <=> x < y
    BY <1>3, <2>1 DEF Within
  <2>. QED BY <1>1, <1>6, <2>2 DEF Compared, x, y
<1>7. CASE match = "<="
  <2>1. r.low = Open /\ r.high = y /\ r.mode = "both"
    BY <1>7 DEF RangeEntry
  <2>2. Within(r, x) <=> x <= y
    BY <1>3, <2>1 DEF Within
  <2>. QED BY <1>1, <1>7, <2>2 DEF Compared, x, y
<1>. QED BY <1>4, <1>5, <1>6, <1>7

(* A document meets the entry of a key when one of its values has it.      *)
LEMMA KeyIsMet ==
  ASSUME NEW reader, IsReader(reader), NEW dork, IsDork(dork), InTime(dork.value),
         dork.fuzzy = {}, NEW values,
         \A f \in DOMAIN values : /\ IsFieldValue(PickTokenizer(reader, f), values[f])
                                  /\ InTime(values[f]),
         NEW d, d + 1 \in DOMAIN docs, MadeFrom(docs[d + 1], values, reader),
         DOMAIN seg.fields = FieldsOf(docs), NEW key \in KeysWanted(dork, reader)
  PROVE  Meets(d, EntryFor(dork, reader, TokenOf(DorkTokenizer(dork, reader), key)))
           <=> HasKey(dork, reader, values, key)
<1>. DEFINE t == DorkTokenizer(dork, reader)
            pt(f) == PickTokenizer(reader, f)
            v == TokenOf(t, key)
            e == EntryFor(dork, reader, v)
            Has2(f, x) == HasToken(docs[d + 1], f, x)
            K(f) == Keys(pt(f), values[f])
<1>1. /\ IsTokenizer(t) /\ (dork.match = "bare" => t \in TextTokenizers)
      /\ \A f : IsTokenizer(pt(f))
  BY DorkTokenizerIs
<1>2. /\ key \in KeySpace(t)
      /\ t \in TextTokenizers => key = 0 \/ key > Full
  BY <1>1, KeysAre DEF KeysWanted, IsDork
<1>3. \A f \in DOMAIN values :
        /\ K(f) \subseteq KeySpace(pt(f))
        /\ pt(f) \in TextTokenizers => \A k \in K(f) : k = 0 \/ k > Full
  BY <1>1, KeysAre DEF IsFieldValue
<1>4. \A f, x : Has2(f, x) <=> f \in DOMAIN values /\ \E k \in K(f) : x = TokenOf(pt(f), k)
  BY TokensMade
<1>5. \A f \in DOMAIN values : f \in DOMAIN seg.fields
  BY DEF FieldsOf, MadeFrom
<1>6. t \in TextTokenizers => v = key
  BY DEF TokenOf
<1>7. \A f : pt(f) \in TextTokenizers => \A k \in K(f) : TokenOf(pt(f), k) = k
  BY DEF TokenOf
<1>8. Given(dork.fuzzy, 0) = 0
  BY DEF Given
<1>9. HasKey(dork, reader, values, key) <=>
        \E f \in FieldsAsked(dork, reader, values) : \E k \in K(f) : Compared(dork.match, k, key)
  BY DEF HasKey
<1>10. CASE dork.match = "bare" /\ reader.allField = AllFieldNone
  <2>1. e.kind = "keyword" /\ e.value = v /\ e.fuzzy = 0
    BY <1>8, <1>10 DEF EntryFor
  <2>2. FieldsFor(e) = DOMAIN seg.fields
    BY <2>1 DEF FieldsFor
  <2>3. Meets(d, e) <=> \E f \in DOMAIN seg.fields : Has2(f, v)
    <3>. HIDE DEF e
    <3>1. \A f : MeetsIn(d, e, f) <=> Has2(f, v)
      BY <2>1, KeywordMeets
    <3>. QED BY <2>2, <3>1 DEF Meets
  <2>4. FieldsAsked(dork, reader, values) = {f \in DOMAIN values : pt(f) \in TextTokenizers}
    BY <1>10 DEF FieldsAsked
  <2>5. \A k : Compared(dork.match, k, key) <=> k = key
    BY <1>10 DEF Compared
  <2>6. ASSUME NEW f \in DOMAIN values, pt(f) \notin TextTokenizers, NEW k \in K(f)
        PROVE  TokenOf(pt(f), k) # key
    <3>1. TokenOf(pt(f), k) \in 1 .. Full
      BY <1>3, <2>6, TokensInOrder
    <3>2. key = 0 \/ key > Full
      BY <1>1, <1>2, <1>10
    <3>3. Full \in Nat
      BY NumericAssumption DEF Full
    <3>4. key \in Nat
      BY <1>1, <1>2, <1>10 DEF KeySpace
    <3>. QED BY <3>1, <3>2, <3>3, <3>4
  <2>7. v = key
    BY <1>1, <1>6, <1>10
  <2>8. \A f \in DOMAIN values : \A k \in K(f) :
          key = TokenOf(pt(f), k) <=> pt(f) \in TextTokenizers /\ k = key
    <3>. HIDE DEF pt, K
    <3>. QED BY <1>7, <2>6
  <2>. HIDE DEF e, v, pt, K, Has2
  <2>9. Meets(d, e) <=> \E f \in DOMAIN values : \E k \in K(f) : key = TokenOf(pt(f), k)
    BY <1>4, <1>5, <2>3, <2>7
  <2>10. HasKey(dork, reader, values, key) <=>
           \E f \in DOMAIN values : pt(f) \in TextTokenizers /\ \E k \in K(f) : k = key
    BY <1>9, <2>4, <2>5
  <2>. QED BY <2>8, <2>9, <2>10 DEF e, v
<1>11. CASE dork.match = "bare" /\ reader.allField # AllFieldNone
  <2>. DEFINE g == reader.allField
  <2>1. e.kind = "fieldKeyword" /\ e.field = g /\ e.value = v /\ e.fuzzy = 0
    BY <1>8, <1>11 DEF EntryFor
  <2>2. FieldsFor(e) = {g} \intersect DOMAIN seg.fields
    BY <2>1 DEF FieldsFor
  <2>3. Meets(d, e) <=> g \in DOMAIN seg.fields /\ Has2(g, v)
    <3>. HIDE DEF e
    <3>1. \A f : MeetsIn(d, e, f) <=> Has2(f, v)
      BY <2>1, KeywordMeets
    <3>. QED BY <2>2, <3>1 DEF Meets
  <2>4. FieldsAsked(dork, reader, values) = DOMAIN values \intersect {g}
    BY <1>11 DEF FieldsAsked
  <2>5. \A k : Compared(dork.match, k, key) <=> k = key
    BY <1>11 DEF Compared
  <2>6. pt(g) \in TextTokenizers
    BY <1>11 DEF IsReader
  <2>7. v = key
    BY <1>1, <1>6, <1>11
  <2>. HIDE DEF e, v, pt, K, Has2, g
  <2>8. Meets(d, e) <=> g \in DOMAIN values /\ \E k \in K(g) : k = key
    BY <1>4, <1>5, <1>7, <2>3, <2>6, <2>7
  <2>9. HasKey(dork, reader, values, key) <=> g \in DOMAIN values /\ \E k \in K(g) : k = key
    BY <1>9, <2>4, <2>5
  <2>. QED BY <2>8, <2>9 DEF e, v
<1>12. CASE dork.match = ""
  <2>. DEFINE g == dork.field
  <2>1. e.kind = "fieldKeyword" /\ e.field = g /\ e.value = v /\ e.fuzzy = 0
    BY <1>8, <1>12 DEF EntryFor
  <2>2. FieldsFor(e) = {g} \intersect DOMAIN seg.fields
    BY <2>1 DEF FieldsFor
  <2>3. Meets(d, e) <=> g \in DOMAIN seg.fields /\ Has2(g, v)
    <3>. HIDE DEF e
    <3>1. \A f : MeetsIn(d, e, f) <=> Has2(f, v)
      BY <2>1, KeywordMeets
    <3>. QED BY <2>2, <3>1 DEF Meets
  <2>4. FieldsAsked(dork, reader, values) = DOMAIN values \intersect {g}
    BY <1>12 DEF FieldsAsked
  <2>5. \A k : Compared(dork.match, k, key) <=> k = key
    BY <1>12 DEF Compared
  <2>6. pt(g) = t
    BY <1>12 DEF DorkTokenizer
  <2>7. g \in DOMAIN values => \A k \in K(g) : v = TokenOf(pt(g), k) <=> k = key
    <3>. SUFFICES ASSUME g \in DOMAIN values, NEW k \in K(g)
                  PROVE  v = TokenOf(pt(g), k) <=> k = key
      OBVIOUS
    <3>1. k \in KeySpace(t)
      BY <1>3, <2>6
    <3>. HIDE DEF t, K, pt
    <3>2. TokenOf(t, k) = TokenOf(t, key) <=> k = key
      BY <1>2, <3>1, TokensInOrder
    <3>. QED BY <2>6, <3>2
  <2>. HIDE DEF e, v, pt, K, Has2, g
  <2>8. Meets(d, e) <=> g \in DOMAIN values /\ \E k \in K(g) : k = key
    BY <1>4, <1>5, <2>3, <2>7
  <2>9. HasKey(dork, reader, values, key) <=> g \in DOMAIN values /\ \E k \in K(g) : k = key
    BY <1>9, <2>4, <2>5
  <2>. QED BY <2>8, <2>9 DEF e, v
<1>13. CASE dork.match \in {">", ">=", "<", "<="}
  <2>. DEFINE g == dork.field
              m == dork.match
              b == Given(dork.boost, 1)
  <2>1. e = RangeEntry(g, m, v, b)
    BY <1>13 DEF EntryFor
  <2>2. e.kind = "fieldRange" /\ e.field = g
    BY <2>1 DEF RangeEntry
  <2>3. FieldsFor(e) = {g} \intersect DOMAIN seg.fields
    BY <2>2 DEF FieldsFor
  <2>4. Meets(d, e) <=> g \in DOMAIN seg.fields /\ \E x : Has2(g, x) /\ Within(e, x)
    <3>. HIDE DEF e
    <3>1. \A f : MeetsIn(d, e, f) <=> \E x : Has2(f, x) /\ Within(e, x)
      BY <2>2, RangeMeets
    <3>. QED BY <2>3, <3>1 DEF Meets
  <2>5. FieldsAsked(dork, reader, values) = DOMAIN values \intersect {g}
    BY <1>13 DEF FieldsAsked
  <2>6. pt(g) = t
    BY <1>13 DEF DorkTokenizer
  <2>7. v # 0
    <3>1. CASE t \notin TextTokenizers
      <4>1. v \in 1 .. Full
        BY <1>2, <3>1, TokensInOrder
      <4>. QED BY <4>1
    <3>2. CASE t \in TextTokenizers
      <4>1. key # 0
        <5>1. dork.value.text # << >>
          BY <1>13 DEF IsDork
        <5>2. /\ IsTerm(Bytes(dork.value.text))
              /\ \A x \in TermsIn(dork.value.text) : IsTerm(x)
          BY <5>1 DEF IsDork, IsValue, TermsIn
        <5>3. Keys(t, dork.value) \subseteq {Bytes(dork.value.text)} \union TermsIn(dork.value.text)
          BY <3>2 DEF Keys, TermsIn, TextTokenizers
        <5>4. IsTerm(key)
          BY <5>2, <5>3 DEF KeysWanted
        <5>. QED BY <5>4, NumericAssumption DEF IsTerm, Full
      <4>. QED BY <1>6, <3>2, <4>1
    <3>. QED BY <3>1, <3>2
  <2>8. g \in DOMAIN values => \A k \in K(g) : Within(e, TokenOf(pt(g), k)) <=> Compared(m, k, key)
    <3>. SUFFICES ASSUME g \in DOMAIN values, NEW k \in K(g)
                  PROVE  Within(e, TokenOf(pt(g), k)) <=> Compared(m, k, key)
      OBVIOUS
    <3>1. k \in KeySpace(t)
      BY <1>3, <2>6
    <3>. HIDE DEF t, K, pt, e, g, b
    <3>2. Within(RangeEntry(g, m, TokenOf(t, key), b), TokenOf(t, k)) <=> Compared(m, k, key)
      BY <1>2, <1>13, <2>7, <3>1, KeysWithin
    <3>. QED BY <2>1, <2>6, <3>2
  <2>. HIDE DEF e, v, pt, K, Has2, g, m
  <2>9. Meets(d, e) <=> g \in DOMAIN values /\ \E k \in K(g) : Compared(m, k, key)
    BY <1>4, <1>5, <2>4, <2>8
  <2>10. HasKey(dork, reader, values, key) <=>
           g \in DOMAIN values /\ \E k \in K(g) : Compared(m, k, key)
    BY <1>9, <2>5 DEF m
  <2>. QED BY <2>9, <2>10 DEF e, v
<1>. QED BY <1>10, <1>11, <1>12, <1>13 DEF IsDork

-----------------------------------------------------------------------------
(***************************************************************************)
(* What dorks mean: the candidates are the documents that answer them.     *)
(***************************************************************************)
(* A clause is met by its entries.                                         *)
LEMMA ClauseMet ==
  ASSUME NEW d, NEW clause, NEW E, Spells(clause, E)
  PROVE  /\ MeetsAll(d, clause) <=> \A e \in E : Meets(d, e)
         /\ MeetsSome(d, clause) <=> \E e \in E : Meets(d, e)
         /\ clause = << >> <=> E = {}
<1>1. /\ Len(clause) \in Nat /\ DOMAIN clause = 1 .. Len(clause)
      /\ E = {clause[k] : k \in 1 .. Len(clause)}
  BY SpelledAt
<1>2. clause = << >> <=> E = {}
  <2>1. clause = << >> <=> Len(clause) = 0
    BY DEF Spells
  <2>2. Len(clause) = 0 <=> E = {}
    <3>. DEFINE n == Len(clause)
    <3>1. n \in Nat /\ E = {clause[k] : k \in 1 .. n}
      BY <1>1
    <3>. HIDE DEF n
    <3>2. n # 0 => clause[1] \in E
      BY <3>1
    <3>3. n = 0 => E = {}
      BY <3>1
    <3>. QED BY <3>2, <3>3 DEF n
  <2>. QED BY <2>1, <2>2
<1>3. MeetsAll(d, clause) <=> \A e \in E : Meets(d, e)
  BY <1>1 DEF MeetsAll
<1>4. MeetsSome(d, clause) <=> \E e \in E : Meets(d, e)
  BY <1>1 DEF MeetsSome
<1>. QED BY <1>2, <1>3, <1>4

(* Values and dorks without a date out of range, and not fuzzy.            *)
Legible(reader, values) ==
  \A f \in DOMAIN values : /\ IsFieldValue(PickTokenizer(reader, f), values[f])
                           /\ InTime(values[f])

LegibleDork(dork) == IsDork(dork) /\ InTime(dork.value) /\ dork.fuzzy = {}

(* The entries of a dork are met when its keys are there.                  *)
LEMMA DorkMet ==
  ASSUME NEW reader, IsReader(reader), NEW dork, LegibleDork(dork),
         NEW values, Legible(reader, values),
         NEW d, d + 1 \in DOMAIN docs, MadeFrom(docs[d + 1], values, reader),
         DOMAIN seg.fields = FieldsOf(docs)
  PROVE  /\ (\A e \in EntrySet(dork, reader) : Meets(d, e)) <=> HasEach(dork, reader, values)
         /\ (\E e \in EntrySet(dork, reader) : Meets(d, e)) <=> HasAny(dork, reader, values)
         /\ EntrySet(dork, reader) = {} <=> KeysWanted(dork, reader) = {}
<1>. DEFINE K == KeysWanted(dork, reader)
            G(key) == EntryFor(dork, reader, TokenOf(DorkTokenizer(dork, reader), key))
            H(key) == HasKey(dork, reader, values, key)
<1>1. \A key \in K : Meets(d, G(key)) <=> H(key)
  BY KeyIsMet DEF Legible, LegibleDork
<1>2. EntrySet(dork, reader) = {G(key) : key \in K}
  BY DEF EntrySet
<1>3. /\ HasEach(dork, reader, values) <=> \A key \in K : H(key)
      /\ HasAny(dork, reader, values) <=> \E key \in K : H(key)
  BY DEF HasEach, HasAny
<1>. HIDE DEF K, G, H
<1>. QED BY <1>1, <1>2, <1>3 DEF K

(* The query compiled from dorks asks what the dorks ask.                  *)
LEMMA QueryMeans ==
  ASSUME NEW reader, IsReader(reader), NEW dorks, dorks \in Seq(ToSet(dorks)),
         \A dork \in ToSet(dorks) : LegibleDork(dork), q = Compile(dorks, reader),
         NEW values, Legible(reader, values),
         NEW d, d + 1 \in DOMAIN docs, MadeFrom(docs[d + 1], values, reader),
         DOMAIN seg.fields = FieldsOf(docs)
  PROVE  (/\ IF q.musts # << >> THEN MeetsAll(d, q.musts) ELSE MeetsSome(d, q.shoulds)
          /\ ~MeetsSome(d, q.mustNots))
           <=> Answers(dorks, reader, values)
<1>. DEFINE X == ToSet(dorks)
            E(x) == EntrySet(x, reader)
            M(e) == Meets(d, e)
            K(x) == KeysWanted(x, reader)
            Each(x) == HasEach(x, reader, values)
            Either(x) == HasAny(x, reader, values)
            D(o) == Dorked(dorks, reader, o)
            With(o) == {x \in X : x.operator = o /\ K(x) # {}}
<1>1. /\ Spells(q.musts, D("+")) /\ Spells(q.mustNots, D("-")) /\ Spells(q.shoulds, D(""))
  BY CompiledAre DEF LegibleDork
<1>2. \A x \in X : /\ (\A e \in E(x) : M(e)) <=> Each(x)
                   /\ (\E e \in E(x) : M(e)) <=> Either(x)
                   /\ E(x) = {} <=> K(x) = {}
  BY DorkMet
<1>3. \A o : D(o) = UNION {E(x) : x \in {y \in X : y.operator = o}}
  BY DEF Dorked
<1>4. /\ MeetsAll(d, q.musts) <=> \A e \in D("+") : M(e)
      /\ MeetsSome(d, q.shoulds) <=> \E e \in D("") : M(e)
      /\ MeetsSome(d, q.mustNots) <=> \E e \in D("-") : M(e)
      /\ q.musts = << >> <=> D("+") = {}
  <2>. HIDE DEF D
  <2>. QED BY <1>1, ClauseMet
<1>5. Answers(dorks, reader, values) <=>
        /\ IF With("+") # {} THEN \A x \in With("+") : Each(x) ELSE \E x \in With("") : Either(x)
        /\ ~\E x \in With("-") : Either(x)
  BY DEF Answers
<1>. HIDE DEF X, E, M, K, Each, Either, D
<1>6. \A o : /\ (\A e \in D(o) : M(e)) <=> \A x \in With(o) : Each(x)
             /\ (\E e \in D(o) : M(e)) <=> \E x \in With(o) : Either(x)
             /\ D(o) = {} <=> With(o) = {}
  <2>. SUFFICES ASSUME NEW o
                PROVE  /\ (\A e \in D(o) : M(e)) <=> \A x \in With(o) : Each(x)
                       /\ (\E e \in D(o) : M(e)) <=> \E x \in With(o) : Either(x)
                       /\ D(o) = {} <=> With(o) = {}
    OBVIOUS
  <2>1. \A e : e \in D(o) <=> \E x \in With(o) : e \in E(x)
    BY <1>2, <1>3
  <2>2. \A x \in With(o) : /\ (\A e \in E(x) : M(e)) <=> Each(x)
                           /\ (\E e \in E(x) : M(e)) <=> Either(x)
                           /\ \E e : e \in E(x)
    BY <1>2
  <2>. HIDE DEF With
  <2>3. D(o) = {} <=> With(o) = {}
    BY <2>1, <2>2
  <2>4. (\A e \in D(o) : M(e)) <=> \A x \in With(o) : Each(x)
    BY <2>1, <2>2
  <2>5. (\E e \in D(o) : M(e)) <=> \E x \in With(o) : Either(x)
    BY <2>1, <2>2
  <2>. QED BY <2>3, <2>4, <2>5
<1>. HIDE DEF With
<1>. QED BY <1>4, <1>5, <1>6

(* What is asked now is what the documents and the query are made of.      *)
LEMMA AskedNow ==
  ASSUME NEW asked \in Now
  PROVE  /\ IsAsked(asked) /\ asked \in Sought
         /\ docs = Batch(asked.raw, Tokenizers(asked.reader, asked.raw))
         /\ q = Compile(asked.dorks, asked.reader)
<1>1. PICK c \in Compiled : c.asked = asked /\ c.docs = docs /\ c.q = q
  BY DEF Now
<1>2. PICK a \in Sought : c = [asked |-> a,
                               docs  |-> Batch(a.raw, Tokenizers(a.reader, a.raw)),
                               q     |-> Compile(a.dorks, a.reader)]
  BY <1>1 DEF Compiled
<1>3. a = asked
  <2>1. c.asked = a
    BY ONLY <1>2
  <2>. QED BY <1>1, <2>1
<1>4. /\ c.docs = Batch(a.raw, Tokenizers(a.reader, a.raw))
      /\ c.q = Compile(a.dorks, a.reader)
  <2>. DEFINE B == Batch(a.raw, Tokenizers(a.reader, a.raw))
              C == Compile(a.dorks, a.reader)
  <2>1. c = [asked |-> a, docs |-> B, q |-> C]
    BY <1>2
  <2>. HIDE DEF B, C
  <2>. QED BY <2>1 DEF B, C
<1>. QED BY <1>1, <1>3, <1>4, SoughtAssumption

(* The candidates of a query string are the documents whose values meet    *)
(* its dorks, for any values, dorks and tokenizers that are asked with:    *)
(* with the same tokenizers a query is cut and encoded as the values were, *)
(* and numbers compare as their encodings do.                              *)
THEOREM DorksMeanAlways == Spec => []DorksMean
<1>1. SearchInv /\ CandidatesRight => DorksMean
  <2>. SUFFICES ASSUME SearchInv, CandidatesRight, phase = "candidates", ~AnyTooHigh,
                       ~Scattered, NEW asked \in Now,
                       \A dork \in ToSet(asked.dorks) : InTime(dork.value) /\ dork.fuzzy = {},
                       NEW d \in Indices,
                       \A f \in DOMAIN asked.raw[d + 1].values : InTime(asked.raw[d + 1].values[f])
                PROVE  d \in bitmap <=> Answers(asked.dorks, asked.reader, asked.raw[d + 1].values)
    BY DEF DorksMean
  <2>. DEFINE values == asked.raw[d + 1].values
  <2>1. bitmap = Wanted
    BY DEF CandidatesRight, Filtered
  <2>2. /\ IsAsked(asked)
        /\ docs = Batch(asked.raw, Tokenizers(asked.reader, asked.raw))
        /\ q = Compile(asked.dorks, asked.reader)
    BY AskedNow
  <2>3. d + 1 \in DOMAIN docs
    <3>1. PICK k \in DOMAIN docs : d = k - 1
      BY DEF Indices
    <3>2. Len(docs) \in Nat /\ DOMAIN docs = 1 .. Len(docs)
      BY BatchSets DEF SearchInv, AskedInv, Searchable, IsCorpus
    <3>. QED BY <3>1, <3>2
  <2>4. /\ d + 1 \in DOMAIN asked.raw
        /\ MadeFrom(docs[d + 1], values, asked.reader)
    BY <2>2, <2>3, DocumentsMade
  <2>5. DOMAIN seg.fields = FieldsOf(docs)
    BY DEF SearchInv, AskedInv, Searchable, Indexes
  <2>6. /\ IsReader(asked.reader) /\ asked.dorks \in Seq(ToSet(asked.dorks))
        /\ \A dork \in ToSet(asked.dorks) : LegibleDork(dork)
        /\ Legible(asked.reader, values)
    BY <2>2, <2>4 DEF IsAsked, Legible, LegibleDork
  <2>7. (/\ IF q.musts # << >> THEN MeetsAll(d, q.musts) ELSE MeetsSome(d, q.shoulds)
         /\ ~MeetsSome(d, q.mustNots))
          <=> Answers(asked.dorks, asked.reader, values)
    <3>. HIDE DEF values
    <3>. QED BY <2>2, <2>3, <2>4, <2>5, <2>6, QueryMeans
  <2>. QED BY <2>1, <2>7 DEF Wanted
<1>. QED BY <1>1, SearchAlways, FilterRight, PTL

-----------------------------------------------------------------------------
(***************************************************************************)
(* Ranking by a number.                                                    *)
(***************************************************************************)
(* The least token of a document that has the field is a number.           *)
LEMMA SmallestIsNumber ==
  ASSUME NEW D, NEW s, Searchable(D, s), NEW f \in DOMAIN s.fields,
         NEW d \in 0 .. Len(D) - 1, HasSortIn(D, f, d)
  PROVE  SmallestIn(D, f, d) \in Nat
<1>. DEFINE T == s.fields[f].tokens
            S == ValuesOf(D, f)
            n == Len(T)
            K == {k \in 1 .. n : d \in ListAt(s, f, k)}
<1>1. n \in Nat /\ \A k \in 1 .. n : T[k].value \in Nat
  <2>1. Sorted(T, S)
    BY FieldTokens
  <2>. HIDE DEF T, S
  <2>. QED BY <2>1, SortedSays DEF n
<1>2. K # {} /\ K \in SUBSET Nat
  <2>1. \E k \in 1 .. n : d \in ListAt(s, f, k)
    BY FirstList
  <2>2. \A k \in 1 .. n : k \in Nat
    BY <1>1
  <2>. QED BY <2>1, <2>2
<1>3. PICK k \in K : \A j \in K : k <= j
  BY <1>2, NatLeast
<1>4. k \in 1 .. n /\ d \in ListAt(s, f, k)
  BY <1>3
<1>5. ASSUME NEW j \in 1 .. k - 1 PROVE d \notin ListAt(s, f, j)
  <2>1. j \in 1 .. n /\ ~(k <= j)
    BY <1>1, <1>4
  <2>. QED BY <1>3, <2>1
<1>6. SmallestIn(D, f, d) = T[k].value
  BY <1>4, <1>5, FirstList
<1>. QED BY <1>1, <1>4, <1>6

(* A document with one number in a field ranks by the token of it.         *)
LEMMA NumberedDocument ==
  ASSUME NEW reader, IsReader(reader), NEW values, NEW d, MadeFrom(docs[d + 1], values, reader),
         d + 1 \in DOMAIN docs, NEW f \in DOMAIN values,
         PickTokenizer(reader, f) \in NumberTokenizers,
         IsFieldValue(PickTokenizer(reader, f), values[f]), InTime(values[f]),
         NEW m \in Keys(PickTokenizer(reader, f), values[f])
  PROVE  /\ m \in Integer
         /\ HasSortIn(docs, f, d)
         /\ SmallestIn(docs, f, d) = TokenOf(PickTokenizer(reader, f), m)
<1>. DEFINE t == PickTokenizer(reader, f)
            value == values[f]
            X == DOMAIN docs[d + 1].fields[f].tokens
            y == TokenOf(t, m)
<1>1. t \in {"integer", "float", "date"} /\ IsTokenizer(t) /\ t \notin TextTokenizers
  BY DEF NumberTokenizers, IsTokenizer, TextTokenizers
<1>2. Keys(t, value) = {m}
  <2>1. CASE t = "integer"
    <3>1. Keys(t, value) = value.int
      BY <2>1 DEF Keys
    <3>. QED BY <3>1 DEF IsFieldValue, IsValue, AtMostOne
  <2>2. CASE t = "float"
    <3>1. Keys(t, value) = {Rank(x) : x \in value.float}
      BY <2>2 DEF Keys
    <3>2. \A x, z \in value.float : x = z
      BY DEF IsFieldValue, IsValue, AtMostOne
    <3>. QED BY <3>1, <3>2
  <2>3. CASE t = "date"
    <3>1. Keys(t, value) = value.time
      BY <2>3 DEF Keys
    <3>. QED BY <3>1 DEF IsFieldValue, IsValue, AtMostOne
  <2>. QED BY <1>1, <2>1, <2>2, <2>3
<1>3. m \in Integer
  <2>1. Keys(t, value) \subseteq KeySpace(t)
    BY <1>1, KeysAre DEF IsFieldValue
  <2>. QED BY <1>1, <2>1 DEF KeySpace
<1>4. X = {y}
  <2>1. X = {TokenOf(t, key) : key \in Keys(t, value)}
    BY <1>1, FieldTokensAre DEF MadeFrom
  <2>. QED BY <1>2, <2>1
<1>5. f \in DOMAIN docs[d + 1].fields
  BY DEF MadeFrom
<1>6. HasToken(docs[d + 1], f, y)
  BY <1>4, <1>5 DEF HasToken
<1>7. HasSortIn(docs, f, d)
  <2>. HIDE DEF y
  <2>. QED BY <1>6, TokenIsValue DEF HasSortIn
<1>8. SmallestIn(docs, f, d) = y
  <2>1. y \in Nat
    BY <1>1, <1>3, TokensInOrder DEF KeySpace
  <2>2. SmallestIn(docs, f, d) = CHOOSE v \in X : \A w \in X : v <= w
    BY DEF SmallestIn
  <2>. HIDE DEF X, y
  <2>. QED BY <1>4, <2>1, <2>2
<1>. QED BY <1>3, <1>7, <1>8

(* Of two candidates with numbers the smaller comes first: fewer rank      *)
(* before it.                                                              *)
LEMMA SmallerRanksHigher ==
  ASSUME NEW D, NEW s, Searchable(D, s), NEW f \in DOMAIN s.fields,
         NEW C, C \subseteq 0 .. Len(D) - 1, Docs(C), NEW a \in C, NEW b \in C,
         HasSortIn(D, f, a), HasSortIn(D, f, b), SmallestIn(D, f, a) < SmallestIn(D, f, b)
  PROVE  Cardinality(C) - Cardinality(BeforeIn(D, f, C, a))
           > Cardinality(C) - Cardinality(BeforeIn(D, f, C, b))
<1>. DEFINE A == BeforeIn(D, f, C, a)
            B == BeforeIn(D, f, C, b)
            S(d) == SmallestIn(D, f, d)
<1>1. \A d \in C : d \in Int
  BY DEF Docs, Numbers
<1>2. \A d \in C : HasSortIn(D, f, d) => S(d) \in Nat
  BY SmallestIsNumber
<1>3. S(a) < S(b) /\ S(a) \in Nat /\ S(b) \in Nat
  BY <1>2
<1>4. A \subseteq C /\ B \subseteq C
  BY DEF BeforeIn
<1>5. A \subseteq B /\ a \in B /\ a \notin A
  <2>1. \A e : e \in A <=> /\ e \in C /\ HasSortIn(D, f, e)
                           /\ S(e) < S(a) \/ (S(e) = S(a) /\ e < a)
    BY DEF BeforeIn
  <2>2. \A e : e \in B <=> /\ e \in C /\ HasSortIn(D, f, e)
                           /\ S(e) < S(b) \/ (S(e) = S(b) /\ e < b)
    BY DEF BeforeIn
  <2>. HIDE DEF A, B, S
  <2>3. a \in B
    BY <1>3, <2>2
  <2>4. a \notin A
    BY <1>1, <1>3, <2>1
  <2>5. ASSUME NEW e \in A PROVE e \in B
    <3>1. S(e) \in Nat /\ e \in C /\ HasSortIn(D, f, e) /\ (S(e) < S(a) \/ S(e) = S(a))
      BY <1>2, <2>1
    <3>2. S(e) < S(b)
      BY <1>3, <3>1
    <3>. QED BY <2>2, <3>1, <3>2
  <2>. QED BY <2>3, <2>4, <2>5
<1>. HIDE DEF A, B, S
<1>6. /\ IsFiniteSet(C) /\ IsFiniteSet(A) /\ IsFiniteSet(B)
      /\ Cardinality(C) \in Nat /\ Cardinality(A) \in Nat /\ Cardinality(B) \in Nat
      /\ Cardinality(A) <= Cardinality(B)
      /\ Cardinality(A) # Cardinality(B)
  <2>1. IsFiniteSet(C)
    BY DEF Docs
  <2>2. IsFiniteSet(A) /\ IsFiniteSet(B)
    BY <1>4, <2>1, FS_Subset
  <2>3. /\ Cardinality(A) <= Cardinality(B)
        /\ Cardinality(A) # Cardinality(B)
    BY <1>5, <2>2, FS_Subset
  <2>. QED BY <2>1, <2>2, <2>3, FS_CardinalityType
<1>. QED BY <1>6 DEF A, B

(* Ranked by a field of numbers, the candidate with the smaller number, or *)
(* the earlier date, has the higher score, for any two of them: the        *)
(* encodings of negative numbers too are in the order of the numbers.      *)
THEOREM NumbersRanked == Spec => []NumbersRank
<1>1. SearchInv /\ FieldRanks /\ TypeOK => NumbersRank
  <2>. SUFFICES ASSUME SearchInv, FieldRanks, TypeOK, phase = "scored", NEW asked \in Now,
                       NEW x \in ToSet(scores), NEW y \in ToSet(scores)
                PROVE  LET number(score) ==
                             LET values == asked.raw[score.index + 1].values
                                 tokenizer == PickTokenizer(asked.reader, view.field)
                             IN  IF /\ view.field \in DOMAIN values
                                    /\ tokenizer \in NumberTokenizers
                                    /\ InTime(values[view.field])
                                   THEN Keys(tokenizer, values[view.field]) ELSE {}
                       IN  \A m \in number(x), n \in number(y) : m < n => x.value > y.value
    BY DEF NumbersRank
  <2>. DEFINE f == view.field
              t == PickTokenizer(asked.reader, f)
              ValuesGiven(score) == asked.raw[score.index + 1].values
              N(score) == IF f \in DOMAIN ValuesGiven(score) /\ t \in NumberTokenizers
                             /\ InTime(ValuesGiven(score)[f])
                          THEN Keys(t, ValuesGiven(score)[f]) ELSE {}
  <2>1. SUFFICES ASSUME NEW m \in N(x), NEW n \in N(y), m < n
                 PROVE  x.value > y.value
    OBVIOUS
  <2>2. /\ IsAsked(asked)
        /\ docs = Batch(asked.raw, Tokenizers(asked.reader, asked.raw))
    BY AskedNow
  <2>3. /\ Searchable(docs, seg) /\ bitmap \in SUBSET (0 .. Len(docs) - 1) /\ Docs(bitmap)
    <3>1. Searchable(docs, seg) /\ bitmap \in SUBSET (0 .. Len(docs) - 1)
      BY DEF SearchInv, AskedInv, FilterInv
    <3>. QED BY <3>1, IndexSets
  <2>4. Len(docs) \in Nat /\ DOMAIN docs = 1 .. Len(docs) /\ DOMAIN seg.fields = FieldsOf(docs)
    BY <2>3, BatchSets DEF Searchable, IsCorpus, Indexes
  <2>5. ASSUME NEW score, score.index \in Indices, NEW k \in N(score)
        PROVE  /\ t \in NumberTokenizers /\ k \in Integer
               /\ f \in DOMAIN seg.fields
               /\ HasSortIn(docs, f, score.index)
               /\ SmallestIn(docs, f, score.index) = TokenOf(t, k)
    <3>. DEFINE d == score.index
                values == ValuesGiven(score)
    <3>1. /\ f \in DOMAIN values /\ t \in NumberTokenizers /\ InTime(values[f])
          /\ k \in Keys(t, values[f])
      <4>. HIDE DEF f, t, ValuesGiven
      <4>. QED BY <2>5 DEF N
    <3>2. d + 1 \in DOMAIN docs
      <4>1. PICK j \in DOMAIN docs : d = j - 1
        BY <2>5 DEF Indices
      <4>. HIDE DEF d
      <4>. QED BY <2>4, <4>1
    <3>3. d + 1 \in DOMAIN asked.raw /\ MadeFrom(docs[d + 1], values, asked.reader)
      BY <2>2, <3>2, DocumentsMade
    <3>4. IsReader(asked.reader) /\ IsFieldValue(t, values[f])
      BY <2>2, <3>1, <3>3 DEF IsAsked
    <3>5. f \in FieldsOf(docs)
      BY <3>1, <3>2, <3>3 DEF FieldsOf, MadeFrom
    <3>. HIDE DEF d, values, f
    <3>6. k \in Integer /\ HasSortIn(docs, f, d) /\ SmallestIn(docs, f, d) = TokenOf(t, k)
      BY <3>1, <3>2, <3>3, <3>4, NumberedDocument
    <3>. QED BY <2>4, <3>1, <3>5, <3>6 DEF d
  <2>. DEFINE having == {d \in bitmap : HasSortIn(docs, f, d)}
              value(d) == IF d \in having
                          THEN Cardinality(bitmap) - Cardinality(BeforeIn(docs, f, bitmap, d))
                          ELSE 0
  <2>6. f \in DOMAIN seg.fields => ToSet(scores) = {[index |-> d, value |-> value(d)] : d \in bitmap}
    <3>. SUFFICES ASSUME f \in DOMAIN seg.fields
                  PROVE  ToSet(scores) = {[index |-> d, value |-> value(d)] : d \in bitmap}
      OBVIOUS
    <3>. DEFINE has == {d \in bitmap : HasSortToken(d)}
                before(d) == {e \in has : \/ SmallestToken(e) < SmallestToken(d)
                                          \/ (SmallestToken(e) = SmallestToken(d) /\ e < d)}
    <3>1. ToSet(scores) = {[index |-> d,
                            value |-> IF d \in has THEN Cardinality(bitmap) - Cardinality(before(d))
                                      ELSE 0] : d \in bitmap}
      BY DEF FieldRanks
    <3>2. /\ \A d : HasSortToken(d) <=> HasSortIn(docs, f, d)
          /\ \A d : SmallestToken(d) = SmallestIn(docs, f, d)
      BY DEF HasSortToken, HasSortIn, SmallestToken, SmallestIn
    <3>3. \A d : before(d) = BeforeIn(docs, f, bitmap, d)
      BY <3>2 DEF BeforeIn
    <3>4. has = having
      BY <3>2
    <3>. HIDE DEF has, having, before, f
    <3>. QED BY <3>1, <3>3, <3>4
  <2>7. x.index \in Indices /\ y.index \in Indices
    BY DEF TypeOK, ToSet
  <2>8. /\ t \in NumberTokenizers /\ m \in Integer /\ n \in Integer /\ f \in DOMAIN seg.fields
        /\ HasSortIn(docs, f, x.index) /\ SmallestIn(docs, f, x.index) = TokenOf(t, m)
        /\ HasSortIn(docs, f, y.index) /\ SmallestIn(docs, f, y.index) = TokenOf(t, n)
    <3>. HIDE DEF N, t, f
    <3>. QED BY <2>1, <2>5, <2>7
  <2>9. SmallestIn(docs, f, x.index) < SmallestIn(docs, f, y.index)
    <3>1. m \in KeySpace(t) /\ n \in KeySpace(t)
      BY <2>8 DEF KeySpace, NumberTokenizers, TextTokenizers
    <3>. HIDE DEF t, f
    <3>2. TokenOf(t, m) < TokenOf(t, n)
      BY <2>1, <3>1, TokensInOrder
    <3>. QED BY <2>8, <3>2
  <2>. HIDE DEF f, t, N
  <2>10. PICK a \in bitmap : x = [index |-> a, value |-> value(a)]
    BY <2>6, <2>8
  <2>11. PICK b \in bitmap : y = [index |-> b, value |-> value(b)]
    BY <2>6, <2>8
  <2>12. x.index = a /\ y.index = b /\ x.value = value(a) /\ y.value = value(b)
    <3>. HIDE DEF value
    <3>. QED BY <2>10, <2>11
  <2>13. /\ x.value = Cardinality(bitmap) - Cardinality(BeforeIn(docs, f, bitmap, a))
         /\ y.value = Cardinality(bitmap) - Cardinality(BeforeIn(docs, f, bitmap, b))
    BY <2>8, <2>12
  <2>. HIDE DEF having, value
  <2>14. /\ bitmap \subseteq 0 .. Len(docs) - 1
         /\ HasSortIn(docs, f, a) /\ HasSortIn(docs, f, b)
         /\ SmallestIn(docs, f, a) < SmallestIn(docs, f, b)
    BY <2>3, <2>8, <2>9, <2>12
  <2>. QED BY <2>3, <2>8, <2>13, <2>14, SmallerRanksHigher
<1>. QED BY <1>1, SearchAlways, FieldRanked, SearchTyped, PTL
=============================================================================
