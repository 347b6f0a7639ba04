---------------------------- MODULE BuilderProofs ----------------------------
(***************************************************************************)
(* BuildFrom, SaveTo and Load are right for any documents, any order of    *)
(* the ranges over maps, any batch of posting-list headers, any way the    *)
(* bufio.Writer passes records on, and a stop after any step: the tables   *)
(* index the documents, Size is the length of the file, and a file that is *)
(* not complete is rejected.                                               *)
(***************************************************************************)
EXTENDS Builder, SegmentProofs

-----------------------------------------------------------------------------
(***************************************************************************)
(* What one document says.                                                 *)
(***************************************************************************)
(* A set of one document of index 0, if it is meant.                       *)
LEMMA OnlyDocument ==
  ASSUME NEW P
  PROVE  {k - 1 : k \in {n \in 1 .. 1 : P}} = IF P THEN {0} ELSE {}
<1>1. 1 .. 1 = {1} /\ 1 - 1 = 0
  OBVIOUS
<1>2. {n \in 1 .. 1 : P} = IF P THEN {1} ELSE {}
  BY <1>1
<1>. QED BY <1>1, <1>2

(* Its only member is its first.                                           *)
LEMMA AscendingOne ==
  /\ Ascending({0}) = <<0>>
  /\ Ascending({}) = << >>
  /\ Cardinality({0}) = 1 /\ Cardinality({}) = 0
<1>1. IsFiniteSet({0}) /\ Cardinality({0}) = 1 /\ IsFiniteSet({}) /\ Cardinality({}) = 0
  BY FS_Singleton, FS_EmptySet
<1>2. Numbers({0}) /\ Numbers({})
  BY DEF Numbers
<1>3. Lists(Ascending({0}), {0}) /\ Len(Ascending({0})) = 1
  BY <1>1, <1>2, AscendingLists
<1>4. Lists(Ascending({}), {}) /\ Len(Ascending({})) = 0
  BY <1>1, <1>2, AscendingLists
<1>5. Ascending({0}) \in [1 .. 1 -> {0}]
  BY <1>3 DEF Lists
<1>6. Ascending({}) \in [1 .. 0 -> {}]
  BY <1>4 DEF Lists
<1>7. Ascending({0}) = <<0>>
  <2>. DEFINE x == Ascending({0})
  <2>. HIDE DEF x
  <2>1. x \in [1 .. 1 -> {0}] => x = <<0>>
    OBVIOUS
  <2>. QED BY <1>5, <2>1 DEF x
<1>8. Ascending({}) = << >>
  <2>. DEFINE x == Ascending({})
  <2>. HIDE DEF x
  <2>1. x \in [1 .. 0 -> {}] => x = << >>
    OBVIOUS
  <2>. QED BY <1>6, <2>1 DEF x
<1>. QED BY <1>1, <1>7, <1>8

(* The entry and the length of one document.                               *)
EntryAlone(doc, f, v) ==
  IF HasToken(doc, f, v) THEN <<[doc |-> 0, freq |-> doc.fields[f].tokens[v]]>> ELSE << >>
LengthAlone(doc, f) ==
  IF f \in DOMAIN doc.fields /\ doc.fields[f].length > 0
  THEN <<[doc |-> 0, length |-> doc.fields[f].length]>> ELSE << >>

(* A batch of one document says what the document says.                    *)
LEMMA OneDocument ==
  ASSUME NEW doc, IsDocument(doc)
  PROVE  /\ IsBatch(<<doc>>)
         /\ FieldsOf(<<doc>>) = DOMAIN doc.fields
         /\ \A f \in DOMAIN doc.fields : ValuesOf(<<doc>>, f) = DOMAIN doc.fields[f].tokens
         /\ \A f, v : /\ EntriesOf(<<doc>>, f, v) = EntryAlone(doc, f, v)
                      /\ Cardinality(Holders(<<doc>>, f, v)) = IF HasToken(doc, f, v) THEN 1 ELSE 0
         /\ \A f : LengthsOf(<<doc>>, f) = LengthAlone(doc, f)
<1>. DEFINE B == <<doc>>
<1>1. DOMAIN B = 1 .. 1 /\ Len(B) = 1 /\ B[1] = doc /\ B = [k \in 1 .. 1 |-> B[k]]
  OBVIOUS
<1>. HIDE DEF B
<1>2. \A k \in 1 .. 1 : k = 1
  OBVIOUS
<1>3. IsBatch(B)
  BY <1>1, <1>2 DEF IsBatch
<1>4. FieldsOf(B) = DOMAIN doc.fields
  BY <1>1, <1>2 DEF FieldsOf
<1>5. ASSUME NEW f \in DOMAIN doc.fields
      PROVE  ValuesOf(B, f) = DOMAIN doc.fields[f].tokens
  <2>1. {n \in DOMAIN B : f \in DOMAIN B[n].fields} = {1}
    BY <1>1, <1>2
  <2>. QED BY <1>1, <2>1 DEF ValuesOf
<1>6. ASSUME NEW f, NEW v
      PROVE  /\ EntriesOf(B, f, v) = EntryAlone(doc, f, v)
             /\ Cardinality(Holders(B, f, v)) = IF HasToken(doc, f, v) THEN 1 ELSE 0
  <2>. DEFINE H == Holders(B, f, v)
              x == Ascending(H)
              y == [k \in DOMAIN x |-> [doc |-> x[k], freq |-> B[x[k] + 1].fields[f].tokens[v]]]
  <2>1. H = IF HasToken(doc, f, v) THEN {0} ELSE {}
    <3>1. {n \in DOMAIN B : HasToken(B[n], f, v)} = {n \in 1 .. 1 : HasToken(doc, f, v)}
      BY <1>1, <1>2
    <3>. QED BY <3>1, OnlyDocument DEF Holders
  <2>2. EntriesOf(B, f, v) = y
    BY DEF EntriesOf
  <2>3. CASE HasToken(doc, f, v)
    <3>1. x = <<0>> /\ Cardinality(H) = 1
      BY <2>1, <2>3, AscendingOne
    <3>2. 0 + 1 = 1 /\ DOMAIN <<0>> = 1 .. 1
      OBVIOUS
    <3>3. y = <<[doc |-> 0, freq |-> doc.fields[f].tokens[v]]>>
      <4>. HIDE DEF x
      <4>1. y = [k \in 1 .. 1 |-> [doc |-> 0, freq |-> doc.fields[f].tokens[v]]]
        BY <1>1, <1>2, <3>1, <3>2
      <4>. HIDE DEF y
      <4>2. \A e : [k \in 1 .. 1 |-> e] = <<e>>
        OBVIOUS
      <4>. QED BY <4>1, <4>2
    <3>. QED BY <2>2, <2>3, <3>1, <3>3 DEF EntryAlone
  <2>4. CASE ~HasToken(doc, f, v)
    <3>1. x = << >> /\ Cardinality(H) = 0
      BY <2>1, <2>4, AscendingOne
    <3>2. y = << >>
      BY <3>1
    <3>. QED BY <2>2, <2>4, <3>1, <3>2 DEF EntryAlone
  <2>. QED BY <2>3, <2>4
<1>7. ASSUME NEW f PROVE LengthsOf(B, f) = LengthAlone(doc, f)
  <2>. DEFINE P == f \in DOMAIN doc.fields /\ doc.fields[f].length > 0
              H == {k - 1 : k \in {n \in DOMAIN B : /\ f \in DOMAIN B[n].fields
                                                    /\ B[n].fields[f].length > 0}}
              x == Ascending(H)
              y == [k \in DOMAIN x |-> [doc |-> x[k], length |-> B[x[k] + 1].fields[f].length]]
  <2>1. H = IF P THEN {0} ELSE {}
    <3>1. {n \in DOMAIN B : f \in DOMAIN B[n].fields /\ B[n].fields[f].length > 0}
            = {n \in 1 .. 1 : P}
      BY <1>1, <1>2
    <3>. HIDE DEF P
    <3>2. {k - 1 : k \in {n \in 1 .. 1 : P}} = IF P THEN {0} ELSE {}
      BY OnlyDocument
    <3>. QED BY <3>1, <3>2
  <2>2. LengthsOf(B, f) = y
    BY DEF LengthsOf
  <2>. HIDE DEF H
  <2>3. CASE P
    <3>1. x = <<0>>
      BY <2>1, <2>3, AscendingOne
    <3>2. 0 + 1 = 1 /\ DOMAIN <<0>> = 1 .. 1
      OBVIOUS
    <3>3. y = <<[doc |-> 0, length |-> doc.fields[f].length]>>
      <4>. HIDE DEF x
      <4>1. y = [k \in 1 .. 1 |-> [doc |-> 0, length |-> doc.fields[f].length]]
        BY <1>1, <1>2, <3>1, <3>2
      <4>. HIDE DEF y
      <4>2. \A e : [k \in 1 .. 1 |-> e] = <<e>>
        OBVIOUS
      <4>. QED BY <4>1, <4>2
    <3>. QED BY <2>2, <2>3, <3>3 DEF LengthAlone
  <2>4. CASE ~P
    <3>1. x = << >>
      BY <2>1, <2>4, AscendingOne
    <3>2. y = << >>
      BY <3>1
    <3>. QED BY <2>2, <2>4, <3>2 DEF LengthAlone
  <2>. QED BY <2>3, <2>4
<1>. QED BY <1>3, <1>4, <1>5, <1>6, <1>7 DEF B
-----------------------------------------------------------------------------
(***************************************************************************)
(* BuildFrom accumulates: what the documents say of a field.               *)
(***************************************************************************)
(* The accumulator of a field, after these documents.                      *)
Gathered(ds, f) ==
  [lengths     |-> LengthsOf(ds, f),
   total       |-> LengthSum(LengthsOf(ds, f)),
   tokens      |-> [v \in ValuesOf(ds, f) |-> EntriesOf(ds, f, v)],
   occurrences |-> Occurrences(ds, f)]

(* How many documents have each value.                                     *)
HeldBy(ds, f) == [v \in ValuesOf(ds, f) |-> Cardinality(Holders(ds, f, v))]

(* The occurrences are their sum.                                          *)
LEMMA OccurrencesAre ==
  ASSUME NEW ds, IsBatch(ds), NEW f
  PROVE  /\ Occurrences(ds, f) = AddUp(HeldBy(ds, f), ValuesOf(ds, f))
         /\ Counted(HeldBy(ds, f), ValuesOf(ds, f))
         /\ IsFiniteSet(ValuesOf(ds, f))
         /\ Occurrences(ds, f) \in Nat
<1>. DEFINE S == ValuesOf(ds, f)
            g == Vals(ds, f)
            w == HolderCounts(ds, f)
            c == HeldBy(ds, f)
            n == Cardinality(S)
<1>1. IsFiniteSet(S) /\ Numbers(S)
  BY BatchSets
<1>2. Lists(g, S) /\ Len(g) = n /\ n \in Nat
  BY ValuesListed DEF Vals
<1>3. w \in Seq(Nat) /\ Len(w) = n /\ \A k \in 1 .. n : w[k] = Cardinality(Holders(ds, f, g[k]))
  BY HolderCountsAre
<1>4. Occurrences(ds, f) = Total(w, Len(w))
  BY <1>3 DEF Occurrences
<1>5. \A v \in S : c[v] = Cardinality(Holders(ds, f, v))
  BY DEF HeldBy
<1>6. \A v : Cardinality(Holders(ds, f, v)) \in Nat
  BY EntriesAre
<1>. HIDE DEF S, g, w, c, n
<1>7. Once(g, S)
  <2>1. g \in Seq(S)
    BY <1>1, <1>2, ListedOnce
  <2>2. \A i, j \in 1 .. Len(g) : g[i] = g[j] => i = j
    <3>. SUFFICES ASSUME NEW i \in 1 .. Len(g), NEW j \in 1 .. Len(g), g[i] = g[j]
                  PROVE  i = j
      OBVIOUS
    <3>1. DOMAIN g = 1 .. Len(g)
      BY <1>2 DEF Lists
    <3>2. i < j => g[i] < g[j]
      BY <1>2, <3>1 DEF Lists, Climbs
    <3>3. j < i => g[j] < g[i]
      BY <1>2, <3>1 DEF Lists, Climbs
    <3>4. g[i] \in Nat /\ g[j] \in Nat
      <4>1. g[i] \in S /\ g[j] \in S
        BY <1>2, <3>1 DEF Lists
      <4>. QED BY <1>1, <4>1 DEF Numbers
    <3>5. i \in Nat /\ j \in Nat
      BY <1>2
    <3>. QED BY <3>2, <3>3, <3>4, <3>5
  <2>3. \A x \in S : \E i \in 1 .. Len(g) : g[i] = x
    BY <1>2 DEF Lists
  <2>. QED BY <2>1, <2>2, <2>3 DEF Once
<1>8. \A k \in 1 .. Len(w) : c[g[k]] = w[k]
  <2>1. \A k \in 1 .. n : g[k] \in S
    BY <1>2 DEF Lists
  <2>. QED BY <1>3, <1>5, <2>1
<1>9. AddUp(c, S) = Total(w, Len(w))
  BY <1>2, <1>3, <1>7, <1>8, AddUpIs
<1>10. Counted(c, S)
  BY <1>5, <1>6 DEF Counted
<1>11. AddUp(c, S) \in Nat
  BY <1>1, <1>10, AddUpSteps
<1>. QED BY <1>1, <1>4, <1>9, <1>10, <1>11 DEF S, c

(* A sum of ones counts.                                                   *)
LEMMA AddUpOnes ==
  ASSUME NEW S, IsFiniteSet(S), NEW c, \A x \in S : c[x] = 1
  PROVE  AddUp(c, S) = Cardinality(S)
<1>. DEFINE K == {k \in Nat : \A Z \in SUBSET S : Cardinality(Z) = k => AddUp(c, Z) = k}
<1>1. \A Z \in SUBSET S : IsFiniteSet(Z) /\ Counted(c, Z)
  <2>. TAKE Z \in SUBSET S
  <2>1. \A x \in Z : c[x] = 1
    OBVIOUS
  <2>2. \A x \in Z : c[x] \in Nat
    BY <2>1
  <2>. QED BY <2>2, FS_Subset DEF Counted
<1>2. 0 \in K
  <2>. SUFFICES ASSUME NEW Z \in SUBSET S, Cardinality(Z) = 0 PROVE AddUp(c, Z) = 0
    OBVIOUS
  <2>1. Z = {}
    BY <1>1, FS_EmptySet
  <2>. QED BY <1>1, <2>1, AddUpSteps
<1>3. ASSUME NEW k \in Nat, k \in K PROVE k + 1 \in K
  <2>. SUFFICES ASSUME NEW Z \in SUBSET S, Cardinality(Z) = k + 1 PROVE AddUp(c, Z) = k + 1
    OBVIOUS
  <2>1. IsFiniteSet(Z)
    BY <1>1
  <2>2. PICK x : x \in Z
    <3>1. Z # {}
      BY FS_EmptySet
    <3>. QED BY <3>1
  <2>. DEFINE Y == Z \ {x}
  <2>3. Cardinality(Y) = k
    <3>1. Cardinality(Z \ {x}) = Cardinality(Z) - 1
      BY <2>1, <2>2, FS_RemoveElement
    <3>. QED BY <3>1
  <2>4. Y \in SUBSET S /\ x \in S /\ x \notin Y /\ Z = Y \union {x}
    BY <2>2
  <2>. HIDE DEF Y
  <2>5. AddUp(c, Y) = k
    BY <1>3, <2>3, <2>4
  <2>6. AddUp(c, Y \union {x}) = AddUp(c, Y) + c[x]
    <3>1. IsFiniteSet(Y) /\ Counted(c, Y) /\ c[x] = 1
      BY <1>1, <2>4
    <3>2. c[x] \in Nat
      BY <3>1
    <3>. QED BY <2>4, <3>1, <3>2, AddUpSteps
  <2>. QED BY <2>4, <2>5, <2>6
<1>. HIDE DEF K
<1>4. \A k \in Nat : k \in K
  BY <1>2, <1>3, NatInductive
<1>. QED
  <2>1. Cardinality(S) \in Nat /\ S \in SUBSET S
    BY FS_CardinalityType
  <2>. QED BY <1>4, <2>1 DEF K

(* Another document adds its tokens to the occurrences of its fields.      *)
LEMMA OccurrencesAdd ==
  ASSUME NEW ds, IsBatch(ds), NEW doc, IsDocument(doc), NEW f \in DOMAIN doc.fields
  PROVE  /\ Occurrences(ds \o <<doc>>, f)
              = Occurrences(ds, f) + Cardinality(DOMAIN doc.fields[f].tokens)
         /\ Cardinality(DOMAIN doc.fields[f].tokens) \in Nat
<1>. DEFINE B == <<doc>>
            T == DOMAIN doc.fields[f].tokens
            c == HeldBy(ds, f)
            d == HeldBy(B, f)
            e == HeldBy(ds \o B, f)
            S == ValuesOf(ds, f)
            U == ValuesOf(ds \o B, f)
<1>1. IsBatch(B) /\ ValuesOf(B, f) = T
  BY OneDocument
<1>. HIDE DEF B, T
<1>2. U = S \union T
  BY <1>1, SetsConcat
<1>3. IsBatch(ds \o B)
  BY <1>1, BatchConcat
<1>4. /\ Occurrences(ds, f) = AddUp(c, S) /\ Counted(c, S) /\ IsFiniteSet(S)
      /\ Occurrences(ds \o B, f) = AddUp(e, U)
      /\ Counted(d, T) /\ IsFiniteSet(T)
  BY <1>1, <1>3, OccurrencesAre
<1>5. \A v \in T : d[v] = 1
  <2>1. \A v \in T : HasToken(doc, f, v)
    BY DEF HasToken, T
  <2>2. \A v : Cardinality(Holders(B, f, v)) = IF HasToken(doc, f, v) THEN 1 ELSE 0
    BY OneDocument DEF B
  <2>. QED BY <1>1, <2>1, <2>2 DEF HeldBy
<1>6. Adds(e, c, S, d, T)
  <2>. SUFFICES ASSUME NEW x \in S \union T
                PROVE  e[x] = (IF x \in S THEN c[x] ELSE 0) + (IF x \in T THEN d[x] ELSE 0)
    BY DEF Adds
  <2>. DEFINE i == Cardinality(Holders(ds, f, x))
              j == Cardinality(Holders(B, f, x))
  <2>1. e[x] = i + j
    <3>1. Cardinality(Holders(ds \o B, f, x)) = i + j
      BY <1>1, EntriesConcat
    <3>. QED BY <1>2, <3>1 DEF HeldBy
  <2>2. IF x \in S THEN c[x] = i ELSE i = 0
    <3>1. x \notin S => Holders(ds, f, x) = {}
      BY DEF Holders, ValuesOf, HasToken
    <3>. QED BY <3>1, FS_EmptySet DEF HeldBy
  <2>3. IF x \in T THEN d[x] = j ELSE j = 0
    <3>1. x \notin T => Holders(B, f, x) = {}
      BY <1>1 DEF Holders, ValuesOf, HasToken
    <3>. QED BY <1>1, <3>1, FS_EmptySet DEF HeldBy
  <2>4. i \in Nat /\ j \in Nat
    BY <1>1, EntriesAre
  <2>. HIDE DEF i, j, c, d, e, S
  <2>. QED BY <2>1, <2>2, <2>3, <2>4
<1>. HIDE DEF c, d, e, S, U
<1>7. AddUp(e, U) = AddUp(c, S) + AddUp(d, T)
  BY <1>2, <1>4, <1>6, AddUpAdds
<1>8. AddUp(d, T) = Cardinality(T) /\ Cardinality(T) \in Nat
  BY <1>4, <1>5, AddUpOnes, FS_CardinalityType
<1>. QED BY <1>4, <1>7, <1>8 DEF B, T
(* The sum of no lengths, and of one.                                      *)
LEMMA LengthSums ==
  /\ LengthSum(<< >>) = 0
  /\ \A d, n \in Nat : LengthSum(<<[doc |-> d, length |-> n]>>) = n
<1>1. LengthSum(<< >>) = 0
  <2>. DEFINE w == << >>
  <2>1. w \in Seq(Nat) /\ Len(w) = 0 /\ DOMAIN w = 1 .. Len(w)
    OBVIOUS
  <2>2. Total(w, 0) = 0
    BY <2>1, TotalSteps
  <2>3. \A k \in 1 .. Len(w) : w[k].length = w[k]
    BY <2>1
  <2>. HIDE DEF w
  <2>4. LengthSum(w) = Total(w, Len(w))
    BY <2>1, <2>3, LengthsSum
  <2>. QED BY <2>1, <2>2, <2>4 DEF w
<1>2. ASSUME NEW d \in Nat, NEW n \in Nat
      PROVE  LengthSum(<<[doc |-> d, length |-> n]>>) = n
  <2>. DEFINE w == <<n>>
              q == <<[doc |-> d, length |-> n]>>
  <2>1. w \in Seq(Nat) /\ Len(w) = 1 /\ w[1] = n
    OBVIOUS
  <2>2. DOMAIN q = 1 .. Len(w) /\ \A k \in 1 .. Len(w) : q[k].length = w[k]
    OBVIOUS
  <2>. HIDE DEF w, q
  <2>3. LengthSum(q) = Total(w, Len(w))
    BY <2>1, <2>2, LengthsSum
  <2>4. Total(w, 0) = 0 /\ Total(w, 1) = Total(w, 1 - 1) + w[1]
    <3>1. /\ Total(w, 0) = 0
          /\ \A k \in 1 .. Len(w) : Total(w, k) = Total(w, k - 1) + w[k]
      BY <2>1, TotalSteps
    <3>2. 1 \in 1 .. Len(w)
      BY <2>1
    <3>. QED BY <3>1, <3>2
  <2>5. 1 - 1 = 0
    OBVIOUS
  <2>6. LengthSum(q) = n
    BY <2>1, <2>3, <2>4, <2>5
  <2>. QED BY <2>6 DEF q
<1>. QED BY <1>1, <1>2

(* An accumulator that is not there yet says what no documents say.        *)
LEMMA NothingGathered ==
  ASSUME NEW ds, IsBatch(ds), NEW f, f \notin FieldsOf(ds)
  PROVE  Gathered(ds, f) = NewAccumulator
<1>1. ValuesOf(ds, f) = {} /\ LengthsOf(ds, f) = << >> /\ Occurrences(ds, f) = 0
  BY AbsentField
<1>2. [v \in ValuesOf(ds, f) |-> EntriesOf(ds, f, v)] = << >>
  BY <1>1
<1>. QED BY <1>1, <1>2, LengthSums DEF Gathered, NewAccumulator

(* A token that no document has, has no entries.                           *)
LEMMA NoEntries ==
  ASSUME NEW ds, IsBatch(ds), NEW f, NEW v, v \notin ValuesOf(ds, f)
  PROVE  EntriesOf(ds, f, v) = << >>
<1>. DEFINE x == EntriesOf(ds, f, v)
<1>1. x \in Seq(Entry) /\ Len(x) = Cardinality(Holders(ds, f, v))
  BY EntriesAre
<1>2. Holders(ds, f, v) = {}
  BY DEF Holders, ValuesOf, HasToken
<1>3. Len(x) = 0
  BY <1>1, <1>2, FS_EmptySet
<1>. HIDE DEF x
<1>4. x = << >>
  BY <1>1, <1>3
<1>. QED BY <1>4 DEF x

(* The next document brings the accumulators of its fields up to date.     *)
LEMMA GatheredMore ==
  ASSUME NEW ds, IsBatch(ds), NEW doc, IsDocument(doc), NEW f \in DOMAIN doc.fields
  PROVE  Accumulate(Gathered(ds, f), Len(ds), doc.fields[f]) = Gathered(ds \o <<doc>>, f)
<1>. DEFINE B == <<doc>>
            n == Len(ds)
            def == doc.fields[f]
            a == Gathered(ds, f)
            b == Gathered(ds \o B, f)
            c == Accumulate(a, n, def)
<1>1. /\ IsBatch(B) /\ ValuesOf(B, f) = DOMAIN def.tokens
      /\ LengthsOf(B, f) = LengthAlone(doc, f)
      /\ \A v : EntriesOf(B, f, v) = EntryAlone(doc, f, v)
  BY OneDocument
<1>2. n \in Nat
  BY BatchSets
<1>3. def.length \in Nat
  BY DEF IsDocument
<1>. DEFINE L == LengthsOf(ds, f)
<1>4. L \in Seq(LengthEntry) /\ LengthsOf(B, f) \in Seq(LengthEntry)
  BY <1>1, LengthsAre
<1>5. /\ LengthsOf(ds \o B, f) = L \o Moved(LengthsOf(B, f), n)
      /\ LengthSum(L \o Moved(LengthsOf(B, f), n)) = LengthSum(L) + LengthSum(LengthsOf(B, f))
  BY <1>1, <1>2, <1>4, LengthsConcat, LengthSumConcat
<1>. HIDE DEF B
<1>6. c.lengths = b.lengths /\ c.total = b.total
  <2>1. /\ a.lengths = L /\ a.total = LengthSum(L)
        /\ b.lengths = L \o Moved(LengthsOf(B, f), n)
        /\ b.total = LengthSum(L) + LengthSum(LengthsOf(B, f))
    BY <1>5 DEF Gathered
  <2>2. /\ c.lengths = IF def.length > 0 THEN Append(L, [doc |-> n, length |-> def.length])
                       ELSE L
        /\ c.total = LengthSum(L) + def.length
    BY <2>1 DEF Accumulate
  <2>3. CASE def.length > 0
    <3>. DEFINE x == LengthsOf(B, f)
                y == Moved(x, n)
                e == [doc |-> n, length |-> def.length]
    <3>1. x = <<[doc |-> 0, length |-> def.length]>>
      BY <1>1, <2>3 DEF LengthAlone
    <3>2. LengthSum(x) = def.length
      BY <1>3, <3>1, LengthSums
    <3>3. y \in Seq(LengthEntry) /\ Len(y) = 1 /\ y[1] = e
      <4>1. Len(x) = 1 /\ x[1] = [doc |-> 0, length |-> def.length]
        BY <3>1
      <4>2. y \in Seq(LengthEntry) /\ Len(y) = Len(x)
            /\ \A k \in 1 .. Len(x) : y[k] = [doc |-> x[k].doc + n, length |-> x[k].length]
        BY <1>2, <1>4, MovedLengths
      <4>. HIDE DEF x, y
      <4>3. y[1] = [doc |-> 0 + n, length |-> def.length]
        BY <4>1, <4>2
      <4>. QED BY <1>2, <4>1, <4>2, <4>3
    <3>. HIDE DEF x, y, L, e
    <3>4. Append(L, e) = L \o y
      <4>1. y = <<e>>
        BY <3>3
      <4>2. \A s \in Seq(LengthEntry) : \A z \in LengthEntry : Append(s, z) = s \o <<z>>
        OBVIOUS
      <4>3. e \in LengthEntry
        BY <3>3
      <4>. QED BY <1>4, <4>1, <4>2, <4>3
    <3>. QED BY <2>1, <2>2, <2>3, <3>2, <3>4 DEF x, y, e
  <2>4. CASE ~(def.length > 0)
    <3>1. LengthsOf(B, f) = << >> /\ def.length = 0
      BY <1>1, <1>3, <2>4 DEF LengthAlone
    <3>2. Moved(<< >>, n) = << >>
      BY DEF Moved
    <3>3. L \o << >> = L
      <4>. HIDE DEF L
      <4>. QED BY <1>4
    <3>4. LengthSum(<< >>) = 0 /\ LengthSum(L) \in Nat
      BY <1>4, LengthSums, LengthSumIsNat
    <3>. HIDE DEF L
    <3>. QED BY <2>1, <2>2, <2>4, <3>1, <3>2, <3>3, <3>4
  <2>. QED BY <2>3, <2>4
<1>7. c.tokens = b.tokens
  <2>1. /\ DOMAIN a.tokens = ValuesOf(ds, f)
        /\ \A v \in ValuesOf(ds, f) : a.tokens[v] = EntriesOf(ds, f, v)
        /\ b.tokens = [v \in ValuesOf(ds \o B, f) |-> EntriesOf(ds \o B, f, v)]
    BY DEF Gathered
  <2>2. ValuesOf(ds \o B, f) = ValuesOf(ds, f) \union DOMAIN def.tokens
    BY <1>1, SetsConcat
  <2>3. c.tokens = [v \in ValuesOf(ds, f) \union DOMAIN def.tokens |-> TokenEntries(a, v, n, def)]
    BY <2>1 DEF Accumulate
  <2>4. ASSUME NEW v PROVE TokenEntries(a, v, n, def) = EntriesOf(ds \o B, f, v)
    <3>1. EntriesOf(ds \o B, f, v) = EntriesOf(ds, f, v) \o Moved(EntryAlone(doc, f, v), n)
      <4>1. EntriesOf(ds \o B, f, v) = EntriesOf(ds, f, v) \o Moved(EntriesOf(B, f, v), n)
        BY <1>1, EntriesConcat
      <4>. QED BY <1>1, <4>1
    <3>2. (IF v \in DOMAIN a.tokens THEN a.tokens[v] ELSE << >>) = EntriesOf(ds, f, v)
      BY <2>1, NoEntries
    <3>3. Moved(EntryAlone(doc, f, v), n)
            = IF v \in DOMAIN def.tokens THEN <<[doc |-> n, freq |-> def.tokens[v]]>> ELSE << >>
      <4>1. Moved(<< >>, n) = << >>
        BY DEF Moved
      <4>2. ASSUME NEW t PROVE Moved(<<[doc |-> 0, freq |-> t]>>, n) = <<[doc |-> n, freq |-> t]>>
        <5>. DEFINE q == <<[doc |-> 0, freq |-> t]>>
        <5>1. DOMAIN q = 1 .. 1 /\ q[1] = [doc |-> 0, freq |-> t]
          OBVIOUS
        <5>. HIDE DEF q
        <5>2. Moved(q, n) = [k \in 1 .. 1 |-> [q[k] EXCEPT !.doc = @ + n]]
          BY <5>1 DEF Moved
        <5>3. \A k \in 1 .. 1 : [q[k] EXCEPT !.doc = @ + n] = [doc |-> n, freq |-> t]
          <6>1. [q[1] EXCEPT !.doc = @ + n] = [doc |-> 0 + n, freq |-> t]
            BY <5>1
          <6>. QED BY <1>2, <6>1
        <5>4. Moved(q, n) = [k \in 1 .. 1 |-> [doc |-> n, freq |-> t]]
          BY <5>2, <5>3
        <5>5. \A z : [k \in 1 .. 1 |-> z] = <<z>>
          OBVIOUS
        <5>. QED BY <5>4, <5>5 DEF q
      <4>3. HasToken(doc, f, v) <=> v \in DOMAIN def.tokens
        BY DEF HasToken
      <4>. QED BY <4>1, <4>2, <4>3 DEF EntryAlone
    <3>. HIDE DEF a
    <3>. QED BY <3>1, <3>2, <3>3 DEF TokenEntries
  <2>. HIDE DEF a, b, c
  <2>. QED BY <2>1, <2>2, <2>3, <2>4
<1>8. c.occurrences = b.occurrences
  <2>1. Occurrences(ds \o B, f) = Occurrences(ds, f) + Cardinality(DOMAIN def.tokens)
    BY OccurrencesAdd DEF B
  <2>. QED BY <2>1 DEF Gathered, Accumulate
<1>9. /\ c = [lengths |-> c.lengths, total |-> c.total, tokens |-> c.tokens,
              occurrences |-> c.occurrences]
      /\ b = [lengths |-> b.lengths, total |-> b.total, tokens |-> b.tokens,
              occurrences |-> b.occurrences]
  BY DEF Accumulate, Gathered
<1>. HIDE DEF c, b
<1>10. c = b
  BY <1>6, <1>7, <1>8, <1>9
<1>. QED BY <1>10 DEF c, b, a, B

(* The accumulators of the other fields are up to date.                    *)
LEMMA GatheredElse ==
  ASSUME NEW ds, IsBatch(ds), NEW doc, IsDocument(doc), NEW f, f \notin DOMAIN doc.fields
  PROVE  /\ Gathered(ds \o <<doc>>, f) = Gathered(ds, f)
         /\ ValuesOf(ds \o <<doc>>, f) = ValuesOf(ds, f)
<1>. DEFINE B == <<doc>>
            n == Len(ds)
<1>1. IsBatch(B) /\ f \notin FieldsOf(B) /\ n \in Nat
  BY OneDocument, BatchSets
<1>. HIDE DEF B
<1>2. ValuesOf(B, f) = {} /\ LengthsOf(B, f) = << >>
  BY <1>1, AbsentField
<1>3. ValuesOf(ds \o B, f) = ValuesOf(ds, f)
  <2>1. ValuesOf(ds \o B, f) = ValuesOf(ds, f) \union ValuesOf(B, f)
    BY <1>1, SetsConcat
  <2>. QED BY <1>2, <2>1
<1>4. \A t : Moved(<< >>, t) = << >>
  BY DEF Moved
<1>5. LengthsOf(ds \o B, f) = LengthsOf(ds, f)
  <2>. DEFINE L == LengthsOf(ds, f)
  <2>1. L \in Seq(LengthEntry) /\ LengthsOf(ds \o B, f) = L \o << >>
    <3>1. L \in Seq(LengthEntry)
      BY LengthsAre
    <3>2. LengthsOf(ds \o B, f) = L \o Moved(LengthsOf(B, f), n)
      BY <1>1, LengthsConcat
    <3>. QED BY <1>2, <1>4, <3>1, <3>2
  <2>. HIDE DEF L
  <2>2. L \o << >> = L
    BY <2>1
  <2>. QED BY <2>1, <2>2 DEF L
<1>6. ASSUME NEW v
      PROVE  /\ EntriesOf(ds \o B, f, v) = EntriesOf(ds, f, v)
             /\ Cardinality(Holders(ds \o B, f, v)) = Cardinality(Holders(ds, f, v))
  <2>. DEFINE x == EntriesOf(ds, f, v)
              i == Cardinality(Holders(ds, f, v))
  <2>1. x \in Seq(Entry) /\ i \in Nat
    BY EntriesAre
  <2>2. EntriesOf(B, f, v) = << >> /\ Cardinality(Holders(B, f, v)) = 0
    <3>1. EntriesOf(B, f, v) = << >>
      BY <1>1, <1>2, NoEntries
    <3>2. Len(<< >>) = 0
      OBVIOUS
    <3>. QED BY <1>1, <3>1, <3>2, EntriesAre
  <2>3. /\ EntriesOf(ds \o B, f, v) = x \o << >>
        /\ Cardinality(Holders(ds \o B, f, v)) = i + 0
    <3>1. /\ EntriesOf(ds \o B, f, v) = x \o Moved(EntriesOf(B, f, v), n)
          /\ Cardinality(Holders(ds \o B, f, v)) = i + Cardinality(Holders(B, f, v))
      BY <1>1, EntriesConcat
    <3>. QED BY <1>4, <2>2, <3>1
  <2>. HIDE DEF x, i
  <2>4. x \o << >> = x /\ i + 0 = i
    BY <2>1
  <2>. QED BY <2>3, <2>4 DEF x, i
<1>7. Occurrences(ds \o B, f) = Occurrences(ds, f)
  <2>1. HolderCounts(ds \o B, f) = HolderCounts(ds, f)
    BY <1>3, <1>6 DEF HolderCounts
  <2>. QED BY <1>3, <2>1 DEF Occurrences
<1>8. [v \in ValuesOf(ds \o B, f) |-> EntriesOf(ds \o B, f, v)]
        = [v \in ValuesOf(ds, f) |-> EntriesOf(ds, f, v)]
  BY <1>3, <1>6
<1>. QED BY <1>3, <1>5, <1>7, <1>8 DEF Gathered, B
-----------------------------------------------------------------------------
(***************************************************************************)
(* The bytes that BuildFrom counts.                                        *)
(***************************************************************************)
(* The block of a field takes these bytes, and its frequency entries these.*)
BlockBytes(ds, f) == FieldHeaderSize + Len(LengthsOf(ds, f)) * DocumentLengthEntrySize
                                     + Cardinality(ValuesOf(ds, f)) * TokenSize
EntryBytes(ds, f) == Occurrences(ds, f) * TokenFrequencyEntrySize

BytesOfBlocks(ds)  == [f \in FieldsOf(ds) |-> BlockBytes(ds, f)]
BytesOfEntries(ds) == [f \in FieldsOf(ds) |-> EntryBytes(ds, f)]
BytesOf(ds)        == [f \in FieldsOf(ds) |-> BlockBytes(ds, f) + EntryBytes(ds, f)]

(* They are numbers.                                                       *)
LEMMA BytesAre ==
  ASSUME NEW ds, IsBatch(ds)
  PROVE  /\ IsFiniteSet(FieldsOf(ds))
         /\ Counted(BytesOfBlocks(ds), FieldsOf(ds))
         /\ Counted(BytesOfEntries(ds), FieldsOf(ds))
         /\ Counted(BytesOf(ds), FieldsOf(ds))
         /\ \A f : BlockBytes(ds, f) \in Nat /\ EntryBytes(ds, f) \in Nat
<1>1. ASSUME NEW f PROVE BlockBytes(ds, f) \in Nat /\ EntryBytes(ds, f) \in Nat
  <2>. DEFINE n == Len(LengthsOf(ds, f))
              m == Cardinality(ValuesOf(ds, f))
              k == Occurrences(ds, f)
  <2>1. n \in Nat
    <3>1. LengthsOf(ds, f) \in Seq(LengthEntry)
      BY LengthsAre
    <3>. QED BY <3>1
  <2>2. m \in Nat /\ k \in Nat
    BY ValuesListed, OccurrencesAre
  <2>3. BlockBytes(ds, f) = 48 + n * 8 + m * 160 /\ EntryBytes(ds, f) = k * 8
    BY DEF BlockBytes, EntryBytes, FieldHeaderSize, DocumentLengthEntrySize, TokenSize,
           TokenFrequencyEntrySize
  <2>. HIDE DEF n, m, k
  <2>. QED BY <2>1, <2>2, <2>3
<1>2. IsFiniteSet(FieldsOf(ds))
  BY BatchSets
<1>3. \A f \in FieldsOf(ds) : BlockBytes(ds, f) + EntryBytes(ds, f) \in Nat
  BY <1>1
<1>4. Counted(BytesOfBlocks(ds), FieldsOf(ds)) /\ Counted(BytesOfEntries(ds), FieldsOf(ds))
  BY <1>1 DEF Counted, BytesOfBlocks, BytesOfEntries
<1>5. Counted(BytesOf(ds), FieldsOf(ds))
  BY <1>3 DEF Counted, BytesOf
<1>. QED BY <1>1, <1>2, <1>4, <1>5

(* A file has the blocks and the frequency entries.                        *)
LEMMA BytesOfBoth ==
  ASSUME NEW ds, IsBatch(ds)
  PROVE  /\ AddUp(BytesOf(ds), FieldsOf(ds))
              = AddUp(BytesOfBlocks(ds), FieldsOf(ds)) + AddUp(BytesOfEntries(ds), FieldsOf(ds))
         /\ AddUp(BytesOfBlocks(ds), FieldsOf(ds)) \in Nat
         /\ AddUp(BytesOfEntries(ds), FieldsOf(ds)) \in Nat
<1>. DEFINE S == FieldsOf(ds)
            c == BytesOfBlocks(ds)
            d == BytesOfEntries(ds)
            e == BytesOf(ds)
<1>1. IsFiniteSet(S) /\ Counted(c, S) /\ Counted(d, S)
  BY BytesAre
<1>2. Adds(e, c, S, d, S)
  BY DEF Adds, BytesOf, BytesOfBlocks, BytesOfEntries
<1>. HIDE DEF S, c, d, e
<1>3. /\ AddUp(e, S \union S) = AddUp(c, S) + AddUp(d, S)
      /\ AddUp(c, S) \in Nat /\ AddUp(d, S) \in Nat
  BY <1>1, <1>2, AddUpAdds
<1>4. S \union S = S
  OBVIOUS
<1>. QED BY <1>3, <1>4 DEF S, c, d, e

(* What one document's field adds.                                         *)
LEMMA FieldBytesAre ==
  ASSUME NEW ds, IsBatch(ds), NEW doc, IsDocument(doc), NEW f \in DOMAIN doc.fields,
         acc = [g \in FieldsOf(ds) |-> Gathered(ds, g)]
  PROVE  /\ BytesOf(ds \o <<doc>>)[f]
              = (IF f \in FieldsOf(ds) THEN BytesOf(ds)[f] ELSE 0) + FieldBytes(f, doc.fields[f])
         /\ FieldBytes(f, doc.fields[f]) \in Nat
<1>. DEFINE B == <<doc>>
            def == doc.fields[f]
            V == ValuesOf(ds, f)
            T == DOMAIN def.tokens
            L == LengthsOf(ds, f)
            k == Cardinality(V)
            t == Cardinality(T)
            m == Cardinality(T \ V)
            n == Len(L)
            i == IF def.length > 0 THEN 1 ELSE 0
            q == Occurrences(ds, f)
<1>1. /\ IsBatch(B) /\ ValuesOf(B, f) = T /\ FieldsOf(B) = DOMAIN doc.fields
      /\ LengthsOf(B, f) = LengthAlone(doc, f)
  BY OneDocument
<1>2. IsBatch(ds \o B)
  BY <1>1, BatchConcat
<1>3. f \in FieldsOf(ds \o B)
  <2>1. FieldsOf(ds \o B) = FieldsOf(ds) \union FieldsOf(B)
    BY <1>1, SetsConcat
  <2>. QED BY <1>1, <2>1
<1>4. /\ IsFiniteSet(V) /\ IsFiniteSet(T)
      /\ k \in Nat /\ t \in Nat /\ m \in Nat
      /\ Cardinality(ValuesOf(ds \o B, f)) = k + m
  <2>1. ValuesOf(ds \o B, f) = V \union T
    <3>1. ValuesOf(ds \o B, f) = V \union ValuesOf(B, f)
      BY <1>1, SetsConcat
    <3>. QED BY <1>1, <3>1
  <2>2. IsFiniteSet(V) /\ IsFiniteSet(T)
    <3>1. IsFiniteSet(ValuesOf(B, f))
      BY <1>1, BatchSets
    <3>. QED BY <1>1, <3>1, BatchSets
  <2>. DEFINE R == T \ V
  <2>3. IsFiniteSet(R)
    BY <2>2, FS_Difference
  <2>4. V \union T = V \union R /\ V \intersect R = {}
    OBVIOUS
  <2>. HIDE DEF V, T, R
  <2>5. Cardinality(V \union R) = Cardinality(V) + Cardinality(R) - Cardinality(V \intersect R)
    BY <2>2, <2>3, FS_Union
  <2>6. Cardinality(V) \in Nat /\ Cardinality(R) \in Nat /\ Cardinality(T) \in Nat
    BY <2>2, <2>3, FS_CardinalityType
  <2>7. Cardinality({}) = 0
    BY FS_EmptySet
  <2>8. Cardinality(V \union R) = Cardinality(V) + Cardinality(R)
    <3>1. Cardinality(V \intersect R) = 0
      BY <2>4, <2>7
    <3>. DEFINE x == Cardinality(V)
                y == Cardinality(R)
                z == Cardinality(V \intersect R)
                u == Cardinality(V \union R)
    <3>2. u = x + y - z /\ z = 0 /\ x \in Nat /\ y \in Nat
      BY <2>5, <2>6, <3>1
    <3>. HIDE DEF x, y, z, u
    <3>3. u = x + y
      BY <3>2
    <3>. QED BY <3>3 DEF u, x, y
  <2>. QED BY <2>1, <2>2, <2>4, <2>6, <2>8 DEF R
<1>5. Len(LengthsOf(ds \o B, f)) = n + i /\ n \in Nat /\ i \in Nat
  <2>1. L \in Seq(LengthEntry) /\ LengthsOf(B, f) \in Seq(LengthEntry) /\ Len(ds) \in Nat
    BY <1>1, LengthsAre, BatchSets
  <2>2. LengthsOf(ds \o B, f) = L \o Moved(LengthsOf(B, f), Len(ds))
    BY <1>1, LengthsConcat
  <2>3. /\ Moved(LengthsOf(B, f), Len(ds)) \in Seq(LengthEntry)
        /\ Len(Moved(LengthsOf(B, f), Len(ds))) = Len(LengthsOf(B, f))
    BY <2>1, MovedLengths
  <2>4. Len(LengthsOf(B, f)) = i
    <3>1. \A x : Len(<<x>>) = 1 /\ Len(<< >>) = 0
      OBVIOUS
    <3>. QED BY <1>1, <3>1 DEF LengthAlone
  <2>. HIDE DEF L
  <2>5. Len(L \o Moved(LengthsOf(B, f), Len(ds))) = Len(L) + i
    BY <2>1, <2>3, <2>4
  <2>6. Len(L) \in Nat
    BY <2>1
  <2>. QED BY <2>2, <2>5, <2>6
<1>6. Occurrences(ds \o B, f) = q + t /\ q \in Nat
  BY OccurrencesAdd, OccurrencesAre
<1>7. Accumulator(f) = Gathered(ds, f)
  BY NothingGathered DEF Accumulator
<1>8. FieldBytes(f, def) = (IF f \in FieldsOf(ds) THEN 0 ELSE 48)
                             + (IF def.length > 0 THEN 8 ELSE 0) + m * 160 + t * 8
  <2>1. DOMAIN Accumulator(f).tokens = V
    BY <1>7 DEF Gathered
  <2>2. f \in DOMAIN acc <=> f \in FieldsOf(ds)
    OBVIOUS
  <2>. QED BY <2>1, <2>2 DEF FieldBytes, FieldHeaderSize, DocumentLengthEntrySize, TokenSize,
                             TokenFrequencyEntrySize
<1>9. BytesOf(ds \o B)[f] = (48 + (n + i) * 8 + (k + m) * 160) + (q + t) * 8
  <2>1. BytesOf(ds \o B)[f] = BlockBytes(ds \o B, f) + EntryBytes(ds \o B, f)
    BY <1>3 DEF BytesOf
  <2>. QED BY <1>4, <1>5, <1>6, <2>1 DEF BlockBytes, EntryBytes, FieldHeaderSize,
                DocumentLengthEntrySize, TokenSize, TokenFrequencyEntrySize
<1>10. f \in FieldsOf(ds) => BytesOf(ds)[f] = (48 + n * 8 + k * 160) + q * 8
  BY DEF BytesOf, BlockBytes, EntryBytes, FieldHeaderSize, DocumentLengthEntrySize, TokenSize,
         TokenFrequencyEntrySize
<1>11. f \notin FieldsOf(ds) => n = 0 /\ k = 0 /\ q = 0
  <2>1. Len(<< >>) = 0
    OBVIOUS
  <2>. QED BY <2>1, AbsentField
<1>12. i * 8 = IF def.length > 0 THEN 8 ELSE 0
  OBVIOUS
<1>. DEFINE x == FieldBytes(f, def)
            y == BytesOf(ds \o B)[f]
            z == BytesOf(ds)[f]
            j == IF def.length > 0 THEN 8 ELSE 0
<1>13. j \in Nat
  OBVIOUS
<1>. HIDE DEF B, V, T, L, k, t, m, n, q, i, j, def, x, y, z
<1>14. CASE f \in FieldsOf(ds)
  <2>1. z = (48 + n * 8 + k * 160) + q * 8 /\ x = 0 + j + m * 160 + t * 8
    BY <1>8, <1>10, <1>14 DEF x, z, j
  <2>2. y = z + x /\ x \in Nat
    BY <1>4, <1>5, <1>6, <1>9, <1>12, <1>13, <2>1 DEF y, j
  <2>. QED BY <1>14, <2>2 DEF x, y, z, B, def
<1>15. CASE f \notin FieldsOf(ds)
  <2>1. x = 48 + j + m * 160 + t * 8 /\ n = 0 /\ k = 0 /\ q = 0
    BY <1>8, <1>11, <1>15 DEF x, j
  <2>2. y = 0 + x /\ x \in Nat
    BY <1>4, <1>5, <1>6, <1>9, <1>12, <1>13, <2>1 DEF y, j
  <2>. QED BY <1>15, <2>2 DEF x, y, B, def
<1>. QED BY <1>14, <1>15

(* What one document adds.                                                 *)
LEMMA DocumentBytes ==
  ASSUME NEW ds, IsBatch(ds), NEW doc, IsDocument(doc),
         acc = [g \in FieldsOf(ds) |-> Gathered(ds, g)]
  PROVE  /\ AddUp(BytesOf(ds \o <<doc>>), FieldsOf(ds \o <<doc>>))
              = AddUp(BytesOf(ds), FieldsOf(ds))
                  + MapThenSumSet(LAMBDA f : FieldBytes(f, doc.fields[f]), DOMAIN doc.fields)
         /\ AddUp(BytesOf(ds), FieldsOf(ds)) \in Nat
         /\ MapThenSumSet(LAMBDA f : FieldBytes(f, doc.fields[f]), DOMAIN doc.fields) \in Nat
<1>. DEFINE B == <<doc>>
            S == FieldsOf(ds)
            T == DOMAIN doc.fields
            c == BytesOf(ds)
            d == [f \in T |-> FieldBytes(f, doc.fields[f])]
            e == BytesOf(ds \o B)
<1>1. IsBatch(B) /\ FieldsOf(B) = T
  BY OneDocument
<1>2. FieldsOf(ds \o B) = S \union T
  <2>1. FieldsOf(ds \o B) = FieldsOf(ds) \union FieldsOf(B)
    BY <1>1, SetsConcat
  <2>. QED BY <1>1, <2>1
<1>3. IsFiniteSet(S) /\ Counted(c, S) /\ IsFiniteSet(T)
  BY <1>1, BytesAre
<1>4. \A f \in T : /\ e[f] = (IF f \in S THEN c[f] ELSE 0) + d[f]
                   /\ d[f] \in Nat
  BY FieldBytesAre
<1>5. \A f \in S \ T : e[f] = c[f]
  <2>. TAKE f \in S \ T
  <2>1. /\ Gathered(ds \o B, f) = Gathered(ds, f)
        /\ ValuesOf(ds \o B, f) = ValuesOf(ds, f)
    BY GatheredElse
  <2>2. /\ LengthsOf(ds \o B, f) = LengthsOf(ds, f)
        /\ Occurrences(ds \o B, f) = Occurrences(ds, f)
    <3>1. /\ Gathered(ds \o B, f).lengths = Gathered(ds, f).lengths
          /\ Gathered(ds \o B, f).occurrences = Gathered(ds, f).occurrences
      BY <2>1
    <3>. QED BY <3>1 DEF Gathered
  <2>. QED BY <1>2, <2>1, <2>2 DEF BytesOf, BlockBytes, EntryBytes
<1>6. Counted(d, T)
  BY <1>4 DEF Counted
<1>7. Adds(e, c, S, d, T)
  <2>1. \A x \in S : c[x] \in Nat
    BY <1>3 DEF Counted
  <2>. HIDE DEF S, T, c, d, e
  <2>. QED BY <1>4, <1>5, <2>1 DEF Adds
<1>8. MapThenSumSet(LAMBDA f : FieldBytes(f, doc.fields[f]), T) = AddUp(d, T)
  <2>. DEFINE Fold(h) == h = [z \in SUBSET T |->
                IF z = {} THEN 0
                ELSE LET x == CHOOSE x \in z : TRUE
                     IN  FieldBytes(x, doc.fields[x]) + h[z \ {x}]]
              b == CHOOSE h : Fold(h)
              a == CHOOSE h : SetSumming(h, d, T)
  <2>1. MapThenSumSet(LAMBDA f : FieldBytes(f, doc.fields[f]), T) = b[T]
    BY DEF MapThenSumSet, MapThenFoldSet
  <2>2. ASSUME NEW h PROVE Fold(h) <=> SetSumming(h, d, T)
    <3>1. \A z \in SUBSET T :
            (IF z = {} THEN 0
             ELSE LET x == CHOOSE x \in z : TRUE IN FieldBytes(x, doc.fields[x]) + h[z \ {x}])
            = (IF z = {} THEN 0
               ELSE LET x == CHOOSE x \in z : TRUE IN d[x] + h[z \ {x}])
      <4>. SUFFICES ASSUME NEW z \in SUBSET T, z # {}
                    PROVE  LET x == CHOOSE x \in z : TRUE IN FieldBytes(x, doc.fields[x]) = d[x]
        OBVIOUS
      <4>1. (CHOOSE x \in z : TRUE) \in T
        OBVIOUS
      <4>. QED BY <4>1
    <3>2. [z \in SUBSET T |->
              IF z = {} THEN 0
              ELSE LET x == CHOOSE x \in z : TRUE IN FieldBytes(x, doc.fields[x]) + h[z \ {x}]]
          = [z \in SUBSET T |->
              IF z = {} THEN 0
              ELSE LET x == CHOOSE x \in z : TRUE IN d[x] + h[z \ {x}]]
      <4>. HIDE DEF d, T
      <4>. QED BY <3>1
    <3>. HIDE DEF d, T
    <3>. QED BY <3>2 DEF SetSumming
  <2>3. b = a
    <3>. HIDE DEF Fold
    <3>. QED BY <2>2
  <2>. QED BY <2>1, <2>3 DEF AddUp
<1>. HIDE DEF S, T, c, d, e, B
<1>9. /\ AddUp(e, S \union T) = AddUp(c, S) + AddUp(d, T)
      /\ AddUp(c, S) \in Nat /\ AddUp(d, T) \in Nat
  BY <1>3, <1>6, <1>7, AddUpAdds
<1>. QED BY <1>2, <1>8, <1>9 DEF S, T, c, e, B
-----------------------------------------------------------------------------
(***************************************************************************)
(* BuildFrom emits: the tables grow by the cells of one field.             *)
(***************************************************************************)
(* r is s and then t.                                                      *)
Follows(r, s, t) == /\ Len(r) = Len(s) + Len(t)
                    /\ \A m \in 1 .. Len(s) : r[m] = s[m]
                    /\ \A m \in 1 .. Len(t) : r[Len(s) + m] = t[m]

(* So is their concatenation.                                              *)
LEMMA CatFollows ==
  ASSUME NEW V, NEW s \in Seq(V), NEW t \in Seq(V)
  PROVE  s \o t \in Seq(V) /\ Follows(s \o t, s, t)
  BY CatParts DEF Follows

(* The lengths of the parts of two sequences of sequences, one after the   *)
(* other.                                                                  *)
LEMMA LensConcat ==
  ASSUME NEW V, NEW x \in Seq(Seq(V)), NEW y \in Seq(Seq(V))
  PROVE  /\ x \o y \in Seq(Seq(V)) /\ Len(x \o y) = Len(x) + Len(y)
         /\ \A n \in 1 .. Len(x) : (x \o y)[n] = x[n]
         /\ \A n \in 1 .. Len(y) : (x \o y)[Len(x) + n] = y[n]
         /\ \A n \in 0 .. Len(x) : Total(Lens(x \o y), n) = Total(Lens(x), n)
         /\ \A n \in 0 .. Len(y) :
              Total(Lens(x \o y), Len(x) + n) = Total(Lens(x), Len(x)) + Total(Lens(y), n)
<1>. DEFINE q == x \o y
            u == Lens(x)
            w == Lens(y)
            z == Lens(q)
<1>1. /\ q \in Seq(Seq(V)) /\ Len(q) = Len(x) + Len(y)
      /\ \A n \in 1 .. Len(x) : q[n] = x[n]
      /\ \A n \in 1 .. Len(y) : q[Len(x) + n] = y[n]
  BY CatParts
<1>. HIDE DEF q
<1>2. /\ u \in Seq(Nat) /\ Len(u) = Len(x) /\ \A n \in 1 .. Len(x) : u[n] = Len(x[n])
      /\ w \in Seq(Nat) /\ Len(w) = Len(y) /\ \A n \in 1 .. Len(y) : w[n] = Len(y[n])
      /\ z \in Seq(Nat) /\ Len(z) = Len(q) /\ \A n \in 1 .. Len(q) : z[n] = Len(q[n])
  BY <1>1, LensAre
<1>3. Len(x) \in Nat /\ Len(y) \in Nat
  OBVIOUS
<1>. HIDE DEF u, w, z
<1>4. z = u \o w
  <2>. DEFINE r == u \o w
  <2>1. /\ r \in Seq(Nat) /\ Len(r) = Len(x) + Len(y)
        /\ \A n \in 1 .. Len(x) : r[n] = u[n]
        /\ \A n \in 1 .. Len(y) : r[Len(x) + n] = w[n]
    <3>1. /\ r \in Seq(Nat) /\ Len(r) = Len(u) + Len(w)
          /\ \A n \in 1 .. Len(u) : r[n] = u[n]
          /\ \A n \in 1 .. Len(w) : r[Len(u) + n] = w[n]
      <4>1. r \in Seq(Nat) /\ Follows(r, u, w)
        BY ZenonT(60), <1>2, CatFollows
      <4>. HIDE DEF r
      <4>. QED BY <4>1 DEF Follows
    <3>. QED BY <1>2, <3>1
  <2>. HIDE DEF r
  <2>2. \A n \in 1 .. Len(z) : z[n] = r[n]
    <3>. SUFFICES ASSUME NEW n \in 1 .. Len(z) PROVE z[n] = r[n]
      OBVIOUS
    <3>1. CASE n <= Len(x)
      <4>1. n \in 1 .. Len(x) /\ n \in 1 .. Len(q)
        BY <1>2, <3>1
      <4>. QED BY <1>1, <1>2, <2>1, <4>1
    <3>2. CASE n > Len(x)
      <4>. DEFINE m == n - Len(x)
      <4>1. m \in 1 .. Len(y) /\ n = Len(x) + m /\ n \in 1 .. Len(q)
        BY <1>1, <1>2, <1>3, <3>2
      <4>. HIDE DEF m
      <4>2. q[n] = y[m] /\ r[n] = w[m]
        BY <1>1, <2>1, <4>1
      <4>3. z[n] = Len(q[n]) /\ w[m] = Len(y[m])
        BY <1>2, <4>1
      <4>. QED BY <4>2, <4>3
    <3>3. n \in Nat
      BY <1>1, <1>2
    <3>. QED BY <1>3, <3>1, <3>2, <3>3
  <2>3. Len(z) = Len(r)
    BY <1>1, <1>2, <2>1
  <2>. QED BY <1>2, <2>1, <2>2, <2>3, SameSeq DEF r
<1>5. \A n \in 0 .. Len(x) : Total(z, n) = Total(u, n)
  <2>. TAKE n \in 0 .. Len(x)
  <2>1. \A k \in 1 .. Len(u) : z[k] = u[k]
    BY <1>2, <1>4, CatParts
  <2>2. n \in Nat /\ n <= Len(z) /\ n <= Len(u)
    BY <1>1, <1>2, <1>3
  <2>3. \A k \in 1 .. n : z[k] = u[k]
    BY <1>2, <1>3, <2>1
  <2>. QED BY <1>2, <2>2, <2>3, TotalSame
<1>6. \A n \in 0 .. Len(y) : Total(z, Len(x) + n) = Total(u, Len(x)) + Total(w, n)
  <2>. TAKE n \in 0 .. Len(y)
  <2>1. n \in Nat /\ n <= Len(w)
    BY <1>2, <1>3
  <2>2. Total(u \o w, Len(u) + n) = Total(u, Len(u)) + Total(w, n)
    BY <1>2, <2>1, TotalConcat
  <2>. QED BY <1>2, <1>4, <2>2
<1>. QED BY <1>1, <1>5, <1>6 DEF q, u, w, z

(* Flattened, they follow each other.                                      *)
LEMMA FlattenConcat ==
  ASSUME NEW V, NEW x \in Seq(Seq(V)), NEW y \in Seq(Seq(V))
  PROVE  /\ FlattenSeq(x \o y) = FlattenSeq(x) \o FlattenSeq(y)
         /\ FlattenSeq(x) \in Seq(V) /\ FlattenSeq(y) \in Seq(V)
         /\ Len(FlattenSeq(x)) = Total(Lens(x), Len(x))
         /\ Len(FlattenSeq(y)) = Total(Lens(y), Len(y))
<1>. DEFINE F == FlattenSeq(x)
            G == FlattenSeq(y)
            H == F \o G
            q == x \o y
<1>1. /\ F \in Seq(V) /\ Len(F) = Total(Lens(x), Len(x))
      /\ \A n \in 1 .. Len(x) : \A k \in 1 .. Len(x[n]) :
           /\ Total(Lens(x), n - 1) + k \in 1 .. Len(F)
           /\ F[Total(Lens(x), n - 1) + k] = x[n][k]
  BY FlattenPlaces
<1>2. /\ G \in Seq(V) /\ Len(G) = Total(Lens(y), Len(y))
      /\ \A n \in 1 .. Len(y) : \A k \in 1 .. Len(y[n]) :
           /\ Total(Lens(y), n - 1) + k \in 1 .. Len(G)
           /\ G[Total(Lens(y), n - 1) + k] = y[n][k]
  BY FlattenPlaces
<1>3. /\ q \in Seq(Seq(V)) /\ Len(q) = Len(x) + Len(y)
      /\ \A n \in 1 .. Len(x) : q[n] = x[n]
      /\ \A n \in 1 .. Len(y) : q[Len(x) + n] = y[n]
      /\ \A n \in 0 .. Len(x) : Total(Lens(q), n) = Total(Lens(x), n)
      /\ \A n \in 0 .. Len(y) :
           Total(Lens(q), Len(x) + n) = Total(Lens(x), Len(x)) + Total(Lens(y), n)
  BY LensConcat
<1>4. Len(x) \in Nat /\ Len(y) \in Nat
  OBVIOUS
<1>. HIDE DEF F, G, q
<1>5. /\ H \in Seq(V) /\ Len(H) = Len(F) + Len(G)
      /\ \A m \in 1 .. Len(F) : H[m] = F[m]
      /\ \A m \in 1 .. Len(G) : H[Len(F) + m] = G[m]
  <2>1. F \in Seq(V) /\ G \in Seq(V)
    BY <1>1, <1>2
  <2>2. H \in Seq(V) /\ Follows(H, F, G)
    BY ZenonT(60), <2>1, CatFollows
  <2>. HIDE DEF H
  <2>. QED BY <2>2 DEF Follows
<1>. HIDE DEF H
<1>6. Len(H) = Total(Lens(q), Len(q))
  <2>1. Len(y) \in 0 .. Len(y)
    BY <1>4
  <2>. QED BY <1>1, <1>2, <1>3, <1>5, <2>1
<1>7. \A m \in 1 .. Len(q) : \A k \in 1 .. Len(q[m]) : H[Total(Lens(q), m - 1) + k] = q[m][k]
  <2>. SUFFICES ASSUME NEW m \in 1 .. Len(q), NEW k \in 1 .. Len(q[m])
                PROVE  H[Total(Lens(q), m - 1) + k] = q[m][k]
    OBVIOUS
  <2>1. CASE m <= Len(x)
    <3>1. m \in 1 .. Len(x) /\ m - 1 \in 0 .. Len(x)
      BY <1>3, <1>4, <2>1
    <3>2. q[m] = x[m] /\ Total(Lens(q), m - 1) = Total(Lens(x), m - 1)
      BY <1>3, <3>1
    <3>3. k \in 1 .. Len(x[m])
      BY <3>2
    <3>. DEFINE p == Total(Lens(x), m - 1) + k
    <3>4. p \in 1 .. Len(F) /\ F[p] = x[m][k]
      BY <1>1, <3>1, <3>3
    <3>. HIDE DEF p
    <3>5. H[p] = x[m][k]
      BY <1>5, <3>4
    <3>. QED BY <3>2, <3>5 DEF p
  <2>2. CASE m > Len(x)
    <3>. DEFINE n == m - Len(x)
                j == n - 1
    <3>1. n \in 1 .. Len(y) /\ m = Len(x) + n /\ j \in 0 .. Len(y) /\ m - 1 = Len(x) + j
      BY <1>3, <1>4, <2>2
    <3>2. j = n - 1
      OBVIOUS
    <3>. HIDE DEF n, j
    <3>3. q[m] = y[n] /\ Total(Lens(q), m - 1) = Len(F) + Total(Lens(y), j)
      BY <1>1, <1>3, <3>1
    <3>4. k \in 1 .. Len(y[n])
      BY <3>3
    <3>. DEFINE t == Total(Lens(y), j)
                p == t + k
    <3>5. p \in 1 .. Len(G) /\ G[p] = y[n][k]
      BY <1>2, <3>1, <3>2, <3>4
    <3>6. t \in Nat /\ k \in Nat /\ Len(F) \in Nat
      <4>1. Lens(y) \in Seq(Nat) /\ Len(Lens(y)) = Len(y)
        BY LensAre
      <4>2. t \in Nat
        BY <3>1, <4>1, TotalSteps
      <4>3. k \in Nat
        <5>1. Len(y[n]) \in Nat
          <6>1. y[n] \in Seq(V)
            BY <3>1
          <6>. QED BY <6>1
        <5>. QED BY <3>4, <5>1
      <4>. QED BY <1>1, <4>2, <4>3
    <3>. HIDE DEF t
    <3>7. (Len(F) + t) + k = Len(F) + p
      BY <3>6
    <3>. HIDE DEF p
    <3>8. H[Len(F) + p] = y[n][k]
      BY <1>5, <3>5
    <3>. QED BY <3>3, <3>7, <3>8 DEF t
  <2>3. m \in Nat
    BY <1>3, <1>4
  <2>. QED BY <1>4, <2>1, <2>2, <2>3
<1>8. Placed(H, q, Len(q))
  BY <1>6, <1>7 DEF Placed
<1>9. H = FlattenSeq(q)
  BY <1>3, <1>5, <1>8, PlacedAll
<1>. QED BY <1>1, <1>2, <1>9 DEF H, F, G, q

(* The lengths of the first parts, added up.                               *)
LEMMA LenSumIs ==
  ASSUME NEW V, NEW q \in Seq(Seq(V)), NEW n \in 0 .. Len(q)
  PROVE  LenSum(SubSeq(q, 1, n)) = Total(Lens(q), n)
<1>. DEFINE w == Lens(q)
            p == SubSeq(q, 1, n)
            x == SubSeq(w, 1, n)
<1>1. w \in Seq(Nat) /\ Len(w) = Len(q) /\ \A k \in 1 .. Len(q) : w[k] = Len(q[k])
  BY LensAre
<1>2. n \in Nat /\ n <= Len(q)
  OBVIOUS
<1>. HIDE DEF w
<1>3. p \in Seq(Seq(V)) /\ Len(p) = n /\ \A k \in 1 .. n : p[k] = q[k]
  BY <1>2
<1>4. x \in Seq(Nat) /\ Len(x) = n /\ \A k \in 1 .. n : x[k] = w[k]
  BY <1>1, <1>2
<1>. HIDE DEF p, x
<1>5. \A k \in 1 .. Len(x) : Len(p[k]) = x[k]
  <2>. SUFFICES ASSUME NEW k \in 1 .. Len(x) PROVE Len(p[k]) = x[k]
    OBVIOUS
  <2>1. k \in 1 .. n /\ k \in 1 .. Len(q)
    BY <1>2, <1>4
  <2>. QED BY <1>1, <1>3, <1>4, <2>1
<1>6. DOMAIN p = 1 .. Len(x)
  BY <1>3, <1>4
<1>7. LenSum(p) = Total(x, Len(x))
  BY <1>4, <1>5, <1>6, LensSum
<1>8. Total(x, n) = Total(w, n)
  <2>1. n <= Len(x) /\ n <= Len(w) /\ \A k \in 1 .. n : x[k] = w[k]
    BY <1>1, <1>2, <1>4
  <2>. QED BY ZenonT(60), <1>1, <1>2, <1>4, <2>1, TotalSame
<1>. QED BY <1>4, <1>7, <1>8 DEF p, w

(* The bytes of two sequences of bitmaps.                                  *)
LEMMA DataSizeConcat ==
  ASSUME NEW V, \A S \in V : BitmapSize(S) \in Nat, NEW x \in Seq(V), NEW y \in Seq(V)
  PROVE  /\ DataSize(x \o y) = DataSize(x) + DataSize(y)
         /\ DataSize(x) \in Nat /\ DataSize(y) \in Nat
<1>. DEFINE q == x \o y
            u == [k \in 1 .. Len(x) |-> BitmapSize(x[k])]
            w == [k \in 1 .. Len(y) |-> BitmapSize(y[k])]
            z == u \o w
<1>1. /\ q \in Seq(V) /\ Len(q) = Len(x) + Len(y)
      /\ \A n \in 1 .. Len(x) : q[n] = x[n]
      /\ \A n \in 1 .. Len(y) : q[Len(x) + n] = y[n]
  BY CatParts
<1>2. /\ Len(x) \in Nat /\ DOMAIN x = 1 .. Len(x) /\ \A k \in 1 .. Len(x) : x[k] \in V
      /\ Len(y) \in Nat /\ DOMAIN y = 1 .. Len(y) /\ \A k \in 1 .. Len(y) : y[k] \in V
  OBVIOUS
<1>3. u \in [1 .. Len(x) -> Nat] /\ \A k \in 1 .. Len(x) : BitmapSize(x[k]) = u[k]
  BY <1>2
<1>4. w \in [1 .. Len(y) -> Nat] /\ \A k \in 1 .. Len(y) : BitmapSize(y[k]) = w[k]
  BY <1>2
<1>. HIDE DEF u, w, q
<1>5. u \in Seq(Nat) /\ Len(u) = Len(x) /\ w \in Seq(Nat) /\ Len(w) = Len(y)
  <2>1. Len(x) \in Nat /\ Len(y) \in Nat
    BY <1>2
  <2>. QED BY ZenonT(60), <1>3, <1>4, <2>1, FunctionIsSeq
<1>6. /\ z \in Seq(Nat) /\ Len(z) = Len(x) + Len(y)
      /\ \A n \in 1 .. Len(x) : z[n] = u[n]
      /\ \A n \in 1 .. Len(y) : z[Len(x) + n] = w[n]
  <2>1. /\ z \in Seq(Nat) /\ Len(z) = Len(u) + Len(w)
        /\ \A n \in 1 .. Len(u) : z[n] = u[n]
        /\ \A n \in 1 .. Len(w) : z[Len(u) + n] = w[n]
    <3>1. z \in Seq(Nat) /\ Follows(z, u, w)
      BY ZenonT(60), <1>5, CatFollows
    <3>. HIDE DEF z
    <3>. QED BY <3>1 DEF Follows
  <2>. QED BY <1>5, <2>1
<1>7. DataSize(x) = Total(u, Len(u)) /\ DataSize(y) = Total(w, Len(w))
  BY <1>2, <1>3, <1>4, <1>5, SizesSum
<1>8. Total(z, Len(u) + Len(w)) = Total(u, Len(u)) + Total(w, Len(w))
  <2>1. Len(w) \in Nat /\ Len(w) <= Len(w)
    BY <1>2, <1>5
  <2>. QED BY ZenonT(60), <1>5, <2>1, TotalConcat
<1>. HIDE DEF z
<1>9. DataSize(q) = Total(z, Len(z))
  <2>1. DOMAIN q = 1 .. Len(z)
    BY <1>1, <1>6
  <2>2. \A k \in 1 .. Len(z) : BitmapSize(q[k]) = z[k]
    <3>. SUFFICES ASSUME NEW k \in 1 .. Len(z) PROVE BitmapSize(q[k]) = z[k]
      OBVIOUS
    <3>1. CASE k <= Len(x)
      <4>1. k \in 1 .. Len(x)
        BY <1>2, <1>6, <3>1
      <4>. QED BY <1>1, <1>3, <1>6, <4>1
    <3>2. CASE k > Len(x)
      <4>. DEFINE m == k - Len(x)
      <4>1. m \in 1 .. Len(y) /\ k = Len(x) + m
        BY <1>2, <1>6, <3>2
      <4>. HIDE DEF m
      <4>2. q[k] = y[m] /\ z[k] = w[m]
        BY <1>1, <1>6, <4>1
      <4>. QED BY <1>4, <4>1, <4>2
    <3>3. k \in Nat
      BY <1>2, <1>6
    <3>. QED BY <1>2, <3>1, <3>2, <3>3
  <2>. QED BY <1>6, <2>1, <2>2, SizesSum
<1>10. Total(u, Len(u)) \in Nat /\ Total(w, Len(w)) \in Nat
  <2>1. Len(u) \in 0 .. Len(u) /\ Len(w) \in 0 .. Len(w)
    BY <1>2, <1>5
  <2>. QED BY <1>5, <2>1, TotalSteps
<1>. QED BY <1>5, <1>6, <1>7, <1>8, <1>9, <1>10 DEF q
(* The cells of one more field come after the others.                      *)
Grows(ds, o, g, more) ==
  /\ more \in Seq(FieldsOf(ds)) /\ Len(more) = Len(o) + 1
  /\ \A m \in 1 .. Len(o) : more[m] = o[m]
  /\ more[Len(o) + 1] = g
  /\ \A m \in 1 .. Len(o) + 1 : Before(ds, more, m) = Before(ds, o, m)
  /\ Before(ds, more, Len(o) + 1) = Len(Cells(ds, o))
  /\ Len(Cells(ds, o)) \in Nat /\ Cardinality(ValuesOf(ds, g)) \in Nat
  /\ Len(Cells(ds, more)) = Len(Cells(ds, o)) + Cardinality(ValuesOf(ds, g))
  /\ \A p \in 1 .. Len(Cells(ds, o)) : Cells(ds, more)[p] = Cells(ds, o)[p]
  /\ \A k \in 1 .. Cardinality(ValuesOf(ds, g)) :
       Cells(ds, more)[Len(Cells(ds, o)) + k] = [f |-> g, v |-> Vals(ds, g)[k]]

(* That is what another field at the end of the order does.                *)
LEMMA CellsGrow ==
  ASSUME NEW ds, IsBatch(ds), NEW o \in Seq(FieldsOf(ds)), NEW g \in FieldsOf(ds)
  PROVE  Grows(ds, o, g, Append(o, g))
<1>. DEFINE more == Append(o, g)
            n == Len(o)
            N == Len(Cells(ds, o))
            c == Cardinality(ValuesOf(ds, g))
<1>1. /\ more \in Seq(FieldsOf(ds)) /\ Len(more) = n + 1
      /\ \A m \in 1 .. n : more[m] = o[m]
      /\ more[n + 1] = g
      /\ \A m \in 1 .. n + 1 : Before(ds, more, m) = Before(ds, o, m)
      /\ Before(ds, more, n + 1) = N
  BY CellsExtend
<1>. HIDE DEF more
<1>2. n \in Nat /\ N \in Nat /\ c \in Nat
  <2>1. N \in Nat /\ c \in Nat
    BY BeforeIs, ValuesListed
  <2>. QED BY <2>1
<1>3. Len(Cells(ds, more)) = N + c
  <2>1. /\ \A m \in 1 .. Len(more) :
             Before(ds, more, m + 1) = Before(ds, more, m) + Cardinality(ValuesOf(ds, more[m]))
        /\ Before(ds, more, Len(more) + 1) = Len(Cells(ds, more))
    BY <1>1, BeforeIs
  <2>2. n + 1 \in 1 .. Len(more)
    BY <1>1, <1>2
  <2>3. Before(ds, more, (n + 1) + 1) = N + c
    BY <1>1, <2>1, <2>2
  <2>. QED BY <1>1, <2>1, <2>3
<1>4. \A r \in Seq(FieldsOf(ds)) :
        \A m \in 1 .. Len(r) : \A k \in 1 .. Cardinality(ValuesOf(ds, r[m])) :
           Cells(ds, r)[Before(ds, r, m) + k] = [f |-> r[m], v |-> Ascending(ValuesOf(ds, r[m]))[k]]
  BY ONLY IsBatch(ds), CellsAre
<1>5. \A p \in 1 .. N : Cells(ds, more)[p] = Cells(ds, o)[p]
  <2>. SUFFICES ASSUME NEW p \in 1 .. N PROVE Cells(ds, more)[p] = Cells(ds, o)[p]
    OBVIOUS
  <2>1. PICK m \in 1 .. n : \E k \in 1 .. Cardinality(ValuesOf(ds, o[m])) :
                               p = Before(ds, o, m) + k
    BY CellsAre
  <2>2. PICK k \in 1 .. Cardinality(ValuesOf(ds, o[m])) : p = Before(ds, o, m) + k
    BY <2>1
  <2>3. m \in 1 .. n + 1 /\ m \in 1 .. Len(more) /\ more[m] = o[m]
        /\ Before(ds, more, m) = Before(ds, o, m)
    BY <1>1, <1>2
  <2>4. Cells(ds, o)[p] = [f |-> o[m], v |-> Ascending(ValuesOf(ds, o[m]))[k]]
    BY <1>4, <2>2
  <2>5. Cells(ds, more)[p] = [f |-> o[m], v |-> Ascending(ValuesOf(ds, o[m]))[k]]
    <3>1. k \in 1 .. Cardinality(ValuesOf(ds, more[m])) /\ p = Before(ds, more, m) + k
      BY <2>2, <2>3
    <3>2. Cells(ds, more)[Before(ds, more, m) + k]
            = [f |-> more[m], v |-> Ascending(ValuesOf(ds, more[m]))[k]]
      BY <1>1, <1>4, <2>3, <3>1
    <3>. QED BY <2>3, <3>1, <3>2
  <2>. QED BY <2>4, <2>5
<1>6. \A k \in 1 .. c : Cells(ds, more)[N + k] = [f |-> g, v |-> Vals(ds, g)[k]]
  <2>. TAKE k \in 1 .. c
  <2>1. n + 1 \in 1 .. Len(more) /\ k \in 1 .. Cardinality(ValuesOf(ds, more[n + 1]))
    BY <1>1, <1>2
  <2>2. Cells(ds, more)[Before(ds, more, n + 1) + k]
          = [f |-> more[n + 1], v |-> Ascending(ValuesOf(ds, more[n + 1]))[k]]
    BY <1>1, <1>4, <2>1
  <2>. QED BY <1>1, <2>2 DEF Vals
<1>. HIDE DEF n, N, c
<1>7. Grows(ds, o, g, more)
  BY <1>1, <1>2, <1>3, <1>5, <1>6 DEF Grows, n, N, c
<1>. QED BY <1>7 DEF more

(* The entries and the posting lists of the tokens of a field.             *)
FieldEntries(ds, f) == [k \in DOMAIN Vals(ds, f) |-> EntriesOf(ds, f, Vals(ds, f)[k])]
FieldHolders(ds, f) == [k \in DOMAIN Vals(ds, f) |-> Holders(ds, f, Vals(ds, f)[k])]

(* One for each token; as many entries as the field has occurrences.       *)
LEMMA FieldTables ==
  ASSUME NEW ds, IsBatch(ds), NEW f
  PROVE  LET c == Cardinality(ValuesOf(ds, f)) IN
         /\ c \in Nat /\ DOMAIN Vals(ds, f) = 1 .. c
         /\ FieldEntries(ds, f) \in Seq(Seq(Entry)) /\ Len(FieldEntries(ds, f)) = c
         /\ FieldHolders(ds, f) \in Seq({Holders(ds, f, v) : v \in Nat})
         /\ Len(FieldHolders(ds, f)) = c
         /\ Len(FlattenSeq(FieldEntries(ds, f))) = Occurrences(ds, f)
         /\ \A k \in 1 .. c : Vals(ds, f)[k] \in Nat
<1>. DEFINE c == Cardinality(ValuesOf(ds, f))
            A == Vals(ds, f)
            E == FieldEntries(ds, f)
            H == FieldHolders(ds, f)
            W == {Holders(ds, f, v) : v \in Nat}
            w == HolderCounts(ds, f)
<1>1. c \in Nat /\ DOMAIN A = 1 .. c /\ \A k \in 1 .. c : A[k] \in Nat
  BY ValuesListed DEF Vals
<1>2. \A v : /\ EntriesOf(ds, f, v) \in Seq(Entry)
             /\ Len(EntriesOf(ds, f, v)) = Cardinality(Holders(ds, f, v))
  BY EntriesAre
<1>3. E \in [1 .. c -> Seq(Entry)] /\ \A k \in 1 .. c : E[k] = EntriesOf(ds, f, A[k])
  BY <1>1, <1>2 DEF FieldEntries
<1>4. H \in [1 .. c -> W]
  BY <1>1 DEF FieldHolders
<1>5. /\ w \in Seq(Nat) /\ Len(w) = c
      /\ \A k \in 1 .. c : w[k] = Cardinality(Holders(ds, f, A[k]))
      /\ Occurrences(ds, f) = Total(w, c)
  BY HolderCountsAre DEF Occurrences
<1>. HIDE DEF c, A, E, H, W, w
<1>6. E \in Seq(Seq(Entry)) /\ Len(E) = c
  <2>. DEFINE U == Seq(Entry)
  <2>1. E \in [1 .. c -> U]
    BY <1>3
  <2>. HIDE DEF U
  <2>2. E \in Seq(U) /\ Len(E) = c
    BY <1>1, <2>1, FunctionIsSeq
  <2>. QED BY <2>2 DEF U
<1>7. H \in Seq(W) /\ Len(H) = c
  BY <1>1, <1>4, FunctionIsSeq
<1>8. Len(FlattenSeq(E)) = Occurrences(ds, f)
  <2>. DEFINE x == Lens(E)
  <2>1. Len(FlattenSeq(E)) = Total(x, c)
    BY <1>6, FlattenPlaces
  <2>2. x \in Seq(Nat) /\ Len(x) = c /\ \A k \in 1 .. c : x[k] = Len(E[k])
    <3>1. x \in Seq(Nat) /\ Len(x) = Len(E) /\ \A k \in 1 .. Len(E) : x[k] = Len(E[k])
      BY <1>6, LensAre
    <3>. QED BY <1>6, <3>1
  <2>. HIDE DEF x
  <2>3. \A k \in 1 .. c : x[k] = w[k]
    BY <1>2, <1>3, <1>5, <2>2
  <2>4. c <= Len(x) /\ c <= Len(w)
    BY <1>1, <1>5, <2>2
  <2>5. Total(x, c) = Total(w, c)
    BY <1>1, <1>5, <2>2, <2>3, <2>4, TotalSame
  <2>. QED BY <1>5, <2>1, <2>5
<1>. QED BY <1>1, <1>6, <1>7, <1>8 DEF c, A, E, H, W

(* The documents of the entries are those of the posting list.             *)
LEMMA EntryDocs ==
  ASSUME NEW ds, IsBatch(ds), NEW f, NEW v
  PROVE  LET e == EntriesOf(ds, f, v) IN {e[n].doc : n \in DOMAIN e} = Holders(ds, f, v)
<1>. DEFINE e == EntriesOf(ds, f, v)
            H == Holders(ds, f, v)
            A == Ascending(H)
<1>1. IsFiniteSet(H) /\ Numbers(H)
  BY BatchSets
<1>2. /\ e \in Seq(Entry) /\ Len(e) = Cardinality(H)
      /\ \A k \in 1 .. Len(e) : /\ e[k] = [doc |-> A[k], freq |-> ds[A[k] + 1].fields[f].tokens[v]]
                                /\ A[k] \in H
  BY EntriesAre
<1>3. Len(A) = Cardinality(H) /\ \A x \in H : \E i \in 1 .. Len(A) : A[i] = x
  BY <1>1, AscendingLists DEF Lists
<1>. HIDE DEF e, H, A
<1>4. \A k \in 1 .. Len(e) : e[k].doc = A[k] /\ A[k] \in H
  BY <1>2
<1>5. DOMAIN e = 1 .. Len(e)
  BY <1>2
<1>6. {e[n].doc : n \in DOMAIN e} = H
  BY <1>2, <1>3, <1>4, <1>5
<1>. QED BY <1>6 DEF e, H
(* A token of the field that comes after the cells of these.               *)
NextToken(ds, o, g, k) ==
  [value |-> Vals(ds, g)[k],
   count |-> Cardinality(Holders(ds, g, Vals(ds, g)[k])),
   list  |-> Len(Cells(ds, o)) + k - 1,
   freq  |-> Len(FlattenSeq(CellEntries(ds, o))) + LenSum(SubSeq(FieldEntries(ds, g), 1, k - 1))]

(* The tables of the cells, with those of one more field.                  *)
TablesGrow(ds, o, g, more) ==
  /\ CellEntries(ds, more) = CellEntries(ds, o) \o FieldEntries(ds, g)
  /\ FlattenSeq(CellEntries(ds, more))
       = FlattenSeq(CellEntries(ds, o)) \o FlattenSeq(FieldEntries(ds, g))
  /\ Len(FlattenSeq(CellEntries(ds, more)))
       = Len(FlattenSeq(CellEntries(ds, o))) + Occurrences(ds, g)
  /\ Len(FlattenSeq(CellEntries(ds, o))) \in Nat
  /\ CellHolders(ds, more) = CellHolders(ds, o) \o FieldHolders(ds, g)
  /\ DataSize(CellHolders(ds, more)) = DataSize(CellHolders(ds, o)) + DataSize(FieldHolders(ds, g))
  /\ DataSize(CellHolders(ds, o)) \in Nat /\ DataSize(FieldHolders(ds, g)) \in Nat
  /\ \A p \in 1 .. Len(Cells(ds, o)) : LaidToken(ds, more, p) = LaidToken(ds, o, p)
  /\ \A k \in 1 .. Cardinality(ValuesOf(ds, g)) :
       LaidToken(ds, more, Len(Cells(ds, o)) + k) = NextToken(ds, o, g, k)

(* The tables of one more field come after the others.                     *)
LEMMA CellTablesGrow ==
  ASSUME NEW ds, IsBatch(ds), NEW o \in Seq(FieldsOf(ds)), NEW g \in FieldsOf(ds)
  PROVE  TablesGrow(ds, o, g, Append(o, g))
<1>. DEFINE more == Append(o, g)
            N == Len(Cells(ds, o))
            c == Cardinality(ValuesOf(ds, g))
            X == CellEntries(ds, o)
            Y == FieldEntries(ds, g)
            Z == CellEntries(ds, more)
            P == CellHolders(ds, o)
            Q == FieldHolders(ds, g)
            R == CellHolders(ds, more)
            A == Vals(ds, g)
<1>1. Grows(ds, o, g, more)
  BY CellsGrow
<1>. HIDE DEF more
<1>2. /\ more \in Seq(FieldsOf(ds)) /\ N \in Nat /\ c \in Nat
      /\ Len(Cells(ds, more)) = N + c
      /\ \A p \in 1 .. N : Cells(ds, more)[p] = Cells(ds, o)[p]
      /\ \A k \in 1 .. c : Cells(ds, more)[N + k] = [f |-> g, v |-> A[k]]
  BY <1>1 DEF Grows
<1>3. /\ X \in Seq(Seq(Entry)) /\ Len(X) = N
      /\ \A n \in 1 .. N : /\ X[n] = EntriesOf(ds, Cells(ds, o)[n].f, Cells(ds, o)[n].v)
                           /\ LenSum(SubSeq(X, 1, n - 1)) = Total(Lens(X), n - 1)
  BY CellEntriesAre
<1>4. /\ Z \in Seq(Seq(Entry)) /\ Len(Z) = N + c
      /\ \A n \in 1 .. N + c : /\ Z[n] = EntriesOf(ds, Cells(ds, more)[n].f, Cells(ds, more)[n].v)
                               /\ LenSum(SubSeq(Z, 1, n - 1)) = Total(Lens(Z), n - 1)
  <2>1. /\ Z \in Seq(Seq(Entry)) /\ Len(Z) = Len(Cells(ds, more))
        /\ \A n \in 1 .. Len(Cells(ds, more)) :
             /\ Z[n] = EntriesOf(ds, Cells(ds, more)[n].f, Cells(ds, more)[n].v)
             /\ LenSum(SubSeq(Z, 1, n - 1)) = Total(Lens(Z), n - 1)
    BY <1>2, CellEntriesAre
  <2>. HIDE DEF Z
  <2>. QED BY <1>2, <2>1
<1>5. /\ Y \in Seq(Seq(Entry)) /\ Len(Y) = c /\ DOMAIN A = 1 .. c
      /\ Q \in Seq({Holders(ds, g, v) : v \in Nat}) /\ Len(Q) = c
      /\ Len(FlattenSeq(Y)) = Occurrences(ds, g)
  BY FieldTables
<1>6. \A k \in 1 .. c : Y[k] = EntriesOf(ds, g, A[k]) /\ Q[k] = Holders(ds, g, A[k])
  BY <1>5 DEF FieldEntries, FieldHolders
<1>7. /\ P \in Seq(SUBSET Nat) /\ Len(P) = N
      /\ \A n \in 1 .. N : P[n] = Holders(ds, Cells(ds, o)[n].f, Cells(ds, o)[n].v)
  BY SizesAre DEF CellHolders
<1>8. /\ R \in Seq(SUBSET Nat) /\ Len(R) = N + c
      /\ \A n \in 1 .. N + c : R[n] = Holders(ds, Cells(ds, more)[n].f, Cells(ds, more)[n].v)
  <2>1. /\ R \in Seq(SUBSET Nat) /\ Len(R) = Len(Cells(ds, more))
        /\ \A n \in 1 .. Len(Cells(ds, more)) :
             R[n] = Holders(ds, Cells(ds, more)[n].f, Cells(ds, more)[n].v)
    BY <1>2, SizesAre DEF CellHolders
  <2>. HIDE DEF R
  <2>. QED BY <1>2, <2>1
<1>9. \A k \in 1 .. c : Cells(ds, more)[N + k].f = g /\ Cells(ds, more)[N + k].v = A[k]
  <2>1. \A z, h, v : z = [f |-> h, v |-> v] => z.f = h /\ z.v = v
    OBVIOUS
  <2>. HIDE DEF N, c, A
  <2>2. \A k \in 1 .. c : Cells(ds, more)[N + k] = [f |-> g, v |-> A[k]]
    BY <1>2
  <2>. TAKE k \in 1 .. c
  <2>. DEFINE z == Cells(ds, more)[N + k]
  <2>3. z = [f |-> g, v |-> A[k]]
    BY <2>2
  <2>. HIDE DEF z
  <2>4. z.f = g /\ z.v = A[k]
    BY <2>1, <2>3
  <2>. QED BY <2>4 DEF z
<1>10. \A n \in 1 .. N + c : n \in 1 .. N \/ (n - N \in 1 .. c /\ n = N + (n - N))
  BY <1>2
<1>11. \A n \in 1 .. N : n \in 1 .. N + c
  BY <1>2
<1>12. \A k \in 1 .. c : N + k \in 1 .. N + c
  BY <1>2
<1>. HIDE DEF X, Y, Z, P, Q, R, A, N, c
<1>13. Z = X \o Y
  <2>. DEFINE T == X \o Y
  <2>1. T \in Seq(Seq(Entry)) /\ Follows(T, X, Y)
    BY ZenonT(60), <1>3, <1>5, CatFollows
  <2>. HIDE DEF T
  <2>2. /\ Len(T) = N + c /\ \A m \in 1 .. N : T[m] = X[m]
        /\ \A m \in 1 .. c : T[N + m] = Y[m]
    BY <1>3, <1>5, <2>1 DEF Follows
  <2>3. \A n \in 1 .. Len(Z) : Z[n] = T[n]
    <3>. SUFFICES ASSUME NEW n \in 1 .. Len(Z) PROVE Z[n] = T[n]
      OBVIOUS
    <3>1. n \in 1 .. N + c
      BY <1>4
    <3>2. ASSUME n \in 1 .. N PROVE Z[n] = T[n]
      <4>1. Cells(ds, more)[n] = Cells(ds, o)[n]
        BY <1>2, <3>2
      <4>2. Z[n] = EntriesOf(ds, Cells(ds, more)[n].f, Cells(ds, more)[n].v)
        BY <1>4, <3>1
      <4>3. X[n] = EntriesOf(ds, Cells(ds, o)[n].f, Cells(ds, o)[n].v)
        BY <1>3, <3>2
      <4>4. T[n] = X[n]
        BY <2>2, <3>2
      <4>. QED BY <4>1, <4>2, <4>3, <4>4
    <3>3. ASSUME NEW k \in 1 .. c, n = N + k PROVE Z[n] = T[n]
      BY <1>4, <1>6, <1>9, <2>2, <3>1, <3>3
    <3>. QED BY <1>10, <3>1, <3>2, <3>3
  <2>4. Len(Z) = Len(T)
    BY <1>4, <2>2
  <2>. DEFINE U == Seq(Entry)
  <2>5. Z \in Seq(U) /\ T \in Seq(U)
    BY <1>4, <2>1
  <2>. HIDE DEF U
  <2>. QED BY <2>3, <2>4, <2>5, SameSeq DEF T
<1>14. R = P \o Q
  <2>. DEFINE T == P \o Q
              W == SUBSET Nat
  <2>0. Q \in Seq(W) /\ P \in Seq(W) /\ R \in Seq(W)
    <3>1. {Holders(ds, g, v) : v \in Nat} \subseteq W
      <4>1. \A v : Holders(ds, g, v) \in SUBSET Nat
        <5>1. \A v : Numbers(Holders(ds, g, v))
          BY BatchSets
        <5>. QED BY <5>1 DEF Numbers
      <4>. QED BY <4>1
    <3>. DEFINE Hs == {Holders(ds, g, v) : v \in Nat}
    <3>2. \A K, L : K \subseteq L => Seq(K) \subseteq Seq(L)
      OBVIOUS
    <3>3. P \in Seq(W) /\ R \in Seq(W) /\ Q \in Seq(Hs)
      BY <1>5, <1>7, <1>8
    <3>. HIDE DEF W, Hs
    <3>. QED BY <3>1, <3>2, <3>3 DEF Hs
  <2>. HIDE DEF W
  <2>1. T \in Seq(W) /\ Follows(T, P, Q)
    BY ZenonT(60), <2>0, CatFollows
  <2>. HIDE DEF T
  <2>2. /\ Len(T) = N + c /\ \A m \in 1 .. N : T[m] = P[m]
        /\ \A m \in 1 .. c : T[N + m] = Q[m]
    BY <1>5, <1>7, <2>1 DEF Follows
  <2>3. \A n \in 1 .. Len(R) : R[n] = T[n]
    <3>. SUFFICES ASSUME NEW n \in 1 .. Len(R) PROVE R[n] = T[n]
      OBVIOUS
    <3>1. n \in 1 .. N + c
      BY <1>8
    <3>2. CASE n \in 1 .. N
      BY <1>2, <1>7, <1>8, <2>2, <3>1, <3>2
    <3>3. ASSUME NEW k \in 1 .. c, n = N + k PROVE R[n] = T[n]
      BY <1>6, <1>8, <1>9, <2>2, <3>1, <3>3
    <3>. QED BY <1>10, <3>1, <3>2, <3>3
  <2>4. Len(R) = Len(T)
    BY <1>8, <2>2
  <2>. QED BY <2>0, <2>1, <2>3, <2>4, SameSeq DEF T
<1>15. /\ FlattenSeq(Z) = FlattenSeq(X) \o FlattenSeq(Y)
       /\ FlattenSeq(X) \in Seq(Entry) /\ FlattenSeq(Y) \in Seq(Entry)
       /\ Len(FlattenSeq(X)) = Total(Lens(X), N)
  <2>1. /\ FlattenSeq(X \o Y) = FlattenSeq(X) \o FlattenSeq(Y)
        /\ FlattenSeq(X) \in Seq(Entry) /\ FlattenSeq(Y) \in Seq(Entry)
        /\ Len(FlattenSeq(X)) = Total(Lens(X), Len(X))
    BY <1>3, <1>5, FlattenConcat
  <2>. QED BY <1>3, <1>13, <2>1
<1>16. /\ Len(FlattenSeq(Z)) = Len(FlattenSeq(X)) + Occurrences(ds, g)
       /\ Len(FlattenSeq(X)) \in Nat
  <2>. DEFINE F == FlattenSeq(X)
              G == FlattenSeq(Y)
  <2>1. F \in Seq(Entry) /\ G \in Seq(Entry) /\ Len(G) = Occurrences(ds, g)
    BY <1>5, <1>15
  <2>. HIDE DEF F, G
  <2>2. Len(F \o G) = Len(F) + Len(G) /\ Len(F) \in Nat
    BY <2>1
  <2>. QED BY <1>15, <2>1, <2>2 DEF F, G
<1>17. /\ DataSize(R) = DataSize(P) + DataSize(Q)
       /\ DataSize(P) \in Nat /\ DataSize(Q) \in Nat
  <2>. DEFINE W == {Holders(ds, h, v) : h \in FieldsOf(ds), v \in Nat}
  <2>1. \A S \in W : BitmapSize(S) \in Nat
    <3>. SUFFICES ASSUME NEW h \in FieldsOf(ds), NEW v \in Nat
                  PROVE  BitmapSize(Holders(ds, h, v)) \in Nat
      OBVIOUS
    <3>. DEFINE n == Cardinality(Holders(ds, h, v))
    <3>1. n \in Nat
      BY EntriesAre
    <3>2. BitmapSize(Holders(ds, h, v)) = IF Holders(ds, h, v) = {} THEN 8 ELSE 16 + 2 * n
      BY DEF BitmapSize
    <3>. HIDE DEF n
    <3>. QED BY <3>1, <3>2
  <2>2. P \in Seq(W) /\ Q \in Seq(W)
    <3>1. \A n \in 1 .. N : P[n] \in W
      <4>. TAKE n \in 1 .. N
      <4>1. Cells(ds, o)[n].f \in FieldsOf(ds) /\ Cells(ds, o)[n].v \in Nat
        <5>1. Cells(ds, o) \in Seq(Cell(ds))
          BY CellsAre
        <5>2. Cells(ds, o)[n] \in Cell(ds)
          BY <5>1 DEF N
        <5>. QED BY <5>2 DEF Cell
      <4>2. P[n] = Holders(ds, Cells(ds, o)[n].f, Cells(ds, o)[n].v)
        BY <1>7
      <4>. QED BY <4>1, <4>2
    <3>2. \A n \in 1 .. c : Q[n] \in W
      <4>. TAKE n \in 1 .. c
      <4>1. A[n] \in Nat
        BY FieldTables DEF A, c
      <4>. QED BY <1>6, <4>1
    <3>. HIDE DEF W
    <3>3. P = [n \in 1 .. N |-> P[n]] /\ Q = [n \in 1 .. c |-> Q[n]]
      BY <1>5, <1>7
    <3>4. P \in [1 .. N -> W] /\ Q \in [1 .. c -> W]
      BY <3>1, <3>2, <3>3
    <3>. QED BY ZenonT(60), <1>2, <3>4, FunctionIsSeq
  <2>. HIDE DEF W
  <2>3. /\ DataSize(P \o Q) = DataSize(P) + DataSize(Q)
        /\ DataSize(P) \in Nat /\ DataSize(Q) \in Nat
    BY ZenonT(60), <2>1, <2>2, DataSizeConcat
  <2>. QED BY <1>14, <2>3
<1>18. ASSUME NEW p \in 1 .. N PROVE LaidToken(ds, more, p) = LaidToken(ds, o, p)
  <2>1. Cells(ds, more)[p].v = Cells(ds, o)[p].v
    BY <1>2
  <2>2. Z[p] = X[p]
    BY <1>2, <1>3, <1>4, <1>11
  <2>3. LenSum(SubSeq(Z, 1, p - 1)) = LenSum(SubSeq(X, 1, p - 1))
    <3>1. p - 1 \in 0 .. Len(X)
      BY <1>2, <1>3
    <3>2. Total(Lens(Z), p - 1) = Total(Lens(X), p - 1)
      BY <1>3, <1>5, <1>13, <3>1, LensConcat
    <3>3. LenSum(SubSeq(Z, 1, p - 1)) = Total(Lens(Z), p - 1)
      BY <1>4, <1>11
    <3>4. LenSum(SubSeq(X, 1, p - 1)) = Total(Lens(X), p - 1)
      BY <1>3
    <3>. QED BY <3>2, <3>3, <3>4
  <2>. QED BY <2>1, <2>2, <2>3 DEF LaidToken, Z, X
<1>19. ASSUME NEW k \in 1 .. c PROVE LaidToken(ds, more, N + k) = NextToken(ds, o, g, k)
  <2>. DEFINE n == N + k
  <2>0. N \in Nat /\ c \in Nat /\ Len(Y) = c
    BY <1>2, <1>5
  <2>1. n \in 1 .. N + c /\ n - 1 = N + (k - 1) /\ k - 1 \in 0 .. Len(Y)
    BY <2>0
  <2>2. Cells(ds, more)[n].v = A[k]
    BY <1>9
  <2>3. Len(Z[n]) = Cardinality(Holders(ds, g, A[k]))
    <3>1. Z[n] = EntriesOf(ds, g, A[k])
      BY <1>4, <1>9, <2>1
    <3>. QED BY <3>1, EntriesAre
  <2>. HIDE DEF n
  <2>4. LenSum(SubSeq(Z, 1, n - 1)) = Len(FlattenSeq(X)) + LenSum(SubSeq(Y, 1, k - 1))
    <3>1. LenSum(SubSeq(Z, 1, n - 1)) = Total(Lens(Z), n - 1)
      BY <1>4, <2>1
    <3>2. Total(Lens(Z), N + (k - 1)) = Total(Lens(X), N) + Total(Lens(Y), k - 1)
      <4>1. X \in Seq(Seq(Entry)) /\ Y \in Seq(Seq(Entry))
        BY <1>3, <1>5
      <4>2. \A j \in 0 .. Len(Y) :
              Total(Lens(X \o Y), Len(X) + j) = Total(Lens(X), Len(X)) + Total(Lens(Y), j)
        BY ONLY <4>1, LensConcat
      <4>. QED BY <1>3, <1>13, <2>1, <4>2
    <3>3. LenSum(SubSeq(Y, 1, k - 1)) = Total(Lens(Y), k - 1)
      BY <1>5, <2>1, LenSumIs
    <3>. QED BY <1>15, <2>1, <3>1, <3>2, <3>3
  <2>5. n - 1 = N + k - 1
    BY <1>2 DEF n
  <2>6. LaidToken(ds, more, n)
          = [value |-> A[k], count |-> Cardinality(Holders(ds, g, A[k])), list |-> n - 1,
             freq |-> Len(FlattenSeq(X)) + LenSum(SubSeq(Y, 1, k - 1))]
    BY <2>2, <2>3, <2>4 DEF LaidToken, Z
  <2>. QED BY <2>5, <2>6 DEF NextToken, A, N, X, Y, n
<1>20. TablesGrow(ds, o, g, more)
  BY <1>13, <1>14, <1>15, <1>16, <1>17, <1>18, <1>19
     DEF TablesGrow, X, Y, Z, P, Q, R, N, c
<1>. QED BY <1>20 DEF more

-----------------------------------------------------------------------------
(***************************************************************************)
(* The tables while the fields are emitted.                                *)
(***************************************************************************)
(* The m-th field of those that are emitted.                               *)
FieldAs(ds, o, m) ==
  [tokens      |-> [k \in 1 .. Cardinality(ValuesOf(ds, o[m])) |->
                      LaidToken(ds, o, Before(ds, o, m) + k)],
   lengths     |-> LengthsOf(ds, o[m]),
   total       |-> LengthSum(LengthsOf(ds, o[m])),
   avg         |-> Average(LengthSum(LengthsOf(ds, o[m])), Len(LengthsOf(ds, o[m]))),
   occurrences |-> Occurrences(ds, o[m])]

(* The tables have the fields S, in the order o.                           *)
PartOf(s, ds, o, S) ==
  /\ Once(o, S)
  /\ S \subseteq FieldsOf(ds)
  /\ s = [ids    |-> [k \in DOMAIN ds |-> ds[k].id],
          freqs  |-> FlattenSeq(CellEntries(ds, o)),
          lists  |-> CellHolders(ds, o),
          fields |-> [f \in S |-> s.fields[f]]]
  /\ \A m \in 1 .. Len(o) : s.fields[o[m]] = FieldAs(ds, o, m)

(* With no field yet, the storage has the identifiers only.                *)
LEMMA PartStarts ==
  ASSUME NEW ds, IsBatch(ds)
  PROVE  PartOf([EmptySegment EXCEPT !.ids = [k \in DOMAIN ds |-> ds[k].id]], ds, << >>, {})
<1>. DEFINE o == << >>
            I == [k \in DOMAIN ds |-> ds[k].id]
            s == [EmptySegment EXCEPT !.ids = I]
            E == CellEntries(ds, o)
            F == FlattenSeq(E)
            H == CellHolders(ds, o)
<1>1. o \in Seq(FieldsOf(ds)) /\ o \in Seq({}) /\ Len(o) = 0
  OBVIOUS
<1>2. Once(o, {})
  BY <1>1 DEF Once
<1>3. Len(Cells(ds, o)) = 0
  <2>1. /\ Before(ds, o, 1) = 0 /\ Before(ds, o, Len(o) + 1) = Len(Cells(ds, o))
    BY <1>1, BeforeIs
  <2>. QED BY <1>1, <2>1
<1>. HIDE DEF o
<1>4. F = << >>
  <2>1. E \in Seq(Seq(Entry)) /\ Len(E) = 0
    BY <1>1, <1>3, CellEntriesAre
  <2>. HIDE DEF E
  <2>2. F \in Seq(Entry) /\ Len(F) = Total(Lens(E), Len(E))
    BY <2>1, FlattenPlaces
  <2>3. Lens(E) \in Seq(Nat)
    BY <2>1, LensAre
  <2>4. Total(Lens(E), 0) = 0
    BY <2>3, TotalSteps
  <2>. HIDE DEF F
  <2>. QED BY <2>1, <2>2, <2>4
<1>5. H = << >>
  <2>1. H \in Seq(SUBSET Nat) /\ Len(H) = 0
    BY <1>1, <1>3, SizesAre
  <2>. HIDE DEF H
  <2>. QED BY <2>1
<1>. HIDE DEF E, F, H
<1>6. s = [ids |-> I, freqs |-> << >>, lists |-> << >>, fields |-> << >>]
  <2>. HIDE DEF I
  <2>. QED BY DEF EmptySegment
<1>7. << >> = [f \in {} |-> s.fields[f]]
  OBVIOUS
<1>. HIDE DEF I, s
<1>8. s = [ids |-> I, freqs |-> F, lists |-> H, fields |-> [f \in {} |-> s.fields[f]]]
  BY <1>4, <1>5, <1>6, <1>7
<1>9. \A m \in 1 .. Len(o) : s.fields[o[m]] = FieldAs(ds, o, m)
  BY <1>1
<1>10. PartOf(s, ds, o, {})
  BY <1>2, <1>8, <1>9 DEF PartOf, F, E, H, I
<1>. QED BY <1>10 DEF s, o, I

(* With all of them, it is laid out in their order.                        *)
LEMMA PartEnds ==
  ASSUME NEW ds, IsBatch(ds), NEW s, NEW o, PartOf(s, ds, o, FieldsOf(ds))
  PROVE  o \in SetToSeqs(FieldsOf(ds)) /\ s = LaidOut(ds, o)
<1>. DEFINE L == LaidOut(ds, o)
            S == FieldsOf(ds)
<1>1. Once(o, S) /\ IsFiniteSet(S)
  BY BatchSets DEF PartOf
<1>2. o \in SetToSeqs(S)
  BY <1>1, OnceOrders
<1>3. \A f \in S : s.fields[f] = L.fields[f]
  <2>. SUFFICES ASSUME NEW f \in S PROVE s.fields[f] = L.fields[f]
    OBVIOUS
  <2>. DEFINE field == L.fields[f]
  <2>1. PICK m \in 1 .. Len(o) : o[m] = f
    BY <1>1 DEF Once
  <2>2. s.fields[f] = FieldAs(ds, o, m)
    BY <2>1 DEF PartOf
  <2>3. LaidSays(ds, f, field)
    BY <1>2, FieldIsLaid
  <2>4. field.tokens = [k \in 1 .. Cardinality(ValuesOf(ds, o[m])) |->
                          LaidToken(ds, o, Before(ds, o, m) + k)]
    BY <1>2, <2>1, LaidFieldIndexes
  <2>. HIDE DEF field
  <2>5. field = FieldAs(ds, o, m)
    BY <2>1, <2>3, <2>4 DEF LaidSays, FieldAs
  <2>. QED BY <2>2, <2>5 DEF field
<1>4. L = [ids    |-> [k \in DOMAIN ds |-> ds[k].id],
           freqs  |-> FlattenSeq(CellEntries(ds, o)),
           lists  |-> [n \in DOMAIN Cells(ds, o) |->
                         Holders(ds, Cells(ds, o)[n].f, Cells(ds, o)[n].v)],
           fields |-> [f \in S |-> LaidField(ds, o, f)]]
  BY LaidOutParts
<1>5. L.fields = [f \in S |-> L.fields[f]]
  BY <1>4
<1>6. [n \in DOMAIN Cells(ds, o) |-> Holders(ds, Cells(ds, o)[n].f, Cells(ds, o)[n].v)]
        = CellHolders(ds, o)
  <2>. DEFINE C == Cells(ds, o)
  <2>1. o \in Seq(S)
    BY <1>1 DEF Once
  <2>2. C \in Seq(Cell(ds))
    BY <2>1, CellsAre
  <2>. HIDE DEF C
  <2>3. DOMAIN C = 1 .. Len(C)
    BY <2>2
  <2>. QED BY <2>3 DEF CellHolders, C
<1>7. s = [ids    |-> [k \in DOMAIN ds |-> ds[k].id],
           freqs  |-> FlattenSeq(CellEntries(ds, o)),
           lists  |-> CellHolders(ds, o),
           fields |-> [f \in S |-> s.fields[f]]]
  BY DEF PartOf
<1>8. L = [ids    |-> [k \in DOMAIN ds |-> ds[k].id],
           freqs  |-> FlattenSeq(CellEntries(ds, o)),
           lists  |-> CellHolders(ds, o),
           fields |-> L.fields]
  <2>. HIDE DEF L
  <2>1. \A a, b, c, d, e : L = [ids |-> a, freqs |-> b, lists |-> c, fields |-> d]
                             => L = [ids |-> a, freqs |-> b, lists |-> c, fields |-> L.fields]
    OBVIOUS
  <2>. QED BY <1>4, <1>6, <2>1
<1>. HIDE DEF L, S
<1>9. [f \in S |-> s.fields[f]] = [f \in S |-> L.fields[f]]
  BY <1>3
<1>10. s = L
  BY <1>5, <1>7, <1>8, <1>9
<1>. QED BY <1>2, <1>10 DEF L, S

(* What the range over the accumulators makes of the next field.           *)
FieldMore(ds, o, g) ==
  [tokens      |-> [k \in 1 .. Cardinality(ValuesOf(ds, g)) |-> NextToken(ds, o, g, k)],
   lengths     |-> LengthsOf(ds, g),
   total       |-> LengthSum(LengthsOf(ds, g)),
   avg         |-> Average(LengthSum(LengthsOf(ds, g)), Len(LengthsOf(ds, g))),
   occurrences |-> Occurrences(ds, g)]

MoreOf(s, ds, o, g) ==
  [ids    |-> s.ids,
   freqs  |-> s.freqs \o FlattenSeq(FieldEntries(ds, g)),
   lists  |-> s.lists \o FieldHolders(ds, g),
   fields |-> [h \in DOMAIN s.fields \union {g} |->
                 IF h # g THEN s.fields[h] ELSE FieldMore(ds, o, g)]]

(* That is what EmitField does, with what was gathered for the field.      *)
LEMMA FieldEmits ==
  ASSUME NEW ds, IsBatch(ds), NEW o, NEW S, PartOf(seg, ds, o, S),
         NEW g, acc[g] = Gathered(ds, g), EmitField(g)
  PROVE  /\ seg' = MoreOf(seg, ds, o, g)
         /\ size' = size + Len(FieldHolders(ds, g)) * PostingListHeaderSize
                      + DataSize(FieldHolders(ds, g))
<1>. DEFINE a == acc[g]
            vals == Ascending(DOMAIN a.tokens)
            freqs == [k \in DOMAIN vals |-> a.tokens[vals[k]]]
            lists == [k \in DOMAIN vals |-> {freqs[k][n].doc : n \in DOMAIN freqs[k]}]
            token(k) == [value |-> vals[k],
                         count |-> Cardinality(lists[k]),
                         list  |-> Len(seg.lists) + k - 1,
                         freq  |-> FirstEntry(freqs, k)]
            field == [tokens      |-> [k \in DOMAIN vals |-> token(k)],
                      lengths     |-> a.lengths,
                      total       |-> a.total,
                      avg         |-> Average(a.total, Len(a.lengths)),
                      occurrences |-> a.occurrences]
            c == Cardinality(ValuesOf(ds, g))
            A == Vals(ds, g)
            E == FieldEntries(ds, g)
            H == FieldHolders(ds, g)
<1>1. /\ seg' = [seg EXCEPT
              !.lists = @ \o lists,
              !.freqs = @ \o FlattenSeq(freqs),
              !.fields = [h \in DOMAIN @ \union {g} |-> IF h # g THEN @[h] ELSE field]]
      /\ size' = size + Len(lists) * PostingListHeaderSize + DataSize(lists)
  BY DEF EmitField
<1>2. /\ a.lengths = LengthsOf(ds, g) /\ a.total = LengthSum(LengthsOf(ds, g))
      /\ a.tokens = [v \in ValuesOf(ds, g) |-> EntriesOf(ds, g, v)]
      /\ a.occurrences = Occurrences(ds, g)
  BY DEF Gathered
<1>3. vals = A
  BY <1>2 DEF Vals
<1>4. DOMAIN A = 1 .. c /\ \A k \in 1 .. c : A[k] \in ValuesOf(ds, g)
  BY ValuesListed DEF Vals
<1>5. freqs = E
  BY <1>2, <1>3, <1>4 DEF FieldEntries
<1>6. lists = H
  <2>1. \A k \in 1 .. c : {EntriesOf(ds, g, A[k])[n].doc : n \in DOMAIN EntriesOf(ds, g, A[k])}
                             = Holders(ds, g, A[k])
    BY EntryDocs
  <2>2. \A k \in 1 .. c : E[k] = EntriesOf(ds, g, A[k])
    BY <1>4 DEF FieldEntries
  <2>3. lists = [k \in 1 .. c |-> {E[k][n].doc : n \in DOMAIN E[k]}]
    <3>. HIDE DEF freqs, vals, E, A, c
    <3>. QED BY <1>3, <1>4, <1>5
  <2>. HIDE DEF lists, E, c
  <2>4. lists = [k \in 1 .. c |-> Holders(ds, g, A[k])]
    BY <2>1, <2>2, <2>3
  <2>. QED BY <1>4, <2>4 DEF FieldHolders
<1>7. /\ seg.ids = [k \in DOMAIN ds |-> ds[k].id]
      /\ seg.freqs = FlattenSeq(CellEntries(ds, o))
      /\ seg.lists = CellHolders(ds, o)
      /\ seg = [ids |-> seg.ids, freqs |-> seg.freqs, lists |-> seg.lists, fields |-> seg.fields]
  <2>1. \A b, d, e, f : seg = [ids |-> b, freqs |-> d, lists |-> e, fields |-> f] =>
          /\ seg.ids = b /\ seg.freqs = d /\ seg.lists = e
          /\ seg = [ids |-> seg.ids, freqs |-> seg.freqs, lists |-> seg.lists,
                    fields |-> seg.fields]
    OBVIOUS
  <2>. QED BY <2>1 DEF PartOf
<1>8. Len(CellHolders(ds, o)) = Len(Cells(ds, o))
  <2>1. o \in Seq(FieldsOf(ds))
    BY DEF PartOf, Once
  <2>. QED BY <2>1, SizesAre
<1>9. \A k \in 1 .. c : token(k) = NextToken(ds, o, g, k)
  <2>. SUFFICES ASSUME NEW k \in 1 .. c PROVE token(k) = NextToken(ds, o, g, k)
    OBVIOUS
  <2>1. FirstEntry(freqs, k) = Len(FlattenSeq(CellEntries(ds, o))) + LenSum(SubSeq(E, 1, k - 1))
    <3>. HIDE DEF freqs, E
    <3>. QED BY <1>5, <1>7 DEF FirstEntry, LenSum
  <2>2. lists[k] = Holders(ds, g, A[k])
    <3>. HIDE DEF lists
    <3>. QED BY <1>4, <1>6 DEF FieldHolders
  <2>3. Len(seg.lists) = Len(Cells(ds, o))
    BY <1>7, <1>8
  <2>. HIDE DEF freqs, lists, vals, E, A
  <2>. QED BY <1>3, <2>1, <2>2, <2>3 DEF NextToken, E, A
<1>10. field = FieldMore(ds, o, g)
  <2>1. [k \in DOMAIN vals |-> token(k)] = [k \in 1 .. c |-> NextToken(ds, o, g, k)]
    <3>. HIDE DEF vals, token, A
    <3>. QED BY <1>3, <1>4, <1>9
  <2>. HIDE DEF vals, token, a
  <2>. QED BY <1>2, <2>1 DEF FieldMore
<1>. HIDE DEF lists, freqs, field, vals, a
<1>11. seg' = MoreOf(seg, ds, o, g)
  <2>. DEFINE F == [h \in DOMAIN seg.fields \union {g} |-> IF h # g THEN seg.fields[h] ELSE field]
  <2>1. seg' = [seg EXCEPT !.lists = @ \o lists, !.freqs = @ \o FlattenSeq(freqs), !.fields = F]
    BY <1>1
  <2>. HIDE DEF F
  <2>2. \A s, x, y, z : s = [ids |-> s.ids, freqs |-> s.freqs, lists |-> s.lists,
                             fields |-> s.fields]
          => [s EXCEPT !.lists = x, !.freqs = y, !.fields = z]
               = [ids |-> s.ids, freqs |-> y, lists |-> x, fields |-> z]
    <3>1. \A i, d, e, f, x : [[ids |-> i, freqs |-> d, lists |-> e, fields |-> f]
                                EXCEPT !.lists = x]
                              = [ids |-> i, freqs |-> d, lists |-> x, fields |-> f]
      OBVIOUS
    <3>2. \A i, d, e, f, y : [[ids |-> i, freqs |-> d, lists |-> e, fields |-> f]
                                EXCEPT !.freqs = y]
                              = [ids |-> i, freqs |-> y, lists |-> e, fields |-> f]
      OBVIOUS
    <3>3. \A i, d, e, f, z : [[ids |-> i, freqs |-> d, lists |-> e, fields |-> f]
                                EXCEPT !.fields = z]
                              = [ids |-> i, freqs |-> d, lists |-> e, fields |-> z]
      OBVIOUS
    <3>. TAKE s, x, y, z
    <3>. HAVE s = [ids |-> s.ids, freqs |-> s.freqs, lists |-> s.lists, fields |-> s.fields]
    <3>. DEFINE q == [s EXCEPT !.lists = x]
                r == [q EXCEPT !.freqs = y]
    <3>4. q = [ids |-> s.ids, freqs |-> s.freqs, lists |-> x, fields |-> s.fields]
      BY <3>1
    <3>. HIDE DEF q
    <3>5. r = [ids |-> s.ids, freqs |-> y, lists |-> x, fields |-> s.fields]
      BY <3>2, <3>4
    <3>. HIDE DEF r
    <3>6. [r EXCEPT !.fields = z] = [ids |-> s.ids, freqs |-> y, lists |-> x, fields |-> z]
      BY <3>3, <3>5
    <3>. QED BY <3>6 DEF q, r
  <2>3. seg' = [ids |-> seg.ids, freqs |-> seg.freqs \o FlattenSeq(freqs),
                lists |-> seg.lists \o lists, fields |-> F]
    BY <1>7, <2>1, <2>2
  <2>. QED BY <1>5, <1>6, <1>10, <2>3 DEF MoreOf, F
<1>12. size' = size + Len(H) * PostingListHeaderSize + DataSize(H)
  BY <1>1, <1>6
<1>. QED BY <1>11, <1>12

(* The tables then have one more field.                                    *)
LEMMA PartGrows ==
  ASSUME NEW ds, IsBatch(ds), NEW o, NEW S, NEW s, PartOf(s, ds, o, S),
         NEW g \in FieldsOf(ds), g \notin S
  PROVE  PartOf(MoreOf(s, ds, o, g), ds, Append(o, g), S \union {g})
<1>. DEFINE more == Append(o, g)
            t == MoreOf(s, ds, o, g)
            N == Len(Cells(ds, o))
            U == S \union {g}
<1>1. /\ Once(o, S) /\ S \subseteq FieldsOf(ds)
      /\ s.ids = [k \in DOMAIN ds |-> ds[k].id]
      /\ s.freqs = FlattenSeq(CellEntries(ds, o))
      /\ s.lists = CellHolders(ds, o)
      /\ DOMAIN s.fields = S
      /\ \A m \in 1 .. Len(o) : s.fields[o[m]] = FieldAs(ds, o, m)
  <2>1. \A b, d, e, f : s = [ids |-> b, freqs |-> d, lists |-> e, fields |-> f] =>
          s.ids = b /\ s.freqs = d /\ s.lists = e /\ s.fields = f
    OBVIOUS
  <2>2. s.fields = [f \in S |-> s.fields[f]]
    BY <2>1 DEF PartOf
  <2>3. DOMAIN s.fields = S
    BY <2>2
  <2>. QED BY <2>1, <2>3 DEF PartOf
<1>2. Once(more, U) /\ U \subseteq FieldsOf(ds)
  BY <1>1, OnceMore
<1>3. o \in Seq(FieldsOf(ds))
  <2>1. \A X : X \subseteq FieldsOf(ds) => Seq(X) \subseteq Seq(FieldsOf(ds))
    OBVIOUS
  <2>. QED BY <1>1, <2>1 DEF Once
<1>4. Grows(ds, o, g, more)
  BY <1>3, CellsGrow
<1>5. TablesGrow(ds, o, g, more)
  BY <1>3, CellTablesGrow
<1>6. \A m \in 1 .. Len(o) : o[m] \in S
  BY <1>1 DEF Once
<1>. HIDE DEF more
<1>7. /\ t.ids = [k \in DOMAIN ds |-> ds[k].id]
      /\ t.freqs = FlattenSeq(CellEntries(ds, more))
      /\ t.lists = CellHolders(ds, more)
      /\ t.fields = [h \in U |-> IF h # g THEN s.fields[h] ELSE FieldMore(ds, o, g)]
      /\ t = [ids |-> t.ids, freqs |-> t.freqs, lists |-> t.lists, fields |-> t.fields]
  <2>1. \A b, d, e, f : LET x == [ids |-> b, freqs |-> d, lists |-> e, fields |-> f] IN
          /\ x.ids = b /\ x.freqs = d /\ x.lists = e /\ x.fields = f
          /\ x = [ids |-> x.ids, freqs |-> x.freqs, lists |-> x.lists, fields |-> x.fields]
    OBVIOUS
  <2>2. t = [ids |-> s.ids, freqs |-> s.freqs \o FlattenSeq(FieldEntries(ds, g)),
             lists |-> s.lists \o FieldHolders(ds, g),
             fields |-> [h \in DOMAIN s.fields \union {g} |->
                           IF h # g THEN s.fields[h] ELSE FieldMore(ds, o, g)]]
    BY DEF MoreOf
  <2>. HIDE DEF t
  <2>3. /\ t.ids = s.ids /\ t.freqs = s.freqs \o FlattenSeq(FieldEntries(ds, g))
        /\ t.lists = s.lists \o FieldHolders(ds, g)
        /\ t.fields = [h \in DOMAIN s.fields \union {g} |->
                           IF h # g THEN s.fields[h] ELSE FieldMore(ds, o, g)]
        /\ t = [ids |-> t.ids, freqs |-> t.freqs, lists |-> t.lists, fields |-> t.fields]
    BY <2>1, <2>2
  <2>. QED BY <1>1, <1>5, <2>3 DEF TablesGrow
<1>. HIDE DEF t
<1>8. \A m \in 1 .. Len(more) : t.fields[more[m]] = FieldAs(ds, more, m)
  <2>. SUFFICES ASSUME NEW m \in 1 .. Len(more) PROVE t.fields[more[m]] = FieldAs(ds, more, m)
    OBVIOUS
  <2>1. /\ Len(more) = Len(o) + 1 /\ more[Len(o) + 1] = g
        /\ \A i \in 1 .. Len(o) : more[i] = o[i]
        /\ \A i \in 1 .. Len(o) + 1 : Before(ds, more, i) = Before(ds, o, i)
        /\ Before(ds, more, Len(o) + 1) = N /\ N \in Nat
        /\ Len(o) \in Nat
    BY <1>3, <1>4 DEF Grows
  <2>2. ASSUME m \in 1 .. Len(o) PROVE t.fields[more[m]] = FieldAs(ds, more, m)
    <3>1. more[m] = o[m] /\ o[m] \in S /\ o[m] # g
      BY <1>6, <2>1, <2>2
    <3>2. t.fields[more[m]] = FieldAs(ds, o, m)
      BY <1>1, <1>7, <2>2, <3>1
    <3>. DEFINE c == Cardinality(ValuesOf(ds, o[m]))
                b == Before(ds, o, m)
    <3>3. \A k \in 1 .. c : b + k \in 1 .. N
      <4>1. \A i \in 1 .. Len(o) + 1 : Before(ds, o, i) \in Nat /\ Before(ds, o, i) <= N
        BY <1>3, BeforeIs
      <4>2. Before(ds, o, m + 1) = b + c
        BY <1>3, <2>2, BeforeIs
      <4>3. m \in 1 .. Len(o) + 1 /\ m + 1 \in 1 .. Len(o) + 1
        BY <2>1, <2>2
      <4>4. c \in Nat
        BY ValuesListed
      <4>5. b \in Nat /\ b + c <= N
        BY <4>1, <4>2, <4>3
      <4>. HIDE DEF b, c
      <4>. QED BY <2>1, <4>4, <4>5
    <3>4. \A k \in 1 .. c : LaidToken(ds, more, b + k) = LaidToken(ds, o, b + k)
      BY <1>5, <3>3 DEF TablesGrow
    <3>5. Before(ds, more, m) = b
      BY <2>1, <2>2
    <3>6. [k \in 1 .. c |-> LaidToken(ds, more, b + k)] = [k \in 1 .. c |-> LaidToken(ds, o, b + k)]
      BY <3>4
    <3>7. FieldAs(ds, more, m) = FieldAs(ds, o, m)
      BY <3>1, <3>5, <3>6 DEF FieldAs
    <3>. QED BY <3>2, <3>7
  <2>3. ASSUME m = Len(o) + 1 PROVE t.fields[more[m]] = FieldAs(ds, more, m)
    <3>1. more[m] = g /\ Before(ds, more, m) = N
      BY <2>1, <2>3
    <3>2. t.fields[g] = FieldMore(ds, o, g)
      BY <1>7
    <3>3. \A k \in 1 .. Cardinality(ValuesOf(ds, g)) :
            LaidToken(ds, more, N + k) = NextToken(ds, o, g, k)
      BY <1>5 DEF TablesGrow
    <3>4. [k \in 1 .. Cardinality(ValuesOf(ds, g)) |-> LaidToken(ds, more, N + k)]
            = [k \in 1 .. Cardinality(ValuesOf(ds, g)) |-> NextToken(ds, o, g, k)]
      BY <3>3
    <3>. HIDE DEF N
    <3>5. FieldAs(ds, more, m) = FieldMore(ds, o, g)
      BY <3>1, <3>4 DEF FieldAs, FieldMore
    <3>. QED BY <3>1, <3>2, <3>5
  <2>. QED BY <2>1, <2>2, <2>3
<1>9. t.fields = [f \in U |-> t.fields[f]]
  BY <1>7
<1>10. PartOf(t, ds, more, U)
  BY <1>2, <1>7, <1>8, <1>9 DEF PartOf
<1>. QED BY <1>10 DEF t, more, U

-----------------------------------------------------------------------------
(***************************************************************************)
(* The documents are added one by one.                                     *)
(***************************************************************************)
(* The first n documents of a batch, and the next.                         *)
LEMMA PrefixGrows ==
  ASSUME NEW ds, IsBatch(ds), NEW n \in Nat, n <= Len(ds)
  PROVE  /\ IsBatch(SubSeq(ds, 1, n)) /\ Len(SubSeq(ds, 1, n)) = n
         /\ n < Len(ds) => /\ SubSeq(ds, 1, n + 1) = SubSeq(ds, 1, n) \o <<ds[n + 1]>>
                           /\ IsDocument(ds[n + 1])
<1>. DEFINE N == Len(ds)
            V == {ds[k] : k \in 1 .. N}
            p == SubSeq(ds, 1, n)
            q == SubSeq(ds, 1, n + 1)
<1>1. N \in Nat /\ ds = [k \in 1 .. N |-> ds[k]] /\ \A k \in 1 .. N : IsDocument(ds[k])
  BY DEF IsBatch
<1>2. ds \in Seq(V)
  <2>1. \A k \in 1 .. N : ds[k] \in V
    OBVIOUS
  <2>. HIDE DEF V
  <2>2. ds \in [1 .. N -> V]
    BY <1>1, <2>1
  <2>. HIDE DEF N
  <2>. QED BY <1>1, <2>2, FunctionIsSeq
<1>. HIDE DEF V
<1>3. /\ p \in Seq(V) /\ Len(p) = n /\ \A k \in 1 .. n : p[k] = ds[k]
  BY <1>2
<1>. HIDE DEF p
<1>4. IsBatch(p)
  <2>1. p = [k \in 1 .. Len(p) |-> p[k]]
    BY <1>3
  <2>2. \A k \in 1 .. n : IsDocument(p[k])
    BY <1>1, <1>3
  <2>. QED BY <1>3, <2>1, <2>2 DEF IsBatch
<1>5. ASSUME n < N
      PROVE  q = p \o <<ds[n + 1]>> /\ IsDocument(ds[n + 1])
  <2>1. n + 1 \in 1 .. N /\ n + 1 <= Len(ds)
    BY <1>1, <1>5
  <2>2. /\ q \in Seq(V) /\ Len(q) = n + 1 /\ \A k \in 1 .. n + 1 : q[k] = ds[k]
    BY <1>2, <2>1
  <2>. HIDE DEF q
  <2>. DEFINE e == <<ds[n + 1]>>
              t == p \o e
  <2>3. ds[n + 1] \in V
    BY <1>2, <2>1
  <2>4. e \in Seq(V) /\ Len(e) = 1 /\ e[1] = ds[n + 1]
    BY <2>3
  <2>. HIDE DEF e
  <2>5. t \in Seq(V) /\ Follows(t, p, e)
    BY <1>3, <2>4, CatFollows
  <2>. HIDE DEF t
  <2>6. /\ Len(t) = n + 1 /\ \A k \in 1 .. n : t[k] = p[k]
        /\ t[n + 1] = ds[n + 1]
    BY <1>3, <2>4, <2>5 DEF Follows
  <2>7. ASSUME NEW k \in 1 .. Len(q) PROVE q[k] = t[k]
    <3>1. k \in 1 .. n + 1 /\ (k \in 1 .. n \/ k = n + 1)
      BY <2>2
    <3>. QED BY <1>3, <2>2, <2>6, <3>1
  <2>8. q = t
    BY <2>2, <2>5, <2>6, <2>7, SameSeq
  <2>. QED BY <1>1, <2>1, <2>8 DEF t, e
<1>. QED BY <1>3, <1>4, <1>5 DEF p

(* The accumulators after the next document.                               *)
NextAccumulators(n, doc) ==
  [f \in DOMAIN acc \union DOMAIN doc.fields |->
     IF f \in DOMAIN doc.fields
     THEN Accumulate(Accumulator(f), n, doc.fields[f]) ELSE acc[f]]

(* They say what the documents and the next one say.                       *)
LEMMA AccumulatorsGrow ==
  ASSUME NEW ds, IsBatch(ds), NEW doc, IsDocument(doc),
         acc = [f \in FieldsOf(ds) |-> Gathered(ds, f)]
  PROVE  NextAccumulators(Len(ds), doc)
         = [f \in FieldsOf(ds \o <<doc>>) |-> Gathered(ds \o <<doc>>, f)]
<1>. DEFINE B == <<doc>>
            G(f) == Gathered(ds \o B, f)
<1>1. IsBatch(B) /\ FieldsOf(B) = DOMAIN doc.fields
  BY OneDocument
<1>2. FieldsOf(ds \o B) = FieldsOf(ds) \union DOMAIN doc.fields
  BY <1>1, SetsConcat
<1>3. ASSUME NEW f \in DOMAIN doc.fields
      PROVE  Accumulate(Accumulator(f), Len(ds), doc.fields[f]) = G(f)
  <2>1. Accumulator(f) = Gathered(ds, f)
    BY NothingGathered DEF Accumulator
  <2>. QED BY <2>1, GatheredMore
<1>4. ASSUME NEW f \in FieldsOf(ds), f \notin DOMAIN doc.fields
      PROVE  acc[f] = G(f)
  BY <1>4, GatheredElse
<1>. HIDE DEF G
<1>5. NextAccumulators(Len(ds), doc)
      = [f \in FieldsOf(ds) \union DOMAIN doc.fields |-> G(f)]
  BY <1>3, <1>4 DEF NextAccumulators
<1>. QED BY <1>2, <1>5 DEF G

(* While documents are added, the accumulators say what those that were    *)
(* added say, and Size is what their records take, frequency entries and   *)
(* field blocks alike.                                                     *)
Ids == [k \in DOMAIN docs |-> docs[k].id]
Prefix(n) == SubSeq(docs, 1, n)

Added ==
  /\ next \in 0 .. Len(docs)
  /\ acc = [f \in FieldsOf(Prefix(next)) |-> Gathered(Prefix(next), f)]
  /\ size = HeaderSize + next * DocumentIdSize
              + AddUp(BytesOf(Prefix(next)), FieldsOf(Prefix(next)))
  /\ seg = [EmptySegment EXCEPT !.ids = Ids]

(* AddDocument keeps that.                                                 *)
LEMMA AddDocumentAdds ==
  ASSUME IsBatch(docs), Added, AddDocument
  PROVE  Added'
<1>. DEFINE p == Prefix(next)
            q == Prefix(next + 1)
            doc == docs[next + 1]
            M == MapThenSumSet(LAMBDA f : FieldBytes(f, doc.fields[f]), DOMAIN doc.fields)
            A == AddUp(BytesOf(p), FieldsOf(p))
<1>1. /\ next < Len(docs) /\ next' = next + 1 /\ docs' = docs /\ seg' = seg
      /\ acc' = NextAccumulators(next, doc)
      /\ size' = size + DocumentIdSize + M
  BY DEF AddDocument, NextAccumulators
<1>2. next \in Nat /\ Len(docs) \in Nat /\ next + 1 \in 0 .. Len(docs)
  <2>1. Len(docs) \in Nat
    BY DEF IsBatch
  <2>. QED BY <1>1, <2>1 DEF Added
<1>3. /\ IsBatch(p) /\ Len(p) = next /\ q = p \o <<doc>> /\ IsDocument(doc)
  <2>1. next <= Len(docs)
    BY <1>1, <1>2
  <2>2. /\ IsBatch(SubSeq(docs, 1, next)) /\ Len(SubSeq(docs, 1, next)) = next
        /\ SubSeq(docs, 1, next + 1) = SubSeq(docs, 1, next) \o <<docs[next + 1]>>
        /\ IsDocument(docs[next + 1])
    BY ZenonT(60), <1>1, <1>2, <2>1, PrefixGrows
  <2>. QED BY <2>2 DEF Prefix
<1>4. acc = [f \in FieldsOf(p) |-> Gathered(p, f)]
      /\ size = HeaderSize + next * DocumentIdSize + A
      /\ seg = [EmptySegment EXCEPT !.ids = Ids]
  BY DEF Added
<1>. HIDE DEF p, q, doc
<1>5. acc' = [f \in FieldsOf(q) |-> Gathered(q, f)]
  <2>1. NextAccumulators(Len(p), doc)
         = [f \in FieldsOf(p \o <<doc>>) |-> Gathered(p \o <<doc>>, f)]
    BY <1>3, <1>4, AccumulatorsGrow
  <2>. QED BY <1>1, <1>3, <2>1
<1>6. /\ AddUp(BytesOf(q), FieldsOf(q)) = A + M /\ A \in Nat /\ M \in Nat
  <2>1. /\ AddUp(BytesOf(p \o <<doc>>), FieldsOf(p \o <<doc>>)) = A + M
        /\ A \in Nat /\ M \in Nat
    BY <1>3, <1>4, DocumentBytes
  <2>. QED BY <1>3, <2>1
<1>. HIDE DEF A, M
<1>7. size' = HeaderSize + (next + 1) * DocumentIdSize + (A + M)
  BY <1>1, <1>2, <1>4, <1>6 DEF HeaderSize, DocumentIdSize
<1>8. q = Prefix(next)'
  BY <1>1 DEF q, Prefix
<1>9. (FieldsOf(Prefix(next)))' = FieldsOf(q)
      /\ (BytesOf(Prefix(next)))' = BytesOf(q)
      /\ (AddUp(BytesOf(Prefix(next)), FieldsOf(Prefix(next))))' = A + M
  BY <1>6, <1>8
<1>10. seg' = [EmptySegment EXCEPT !.ids = Ids']
  BY <1>1, <1>4 DEF Ids
<1>11. acc' = [f \in FieldsOf(Prefix(next)') |-> Gathered(Prefix(next)', f)]
  BY <1>5, <1>8
<1>. QED BY <1>1, <1>2, <1>7, <1>9, <1>10, <1>11 DEF Added

-----------------------------------------------------------------------------
(***************************************************************************)
(* The bytes of the file.                                                  *)
(***************************************************************************)
BlocksSize(blocks) ==
  SumOf(blocks, LAMBDA b : FieldHeaderSize + Len(b.lengths) * DocumentLengthEntrySize
                                           + Len(b.tokens) * TokenSize)

(* The sum of the sizes of a sequence of blocks.                           *)
LEMMA BlocksSum ==
  ASSUME NEW w \in Seq(Nat), NEW q, DOMAIN q = 1 .. Len(w),
         \A k \in 1 .. Len(w) : FieldHeaderSize + Len(q[k].lengths) * DocumentLengthEntrySize
                                                + Len(q[k].tokens) * TokenSize = w[k]
  PROVE  BlocksSize(q) = Total(w, Len(w))
<1>. DEFINE V(b) == FieldHeaderSize + Len(b.lengths) * DocumentLengthEntrySize
                                    + Len(b.tokens) * TokenSize
            Fold(f) == f = [s \in SUBSET DOMAIN q |->
                              IF s = {} THEN 0 ELSE f[s \ {Max(s)}] + V(q[Max(s)])]
            b == CHOOSE f : Fold(f)
<1>1. BlocksSize(q) = b[DOMAIN q]
  BY DEF BlocksSize, SumOf, FoldLeft, MapThenFoldSet
<1>2. \A k \in 1 .. Len(w) : V(q[k]) = w[k]
  OBVIOUS
<1>. HIDE DEF V
<1>3. ASSUME NEW f PROVE Fold(f) <=> Summing(f, w)
  <2>1. \A s \in SUBSET (1 .. Len(w)) :
           (IF s = {} THEN 0 ELSE f[s \ {Max(s)}] + V(q[Max(s)]))
             = (IF s = {} THEN 0 ELSE f[s \ {Max(s)}] + w[Max(s)])
    <3>. SUFFICES ASSUME NEW s \in SUBSET (1 .. Len(w)), s # {}
                  PROVE  V(q[Max(s)]) = w[Max(s)]
      OBVIOUS
    <3>1. Len(w) \in Nat /\ Max(s) \in s
      <4>1. Len(w) \in Nat
        OBVIOUS
      <4>. QED BY <4>1, MaxOfPositions
    <3>. QED BY <1>2, <3>1
  <2>2. [s \in SUBSET (1 .. Len(w)) |->
            IF s = {} THEN 0 ELSE f[s \ {Max(s)}] + V(q[Max(s)])]
         = [s \in SUBSET (1 .. Len(w)) |->
            IF s = {} THEN 0 ELSE f[s \ {Max(s)}] + w[Max(s)]]
    BY <2>1
  <2>. QED BY <2>2 DEF Summing
<1>. HIDE DEF Fold
<1>4. Fold(b)
  BY <1>3, SummingIsTotal
<1>. HIDE DEF b
<1>. QED BY <1>1, <1>3, <1>4, SummingIsTotal

(* The records of a file, whatever the order of its blocks.                *)
SavedBytes(ds, o) ==
  HeaderSize + Len(ds) * DocumentIdSize
    + Len(FlattenSeq(CellEntries(ds, o))) * TokenFrequencyEntrySize
    + AddUp(BytesOfBlocks(ds), FieldsOf(ds))
    + Len(Cells(ds, o)) * PostingListHeaderSize
    + DataSize(CellHolders(ds, o))

(* They are the length of the file.                                        *)
LEMMA SavedSize ==
  ASSUME NEW ds, IsBatch(ds), NEW o \in SetToSeqs(FieldsOf(ds)), NEW r \in SetToSeqs(FieldsOf(ds))
  PROVE  FileSize(SavedFile(ds, o, r)) = SavedBytes(ds, o) /\ SavedBytes(ds, o) \in Nat
<1>. DEFINE F == SavedFile(ds, o, r)
            N == Len(Cells(ds, o))
            D == CellHolders(ds, o)
            E == FlattenSeq(CellEntries(ds, o))
            S == FieldsOf(ds)
            I == [k \in DOMAIN ds |-> ds[k].id]
            B == [m \in 1 .. Len(r) |-> SavedBlock(ds, o, r[m])]
            P == [p \in 1 .. N |-> CellHead(ds, o, p)]
            H == [docs   |-> Len(ds),
                  fields |-> Len(r),
                  lists  |-> N,
                  data   |-> Total(Sizes(ds, o), N),
                  freqs  |-> Len(E)]
            c == BytesOfBlocks(ds)
            w == [m \in 1 .. Len(r) |-> c[r[m]]]
<1>1. /\ IsFiniteSet(S) /\ o \in Seq(S) /\ Len(r) \in Nat
      /\ r \in Seq(S) /\ DOMAIN r = 1 .. Len(r)
      /\ \A i, j \in 1 .. Len(r) : r[i] = r[j] => i = j
      /\ \A f \in S : \E m \in 1 .. Len(r) : r[m] = f
  <2>1. IsFiniteSet(S) /\ o \in Seq(S)
    BY BatchSets, OrderIsSeq
  <2>2. /\ r \in Seq(S) /\ DOMAIN r = 1 .. Len(r)
        /\ \A i, j \in 1 .. Len(r) : r[i] = r[j] => i = j
        /\ \A f \in S : \E m \in 1 .. Len(r) : r[m] = f
    BY <2>1, OrderHasAll
  <2>3. Len(r) \in Nat
    BY <2>2
  <2>. QED BY <2>1, <2>2, <2>3
<1>2. Once(r, S)
  BY <1>1 DEF Once
<1>3. \A m \in 1 .. Len(r) : r[m] \in S
  BY <1>1
<1>4. Counted(c, S) /\ \A f \in S : c[f] = BlockBytes(ds, f)
  BY BytesAre DEF BytesOfBlocks
<1>5. w \in Seq(Nat) /\ Len(w) = Len(r) /\ \A m \in 1 .. Len(w) : c[r[m]] = w[m]
  <2>1. w \in [1 .. Len(r) -> Nat]
    BY <1>3, <1>4 DEF Counted
  <2>2. \A m \in 1 .. Len(r) : c[r[m]] = w[m]
    OBVIOUS
  <2>. HIDE DEF w, c, S
  <2>3. w \in Seq(Nat) /\ Len(w) = Len(r)
    BY ZenonT(60), <1>1, <2>1, FunctionIsSeq
  <2>. QED BY <2>2, <2>3
<1>. HIDE DEF w
<1>6. AddUp(c, S) = Total(w, Len(w))
  BY <1>2, <1>5, AddUpIs
<1>7. BlocksSize(B) = Total(w, Len(w))
  <2>1. ASSUME NEW m \in 1 .. Len(w)
        PROVE  FieldHeaderSize + Len(B[m].lengths) * DocumentLengthEntrySize
                               + Len(B[m].tokens) * TokenSize = w[m]
    <3>. DEFINE g == r[m]
                ts == LaidOut(ds, o).fields[g].tokens
                b == B[m]
    <3>1. m \in 1 .. Len(r) /\ g \in S /\ w[m] = BlockBytes(ds, g)
      <4>1. m \in 1 .. Len(r)
        BY <1>5
      <4>2. r[m] \in S /\ c[r[m]] = w[m]
        BY <1>3, <1>5, <4>1
      <4>. QED BY <1>4, <4>1, <4>2
    <3>2. Len(ts) = Cardinality(ValuesOf(ds, g))
      BY <3>1, FieldIsLaid DEF LaidSays
    <3>3. b = BlockSays(ds, g, ts)
      BY <3>1 DEF SavedBlock
    <3>. HIDE DEF b, ts, g
    <3>4. b.lengths = LengthsOf(ds, g) /\ b.tokens = ts
      BY <3>3 DEF BlockSays
    <3>5. FieldHeaderSize + Len(b.lengths) * DocumentLengthEntrySize
                          + Len(b.tokens) * TokenSize = BlockBytes(ds, g)
      BY <3>2, <3>4 DEF BlockBytes
    <3>. QED BY <3>1, <3>5 DEF b
  <2>2. DOMAIN B = 1 .. Len(w)
    BY <1>5
  <2>. HIDE DEF B
  <2>. QED BY <1>5, <2>1, <2>2, BlocksSum
<1>8. F = [header |-> <<H>>, ids |-> I, freqs |-> E, fields |-> B, heads |-> P, data |-> D]
  BY DEF SavedFile
<1>9. Len(I) = Len(ds) /\ Len(ds) \in Nat
  <2>1. Len(ds) \in Nat /\ DOMAIN ds = 1 .. Len(ds)
    BY BatchSets
  <2>2. I = [k \in 1 .. Len(ds) |-> I[k]]
    BY <2>1
  <2>. HIDE DEF I
  <2>. QED BY <2>1, <2>2, WholeIs
<1>10. N \in Nat
  BY <1>1, SizesAre
<1>11. Len(P) = N
  <2>1. P = [p \in 1 .. N |-> P[p]]
    OBVIOUS
  <2>. HIDE DEF P, N
  <2>. QED BY <1>10, <2>1, WholeIs
<1>12. Len(E) \in Nat
  <2>1. CellEntries(ds, o) \in Seq(Seq(Entry))
    BY <1>1, CellEntriesAre
  <2>2. E \in Seq(Entry)
    BY <2>1, FlattenPlaces
  <2>. HIDE DEF E
  <2>. QED BY <2>2
<1>13. DataSize(D) \in Nat
  <2>1. N \in 0 .. N
    BY <1>10
  <2>2. DataSize(SubSeq(D, 1, N)) = Total(Sizes(ds, o), N)
    BY <1>1, <2>1, DataSizes
  <2>3. SubSeq(D, 1, N) = D
    <3>1. D \in Seq(SUBSET Nat) /\ Len(D) = N
      BY <1>1, SizesAre
    <3>. HIDE DEF D, N
    <3>. QED BY <3>1
  <2>4. Sizes(ds, o) \in Seq(Nat) /\ Len(Sizes(ds, o)) = N
    BY <1>1, SizesAre
  <2>5. Total(Sizes(ds, o), N) \in Nat
    BY <2>1, <2>4, TotalSteps
  <2>. QED BY <2>2, <2>3, <2>5
<1>14. AddUp(c, S) \in Nat
  BY <1>1, <1>4, AddUpSteps
<1>15. Len(<<H>>) = 1
  OBVIOUS
<1>16. \A x : FileSize(x) = Len(x.header) * HeaderSize + Len(x.ids) * DocumentIdSize
               + Len(x.freqs) * TokenFrequencyEntrySize + BlocksSize(x.fields)
               + Len(x.heads) * PostingListHeaderSize + DataSize(x.data)
  BY DEF FileSize, BlocksSize
<1>. HIDE DEF F, H, I, E, B, P, D, N, S, c
<1>17. /\ F.header = <<H>> /\ F.ids = I /\ F.freqs = E /\ F.fields = B /\ F.heads = P /\ F.data = D
  BY <1>8
<1>18. FileSize(F) = 1 * 56 + Len(ds) * 136 + Len(E) * 8 + AddUp(c, S) + N * 16 + DataSize(D)
  BY <1>6, <1>7, <1>9, <1>11, <1>15, <1>16, <1>17
     DEF HeaderSize, DocumentIdSize, TokenFrequencyEntrySize, PostingListHeaderSize
<1>19. SavedBytes(ds, o) = 56 + Len(ds) * 136 + Len(E) * 8 + AddUp(c, S) + N * 16 + DataSize(D)
  BY DEF SavedBytes, HeaderSize, DocumentIdSize, TokenFrequencyEntrySize, PostingListHeaderSize,
         E, c, S, N, D
<1>20. FileSize(F) = SavedBytes(ds, o) /\ SavedBytes(ds, o) \in Nat
  BY <1>9, <1>10, <1>12, <1>13, <1>14, <1>18, <1>19
<1>. QED BY <1>20 DEF F

-----------------------------------------------------------------------------
(***************************************************************************)
(* The tables and the file they make.                                      *)
(***************************************************************************)
(* The tables are laid out in some order of the fields, and SaveTo ranges  *)
(* over them in another.                                                   *)
Lays(o) == /\ o \in SetToSeqs(FieldsOf(docs))
           /\ order \in SetToSeqs(FieldsOf(docs))
           /\ seg = LaidOut(docs, o)

(* The file that SaveTo writes, and its regions.                           *)
Whole(o) == SavedFile(docs, o, order)

Regions(o) ==
  /\ Whole(o) = [header |-> <<Header>>, ids |-> seg.ids, freqs |-> seg.freqs,
                 fields |-> [k \in DOMAIN order |-> BlockOf(order[k], seg.fields[order[k]])],
                 heads  |-> [k \in DOMAIN seg.lists |-> HeadOf(k)],
                 data   |-> seg.lists]
  /\ DOMAIN seg.fields = FieldsOf(docs)
  /\ seg.ids = [k \in 1 .. Len(docs) |-> seg.ids[k]] /\ Len(seg.ids) = Len(docs)
  /\ Len(docs) \in Nat
  /\ seg.freqs \in Seq(Entry) /\ seg.freqs = FlattenSeq(CellEntries(docs, o))
  /\ DOMAIN order = 1 .. Len(order) /\ Len(order) \in Nat
  /\ seg.lists = CellHolders(docs, o) /\ seg.lists \in Seq(SUBSET Nat)
  /\ Len(seg.lists) = Len(Cells(docs, o)) /\ Len(Cells(docs, o)) \in Nat
  /\ \A k \in 1 .. Len(Cells(docs, o)) : HeadOf(k) = CellHead(docs, o, k)
  /\ Header.docs = Len(docs) /\ Header.fields = Len(order)
  /\ Header.lists = Len(Cells(docs, o)) /\ Header.freqs = Len(seg.freqs)
  /\ Header.data = Total(Sizes(docs, o), Len(Cells(docs, o)))
  /\ Header.data = DataSize(seg.lists)

(* They are the tables of the storage.                                     *)
LEMMA RegionsAre ==
  ASSUME IsBatch(docs), NEW o, Lays(o)
  PROVE  Regions(o)
<1>. DEFINE S == FieldsOf(docs)
            N == Len(Cells(docs, o))
            E == FlattenSeq(CellEntries(docs, o))
            D == CellHolders(docs, o)
            I == [k \in DOMAIN docs |-> docs[k].id]
            w == Sizes(docs, o)
            B == [k \in DOMAIN order |-> BlockOf(order[k], seg.fields[order[k]])]
<1>1. /\ o \in SetToSeqs(S) /\ order \in SetToSeqs(S) /\ seg = LaidOut(docs, o)
      /\ o \in Seq(S) /\ IsFiniteSet(S)
  BY BatchSets, OrderIsSeq DEF Lays
<1>2. /\ order \in Seq(S) /\ DOMAIN order = 1 .. Len(order) /\ Len(order) \in Nat
      /\ Len(order) = Cardinality(S)
  <2>1. order \in Seq(S) /\ DOMAIN order = 1 .. Len(order)
    BY <1>1, OrderHasAll
  <2>2. Len(order) \in Nat
    BY <2>1
  <2>3. Cardinality(S) \in Nat
    BY <1>1, FS_CardinalityType
  <2>4. order \in [1 .. Cardinality(S) -> S]
    BY <1>1 DEF SetToSeqs
  <2>. HIDE DEF S
  <2>5. Len(order) = Cardinality(S)
    BY <2>3, <2>4, FunctionIsSeq
  <2>. QED BY <2>1, <2>2, <2>5
<1>3. seg = [ids    |-> I, freqs  |-> E,
             lists  |-> [n \in DOMAIN Cells(docs, o) |->
                           Holders(docs, Cells(docs, o)[n].f, Cells(docs, o)[n].v)],
             fields |-> [f \in S |-> LaidField(docs, o, f)]]
  BY <1>1, LaidOutParts
<1>4. [n \in DOMAIN Cells(docs, o) |-> Holders(docs, Cells(docs, o)[n].f, Cells(docs, o)[n].v)] = D
  <2>. DEFINE C == Cells(docs, o)
  <2>1. C \in Seq(Cell(docs))
    BY <1>1, CellsAre
  <2>. HIDE DEF C
  <2>2. DOMAIN C = 1 .. Len(C)
    BY <2>1
  <2>. QED BY <2>2 DEF CellHolders, C
<1>5. seg.ids = I /\ seg.freqs = E /\ seg.lists = D /\ DOMAIN seg.fields = S
  <2>. HIDE DEF I, E, D, S
  <2>. QED BY <1>3, <1>4
<1>6. /\ Len(docs) \in Nat /\ I = [k \in 1 .. Len(docs) |-> I[k]] /\ Len(I) = Len(docs)
  <2>1. Len(docs) \in Nat /\ DOMAIN docs = 1 .. Len(docs)
    BY BatchSets
  <2>2. I = [k \in 1 .. Len(docs) |-> I[k]]
    BY <2>1
  <2>. HIDE DEF I
  <2>. QED BY <2>1, <2>2, WholeIs
<1>7. E \in Seq(Entry)
  <2>1. CellEntries(docs, o) \in Seq(Seq(Entry))
    BY <1>1, CellEntriesAre
  <2>. QED BY <2>1, FlattenPlaces
<1>8. /\ N \in Nat /\ D \in Seq(SUBSET Nat) /\ Len(D) = N /\ DOMAIN D = 1 .. N
      /\ w \in Seq(Nat) /\ Len(w) = N
      /\ \A p \in 1 .. N : w[p] = BitmapSize(D[p])
  BY <1>1, SizesAre
<1>9. \A n \in 0 .. N : DataSize(SubSeq(D, 1, n)) = Total(w, n)
  BY <1>1, DataSizes
<1>10. B = [m \in 1 .. Len(order) |-> SavedBlock(docs, o, order[m])]
  <2>1. ASSUME NEW m \in 1 .. Len(order)
        PROVE  BlockOf(order[m], seg.fields[order[m]]) = SavedBlock(docs, o, order[m])
    <3>. DEFINE f == order[m]
                d == seg.fields[f]
    <3>1. f \in S
      BY <1>2
    <3>2. d = LaidOut(docs, o).fields[f]
      BY <1>1
    <3>3. LaidSays(docs, f, d)
      BY <1>1, <3>1, <3>2, FieldIsLaid
    <3>. HIDE DEF d, f
    <3>4. /\ Len(d.tokens) = Cardinality(ValuesOf(docs, f))
          /\ d.lengths = LengthsOf(docs, f)
          /\ d.total = LengthSum(LengthsOf(docs, f))
          /\ d.avg = Average(LengthSum(LengthsOf(docs, f)), Len(LengthsOf(docs, f)))
          /\ d.occurrences = Occurrences(docs, f)
      <4>1. \A a, b, c, e, g : d = [tokens |-> a, lengths |-> b, total |-> c, avg |-> e,
                                     occurrences |-> g]
              => d.lengths = b /\ d.total = c /\ d.avg = e /\ d.occurrences = g
        OBVIOUS
      <4>. QED BY <3>3, <4>1 DEF LaidSays
    <3>5. SavedBlock(docs, o, f) = BlockSays(docs, f, d.tokens)
      BY <3>2 DEF SavedBlock
    <3>6. BlockOf(f, d) = BlockSays(docs, f, d.tokens)
      BY <3>4 DEF BlockOf, BlockSays
    <3>. QED BY <3>5, <3>6 DEF d, f
  <2>. QED BY <1>2, <2>1
<1>. HIDE DEF S, N, E, D, I, w, B
<1>11. \A k \in 1 .. N : HeadOf(k) = CellHead(docs, o, k)
  <2>. SUFFICES ASSUME NEW k \in 1 .. N PROVE HeadOf(k) = CellHead(docs, o, k)
    OBVIOUS
  <2>1. k - 1 \in 0 .. N
    BY <1>8
  <2>2. DataSize(SubSeq(seg.lists, 1, k - 1)) = Total(w, k - 1)
    BY <1>5, <1>9, <2>1
  <2>3. BitmapSize(seg.lists[k]) = w[k]
    BY <1>5, <1>8
  <2>. QED BY <2>2, <2>3 DEF HeadOf, CellHead, w
<1>12. DataSize(D) = Total(w, N)
  <2>1. SubSeq(D, 1, N) = D /\ N \in 0 .. N
    BY <1>8
  <2>. QED BY <1>9, <2>1
<1>13. Header = [docs |-> Len(docs), fields |-> Len(order), lists |-> N,
                 data |-> Total(w, N), freqs |-> Len(E)]
  BY <1>2, <1>5, <1>6, <1>8, <1>12 DEF Header
<1>14. [k \in DOMAIN seg.lists |-> HeadOf(k)] = [p \in 1 .. N |-> CellHead(docs, o, p)]
  BY <1>5, <1>8, <1>11
<1>15. Whole(o) = [header |-> <<Header>>, ids |-> seg.ids, freqs |-> seg.freqs, fields |-> B,
                   heads |-> [k \in DOMAIN seg.lists |-> HeadOf(k)], data |-> seg.lists]
  <2>1. Whole(o) = [header |-> <<[docs |-> Len(docs), fields |-> Len(order), lists |-> N,
                                  data |-> Total(w, N), freqs |-> Len(E)]>>,
                    ids |-> I, freqs |-> E,
                    fields |-> [m \in 1 .. Len(order) |-> SavedBlock(docs, o, order[m])],
                    heads |-> [p \in 1 .. N |-> CellHead(docs, o, p)], data |-> D]
    BY DEF Whole, SavedFile, I, E, N, w, D
  <2>. QED BY <1>5, <1>10, <1>13, <1>14, <2>1
<1>16. /\ Header.docs = Len(docs) /\ Header.fields = Len(order)
       /\ Header.lists = N /\ Header.freqs = Len(E) /\ Header.data = Total(w, N)
  BY <1>13
<1>17. Regions(o)
  BY <1>2, <1>5, <1>6, <1>7, <1>8, <1>11, <1>12, <1>15, <1>16 DEF Regions, S, N, E, D, w, B
<1>. QED BY <1>17

(* The first n elements of a sequence.                                     *)
Fronts(s, n, x) ==
  /\ n >= Len(s) => x = s
  /\ n <= 0 => x = << >>
  /\ 0 <= n /\ n < Len(s) => Len(x) = n
  /\ 0 <= n /\ n <= Len(s) => x = [k \in 1 .. n |-> s[k]]

(* That is what is on disk of a region.                                    *)
LEMMA FrontIs ==
  ASSUME NEW N \in Nat, NEW s, s = [k \in 1 .. N |-> s[k]], NEW n \in Int
  PROVE  Fronts(s, n, Front1(s, n)) /\ Len(s) = N
<1>. DEFINE V == {s[k] : k \in 1 .. N}
            x == Front1(s, n)
<1>1. s \in [1 .. N -> V]
  <2>1. \A k \in 1 .. N : s[k] \in V
    OBVIOUS
  <2>. HIDE DEF V
  <2>. QED BY <2>1
<1>. HIDE DEF V
<1>2. s \in Seq(V) /\ Len(s) = N
  BY <1>1, FunctionIsSeq
<1>3. ASSUME n >= N PROVE x = s
  <2>1. Least(n, Len(s)) = N
    BY <1>2, <1>3 DEF Least
  <2>2. SubSeq(s, 1, N) = s
    BY WholeIs
  <2>. QED BY <2>1, <2>2 DEF Front1
<1>4. ASSUME n <= 0 PROVE x = << >>
  <2>1. Least(n, Len(s)) <= 0 /\ Least(n, Len(s)) \in Int
    BY <1>2, <1>4 DEF Least
  <2>2. \A m \in Int : m <= 0 => SubSeq(s, 1, m) = << >>
    BY <1>2
  <2>. QED BY <2>1, <2>2 DEF Front1
<1>5. ASSUME 0 <= n, n <= N PROVE Len(x) = n /\ x = [k \in 1 .. n |-> s[k]]
  <2>1. Least(n, Len(s)) = n
    BY <1>2, <1>5 DEF Least
  <2>2. x = SubSeq(s, 1, n)
    BY <2>1 DEF Front1
  <2>3. n \in Nat /\ n <= Len(s)
    BY <1>2, <1>5
  <2>. HIDE DEF x
  <2>4. x \in Seq(V) /\ Len(x) = n /\ \A k \in 1 .. n : x[k] = s[k]
    BY <1>2, <2>2, <2>3
  <2>5. x = [k \in 1 .. n |-> x[k]]
    BY <2>3, <2>4
  <2>. QED BY <2>4, <2>5
<1>. HIDE DEF x
<1>. QED BY <1>2, <1>3, <1>4, <1>5 DEF Fronts, x

(* Load rejects what is not all of the file: the lengths that the header   *)
(* announces.                                                              *)
Short(o, f) ==
  \/ Len(f.ids) < Len(docs)
  \/ Len(f.freqs) < Len(seg.freqs)
  \/ Len(f.fields) < Len(order)
  \/ Len(f.heads) < Len(Cells(docs, o))
  \/ /\ Len(Cells(docs, o)) > 0
     /\ \/ DataSize(f.data) < Total(Sizes(docs, o), Len(Cells(docs, o)))
        \/ HeadsSize(f.heads) # Total(Sizes(docs, o), Len(Cells(docs, o)))

(* Such a file is rejected, if more of it than the header is on disk.      *)
LEMMA ShortRejected ==
  ASSUME IsBatch(docs), NEW o, Lays(o), NEW f, f.header = <<Header>>, Short(o, f), f.ids # << >>
  PROVE  Load(f) = Rejected
<1>1. /\ Header.docs = Len(docs) /\ Header.fields = Len(order)
      /\ Header.lists = Len(Cells(docs, o)) /\ Header.freqs = Len(seg.freqs)
      /\ Header.data = Total(Sizes(docs, o), Len(Cells(docs, o)))
  BY RegionsAre DEF Regions
<1>2. f.header[1] = Header /\ f.header # << >>
  OBVIOUS
<1>3. Unreadable(f)
  BY <1>1, <1>2 DEF Short, Unreadable
<1>4. ~HeaderOnly(f)
  BY DEF HeaderOnly
<1>. QED BY <1>2, <1>3, <1>4 DEF Load

(* The whole file is loaded, and indexes the documents.                    *)
LEMMA WholeLoads ==
  ASSUME IsBatch(docs), NEW o, Lays(o)
  PROVE  /\ Load(Whole(o)) = seg
         /\ Indexes(seg, docs)
         /\ FileSize(Whole(o)) = SavedBytes(docs, o) /\ SavedBytes(docs, o) \in Nat
<1>1. o \in SetToSeqs(FieldsOf(docs)) /\ order \in SetToSeqs(FieldsOf(docs))
      /\ seg = LaidOut(docs, o)
  BY DEF Lays
<1>2. Load(Whole(o)) = seg
  BY <1>1, SavedLoads DEF Whole
<1>3. seg \in LayoutsOf(docs)
  BY <1>1 DEF LayoutsOf
<1>4. Indexes(seg, docs)
  BY <1>3, LaidOutIndexes
<1>5. FileSize(Whole(o)) = SavedBytes(docs, o) /\ SavedBytes(docs, o) \in Nat
  BY <1>1, SavedSize DEF Whole
<1>. QED BY <1>2, <1>4, <1>5

(* Where there are no fields, there are no cells; where there are no       *)
(* documents, there are no fields.                                         *)
LEMMA NothingToSave ==
  ASSUME IsBatch(docs), NEW o, Lays(o), Len(docs) = 0
  PROVE  /\ Len(order) = 0 /\ Len(Cells(docs, o)) = 0
         /\ Len(seg.freqs) = 0
<1>1. /\ o \in SetToSeqs(FieldsOf(docs)) /\ order \in SetToSeqs(FieldsOf(docs))
  BY DEF Lays
<1>2. FieldsOf(docs) = {}
  <2>1. DOMAIN docs = 1 .. Len(docs)
    BY BatchSets
  <2>. QED BY <2>1 DEF FieldsOf
<1>3. o \in Seq({}) /\ order \in Seq({})
  <2>1. o \in Seq(FieldsOf(docs)) /\ order \in Seq(FieldsOf(docs))
    BY <1>1, OrderIsSeq
  <2>. QED BY <1>2, <2>1
<1>4. Len(o) = 0 /\ Len(order) = 0
  <2>1. \A x \in Seq({}) : Len(x) = 0
    <3>. TAKE x \in Seq({})
    <3>1. Len(x) \in Nat /\ \A k \in 1 .. Len(x) : x[k] \in {}
      OBVIOUS
    <3>2. 1 \in 1 .. Len(x) \/ Len(x) = 0
      BY <3>1
    <3>. QED BY <3>1, <3>2
  <2>. QED BY <1>3, <2>1
<1>5. Len(Cells(docs, o)) = 0
  <2>1. o \in Seq(FieldsOf(docs))
    BY <1>2, <1>3
  <2>2. Before(docs, o, 1) = 0 /\ Before(docs, o, Len(o) + 1) = Len(Cells(docs, o))
    BY <2>1, BeforeIs
  <2>. QED BY <1>4, <2>2
<1>6. Len(seg.freqs) = 0
  <2>. DEFINE E == CellEntries(docs, o)
  <2>1. o \in Seq(FieldsOf(docs))
    BY <1>2, <1>3
  <2>2. E \in Seq(Seq(Entry)) /\ Len(E) = 0
    BY <1>5, <2>1, CellEntriesAre
  <2>3. seg.freqs = FlattenSeq(E)
    BY RegionsAre DEF Regions
  <2>. HIDE DEF E
  <2>4. Len(FlattenSeq(E)) = Total(Lens(E), 0)
    BY <2>2, FlattenPlaces
  <2>5. Lens(E) \in Seq(Nat)
    BY <2>2, LensAre
  <2>6. Total(Lens(E), 0) = 0
    BY <2>5, TotalSteps
  <2>. QED BY <2>3, <2>4, <2>6
<1>. QED BY <1>4, <1>5, <1>6

(* A file of these regions, and how its regions are replaced.              *)
FileOf(h, i, e, b, p, d) ==
  [header |-> h, ids |-> i, freqs |-> e, fields |-> b, heads |-> p, data |-> d]

PutHeader(f, x) == [f EXCEPT !.header = x]
PutIds(f, x) == [f EXCEPT !.ids = x]
PutFreqs(f, x) == [f EXCEPT !.freqs = x]
PutFields(f, x) == [f EXCEPT !.fields = x]
PutHeads(f, x) == [f EXCEPT !.heads = x]
PutData(f, x) == [f EXCEPT !.data = x]

(* The others stay.                                                        *)
LEMMA FileUpdates ==
  ASSUME NEW h, NEW i, NEW e, NEW b, NEW p, NEW d, NEW x
  PROVE  /\ PutHeader(FileOf(h, i, e, b, p, d), x) = FileOf(x, i, e, b, p, d)
         /\ PutIds(FileOf(h, i, e, b, p, d), x) = FileOf(h, x, e, b, p, d)
         /\ PutFreqs(FileOf(h, i, e, b, p, d), x) = FileOf(h, i, x, b, p, d)
         /\ PutFields(FileOf(h, i, e, b, p, d), x) = FileOf(h, i, e, x, p, d)
         /\ PutHeads(FileOf(h, i, e, b, p, d), x) = FileOf(h, i, e, b, x, d)
         /\ PutData(FileOf(h, i, e, b, p, d), x) = FileOf(h, i, e, b, p, x)
<1>1. PutHeader(FileOf(h, i, e, b, p, d), x) = FileOf(x, i, e, b, p, d)
  BY DEF FileOf, PutHeader
<1>2. PutIds(FileOf(h, i, e, b, p, d), x) = FileOf(h, x, e, b, p, d)
  BY DEF FileOf, PutIds
<1>3. PutFreqs(FileOf(h, i, e, b, p, d), x) = FileOf(h, i, x, b, p, d)
  BY DEF FileOf, PutFreqs
<1>4. PutFields(FileOf(h, i, e, b, p, d), x) = FileOf(h, i, e, x, p, d)
  BY DEF FileOf, PutFields
<1>5. PutHeads(FileOf(h, i, e, b, p, d), x) = FileOf(h, i, e, b, x, d)
  BY DEF FileOf, PutHeads
<1>6. PutData(FileOf(h, i, e, b, p, d), x) = FileOf(h, i, e, b, p, x)
  BY DEF FileOf, PutData
<1>. QED BY <1>1, <1>2, <1>3, <1>4, <1>5, <1>6

(* The tables in the file, with these posting lists behind them.           *)
Blocks == [k \in DOMAIN order |-> BlockOf(order[k], seg.fields[order[k]])]
Heads  == [k \in DOMAIN seg.lists |-> HeadOf(k)]
Body(p, d) == FileOf(<<Header>>, seg.ids, seg.freqs, Blocks, p, d)

(* The stream ends with all the tables on disk, and is short before.       *)
LEMMA StreamIs ==
  ASSUME IsBatch(docs), NEW o, Lays(o)
  PROVE  /\ StreamLength \in Nat \ {0}
         /\ OnDisk(StreamLength) = Body(<< >>, << >>)
         /\ \A n \in 1 .. StreamLength :
              n >= Least(2, StreamLength) /\ n # StreamLength =>
                Load(OnDisk(n)) = Rejected
<1>. DEFINE N == Len(docs)
            M == Len(seg.freqs)
            K == Len(order)
            B == [k \in DOMAIN order |-> BlockOf(order[k], seg.fields[order[k]])]
<1>1. Regions(o)
  BY RegionsAre
<1>2. /\ Whole(o) = [header |-> <<Header>>, ids |-> seg.ids, freqs |-> seg.freqs, fields |-> B,
                     heads  |-> [k \in DOMAIN seg.lists |-> HeadOf(k)], data |-> seg.lists]
      /\ seg.ids = [k \in 1 .. N |-> seg.ids[k]] /\ Len(seg.ids) = N /\ N \in Nat
      /\ seg.freqs \in Seq(Entry)
      /\ DOMAIN order = 1 .. K /\ K \in Nat
  BY <1>1 DEF Regions
<1>3. M \in Nat /\ seg.freqs = [k \in 1 .. M |-> seg.freqs[k]]
  BY <1>2
<1>4. B = [k \in 1 .. K |-> B[k]]
  BY <1>2
<1>5. StreamLength = 1 + N + M + K
  BY <1>2 DEF StreamLength
<1>. HIDE DEF N, M, K, B
<1>6. \A n : OnDisk(n) = [header |-> Front1(<<Header>>, n), ids |-> Front1(seg.ids, n - 1),
                          freqs |-> Front1(seg.freqs, n - 1 - N),
                          fields |-> Front1(B, n - 1 - N - M), heads |-> << >>, data |-> << >>]
  <2>. TAKE n
  <2>. DEFINE h == Front1(<<Header>>, n)
              i == Front1(seg.ids, n - 1)
              e == Front1(seg.freqs, n - 1 - Len(seg.ids))
              b == Front1(B, n - 1 - Len(seg.ids) - Len(seg.freqs))
              g1 == PutHeader(NoSuchFile, h)
              g2 == PutIds(g1, i)
              g3 == PutFreqs(g2, e)
              g4 == PutFields(g3, b)
  <2>1. OnDisk(n) = g4
    BY DEF OnDisk, B, PutHeader, PutIds, PutFreqs, PutFields
  <2>. HIDE DEF h, i, e, b
  <2>2. NoSuchFile = FileOf(<< >>, << >>, << >>, << >>, << >>, << >>)
    BY DEF NoSuchFile, FileOf
  <2>3. g1 = FileOf(h, << >>, << >>, << >>, << >>, << >>)
    BY <2>2, FileUpdates
  <2>. HIDE DEF g1
  <2>4. g2 = FileOf(h, i, << >>, << >>, << >>, << >>)
    BY <2>3, FileUpdates
  <2>. HIDE DEF g2
  <2>5. g3 = FileOf(h, i, e, << >>, << >>, << >>)
    BY <2>4, FileUpdates
  <2>. HIDE DEF g3
  <2>6. g4 = FileOf(h, i, e, b, << >>, << >>)
    BY <2>5, FileUpdates
  <2>. HIDE DEF g4
  <2>. QED BY <1>2, <2>1, <2>6 DEF FileOf, h, i, e, b, M
<1>7. ASSUME NEW n \in 1 .. StreamLength
      PROVE  /\ Front1(<<Header>>, n) = <<Header>>
             /\ Fronts(seg.ids, n - 1, Front1(seg.ids, n - 1))
             /\ Fronts(seg.freqs, n - 1 - N, Front1(seg.freqs, n - 1 - N))
             /\ Fronts(B, n - 1 - N - M, Front1(B, n - 1 - N - M))
             /\ Len(B) = K
             /\ n \in Int /\ 1 <= n /\ n <= 1 + N + M + K
  <2>1. n \in Int /\ 1 <= n /\ n <= 1 + N + M + K
    BY <1>2, <1>3, <1>5
  <2>2. n - 1 \in Int /\ n - 1 - N \in Int /\ n - 1 - N - M \in Int
    BY <1>2, <1>3, <2>1
  <2>3. Front1(<<Header>>, n) = <<Header>>
    <3>. DEFINE H == <<Header>>
    <3>1. H = [k \in 1 .. 1 |-> H[k]] /\ Len(H) = 1
      OBVIOUS
    <3>. HIDE DEF H
    <3>2. Fronts(H, n, Front1(H, n))
      BY <2>1, <3>1, FrontIs
    <3>3. Front1(H, n) = H
      BY <2>1, <3>1, <3>2 DEF Fronts
    <3>. QED BY <3>3 DEF H
  <2>4. Fronts(seg.ids, n - 1, Front1(seg.ids, n - 1))
    BY <1>2, <2>2, FrontIs
  <2>5. Fronts(seg.freqs, n - 1 - N, Front1(seg.freqs, n - 1 - N))
    BY <1>3, <2>2, FrontIs
  <2>6. Fronts(B, n - 1 - N - M, Front1(B, n - 1 - N - M)) /\ Len(B) = K
    BY <1>2, <1>4, <2>2, FrontIs
  <2>. QED BY <2>1, <2>3, <2>4, <2>5, <2>6
<1>8. OnDisk(StreamLength) = Body(<< >>, << >>)
  <2>. DEFINE n == StreamLength
  <2>1. n \in 1 .. StreamLength
    BY <1>2, <1>3, <1>5
  <2>2. n - 1 >= N /\ n - 1 - N >= M /\ n - 1 - N - M >= K
    BY <1>2, <1>3, <1>5
  <2>. HIDE DEF n
  <2>3. /\ Front1(<<Header>>, n) = <<Header>> /\ Front1(seg.ids, n - 1) = seg.ids
        /\ Front1(seg.freqs, n - 1 - N) = seg.freqs /\ Front1(B, n - 1 - N - M) = B
    BY <1>2, <1>3, <1>7, <2>1, <2>2 DEF Fronts, M
  <2>. QED BY <1>6, <2>3 DEF n, Body, FileOf, Blocks, B
<1>9. ASSUME NEW n \in 1 .. StreamLength, n >= Least(2, StreamLength), n # StreamLength
      PROVE  Load(OnDisk(n)) = Rejected
  <2>. DEFINE f == OnDisk(n)
  <2>1. /\ f.header = <<Header>> /\ f.ids = Front1(seg.ids, n - 1)
        /\ f.freqs = Front1(seg.freqs, n - 1 - N)
        /\ f.fields = Front1(B, n - 1 - N - M)
    BY <1>6, <1>7
  <2>. HIDE DEF f
  <2>2. n \in Int /\ 1 <= n /\ n < 1 + N + M + K
    BY <1>2, <1>3, <1>5, <1>7, <1>9
  <2>3. 2 <= n
    BY <1>2, <1>3, <1>5, <1>9, <2>2 DEF Least
  <2>4. N > 0
    <3>1. ASSUME N = 0 PROVE M = 0 /\ K = 0
      BY <3>1, NothingToSave DEF N, M, K
    <3>. QED BY <1>2, <2>2, <2>3, <3>1
  <2>5. /\ Fronts(seg.ids, n - 1, f.ids)
        /\ Fronts(seg.freqs, n - 1 - N, f.freqs)
        /\ Fronts(B, n - 1 - N - M, f.fields) /\ Len(B) = K
    BY <1>7, <2>1
  <2>6. \A s, m, x : Fronts(s, m, x) /\ 0 <= m /\ m < Len(s) => Len(x) = m
    BY DEF Fronts
  <2>7. f.ids # << >>
    <3>1. ASSUME n - 1 >= N PROVE f.ids # << >>
      <4>1. \A s, m, x : Fronts(s, m, x) /\ m >= Len(s) => x = s
        BY DEF Fronts
      <4>2. f.ids = seg.ids
        BY <1>2, <2>5, <3>1, <4>1
      <4>. QED BY <1>2, <2>4, <4>2
    <3>2. ASSUME n - 1 < N PROVE f.ids # << >>
      <4>1. 0 <= n - 1 /\ n - 1 < Len(seg.ids)
        BY <1>2, <2>2, <3>2
      <4>2. Len(f.ids) = n - 1
        BY <2>5, <2>6, <4>1
      <4>3. Len(f.ids) # 0
        BY <2>2, <2>3, <4>2
      <4>4. Len(<< >>) = 0
        OBVIOUS
      <4>. QED BY <4>3, <4>4
    <3>. QED BY <1>2, <2>2, <3>1, <3>2
  <2>8. Short(o, f)
    <3>1. ASSUME n - 1 < N PROVE Short(o, f)
      <4>1. 0 <= n - 1 /\ n - 1 < Len(seg.ids)
        BY <1>2, <2>2, <3>1
      <4>2. Len(f.ids) = n - 1
        BY <2>5, <2>6, <4>1
      <4>. QED BY <3>1, <4>2 DEF Short, N
    <3>2. ASSUME n - 1 >= N, n - 1 - N < M PROVE Short(o, f)
      <4>1. 0 <= n - 1 - N /\ n - 1 - N < Len(seg.freqs)
        BY <1>2, <2>2, <3>2 DEF M
      <4>2. Len(f.freqs) = n - 1 - N
        BY <2>5, <2>6, <4>1
      <4>. QED BY <4>1, <4>2 DEF Short
    <3>3. ASSUME n - 1 >= N, n - 1 - N >= M PROVE Short(o, f)
      <4>1. 0 <= n - 1 - N - M /\ n - 1 - N - M < K
        BY <1>2, <1>3, <2>2, <3>3
      <4>2. Len(f.fields) = n - 1 - N - M
        BY <2>5, <2>6, <4>1
      <4>. QED BY <4>1, <4>2 DEF Short, K
    <3>. QED BY <1>2, <1>3, <2>2, <3>1, <3>2, <3>3
  <2>9. Load(f) = Rejected
    BY <2>1, <2>7, <2>8, ShortRejected
  <2>. QED BY <2>9 DEF f
<1>10. StreamLength \in Nat \ {0}
  BY <1>2, <1>3, <1>5
<1>. QED BY <1>8, <1>9, <1>10

(* Only the first of the summands are not zero.                            *)
LEMMA ZeroTail ==
  ASSUME NEW w \in Seq(Nat), NEW x \in Seq(Nat), Len(x) = Len(w), NEW j \in 0 .. Len(w),
         \A k \in 1 .. Len(w) : x[k] = IF k <= j THEN w[k] ELSE 0
  PROVE  Total(x, Len(w)) = Total(w, j)
<1>. DEFINE N == Len(w)
            S == {k \in Nat : j <= k /\ k <= N => Total(x, k) = Total(w, j)}
<1>1. N \in Nat /\ j \in Nat /\ j <= N
  OBVIOUS
<1>2. Total(x, j) = Total(w, j)
  <2>1. \A k \in 1 .. j : x[k] = w[k]
    BY <1>1
  <2>2. j <= Len(x) /\ j <= Len(w)
    BY <1>1
  <2>. QED BY ZenonT(60), <1>1, <2>1, <2>2, TotalSame
<1>3. 0 \in S
  <2>1. ASSUME j <= 0 PROVE Total(x, 0) = Total(w, j)
    BY <1>1, <1>2, <2>1
  <2>. QED BY <2>1
<1>4. ASSUME NEW k \in Nat, k \in S PROVE k + 1 \in S
  <2>. SUFFICES ASSUME j <= k + 1, k + 1 <= N PROVE Total(x, k + 1) = Total(w, j)
    OBVIOUS
  <2>1. CASE j = k + 1
    BY <1>2, <2>1
  <2>2. CASE j <= k
    <3>1. Total(x, k) = Total(w, j)
      BY <1>1, <1>4, <2>2
    <3>2. k + 1 \in 1 .. Len(x) /\ (k + 1) - 1 = k /\ k + 1 \in 1 .. Len(w) /\ ~(k + 1 <= j)
          /\ k \in 0 .. Len(x)
      BY <1>1, <2>2
    <3>3. x[k + 1] = 0
      BY <3>2
    <3>4. Total(x, k + 1) = Total(x, k) + x[k + 1] /\ Total(x, k) \in Nat
      BY <3>2, TotalSteps
    <3>. QED BY <3>1, <3>3, <3>4
  <2>. QED BY <1>1, <2>1, <2>2
<1>. HIDE DEF S
<1>5. N \in S
  BY <1>1, <1>3, <1>4, NatInductive
<1>. QED BY <1>1, <1>5 DEF S

(* What Load makes of the tables with these posting lists.                 *)
LEMMA BodyLoads ==
  ASSUME IsBatch(docs), NEW o, Lays(o), NEW p, NEW d
  PROVE  /\ Whole(o) = Body(Heads, seg.lists)
         /\ Len(p) < Len(Cells(docs, o)) => Load(Body(p, d)) = Rejected
         /\ Len(Cells(docs, o)) > 0 =>
              /\ DataSize(d) < Total(Sizes(docs, o), Len(Cells(docs, o)))
                   => Load(Body(p, d)) = Rejected
              /\ HeadsSize(p) # Total(Sizes(docs, o), Len(Cells(docs, o)))
                   => Load(Body(p, d)) = Rejected
<1>. DEFINE f == Body(p, d)
            N == Len(Cells(docs, o))
<1>1. Regions(o)
  BY RegionsAre
<1>2. Whole(o) = Body(Heads, seg.lists)
  BY <1>1 DEF Regions, Body, FileOf, Blocks, Heads
<1>3. f.header = <<Header>> /\ f.ids = seg.ids /\ f.heads = p /\ f.data = d
  BY DEF Body, FileOf
<1>. HIDE DEF f
<1>4. ASSUME N > 0 PROVE f.ids # << >>
  <2>1. Len(docs) \in Nat /\ Len(seg.ids) = Len(docs) /\ N \in Nat
    BY <1>1 DEF Regions
  <2>2. Len(docs) # 0
    BY <1>4, <2>1, NothingToSave
  <2>3. Len(<< >>) = 0
    OBVIOUS
  <2>. QED BY <1>3, <2>1, <2>2, <2>3
<1>5. ASSUME N > 0, Short(o, f) PROVE Load(f) = Rejected
  BY <1>3, <1>4, <1>5, ShortRejected
<1>6. ASSUME Len(p) < N, N > 0 PROVE Load(f) = Rejected
  <2>1. Short(o, f)
    BY <1>3, <1>6 DEF Short
  <2>. QED BY <1>5, <1>6, <2>1
<1>7. ASSUME N > 0, \/ DataSize(d) < Total(Sizes(docs, o), N)
                    \/ HeadsSize(p) # Total(Sizes(docs, o), N)
      PROVE  Load(f) = Rejected
  <2>1. Short(o, f)
    BY <1>3, <1>7 DEF Short
  <2>. QED BY <1>5, <1>7, <2>1
<1>. QED BY <1>2, <1>6, <1>7 DEF f, N
(* The lists in memory, of which some are written: all of them are the     *)
(* file, fewer are rejected.                                               *)
BodySays(o, a, b, p, x) ==
  /\ a = Len(Cells(docs, o)) => p = Heads
  /\ b = Len(Cells(docs, o)) => x = seg.lists
  /\ a # Len(Cells(docs, o)) \/ b # Len(Cells(docs, o)) => Load(Body(p, x)) = Rejected

(* Here the first a headers and the first b bitmaps are.                   *)
LEMMA ListedBody ==
  ASSUME IsBatch(docs), NEW o, Lays(o),
         NEW a \in 0 .. Len(Cells(docs, o)), NEW b \in 0 .. Len(Cells(docs, o)),
         NEW p, p = [k \in 1 .. Len(Cells(docs, o)) |->
                       IF k <= a THEN CellHead(docs, o, k) ELSE ZeroHead],
         NEW x, x = [k \in 1 .. b |-> CellHolders(docs, o)[k]]
  PROVE  BodySays(o, a, b, p, x)
<1>. DEFINE N == Len(Cells(docs, o))
            H == CellHolders(docs, o)
            w == Sizes(docs, o)
<1>1. /\ N \in Nat /\ seg.lists = H
      /\ \A k \in 1 .. N : HeadOf(k) = CellHead(docs, o, k)
  BY RegionsAre DEF Regions
<1>2. /\ H \in Seq(SUBSET Nat) /\ Len(H) = N /\ DOMAIN H = 1 .. N
      /\ w \in Seq(Nat) /\ Len(w) = N
      /\ \A k \in 1 .. N : w[k] = BitmapSize(H[k]) /\ w[k] > 0 /\ w[k] \in Nat
      /\ \A k : CellHead(docs, o, k).length = w[k]
  <2>1. o \in Seq(FieldsOf(docs))
    BY BatchSets, OrderIsSeq DEF Lays
  <2>2. /\ H \in Seq(SUBSET Nat) /\ Len(H) = N /\ DOMAIN H = 1 .. N
        /\ w \in Seq(Nat) /\ Len(w) = N
        /\ \A k \in 1 .. N : w[k] = BitmapSize(H[k]) /\ w[k] > 0
    BY <2>1, SizesAre
  <2>3. \A k : CellHead(docs, o, k).length = w[k]
    BY DEF CellHead
  <2>. HIDE DEF N, H, w
  <2>. QED BY <2>2, <2>3
<1>. HIDE DEF N, H, w
<1>3. a \in Nat /\ b \in Nat /\ a <= N /\ b <= N
  BY <1>1 DEF N
<1>4. /\ p = [k \in 1 .. N |-> IF k <= a THEN CellHead(docs, o, k) ELSE ZeroHead]
      /\ x = [k \in 1 .. b |-> H[k]]
  BY DEF N, H
<1>5. ASSUME a = N PROVE p = Heads
  <2>1. DOMAIN seg.lists = 1 .. N
    BY <1>1, <1>2
  <2>2. \A k \in 1 .. N : k <= a
    BY <1>1, <1>5
  <2>. QED BY <1>1, <1>4, <2>1, <2>2 DEF Heads
<1>6. ASSUME b = N PROVE x = seg.lists
  <2>1. H = [k \in 1 .. N |-> H[k]]
    BY <1>2
  <2>. QED BY <1>1, <1>4, <1>6, <2>1
<1>7. ASSUME a # N PROVE Load(Body(p, x)) = Rejected
  <2>. DEFINE y == [k \in 1 .. N |-> IF k <= a THEN w[k] ELSE 0]
  <2>1. \A k \in 1 .. N : y[k] = IF k <= a THEN w[k] ELSE 0
    OBVIOUS
  <2>2. y \in [1 .. N -> Nat]
    BY <1>2
  <2>. HIDE DEF y
  <2>3. y \in Seq(Nat) /\ Len(y) = N
    BY <1>1, <2>2, FunctionIsSeq
  <2>4. \A k \in 1 .. Len(y) : p[k].length = y[k]
    <3>. TAKE k \in 1 .. Len(y)
    <3>1. k \in 1 .. N
      BY <2>3
    <3>2. p[k] = IF k <= a THEN CellHead(docs, o, k) ELSE ZeroHead
      BY <1>4, <3>1
    <3>3. ZeroHead.length = 0
      BY DEF ZeroHead
    <3>. QED BY <1>2, <2>1, <3>1, <3>2, <3>3
  <2>5. DOMAIN p = 1 .. Len(y)
    BY <1>4, <2>3
  <2>6. HeadsSize(p) = Total(y, N)
    <3>1. HeadsSize(p) = Total(y, Len(y))
      BY ZenonT(60), <2>3, <2>4, <2>5, HeadsSum
    <3>. QED BY <2>3, <3>1
  <2>7. Total(y, N) = Total(w, a)
    <3>1. a \in 0 .. Len(w) /\ Len(y) = Len(w)
      BY <1>2, <1>3, <2>3
    <3>2. \A k \in 1 .. Len(w) : y[k] = IF k <= a THEN w[k] ELSE 0
      BY <1>2, <2>1
    <3>3. Total(y, Len(w)) = Total(w, a)
      BY ZenonT(60), <1>2, <2>3, <3>1, <3>2, ZeroTail
    <3>. QED BY <1>2, <3>3
  <2>8. Total(w, a) < Total(w, N)
    <3>1. a < Len(w) /\ \A k \in 1 .. Len(w) : w[k] > 0
      BY <1>2, <1>3, <1>7
    <3>2. Total(w, a) < Total(w, Len(w))
      BY ZenonT(60), <1>2, <1>3, <3>1, TotalLess
    <3>. QED BY <1>2, <3>2
  <2>9. Total(w, a) \in Nat /\ Total(w, N) \in Nat
    BY <1>1, <1>2, <1>3, TotalSteps
  <2>10. HeadsSize(p) # Total(w, N) /\ N > 0
    BY <1>1, <1>3, <1>7, <2>6, <2>7, <2>8, <2>9
  <2>. QED BY <2>10, BodyLoads DEF N, w
<1>8. ASSUME b # N PROVE Load(Body(p, x)) = Rejected
  <2>. DEFINE y == SubSeq(w, 1, b)
  <2>1. y \in Seq(Nat) /\ Len(y) = b /\ \A k \in 1 .. b : y[k] = w[k]
    BY <1>2, <1>3
  <2>. HIDE DEF y
  <2>2. DOMAIN x = 1 .. Len(y) /\ \A k \in 1 .. Len(y) : BitmapSize(x[k]) = y[k]
    BY <1>1, <1>2, <1>3, <1>4, <2>1
  <2>3. DataSize(x) = Total(y, b)
    <3>1. DataSize(x) = Total(y, Len(y))
      BY ZenonT(60), <2>1, <2>2, SizesSum
    <3>. QED BY <2>1, <3>1
  <2>4. Total(y, b) = Total(w, b)
    <3>1. b <= Len(y) /\ b <= Len(w)
      BY <1>2, <1>3, <2>1
    <3>. QED BY ZenonT(60), <1>2, <1>3, <2>1, <3>1, TotalSame
  <2>5. Total(w, b) < Total(w, N)
    <3>1. b < Len(w) /\ \A k \in 1 .. Len(w) : w[k] > 0
      BY <1>2, <1>3, <1>8
    <3>2. Total(w, b) < Total(w, Len(w))
      BY ZenonT(60), <1>2, <1>3, <3>1, TotalLess
    <3>. QED BY <1>2, <3>2
  <2>6. DataSize(x) < Total(w, N) /\ N > 0
    BY <1>1, <1>3, <1>8, <2>3, <2>4, <2>5
  <2>. QED BY <2>6, BodyLoads DEF N, w
<1>. QED BY <1>5, <1>6, <1>7, <1>8 DEF N, BodySays

(* The mapped lists, of which some are written.                            *)
LEMMA MappedBody ==
  ASSUME IsBatch(docs), NEW o, Lays(o), NEW n \in 0 .. 2 * Len(Cells(docs, o))
  PROVE  LET file1 == Body(Front1(Heads, n), Front1(seg.lists, n - Len(Cells(docs, o)))) IN
         /\ n = 2 * Len(Cells(docs, o)) => file1 = Whole(o)
         /\ file1 = Whole(o) \/ Load(file1) = Rejected
<1>. DEFINE N == Len(Cells(docs, o))
            H == CellHolders(docs, o)
            p == Front1(Heads, n)
            x == Front1(seg.lists, n - N)
<1>1. /\ N \in Nat /\ seg.lists = H /\ H \in Seq(SUBSET Nat) /\ Len(H) = N
      /\ \A k \in 1 .. N : HeadOf(k) = CellHead(docs, o, k)
  BY RegionsAre DEF Regions
<1>. HIDE DEF N, H
<1>2. Heads = [k \in 1 .. N |-> CellHead(docs, o, k)] /\ H = [k \in 1 .. N |-> H[k]]
  BY <1>1 DEF Heads
<1>3. Heads = [k \in 1 .. N |-> Heads[k]]
  BY <1>2
<1>4. n \in Int /\ n - N \in Int /\ 0 <= n /\ n <= 2 * N
  BY <1>1 DEF N
<1>5. Fronts(Heads, n, p) /\ Len(Heads) = N
  BY ZenonT(60), <1>1, <1>3, <1>4, FrontIs
<1>6. Fronts(H, n - N, x)
  BY ZenonT(60), <1>1, <1>2, <1>4, FrontIs
<1>7. Whole(o) = Body(Heads, seg.lists)
  BY BodyLoads
<1>. HIDE DEF p, x
<1>8. ASSUME n < N PROVE Load(Body(p, x)) = Rejected
  <2>1. Len(p) = n
    BY <1>4, <1>5, <1>8 DEF Fronts
  <2>2. Len(p) < N
    BY <1>8, <2>1
  <2>. QED BY <2>2, BodyLoads DEF N
<1>9. ASSUME n >= N, n - N < N PROVE Load(Body(p, x)) = Rejected
  <2>. DEFINE b == n - N
  <2>1. p = Heads
    BY <1>1, <1>4, <1>5, <1>9 DEF Fronts
  <2>2. b \in 0 .. N /\ b # N /\ b \in Nat /\ N \in 0 .. N
    BY <1>1, <1>4, <1>9
  <2>3. x = [k \in 1 .. b |-> H[k]]
    BY <1>1, <1>6, <2>2 DEF Fronts
  <2>. HIDE DEF b
  <2>4. p = [k \in 1 .. N |-> IF k <= N THEN CellHead(docs, o, k) ELSE ZeroHead]
    BY <1>1, <1>2, <2>1
  <2>5. BodySays(o, N, b, p, x)
    BY ZenonT(60), <2>2, <2>3, <2>4, ListedBody DEF N, H
  <2>. QED BY <2>2, <2>5 DEF BodySays, N
<1>10. ASSUME n >= N, n - N >= N PROVE Body(p, x) = Whole(o)
  <2>1. p = Heads
    BY <1>1, <1>4, <1>5, <1>10 DEF Fronts
  <2>2. x = H
    BY <1>1, <1>4, <1>6, <1>10 DEF Fronts
  <2>. QED BY <1>1, <1>7, <2>1, <2>2
<1>11. n = 2 * N => n >= N /\ n - N >= N
  BY <1>1
<1>12. n < N \/ (n >= N /\ n - N < N) \/ (n >= N /\ n - N >= N)
  BY <1>1, <1>4
<1>. QED BY <1>8, <1>9, <1>10, <1>11, <1>12 DEF N, p, x
-----------------------------------------------------------------------------
(***************************************************************************)
(* The fields are emitted one by one.                                      *)
(***************************************************************************)
(* The tables have the fields that are no longer accumulated, in the order *)
(* o; what the others say is unchanged; and Size counts every block and    *)
(* every frequency entry, and the posting lists that are in the tables.    *)
EmittedIn(o) ==
  /\ DOMAIN acc \subseteq FieldsOf(docs)
  /\ acc = [f \in DOMAIN acc |-> Gathered(docs, f)]
  /\ PartOf(seg, docs, o, FieldsOf(docs) \ DOMAIN acc)
  /\ size = HeaderSize + Len(docs) * DocumentIdSize
              + AddUp(BytesOf(docs), FieldsOf(docs))
              + Len(seg.lists) * PostingListHeaderSize + DataSize(seg.lists)
  /\ Len(seg.freqs) * TokenFrequencyEntrySize
       = AddUp(BytesOfEntries(docs), FieldsOf(docs) \ DOMAIN acc)

(* What the tables of such a storage are.                                  *)
LEMMA PartSays ==
  ASSUME NEW ds, NEW s, NEW o, NEW S, PartOf(s, ds, o, S)
  PROVE  /\ s.freqs = FlattenSeq(CellEntries(ds, o))
         /\ s.lists = CellHolders(ds, o)
         /\ DOMAIN s.fields = S
         /\ o \in Seq(FieldsOf(ds))
<1>1. \A b, d, e, f : s = [ids |-> b, freqs |-> d, lists |-> e, fields |-> f] =>
        s.freqs = d /\ s.lists = e /\ s.fields = f
  OBVIOUS
<1>2. s.fields = [f \in S |-> s.fields[f]]
  BY <1>1 DEF PartOf
<1>3. DOMAIN s.fields = S
  BY <1>2
<1>4. o \in Seq(FieldsOf(ds))
  <2>1. \A X : X \subseteq FieldsOf(ds) => Seq(X) \subseteq Seq(FieldsOf(ds))
    OBVIOUS
  <2>. QED BY <2>1 DEF PartOf, Once
<1>. QED BY <1>1, <1>3, <1>4 DEF PartOf

(* What a field is emitted to.                                             *)
LEMMA FieldGrows ==
  ASSUME NEW ds, IsBatch(ds), NEW o \in Seq(FieldsOf(ds)), NEW g \in FieldsOf(ds)
  PROVE  /\ Len(CellHolders(ds, Append(o, g)))
              = Len(CellHolders(ds, o)) + Len(FieldHolders(ds, g))
         /\ Len(CellHolders(ds, o)) \in Nat /\ Len(FieldHolders(ds, g)) \in Nat
         /\ TablesGrow(ds, o, g, Append(o, g))
<1>. DEFINE H == CellHolders(ds, o)
            K == FieldHolders(ds, g)
<1>1. TablesGrow(ds, o, g, Append(o, g))
  BY CellTablesGrow
<1>2. H \in Seq(SUBSET Nat)
  BY SizesAre
<1>. DEFINE V == {Holders(ds, g, v) : v \in Nat}
            W == SUBSET Nat
<1>3. K \in Seq(V)
  BY FieldTables
<1>4. CellHolders(ds, Append(o, g)) = H \o K
  BY <1>1 DEF TablesGrow
<1>. HIDE DEF H, K, V, W
<1>5. Len(H \o K) = Len(H) + Len(K) /\ Len(H) \in Nat /\ Len(K) \in Nat
  <2>1. \A X, Y : X \subseteq Y => Seq(X) \subseteq Seq(Y)
    OBVIOUS
  <2>2. V \subseteq V \union W /\ W \subseteq V \union W
    OBVIOUS
  <2>3. H \in Seq(V \union W) /\ K \in Seq(V \union W)
    BY <1>2, <1>3, <2>1, <2>2 DEF W
  <2>. QED BY <2>3
<1>. QED BY <1>1, <1>4, <1>5 DEF H, K

(* EmitField keeps that.                                                   *)
LEMMA EmitFieldEmits ==
  ASSUME IsBatch(docs), NEW o, EmittedIn(o), NEW g, EmitField(g)
  PROVE  EmittedIn(Append(o, g))'
<1>. DEFINE F == FieldsOf(docs)
            D == DOMAIN acc
            S == F \ D
            more == Append(o, g)
            H == CellHolders(docs, o)
            K == FieldHolders(docs, g)
            c == BytesOfEntries(docs)
            A == AddUp(BytesOf(docs), F)
            B == AddUp(c, S)
            E == Len(FlattenSeq(CellEntries(docs, o)))
<1>1. /\ g \in D /\ D \subseteq F /\ g \in F /\ g \notin S
      /\ docs' = docs /\ acc' = Restrict(acc, D \ {g})
      /\ acc[g] = Gathered(docs, g)
      /\ PartOf(seg, docs, o, S)
  <2>1. acc = [f \in D |-> Gathered(docs, f)]
    BY DEF EmittedIn
  <2>. QED BY <2>1 DEF EmittedIn, EmitField
<1>2. /\ seg' = MoreOf(seg, docs, o, g)
      /\ size' = size + Len(K) * PostingListHeaderSize + DataSize(K)
  BY <1>1, FieldEmits
<1>3. PartOf(seg', docs, more, S \union {g})
  BY <1>1, <1>2, PartGrows
<1>4. acc' = [f \in D \ {g} |-> Gathered(docs, f)]
  <2>1. acc' = [f \in D \ {g} |-> acc[f]]
    BY <1>1 DEF Restrict
  <2>2. \A f \in D : acc[f] = Gathered(docs, f)
    BY DEF EmittedIn
  <2>. QED BY <2>1, <2>2
<1>5. /\ seg.freqs = FlattenSeq(CellEntries(docs, o)) /\ seg.lists = H
      /\ o \in Seq(F)
  BY <1>1, PartSays
<1>6. /\ seg'.freqs = FlattenSeq(CellEntries(docs, more)) /\ seg'.lists = CellHolders(docs, more)
  BY <1>3, PartSays
<1>7. /\ Len(CellHolders(docs, more)) = Len(H) + Len(K)
      /\ Len(H) \in Nat /\ Len(K) \in Nat
      /\ Len(FlattenSeq(CellEntries(docs, more))) = E + Occurrences(docs, g)
      /\ E \in Nat
      /\ DataSize(CellHolders(docs, more)) = DataSize(H) + DataSize(K)
      /\ DataSize(H) \in Nat /\ DataSize(K) \in Nat
  <2>1. TablesGrow(docs, o, g, more) /\ Len(CellHolders(docs, more)) = Len(H) + Len(K)
        /\ Len(H) \in Nat /\ Len(K) \in Nat
    BY <1>1, <1>5, FieldGrows
  <2>. QED BY <2>1 DEF TablesGrow
<1>8. AddUp(c, S \union {g}) = B + c[g] /\ B \in Nat /\ A \in Nat
      /\ c[g] = Occurrences(docs, g) * TokenFrequencyEntrySize
  <2>1. /\ IsFiniteSet(F) /\ Counted(c, F) /\ Counted(BytesOf(docs), F)
    BY BytesAre
  <2>2. IsFiniteSet(S)
    BY <2>1, FS_Subset
  <2>3. Counted(c, S) /\ c[g] \in Nat
    BY <1>1, <2>1 DEF Counted
  <2>4. c[g] = Occurrences(docs, g) * TokenFrequencyEntrySize
    BY <1>1 DEF BytesOfEntries, EntryBytes
  <2>. HIDE DEF c, S, F
  <2>5. A \in Nat
    BY <2>1, AddUpSteps
  <2>6. AddUp(c, S \union {g}) = B + c[g] /\ B \in Nat
    BY <1>1, <2>2, <2>3, AddUpSteps
  <2>. QED BY <2>4, <2>5, <2>6
<1>9. /\ size = HeaderSize + Len(docs) * DocumentIdSize + A
                  + Len(H) * PostingListHeaderSize + DataSize(H)
      /\ E * TokenFrequencyEntrySize = B
  BY <1>5 DEF EmittedIn
<1>10. Len(docs) \in Nat /\ Occurrences(docs, g) \in Nat
  BY OccurrencesAre DEF IsBatch
<1>11. F \ DOMAIN acc' = S \union {g} /\ DOMAIN acc' \subseteq F
       /\ acc' = [f \in DOMAIN acc' |-> Gathered(docs, f)]
  <2>1. DOMAIN acc' = D \ {g}
    BY <1>4
  <2>. QED BY <1>1, <1>4, <2>1
<1>. HIDE DEF A, B, E, H, K, c, S, D, F, more
<1>12. size' = HeaderSize + Len(docs) * DocumentIdSize + A
                 + Len(CellHolders(docs, more)) * PostingListHeaderSize
                 + DataSize(CellHolders(docs, more))
  <2>. DEFINE n == Len(docs)
              x == Len(H)
              y == Len(K)
              u == DataSize(H)
              v == DataSize(K)
  <2>1. n \in Nat /\ x \in Nat /\ y \in Nat /\ u \in Nat /\ v \in Nat /\ A \in Nat
    BY <1>7, <1>8, <1>10
  <2>2. size' = (56 + n * 136 + A + x * 16 + u) + y * 16 + v
    BY <1>2, <1>9 DEF HeaderSize, DocumentIdSize, PostingListHeaderSize, K
  <2>3. Len(CellHolders(docs, more)) = x + y /\ DataSize(CellHolders(docs, more)) = u + v
    BY <1>7
  <2>. HIDE DEF n, x, y, u, v
  <2>4. size' = 56 + n * 136 + A + (x + y) * 16 + (u + v)
    BY <2>1, <2>2
  <2>. QED BY <2>3, <2>4 DEF HeaderSize, DocumentIdSize, PostingListHeaderSize, n
<1>13. Len(FlattenSeq(CellEntries(docs, more))) * TokenFrequencyEntrySize
         = AddUp(c, S \union {g})
  <2>. DEFINE k == Occurrences(docs, g)
  <2>1. k \in Nat /\ E \in Nat /\ E * 8 = B /\ AddUp(c, S \union {g}) = B + k * 8
    BY <1>7, <1>8, <1>9, <1>10 DEF TokenFrequencyEntrySize
  <2>2. Len(FlattenSeq(CellEntries(docs, more))) = E + k
    BY <1>7
  <2>. HIDE DEF k
  <2>3. (E + k) * 8 = B + k * 8
    BY <2>1
  <2>. QED BY <2>1, <2>2, <2>3 DEF TokenFrequencyEntrySize
<1>14. /\ size' = HeaderSize + Len(docs) * DocumentIdSize + A
                   + Len(seg'.lists) * PostingListHeaderSize + DataSize(seg'.lists)
       /\ Len(seg'.freqs) * TokenFrequencyEntrySize = AddUp(c, F \ DOMAIN acc')
       /\ PartOf(seg', docs, more, F \ DOMAIN acc')
  BY <1>3, <1>6, <1>11, <1>12, <1>13
<1>. QED BY <1>1, <1>11, <1>14 DEF EmittedIn, A, c, F, more
-----------------------------------------------------------------------------
(***************************************************************************)
(* The inductive invariant.                                                *)
(***************************************************************************)
(* The file that is written from these tables, its blocks in the order r.  *)
HeaderOf(s) ==
  [docs |-> Len(s.ids), fields |-> Cardinality(DOMAIN s.fields),
   lists |-> Len(s.lists), data |-> DataSize(s.lists), freqs |-> Len(s.freqs)]
HeadsOf(s) ==
  [k \in DOMAIN s.lists |-> [offset |-> DataSize(SubSeq(s.lists, 1, k - 1)),
                             length |-> BitmapSize(s.lists[k])]]
BlocksOf(s, r) == [k \in DOMAIN r |-> BlockOf(r[k], s.fields[r[k]])]
LengthOf(s, r) == 1 + Len(s.ids) + Len(s.freqs) + Len(r)
BodyOf(s, r, p, d) == FileOf(<<HeaderOf(s)>>, s.ids, s.freqs, BlocksOf(s, r), p, d)
DiskOf(s, r, n) ==
  [NoSuchFile EXCEPT
     !.header = Front1(<<HeaderOf(s)>>, n),
     !.ids    = Front1(s.ids, n - 1),
     !.freqs  = Front1(s.freqs, n - 1 - Len(s.ids)),
     !.fields = Front1(BlocksOf(s, r), n - 1 - Len(s.ids) - Len(s.freqs))]

(* It is written from the tables of the storage.                           *)
LEMMA TablesOf ==
  /\ Header = HeaderOf(seg) /\ Heads = HeadsOf(seg) /\ Blocks = BlocksOf(seg, order)
  /\ StreamLength = LengthOf(seg, order)
  /\ \A p, d : Body(p, d) = BodyOf(seg, order, p, d)
  /\ \A n : OnDisk(n) = DiskOf(seg, order, n)
<1>1. Header = HeaderOf(seg)
  BY DEF Header, HeaderOf
<1>2. Heads = HeadsOf(seg)
  BY DEF Heads, HeadsOf, HeadOf
<1>3. Blocks = BlocksOf(seg, order)
  BY DEF Blocks, BlocksOf
<1>4. StreamLength = LengthOf(seg, order)
  BY DEF StreamLength, LengthOf
<1>5. \A p, d : Body(p, d) = BodyOf(seg, order, p, d)
  BY <1>1, <1>3 DEF Body, BodyOf
<1>6. ASSUME NEW n PROVE OnDisk(n) = DiskOf(seg, order, n)
  <2>1. OnDisk(n) = [NoSuchFile EXCEPT
          !.header = Front1(<<Header>>, n), !.ids = Front1(seg.ids, n - 1),
          !.freqs  = Front1(seg.freqs, n - 1 - Len(seg.ids)),
          !.fields = Front1(Blocks, n - 1 - Len(seg.ids) - Len(seg.freqs))]
    BY DEF OnDisk, Blocks
  <2>2. DiskOf(seg, order, n) = [NoSuchFile EXCEPT
          !.header = Front1(<<HeaderOf(seg)>>, n), !.ids = Front1(seg.ids, n - 1),
          !.freqs  = Front1(seg.freqs, n - 1 - Len(seg.ids)),
          !.fields = Front1(BlocksOf(seg, order), n - 1 - Len(seg.ids) - Len(seg.freqs))]
    BY DEF DiskOf
  <2>. QED BY <1>1, <1>3, <2>1, <2>2
<1>. QED BY <1>1, <1>2, <1>3, <1>4, <1>5, <1>6

(* What BuildFrom leaves, and Load: the tables of the documents, and after *)
(* BuildFrom the bytes of their file in Size.                              *)
Base(o) ==
  /\ Lays(o)
  /\ reloaded \in BOOLEAN
  /\ size \in Nat
  /\ ~reloaded => size = SavedBytes(docs, o)

Counters ==
  /\ spilled \in 0 .. LengthOf(seg, order)
  /\ written \in 0 .. 2 * Len(seg.lists)
  /\ at \in Nat /\ Len(pending) \in Nat
  /\ at + Len(pending) <= Len(seg.lists)

(* The stream: nothing is on disk, or a part that is more than the header. *)
Streaming ==
  /\ pc = "stream"
  /\ \/ spilled = 0 /\ file = NoSuchFile
     \/ /\ spilled >= Least(2, LengthOf(seg, order))
        /\ spilled # 0
        /\ file = DiskOf(seg, order, spilled)

(* The lists in memory: bitmaps are appended in order, some of them still  *)
(* in the bufio.Writer, and of their headers the first at are in place,    *)
(* the pending ones follow, and the others are zero.                       *)
Writing(o) ==
  /\ pc = "lists" /\ ~reloaded
  /\ file = BodyOf(seg, order, file.heads, file.data)
  /\ file.data \in Seq(SUBSET Nat) /\ queued \in Seq(SUBSET Nat)
  /\ Listing(docs, o, written, file.data \o queued, Total(Sizes(docs, o), written),
             pending, at, file.heads)

(* The mapped lists: the headers in order, then the bitmaps.               *)
Mapping ==
  /\ pc = "lists" /\ reloaded
  /\ pending = << >> /\ queued = << >>
  /\ file = BodyOf(seg, order, Front1(HeadsOf(seg), written),
                   Front1(seg.lists, written - Len(seg.lists)))

Ended(o) ==
  \/ pc = "saved" /\ ~reloaded /\ file = Whole(o)
  \/ pc \in {"loaded", "resaved"} /\ reloaded /\ file = Whole(o)
  \/ pc = "failed" /\ file = NoSuchFile

Saves(o) ==
  /\ Base(o)
  /\ Counters
  /\ Streaming \/ Writing(o) \/ Mapping \/ Ended(o)

(* Nothing is saved yet.                                                   *)
Idle ==
  /\ reloaded = FALSE /\ order = << >> /\ spilled = 0 /\ written = 0
  /\ pending = << >> /\ at = 0

IInv ==
  /\ docs \in Inputs
  /\ next \in 0 .. Len(docs)
  /\ \/ pc = "add" /\ Idle /\ Added
     \/ pc = "emit" /\ Idle /\ \E o : EmittedIn(o)
     \/ \E o : Saves(o)

(* The tables stay as they are while they are saved.                       *)
LEMMA BaseStays ==
  ASSUME NEW o, Base(o), UNCHANGED <<docs, seg, size, reloaded, order>>
  PROVE  Base(o)'
BY DEF Base, Lays

(* What the sizes of the tables are.                                       *)
LEMMA SizesOf ==
  ASSUME IsBatch(docs), NEW o, Lays(o)
  PROVE  /\ LengthOf(seg, order) \in Nat \ {0}
         /\ Len(seg.lists) = Len(Cells(docs, o)) /\ Len(seg.lists) \in Nat
         /\ DOMAIN seg.lists = 1 .. Len(seg.lists)
         /\ seg.lists \in Seq(SUBSET Nat) /\ seg.lists = CellHolders(docs, o)
         /\ o \in Seq(FieldsOf(docs))
         /\ \A k \in 1 .. Len(seg.lists) : HeadOf(k) = CellHead(docs, o, k)
<1>1. LengthOf(seg, order) \in Nat \ {0}
  BY StreamIs, TablesOf
<1>2. Regions(o)
  BY RegionsAre
<1>3. /\ Len(seg.lists) = Len(Cells(docs, o)) /\ Len(seg.lists) \in Nat
      /\ seg.lists \in Seq(SUBSET Nat) /\ seg.lists = CellHolders(docs, o)
      /\ \A k \in 1 .. Len(seg.lists) : HeadOf(k) = CellHead(docs, o, k)
  BY <1>2 DEF Regions
<1>4. DOMAIN seg.lists = 1 .. Len(seg.lists)
  BY <1>3
<1>5. o \in Seq(FieldsOf(docs))
  BY BatchSets, OrderIsSeq DEF Lays
<1>. QED BY <1>1, <1>3, <1>4, <1>5

(* More of the stream reaches the disk.                                    *)
LEMMA SpillSaves ==
  ASSUME IsBatch(docs), NEW o, Saves(o), NEW n, Spill(n)
  PROVE  Saves(o)'
<1>. DEFINE L == LengthOf(seg, order)
<1>1. L \in Nat \ {0} /\ StreamLength = L /\ OnDisk(n) = DiskOf(seg, order, n)
  BY SizesOf, TablesOf DEF Saves, Base
<1>2. /\ pc = "stream" /\ spilled' = n /\ file' = DiskOf(seg, order, n)
      /\ n \in (IF spilled = 0 THEN Least(2, L) ELSE spilled + 1) .. L
      /\ UNCHANGED <<docs, pc, buildVars, reloaded, order, listVars>>
  BY <1>1 DEF Spill
<1>3. UNCHANGED <<docs, pc, size, seg, reloaded, order, written, pending, at>>
  BY <1>2 DEF buildVars, listVars
<1>4. Streaming /\ Counters /\ Base(o)
  BY <1>2 DEF Saves, Writing, Mapping, Ended
<1>5. spilled \in 0 .. L /\ (spilled = 0 \/ spilled >= Least(2, L))
  BY <1>4 DEF Streaming, Counters
<1>6. n \in 0 .. L /\ n # 0 /\ n >= Least(2, L)
  <2>1. Least(2, L) \in Nat \ {0}
    BY <1>1 DEF Least
  <2>. HIDE DEF L
  <2>2. CASE spilled = 0
    BY <1>1, <1>2, <2>1, <2>2
  <2>3. CASE spilled # 0
    BY <1>1, <1>2, <1>5, <2>1, <2>3
  <2>. QED BY <2>2, <2>3
<1>7. Base(o)'
  BY <1>3, <1>4, BaseStays
<1>8. Counters'
  BY <1>2, <1>3, <1>4, <1>6 DEF Counters
<1>9. Streaming'
  BY <1>2, <1>3, <1>6 DEF Streaming
<1>. QED BY <1>7, <1>8, <1>9 DEF Saves
(* The tables are on disk, and the room for the headers is reserved.       *)
LEMMA StartListsSaves ==
  ASSUME IsBatch(docs), NEW o, Saves(o), StartLists
  PROVE  Saves(o)'
<1>. DEFINE L == LengthOf(seg, order)
            N == Len(seg.lists)
            Z == [k \in DOMAIN seg.lists |-> ZeroHead]
            x == IF reloaded THEN << >> ELSE Z
<1>1. /\ L \in Nat \ {0} /\ StreamLength = L /\ N \in Nat /\ N = Len(Cells(docs, o))
      /\ DOMAIN seg.lists = 1 .. N /\ o \in Seq(FieldsOf(docs))
      /\ seg.lists \in Seq(SUBSET Nat)
      /\ OnDisk(StreamLength) = Body(<< >>, << >>)
      /\ \A p, d : Body(p, d) = BodyOf(seg, order, p, d)
      /\ \A n : OnDisk(n) = DiskOf(seg, order, n)
  BY SizesOf, TablesOf, StreamIs DEF Saves, Base
<1>. HIDE DEF L, N, Z, x
<1>2. /\ pc = "stream" /\ spilled = L /\ pc' = "lists" /\ written' = 0 /\ pending' = << >>
      /\ at' = 0 /\ queued' = << >> /\ file' = PutHeads(file, x)
      /\ UNCHANGED <<docs, buildVars, reloaded, order, spilled>>
  BY <1>1 DEF StartLists, PutHeads, x, Z
<1>3. UNCHANGED <<docs, seg, size, reloaded, order, spilled>>
  BY <1>2 DEF buildVars
<1>4. Streaming /\ Counters /\ Base(o)
  BY <1>2 DEF Saves, Writing, Mapping, Ended
<1>5. file = BodyOf(seg, order, << >>, << >>)
  <2>1. file = DiskOf(seg, order, L)
    BY <1>1, <1>2, <1>4 DEF Streaming
  <2>. QED BY <1>1, <2>1
<1>6. file' = BodyOf(seg, order, x, << >>)
  BY <1>2, <1>5, FileUpdates DEF BodyOf
<1>7. file'.heads = x /\ file'.data = << >>
  BY <1>6 DEF BodyOf, FileOf
<1>8. Base(o)'
  BY <1>3, <1>4, BaseStays
<1>9. Counters'
  <2>1. Len(<< >>) = 0 /\ 0 \in 0 .. 2 * N /\ 0 + 0 <= N
    BY <1>1
  <2>. QED BY <1>2, <1>3, <1>4, <2>1 DEF Counters, N
<1>10. ASSUME reloaded PROVE Mapping'
  <2>1. x = << >>
    BY <1>10 DEF x
  <2>2. HeadsOf(seg) = [k \in 1 .. N |-> HeadsOf(seg)[k]]
    BY <1>1 DEF HeadsOf
  <2>3. seg.lists = [k \in 1 .. N |-> seg.lists[k]]
    BY <1>1
  <2>4. Fronts(HeadsOf(seg), 0, Front1(HeadsOf(seg), 0))
    <3>1. 0 \in Int
      OBVIOUS
    <3>. QED BY ZenonT(60), <1>1, <2>2, <3>1, FrontIs
  <2>5. 0 - N \in Int /\ 0 - N <= 0
    BY <1>1
  <2>6. Fronts(seg.lists, 0 - N, Front1(seg.lists, 0 - N))
    BY ZenonT(60), <1>1, <2>3, <2>5, FrontIs
  <2>7. Front1(HeadsOf(seg), 0) = << >> /\ Front1(seg.lists, 0 - N) = << >>
    BY <2>4, <2>5, <2>6 DEF Fronts
  <2>. QED BY <1>2, <1>3, <1>6, <1>10, <2>1, <2>7 DEF Mapping, N
<1>11. ASSUME ~reloaded PROVE Writing(o)'
  <2>1. x = [k \in 1 .. Len(Cells(docs, o)) |-> ZeroHead]
    BY <1>1, <1>11 DEF x, Z
  <2>2. Listing(docs, o, 0, << >>, 0, << >>, 0, x)
    BY <1>1, <2>1, ListingStarts
  <2>3. Listing(docs, o, 0, << >>, Total(Sizes(docs, o), 0), << >>, 0, x)
    BY <2>2 DEF Listing
  <2>4. << >> \in Seq(SUBSET Nat) /\ << >> \o << >> = << >>
    OBVIOUS
  <2>5. file' = BodyOf(seg', order', file'.heads, file'.data)
    BY <1>3, <1>6, <1>7
  <2>6. file'.data \in Seq(SUBSET Nat) /\ queued' \in Seq(SUBSET Nat)
    BY <1>2, <1>7, <2>4
  <2>7. Listing(docs', o, written', file'.data \o queued', Total(Sizes(docs', o), written'),
                pending', at', file'.heads)
    BY <1>2, <1>3, <1>7, <2>3, <2>4
  <2>8. pc' = "lists" /\ ~reloaded'
    BY <1>2, <1>3, <1>11
  <2>. QED BY <2>5, <2>6, <2>7, <2>8 DEF Writing
<1>12. Mapping' \/ Writing(o)'
  BY <1>10, <1>11
<1>. QED BY <1>8, <1>9, <1>12 DEF Saves

(* The next mapped record.                                                 *)
LEMMA WriteMappedSaves ==
  ASSUME IsBatch(docs), NEW o, Saves(o), WriteMapped
  PROVE  Saves(o)'
<1>. DEFINE N == Len(seg.lists)
            p == Front1(HeadsOf(seg), written + 1)
            d == Front1(seg.lists, written + 1 - N)
<1>1. N \in Nat /\ Heads = HeadsOf(seg)
  BY SizesOf, TablesOf DEF Saves, Base
<1>2. /\ pc = "lists" /\ reloaded /\ written < 2 * N /\ written' = written + 1
      /\ file' = PutData(PutHeads(file, p), d)
      /\ UNCHANGED <<docs, pc, buildVars, reloaded, order, spilled, pending, at, queued>>
  BY <1>1 DEF WriteMapped, PutData, PutHeads, Heads
<1>. HIDE DEF p, d
<1>3. UNCHANGED <<docs, pc, seg, size, reloaded, order, spilled, pending, at, queued>>
  BY <1>2 DEF buildVars
<1>4. Mapping /\ Counters /\ Base(o)
  BY <1>2 DEF Saves, Writing, Streaming, Ended
<1>5. PICK q, e : file = BodyOf(seg, order, q, e)
  BY <1>4 DEF Mapping
<1>6. file' = BodyOf(seg, order, p, d)
  <2>. DEFINE f == PutHeads(file, p)
  <2>1. f = BodyOf(seg, order, p, e)
    BY <1>5, FileUpdates DEF BodyOf
  <2>. HIDE DEF f
  <2>2. file' = PutData(f, d)
    BY <1>2 DEF f
  <2>. QED BY <2>1, <2>2, FileUpdates DEF BodyOf
<1>7. Base(o)'
  BY <1>3, <1>4, BaseStays
<1>8. written \in 0 .. 2 * N
  BY <1>4 DEF Counters, N
<1>9. Counters'
  <2>1. written' \in 0 .. 2 * N
    <3>. HIDE DEF N
    <3>. QED BY <1>1, <1>2, <1>8
  <2>. QED BY <1>3, <1>4, <2>1 DEF Counters, N
<1>10. Mapping'
  <2>1. p = Front1(HeadsOf(seg'), written') /\ d = Front1(seg'.lists, written' - Len(seg'.lists))
    <3>1. seg' = seg /\ written' = written + 1
      BY <1>2, <1>3
    <3>2. p = Front1(HeadsOf(seg), written') /\ d = Front1(seg.lists, written' - Len(seg.lists))
      <4>1. written + 1 - N = written' - N
        BY <1>1, <1>8, <3>1
      <4>. QED BY <3>1, <4>1 DEF p, d, N
    <3>. QED BY <3>1, <3>2
  <2>2. file' = BodyOf(seg', order', p, d)
    BY <1>3, <1>6
  <2>3. pc' = "lists" /\ reloaded' /\ pending' = << >> /\ queued' = << >>
    BY <1>2, <1>3, <1>4 DEF Mapping
  <2>. QED BY <2>1, <2>2, <2>3 DEF Mapping
<1>. QED BY <1>7, <1>9, <1>10 DEF Saves

(* A failed write removes the file.                                        *)
LEMMA SaveFailsSaves ==
  ASSUME IsBatch(docs), NEW o, Saves(o), SaveFails
  PROVE  Saves(o)'
<1>1. /\ pc' = "failed" /\ file' = NoSuchFile
      /\ UNCHANGED <<docs, seg, size, reloaded, order, spilled, written, pending, at>>
  BY DEF SaveFails, buildVars, listVars
<1>2. Base(o)'
  BY <1>1, BaseStays DEF Saves
<1>3. Counters'
  BY <1>1 DEF Saves, Counters
<1>4. Ended(o)'
  BY <1>1 DEF Ended
<1>. QED BY <1>2, <1>3, <1>4 DEF Saves

(* Load gives back the tables.                                             *)
LEMMA ReloadSaves ==
  ASSUME IsBatch(docs), NEW o, Saves(o), Reload
  PROVE  Saves(o)'
<1>1. /\ pc = "saved" /\ pc' = "loaded" /\ reloaded' = TRUE /\ seg' = Load(file)
      /\ size' = IF HeaderOnly(file) THEN 0 ELSE FileSize(file)
      /\ UNCHANGED <<docs, order, spilled, written, pending, at, file>>
  BY DEF Reload, listVars, LoadedSize
<1>2. Counters /\ Base(o) /\ file = Whole(o)
  BY <1>1 DEF Saves, Writing, Mapping, Streaming, Ended
<1>3. /\ Load(Whole(o)) = seg /\ FileSize(Whole(o)) = SavedBytes(docs, o)
      /\ SavedBytes(docs, o) \in Nat
  BY <1>2, WholeLoads DEF Base
<1>4. seg' = seg /\ size' \in Nat
  BY <1>1, <1>2, <1>3
<1>5. Base(o)'
  BY <1>1, <1>2, <1>4 DEF Base, Lays
<1>6. Counters'
  BY <1>1, <1>2, <1>4 DEF Counters
<1>7. Ended(o)'
  BY <1>1, <1>2 DEF Ended, Whole
<1>. QED BY <1>5, <1>6, <1>7 DEF Saves
(* What is known of the headers and of the bitmaps in the file.            *)
LEMMA ListingSays ==
  ASSUME IsBatch(docs), NEW o, Lays(o), Writing(o)
  PROVE  /\ written \in 0 .. Len(seg.lists)
         /\ at \in 0 .. written /\ Len(pending) = written - at
         /\ pending = << >> => at = written
         /\ file.heads = [k \in 1 .. Len(Cells(docs, o)) |->
                            IF k <= at THEN CellHead(docs, o, k) ELSE ZeroHead]
         /\ file.data \o queued = [k \in 1 .. written |-> CellHolders(docs, o)[k]]
         /\ Len(file.data) \in 0 .. written
         /\ file.data = [k \in 1 .. Len(file.data) |-> CellHolders(docs, o)[k]]
<1>. DEFINE N == Len(Cells(docs, o))
            H == CellHolders(docs, o)
            h(k) == CellHead(docs, o, at + k)
            b == Len(file.data)
            d == file.data
            m == written - at
<1>1. N \in Nat /\ Len(seg.lists) = N
  BY SizesOf
<1>2. /\ written \in 0 .. N /\ at \in 0 .. written
      /\ d \o queued = [k \in 1 .. written |-> H[k]]
      /\ pending = [k \in 1 .. m |-> h(k)]
      /\ file.heads = [k \in 1 .. N |-> IF k <= at THEN CellHead(docs, o, k) ELSE ZeroHead]
      /\ d \in Seq(SUBSET Nat) /\ queued \in Seq(SUBSET Nat)
  BY DEF Writing, Listing
<1>3. m \in Nat /\ written \in Nat
  BY <1>2
<1>. HIDE DEF h, H, N
<1>4. Len(pending) = m
  <2>. HIDE DEF m
  <2>1. pending = [k \in 1 .. m |-> pending[k]]
    BY <1>2
  <2>. QED BY <1>3, <2>1, AppendFunction
<1>5. pending = << >> => at = written
  <2>1. Len(<< >>) = 0
    OBVIOUS
  <2>. QED BY <1>2, <1>4, <2>1
<1>6. b \in 0 .. written /\ d = [k \in 1 .. b |-> H[k]]
  <2>. DEFINE x == d \o queued
  <2>. HIDE DEF d
  <2>1. /\ Len(x) = Len(d) + Len(queued) /\ \A k \in 1 .. Len(d) : x[k] = d[k]
        /\ Len(d) \in Nat /\ Len(queued) \in Nat /\ d = [k \in 1 .. Len(d) |-> d[k]]
    <3>. DEFINE V == SUBSET Nat
    <3>1. d \in Seq(V) /\ queued \in Seq(V)
      BY <1>2
    <3>. HIDE DEF V
    <3>2. x = d \o queued
      BY DEF x
    <3>3. /\ Len(x) = Len(d) + Len(queued) /\ \A k \in 1 .. Len(d) : x[k] = d[k]
      BY <3>1, <3>2, CatFollows DEF Follows
    <3>. QED BY <3>1, <3>3
  <2>2. x = [k \in 1 .. written |-> H[k]]
    BY <1>2
  <2>. HIDE DEF x
  <2>3. x = [k \in 1 .. written |-> x[k]]
    BY <2>2
  <2>4. Len(x) = written
    BY <1>3, <2>3, AppendFunction
  <2>5. Len(d) \in 0 .. written
    BY <1>3, <2>1, <2>4
  <2>6. \A k \in 1 .. Len(d) : d[k] = H[k]
    BY <1>3, <2>1, <2>2, <2>5
  <2>7. d = [k \in 1 .. Len(d) |-> H[k]]
    BY <2>1, <2>6
  <2>. QED BY <2>5, <2>7 DEF b, d
<1>. QED BY <1>1, <1>2, <1>4, <1>5, <1>6 DEF N, H

(* The next posting list in memory.                                        *)
LEMMA WriteEntrySaves ==
  ASSUME IsBatch(docs), HeaderBatch \in Nat \ {0}, NEW o, Saves(o), WriteEntry
  PROVE  Saves(o)'
<1>. DEFINE N == Len(seg.lists)
            n == written
            w == Sizes(docs, o)
            list == seg.lists[n + 1]
            head == HeadOf(n + 1)
            batch == Append(pending, head)
            full == Len(batch) >= MaxHeaders
            bytes == Append(queued, list)
            heads == file.heads
            data == file.data
<1>1. /\ N \in Nat /\ N = Len(Cells(docs, o)) /\ seg.lists \in Seq(SUBSET Nat)
      /\ o \in Seq(FieldsOf(docs)) /\ seg.lists = CellHolders(docs, o)
      /\ \A k \in 1 .. N : HeadOf(k) = CellHead(docs, o, k)
  BY SizesOf DEF Saves, Base
<1>2. PICK passed \in BOOLEAN :
        /\ queued' = IF passed THEN << >> ELSE bytes
        /\ file' = [file EXCEPT !.heads = IF full THEN WriteAt(@, at, batch) ELSE @,
                                !.data  = IF passed THEN @ \o bytes ELSE @]
  BY DEF WriteEntry
<1>3. /\ pc = "lists" /\ ~reloaded /\ n < N /\ written' = n + 1
      /\ pending' = IF full THEN << >> ELSE batch
      /\ at' = IF full THEN at + Len(batch) ELSE at
      /\ UNCHANGED <<docs, pc, seg, size, reloaded, order, spilled>>
  BY DEF WriteEntry, Kept, buildVars
<1>. DEFINE heads1 == IF full THEN WriteAt(heads, at, batch) ELSE heads
            data1 == IF passed THEN data \o bytes ELSE data
<1>4. file' = PutData(PutHeads(file, heads1), data1)
  BY <1>2 DEF PutHeads, PutData
<1>5. Writing(o) /\ Counters /\ Base(o) /\ Lays(o)
  BY <1>3 DEF Saves, Streaming, Mapping, Ended, Base
<1>6. /\ file = BodyOf(seg, order, heads, data)
      /\ data \in Seq(SUBSET Nat) /\ queued \in Seq(SUBSET Nat)
      /\ Listing(docs, o, n, data \o queued, Total(w, n), pending, at, heads)
  BY <1>5 DEF Writing
<1>7. n \in Nat /\ n + 1 \in 1 .. N /\ at \in Nat /\ (n + 1) - 1 = n /\ n + 1 \in Nat
  BY <1>1, <1>3, <1>5 DEF Counters
<1>8. list \in SUBSET Nat /\ list = CellHolders(docs, o)[n + 1]
  BY <1>1, <1>7
<1>9. head = [offset |-> Total(w, n), length |-> BitmapSize(list)]
      /\ Total(w, n + 1) = Total(w, n) + BitmapSize(list)
  <2>1. w \in Seq(Nat) /\ Len(w) = N /\ w[n + 1] = BitmapSize(CellHolders(docs, o)[n + 1])
    BY <1>1, <1>7, SizesAre
  <2>2. head = [offset |-> Total(w, (n + 1) - 1), length |-> w[n + 1]]
    BY <1>1, <1>7 DEF CellHead
  <2>3. n + 1 \in 1 .. Len(w)
    BY <1>7, <2>1
  <2>. HIDE DEF w
  <2>4. Total(w, n + 1) = Total(w, (n + 1) - 1) + w[n + 1]
    BY <2>1, <2>3, TotalSteps
  <2>. QED BY <1>7, <1>8, <2>1, <2>2, <2>4
<1>. HIDE DEF N, w, list, head, heads, data, n, full
<1>10. Listing(docs, o, n + 1, Append(data \o queued, list), Total(w, n + 1), batch, at, heads)
  <2>1. n < Len(Cells(docs, o))
    BY <1>1, <1>3
  <2>2. Listing(docs, o, n + 1, Append(data \o queued, list), Total(w, n) + BitmapSize(list),
                Append(pending, [offset |-> Total(w, n), length |-> BitmapSize(list)]), at, heads)
    BY ZenonT(60), <1>1, <1>6, <1>7, <1>8, <2>1, ListingNext
  <2>. QED BY <1>9, <2>2
<1>11. /\ Append(data \o queued, list) = data \o bytes
       /\ bytes \in Seq(SUBSET Nat) /\ data \o bytes \in Seq(SUBSET Nat)
       /\ data1 \o queued' = data \o bytes /\ data1 \in Seq(SUBSET Nat)
       /\ queued' \in Seq(SUBSET Nat)
  <2>1. bytes \in Seq(SUBSET Nat) /\ data \o bytes \in Seq(SUBSET Nat)
        /\ Append(data \o queued, list) = data \o bytes
    <3>. DEFINE V == SUBSET Nat
    <3>1. data \in Seq(V) /\ queued \in Seq(V) /\ list \in V
      BY <1>6, <1>8
    <3>. HIDE DEF V
    <3>. QED BY <3>1 DEF V
  <2>. HIDE DEF bytes
  <2>2. CASE passed
    <3>1. (data \o bytes) \o << >> = data \o bytes
      BY <2>1
    <3>2. << >> \in Seq(SUBSET Nat)
      OBVIOUS
    <3>. QED BY <1>2, <2>1, <2>2, <3>1, <3>2
  <2>3. CASE ~passed
    BY <1>2, <1>6, <2>1, <2>3
  <2>. QED BY <2>2, <2>3
<1>. HIDE DEF bytes, batch, data1, heads1
<1>12. Listing(docs, o, n + 1, data \o bytes, Total(w, n + 1), pending', at', heads1)
  <2>1. Listing(docs, o, n + 1, data \o bytes, Total(w, n + 1), batch, at, heads)
    BY <1>10, <1>11
  <2>2. CASE full
    <3>1. Listing(docs, o, n + 1, data \o bytes, Total(w, n + 1), << >>, at + Len(batch),
                  WriteAt(heads, at, batch))
      BY ZenonT(60), <1>1, <1>7, <2>1, ListingWrites
    <3>. QED BY <1>3, <2>2, <3>1 DEF heads1
  <2>3. CASE ~full
    BY <1>3, <2>1, <2>3 DEF heads1
  <2>. QED BY <2>2, <2>3
<1>13. file' = BodyOf(seg, order, heads1, data1)
  <2>. DEFINE f == PutHeads(file, heads1)
  <2>1. f = BodyOf(seg, order, heads1, data)
    BY <1>6, FileUpdates DEF BodyOf
  <2>. HIDE DEF f
  <2>2. file' = PutData(f, data1)
    BY <1>4 DEF f
  <2>. QED BY <2>1, <2>2, FileUpdates DEF BodyOf
<1>14. file'.heads = heads1 /\ file'.data = data1
  BY <1>13 DEF BodyOf, FileOf
<1>15. Writing(o)'
  <2>1. file' = BodyOf(seg', order', file'.heads, file'.data)
    BY <1>3, <1>13, <1>14
  <2>2. file'.data \in Seq(SUBSET Nat) /\ queued' \in Seq(SUBSET Nat)
    BY <1>11, <1>14
  <2>3. written' = n + 1 /\ docs' = docs
    BY <1>3 DEF n
  <2>4. Listing(docs', o, written', file'.data \o queued', Total(Sizes(docs', o), written'),
                pending', at', file'.heads)
    BY <1>11, <1>12, <1>14, <2>3 DEF w
  <2>5. pc' = "lists" /\ ~reloaded'
    BY <1>3
  <2>. QED BY <2>1, <2>2, <2>4, <2>5 DEF Writing
<1>16. Base(o)'
  BY <1>3, <1>5, BaseStays
<1>17. Counters'
  <2>1. /\ n + 1 \in 0 .. Len(Cells(docs, o)) /\ at' \in 0 .. n + 1
        /\ pending' = [p \in 1 .. (n + 1) - at' |-> CellHead(docs, o, at' + p)]
    BY <1>12 DEF Listing
  <2>. DEFINE m == (n + 1) - at'
  <2>2. m \in Nat /\ at' \in Nat /\ at' + m = n + 1
    <3>1. \A i, j \in Nat : j \in 0 .. i => i - j \in Nat /\ j + (i - j) = i
      OBVIOUS
    <3>2. at' \in 0 .. n + 1 /\ n + 1 \in Nat
      BY <1>7, <2>1
    <3>3. at' \in Nat
      BY <3>2
    <3>. QED BY ONLY <3>1, <3>2, <3>3
  <2>. HIDE DEF m
  <2>3. pending' = [p \in 1 .. m |-> CellHead(docs, o, at' + p)]
    BY <2>1 DEF m
  <2>4. pending' = [p \in 1 .. m |-> pending'[p]]
    BY <2>3
  <2>5. Len(pending') = m
    BY ZenonT(60), <2>2, <2>4, AppendFunction
  <2>6. at' + Len(pending') <= N /\ written' \in 0 .. 2 * N /\ Len(pending') \in Nat
    BY <1>1, <1>3, <1>7, <2>2, <2>5 DEF n
  <2>7. N = Len(seg'.lists) /\ spilled' \in 0 .. LengthOf(seg', order')
    BY <1>3, <1>5 DEF N, Counters
  <2>. QED BY <2>2, <2>6, <2>7 DEF Counters
<1>. QED BY <1>15, <1>16, <1>17 DEF Saves
(* The last headers in memory.                                             *)
LEMMA WriteRestSaves ==
  ASSUME IsBatch(docs), NEW o, Saves(o), WriteRest
  PROVE  Saves(o)'
<1>. DEFINE N == Len(seg.lists)
            n == written
            w == Sizes(docs, o)
            heads == file.heads
            data == file.data
            heads1 == WriteAt(heads, at, pending)
<1>1. /\ N \in Nat /\ N = Len(Cells(docs, o)) /\ o \in Seq(FieldsOf(docs))
  BY SizesOf DEF Saves, Base
<1>2. /\ pc = "lists" /\ pending # << >> /\ pending' = << >> /\ at' = at + Len(pending)
      /\ file' = PutHeads(file, heads1)
      /\ UNCHANGED <<docs, pc, seg, size, reloaded, order, spilled, written, queued>>
  BY DEF WriteRest, PutHeads, buildVars
<1>3. Writing(o) /\ Counters /\ Base(o)
  BY <1>2 DEF Saves, Streaming, Mapping, Ended
<1>4. /\ file = BodyOf(seg, order, heads, data)
      /\ data \in Seq(SUBSET Nat) /\ queued \in Seq(SUBSET Nat)
      /\ Listing(docs, o, n, data \o queued, Total(w, n), pending, at, heads)
      /\ ~reloaded
  BY <1>3 DEF Writing
<1>5. n \in Nat
  BY <1>1, <1>3 DEF Counters
<1>. HIDE DEF N, w, heads, data, heads1, n
<1>6. /\ Listing(docs, o, n, data \o queued, Total(w, n), << >>, at + Len(pending), heads1)
      /\ at + Len(pending) = n
  <2>1. Listing(docs, o, n, data \o queued, Total(w, n), << >>, at + Len(pending),
                WriteAt(heads, at, pending))
    BY ZenonT(60), <1>1, <1>4, <1>5, ListingWrites
  <2>2. at + Len(pending) = n
    <3>1. at \in 0 .. written /\ Len(pending) = written - at /\ written \in Nat
      BY <1>3, <1>5, ListingSays DEF Base, n
    <3>. QED BY <3>1 DEF n
  <2>. QED BY <2>1, <2>2 DEF heads1
<1>7. file' = BodyOf(seg, order, heads1, data)
  BY <1>2, <1>4, FileUpdates DEF BodyOf
<1>8. file'.heads = heads1 /\ file'.data = data
  BY <1>7 DEF BodyOf, FileOf
<1>9. Writing(o)'
  <2>1. file' = BodyOf(seg', order', file'.heads, file'.data)
    BY <1>2, <1>7, <1>8
  <2>2. file'.data \in Seq(SUBSET Nat) /\ queued' \in Seq(SUBSET Nat)
    BY <1>2, <1>4, <1>8
  <2>3. written' = n /\ docs' = docs /\ queued' = queued
    BY <1>2 DEF n
  <2>4. Listing(docs', o, written', file'.data \o queued', Total(Sizes(docs', o), written'),
                pending', at', file'.heads)
    BY <1>2, <1>6, <1>8, <2>3 DEF w
  <2>5. pc' = "lists" /\ ~reloaded'
    BY <1>2, <1>4
  <2>. QED BY <2>1, <2>2, <2>4, <2>5 DEF Writing
<1>10. Base(o)'
  BY <1>2, <1>3, BaseStays
<1>11. Counters'
  <2>1. Len(pending') = 0
    BY <1>2
  <2>2. at \in Nat /\ Len(pending) \in Nat /\ at + Len(pending) <= N
    BY <1>3 DEF Counters, N
  <2>3. at' \in Nat /\ at' + Len(pending') <= N /\ Len(pending') \in Nat
    BY <1>1, <1>2, <2>1, <2>2
  <2>4. N = Len(seg'.lists) /\ spilled' \in 0 .. LengthOf(seg', order')
        /\ written' \in 0 .. 2 * Len(seg'.lists)
    BY <1>2, <1>3 DEF N, Counters
  <2>. QED BY <2>3, <2>4 DEF Counters
<1>. QED BY <1>9, <1>10, <1>11 DEF Saves

(* The file is complete.                                                   *)
LEMMA FinishSaves ==
  ASSUME IsBatch(docs), NEW o, Saves(o), FinishSave
  PROVE  Saves(o)'
<1>. DEFINE N == Len(seg.lists)
            heads == file.heads
            data == file.data
<1>1. /\ N \in Nat /\ N = Len(Cells(docs, o)) /\ o \in Seq(FieldsOf(docs))
      /\ seg.lists \in Seq(SUBSET Nat) /\ DOMAIN seg.lists = 1 .. N
      /\ \A p, d : Body(p, d) = BodyOf(seg, order, p, d)
      /\ Heads = HeadsOf(seg)
  BY SizesOf, TablesOf DEF Saves, Base
<1>2. /\ pc = "lists" /\ pending = << >> /\ queued' = << >>
      /\ pc' = IF reloaded THEN "resaved" ELSE "saved"
      /\ written = (IF reloaded THEN 2 ELSE 1) * N
      /\ file' = PutData(file, data \o queued)
      /\ UNCHANGED <<docs, seg, size, reloaded, order, spilled, written, pending, at>>
  BY DEF FinishSave, PutData, buildVars, AllWritten
<1>3. (Writing(o) \/ Mapping) /\ Counters /\ Base(o) /\ Lays(o)
  BY <1>2 DEF Saves, Streaming, Ended, Base
<1>4. Whole(o) = Body(Heads, seg.lists)
  BY <1>3, BodyLoads
<1>5. ASSUME ~reloaded PROVE file' = Whole(o)
  <2>1. Writing(o) /\ written = N
    BY <1>1, <1>2, <1>3, <1>5 DEF Mapping
  <2>2. /\ at = written
        /\ heads = [k \in 1 .. N |-> IF k <= at THEN CellHead(docs, o, k) ELSE ZeroHead]
        /\ data \o queued = [k \in 1 .. written |-> CellHolders(docs, o)[k]]
    BY <1>1, <1>2, <1>3, <2>1, ListingSays
  <2>3. N \in 0 .. N
    BY <1>1
  <2>. DEFINE M == Len(Cells(docs, o))
              x == data \o queued
  <2>. HIDE DEF heads, N, data
  <2>10. /\ M \in 0 .. M
         /\ heads = [k \in 1 .. M |-> IF k <= M THEN CellHead(docs, o, k) ELSE ZeroHead]
         /\ x = [k \in 1 .. M |-> CellHolders(docs, o)[k]]
    BY <1>1, <2>1, <2>2, <2>3
  <2>. HIDE DEF x
  <2>12. BodySays(o, M, M, heads, x)
    BY ZenonT(60), <1>3, <2>10, ListedBody
  <2>4. heads = Heads
    BY <2>12 DEF BodySays
  <2>11. x = seg.lists
    BY <2>12 DEF BodySays
  <2>5. data \o queued = seg.lists
    BY <2>11 DEF x
  <2>6. file = BodyOf(seg, order, heads, data)
    BY <2>1 DEF Writing, heads, data
  <2>7. file' = BodyOf(seg, order, heads, seg.lists)
    BY <1>2, <2>5, <2>6, FileUpdates DEF BodyOf
  <2>. QED BY <1>1, <1>4, <2>4, <2>7
<1>6. ASSUME reloaded PROVE file' = Whole(o)
  <2>1. Mapping /\ written = 2 * N
    BY <1>2, <1>3, <1>6 DEF Writing
  <2>. DEFINE p == Front1(Heads, written)
              d == Front1(seg.lists, written - N)
  <2>2. file = BodyOf(seg, order, p, d) /\ queued = << >>
    BY <1>1, <2>1 DEF Mapping
  <2>3. Body(p, d) = Whole(o)
    <3>1. 2 * N \in 0 .. 2 * Len(Cells(docs, o)) /\ 2 * N = 2 * Len(Cells(docs, o))
      BY <1>1
    <3>2. Body(Front1(Heads, 2 * N), Front1(seg.lists, 2 * N - Len(Cells(docs, o)))) = Whole(o)
      <4>. HIDE DEF N
      <4>. QED BY ONLY IsBatch(docs), <1>3, <3>1, MappedBody
    <3>. QED BY <1>1, <2>1, <3>2
  <2>4. data = d
    BY <2>2 DEF BodyOf, FileOf
  <2>5. d \in Seq(SUBSET Nat)
    <3>1. written - N = N
      BY <1>1, <2>1
    <3>2. seg.lists = [k \in 1 .. N |-> seg.lists[k]] /\ N \in Int
      BY <1>1
    <3>3. Fronts(seg.lists, N, Front1(seg.lists, N)) /\ Len(seg.lists) = N
      <4>. HIDE DEF N
      <4>. QED BY ZenonT(60), <1>1, <3>2, FrontIs
    <3>4. Front1(seg.lists, N) = seg.lists
      BY <1>1, <3>3 DEF Fronts
    <3>. QED BY <1>1, <3>1, <3>4
  <2>6. data \o queued = d
    <3>. HIDE DEF d
    <3>. QED BY <2>2, <2>4, <2>5
  <2>. HIDE DEF p, d, data
  <2>7. file' = BodyOf(seg, order, p, d)
    BY <1>2, <2>2, <2>6, FileUpdates DEF BodyOf
  <2>. QED BY <1>1, <2>3, <2>7
<1>7. Ended(o)'
  <2>1. Whole(o)' = Whole(o)
    BY <1>2 DEF Whole
  <2>2. file' = Whole(o)'
    BY <1>5, <1>6, <2>1
  <2>3. reloaded \in BOOLEAN /\ reloaded' = reloaded
    BY <1>2, <1>3 DEF Base
  <2>. QED BY <1>2, <2>2, <2>3 DEF Ended
<1>8. Base(o)'
  BY <1>2, <1>3, BaseStays
<1>9. Counters'
  BY <1>2, <1>3 DEF Counters
<1>. QED BY <1>7, <1>8, <1>9 DEF Saves
-----------------------------------------------------------------------------
(***************************************************************************)
(* The other steps.                                                        *)
(***************************************************************************)
(* Every token points into the tables.                                     *)
TokensPoint(s) ==
  \A f \in DOMAIN s.fields : \A k \in DOMAIN s.fields[f].tokens :
    LET t == s.fields[f].tokens[k] IN
    /\ t.list \in 0 .. Len(s.lists) - 1
    /\ t.freq \in 0 .. Len(s.freqs) - t.count

(* A storage that is laid out has all the fields, in their order.          *)
LEMMA PartOfLaid ==
  ASSUME NEW ds, IsBatch(ds), NEW o \in SetToSeqs(FieldsOf(ds))
  PROVE  PartOf(LaidOut(ds, o), ds, o, FieldsOf(ds))
<1>. DEFINE L == LaidOut(ds, o)
            S == FieldsOf(ds)
<1>1. Once(o, S) /\ IsFiniteSet(S)
  <2>1. IsFiniteSet(S)
    BY BatchSets
  <2>2. /\ o \in Seq(S) /\ \A i, j \in 1 .. Len(o) : o[i] = o[j] => i = j
        /\ \A f \in S : \E m \in 1 .. Len(o) : o[m] = f
    BY <2>1, OrderHasAll
  <2>. QED BY <2>1, <2>2 DEF Once
<1>2. ASSUME NEW m \in 1 .. Len(o) PROVE L.fields[o[m]] = FieldAs(ds, o, m)
  <2>. DEFINE f == o[m]
              field == L.fields[f]
  <2>1. f \in S
    BY <1>1 DEF Once
  <2>2. LaidSays(ds, f, field)
    BY <2>1, FieldIsLaid
  <2>3. field.tokens = [k \in 1 .. Cardinality(ValuesOf(ds, f)) |->
                          LaidToken(ds, o, Before(ds, o, m) + k)]
    BY LaidFieldIndexes
  <2>. HIDE DEF field, f
  <2>4. field = FieldAs(ds, o, m)
    BY <2>2, <2>3 DEF LaidSays, FieldAs, f
  <2>. QED BY <2>4 DEF field, f
<1>3. L = [ids    |-> [k \in DOMAIN ds |-> ds[k].id],
           freqs  |-> FlattenSeq(CellEntries(ds, o)),
           lists  |-> [n \in DOMAIN Cells(ds, o) |->
                         Holders(ds, Cells(ds, o)[n].f, Cells(ds, o)[n].v)],
           fields |-> [f \in S |-> LaidField(ds, o, f)]]
  BY LaidOutParts
<1>4. L.fields = [f \in S |-> L.fields[f]]
  BY <1>3
<1>5. [n \in DOMAIN Cells(ds, o) |-> Holders(ds, Cells(ds, o)[n].f, Cells(ds, o)[n].v)]
        = CellHolders(ds, o)
  <2>. DEFINE C == Cells(ds, o)
  <2>1. o \in Seq(S)
    BY <1>1 DEF Once
  <2>2. C \in Seq(Cell(ds))
    BY <2>1, CellsAre
  <2>. HIDE DEF C
  <2>3. DOMAIN C = 1 .. Len(C)
    BY <2>2
  <2>. QED BY <2>3 DEF CellHolders, C
<1>6. L = [ids    |-> [k \in DOMAIN ds |-> ds[k].id],
           freqs  |-> FlattenSeq(CellEntries(ds, o)),
           lists  |-> CellHolders(ds, o),
           fields |-> L.fields]
  <2>. HIDE DEF L
  <2>1. \A a, b, c, d : L = [ids |-> a, freqs |-> b, lists |-> c, fields |-> d]
                          => L = [ids |-> a, freqs |-> b, lists |-> c, fields |-> L.fields]
    OBVIOUS
  <2>. QED BY <1>3, <1>5, <2>1
<1>. HIDE DEF L
<1>7. L = [ids    |-> [k \in DOMAIN ds |-> ds[k].id],
           freqs  |-> FlattenSeq(CellEntries(ds, o)),
           lists  |-> CellHolders(ds, o),
           fields |-> [f \in S |-> L.fields[f]]]
  BY <1>4, <1>6
<1>. QED BY <1>1, <1>2, <1>7 DEF PartOf, L

(* Its tokens point into its tables.                                       *)
LEMMA PartPoints ==
  ASSUME NEW ds, IsBatch(ds), NEW s, NEW o, NEW S, PartOf(s, ds, o, S)
  PROVE  /\ TokensPoint(s)
         /\ Len(s.ids) \in Nat /\ Len(s.freqs) \in Nat /\ Len(s.lists) \in Nat
<1>. DEFINE N == Len(Cells(ds, o))
            E == CellEntries(ds, o)
            w == Lens(E)
            I == [k \in DOMAIN ds |-> ds[k].id]
<1>1. /\ s.freqs = FlattenSeq(E) /\ s.lists = CellHolders(ds, o) /\ DOMAIN s.fields = S
      /\ o \in Seq(FieldsOf(ds)) /\ Once(o, S)
  BY PartSays DEF PartOf
<1>2. /\ N \in Nat /\ Len(s.lists) = N
      /\ E \in Seq(Seq(Entry)) /\ Len(E) = N /\ w \in Seq(Nat) /\ Len(w) = N
  <2>1. /\ N \in Nat /\ Len(CellHolders(ds, o)) = N
    BY <1>1, SizesAre
  <2>. QED BY <1>1, <2>1, CellEntriesAre
<1>3. Len(s.freqs) = Total(w, N) /\ Total(w, N) \in Nat
  <2>1. Len(FlattenSeq(E)) = Total(Lens(E), Len(E))
    <3>. HIDE DEF E
    <3>. QED BY <1>2, FlattenPlaces
  <2>2. N \in 0 .. Len(w)
    BY <1>2
  <2>. HIDE DEF w, N, E
  <2>3. Total(w, N) \in Nat
    BY <1>2, <2>2, TotalSteps
  <2>. QED BY <1>1, <1>2, <2>1, <2>3 DEF w
<1>4. Len(s.ids) \in Nat
  <2>1. Len(ds) \in Nat /\ DOMAIN ds = 1 .. Len(ds)
    BY BatchSets
  <2>2. I = [k \in 1 .. Len(ds) |-> I[k]]
    BY <2>1
  <2>. HIDE DEF I
  <2>3. Len(I) = Len(ds)
    BY <2>1, <2>2, WholeIs
  <2>4. s.ids = I
    <3>1. \A b, d, e, f : s = [ids |-> b, freqs |-> d, lists |-> e, fields |-> f] => s.ids = b
      OBVIOUS
    <3>. QED BY <3>1 DEF PartOf, I
  <2>. QED BY <2>1, <2>3, <2>4
<1>5. ASSUME NEW f \in DOMAIN s.fields, NEW k \in DOMAIN s.fields[f].tokens
      PROVE  LET t == s.fields[f].tokens[k] IN
             /\ t.list \in 0 .. Len(s.lists) - 1
             /\ t.freq \in 0 .. Len(s.freqs) - t.count
  <2>. DEFINE t == s.fields[f].tokens[k]
  <2>1. PICK m \in 1 .. Len(o) : o[m] = f
    BY <1>1 DEF Once
  <2>. DEFINE c == Cardinality(ValuesOf(ds, o[m]))
              b == Before(ds, o, m)
              n == b + k
  <2>2. s.fields[f].tokens = [i \in 1 .. c |-> LaidToken(ds, o, b + i)]
    <3>1. s.fields[f] = FieldAs(ds, o, m)
      BY <2>1 DEF PartOf
    <3>2. FieldAs(ds, o, m).tokens = [i \in 1 .. c |-> LaidToken(ds, o, b + i)]
      BY DEF FieldAs
    <3>. QED BY <3>1, <3>2
  <2>. HIDE DEF t, c, b
  <2>3. k \in 1 .. c /\ t = LaidToken(ds, o, n)
    BY <2>2 DEF t
  <2>4. n \in 1 .. N
    <3>1. m \in 1 .. Len(o) + 1 /\ m + 1 \in 1 .. Len(o) + 1 /\ Len(o) \in Nat
      BY <1>1
    <3>2. /\ b \in Nat /\ Before(ds, o, m + 1) <= N /\ Before(ds, o, m + 1) = b + c
      BY <1>1, <3>1, BeforeIs DEF b, c
    <3>3. c \in Nat
      BY ValuesListed DEF c
    <3>. HIDE DEF N
    <3>. QED BY <1>2, <2>3, <3>2, <3>3
  <2>. HIDE DEF n
  <2>5. t.list = n - 1 /\ t.freq = Total(w, n - 1) /\ t.count = w[n]
    BY <1>1, <2>3, <2>4, CellToken
  <2>6. Total(w, n) = Total(w, n - 1) + w[n] /\ Total(w, n - 1) \in Nat /\ w[n] \in Nat
        /\ Total(w, n) <= Total(w, N)
    <3>. HIDE DEF w, N
    <3>1. n \in 1 .. Len(w) /\ n - 1 \in 0 .. Len(w) /\ n \in Nat /\ N \in Nat
          /\ n <= N /\ N <= Len(w)
      BY <1>2, <2>4
    <3>2. Total(w, n) = Total(w, n - 1) + w[n] /\ Total(w, n - 1) \in Nat
      BY <1>2, <3>1, TotalSteps
    <3>3. Total(w, n) <= Total(w, N)
      BY ZenonT(60), <1>2, <3>1, TotalGrows
    <3>4. w[n] \in Nat
      BY <1>2, <3>1
    <3>. QED BY <3>2, <3>3, <3>4
  <2>. HIDE DEF w, N
  <2>7. t.list \in 0 .. Len(s.lists) - 1
    BY <1>2, <2>4, <2>5
  <2>8. t.freq \in 0 .. Len(s.freqs) - t.count
    <3>. DEFINE x == Total(w, n - 1)
                y == Total(w, n)
                z == Total(w, N)
    <3>1. t.freq = x /\ t.count = w[n] /\ Len(s.freqs) = z /\ z \in Nat
          /\ x \in Nat /\ w[n] \in Nat /\ y = x + w[n] /\ y <= z
      BY <1>3, <2>5, <2>6
    <3>. HIDE DEF x, y, z
    <3>. QED BY <3>1
  <2>. QED BY <2>7, <2>8 DEF t
<1>. QED BY <1>2, <1>3, <1>4, <1>5 DEF TokensPoint

(* So are its tables while they are saved.                                 *)
LEMMA LaidPoints ==
  ASSUME NEW ds, IsBatch(ds), NEW o \in SetToSeqs(FieldsOf(ds)),
         NEW r \in SetToSeqs(FieldsOf(ds))
  PROVE  /\ TokensPoint(LaidOut(ds, o))
         /\ Len(LaidOut(ds, o).lists) \in Nat
         /\ DOMAIN LaidOut(ds, o).fields = FieldsOf(ds)
         /\ LengthOf(LaidOut(ds, o), r) \in Nat
<1>. DEFINE L == LaidOut(ds, o)
<1>1. PartOf(L, ds, o, FieldsOf(ds))
  BY PartOfLaid
<1>. HIDE DEF L
<1>2. /\ TokensPoint(L)
      /\ Len(L.ids) \in Nat /\ Len(L.freqs) \in Nat /\ Len(L.lists) \in Nat
  BY <1>1, PartPoints
<1>3. DOMAIN L.fields = FieldsOf(ds)
  BY <1>1, PartSays
<1>4. Len(r) \in Nat
  <2>1. r \in Seq(FieldsOf(ds))
    BY OrderIsSeq
  <2>. QED BY <2>1
<1>5. LengthOf(L, r) \in Nat
  <2>1. \A i, j, k \in Nat : 1 + i + j + k \in Nat
    OBVIOUS
  <2>2. 1 + Len(L.ids) + Len(L.freqs) + Len(r) \in Nat
    BY ONLY <1>2, <1>4, <2>1
  <2>. QED BY <2>2 DEF LengthOf
<1>. QED BY <1>2, <1>3, <1>5 DEF L
(* The accumulators have all the fields of the documents.                  *)
LEMMA EndAddingEmits ==
  ASSUME IsBatch(docs), Added, EndAdding
  PROVE  EmittedIn(<< >>)'
<1>. DEFINE F == FieldsOf(docs)
            n == Len(docs)
            A == AddUp(BytesOf(docs), F)
            c == BytesOfEntries(docs)
<1>1. /\ next = n /\ pc' = "emit" /\ UNCHANGED <<docs, next, acc, size, seg>>
  BY DEF EndAdding, buildVars
<1>2. Prefix(next) = docs /\ n \in Nat
  <2>1. n \in Nat /\ docs = [k \in 1 .. n |-> docs[k]]
    BY DEF IsBatch
  <2>2. SubSeq(docs, 1, n) = docs
    BY <2>1, WholeIs
  <2>. QED BY <1>1, <2>1, <2>2 DEF Prefix
<1>3. /\ acc = [f \in F |-> Gathered(docs, f)]
      /\ size = HeaderSize + n * DocumentIdSize + A
      /\ seg = [EmptySegment EXCEPT !.ids = Ids]
  BY <1>1, <1>2 DEF Added
<1>4. DOMAIN acc = F /\ acc = [f \in DOMAIN acc |-> Gathered(docs, f)]
  BY <1>3
<1>5. PartOf(seg, docs, << >>, {})
  BY <1>3, PartStarts DEF Ids
<1>6. seg.freqs = << >> /\ seg.lists = << >>
  <2>1. \A x : [EmptySegment EXCEPT !.ids = x]
                  = [ids |-> x, freqs |-> << >>, lists |-> << >>, fields |-> << >>]
    BY DEF EmptySegment
  <2>2. seg = [ids |-> Ids, freqs |-> << >>, lists |-> << >>, fields |-> << >>]
    BY <1>3, <2>1
  <2>. QED BY <2>2
<1>7. Len(seg.lists) = 0 /\ Len(seg.freqs) = 0
  BY <1>6
<1>8. DataSize(seg.lists) = 0
  <2>. DEFINE w == << >>
  <2>1. w \in Seq(Nat) /\ Len(w) = 0 /\ DOMAIN w = 1 .. Len(w)
        /\ \A k \in 1 .. Len(w) : BitmapSize(w[k]) = w[k]
    OBVIOUS
  <2>2. seg.lists = w
    BY <1>6
  <2>. HIDE DEF w
  <2>3. DataSize(w) = Total(w, Len(w))
    BY <2>1, SizesSum
  <2>4. Total(w, 0) = 0
    BY <2>1, TotalSteps
  <2>. QED BY <2>1, <2>2, <2>3, <2>4
<1>9. AddUp(c, {}) = 0 /\ A \in Nat
  <2>1. IsFiniteSet({}) /\ Counted(c, {})
    BY FS_EmptySet DEF Counted
  <2>2. IsFiniteSet(F) /\ Counted(BytesOf(docs), F)
    BY BytesAre
  <2>3. AddUp(c, {}) = 0
    BY <2>1, AddUpSteps
  <2>. HIDE DEF F
  <2>. QED BY <2>2, <2>3, AddUpSteps
<1>10. F \ DOMAIN acc = {}
  BY <1>4
<1>. HIDE DEF A, c
<1>11. size = HeaderSize + Len(docs) * DocumentIdSize + A
                + Len(seg.lists) * PostingListHeaderSize + DataSize(seg.lists)
  <2>1. HeaderSize + n * DocumentIdSize + A \in Nat
    BY <1>2, <1>9 DEF HeaderSize, DocumentIdSize
  <2>. QED BY <1>3, <1>7, <1>8, <2>1 DEF PostingListHeaderSize
<1>12. Len(seg.freqs) * TokenFrequencyEntrySize = AddUp(c, F \ DOMAIN acc)
  <2>1. AddUp(c, F \ DOMAIN acc) = AddUp(c, {})
    BY <1>10
  <2>2. Len(seg.freqs) * TokenFrequencyEntrySize = 0
    BY <1>7 DEF TokenFrequencyEntrySize
  <2>. QED BY <1>9, <2>1, <2>2
<1>13. EmittedIn(<< >>)
  BY <1>4, <1>5, <1>10, <1>11, <1>12 DEF EmittedIn, A, c
<1>. QED BY <1>1, <1>13 DEF EmittedIn

(* When all the fields are emitted, Size is the file's.                    *)
LEMMA AllEmitted ==
  ASSUME IsBatch(docs), NEW o, EmittedIn(o), DOMAIN acc = {}
  PROVE  /\ o \in SetToSeqs(FieldsOf(docs)) /\ seg = LaidOut(docs, o)
         /\ size = SavedBytes(docs, o) /\ size \in Nat
<1>. DEFINE F == FieldsOf(docs)
            A == AddUp(BytesOf(docs), F)
            B == AddUp(BytesOfBlocks(docs), F)
            E == AddUp(BytesOfEntries(docs), F)
            n == Len(docs)
            m == Len(seg.freqs)
            k == Len(seg.lists)
            d == DataSize(seg.lists)
<1>1. F \ DOMAIN acc = F
  OBVIOUS
<1>2. PartOf(seg, docs, o, F)
  BY <1>1 DEF EmittedIn
<1>3. /\ o \in SetToSeqs(F) /\ seg = LaidOut(docs, o)
  BY <1>2, PartEnds
<1>4. /\ seg.freqs = FlattenSeq(CellEntries(docs, o)) /\ seg.lists = CellHolders(docs, o)
      /\ o \in Seq(F)
  BY <1>2, PartSays
<1>5. k = Len(Cells(docs, o))
  BY <1>4, SizesAre
<1>6. size = HeaderSize + n * DocumentIdSize + A + k * PostingListHeaderSize + d
      /\ m * TokenFrequencyEntrySize = E
  BY <1>1 DEF EmittedIn
<1>7. A = B + E /\ B \in Nat /\ E \in Nat
  BY BytesOfBoth
<1>8. SavedBytes(docs, o) = HeaderSize + n * DocumentIdSize + m * TokenFrequencyEntrySize + B
                              + k * PostingListHeaderSize + d
      /\ SavedBytes(docs, o) \in Nat
  BY <1>3, <1>4, <1>5, SavedSize DEF SavedBytes
<1>9. n \in Nat /\ m \in Nat /\ k \in Nat /\ d \in Nat
  <2>1. n \in Nat /\ k \in Nat /\ m \in Nat
    BY <1>2, PartPoints DEF IsBatch
  <2>2. d \in Nat
    <3>. DEFINE w == Sizes(docs, o)
                H == CellHolders(docs, o)
    <3>1. w \in Seq(Nat) /\ DOMAIN H = 1 .. Len(w) /\ \A p \in 1 .. Len(w) : BitmapSize(H[p]) = w[p]
      BY <1>4, SizesAre
    <3>. HIDE DEF w, H
    <3>2. DataSize(H) = Total(w, Len(w))
      BY <3>1, SizesSum
    <3>3. Len(w) \in 0 .. Len(w)
      BY <3>1
    <3>4. Total(w, Len(w)) \in Nat
      BY <3>1, <3>3, TotalSteps
    <3>. QED BY <1>4, <3>2, <3>4 DEF H
  <2>. QED BY <2>1, <2>2
<1>. HIDE DEF A, B, E, n, m, k, d, F
<1>10. size = SavedBytes(docs, o)
  BY <1>6, <1>7, <1>8, <1>9 DEF HeaderSize, DocumentIdSize, TokenFrequencyEntrySize,
                                PostingListHeaderSize
<1>. QED BY <1>3, <1>8, <1>10 DEF F

(* The file is created.                                                    *)
LEMMA CreateFileSaves ==
  ASSUME IsBatch(docs), CreateFile, NEW o,
         \/ pc = "emit" /\ Idle /\ EmittedIn(o)
         \/ Saves(o)
  PROVE  Saves(o)'
<1>1. /\ pc' = "stream" /\ file' = NoSuchFile /\ spilled' = 0
      /\ order' \in SetToSeqs(DOMAIN seg.fields)
      /\ UNCHANGED <<docs, seg, size, reloaded, written, pending, at>>
  BY DEF CreateFile, buildVars, listVars
<1>2. /\ o \in SetToSeqs(FieldsOf(docs)) /\ seg = LaidOut(docs, o)
      /\ reloaded \in BOOLEAN /\ size \in Nat
      /\ ~reloaded => size = SavedBytes(docs, o)
  <2>1. ASSUME Saves(o)
        PROVE  /\ o \in SetToSeqs(FieldsOf(docs)) /\ seg = LaidOut(docs, o)
               /\ reloaded \in BOOLEAN /\ size \in Nat
               /\ ~reloaded => size = SavedBytes(docs, o)
    BY <2>1 DEF Saves, Base, Lays
  <2>2. ASSUME pc = "emit", Idle, EmittedIn(o)
        PROVE  /\ o \in SetToSeqs(FieldsOf(docs)) /\ seg = LaidOut(docs, o)
               /\ reloaded \in BOOLEAN /\ size \in Nat
               /\ ~reloaded => size = SavedBytes(docs, o)
    <3>1. DOMAIN acc = {}
      BY <2>2 DEF CreateFile
    <3>2. /\ o \in SetToSeqs(FieldsOf(docs)) /\ seg = LaidOut(docs, o)
          /\ size = SavedBytes(docs, o) /\ size \in Nat
      BY <2>2, <3>1, AllEmitted
    <3>. QED BY <2>2, <3>2 DEF Idle
  <2>. QED BY <2>1, <2>2
<1>3. order' \in SetToSeqs(FieldsOf(docs))
  BY <1>1, <1>2, PartOfLaid, PartSays
<1>4. Len(seg.lists) \in Nat /\ LengthOf(seg, order') \in Nat
  <2>1. \A r \in SetToSeqs(FieldsOf(docs)) :
           Len(LaidOut(docs, o).lists) \in Nat /\ LengthOf(LaidOut(docs, o), r) \in Nat
    BY <1>2, LaidPoints
  <2>. QED BY <1>2, <1>3, <2>1
<1>5. /\ written \in 0 .. 2 * Len(seg.lists) /\ at \in Nat /\ Len(pending) \in Nat
      /\ at + Len(pending) <= Len(seg.lists)
  <2>1. ASSUME Idle
        PROVE  /\ written \in 0 .. 2 * Len(seg.lists) /\ at \in Nat /\ Len(pending) \in Nat
               /\ at + Len(pending) <= Len(seg.lists)
    <3>1. written = 0 /\ at = 0 /\ Len(pending) = 0
      BY <2>1 DEF Idle
    <3>. QED BY <1>4, <3>1
  <2>. QED BY <2>1 DEF Saves, Counters
<1>6. Base(o)'
  BY <1>1, <1>2, <1>3 DEF Base, Lays
<1>7. Counters'
  <2>1. 0 \in 0 .. LengthOf(seg, order')
    BY <1>4
  <2>. QED BY <1>1, <1>5, <2>1 DEF Counters
<1>8. Streaming'
  BY <1>1 DEF Streaming
<1>. QED BY <1>6, <1>7, <1>8 DEF Saves
(* At first no document is added.                                          *)
LEMMA NothingAdded ==
  ASSUME IsBatch(docs), Init
  PROVE  Added
<1>. DEFINE p == Prefix(0)
<1>1. next = 0 /\ acc = << >> /\ size = HeaderSize /\ seg = [EmptySegment EXCEPT !.ids = Ids]
  BY DEF Init, Ids
<1>2. Len(docs) \in Nat
  BY DEF IsBatch
<1>3. IsBatch(p) /\ Len(p) = 0
  <2>1. 0 \in Nat /\ 0 <= Len(docs)
    BY <1>2
  <2>. QED BY ZenonT(60), <2>1, PrefixGrows DEF Prefix
<1>. HIDE DEF p
<1>4. FieldsOf(p) = {}
  <2>1. DOMAIN p = 1 .. 0
    BY <1>3, BatchSets
  <2>2. 1 .. 0 = {}
    OBVIOUS
  <2>. QED BY <2>1, <2>2 DEF FieldsOf
<1>5. AddUp(BytesOf(p), FieldsOf(p)) = 0
  <2>1. IsFiniteSet(FieldsOf(p)) /\ Counted(BytesOf(p), FieldsOf(p))
    BY <1>3, BytesAre
  <2>. QED BY <1>4, <2>1, AddUpSteps
<1>6. acc = [f \in FieldsOf(p) |-> Gathered(p, f)]
  BY <1>1, <1>4
<1>7. size = HeaderSize + 0 * DocumentIdSize + AddUp(BytesOf(p), FieldsOf(p))
  BY <1>1, <1>5 DEF HeaderSize, DocumentIdSize
<1>8. 0 \in 0 .. Len(docs)
  BY <1>2
<1>. QED BY <1>1, <1>6, <1>7, <1>8 DEF Added, p

(* The documents of a run are a batch.                                     *)
LEMMA DocsAreBatch ==
  ASSUME docs \in Inputs
  PROVE  IsBatch(docs) /\ HeaderBatch \in Nat \ {0}
BY BuilderAssumption

(* What is being saved keeps being saved.                                  *)
LEMMA SavesStays ==
  ASSUME IsBatch(docs), HeaderBatch \in Nat \ {0}, NEW o, Saves(o), [Next]_vars
  PROVE  Saves(o)'
<1>1. pc \notin {"add", "emit"}
  BY DEF Saves, Streaming, Writing, Mapping, Ended
<1>2. CASE AddDocument
  BY <1>1, <1>2 DEF AddDocument
<1>3. CASE EndAdding
  BY <1>1, <1>3 DEF EndAdding
<1>4. CASE \E f \in DOMAIN acc : EmitField(f)
  BY <1>1, <1>4 DEF EmitField
<1>5. CASE CreateFile
  BY <1>5, CreateFileSaves
<1>6. CASE \E n \in 1 .. StreamLength : Spill(n)
  BY <1>6, SpillSaves
<1>7. CASE StartLists
  BY <1>7, StartListsSaves
<1>8. CASE WriteEntry
  BY <1>8, WriteEntrySaves
<1>9. CASE WriteMapped
  BY <1>9, WriteMappedSaves
<1>10. CASE WriteRest
  BY <1>10, WriteRestSaves
<1>11. CASE FinishSave
  BY <1>11, FinishSaves
<1>12. CASE SaveFails
  BY <1>12, SaveFailsSaves
<1>13. CASE Reload
  BY <1>13, ReloadSaves
<1>14. CASE UNCHANGED vars
  <2>1. UNCHANGED <<docs, pc, size, seg, reloaded, order, spilled, written, pending, at, queued, file>>
    BY <1>14 DEF vars, buildVars, listVars
  <2>2. Base(o)'
    BY <2>1, BaseStays DEF Saves
  <2>3. Counters' = Counters
    BY <2>1 DEF Counters
  <2>4. Streaming' = Streaming
    BY <2>1 DEF Streaming
  <2>5. Writing(o)' = Writing(o)
    BY <2>1 DEF Writing
  <2>6. Mapping' = Mapping
    BY <2>1 DEF Mapping
  <2>7. Ended(o)' = Ended(o)
    BY <2>1 DEF Ended, Whole
  <2>. QED BY <2>2, <2>3, <2>4, <2>5, <2>6, <2>7 DEF Saves
<1>. QED BY <1>2, <1>3, <1>4, <1>5, <1>6, <1>7, <1>8, <1>9, <1>10, <1>11, <1>12, <1>13, <1>14 DEF Next

(* The documents stay, and their count.                                    *)
LEMMA DocsStay ==
  ASSUME docs \in Inputs, next \in 0 .. Len(docs), [Next]_vars
  PROVE  docs' = docs /\ docs' \in Inputs /\ next' \in 0 .. Len(docs')
<1>1. Len(docs) \in Nat
  BY DocsAreBatch DEF IsBatch
<1>2. docs' = docs
  BY DEF Next, AddDocument, EndAdding, EmitField, CreateFile, Spill, StartLists, WriteEntry,
         WriteMapped, WriteRest, FinishSave, SaveFails, Reload, vars
<1>3. next' = next \/ AddDocument
  BY DEF Next, EndAdding, EmitField, CreateFile, Spill, StartLists, WriteEntry,
         WriteMapped, WriteRest, FinishSave, SaveFails, Reload, vars, buildVars
<1>4. AddDocument => next' \in 0 .. Len(docs)
  BY <1>1 DEF AddDocument
<1>. QED BY <1>2, <1>3, <1>4

(* The invariant is inductive.                                             *)
LEMMA IInvInductive ==
  ASSUME IInv, [Next]_vars
  PROVE  IInv'
<1>1. docs \in Inputs /\ next \in 0 .. Len(docs)
  BY DEF IInv
<1>2. IsBatch(docs) /\ HeaderBatch \in Nat \ {0}
  BY <1>1, DocsAreBatch
<1>3. docs' = docs /\ docs' \in Inputs /\ next' \in 0 .. Len(docs')
  BY <1>1, DocsStay
<1>4. ASSUME pc = "add", Idle, Added
      PROVE  IInv'
  <2>1. CASE AddDocument
    <3>1. Added'
      BY <1>2, <1>4, <2>1, AddDocumentAdds
    <3>2. pc' = "add" /\ Idle'
      BY <1>4, <2>1 DEF AddDocument, Idle, listVars
    <3>. QED BY <1>3, <3>1, <3>2 DEF IInv
  <2>2. CASE EndAdding
    <3>1. EmittedIn(<< >>)'
      BY <1>2, <1>4, <2>2, EndAddingEmits
    <3>2. pc' = "emit" /\ Idle'
      BY <1>4, <2>2 DEF EndAdding, Idle, listVars
    <3>. QED BY <1>3, <3>1, <3>2 DEF IInv
  <2>3. CASE UNCHANGED vars
    <3>1. UNCHANGED <<docs, pc, next, acc, size, seg, reloaded, order, spilled, written, pending, at>>
      BY <2>3 DEF vars, buildVars, listVars
    <3>2. Added' = Added
      BY <3>1 DEF Added, Prefix, Ids
    <3>3. Idle' = Idle
      BY <3>1 DEF Idle
    <3>. QED BY <1>3, <1>4, <3>1, <3>2, <3>3 DEF IInv
  <2>. QED BY <1>4, <2>1, <2>2, <2>3
           DEF Next, EmitField, CreateFile, Spill, StartLists, WriteEntry, WriteMapped,
               WriteRest, FinishSave, SaveFails, Reload
<1>5. ASSUME pc = "emit", Idle, NEW o, EmittedIn(o)
      PROVE  IInv'
  <2>1. CASE \E f \in DOMAIN acc : EmitField(f)
    <3>1. PICK f \in DOMAIN acc : EmitField(f)
      BY <2>1
    <3>2. EmittedIn(Append(o, f))'
      BY <1>2, <1>5, <3>1, EmitFieldEmits
    <3>3. pc' = "emit" /\ Idle'
      BY <1>5, <3>1 DEF EmitField, Idle, listVars
    <3>. QED BY <1>3, <3>2, <3>3 DEF IInv
  <2>2. CASE CreateFile
    <3>1. Saves(o)'
      BY <1>2, <1>5, <2>2, CreateFileSaves
    <3>. QED BY <1>3, <3>1 DEF IInv
  <2>3. CASE UNCHANGED vars
    <3>1. UNCHANGED <<docs, pc, next, acc, size, seg, reloaded, order, spilled, written, pending, at>>
      BY <2>3 DEF vars, buildVars, listVars
    <3>2. EmittedIn(o)' = EmittedIn(o)
      BY <3>1 DEF EmittedIn
    <3>3. Idle' = Idle
      BY <3>1 DEF Idle
    <3>. QED BY <1>3, <1>5, <3>1, <3>2, <3>3 DEF IInv
  <2>. QED BY <1>5, <2>1, <2>2, <2>3
           DEF Next, AddDocument, EndAdding, Spill, StartLists, WriteEntry, WriteMapped,
               WriteRest, FinishSave, SaveFails, Reload
<1>6. ASSUME NEW o, Saves(o)
      PROVE  IInv'
  <2>1. Saves(o)'
    BY <1>2, <1>6, SavesStays
  <2>. QED BY <1>3, <2>1 DEF IInv
<1>. QED BY <1>4, <1>5, <1>6 DEF IInv
-----------------------------------------------------------------------------
(***************************************************************************)
(* What the invariant says.                                                *)
(***************************************************************************)
(* The type invariant.                                                     *)
LEMMA IInvTyped ==
  ASSUME IInv
  PROVE  TypeOK
<1>1. docs \in Inputs /\ next \in 0 .. Len(docs) /\ IsBatch(docs)
  BY DocsAreBatch DEF IInv
<1>. DEFINE Rest == /\ pc \in {"add", "emit", "stream", "lists", "saved", "loaded", "resaved",
                               "failed"}
                    /\ size \in Nat
                    /\ reloaded \in BOOLEAN
                    /\ spilled \in 0 .. LengthOf(seg, order)
                    /\ written \in 0 .. 2 * Len(seg.lists)
                    /\ at + Len(pending) <= Len(seg.lists)
                    /\ TokensPoint(seg)
<1>2. ASSUME Idle, NEW o, NEW S, PartOf(seg, docs, o, S)
      PROVE  /\ reloaded \in BOOLEAN
             /\ spilled \in 0 .. LengthOf(seg, order)
             /\ written \in 0 .. 2 * Len(seg.lists)
             /\ at + Len(pending) <= Len(seg.lists)
             /\ TokensPoint(seg)
  <2>1. /\ TokensPoint(seg)
        /\ Len(seg.ids) \in Nat /\ Len(seg.freqs) \in Nat /\ Len(seg.lists) \in Nat
    BY <1>1, <1>2, PartPoints
  <2>2. Len(order) = 0 /\ Len(pending) = 0
    BY <1>2 DEF Idle
  <2>3. \A i, j \in Nat : 0 \in 0 .. 1 + i + j + 0
    OBVIOUS
  <2>4. spilled \in 0 .. LengthOf(seg, order)
    BY <1>2, <2>1, <2>2, <2>3 DEF Idle, LengthOf
  <2>5. written \in 0 .. 2 * Len(seg.lists) /\ at + Len(pending) <= Len(seg.lists)
    BY <1>2, <2>1, <2>2 DEF Idle
  <2>. QED BY <1>2, <2>1, <2>4, <2>5 DEF Idle
<1>3. ASSUME pc = "add", Idle, Added PROVE Rest
  <2>1. PartOf(seg, docs, << >>, {})
    BY <1>1, <1>3, PartStarts DEF Added, Ids
  <2>. DEFINE p == Prefix(next)
              A == AddUp(BytesOf(p), FieldsOf(p))
  <2>2. next \in Nat /\ next <= Len(docs)
    BY <1>1 DEF IsBatch
  <2>3. IsBatch(p)
    BY ZenonT(60), <1>1, <2>2, PrefixGrows DEF Prefix
  <2>. HIDE DEF p
  <2>4. A \in Nat
    <3>1. IsFiniteSet(FieldsOf(p)) /\ Counted(BytesOf(p), FieldsOf(p))
      BY <2>3, BytesAre
    <3>. QED BY <3>1, AddUpSteps
  <2>5. size = HeaderSize + next * DocumentIdSize + A
    BY <1>3 DEF Added, p
  <2>. HIDE DEF A
  <2>6. size \in Nat
    BY <2>2, <2>4, <2>5 DEF HeaderSize, DocumentIdSize
  <2>. QED BY <1>2, <1>3, <2>1, <2>6
<1>4. ASSUME pc = "emit", Idle, NEW o, EmittedIn(o) PROVE Rest
  <2>. DEFINE F == FieldsOf(docs)
              A == AddUp(BytesOf(docs), F)
              n == Len(docs)
              k == Len(seg.lists)
              d == DataSize(seg.lists)
  <2>1. PartOf(seg, docs, o, F \ DOMAIN acc)
    BY <1>4 DEF EmittedIn
  <2>2. A \in Nat
    <3>1. IsFiniteSet(F) /\ Counted(BytesOf(docs), F)
      BY <1>1, BytesAre
    <3>. HIDE DEF F
    <3>. QED BY <3>1, AddUpSteps
  <2>3. n \in Nat /\ k \in Nat
    BY <1>1, <2>1, PartPoints DEF IsBatch
  <2>4. d \in Nat
    <3>1. o \in Seq(F) /\ seg.lists = CellHolders(docs, o)
      BY <2>1, PartSays
    <3>. DEFINE w == Sizes(docs, o)
                H == CellHolders(docs, o)
    <3>2. w \in Seq(Nat) /\ DOMAIN H = 1 .. Len(w) /\ \A p \in 1 .. Len(w) : BitmapSize(H[p]) = w[p]
      BY <1>1, <3>1, SizesAre
    <3>. HIDE DEF w, H
    <3>3. DataSize(H) = Total(w, Len(w))
      BY <3>2, SizesSum
    <3>4. Len(w) \in 0 .. Len(w)
      BY <3>2
    <3>5. Total(w, Len(w)) \in Nat
      BY <3>2, <3>4, TotalSteps
    <3>. QED BY <3>1, <3>3, <3>5 DEF H
  <2>5. size = HeaderSize + n * DocumentIdSize + A + k * PostingListHeaderSize + d
    BY <1>4 DEF EmittedIn
  <2>. HIDE DEF A, n, k, d
  <2>6. size \in Nat
    BY <2>2, <2>3, <2>4, <2>5 DEF HeaderSize, DocumentIdSize, PostingListHeaderSize
  <2>. QED BY <1>2, <1>4, <2>1, <2>6
<1>5. ASSUME NEW o, Saves(o) PROVE Rest
  <2>1. Base(o) /\ Counters
    BY <1>5 DEF Saves
  <2>2. pc \in {"stream", "lists", "saved", "loaded", "resaved", "failed"}
    BY <1>5 DEF Saves, Streaming, Writing, Mapping, Ended
  <2>3. TokensPoint(seg)
    BY <1>1, <2>1, LaidPoints DEF Base, Lays
  <2>. QED BY <2>1, <2>2, <2>3 DEF Base, Counters
<1>6. Rest
  BY <1>3, <1>4, <1>5 DEF IInv
<1>7. StreamLength = LengthOf(seg, order)
  BY TablesOf
<1>. QED BY <1>1, <1>6, <1>7 DEF TypeOK, TokensPoint

(* The tables index the documents from the time they are built.            *)
LEMMA IInvIndexes ==
  ASSUME IInv
  PROVE  BuiltIndexes
<1>1. IsBatch(docs)
  BY DocsAreBatch DEF IInv
<1>2. ASSUME pc \notin {"add", "emit"} PROVE Indexes(seg, docs)
  <2>1. PICK o : Saves(o)
    BY <1>2 DEF IInv
  <2>. QED BY <1>1, <2>1, WholeLoads DEF Saves, Base
<1>. QED BY <1>2 DEF BuiltIndexes

(* Size is the length of the file that was saved.                          *)
LEMMA IInvExact ==
  ASSUME IInv
  PROVE  SizeExact
<1>1. IsBatch(docs)
  BY DocsAreBatch DEF IInv
<1>2. ASSUME pc = "saved" PROVE size = FileSize(file)
  <2>1. PICK o : Saves(o)
    BY <1>2 DEF IInv
  <2>2. Base(o) /\ ~reloaded /\ file = Whole(o)
    BY <1>2, <2>1 DEF Saves, Streaming, Writing, Mapping, Ended
  <2>3. size = SavedBytes(docs, o)
    BY <2>2 DEF Base
  <2>4. FileSize(Whole(o)) = SavedBytes(docs, o)
    BY <1>1, <2>2, WholeLoads DEF Base
  <2>. QED BY <2>2, <2>3, <2>4
<1>. QED BY <1>2 DEF SizeExact

(* The file that a crash leaves is rejected, or complete.                  *)
LEMMA IInvRejected ==
  ASSUME IInv
  PROVE  CrashedSaveRejected
<1>1. IsBatch(docs)
  BY DocsAreBatch DEF IInv
<1>2. Load(NoSuchFile) = Rejected
  BY DEF Load, NoSuchFile
<1>3. ASSUME pc \in {"stream", "lists", "saved", "resaved", "failed"}
      PROVE  Load(file) = Rejected \/ Indexes(Load(file), docs)
  <2>1. PICK o : Saves(o)
    BY <1>3 DEF IInv
  <2>. DEFINE N == Len(Cells(docs, o))
  <2>2. Base(o) /\ Counters /\ Lays(o)
    BY <2>1 DEF Saves, Base
  <2>3. Load(Whole(o)) = seg /\ Indexes(seg, docs)
    BY <1>1, <2>2, WholeLoads
  <2>4. /\ StreamLength = LengthOf(seg, order) /\ Heads = HeadsOf(seg)
        /\ \A p, d : Body(p, d) = BodyOf(seg, order, p, d)
        /\ \A n : OnDisk(n) = DiskOf(seg, order, n)
        /\ Len(seg.lists) = N /\ N \in Nat /\ StreamLength \in Nat \ {0}
    BY <1>1, <2>2, TablesOf, SizesOf
  <2>5. Whole(o) = Body(Heads, seg.lists)
    BY <1>1, <2>2, BodyLoads
  <2>. HIDE DEF N
  <2>6. ASSUME NEW a \in 0 .. N, NEW b \in 0 .. N,
               NEW p, p = [k \in 1 .. N |-> IF k <= a THEN CellHead(docs, o, k) ELSE ZeroHead],
               NEW x, x = [k \in 1 .. b |-> CellHolders(docs, o)[k]]
        PROVE  Load(Body(p, x)) = Rejected \/ Body(p, x) = Whole(o)
    <3>1. BodySays(o, a, b, p, x)
      BY ZenonT(60), <1>1, <2>2, <2>6, ListedBody DEF N
    <3>2. CASE a = N /\ b = N
      BY <2>5, <3>1, <3>2 DEF BodySays, N
    <3>3. CASE ~(a = N /\ b = N)
      BY <3>1, <3>3 DEF BodySays, N
    <3>. QED BY <3>2, <3>3
  <2>7. ASSUME Streaming PROVE Load(file) = Rejected \/ file = Whole(o)
    <3>1. CASE spilled = 0
      BY <1>2, <2>7, <3>1 DEF Streaming
    <3>2. CASE spilled # 0
      <4>. DEFINE n == spilled
      <4>1. /\ n >= Least(2, StreamLength) /\ file = OnDisk(n)
            /\ n \in 1 .. StreamLength
        BY <2>2, <2>4, <2>7, <3>2 DEF Streaming, Counters
      <4>2. CASE n # StreamLength
        BY <1>1, <2>2, <4>1, <4>2, StreamIs
      <4>3. CASE n = StreamLength
        <5>1. file = Body(<< >>, << >>)
          BY <1>1, <2>2, <4>1, <4>3, StreamIs
        <5>2. CASE N > 0
          <6>1. Len(<< >>) < N
            BY <5>2
          <6>. QED BY <1>1, <2>2, <5>1, <6>1, BodyLoads DEF N
        <5>3. CASE N = 0
          <6>1. 0 \in 0 .. N /\ 1 .. N = {} /\ 1 .. 0 = {}
            BY <5>3
          <6>2. << >> = [k \in 1 .. N |-> IF k <= 0 THEN CellHead(docs, o, k) ELSE ZeroHead]
            BY <6>1
          <6>3. << >> = [k \in 1 .. 0 |-> CellHolders(docs, o)[k]]
            BY <6>1
          <6>. QED BY <2>6, <5>1, <6>1, <6>2, <6>3
        <5>. QED BY <2>4, <5>2, <5>3
      <4>. QED BY <4>2, <4>3
    <3>. QED BY <3>1, <3>2
  <2>8. ASSUME Writing(o) PROVE Load(file) = Rejected \/ file = Whole(o)
    <3>. DEFINE p == file.heads
                x == file.data
                b == Len(file.data)
    <3>1. /\ at \in 0 .. N /\ b \in 0 .. N
          /\ p = [k \in 1 .. N |-> IF k <= at THEN CellHead(docs, o, k) ELSE ZeroHead]
          /\ x = [k \in 1 .. b |-> CellHolders(docs, o)[k]]
      <4>1. /\ written \in 0 .. Len(seg.lists) /\ at \in 0 .. written /\ b \in 0 .. written
            /\ p = [k \in 1 .. Len(Cells(docs, o)) |->
                      IF k <= at THEN CellHead(docs, o, k) ELSE ZeroHead]
            /\ x = [k \in 1 .. b |-> CellHolders(docs, o)[k]]
        BY <1>1, <2>2, <2>8, ListingSays
      <4>. HIDE DEF p, x, b
      <4>2. at \in 0 .. N /\ b \in 0 .. N
        BY <2>4, <4>1
      <4>. QED BY <4>1, <4>2 DEF N
    <3>2. file = Body(p, x)
      BY <2>4, <2>8 DEF Writing
    <3>. HIDE DEF p, x, b
    <3>. QED BY <2>6, <3>1, <3>2
  <2>9. ASSUME Mapping PROVE Load(file) = Rejected \/ file = Whole(o)
    <3>1. /\ written \in 0 .. 2 * Len(Cells(docs, o))
          /\ file = Body(Front1(Heads, written),
                         Front1(seg.lists, written - Len(Cells(docs, o))))
      BY <2>2, <2>4, <2>9 DEF Mapping, Counters, N
    <3>. QED BY ONLY IsBatch(docs), <1>1, <2>2, <3>1, MappedBody
  <2>10. ASSUME Ended(o) PROVE Load(file) = Rejected \/ file = Whole(o)
    BY <1>2, <2>10 DEF Ended
  <2>11. Load(file) = Rejected \/ file = Whole(o)
    BY <2>1, <2>7, <2>8, <2>9, <2>10 DEF Saves
  <2>. QED BY <2>3, <2>11
<1>. QED BY <1>3 DEF CrashedSaveRejected
-----------------------------------------------------------------------------
(***************************************************************************)
(* The theorems.                                                           *)
(***************************************************************************)
(* In every state of BuildFrom, SaveTo and Load: the inductive invariant.  *)
THEOREM BuildingKeepsPace == Spec => []IInv
<1>1. Init => IInv
  <2>. SUFFICES ASSUME Init PROVE IInv
    OBVIOUS
  <2>1. docs \in Inputs /\ pc = "add" /\ Idle
    BY DEF Init, Idle
  <2>2. IsBatch(docs)
    BY <2>1, DocsAreBatch
  <2>3. Added
    BY <2>2, NothingAdded
  <2>4. next \in 0 .. Len(docs)
    BY <2>3 DEF Added
  <2>. QED BY <2>1, <2>3, <2>4 DEF IInv
<1>2. IInv /\ [Next]_vars => IInv'
  BY IInvInductive
<1>. QED BY <1>1, <1>2, PTL DEF Spec

(* The type invariant of BuildFrom and SaveTo: the counters stay within    *)
(* the tables they count, and whatever the fields that were emitted, every *)
(* token points into the posting lists and the frequencies.                *)
THEOREM CountersStayInTables == Spec => []TypeOK
BY BuildingKeepsPace, IInvTyped, PTL

(* The tables of BuildFrom index the documents it was given, and so do     *)
(* those of Load after SaveTo: whatever the documents and the order in     *)
(* which Go ranges over the accumulators and over the fields.              *)
THEOREM TablesIndexDocuments == Spec => []BuiltIndexes
BY BuildingKeepsPace, IInvIndexes, PTL

(* Storage.Size, which BuildFrom counts one document at a time, is the     *)
(* byte count of the file that SaveTo writes.                              *)
THEOREM SizeIsOfTheFile == Spec => []SizeExact
BY BuildingKeepsPace, IInvExact, PTL

(* A process that dies in SaveTo, of a storage that was built or of one    *)
(* that was loaded, leaves a file that Load rejects or a complete one,     *)
(* wherever the buffers and the batches of headers were cut.               *)
THEOREM NoHalfSavedFile == Spec => []CrashedSaveRejected
BY BuildingKeepsPace, IInvRejected, PTL
=============================================================================
