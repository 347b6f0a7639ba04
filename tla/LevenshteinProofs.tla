--------------------------- MODULE LevenshteinProofs ---------------------------
(***************************************************************************)
(* The fuzzy lookup of Levenshtein is right, for any keyword, any tokens,  *)
(* any distance and any limit: it yields the tokens within the distance,   *)
(* all of them, in ascending order, up to the limit.                       *)
(***************************************************************************)
EXTENDS Levenshtein, SegmentProofs

Words == Seq(Bytes)

-----------------------------------------------------------------------------
(* The order of the tokens.                                                *)

(* a and b share n bytes, after which a ends or has the lower byte.        *)
Parts(a, b, n) ==
  /\ n \in 0 .. Len(a) /\ n < Len(b)
  /\ \A i \in 1 .. n : a[i] = b[i]
  /\ n = Len(a) \/ a[n + 1] < b[n + 1]

(* What a word holds are bytes, and bytes are numbers.                     *)
LEMMA ByteOf ==
  ASSUME NEW a \in Words, NEW i \in 1 .. Len(a)
  PROVE  a[i] \in Bytes /\ a[i] \in Int
  BY LevenshteinAssumption DEF Words, Bytes

(* A word as a function.                                                   *)
LEMMA WordLength ==
  ASSUME NEW a \in Words
  PROVE  /\ Len(a) \in Nat /\ DOMAIN a = 1 .. Len(a)
         /\ a \in [1 .. Len(a) -> Bytes]
  BY DEF Words

(* Two words are equal when they agree byte by byte.                       *)
LEMMA SameWord ==
  ASSUME NEW a \in Words, NEW b \in Words, Len(a) = Len(b),
         \A i \in 1 .. Len(a) : a[i] = b[i]
  PROVE  a = b
  BY SeqEqual DEF Words

(* The first n bytes of a word.                                            *)
LEMMA Taken ==
  ASSUME NEW a \in Words, NEW n \in 0 .. Len(a)
  PROVE  /\ SubSeq(a, 1, n) \in Words /\ Len(SubSeq(a, 1, n)) = n
         /\ \A i \in 1 .. n : SubSeq(a, 1, n)[i] = a[i]
<1>1. 1 \in Int /\ n \in Int /\ \A i \in 1 .. n : a[i] \in Bytes
  BY WordLength, ByteOf
<1>2. /\ SubSeq(a, 1, n) \in Seq(Bytes)
      /\ Len(SubSeq(a, 1, n)) = IF 1 <= n THEN n - 1 + 1 ELSE 0
      /\ \A i \in 1 .. n - 1 + 1 : SubSeq(a, 1, n)[i] = a[1 + i - 1]
  BY <1>1, SubSeqProperties
<1>3. n \in Nat /\ n - 1 + 1 = n
  BY WordLength
<1>4. \A i \in 1 .. n : SubSeq(a, 1, n)[i] = a[i]
  <2>. TAKE i \in 1 .. n
  <2>1. 1 + i - 1 = i
    BY <1>3
  <2>. QED BY <1>2, <1>3, <2>1
<1>. QED BY <1>2, <1>3, <1>4 DEF Words

(* A prefix agrees with the word it begins.                                *)
LEMMA PrefixIs ==
  ASSUME NEW a \in Words, NEW b \in Words
  PROVE  IsPrefix(a, b) <=> /\ Len(a) <= Len(b)
                            /\ \A i \in 1 .. Len(a) : a[i] = b[i]
<1>. SUFFICES ASSUME Len(a) <= Len(b)
              PROVE  SubSeq(a, 1, Len(a)) = SubSeq(b, 1, Len(a))
                       <=> \A i \in 1 .. Len(a) : a[i] = b[i]
  BY DEF IsPrefix
<1>1. Len(a) \in 0 .. Len(a) /\ Len(a) \in 0 .. Len(b)
  BY WordLength
<1>. DEFINE c == SubSeq(a, 1, Len(a))
            d == SubSeq(b, 1, Len(a))
<1>2. /\ c \in Words /\ Len(c) = Len(a) /\ \A i \in 1 .. Len(a) : c[i] = a[i]
      /\ d \in Words /\ Len(d) = Len(a) /\ \A i \in 1 .. Len(a) : d[i] = b[i]
  BY <1>1, Taken
<1>. HIDE DEF c, d
<1>3. (\A i \in 1 .. Len(a) : a[i] = b[i]) => c = d
  BY <1>2, SameWord
<1>4. c = d => \A i \in 1 .. Len(a) : a[i] = b[i]
  BY <1>2
<1>. QED BY <1>3, <1>4 DEF c, d

(* Below, by the position at which two words part.                         *)
LEMMA BelowIs ==
  ASSUME NEW a \in Words, NEW b \in Words
  PROVE  Below(a, b) <=> \E n \in Nat : Parts(a, b, n)
<1>. USE WordLength
<1>1. ASSUME IsStrictPrefix(a, b)
      PROVE  Parts(a, b, Len(a))
  <2>1. Len(a) <= Len(b) /\ \A i \in 1 .. Len(a) : a[i] = b[i]
    BY <1>1, PrefixIs DEF IsStrictPrefix
  <2>2. Len(a) # Len(b)
    BY <2>1, <1>1, SameWord DEF IsStrictPrefix
  <2>. QED BY <2>1, <2>2 DEF Parts
<1>2. ASSUME NEW n \in DOMAIN a \intersect DOMAIN b,
             a[n] < b[n], \A i \in 1 .. n - 1 : a[i] = b[i]
      PROVE  n - 1 \in Nat /\ Parts(a, b, n - 1)
  BY <1>2 DEF Parts
<1>3. ASSUME NEW n \in Nat, Parts(a, b, n)
      PROVE  Below(a, b)
  <2>1. CASE n = Len(a)
    <3>1. IsPrefix(a, b)
      BY <2>1, <1>3, PrefixIs DEF Parts
    <3>2. a # b
      BY <2>1, <1>3 DEF Parts
    <3>. QED BY <3>1, <3>2 DEF Below, IsStrictPrefix
  <2>2. CASE n # Len(a)
    <3>1. /\ n + 1 \in DOMAIN a \intersect DOMAIN b
          /\ a[n + 1] < b[n + 1]
          /\ \A i \in 1 .. (n + 1) - 1 : a[i] = b[i]
      BY <2>2, <1>3 DEF Parts
    <3>. QED BY <3>1 DEF Below
  <2>. QED BY <2>1, <2>2
<1>4. Below(a, b) => \E n \in Nat : Parts(a, b, n)
  BY <1>1, <1>2 DEF Below
<1>. QED BY <1>3, <1>4

(* No word is below itself.                                                *)
LEMMA BelowIrreflexive ==
  ASSUME NEW a \in Words
  PROVE  ~Below(a, a)
<1>. SUFFICES ASSUME NEW n \in Nat, Parts(a, a, n) PROVE FALSE
  BY BelowIs
<1>1. n + 1 \in 1 .. Len(a)
  BY WordLength DEF Parts
<1>2. a[n + 1] \in Int
  BY <1>1, ByteOf
<1>. QED BY <1>1, <1>2, WordLength DEF Parts

(* The order of words is transitive and total.                             *)
LEMMA BelowTransitive ==
  ASSUME NEW a \in Words, NEW b \in Words, NEW c \in Words,
         Below(a, b), Below(b, c)
  PROVE  Below(a, c)
<1>. USE WordLength
<1>1. PICK n \in Nat : Parts(a, b, n)
  BY BelowIs
<1>2. PICK p \in Nat : Parts(b, c, p)
  BY BelowIs
<1>3. ASSUME n < p
      PROVE  Parts(a, c, n)
  <2>1. n + 1 \in 1 .. p /\ n + 1 \in 1 .. Len(b)
    BY <1>1, <1>2, <1>3 DEF Parts
  <2>2. b[n + 1] = c[n + 1]
    BY <2>1, <1>2 DEF Parts
  <2>. QED BY <1>1, <1>2, <1>3, <2>2 DEF Parts
<1>4. ASSUME p < n
      PROVE  Parts(a, c, p)
  <2>1. p + 1 \in 1 .. n /\ p + 1 \in 1 .. Len(a) /\ p # Len(b)
    BY <1>1, <1>2, <1>4 DEF Parts
  <2>2. a[p + 1] = b[p + 1] /\ b[p + 1] < c[p + 1]
    BY <2>1, <1>1, <1>2 DEF Parts
  <2>3. \A i \in 1 .. p : a[i] = c[i]
    BY <1>1, <1>2, <1>4 DEF Parts
  <2>4. p \in 0 .. Len(a) /\ p < Len(c)
    BY <1>1, <1>2, <1>4 DEF Parts
  <2>. QED BY <2>2, <2>3, <2>4 DEF Parts
<1>5. ASSUME n = p
      PROVE  Parts(a, c, n)
  <2>1. \A i \in 1 .. n : a[i] = c[i]
    BY <1>1, <1>2, <1>5 DEF Parts
  <2>2. n \in 0 .. Len(a) /\ n < Len(c) /\ n < Len(b)
    BY <1>1, <1>2, <1>5 DEF Parts
  <2>3. CASE n = Len(a)
    BY <2>1, <2>2, <2>3 DEF Parts
  <2>4. CASE n # Len(a)
    <3>1. n + 1 \in 1 .. Len(a) /\ n + 1 \in 1 .. Len(b) /\ n + 1 \in 1 .. Len(c)
      BY <2>2, <2>4
    <3>2. a[n + 1] \in Int /\ b[n + 1] \in Int /\ c[n + 1] \in Int
      BY <3>1, ByteOf
    <3>3. a[n + 1] < b[n + 1] /\ b[n + 1] < c[n + 1]
      BY <1>1, <1>2, <1>5, <2>2, <2>4 DEF Parts
    <3>. QED BY <2>1, <2>2, <3>2, <3>3 DEF Parts
  <2>. QED BY <2>3, <2>4
<1>6. n < p \/ p < n \/ n = p
  OBVIOUS
<1>7. \E r \in Nat : Parts(a, c, r)
  BY <1>3, <1>4, <1>5, <1>6
<1>. QED BY <1>7, BelowIs

(* Of two different words one is below the other.                          *)
LEMMA BelowTotal ==
  ASSUME NEW a \in Words, NEW b \in Words, a # b
  PROVE  Below(a, b) \/ Below(b, a)
<1>. USE WordLength
<1>. DEFINE D == {n \in Nat : n < Len(a) /\ n < Len(b) /\ a[n + 1] # b[n + 1]}
<1>1. CASE D = {}
  <2>1. \A i \in Nat : 1 <= i /\ i <= Len(a) /\ i <= Len(b) => a[i] = b[i]
    <3>. SUFFICES ASSUME NEW i \in Nat, 1 <= i, i <= Len(a), i <= Len(b)
                  PROVE  a[i] = b[i]
      OBVIOUS
    <3>1. i - 1 \in Nat /\ (i - 1) + 1 = i /\ i - 1 < Len(a) /\ i - 1 < Len(b)
      OBVIOUS
    <3>2. i - 1 \notin D
      BY <1>1
    <3>. QED BY <3>1, <3>2
  <2>2. Len(a) # Len(b)
    BY <2>1, SameWord
  <2>3. Len(a) < Len(b) => Parts(a, b, Len(a))
    BY <2>1 DEF Parts
  <2>4. Len(b) < Len(a) => Parts(b, a, Len(b))
    BY <2>1 DEF Parts
  <2>. QED BY <2>2, <2>3, <2>4, BelowIs
<1>2. CASE D # {}
  <2>1. PICK n \in D : \A p \in D : n <= p
    BY <1>2, NatLeast
  <2>2. \A i \in 1 .. n : a[i] = b[i]
    <3>. SUFFICES ASSUME NEW i \in 1 .. n, a[i] # b[i] PROVE FALSE
      OBVIOUS
    <3>1. i - 1 \in Nat /\ (i - 1) + 1 = i
      BY <2>1
    <3>2. i - 1 \in D
      BY <3>1, <2>1
    <3>. QED BY <3>2, <2>1
  <2>3. n + 1 \in 1 .. Len(a) /\ n + 1 \in 1 .. Len(b)
    BY <2>1
  <2>4. a[n + 1] \in Int /\ b[n + 1] \in Int /\ a[n + 1] # b[n + 1]
    BY <2>1, <2>3, ByteOf
  <2>5. a[n + 1] < b[n + 1] \/ b[n + 1] < a[n + 1]
    BY <2>4
  <2>6. Parts(a, b, n) \/ Parts(b, a, n)
    BY <2>1, <2>2, <2>5 DEF Parts
  <2>. QED BY <2>1, <2>6, BelowIs
<1>. QED BY <1>1, <1>2

-----------------------------------------------------------------------------
(* Edits, seen from the end of the words.                                  *)

(* A word with another byte.                                               *)
LEMMA AppendWord ==
  ASSUME NEW z \in Words, NEW a \in Bytes
  PROVE  /\ Append(z, a) \in Words /\ Len(Append(z, a)) = Len(z) + 1
         /\ \A i \in 1 .. Len(z) : Append(z, a)[i] = z[i]
         /\ Append(z, a)[Len(z) + 1] = a
  BY AppendProperties DEF Words

(* The word and the byte can be told from the result.                      *)
LEMMA AppendSame ==
  ASSUME NEW y \in Words, NEW z \in Words, NEW a \in Bytes, NEW b \in Bytes
  PROVE  Append(y, a) = Append(z, b) <=> y = z /\ a = b
  BY AppendInjective DEF Words

(* A word that is not empty is a word and a byte.                          *)
LEMMA LastByte ==
  ASSUME NEW x \in Words, Len(x) > 0
  PROVE  \E z \in Words, a \in Bytes : x = Append(z, a)
<1>1. x \in Seq(Bytes) /\ x # << >>
  BY DEF Words
<1>. QED BY <1>1, SequenceEmptyOrAppend DEF Words

(* y is x without its byte i; y is x with another byte i.                  *)
Deleted(x, y, i) ==
  /\ i \in 1 .. Len(x) /\ Len(y) = Len(x) - 1
  /\ \A j \in 1 .. Len(y) : y[j] = IF j < i THEN x[j] ELSE x[j + 1]
Replaced(x, y, i) ==
  /\ i \in 1 .. Len(x) /\ Len(y) = Len(x)
  /\ \A j \in 1 .. Len(x) : j # i => y[j] = x[j]

(* The bytes of a word from position p to position n.                      *)
LEMMA Piece ==
  ASSUME NEW x \in Words, NEW p \in Nat, p >= 1, NEW n \in Nat, n <= Len(x), p <= n + 1
  PROVE  /\ SubSeq(x, p, n) \in Words /\ Len(SubSeq(x, p, n)) = n - p + 1
         /\ \A j \in 1 .. n - p + 1 : SubSeq(x, p, n)[j] = x[p + j - 1]
<1>1. p \in Int /\ n \in Int /\ \A i \in p .. n : x[i] \in Bytes
  BY WordLength, ByteOf
<1>2. /\ SubSeq(x, p, n) \in Seq(Bytes)
      /\ Len(SubSeq(x, p, n)) = IF p <= n THEN n - p + 1 ELSE 0
      /\ \A i \in 1 .. n - p + 1 : SubSeq(x, p, n)[i] = x[p + i - 1]
  BY SMTT(30), <1>1, SubSeqProperties
<1>. QED BY <1>2 DEF Words

(* Two words in a row.                                                     *)
LEMMA Joined ==
  ASSUME NEW x \in Words, NEW y \in Words
  PROVE  /\ x \o y \in Words /\ Len(x \o y) = Len(x) + Len(y)
         /\ \A i \in 1 .. Len(x) + Len(y) :
              (x \o y)[i] = IF i <= Len(x) THEN x[i] ELSE y[i - Len(x)]
  BY ConcatProperties DEF Words

(* Without takes one byte away.                                            *)
LEMMA WithoutIs ==
  ASSUME NEW x \in Words, NEW i \in 1 .. Len(x)
  PROVE  Without(x, i) \in Words /\ Deleted(x, Without(x, i), i)
<1>. USE WordLength
<1>. DEFINE p == SubSeq(x, 1, i - 1)
            s == SubSeq(x, i + 1, Len(x))
<1>1. /\ p \in Words /\ Len(p) = i - 1
      /\ \A j \in 1 .. i - 1 : p[j] = x[j]
  <2>1. i - 1 \in 0 .. Len(x)
    OBVIOUS
  <2>. QED BY <2>1, Taken
<1>2. /\ s \in Words /\ Len(s) = Len(x) - i
      /\ \A j \in 1 .. Len(x) - i : s[j] = x[i + j]
  <2>1. /\ i + 1 \in Nat /\ i + 1 >= 1 /\ Len(x) \in Nat /\ Len(x) <= Len(x)
        /\ i + 1 <= Len(x) + 1
    OBVIOUS
  <2>2. /\ s \in Words /\ Len(s) = Len(x) - (i + 1) + 1
        /\ \A j \in 1 .. Len(x) - (i + 1) + 1 : s[j] = x[(i + 1) + j - 1]
    BY <2>1, Piece
  <2>3. Len(x) - (i + 1) + 1 = Len(x) - i
    OBVIOUS
  <2>4. \A j \in 1 .. Len(x) - i : s[j] = x[i + j]
    <3>. TAKE j \in 1 .. Len(x) - i
    <3>1. (i + 1) + j - 1 = i + j
      OBVIOUS
    <3>. HIDE DEF s
    <3>. QED BY <3>1, <2>2, <2>3
  <2>. HIDE DEF s
  <2>. QED BY <2>2, <2>3, <2>4
<1>. HIDE DEF p, s
<1>3. Without(x, i) = p \o s
  BY DEF Without, p, s
<1>4. /\ p \o s \in Words /\ Len(p \o s) = Len(x) - 1
      /\ \A j \in 1 .. Len(x) - 1 :
           (p \o s)[j] = IF j <= i - 1 THEN p[j] ELSE s[j - (i - 1)]
  <2>1. Len(p) + Len(s) = Len(x) - 1 /\ Len(p) = i - 1
    BY <1>1, <1>2
  <2>2. /\ p \o s \in Words /\ Len(p \o s) = Len(p) + Len(s)
        /\ \A j \in 1 .. Len(p) + Len(s) :
             (p \o s)[j] = IF j <= Len(p) THEN p[j] ELSE s[j - Len(p)]
    BY <1>1, <1>2, Joined
  <2>. QED BY <2>1, <2>2
<1>5. \A j \in 1 .. Len(x) - 1 : (p \o s)[j] = IF j < i THEN x[j] ELSE x[j + 1]
  <2>. TAKE j \in 1 .. Len(x) - 1
  <2>1. CASE j < i
    BY <2>1, <1>1, <1>4
  <2>2. CASE ~(j < i)
    <3>1. j - (i - 1) \in 1 .. Len(x) - i /\ i + (j - (i - 1)) = j + 1
      BY <2>2
    <3>2. s[j - (i - 1)] = x[j + 1]
      BY <3>1, <1>2
    <3>. QED BY <2>2, <3>2, <1>4
  <2>. QED BY <2>1, <2>2
<1>. QED BY <1>3, <1>4, <1>5 DEF Deleted

(* The third form of an edit puts one byte in.                             *)
LEMMA InsertedIs ==
  ASSUME NEW x \in Words, NEW i \in 0 .. Len(x), NEW b \in Bytes
  PROVE  LET y == SubSeq(x, 1, i) \o <<b>> \o SubSeq(x, i + 1, Len(x))
         IN  y \in Words /\ Deleted(y, x, i + 1) /\ y[i + 1] = b
<1>. USE WordLength
<1>. DEFINE p == SubSeq(x, 1, i)
            s == SubSeq(x, i + 1, Len(x))
            o == <<b>>
<1>1. /\ p \in Words /\ Len(p) = i
      /\ \A j \in 1 .. i : p[j] = x[j]
  BY Taken
<1>2. /\ s \in Words /\ Len(s) = Len(x) - i
      /\ \A j \in 1 .. Len(x) - i : s[j] = x[i + j]
  <2>1. /\ i + 1 \in Nat /\ i + 1 >= 1 /\ Len(x) \in Nat /\ Len(x) <= Len(x)
        /\ i + 1 <= Len(x) + 1
    OBVIOUS
  <2>2. /\ s \in Words /\ Len(s) = Len(x) - (i + 1) + 1
        /\ \A j \in 1 .. Len(x) - (i + 1) + 1 : s[j] = x[(i + 1) + j - 1]
    BY <2>1, Piece
  <2>3. Len(x) - (i + 1) + 1 = Len(x) - i
    OBVIOUS
  <2>4. \A j \in 1 .. Len(x) - i : s[j] = x[i + j]
    <3>. TAKE j \in 1 .. Len(x) - i
    <3>1. (i + 1) + j - 1 = i + j
      OBVIOUS
    <3>. HIDE DEF s
    <3>. QED BY <3>1, <2>2, <2>3
  <2>. HIDE DEF s
  <2>. QED BY <2>2, <2>3, <2>4
<1>3. o \in Words /\ Len(o) = 1 /\ o[1] = b
  BY DEF Words
<1>. HIDE DEF p, s, o
<1>4. /\ p \o o \in Words /\ Len(p \o o) = i + 1
      /\ \A j \in 1 .. i + 1 : (p \o o)[j] = IF j <= i THEN x[j] ELSE b
  <2>0. /\ p \o o \in Words /\ Len(p \o o) = Len(p) + Len(o)
        /\ \A j \in 1 .. Len(p) + Len(o) :
             (p \o o)[j] = IF j <= Len(p) THEN p[j] ELSE o[j - Len(p)]
    BY <1>1, <1>3, Joined
  <2>1. /\ p \o o \in Words /\ Len(p \o o) = i + 1
        /\ \A j \in 1 .. i + 1 : (p \o o)[j] = IF j <= i THEN p[j] ELSE o[j - i]
    BY <2>0, <1>1, <1>3
  <2>2. \A j \in 1 .. i + 1 : ~(j <= i) => j - i = 1
    OBVIOUS
  <2>3. \A j \in 1 .. i + 1 : j <= i => j \in 1 .. i
    OBVIOUS
  <2>. QED BY <2>1, <2>2, <2>3, <1>1, <1>3
<1>. DEFINE q == p \o o
            y == q \o s
<1>. HIDE DEF q
<1>5. /\ y \in Words /\ Len(y) = Len(x) + 1
      /\ \A j \in 1 .. Len(x) + 1 : y[j] = IF j <= i + 1 THEN q[j] ELSE s[j - (i + 1)]
  <2>1. q \in Words /\ Len(q) = i + 1 /\ Len(q) + Len(s) = Len(x) + 1
    BY <1>2, <1>4 DEF q
  <2>2. /\ q \o s \in Words /\ Len(q \o s) = Len(q) + Len(s)
        /\ \A j \in 1 .. Len(q) + Len(s) :
             (q \o s)[j] = IF j <= Len(q) THEN q[j] ELSE s[j - Len(q)]
    BY <1>2, <2>1, Joined
  <2>. QED BY <2>1, <2>2
<1>. HIDE DEF y
<1>6. y[i + 1] = b
  BY <1>4, <1>5 DEF q
<1>7. \A j \in 1 .. Len(x) : x[j] = IF j < i + 1 THEN y[j] ELSE y[j + 1]
  <2>. TAKE j \in 1 .. Len(x)
  <2>1. CASE j < i + 1
    <3>1. j \in 1 .. i + 1 /\ j <= i /\ j \in 1 .. Len(x) + 1 /\ j <= i + 1
      BY <2>1
    <3>2. y[j] = q[j]
      BY <3>1, <1>5
    <3>3. q[j] = x[j]
      BY <3>1, <1>4 DEF q
    <3>. QED BY <2>1, <3>2, <3>3
  <2>2. CASE ~(j < i + 1)
    <3>1. (j + 1) - (i + 1) \in 1 .. Len(x) - i /\ i + ((j + 1) - (i + 1)) = j
      BY <2>2
    <3>2. s[(j + 1) - (i + 1)] = x[j]
      BY <3>1, <1>2
    <3>3. y[j + 1] = s[(j + 1) - (i + 1)]
      BY <2>2, <1>5
    <3>. QED BY <2>2, <3>2, <3>3
  <2>. QED BY <2>1, <2>2
<1>8. Deleted(y, x, i + 1)
  BY <1>5, <1>7 DEF Deleted
<1>9. y = SubSeq(x, 1, i) \o <<b>> \o SubSeq(x, i + 1, Len(x))
  BY DEF y, q, p, o, s
<1>. QED BY <1>5, <1>6, <1>8, <1>9

(* What one edit of a word may leave of it.                                *)
LEMMA EditsIs ==
  ASSUME NEW x \in Words, NEW y
  PROVE  y \in Edits(x) <=>
           /\ y \in Words
           /\ \E i \in Nat : Deleted(x, y, i) \/ Replaced(x, y, i) \/ Deleted(y, x, i)
<1>. USE WordLength
<1>1. ASSUME y \in Edits(x)
      PROVE  /\ y \in Words
             /\ \E i \in Nat : Deleted(x, y, i) \/ Replaced(x, y, i) \/ Deleted(y, x, i)
  <2>1. CASE y \in {Without(x, i) : i \in DOMAIN x}
    <3>1. PICK i \in 1 .. Len(x) : y = Without(x, i)
      BY <2>1
    <3>. QED BY <3>1, WithoutIs
  <2>2. CASE y \in {[x EXCEPT ![p[1]] = p[2]] : p \in (DOMAIN x) \X Bytes}
    <3>1. PICK i \in 1 .. Len(x), b \in Bytes : y = [x EXCEPT ![i] = b]
      BY <2>2
    <3>2. y \in Words /\ Len(y) = Len(x) /\ \A j \in 1 .. Len(x) : j # i => y[j] = x[j]
      BY <3>1, ExceptSeq DEF Words
    <3>. QED BY <3>2 DEF Replaced
  <2>3. CASE y \in {SubSeq(x, 1, p[1]) \o <<p[2]>> \o SubSeq(x, p[1] + 1, Len(x)) :
                      p \in (0 .. Len(x)) \X Bytes}
    <3>1. PICK i \in 0 .. Len(x), b \in Bytes :
            y = SubSeq(x, 1, i) \o <<b>> \o SubSeq(x, i + 1, Len(x))
      BY <2>3
    <3>2. y \in Words /\ Deleted(y, x, i + 1)
      BY <3>1, InsertedIs
    <3>. QED BY <3>2
  <2>. QED BY <1>1, <2>1, <2>2, <2>3 DEF Edits
<1>2. ASSUME y \in Words, NEW i \in Nat, Deleted(x, y, i)
      PROVE  y \in Edits(x)
  <2>1. i \in 1 .. Len(x)
    BY <1>2 DEF Deleted
  <2>2. Without(x, i) \in Words /\ Deleted(x, Without(x, i), i)
    BY <2>1, WithoutIs
  <2>3. y = Without(x, i)
    BY <1>2, <2>2, SameWord DEF Deleted
  <2>. QED BY <2>1, <2>3 DEF Edits
<1>3. ASSUME y \in Words, NEW i \in Nat, Replaced(x, y, i)
      PROVE  y \in Edits(x)
  <2>1. i \in 1 .. Len(x) /\ y[i] \in Bytes
    BY <1>3, ByteOf DEF Replaced
  <2>. DEFINE z == [x EXCEPT ![i] = y[i]]
  <2>2. z \in Words /\ Len(z) = Len(x)
        /\ \A j \in 1 .. Len(x) : z[j] = IF j = i THEN y[i] ELSE x[j]
    BY <2>1, ExceptSeq DEF Words
  <2>3. \A j \in 1 .. Len(y) : y[j] = z[j]
    BY <1>3, <2>2 DEF Replaced
  <2>4. y = z
    <3>. HIDE DEF z
    <3>. QED BY <1>3, <2>2, <2>3, SameWord DEF Replaced
  <2>5. <<i, y[i]>> \in (DOMAIN x) \X Bytes
    BY <2>1
  <2>6. z \in {[x EXCEPT ![p[1]] = p[2]] : p \in (DOMAIN x) \X Bytes}
    <3>1. z = [x EXCEPT ![<<i, y[i]>>[1]] = <<i, y[i]>>[2]]
      OBVIOUS
    <3>. HIDE DEF z
    <3>. QED BY <2>5, <3>1
  <2>. QED BY <2>4, <2>6 DEF Edits
<1>4. ASSUME y \in Words, NEW i \in Nat, Deleted(y, x, i)
      PROVE  y \in Edits(x)
  <2>1. i \in 1 .. Len(y) /\ Len(x) = Len(y) - 1
    BY <1>4 DEF Deleted
  <2>0. y \in Words
    BY <1>4
  <2>2. i - 1 \in 0 .. Len(x) /\ (i - 1) + 1 = i /\ y[i] \in Bytes
    <3>1. y[i] \in Bytes
      BY <2>0, <2>1, ByteOf
    <3>2. Len(y) \in Nat
      BY <2>0
    <3>. QED BY <2>1, <3>1, <3>2
  <2>. DEFINE z == SubSeq(x, 1, i - 1) \o <<y[i]>> \o SubSeq(x, (i - 1) + 1, Len(x))
  <2>3. z \in Words /\ Deleted(z, x, i) /\ z[i] = y[i]
    <3>1. z \in Words /\ Deleted(z, x, (i - 1) + 1) /\ z[(i - 1) + 1] = y[i]
      BY <2>2, InsertedIs
    <3>. HIDE DEF z
    <3>. QED BY <3>1, <2>2
  <2>4. <<i - 1, y[i]>> \in (0 .. Len(x)) \X Bytes
    BY <2>2
  <2>5. z \in {SubSeq(x, 1, p[1]) \o <<p[2]>> \o SubSeq(x, p[1] + 1, Len(x)) :
                      p \in (0 .. Len(x)) \X Bytes}
    <3>. DEFINE e == <<i - 1, y[i]>>
    <3>1. z = SubSeq(x, 1, e[1]) \o <<e[2]>> \o SubSeq(x, e[1] + 1, Len(x))
      OBVIOUS
    <3>2. e \in (0 .. Len(x)) \X Bytes
      BY <2>4
    <3>. HIDE DEF z, e
    <3>. QED BY <3>1, <3>2
  <2>6. y = z
    <3>. HIDE DEF z
    <3>1. Len(y) = Len(z)
      BY <2>3, <1>4 DEF Deleted
    <3>2. \A j \in 1 .. Len(y) : y[j] = z[j]
      <4>. TAKE j \in 1 .. Len(y)
      <4>1. CASE j < i
        <5>1. j \in 1 .. Len(x)
          BY <4>1, <2>1
        <5>. QED BY <4>1, <5>1, <2>3, <1>4 DEF Deleted
      <4>2. CASE j = i
        BY <4>2, <2>3
      <4>3. CASE j > i
        <5>1. j - 1 \in 1 .. Len(x) /\ (j - 1) + 1 = j /\ ~(j - 1 < i)
          BY <4>3, <2>1
        <5>2. x[j - 1] = y[j] /\ x[j - 1] = z[j]
          BY <5>1, <2>3, <1>4 DEF Deleted
        <5>. QED BY <5>2
      <4>. QED BY <4>1, <4>2, <4>3, <2>1
    <3>. QED BY <2>0, <2>3, <3>1, <3>2, SameWord
  <2>. QED BY <2>5, <2>6 DEF Edits
<1>. QED BY <1>1, <1>2, <1>3, <1>4

(* An edit is at the end of the words, or they end in the same byte.       *)
LEMMA DeletedFromEnd ==
  ASSUME NEW x \in Words, NEW y \in Words, NEW i \in Nat, Deleted(x, y, i)
  PROVE  \/ \E a \in Bytes : x = Append(y, a)
         \/ \E u \in Words, v \in Words, a \in Bytes :
              x = Append(u, a) /\ y = Append(v, a) /\ Deleted(u, v, i)
<1>0. Len(x) \in Nat /\ Len(y) \in Nat
  BY WordLength
<1>1. i \in 1 .. Len(x) /\ Len(y) = Len(x) - 1
  BY DEF Deleted
<1>2. PICK u \in Words, a \in Bytes : x = Append(u, a)
  BY <1>0, <1>1, LastByte
<1>3. /\ Len(u) = Len(y) /\ x[Len(u) + 1] = a /\ Len(u) \in Nat
      /\ \A j \in 1 .. Len(u) : x[j] = u[j]
  <2>1. /\ Len(x) = Len(u) + 1 /\ x[Len(u) + 1] = a
        /\ \A j \in 1 .. Len(u) : x[j] = u[j]
    BY <1>2, AppendWord
  <2>2. Len(u) \in Nat
    BY WordLength
  <2>. QED BY <2>1, <2>2, <1>1
<1>4. CASE i = Len(x)
  <2>1. \A j \in 1 .. Len(y) : u[j] = y[j]
    BY <1>0, <1>1, <1>3, <1>4 DEF Deleted
  <2>2. u = y
    BY <1>3, <2>1, SameWord
  <2>. QED BY <1>2, <2>2
<1>5. CASE i # Len(x)
  <2>1. Len(y) > 0 /\ i <= Len(y)
    BY <1>0, <1>1, <1>5
  <2>2. PICK v \in Words, b \in Bytes : y = Append(v, b)
    BY <2>1, LastByte
  <2>3. /\ Len(y) = Len(v) + 1 /\ y[Len(y)] = b /\ Len(v) \in Nat
        /\ \A j \in 1 .. Len(v) : y[j] = v[j]
    <3>1. Len(v) \in Nat
      BY WordLength
    <3>. QED BY <2>2, <3>1, AppendWord
  <2>4. b = a
    <3>1. Len(y) \in 1 .. Len(y) /\ ~(Len(y) < i)
      BY <1>0, <2>1
    <3>2. y[Len(y)] = x[Len(y) + 1]
      BY <3>1 DEF Deleted
    <3>. QED BY <3>2, <1>3, <2>3
  <2>5. Deleted(u, v, i)
    <3>1. i \in 1 .. Len(u) /\ Len(v) = Len(u) - 1
      BY <1>1, <1>3, <2>1, <2>3
    <3>2. \A j \in 1 .. Len(v) : v[j] = IF j < i THEN u[j] ELSE u[j + 1]
      <4>. TAKE j \in 1 .. Len(v)
      <4>1. j \in 1 .. Len(y) /\ j \in 1 .. Len(u) /\ j + 1 \in 1 .. Len(u)
        BY <1>3, <2>3
      <4>2. y[j] = IF j < i THEN x[j] ELSE x[j + 1]
        BY <4>1 DEF Deleted
      <4>. QED BY <4>1, <4>2, <1>3, <2>3
    <3>. QED BY <3>1, <3>2 DEF Deleted
  <2>. QED BY <1>2, <2>2, <2>4, <2>5
<1>. QED BY <1>4, <1>5

(* An edit is at the last byte, or before it and leaves it as it is.       *)
LEMMA EditsFromEnd ==
  ASSUME NEW x \in Words, NEW y \in Words, y \in Edits(x)
  PROVE  \/ \E a \in Bytes : y = Append(x, a)
         \/ \E a \in Bytes : x = Append(y, a)
         \/ \E z \in Words, a \in Bytes, b \in Bytes : x = Append(z, a) /\ y = Append(z, b)
         \/ \E u \in Words, v \in Words, a \in Bytes :
              x = Append(u, a) /\ y = Append(v, a) /\ v \in Edits(u)
<1>1. PICK i \in Nat : Deleted(x, y, i) \/ Replaced(x, y, i) \/ Deleted(y, x, i)
  BY EditsIs
<1>2. CASE Deleted(x, y, i)
  <2>1. \/ \E a \in Bytes : x = Append(y, a)
        \/ \E u \in Words, v \in Words, a \in Bytes :
             x = Append(u, a) /\ y = Append(v, a) /\ Deleted(u, v, i)
    BY <1>2, DeletedFromEnd
  <2>2. \A u \in Words, v \in Words : Deleted(u, v, i) => v \in Edits(u)
    BY EditsIs
  <2>. QED BY <2>1, <2>2
<1>3. CASE Deleted(y, x, i)
  <2>1. \/ \E a \in Bytes : y = Append(x, a)
        \/ \E u \in Words, v \in Words, a \in Bytes :
             y = Append(u, a) /\ x = Append(v, a) /\ Deleted(u, v, i)
    BY <1>3, DeletedFromEnd
  <2>2. \A u \in Words, v \in Words : Deleted(u, v, i) => u \in Edits(v)
    BY EditsIs
  <2>. QED BY <2>1, <2>2
<1>4. CASE Replaced(x, y, i)
  <2>0. Len(x) \in Nat
    BY WordLength
  <2>1. i \in 1 .. Len(x) /\ Len(y) = Len(x) /\ Len(x) > 0
    BY <1>4, <2>0 DEF Replaced
  <2>2. PICK u \in Words, a \in Bytes : x = Append(u, a)
    BY <2>1, LastByte
  <2>3. PICK v \in Words, b \in Bytes : y = Append(v, b)
    BY <2>1, LastByte
  <2>4. /\ Len(x) = Len(u) + 1 /\ x[Len(u) + 1] = a /\ Len(u) \in Nat
        /\ \A j \in 1 .. Len(u) : x[j] = u[j]
    BY <2>2, AppendWord, WordLength
  <2>5. /\ Len(y) = Len(v) + 1 /\ y[Len(v) + 1] = b /\ Len(v) \in Nat
        /\ \A j \in 1 .. Len(v) : y[j] = v[j]
    BY <2>3, AppendWord, WordLength
  <2>6. CASE i = Len(x)
    <3>1. \A j \in 1 .. Len(u) : u[j] = v[j]
      <4>. TAKE j \in 1 .. Len(u)
      <4>1. j \in 1 .. Len(x) /\ j \in 1 .. Len(v) /\ j # i
        BY <2>1, <2>4, <2>5, <2>6
      <4>. QED BY <4>1, <2>4, <2>5, <1>4 DEF Replaced
    <3>2. u = v
      BY <3>1, <2>1, <2>4, <2>5, SameWord
    <3>. QED BY <2>2, <2>3, <3>2
  <2>7. CASE i # Len(x)
    <3>1. a = b
      <4>1. Len(x) \in 1 .. Len(x) /\ Len(x) # i
        BY <2>1, <2>7
      <4>2. y[Len(x)] = x[Len(x)]
        BY <4>1, <1>4 DEF Replaced
      <4>. QED BY <4>2, <2>1, <2>4, <2>5
    <3>2. Replaced(u, v, i)
      <4>1. i \in 1 .. Len(u) /\ Len(v) = Len(u)
        BY <2>1, <2>4, <2>5, <2>7
      <4>2. \A j \in 1 .. Len(u) : j # i => v[j] = u[j]
        <5>. TAKE j \in 1 .. Len(u)
        <5>1. j \in 1 .. Len(x) /\ j \in 1 .. Len(v)
          BY <2>1, <2>4, <2>5
        <5>. QED BY <5>1, <2>4, <2>5, <1>4 DEF Replaced
      <4>. QED BY <4>1, <4>2 DEF Replaced
    <3>3. v \in Edits(u)
      BY <3>2, EditsIs
    <3>. QED BY <2>2, <2>3, <3>1, <3>3
  <2>. QED BY <2>6, <2>7
<1>. QED BY <1>1, <1>2, <1>3, <1>4

(* Words are still one edit apart when the same byte follows them.         *)
LEMMA DeletedAppend ==
  ASSUME NEW x \in Words, NEW y \in Words, NEW i \in Nat, Deleted(x, y, i), NEW a \in Bytes
  PROVE  Deleted(Append(x, a), Append(y, a), i)
<1>. DEFINE X == Append(x, a)
            Y == Append(y, a)
<1>1. /\ Len(X) = Len(x) + 1 /\ X[Len(x) + 1] = a /\ Len(x) \in Nat
      /\ \A j \in 1 .. Len(x) : X[j] = x[j]
  BY AppendWord, WordLength
<1>2. /\ Len(Y) = Len(y) + 1 /\ Y[Len(y) + 1] = a /\ Len(y) \in Nat
      /\ \A j \in 1 .. Len(y) : Y[j] = y[j]
  BY AppendWord, WordLength
<1>. HIDE DEF X, Y
<1>3. i \in 1 .. Len(x) /\ Len(y) = Len(x) - 1
  BY DEF Deleted
<1>4. i \in 1 .. Len(X) /\ Len(Y) = Len(X) - 1
  BY <1>1, <1>2, <1>3
<1>5. \A j \in 1 .. Len(Y) : Y[j] = IF j < i THEN X[j] ELSE X[j + 1]
  <2>. TAKE j \in 1 .. Len(Y)
  <2>1. CASE j = Len(Y)
    <3>1. ~(j < i) /\ j + 1 = Len(x) + 1 /\ j = Len(y) + 1
      BY <2>1, <1>1, <1>2, <1>3
    <3>. QED BY <3>1, <1>1, <1>2
  <2>2. CASE j # Len(Y)
    <3>1. j \in 1 .. Len(y) /\ j \in 1 .. Len(x) /\ j + 1 \in 1 .. Len(x)
      BY <2>2, <1>2, <1>3
    <3>2. y[j] = IF j < i THEN x[j] ELSE x[j + 1]
      BY <3>1 DEF Deleted
    <3>. QED BY <3>1, <3>2, <1>1, <1>2
  <2>. QED BY <2>1, <2>2
<1>6. Deleted(X, Y, i)
  BY <1>4, <1>5 DEF Deleted
<1>. QED BY <1>6 DEF X, Y

(* Edited words are still one edit apart when a byte follows both.         *)
LEMMA EditsAppend ==
  ASSUME NEW x \in Words, NEW y \in Words, y \in Edits(x), NEW a \in Bytes
  PROVE  Append(y, a) \in Edits(Append(x, a))
<1>1. PICK i \in Nat : Deleted(x, y, i) \/ Replaced(x, y, i) \/ Deleted(y, x, i)
  BY EditsIs
<1>2. Append(x, a) \in Words /\ Append(y, a) \in Words
  BY AppendWord
<1>3. ASSUME Replaced(x, y, i)
      PROVE  Replaced(Append(x, a), Append(y, a), i)
  <2>. DEFINE X == Append(x, a)
              Y == Append(y, a)
  <2>1. /\ Len(X) = Len(x) + 1 /\ X[Len(x) + 1] = a /\ Len(x) \in Nat
        /\ \A j \in 1 .. Len(x) : X[j] = x[j]
    BY AppendWord, WordLength
  <2>2. /\ Len(Y) = Len(y) + 1 /\ Y[Len(y) + 1] = a /\ Len(y) \in Nat
        /\ \A j \in 1 .. Len(y) : Y[j] = y[j]
    BY AppendWord, WordLength
  <2>. HIDE DEF X, Y
  <2>3. i \in 1 .. Len(x) /\ Len(y) = Len(x)
    BY <1>3 DEF Replaced
  <2>4. \A j \in 1 .. Len(X) : j # i => Y[j] = X[j]
    <3>. SUFFICES ASSUME NEW j \in 1 .. Len(X), j # i PROVE Y[j] = X[j]
      OBVIOUS
    <3>1. j \in 1 .. Len(x) \/ j = Len(x) + 1
      BY <2>1
    <3>. QED BY <3>1, <2>1, <2>2, <2>3, <1>3 DEF Replaced
  <2>5. Replaced(X, Y, i)
    BY <2>1, <2>2, <2>3, <2>4 DEF Replaced
  <2>. QED BY <2>5 DEF X, Y
<1>4. Deleted(x, y, i) => Deleted(Append(x, a), Append(y, a), i)
  BY DeletedAppend
<1>5. Deleted(y, x, i) => Deleted(Append(y, a), Append(x, a), i)
  BY DeletedAppend
<1>6. \/ Deleted(Append(x, a), Append(y, a), i) \/ Replaced(Append(x, a), Append(y, a), i)
      \/ Deleted(Append(y, a), Append(x, a), i)
  BY <1>1, <1>3, <1>4, <1>5
<1>. QED BY <1>2, <1>6, EditsIs

(* The edits at the end of a word.                                         *)
LEMMA EditsAtEnd ==
  ASSUME NEW x \in Words, NEW a \in Bytes, NEW b \in Bytes
  PROVE  /\ x \in Edits(Append(x, a))
         /\ Append(x, a) \in Edits(x)
         /\ Append(x, b) \in Edits(Append(x, a))
<1>. DEFINE X == Append(x, a)
            Y == Append(x, b)
<1>1. /\ X \in Words /\ Len(X) = Len(x) + 1 /\ Len(x) \in Nat
      /\ \A j \in 1 .. Len(x) : X[j] = x[j]
  BY AppendWord, WordLength
<1>2. /\ Y \in Words /\ Len(Y) = Len(x) + 1
      /\ \A j \in 1 .. Len(x) : Y[j] = x[j]
  BY AppendWord
<1>. HIDE DEF X, Y
<1>3. Deleted(X, x, Len(x) + 1)
  BY <1>1 DEF Deleted
<1>4. Replaced(X, Y, Len(x) + 1)
  BY <1>1, <1>2 DEF Replaced
<1>5. Len(x) + 1 \in Nat
  BY <1>1
<1>6. x \in Edits(X) /\ X \in Edits(x)
  BY <1>1, <1>3, <1>5, EditsIs
<1>7. Y \in Edits(X)
  BY <1>1, <1>2, <1>4, <1>5, EditsIs
<1>. QED BY <1>6, <1>7 DEF X, Y

-----------------------------------------------------------------------------
(* The words at most n edits away.                                         *)

Grow(B) == B \union UNION {Edits(v) : v \in B}

(* g[r] are the words at most r edits from w.                              *)
Growth(g, w, n) ==
  /\ g \in [0 .. n -> SUBSET Words]
  /\ g[0] = {w}
  /\ \A r \in 1 .. n : g[r] = Grow(g[r - 1])

(* Words stay words.                                                       *)
LEMMA GrowWords ==
  ASSUME NEW B \in SUBSET Words
  PROVE  Grow(B) \in SUBSET Words
<1>1. \A v \in B : \A y \in Edits(v) : y \in Words
  BY EditsIs
<1>. QED BY <1>1 DEF Grow

(* Ball is the last entry of such a function.                              *)
LEMMA BallGrows ==
  ASSUME NEW w \in Words, NEW n \in Nat
  PROVE  \E g : Growth(g, w, n) /\ Ball(w, n) = g[n]
<1>. DEFINE V == SUBSET Words
            step == [p \in V \X (1 .. n) |-> Grow(p[1])]
            base == {w}
<1>1. step \in [V \X (1 .. n) -> V] /\ base \in V
  BY GrowWords
<1>2. \A B \in V : \A i \in 1 .. n : step[<<B, i>>] = Grow(B)
  OBVIOUS
<1>. HIDE DEF V, step, base
<1>20. PICK h : Folding(h, n, V, base, step)
  BY <1>1, FoldExists
<1>3. /\ h \in [SUBSET (1 .. n) -> V]
      /\ \A s \in SUBSET (1 .. n) :
           h[s] = IF s = {} THEN base ELSE step[<<h[s \ {Max(s)}], Max(s)>>]
  BY <1>20 DEF Folding
<1>. DEFINE g == [r \in 0 .. n |-> h[1 .. r]]
<1>4. /\ \A r \in 0 .. n : 1 .. r \in SUBSET (1 .. n)
      /\ 1 .. 0 = {}
  OBVIOUS
<1>5. g \in [0 .. n -> V]
  BY <1>3, <1>4
<1>6. g[0] = base
  <2>1. {} \in SUBSET (1 .. n) /\ h[{}] = base
    BY <1>3
  <2>. QED BY <2>1, <1>4
<1>7. \A r \in 1 .. n : g[r] = Grow(g[r - 1])
  <2>. TAKE r \in 1 .. n
  <2>1. /\ 1 .. r \in SUBSET (1 .. n) /\ 1 .. r # {}
        /\ Max(1 .. r) = r /\ (1 .. r) \ {r} = 1 .. r - 1
    BY LastPosition
  <2>2. h[1 .. r] = step[<<h[1 .. r - 1], r>>]
    BY <1>3, <2>1
  <2>3. r - 1 \in 0 .. n /\ r \in 0 .. n
    OBVIOUS
  <2>4. h[1 .. r - 1] \in V
    BY <2>3, <1>3, <1>4
  <2>5. h[1 .. r] = Grow(h[1 .. r - 1])
    BY <2>2, <2>4, <1>2
  <2>. QED BY <2>3, <2>5
<1>. HIDE DEF g
<1>8. g = [r \in 0 .. n |-> IF r = 0 THEN {w}
                            ELSE g[r - 1] \union UNION {Edits(v) : v \in g[r - 1]}]
  BY <1>5, <1>6, <1>7 DEF Grow, base
<1>. DEFINE E(f) == f = [r \in 0 .. n |-> IF r = 0 THEN {w}
                            ELSE f[r - 1] \union UNION {Edits(v) : v \in f[r - 1]}]
            b == CHOOSE f : E(f)
<1>9. E(b)
  <2>1. E(g)
    BY <1>8
  <2>. HIDE DEF E
  <2>. QED BY <2>1
<1>10. Ball(w, n) = b[n]
  BY DEF Ball
<1>. HIDE DEF b
<1>11. b[0] = {w} /\ \A r \in 1 .. n : b[r] = Grow(b[r - 1])
  BY <1>9 DEF Grow
<1>. DEFINE S == {r \in Nat : r <= n => b[r] \in V}
<1>12. 0 \in S
  BY <1>11, <1>1 DEF base
<1>13. ASSUME NEW r \in Nat, r \in S
       PROVE  r + 1 \in S
  <2>. SUFFICES ASSUME r + 1 <= n PROVE b[r + 1] \in V
    OBVIOUS
  <2>1. r + 1 \in 1 .. n /\ (r + 1) - 1 = r /\ b[r] \in V
    BY <1>13
  <2>2. b[r + 1] = Grow(b[r])
    BY <2>1, <1>11
  <2>. QED BY <2>1, <2>2, GrowWords DEF V
<1>. HIDE DEF S
<1>14. \A r \in Nat : r \in S
  BY <1>12, <1>13, NatInductive
<1>15. \A r \in 0 .. n : b[r] \in V
  BY <1>14 DEF S
<1>16. b \in [0 .. n -> V]
  BY <1>9, <1>15
<1>17. Growth(b, w, n)
  BY <1>11, <1>16 DEF Growth, V
<1>. QED BY <1>10, <1>17

(* Two such functions agree where both are defined.                        *)
LEMMA GrowthUnique ==
  ASSUME NEW w, NEW n \in Nat, NEW p \in Nat, NEW f, NEW g,
         Growth(f, w, n), Growth(g, w, p)
  PROVE  \A r \in Nat : r <= n /\ r <= p => f[r] = g[r]
<1>. DEFINE S == {r \in Nat : r <= n /\ r <= p => f[r] = g[r]}
<1>1. 0 \in S
  BY DEF Growth
<1>2. ASSUME NEW r \in Nat, r \in S
      PROVE  r + 1 \in S
  <2>. SUFFICES ASSUME r + 1 <= n, r + 1 <= p PROVE f[r + 1] = g[r + 1]
    OBVIOUS
  <2>1. r + 1 \in 1 .. n /\ r + 1 \in 1 .. p /\ (r + 1) - 1 = r /\ f[r] = g[r]
    BY <1>2
  <2>2. f[r + 1] = Grow(f[r]) /\ g[r + 1] = Grow(g[r])
    BY <2>1 DEF Growth
  <2>. QED BY <2>1, <2>2
<1>. HIDE DEF S
<1>3. \A r \in Nat : r \in S
  BY <1>1, <1>2, NatInductive
<1>. QED BY <1>3 DEF S

(* Ball grows by one edit at a time.                                       *)
LEMMA BallIs ==
  ASSUME NEW w \in Words
  PROVE  /\ Ball(w, 0) = {w}
         /\ \A n \in Nat : /\ Ball(w, n) \in SUBSET Words
                           /\ Ball(w, n + 1) = Grow(Ball(w, n))
<1>1. Ball(w, 0) = {w}
  <2>1. PICK g : Growth(g, w, 0) /\ Ball(w, 0) = g[0]
    BY BallGrows
  <2>. QED BY <2>1 DEF Growth
<1>2. ASSUME NEW n \in Nat
      PROVE  /\ Ball(w, n) \in SUBSET Words
             /\ Ball(w, n + 1) = Grow(Ball(w, n))
  <2>0. n + 1 \in Nat
    OBVIOUS
  <2>1. PICK f : Growth(f, w, n) /\ Ball(w, n) = f[n]
    BY BallGrows
  <2>2. PICK g : Growth(g, w, n + 1) /\ Ball(w, n + 1) = g[n + 1]
    BY <2>0, BallGrows
  <2>3. f[n] = g[n]
    <3>1. \A r \in Nat : r <= n /\ r <= n + 1 => f[r] = g[r]
      BY <2>0, <2>1, <2>2, GrowthUnique
    <3>. QED BY <3>1
  <2>4. n + 1 \in 1 .. n + 1 /\ (n + 1) - 1 = n
    OBVIOUS
  <2>5. g[n + 1] = Grow(g[n])
    BY <2>2, <2>4 DEF Growth
  <2>6. f[n] \in SUBSET Words
    BY <2>1 DEF Growth
  <2>. QED BY <2>1, <2>2, <2>3, <2>5, <2>6
<1>. QED BY <1>1, <1>2

(* A word n + 1 edits away is one edit from a word n edits away.           *)
LEMMA BallNext ==
  ASSUME NEW w \in Words, NEW n \in Nat, NEW x
  PROVE  x \in Ball(w, n + 1) <=>
           x \in Ball(w, n) \/ \E v \in Ball(w, n) : x \in Edits(v)
  BY BallIs DEF Grow

(* More edits reach more words.                                            *)
LEMMA BallMonotone ==
  ASSUME NEW w \in Words, NEW n \in Nat, NEW p \in Nat, n <= p
  PROVE  Ball(w, n) \subseteq Ball(w, p)
<1>. DEFINE S == {q \in Nat : Ball(w, n) \subseteq Ball(w, n + q)}
<1>1. 0 \in S
  OBVIOUS
<1>2. ASSUME NEW q \in Nat, q \in S
      PROVE  q + 1 \in S
  <2>1. n + q \in Nat /\ n + (q + 1) = (n + q) + 1 /\ q + 1 \in Nat
    OBVIOUS
  <2>2. Ball(w, n + q) \subseteq Ball(w, (n + q) + 1)
    BY <2>1, BallNext
  <2>. QED BY <1>2, <2>1, <2>2
<1>. HIDE DEF S
<1>3. \A q \in Nat : q \in S
  BY <1>1, <1>2, NatInductive
<1>4. p - n \in Nat /\ n + (p - n) = p
  OBVIOUS
<1>5. p - n \in S
  BY <1>3, <1>4
<1>. QED BY <1>4, <1>5 DEF S

-----------------------------------------------------------------------------
(* The distance of words, from their last bytes.                           *)

(* A byte that follows both words keeps them within the same distance.     *)
LEMMA BallAppend ==
  ASSUME NEW w \in Words, NEW a \in Bytes, NEW n \in Nat, NEW x \in Ball(w, n)
  PROVE  Append(x, a) \in Ball(Append(w, a), n)
<1>. DEFINE S == {i \in Nat : \A y \in Ball(w, i) : Append(y, a) \in Ball(Append(w, a), i)}
<1>0. Append(w, a) \in Words
  BY AppendWord
<1>1. 0 \in S
  <2>1. Ball(w, 0) = {w} /\ Ball(Append(w, a), 0) = {Append(w, a)}
    BY <1>0, BallIs
  <2>. QED BY <2>1
<1>2. ASSUME NEW i \in Nat, i \in S
      PROVE  i + 1 \in S
  <2>. SUFFICES ASSUME NEW y \in Ball(w, i + 1)
                PROVE  Append(y, a) \in Ball(Append(w, a), i + 1)
    OBVIOUS
  <2>1. CASE y \in Ball(w, i)
    <3>1. Append(y, a) \in Ball(Append(w, a), i)
      BY <1>2, <2>1
    <3>. QED BY <3>1, <1>0, BallNext
  <2>2. CASE \E v \in Ball(w, i) : y \in Edits(v)
    <3>1. PICK v \in Ball(w, i) : y \in Edits(v)
      BY <2>2
    <3>2. v \in Words
      BY BallIs
    <3>3. y \in Words
      BY <3>1, <3>2, EditsIs
    <3>4. Append(y, a) \in Edits(Append(v, a))
      BY <3>1, <3>2, <3>3, EditsAppend
    <3>5. Append(v, a) \in Ball(Append(w, a), i)
      BY <1>2
    <3>. QED BY <3>4, <3>5, <1>0, BallNext
  <2>. QED BY <2>1, <2>2, BallNext
<1>. HIDE DEF S
<1>3. n \in S
  BY <1>1, <1>2, NatInductive
<1>. QED BY <1>3 DEF S

(* uc is e edits from vd: the row of the automaton.                        *)
Reach(u, c, v, d, e) ==
  \/ c = d /\ u \in Ball(v, e)
  \/ e >= 1 /\ u \in Ball(v, e - 1)
  \/ e >= 1 /\ Append(u, c) \in Ball(v, e - 1)
  \/ e >= 1 /\ u \in Ball(Append(v, d), e - 1)

(* What is reached with some edits is reached with one more.               *)
LEMMA ReachNext ==
  ASSUME NEW u \in Words, NEW v \in Words, NEW c \in Bytes, NEW d \in Bytes, NEW e \in Nat,
         Reach(u, c, v, d, e)
  PROVE  Reach(u, c, v, d, e + 1)
<1>0. Append(v, d) \in Words /\ e + 1 \in Nat /\ (e + 1) - 1 = e /\ e + 1 >= 1
  BY AppendWord
<1>1. Ball(v, e) \subseteq Ball(v, e + 1)
  BY <1>0, BallMonotone
<1>2. ASSUME e >= 1
      PROVE  /\ Ball(v, e - 1) \subseteq Ball(v, e)
             /\ Ball(Append(v, d), e - 1) \subseteq Ball(Append(v, d), e)
  <2>1. e - 1 \in Nat /\ e - 1 <= e
    BY <1>2
  <2>. QED BY <2>1, <1>0, BallMonotone
<1>. QED BY <1>0, <1>1, <1>2 DEF Reach

(* Each way to reach uc is a number of edits.                              *)
LEMMA ReachBall ==
  ASSUME NEW u \in Words, NEW v \in Words, NEW c \in Bytes, NEW d \in Bytes, NEW e \in Nat,
         Reach(u, c, v, d, e)
  PROVE  Append(u, c) \in Ball(Append(v, d), e)
<1>0. Append(v, d) \in Words /\ Append(u, c) \in Words
  BY AppendWord
<1>1. ASSUME c = d, u \in Ball(v, e)
      PROVE  Append(u, c) \in Ball(Append(v, d), e)
  BY <1>1, BallAppend
<1>2. ASSUME e >= 1, \E y \in Ball(Append(v, d), e - 1) : Append(u, c) \in Edits(y)
      PROVE  Append(u, c) \in Ball(Append(v, d), e)
  <2>1. e - 1 \in Nat /\ (e - 1) + 1 = e
    BY <1>2
  <2>2. Append(u, c) \in Ball(Append(v, d), (e - 1) + 1)
    BY <2>1, <1>0, <1>2, BallNext
  <2>. QED BY <2>1, <2>2
<1>3. ASSUME e >= 1, u \in Ball(v, e - 1)
      PROVE  \E y \in Ball(Append(v, d), e - 1) : Append(u, c) \in Edits(y)
  <2>1. e - 1 \in Nat
    BY <1>3
  <2>2. Append(u, d) \in Ball(Append(v, d), e - 1)
    BY <1>3, <2>1, BallAppend
  <2>3. Append(u, c) \in Edits(Append(u, d))
    BY EditsAtEnd
  <2>. QED BY <2>2, <2>3
<1>4. ASSUME e >= 1, Append(u, c) \in Ball(v, e - 1)
      PROVE  \E y \in Ball(Append(v, d), e - 1) : Append(u, c) \in Edits(y)
  <2>1. e - 1 \in Nat
    BY <1>4
  <2>2. Append(Append(u, c), d) \in Ball(Append(v, d), e - 1)
    BY <1>4, <2>1, BallAppend
  <2>3. Append(u, c) \in Edits(Append(Append(u, c), d))
    BY <1>0, EditsAtEnd
  <2>. QED BY <2>2, <2>3
<1>5. Append(u, c) \in Edits(u)
  BY EditsAtEnd
<1>. QED BY <1>1, <1>2, <1>3, <1>4, <1>5 DEF Reach

(* The four ways to come to uc in one more edit.                           *)
LEMMA ReachEdit ==
  ASSUME NEW v \in Words, NEW d \in Bytes, NEW e \in Nat,
         \A u \in Words, c \in Bytes :
           Append(u, c) \in Ball(Append(v, d), e) => Reach(u, c, v, d, e),
         NEW u \in Words, NEW c \in Bytes, NEW y \in Ball(Append(v, d), e),
         Append(u, c) \in Edits(y)
  PROVE  Reach(u, c, v, d, e + 1)
<1>0. /\ Append(v, d) \in Words /\ Append(u, c) \in Words
      /\ e + 1 \in Nat /\ (e + 1) - 1 = e /\ e + 1 >= 1
  BY AppendWord
<1>1. y \in Words
  BY <1>0, BallIs
<1>2. ASSUME e >= 1
      PROVE  /\ e - 1 \in Nat /\ (e - 1) + 1 = e
             /\ Ball(v, e - 1) \subseteq Ball(v, e)
             /\ Ball(Append(v, d), e - 1) \subseteq Ball(Append(v, d), e)
             /\ \A p \in Ball(v, e - 1) : Edits(p) \subseteq Ball(v, e)
             /\ \A p \in Ball(Append(v, d), e - 1) : Edits(p) \subseteq Ball(Append(v, d), e)
  <2>1. e - 1 \in Nat /\ (e - 1) + 1 = e /\ e - 1 <= e
    BY <1>2
  <2>2. \A w \in Words : Ball(w, e - 1) \subseteq Ball(w, e)
    BY <2>1, BallMonotone
  <2>3. \A w \in Words : \A p \in Ball(w, e - 1) : Edits(p) \subseteq Ball(w, (e - 1) + 1)
    BY <2>1, BallNext
  <2>. QED BY <2>1, <2>2, <2>3, <1>0
<1>3. ASSUME NEW a \in Bytes, Append(u, c) = Append(y, a)
      PROVE  Reach(u, c, v, d, e + 1)
  <2>1. u = y
    BY <1>1, <1>3, AppendSame
  <2>. QED BY <2>1, <1>0 DEF Reach
<1>4. ASSUME NEW a \in Bytes, y = Append(Append(u, c), a)
      PROVE  Reach(u, c, v, d, e + 1)
  <2>1. Reach(Append(u, c), a, v, d, e)
    BY <1>0, <1>4
  <2>2. Append(u, c) \in Edits(Append(Append(u, c), a))
    BY <1>0, EditsAtEnd
  <2>3. Append(u, c) \in Ball(v, e) \/ Append(u, c) \in Ball(Append(v, d), e)
    BY <2>1, <2>2, <1>2 DEF Reach
  <2>4. ASSUME Append(u, c) \in Ball(Append(v, d), e)
        PROVE  Reach(u, c, v, d, e + 1)
    <3>1. Reach(u, c, v, d, e)
      BY <2>4
    <3>. QED BY <3>1, ReachNext
  <2>. QED BY <2>3, <2>4, <1>0 DEF Reach
<1>5. ASSUME NEW z \in Words, NEW a \in Bytes, NEW b \in Bytes,
             y = Append(z, a), Append(u, c) = Append(z, b)
      PROVE  Reach(u, c, v, d, e + 1)
  <2>1. z = u /\ b = c
    BY <1>5, AppendSame
  <2>2. Reach(u, a, v, d, e)
    BY <2>1, <1>5
  <2>3. Append(u, c) \in Edits(Append(u, a))
    BY EditsAtEnd
  <2>4. u \in Ball(v, e) \/ Append(u, c) \in Ball(v, e) \/ u \in Ball(Append(v, d), e)
    BY <2>2, <2>3, <1>2 DEF Reach
  <2>. QED BY <2>4, <1>0 DEF Reach
<1>6. ASSUME NEW p \in Words, NEW q \in Words, NEW a \in Bytes,
             y = Append(p, a), Append(u, c) = Append(q, a), q \in Edits(p)
      PROVE  Reach(u, c, v, d, e + 1)
  <2>1. q = u /\ a = c
    BY <1>6, AppendSame
  <2>2. Reach(p, c, v, d, e)
    BY <2>1, <1>6
  <2>3. Append(u, c) \in Edits(Append(p, c)) /\ u \in Edits(p)
    BY <1>6, <2>1, EditsAppend
  <2>4. \/ c = d /\ u \in Ball(v, e + 1)
        \/ u \in Ball(v, e) \/ Append(u, c) \in Ball(v, e) \/ u \in Ball(Append(v, d), e)
    <3>1. p \in Ball(v, e) => u \in Ball(v, e + 1)
      BY <2>3, BallNext
    <3>. QED BY <2>2, <2>3, <3>1, <1>2 DEF Reach
  <2>. QED BY <2>4, <1>0 DEF Reach
<1>7. \/ \E a \in Bytes : Append(u, c) = Append(y, a)
      \/ \E a \in Bytes : y = Append(Append(u, c), a)
      \/ \E z \in Words, a \in Bytes, b \in Bytes : y = Append(z, a) /\ Append(u, c) = Append(z, b)
      \/ \E p \in Words, q \in Words, a \in Bytes :
           y = Append(p, a) /\ Append(u, c) = Append(q, a) /\ q \in Edits(p)
  BY ZenonT(60), <1>0, <1>1, EditsFromEnd
<1>. QED BY <1>3, <1>4, <1>5, <1>6, <1>7

(* The four ways are all there are.                                        *)
LEMMA BallReach ==
  ASSUME NEW v \in Words, NEW d \in Bytes, NEW e \in Nat,
         NEW u \in Words, NEW c \in Bytes
  PROVE  Append(u, c) \in Ball(Append(v, d), e) <=> Reach(u, c, v, d, e)
<1>. DEFINE P(i) == \A x \in Words, a \in Bytes :
                      Append(x, a) \in Ball(Append(v, d), i) => Reach(x, a, v, d, i)
            S == {i \in Nat : P(i)}
<1>0. Append(v, d) \in Words
  BY AppendWord
<1>1. 0 \in S
  <2>1. Ball(v, 0) = {v} /\ Ball(Append(v, d), 0) = {Append(v, d)}
    BY <1>0, BallIs
  <2>2. ASSUME NEW x \in Words, NEW a \in Bytes, Append(x, a) \in Ball(Append(v, d), 0)
        PROVE  Reach(x, a, v, d, 0)
    <3>1. Append(x, a) = Append(v, d)
      BY <2>1, <2>2
    <3>2. x = v /\ a = d
      BY <3>1, AppendSame
    <3>. QED BY <3>2, <2>1 DEF Reach
  <2>. QED BY <2>2
<1>2. ASSUME NEW i \in Nat, i \in S
      PROVE  i + 1 \in S
  <2>0. i + 1 \in Nat /\ P(i)
    BY <1>2
  <2>1. ASSUME NEW x \in Words, NEW a \in Bytes, Append(x, a) \in Ball(Append(v, d), i + 1)
        PROVE  Reach(x, a, v, d, i + 1)
    <3>1. CASE Append(x, a) \in Ball(Append(v, d), i)
      <4>1. Reach(x, a, v, d, i)
        BY <2>0, <3>1
      <4>. QED BY <4>1, ReachNext
    <3>2. CASE \E y \in Ball(Append(v, d), i) : Append(x, a) \in Edits(y)
      BY <2>0, <3>2, ReachEdit
    <3>. QED BY <3>1, <3>2, <2>1, <1>0, BallNext
  <2>. QED BY <2>0, <2>1
<1>. HIDE DEF S
<1>3. \A i \in Nat : i \in S
  BY <1>1, <1>2, NatInductive
<1>4. P(e)
  BY <1>3 DEF S
<1>. QED BY <1>4, ReachBall

(* What can be reached from the empty word.                                *)
LEMMA BallOfNothing ==
  ASSUME NEW e \in Nat, NEW u \in Words, NEW c \in Bytes
  PROVE  Append(u, c) \in Ball(<< >>, e) <=> e >= 1 /\ u \in Ball(<< >>, e - 1)
<1>. DEFINE R(x, i) == i >= 1 /\ x \in Ball(<< >>, i - 1)
            P(i) == \A x \in Words, a \in Bytes :
                      Append(x, a) \in Ball(<< >>, i) => R(x, i)
            S == {i \in Nat : P(i)}
<1>0. << >> \in Words
  BY DEF Words
<1>1. 0 \in S
  <2>1. Ball(<< >>, 0) = {<< >>}
    BY <1>0, BallIs
  <2>2. \A x \in Words, a \in Bytes : Append(x, a) # << >>
    <3>. TAKE x \in Words, a \in Bytes
    <3>1. Len(Append(x, a)) = Len(x) + 1 /\ Len(x) \in Nat
      BY AppendWord, WordLength
    <3>. QED BY <3>1
  <2>. QED BY <2>1, <2>2
<1>2. ASSUME NEW i \in Nat, i \in S
      PROVE  i + 1 \in S
  <2>0. i + 1 \in Nat /\ P(i) /\ (i + 1) - 1 = i /\ i + 1 >= 1
    BY <1>2
  <2>1. \A x \in Words : R(x, i) => x \in Ball(<< >>, i)
    <3>. SUFFICES ASSUME NEW x \in Words, i >= 1, x \in Ball(<< >>, i - 1)
                  PROVE  x \in Ball(<< >>, i)
      OBVIOUS
    <3>1. i - 1 \in Nat /\ i - 1 <= i
      OBVIOUS
    <3>. QED BY <3>1, <1>0, BallMonotone
  <2>2. ASSUME NEW x \in Words, NEW a \in Bytes, Append(x, a) \in Ball(<< >>, i)
        PROVE  x \in Ball(<< >>, i)
    BY <2>0, <2>1, <2>2
  <2>3. ASSUME NEW x \in Words, NEW a \in Bytes, NEW y \in Ball(<< >>, i),
               Append(x, a) \in Edits(y)
        PROVE  x \in Ball(<< >>, i)
    <3>0. y \in Words /\ Append(x, a) \in Words
      BY <1>0, BallIs, AppendWord
    <3>1. ASSUME NEW b \in Bytes, Append(x, a) = Append(y, b)
          PROVE  x \in Ball(<< >>, i)
      BY <3>0, <3>1, AppendSame
    <3>2. ASSUME NEW b \in Bytes, y = Append(Append(x, a), b)
          PROVE  x \in Ball(<< >>, i)
      <4>1. Append(x, a) \in Ball(<< >>, i)
        BY <3>0, <3>2, <2>2
      <4>. QED BY <4>1, <2>2
    <3>3. ASSUME NEW z \in Words, NEW b \in Bytes, NEW c2 \in Bytes,
                 y = Append(z, b), Append(x, a) = Append(z, c2)
          PROVE  x \in Ball(<< >>, i)
      <4>1. x = z
        BY <3>3, AppendSame
      <4>. QED BY <4>1, <3>3, <2>2
    <3>4. ASSUME NEW p \in Words, NEW q \in Words, NEW b \in Bytes,
                 y = Append(p, b), Append(x, a) = Append(q, b), q \in Edits(p)
          PROVE  x \in Ball(<< >>, i)
      <4>1. x = q
        BY <3>4, AppendSame
      <4>2. R(p, i)
        BY <3>4, <2>0
      <4>3. i - 1 \in Nat /\ (i - 1) + 1 = i /\ p \in Ball(<< >>, i - 1)
        BY <4>2
      <4>4. q \in Ball(<< >>, (i - 1) + 1)
        BY <4>3, <3>4, <1>0, BallNext
      <4>. QED BY <4>1, <4>3, <4>4
    <3>5. /\ Append(x, a) \in Edits(y)
          /\ \A z \in Words : z \in Edits(y) =>
               \/ \E b \in Bytes : z = Append(y, b)
               \/ \E b \in Bytes : y = Append(z, b)
               \/ \E t \in Words, b \in Bytes, d \in Bytes : y = Append(t, b) /\ z = Append(t, d)
               \/ \E p \in Words, q \in Words, b \in Bytes :
                    y = Append(p, b) /\ z = Append(q, b) /\ q \in Edits(p)
      BY <3>0, <2>3, EditsFromEnd
    <3>6. \/ \E b \in Bytes : Append(x, a) = Append(y, b)
          \/ \E b \in Bytes : y = Append(Append(x, a), b)
          \/ \E t \in Words, b \in Bytes, d \in Bytes :
               y = Append(t, b) /\ Append(x, a) = Append(t, d)
          \/ \E p \in Words, q \in Words, b \in Bytes :
               y = Append(p, b) /\ Append(x, a) = Append(q, b) /\ q \in Edits(p)
      BY <3>0, <3>5
    <3>. QED BY <3>1, <3>2, <3>3, <3>4, <3>6
  <2>4. \A x \in Words, a \in Bytes :
          Append(x, a) \in Ball(<< >>, i + 1) => x \in Ball(<< >>, i)
    BY <1>0, <2>2, <2>3, BallNext
  <2>. QED BY <2>0, <2>4
<1>. HIDE DEF S
<1>3. \A i \in Nat : i \in S
  BY <1>1, <1>2, NatInductive
<1>4. P(e)
  BY <1>3 DEF S
<1>5. ASSUME e >= 1, u \in Ball(<< >>, e - 1)
      PROVE  Append(u, c) \in Ball(<< >>, e)
  <2>1. e - 1 \in Nat /\ (e - 1) + 1 = e
    BY <1>5
  <2>2. Append(u, c) \in Edits(u)
    BY EditsAtEnd
  <2>3. Append(u, c) \in Ball(<< >>, (e - 1) + 1)
    BY <1>0, <1>5, <2>1, <2>2, BallNext
  <2>. QED BY <2>1, <2>3
<1>. QED BY <1>4, <1>5

(* An edit takes away at most one byte.                                    *)
LEMMA BallLength ==
  ASSUME NEW w \in Words, NEW e \in Nat, NEW y \in Ball(w, e)
  PROVE  Len(y) >= Len(w) - e
<1>. DEFINE S == {i \in Nat : \A x \in Ball(w, i) : Len(x) >= Len(w) - i}
<1>1. 0 \in S
  <2>1. Ball(w, 0) = {w} /\ Len(w) \in Nat
    BY BallIs, WordLength
  <2>. QED BY <2>1
<1>2. ASSUME NEW i \in Nat, i \in S
      PROVE  i + 1 \in S
  <2>. SUFFICES ASSUME NEW x \in Ball(w, i + 1)
                PROVE  Len(x) >= Len(w) - (i + 1)
    OBVIOUS
  <2>1. CASE x \in Ball(w, i)
    <3>1. x \in Words /\ Len(x) \in Nat /\ Len(w) \in Nat
      BY <2>1, BallIs, WordLength
    <3>2. Len(x) >= Len(w) - i
      BY <1>2, <2>1
    <3>. QED BY <3>1, <3>2
  <2>2. CASE \E v \in Ball(w, i) : x \in Edits(v)
    <3>1. PICK v \in Ball(w, i) : x \in Edits(v)
      BY <2>2
    <3>2. v \in Words
      BY BallIs
    <3>3. PICK j \in Nat : Deleted(v, x, j) \/ Replaced(v, x, j) \/ Deleted(x, v, j)
      BY <3>1, <3>2, EditsIs
    <3>4. x \in Words
      BY <3>1, <3>2, EditsIs
    <3>5. Len(x) \in Nat /\ Len(v) \in Nat /\ Len(w) \in Nat
      BY <3>2, <3>4, WordLength
    <3>6. Len(v) >= Len(w) - i
      BY <1>2
    <3>7. Len(x) >= Len(v) - 1
      BY <3>3, <3>5 DEF Deleted, Replaced
    <3>. QED BY <3>5, <3>6, <3>7
  <2>. QED BY <2>1, <2>2, BallNext
<1>. HIDE DEF S
<1>3. e \in S
  BY <1>1, <1>2, NatInductive
<1>. QED BY <1>3 DEF S

(* The first bytes of a word, one more.                                    *)
LEMMA TakenNext ==
  ASSUME NEW w \in Words, NEW n \in Nat, n + 1 \in 1 .. Len(w)
  PROVE  SubSeq(w, 1, n + 1) = Append(SubSeq(w, 1, n), w[n + 1])
<1>0. Len(w) \in Nat
  BY WordLength
<1>1. n \in 0 .. Len(w) /\ n + 1 \in 0 .. Len(w)
  BY <1>0
<1>. DEFINE s == SubSeq(w, 1, n)
            t == SubSeq(w, 1, n + 1)
            b == w[n + 1]
<1>2. s \in Words /\ Len(s) = n /\ \A i \in 1 .. n : s[i] = w[i]
  BY <1>1, Taken
<1>3. t \in Words /\ Len(t) = n + 1 /\ \A i \in 1 .. n + 1 : t[i] = w[i]
  BY <1>1, Taken
<1>4. b \in Bytes
  BY ByteOf
<1>5. b = w[n + 1]
  OBVIOUS
<1>. HIDE DEF s, t, b
<1>6. /\ Append(s, b) \in Words /\ Len(Append(s, b)) = n + 1
      /\ \A i \in 1 .. n : Append(s, b)[i] = s[i]
      /\ Append(s, b)[n + 1] = b
  BY <1>2, <1>4, AppendWord
<1>7. \A i \in 1 .. Len(t) : t[i] = Append(s, b)[i]
  <2>. TAKE i \in 1 .. Len(t)
  <2>1. i \in 1 .. n + 1 /\ (i \in 1 .. n \/ i = n + 1)
    BY <1>3
  <2>. QED BY <2>1, <1>2, <1>3, <1>5, <1>6
<1>8. t = Append(s, b)
  BY <1>3, <1>6, <1>7, SameWord
<1>. QED BY <1>8 DEF s, t, b

(* The empty word is as many edits away as there are bytes.                *)
LEMMA NothingInBall ==
  ASSUME NEW w \in Words, NEW e \in Nat
  PROVE  << >> \in Ball(w, e) <=> Len(w) <= e
<1>0. Len(w) \in Nat
  BY WordLength
<1>1. << >> \in Ball(w, e) => Len(w) <= e
  <2>1. << >> \in Ball(w, e) => Len(<< >>) >= Len(w) - e
    BY BallLength
  <2>. QED BY <2>1, <1>0
<1>. DEFINE S == {i \in Nat : i <= Len(w) => SubSeq(w, 1, Len(w) - i) \in Ball(w, i)}
<1>2. 0 \in S
  <2>1. Ball(w, 0) = {w} /\ Len(w) - 0 = Len(w)
    BY <1>0, BallIs
  <2>2. SubSeq(w, 1, Len(w)) = w
    <3>1. Len(w) \in 0 .. Len(w)
      BY <1>0
    <3>2. /\ SubSeq(w, 1, Len(w)) \in Words /\ Len(SubSeq(w, 1, Len(w))) = Len(w)
          /\ \A i \in 1 .. Len(w) : SubSeq(w, 1, Len(w))[i] = w[i]
      BY <3>1, Taken
    <3>. QED BY <3>2, SameWord
  <2>. QED BY <2>1, <2>2
<1>3. ASSUME NEW i \in Nat, i \in S
      PROVE  i + 1 \in S
  <2>. SUFFICES ASSUME i + 1 <= Len(w)
                PROVE  SubSeq(w, 1, Len(w) - (i + 1)) \in Ball(w, i + 1)
    OBVIOUS
  <2>. DEFINE n == Len(w) - (i + 1)
  <2>1. n \in Nat /\ n + 1 \in 1 .. Len(w) /\ n + 1 = Len(w) - i /\ n \in 0 .. Len(w)
    BY <1>0
  <2>2. SubSeq(w, 1, n + 1) \in Ball(w, i)
    <3>1. i <= Len(w)
      BY <1>0
    <3>2. SubSeq(w, 1, Len(w) - i) \in Ball(w, i)
      BY <1>3, <3>1
    <3>. QED BY <3>2, <2>1
  <2>. HIDE DEF n
  <2>3. SubSeq(w, 1, n + 1) = Append(SubSeq(w, 1, n), w[n + 1])
    BY <2>1, TakenNext
  <2>4. SubSeq(w, 1, n) \in Words /\ w[n + 1] \in Bytes
    BY <2>1, Taken, ByteOf
  <2>5. SubSeq(w, 1, n) \in Edits(SubSeq(w, 1, n + 1))
    BY <2>3, <2>4, EditsAtEnd
  <2>6. SubSeq(w, 1, n) \in Ball(w, i + 1)
    BY <2>2, <2>5, BallNext
  <2>. QED BY <2>6 DEF n
<1>. HIDE DEF S
<1>4. \A i \in Nat : i \in S
  BY <1>2, <1>3, NatInductive
<1>5. SubSeq(w, 1, 0) \in Ball(w, Len(w))
  <2>1. Len(w) \in S /\ Len(w) - Len(w) = 0
    BY <1>0, <1>4
  <2>. QED BY <2>1, <1>0 DEF S
<1>6. SubSeq(w, 1, 0) = << >>
  <2>1. 0 \in 0 .. Len(w)
    BY <1>0
  <2>2. SubSeq(w, 1, 0) \in Words /\ Len(SubSeq(w, 1, 0)) = 0
    BY <2>1, Taken
  <2>. QED BY <2>2, EmptySeq DEF Words
<1>7. Len(w) <= e => << >> \in Ball(w, e)
  BY <1>0, <1>5, <1>6, BallMonotone
<1>. QED BY <1>1, <1>7

-----------------------------------------------------------------------------
(* A step of the automaton.                                                *)

(* NextEntry i + 1 of the next row, from the one above it, the one before that *)
(* and the last one of the row, which is entry i.                          *)
NextEntry(prev, c, i, last) ==
  Least2(Least2(prev[i] + (IF c = keyword[i] THEN 0 ELSE 1), prev[i + 1] + 1),
         Least2(last + 1, Cap))

(* row holds the first i + 1 entries of the next row.                      *)
NextRow(row, prev, c, i) ==
  /\ row \in Seq(0 .. Cap) /\ Len(row) = i + 1
  /\ row[1] = Least2(prev[1] + 1, Cap)
  /\ \A j \in 1 .. i : row[j + 1] = NextEntry(prev, c, j, row[j])

(* An entry of a row is capped.                                            *)
LEMMA EntryCapped ==
  ASSUME k \in Nat, NEW prev, NEW c, NEW i, NEW last \in Nat,
         prev[i] \in Nat, prev[i + 1] \in Nat
  PROVE  NextEntry(prev, c, i, last) \in 0 .. Cap
  BY DEF NextEntry, Least2, Cap

(* The last entry of the part of a row that there is.                      *)
LEMMA LastEntry ==
  ASSUME k \in Nat, NEW row \in Seq(0 .. Cap), row # << >>
  PROVE  Last(row) \in 0 .. Cap /\ Last(row) = row[Len(row)]
<1>1. Len(row) \in Nat /\ Len(row) # 0
  BY EmptySeq
<1>2. Len(row) \in 1 .. Len(row)
  BY <1>1
<1>3. row[Len(row)] \in 0 .. Cap
  BY <1>2, ElementOfSeq
<1>. QED BY <1>3 DEF Last

(* Each step of the loop adds one entry to the row.                        *)
LEMMA RowNext ==
  ASSUME k \in Nat, keyword \in Words, NEW c, NEW prev \in [1 .. Size -> Nat],
         NEW i \in Nat, i + 1 \in 1 .. Len(keyword),
         NEW row, NextRow(row, prev, c, i)
  PROVE  NextRow(Append(row, NextEntry(prev, c, i + 1, Last(row))), prev, c, i + 1)
<1>. DEFINE x == NextEntry(prev, c, i + 1, Last(row))
            r == Append(row, x)
<1>0. /\ row \in Seq(0 .. Cap) /\ Len(row) = i + 1
      /\ row[1] = Least2(prev[1] + 1, Cap)
      /\ \A j \in 1 .. i : row[j + 1] = NextEntry(prev, c, j, row[j])
  BY DEF NextRow
<1>1. row # << >>
  BY <1>0
<1>2. Last(row) \in 0 .. Cap /\ Last(row) = row[i + 1]
  BY <1>0, <1>1, LastEntry
<1>3. prev[i + 1] \in Nat /\ prev[(i + 1) + 1] \in Nat
  <2>1. i + 1 \in 1 .. Size /\ (i + 1) + 1 \in 1 .. Size
    BY WordLength DEF Size
  <2>. QED BY <2>1
<1>4. x \in 0 .. Cap
  <2>1. Last(row) \in Nat
    BY <1>2 DEF Cap
  <2>. QED BY <2>1, <1>3, EntryCapped
<1>5. x = NextEntry(prev, c, i + 1, row[i + 1])
  BY <1>2
<1>. HIDE DEF x
<1>6. /\ r \in Seq(0 .. Cap) /\ Len(r) = (i + 1) + 1
      /\ \A j \in 1 .. i + 1 : r[j] = row[j]
      /\ r[(i + 1) + 1] = x
  BY <1>0, <1>4, AppendProperties
<1>. HIDE DEF r
<1>7. r[1] = Least2(prev[1] + 1, Cap)
  BY <1>0, <1>6
<1>8. \A j \in 1 .. i + 1 : r[j + 1] = NextEntry(prev, c, j, r[j])
  <2>. TAKE j \in 1 .. i + 1
  <2>1. CASE j \in 1 .. i
    <3>1. j \in 1 .. i + 1 /\ j + 1 \in 1 .. i + 1
      BY <2>1
    <3>. QED BY <2>1, <3>1, <1>0, <1>6
  <2>2. CASE j = i + 1
    BY <2>2, <1>5, <1>6
  <2>. QED BY <2>1, <2>2
<1>. QED BY <1>6, <1>7, <1>8 DEF NextRow, r, x

(* Step computes the whole row.                                            *)
LEMMA StepRow ==
  ASSUME k \in Nat, keyword \in Words, NEW c, NEW prev \in [1 .. Size -> Nat]
  PROVE  NextRow(Step(prev, c), prev, c, Len(keyword))
<1>. DEFINE n == Len(keyword)
            V == Seq(0 .. Cap) \ {<< >>}
            base == <<Least2(prev[1] + 1, Cap)>>
            step == [p \in V \X (1 .. n) |-> Append(p[1], NextEntry(prev, c, p[2], Last(p[1])))]
<1>0. n \in Nat /\ Size = n + 1
  BY WordLength DEF Size
<1>1. base \in V /\ NextRow(base, prev, c, 0)
  <2>1. 1 \in 1 .. Size
    BY <1>0
  <2>2. prev[1] \in Nat
    BY <2>1
  <2>3. Least2(prev[1] + 1, Cap) \in 0 .. Cap
    BY <2>2 DEF Least2, Cap
  <2>. QED BY <2>3 DEF NextRow
<1>2. step \in [V \X (1 .. n) -> V]
  <2>. SUFFICES ASSUME NEW p \in V \X (1 .. n)
                PROVE  Append(p[1], NextEntry(prev, c, p[2], Last(p[1]))) \in V
    OBVIOUS
  <2>1. p[1] \in Seq(0 .. Cap) /\ p[1] # << >> /\ p[2] \in 1 .. n
    OBVIOUS
  <2>2. Last(p[1]) \in Nat
    <3>1. Last(p[1]) \in 0 .. Cap
      BY <2>1, LastEntry
    <3>. QED BY <3>1 DEF Cap
  <2>3. p[2] \in 1 .. Size /\ p[2] + 1 \in 1 .. Size
    BY <2>1, <1>0
  <2>4. NextEntry(prev, c, p[2], Last(p[1])) \in 0 .. Cap
    <3>1. prev[p[2]] \in Nat /\ prev[p[2] + 1] \in Nat
      BY <2>3
    <3>. QED BY <2>2, <3>1, EntryCapped
  <2>. QED BY <2>1, <2>4, AppendProperties
<1>3. \A row \in V : \A i \in 1 .. n :
        step[<<row, i>>] = Append(row, NextEntry(prev, c, i, Last(row)))
  OBVIOUS
<1>4. Step(prev, c) =
        LET iter[s \in SUBSET DOMAIN Count(n)] ==
              IF s = {} THEN base
              ELSE Append(iter[s \ {Max(s)}],
                          NextEntry(prev, c, Count(n)[Max(s)], Last(iter[s \ {Max(s)}])))
        IN  iter[DOMAIN Count(n)]
  BY DEF Step, FoldLeft, MapThenFoldSet, NextEntry
<1>5. PICK h : Folding(h, n, V, base, step)
  <2>. HIDE DEF n, V, base, step
  <2>. QED BY <1>0, <1>1, <1>2, FoldExists
<1>. DEFINE Fold(f) == f = [s \in SUBSET DOMAIN Count(n) |->
                              IF s = {} THEN base
                              ELSE Append(f[s \ {Max(s)}],
                                          NextEntry(prev, c, Count(n)[Max(s)], Last(f[s \ {Max(s)}])))]
            b == CHOOSE f : Fold(f)
<1>6. Step(prev, c) = b[DOMAIN Count(n)]
  BY <1>4
<1>7. DOMAIN Count(n) = 1 .. n /\ \A i \in 1 .. n : Count(n)[i] = i
  BY DEF Count
<1>. HIDE DEF n, V, base, step
<1>8. Fold(h)
  <2>1. /\ h \in [SUBSET (1 .. n) -> V]
        /\ \A s \in SUBSET (1 .. n) :
             h[s] = IF s = {} THEN base ELSE step[<<h[s \ {Max(s)}], Max(s)>>]
    BY <1>5 DEF Folding
  <2>2. ASSUME NEW s \in SUBSET (1 .. n), s # {}
        PROVE  h[s] = Append(h[s \ {Max(s)}],
                             NextEntry(prev, c, Count(n)[Max(s)], Last(h[s \ {Max(s)}])))
    <3>1. Max(s) \in 1 .. n
      BY <1>0, <2>2, MaxOfPositions
    <3>2. s \ {Max(s)} \in SUBSET (1 .. n)
      OBVIOUS
    <3>3. h[s \ {Max(s)}] \in V
      BY <2>1, <3>2
    <3>4. h[s] = step[<<h[s \ {Max(s)}], Max(s)>>]
      BY <2>1, <2>2
    <3>5. Count(n)[Max(s)] = Max(s)
      BY <3>1, <1>7
    <3>. QED BY <3>1, <3>3, <3>4, <3>5, <1>3
  <2>3. h = [s \in SUBSET (1 .. n) |-> h[s]]
    BY <2>1
  <2>4. \A s \in SUBSET (1 .. n) :
          h[s] = IF s = {} THEN base
                 ELSE Append(h[s \ {Max(s)}],
                             NextEntry(prev, c, Count(n)[Max(s)], Last(h[s \ {Max(s)}])))
    BY <2>1, <2>2
  <2>. QED BY <2>3, <2>4, <1>7
<1>9. Fold(b)
  <2>. HIDE DEF Fold
  <2>. QED BY <1>8
<1>. HIDE DEF b
<1>10. /\ b[{}] = base
       /\ \A s \in SUBSET (1 .. n) : s # {} =>
            b[s] = Append(b[s \ {Max(s)}],
                          NextEntry(prev, c, Count(n)[Max(s)], Last(b[s \ {Max(s)}])))
  <2>1. /\ DOMAIN b = SUBSET (1 .. n)
        /\ \A s \in SUBSET (1 .. n) :
             b[s] = IF s = {} THEN base
                    ELSE Append(b[s \ {Max(s)}],
                                NextEntry(prev, c, Count(n)[Max(s)], Last(b[s \ {Max(s)}])))
    BY <1>7, <1>9
  <2>2. {} \in SUBSET (1 .. n)
    OBVIOUS
  <2>. QED BY <2>1, <2>2
<1>. HIDE DEF Fold
<1>. DEFINE S == {i \in Nat : i <= n => NextRow(b[1 .. i], prev, c, i)}
<1>11. 0 \in S
  <2>1. 1 .. 0 = {}
    OBVIOUS
  <2>. QED BY <2>1, <1>1, <1>10
<1>12. ASSUME NEW i \in Nat, i \in S
       PROVE  i + 1 \in S
  <2>. SUFFICES ASSUME i + 1 <= n PROVE NextRow(b[1 .. i + 1], prev, c, i + 1)
    OBVIOUS
  <2>1. i + 1 \in 1 .. n
    BY <1>0
  <2>2. NextRow(b[1 .. i], prev, c, i)
    BY <1>0, <1>12
  <2>. HIDE DEF S
  <2>3. /\ 1 .. i + 1 \in SUBSET (1 .. n) /\ 1 .. i + 1 # {}
        /\ Max(1 .. i + 1) = i + 1
        /\ (1 .. i + 1) \ {i + 1} = 1 .. (i + 1) - 1
    BY <1>0, <2>1, LastPosition
  <2>4. (i + 1) - 1 = i
    OBVIOUS
  <2>5. b[1 .. i + 1] = Append(b[1 .. i], NextEntry(prev, c, i + 1, Last(b[1 .. i])))
    BY <1>7, <1>10, <2>1, <2>3, <2>4
  <2>6. i + 1 \in 1 .. Len(keyword)
    BY <2>1 DEF n
  <2>7. NextRow(Append(b[1 .. i], NextEntry(prev, c, i + 1, Last(b[1 .. i]))), prev, c, i + 1)
    BY <2>2, <2>6, RowNext
  <2>. QED BY <2>5, <2>7
<1>. HIDE DEF S
<1>13. n \in S
  BY <1>0, <1>11, <1>12, NatInductive
<1>14. NextRow(b[1 .. n], prev, c, n)
  BY <1>0, <1>13 DEF S
<1>15. Step(prev, c) = b[1 .. n]
  BY <1>6, <1>7
<1>. QED BY <1>14, <1>15 DEF n

(* The first j bytes of the keyword.                                       *)
Leading(j) == SubSeq(keyword, 1, j)

(* s is the state of the automaton after the bytes of u: an entry tells    *)
(* whether u is e edits from the leading bytes of the keyword.             *)
IsState(s, u) ==
  /\ s \in [1 .. Size -> 0 .. Cap]
  /\ \A j \in 0 .. Len(keyword), e \in 0 .. k : s[j + 1] <= e <=> u \in Ball(Leading(j), e)

(* The leading bytes of the keyword, one at a time.                        *)
LEMMA LeadingIs ==
  ASSUME keyword \in Words
  PROVE  /\ Len(keyword) \in Nat /\ Size = Len(keyword) + 1
         /\ \A j \in 0 .. Len(keyword) : Leading(j) \in Words /\ Len(Leading(j)) = j
         /\ Leading(0) = << >> /\ Leading(Len(keyword)) = keyword
         /\ \A j \in Nat : j + 1 \in 1 .. Len(keyword) =>
              /\ Leading(j + 1) = Append(Leading(j), keyword[j + 1])
              /\ keyword[j + 1] \in Bytes
<1>1. Len(keyword) \in Nat /\ Size = Len(keyword) + 1
  BY WordLength DEF Size
<1>2. \A j \in 0 .. Len(keyword) :
        /\ Leading(j) \in Words /\ Len(Leading(j)) = j
        /\ \A i \in 1 .. j : Leading(j)[i] = keyword[i]
  BY Taken DEF Leading
<1>3. Leading(0) = << >>
  BY <1>1, <1>2, EmptySeq DEF Words
<1>4. Leading(Len(keyword)) = keyword
  BY <1>1, <1>2, SameWord
<1>5. ASSUME NEW j \in Nat, j + 1 \in 1 .. Len(keyword)
      PROVE  /\ Leading(j + 1) = Append(Leading(j), keyword[j + 1])
             /\ keyword[j + 1] \in Bytes
  BY <1>5, TakenNext, ByteOf DEF Leading
<1>. QED BY <1>1, <1>2, <1>3, <1>4, <1>5

(* Start is the state after no byte.                                       *)
LEMMA StartState ==
  ASSUME k \in Nat, keyword \in Words
  PROVE  IsState(Start, << >>)
<1>1. Len(keyword) \in Nat /\ Size = Len(keyword) + 1
  BY LeadingIs
<1>2. Start \in [1 .. Size -> 0 .. Cap]
  BY <1>1 DEF Start, Least2, Cap
<1>3. ASSUME NEW j \in 0 .. Len(keyword), NEW e \in 0 .. k
      PROVE  Start[j + 1] <= e <=> << >> \in Ball(Leading(j), e)
  <2>1. Leading(j) \in Words /\ Len(Leading(j)) = j
    BY LeadingIs
  <2>2. << >> \in Ball(Leading(j), e) <=> j <= e
    BY <2>1, NothingInBall
  <2>3. j + 1 \in 1 .. Size /\ (j + 1) - 1 = j
    BY <1>1
  <2>4. Start[j + 1] = Least2(j, Cap)
    BY <2>3 DEF Start
  <2>. QED BY <2>2, <2>4, <1>1 DEF Least2, Cap
<1>. QED BY <1>2, <1>3 DEF IsState

(* Step takes the state after u to the state after u and a byte.           *)
LEMMA StepState ==
  ASSUME k \in Nat, keyword \in Words, NEW u \in Words, NEW c \in Bytes,
         NEW prev, IsState(prev, u)
  PROVE  IsState(Step(prev, c), Append(u, c))
<1>. DEFINE r == Step(prev, c)
            n == Len(keyword)
            P(j) == \A e \in 0 .. k : r[j + 1] <= e <=> Append(u, c) \in Ball(Leading(j), e)
            S == {j \in Nat : j <= n => P(j)}
<1>0. n \in Nat /\ Size = n + 1 /\ Append(u, c) \in Words /\ Cap = k + 1 /\ Cap \in Nat
  BY LeadingIs, AppendWord DEF Cap
<1>1. /\ prev \in [1 .. Size -> 0 .. Cap]
      /\ \A j \in 0 .. n, e \in 0 .. k : prev[j + 1] <= e <=> u \in Ball(Leading(j), e)
  BY DEF IsState
<1>2. NextRow(r, prev, c, n)
  <2>1. prev \in [1 .. Size -> Nat]
    BY <1>0, <1>1
  <2>. QED BY <2>1, StepRow
<1>3. /\ r \in [1 .. Size -> 0 .. Cap]
      /\ r[1] = Least2(prev[1] + 1, Cap)
      /\ \A j \in 1 .. n : r[j + 1] = NextEntry(prev, c, j, r[j])
  BY <1>0, <1>2 DEF NextRow
<1>. HIDE DEF r
<1>4. 0 \in S
  <2>. SUFFICES ASSUME NEW e \in 0 .. k
                PROVE  r[0 + 1] <= e <=> Append(u, c) \in Ball(Leading(0), e)
    OBVIOUS
  <2>1. 0 + 1 = 1 /\ 0 \in 0 .. n /\ 1 \in 1 .. Size /\ e \in Nat
    BY <1>0
  <2>2. prev[1] \in 0 .. Cap
    BY <1>1, <2>1
  <2>3. r[0 + 1] <= e <=> e >= 1 /\ prev[1] <= e - 1
    BY <1>0, <1>3, <2>1, <2>2 DEF Least2
  <2>4. e >= 1 => (prev[1] <= e - 1 <=> u \in Ball(Leading(0), e - 1))
    <3>. SUFFICES ASSUME e >= 1 PROVE prev[1] <= e - 1 <=> u \in Ball(Leading(0), e - 1)
      OBVIOUS
    <3>1. e - 1 \in 0 .. k
      OBVIOUS
    <3>. QED BY <3>1, <1>1, <2>1
  <2>5. Append(u, c) \in Ball(<< >>, e) <=> e >= 1 /\ u \in Ball(<< >>, e - 1)
    BY <2>1, BallOfNothing
  <2>. QED BY <2>3, <2>4, <2>5, LeadingIs
<1>5. ASSUME NEW j \in Nat, j \in S
      PROVE  j + 1 \in S
  <2>. SUFFICES ASSUME j + 1 <= n, NEW e \in 0 .. k
                PROVE  r[(j + 1) + 1] <= e <=> Append(u, c) \in Ball(Leading(j + 1), e)
    <3>1. j + 1 \in Nat
      OBVIOUS
    <3>. QED BY <3>1
  <2>1. /\ j \in 0 .. n /\ j + 1 \in 0 .. n /\ j + 1 \in 1 .. n /\ e \in Nat
        /\ j + 1 \in 1 .. Size /\ (j + 1) + 1 \in 1 .. Size
    BY <1>0
  <2>2. P(j)
    BY <2>1, <1>5
  <2>. DEFINE v == Leading(j)
              d == keyword[j + 1]
              p == prev[j + 1]
              q == prev[(j + 1) + 1]
              l == r[j + 1]
  <2>3. v \in Words /\ d \in Bytes /\ Leading(j + 1) = Append(v, d)
    BY <2>1, LeadingIs
  <2>4. p \in 0 .. Cap /\ q \in 0 .. Cap /\ l \in 0 .. Cap
    BY <2>1, <1>1, <1>3
  <2>5. r[(j + 1) + 1] =
          Least2(Least2(p + (IF c = d THEN 0 ELSE 1), q + 1), Least2(l + 1, Cap))
    BY <2>1, <1>3 DEF NextEntry
  <2>6. /\ p <= e <=> u \in Ball(v, e)
        /\ e >= 1 => (p <= e - 1 <=> u \in Ball(v, e - 1))
        /\ e >= 1 => (q <= e - 1 <=> u \in Ball(Append(v, d), e - 1))
        /\ e >= 1 => (l <= e - 1 <=> Append(u, c) \in Ball(v, e - 1))
    <3>1. e >= 1 => e - 1 \in 0 .. k
      OBVIOUS
    <3>2. p <= e <=> u \in Ball(v, e)
      BY <2>1, <1>1
    <3>3. e >= 1 => (p <= e - 1 <=> u \in Ball(v, e - 1))
      BY <3>1, <2>1, <1>1
    <3>4. e >= 1 => (q <= e - 1 <=> u \in Ball(Leading(j + 1), e - 1))
      BY <3>1, <2>1, <1>1
    <3>5. e >= 1 => (l <= e - 1 <=> Append(u, c) \in Ball(v, e - 1))
      BY <3>1, <2>2
    <3>. QED BY <3>2, <3>3, <3>4, <3>5, <2>3
  <2>. HIDE DEF v, d, p, q, l, S, P
  <2>7. r[(j + 1) + 1] <= e <=>
          \/ c = d /\ p <= e
          \/ e >= 1 /\ p <= e - 1
          \/ e >= 1 /\ q <= e - 1
          \/ e >= 1 /\ l <= e - 1
    BY <2>4, <2>5, <1>0 DEF Least2
  <2>8. r[(j + 1) + 1] <= e <=> Reach(u, c, v, d, e)
    BY <2>6, <2>7 DEF Reach
  <2>. QED BY <2>1, <2>3, <2>8, BallReach
<1>6. \A j \in Nat : j \in S
  <2>. HIDE DEF S
  <2>. QED BY <1>4, <1>5, NatInductive
<1>7. \A j \in 0 .. n : P(j)
  <2>1. \A j \in 0 .. n : j \in Nat /\ j <= n
    BY <1>0
  <2>. HIDE DEF P
  <2>. QED BY <2>1, <1>6
<1>. QED BY <1>3, <1>7 DEF IsState, r

(* The word so far may still become one that is near the keyword.          *)
Alive(u) == \E j \in 0 .. Len(keyword) : u \in Ball(Leading(j), k)

(* Dead tells that no leading bytes of the keyword are within k edits.     *)
LEMMA DeadState ==
  ASSUME k \in Nat, keyword \in Words, NEW u, NEW s, IsState(s, u)
  PROVE  Dead(s) <=> ~Alive(u)
<1>0. Len(keyword) \in Nat /\ Size = Len(keyword) + 1 /\ k \in 0 .. k /\ Cap \in Nat
  BY LeadingIs DEF Cap
<1>1. \A j \in 0 .. Len(keyword) :
        /\ j + 1 \in 1 .. Size /\ s[j + 1] \in 0 .. Cap
        /\ s[j + 1] <= k <=> u \in Ball(Leading(j), k)
  BY <1>0 DEF IsState
<1>2. \A i \in 1 .. Size : i - 1 \in 0 .. Len(keyword) /\ (i - 1) + 1 = i
  BY <1>0
<1>3. ASSUME Dead(s), NEW j \in 0 .. Len(keyword)
      PROVE  u \notin Ball(Leading(j), k)
  <2>1. s[j + 1] > k
    BY <1>1, <1>3 DEF Dead
  <2>. QED BY <2>1, <1>0, <1>1
<1>4. ASSUME ~Alive(u), NEW i \in 1 .. Size
      PROVE  s[i] > k
  <2>1. u \notin Ball(Leading(i - 1), k)
    BY <1>2, <1>4 DEF Alive
  <2>2. ~(s[(i - 1) + 1] <= k) /\ s[(i - 1) + 1] \in 0 .. Cap
    BY <2>1, <1>1, <1>2
  <2>3. ~(s[i] <= k) /\ s[i] \in 0 .. Cap
    BY <2>2, <1>2
  <2>. QED BY <2>3, <1>0
<1>. QED BY <1>3, <1>4 DEF Dead, Alive

(* Accept tells that the whole keyword is within k edits.                  *)
LEMMA AcceptState ==
  ASSUME k \in Nat, keyword \in Words, NEW u, NEW s, IsState(s, u)
  PROVE  Accept(s) <=> u \in Ball(keyword, k)
<1>1. /\ Len(keyword) \in 0 .. Len(keyword) /\ k \in 0 .. k /\ Size = Len(keyword) + 1
      /\ Leading(Len(keyword)) = keyword
  BY LeadingIs
<1>2. s[Len(keyword) + 1] <= k <=> u \in Ball(Leading(Len(keyword)), k)
  BY <1>1 DEF IsState
<1>. QED BY <1>1, <1>2 DEF Accept

(* No byte brings a dead word to life.                                     *)
LEMMA DeadAppend ==
  ASSUME k \in Nat, keyword \in Words, NEW u \in Words, NEW c \in Bytes, Alive(Append(u, c))
  PROVE  Alive(u)
<1>. DEFINE S == {j \in Nat : j <= Len(keyword) =>
                    (Append(u, c) \in Ball(Leading(j), k) => Alive(u))}
<1>0. Len(keyword) \in Nat /\ Leading(0) = << >> /\ << >> \in Words
  BY LeadingIs DEF Words
<1>1. 0 \in S
  <2>. SUFFICES ASSUME Append(u, c) \in Ball(<< >>, k) PROVE Alive(u)
    BY <1>0
  <2>1. k >= 1 /\ u \in Ball(<< >>, k - 1)
    BY BallOfNothing
  <2>2. k - 1 \in Nat /\ k - 1 <= k
    BY <2>1
  <2>3. u \in Ball(<< >>, k)
    BY <1>0, <2>1, <2>2, BallMonotone
  <2>4. 0 \in 0 .. Len(keyword)
    BY <1>0
  <2>. QED BY <1>0, <2>3, <2>4 DEF Alive
<1>2. ASSUME NEW j \in Nat, j \in S
      PROVE  j + 1 \in S
  <2>. SUFFICES ASSUME j + 1 <= Len(keyword), Append(u, c) \in Ball(Leading(j + 1), k)
                PROVE  Alive(u)
    <3>1. j + 1 \in Nat
      OBVIOUS
    <3>. QED BY <3>1
  <2>1. j \in 0 .. Len(keyword) /\ j + 1 \in 0 .. Len(keyword) /\ j + 1 \in 1 .. Len(keyword)
    BY <1>0
  <2>2. /\ Leading(j) \in Words /\ keyword[j + 1] \in Bytes
        /\ Leading(j + 1) = Append(Leading(j), keyword[j + 1]) /\ Leading(j + 1) \in Words
    BY <2>1, LeadingIs
  <2>3. Reach(u, c, Leading(j), keyword[j + 1], k)
    BY <2>2, BallReach
  <2>4. ASSUME k >= 1
        PROVE  /\ Ball(Leading(j), k - 1) \subseteq Ball(Leading(j), k)
               /\ Ball(Leading(j + 1), k - 1) \subseteq Ball(Leading(j + 1), k)
    <3>1. k - 1 \in Nat /\ k - 1 <= k
      BY <2>4
    <3>. QED BY <3>1, <2>2, BallMonotone
  <2>5. \/ u \in Ball(Leading(j), k) \/ u \in Ball(Leading(j + 1), k)
        \/ Append(u, c) \in Ball(Leading(j), k)
    BY <2>2, <2>3, <2>4 DEF Reach
  <2>6. Append(u, c) \in Ball(Leading(j), k) => Alive(u)
    BY <2>1, <1>2
  <2>. QED BY <2>1, <2>5, <2>6 DEF Alive
<1>3. \A j \in Nat : j \in S
  <2>. HIDE DEF S
  <2>. QED BY <1>1, <1>2, NatInductive
<1>4. PICK j \in 0 .. Len(keyword) : Append(u, c) \in Ball(Leading(j), k)
  BY DEF Alive
<1>5. j \in S /\ j \in Nat /\ j <= Len(keyword)
  BY <1>0, <1>3
<1>. QED BY <1>4, <1>5

(* A word that starts with a dead one is not near the keyword.             *)
LEMMA DeadEnd ==
  ASSUME k \in Nat, keyword \in Words, NEW t \in Words, t \in Ball(keyword, k),
         NEW n \in 0 .. Len(t)
  PROVE  Alive(SubSeq(t, 1, n))
<1>. DEFINE S == {i \in Nat : i <= Len(t) => Alive(SubSeq(t, 1, Len(t) - i))}
<1>0. Len(t) \in Nat
  BY WordLength
<1>1. 0 \in S
  <2>1. Len(t) - 0 = Len(t) /\ Len(t) \in 0 .. Len(t)
    BY <1>0
  <2>2. SubSeq(t, 1, Len(t)) = t
    <3>1. /\ SubSeq(t, 1, Len(t)) \in Words /\ Len(SubSeq(t, 1, Len(t))) = Len(t)
          /\ \A i \in 1 .. Len(t) : SubSeq(t, 1, Len(t))[i] = t[i]
      BY <2>1, Taken
    <3>. QED BY <3>1, SameWord
  <2>3. Leading(Len(keyword)) = keyword /\ Len(keyword) \in 0 .. Len(keyword)
    BY LeadingIs
  <2>4. Alive(t)
    BY <2>3 DEF Alive
  <2>. QED BY <2>1, <2>2, <2>4
<1>2. ASSUME NEW i \in Nat, i \in S
      PROVE  i + 1 \in S
  <2>. SUFFICES ASSUME i + 1 <= Len(t)
                PROVE  Alive(SubSeq(t, 1, Len(t) - (i + 1)))
    OBVIOUS
  <2>. DEFINE p == Len(t) - (i + 1)
  <2>1. p \in Nat /\ p + 1 \in 1 .. Len(t) /\ p + 1 = Len(t) - i /\ p \in 0 .. Len(t)
    BY <1>0
  <2>2. Alive(SubSeq(t, 1, p + 1))
    <3>1. i <= Len(t)
      BY <1>0
    <3>2. Alive(SubSeq(t, 1, Len(t) - i))
      BY <1>2, <3>1
    <3>. QED BY <3>2, <2>1
  <2>. HIDE DEF p
  <2>3. SubSeq(t, 1, p + 1) = Append(SubSeq(t, 1, p), t[p + 1])
    BY <2>1, TakenNext
  <2>4. SubSeq(t, 1, p) \in Words /\ t[p + 1] \in Bytes
    BY <2>1, Taken, ByteOf
  <2>5. Alive(SubSeq(t, 1, p))
    BY <2>2, <2>3, <2>4, DeadAppend
  <2>. QED BY <2>5 DEF p
<1>3. \A i \in Nat : i \in S
  <2>. HIDE DEF S
  <2>. QED BY <1>1, <1>2, NatInductive
<1>4. Len(t) - n \in Nat /\ Len(t) - n <= Len(t) /\ Len(t) - (Len(t) - n) = n
  BY <1>0
<1>5. Len(t) - n \in S
  BY <1>3, <1>4
<1>. QED BY <1>4, <1>5

-----------------------------------------------------------------------------
(* The sorted tokens.                                                      *)

Order(V) == {p \in V \X V : Below(p[1], p[2])}

Ascends(y) == \A i, j \in DOMAIN y : i < j => Below(y[i], y[j])

(* Below orders the words of a set.                                        *)
LEMMA OrderIs ==
  ASSUME NEW V \in SUBSET Words
  PROVE  /\ \A v, w \in V : <<v, w>> \in Order(V) <=> Below(v, w)
         /\ Orders(Order(V), V)
         /\ \A w \in V : RankIn(Order(V), V, w) = Cardinality({v \in V : Below(v, w)})
<1>1. \A v, w \in V : <<v, w>> \in Order(V) <=> Below(v, w)
  <2>. TAKE v, w \in V
  <2>. DEFINE e == <<v, w>>
  <2>1. e \in V \X V /\ e[1] = v /\ e[2] = w
    OBVIOUS
  <2>. HIDE DEF e
  <2>2. e \in Order(V) <=> Below(v, w)
    BY <2>1 DEF Order
  <2>. QED BY <2>2 DEF e
<1>2. \A v \in V : <<v, v>> \notin Order(V)
  BY <1>1, BelowIrreflexive
<1>3. \A u, v, w \in V : <<u, v>> \in Order(V) /\ <<v, w>> \in Order(V) => <<u, w>> \in Order(V)
  <2>. TAKE u, v, w \in V
  <2>1. u \in Words /\ v \in Words /\ w \in Words
    OBVIOUS
  <2>2. Below(u, v) /\ Below(v, w) => Below(u, w)
    BY <2>1, BelowTransitive
  <2>. QED BY <2>2, <1>1
<1>4. \A v, w \in V : v # w => <<v, w>> \in Order(V) \/ <<w, v>> \in Order(V)
  BY <1>1, BelowTotal
<1>5. ASSUME NEW w \in V
      PROVE  RankIn(Order(V), V, w) = Cardinality({v \in V : Below(v, w)})
  <2>1. {v \in V : <<v, w>> \in Order(V)} = {v \in V : Below(v, w)}
    BY <1>1
  <2>. QED BY <2>1 DEF RankIn, Under
<1>6. Orders(Order(V), V)
  BY <1>2, <1>3, <1>4 DEF Orders
<1>. QED BY <1>1, <1>5, <1>6

(* Sorted lists the members of a set in ascending order.                   *)
LEMMA SortedIs ==
  ASSUME NEW V \in SUBSET Words, IsFiniteSet(V)
  PROVE  /\ Cardinality(V) \in Nat
         /\ Sorted(V) \in [1 .. Cardinality(V) -> V]
         /\ Len(Sorted(V)) = Cardinality(V) /\ DOMAIN Sorted(V) = 1 .. Cardinality(V)
         /\ \A i \in 1 .. Cardinality(V) : RankIn(Order(V), V, Sorted(V)[i]) = i - 1
         /\ \A w \in V : \E i \in 1 .. Cardinality(V) : w = Sorted(V)[i]
         /\ Ascends(Sorted(V))
<1>. DEFINE N == Cardinality(V)
            R == Order(V)
            s == Sorted(V)
            P(w, n) == w \in V /\ Cardinality({v \in V : Below(v, w)}) = n - 1
<1>1. /\ \A v, w \in V : <<v, w>> \in R <=> Below(v, w)
      /\ Orders(R, V)
      /\ \A w \in V : RankIn(R, V, w) = Cardinality({v \in V : Below(v, w)})
  BY OrderIs
<1>2. /\ N \in Nat
      /\ \A w \in V : RankIn(R, V, w) \in 0 .. N - 1
      /\ \A v, w \in V : <<v, w>> \in R => RankIn(R, V, v) < RankIn(R, V, w)
      /\ \A v, w \in V : RankIn(R, V, v) = RankIn(R, V, w) => v = w
      /\ \A n \in 1 .. N : \E w \in V : RankIn(R, V, w) = n - 1
  <2>. HIDE DEF R
  <2>. QED BY <1>1, Ranks
<1>. HIDE DEF R
<1>3. s = [n \in 1 .. N |-> CHOOSE w \in V : Cardinality({v \in V : Below(v, w)}) = n - 1]
  BY DEF Sorted
<1>. HIDE DEF N, s
<1>4. \A n \in 1 .. N : s[n] \in V /\ RankIn(R, V, s[n]) = n - 1
  <2>. TAKE n \in 1 .. N
  <2>1. \E w \in V : Cardinality({v \in V : Below(v, w)}) = n - 1
    BY <1>1, <1>2
  <2>2. s[n] = CHOOSE w \in V : Cardinality({v \in V : Below(v, w)}) = n - 1
    BY <1>3
  <2>3. s[n] \in V /\ Cardinality({v \in V : Below(v, s[n])}) = n - 1
    BY <2>1, <2>2
  <2>. QED BY <2>3, <1>1
<1>5. s \in [1 .. N -> V] /\ DOMAIN s = 1 .. N
  BY <1>3, <1>4
<1>6. Len(s) = N
  BY <1>2, <1>5, LenProperties
<1>7. \A w \in V : \E i \in 1 .. N : w = s[i]
  <2>. TAKE w \in V
  <2>1. RankIn(R, V, w) + 1 \in 1 .. N /\ (RankIn(R, V, w) + 1) - 1 = RankIn(R, V, w)
    BY <1>2
  <2>2. w = s[RankIn(R, V, w) + 1]
    BY <2>1, <1>4, <1>2
  <2>. QED BY <2>1, <2>2
<1>8. \A i, j \in 1 .. N : i < j => Below(s[i], s[j])
  <2>. SUFFICES ASSUME NEW i \in 1 .. N, NEW j \in 1 .. N, i < j, ~Below(s[i], s[j])
                PROVE  FALSE
    OBVIOUS
  <2>1. s[i] \in V /\ s[j] \in V /\ RankIn(R, V, s[i]) = i - 1 /\ RankIn(R, V, s[j]) = j - 1
    BY <1>4
  <2>2. s[i] # s[j]
    BY <2>1
  <2>3. Below(s[j], s[i])
    BY <2>1, <2>2, BelowTotal
  <2>4. RankIn(R, V, s[j]) < RankIn(R, V, s[i])
    BY <2>1, <2>3, <1>1, <1>2
  <2>. QED BY <2>1, <2>4
<1>. QED BY <1>2, <1>4, <1>5, <1>6, <1>7, <1>8 DEF Ascends, N, s, R

(* An ascending list that leaves out no member below one of its own is the *)
(* beginning of the sorted list.                                           *)
LEMMA SortedBegins ==
  ASSUME NEW V \in SUBSET Words, IsFiniteSet(V),
         NEW y \in Seq(V), Ascends(y),
         \A i \in 1 .. Len(y) : \A v \in V : Below(v, y[i]) => \E j \in 1 .. Len(y) : v = y[j]
  PROVE  Len(y) <= Cardinality(V) /\ y = SubSeq(Sorted(V), 1, Len(y))
<1>. DEFINE l == Len(y)
            R == Order(V)
            s == Sorted(V)
            N == Cardinality(V)
<1>1. l \in Nat /\ y \in [1 .. l -> V] /\ DOMAIN y = 1 .. l
  OBVIOUS
<1>2. /\ \A v, w \in V : <<v, w>> \in R <=> Below(v, w)
      /\ Orders(R, V)
  BY OrderIs
<1>3. /\ N \in Nat
      /\ \A w \in V : RankIn(R, V, w) \in 0 .. N - 1
      /\ \A v, w \in V : RankIn(R, V, v) = RankIn(R, V, w) => v = w
  <2>. HIDE DEF R
  <2>. QED BY <1>2, Ranks
<1>4. \A i, j \in 1 .. l : i < j => <<y[i], y[j]>> \in R
  BY <1>1, <1>2 DEF Ascends
<1>5. \A i \in 1 .. l : \A v \in V : <<v, y[i]>> \in R => \E j \in 1 .. l : v = y[j]
  BY <1>1, <1>2
<1>6. \A i \in 1 .. l : RankIn(R, V, y[i]) = i - 1
  <2>. HIDE DEF R, l
  <2>. QED BY <1>1, <1>2, <1>4, <1>5, RankOfListed
<1>7. /\ s \in [1 .. N -> V] /\ Len(s) = N
      /\ \A i \in 1 .. N : RankIn(R, V, s[i]) = i - 1
  BY SortedIs
<1>. HIDE DEF R, s, N
<1>8. l <= N
  <2>1. CASE l = 0
    BY <2>1, <1>3
  <2>2. CASE l # 0
    <3>1. l \in 1 .. l /\ y[l] \in V
      BY <1>1, <2>2
    <3>2. l - 1 \in 0 .. N - 1
      BY SMTT(30), <3>1, <1>3, <1>6
    <3>. QED BY <3>1, <3>2, <1>3
  <2>. QED BY <2>1, <2>2
<1>9. \A i \in 1 .. l : s[i] = y[i]
  <2>. TAKE i \in 1 .. l
  <2>1. i \in 1 .. N /\ y[i] \in V /\ s[i] \in V
    BY <1>1, <1>3, <1>7, <1>8
  <2>2. RankIn(R, V, s[i]) = RankIn(R, V, y[i])
    BY <2>1, <1>6, <1>7
  <2>. QED BY <2>1, <2>2, <1>3
<1>10. SubSeq(s, 1, l) \in Seq(V) /\ Len(SubSeq(s, 1, l)) = l
       /\ \A i \in 1 .. l : SubSeq(s, 1, l)[i] = s[i]
  <2>1. 1 \in Int /\ l \in Int /\ \A i \in 1 .. l : s[i] \in V
    BY <1>1, <1>3, <1>7, <1>8
  <2>2. /\ SubSeq(s, 1, l) \in Seq(V)
        /\ Len(SubSeq(s, 1, l)) = IF 1 <= l THEN l - 1 + 1 ELSE 0
        /\ \A i \in 1 .. l - 1 + 1 : SubSeq(s, 1, l)[i] = s[1 + i - 1]
    <3>. HIDE DEF l
    <3>. QED BY <2>1, SubSeqProperties
  <2>3. l - 1 + 1 = l /\ \A i \in 1 .. l : 1 + i - 1 = i
    BY <1>1
  <2>. QED BY <2>2, <2>3, <1>1
<1>11. y = SubSeq(s, 1, l)
  <2>. DEFINE z == SubSeq(s, 1, l)
  <2>1. z \in Seq(V) /\ Len(z) = Len(y) /\ \A i \in 1 .. Len(y) : z[i] = y[i]
    BY <1>9, <1>10
  <2>. HIDE DEF z
  <2>2. y = z
    BY <2>1, SeqEqual
  <2>. QED BY <2>2 DEF z
<1>. QED BY <1>8, <1>11 DEF s, N

(* It is the sorted list when it leaves out no member at all.              *)
LEMMA SortedWhole ==
  ASSUME NEW V \in SUBSET Words, IsFiniteSet(V),
         NEW y \in Seq(V), Len(y) <= Cardinality(V), y = SubSeq(Sorted(V), 1, Len(y)),
         \A v \in V : \E i \in 1 .. Len(y) : v = y[i]
  PROVE  Len(y) = Cardinality(V)
<1>. DEFINE s == Sorted(V)
            N == Cardinality(V)
            l == Len(y)
<1>1. /\ N \in Nat /\ s \in [1 .. N -> V] /\ DOMAIN s = 1 .. N /\ Ascends(s)
  BY SortedIs
<1>2. l \in Nat /\ l <= N /\ y = SubSeq(s, 1, l)
  OBVIOUS
<1>. HIDE DEF s, N
<1>3. SUFFICES ASSUME l # N PROVE FALSE
  BY DEF N
<1>4. l + 1 \in 1 .. N
  <2>. HIDE DEF l
  <2>. QED BY <1>1, <1>2, <1>3
<1>5. PICK i \in 1 .. l : s[l + 1] = y[i]
  <2>1. s[l + 1] \in V
    BY <1>1, <1>4
  <2>. QED BY <2>1
<1>6. y[i] = s[i]
  <2>1. 1 \in Int /\ l \in Int /\ \A j \in 1 .. l : s[j] \in V
    <3>. HIDE DEF l
    <3>. QED BY <1>1, <1>2
  <2>. HIDE DEF l
  <2>2. \A j \in 1 .. l - 1 + 1 : SubSeq(s, 1, l)[j] = s[1 + j - 1]
    BY <2>1, SubSeqProperties
  <2>3. l - 1 + 1 = l /\ 1 + i - 1 = i
    BY <1>2
  <2>4. SubSeq(s, 1, l)[i] = s[i]
    BY <2>2, <2>3
  <2>. QED BY <1>2, <2>4
<1>. HIDE DEF l
<1>7. i \in DOMAIN s /\ l + 1 \in DOMAIN s /\ i < l + 1
  BY <1>1, <1>2, <1>4
<1>8. Below(s[i], s[i]) /\ s[i] \in Words
  <2>1. Below(s[i], s[l + 1]) /\ s[i] \in V
    BY <1>1, <1>7 DEF Ascends
  <2>. QED BY <1>5, <1>6, <2>1
<1>. QED BY <1>8, BelowIrreflexive

-----------------------------------------------------------------------------
(* The inductive invariant.                                                *)

WantedSet == {t \in ToSet(tokens) : IsNear(t)}

(* The stack st holds the states of the automaton of w and d after each    *)
(* prefix of x.                                                            *)
StatesOf(st, x, w, d) ==
  /\ st \in Seq([1 .. Len(w) + 1 -> 0 .. d + 1]) /\ Len(st) >= 1
  /\ \A n \in 1 .. Len(st) : \A j \in 0 .. Len(w), e \in 0 .. d :
       st[n][j + 1] <= e <=> SubSeq(x, 1, n - 1) \in Ball(SubSeq(w, 1, j), e)

(* The first n bytes of x may still become a word d edits from w.          *)
Open(x, n, w, d) == \E j \in 0 .. Len(w) : SubSeq(x, 1, n) \in Ball(SubSeq(w, 1, j), d)

(* A lookup that is over has yielded all that was wanted, or as many as it *)
(* was asked for.                                                          *)
Complete ==
  \/ ToSet(yielded) = WantedSet /\ (m > 0 => Len(yielded) <= m)
  \/ /\ m > 0 /\ Len(yielded) = m
     /\ ToSet(yielded) = {t \in WantedSet : t = key \/ Below(t, key)}

(* What has been yielded, at each point of the loop.                       *)
Progress ==
  /\ yielded \in Seq(WantedSet) /\ Ascends(yielded)
  /\ pc = "new" => seek = << >> /\ yielded = << >>
  /\ pc = "lookup" => ToSet(yielded) = {t \in WantedSet : Below(t, seek)}
  /\ pc = "walk" => ToSet(yielded) = {t \in WantedSet : Below(t, key)}
  /\ pc = "seek" =>
       /\ ToSet(yielded) = {t \in WantedSet : t = key \/ Below(t, key)}
       /\ Len(stack) - 1 < Len(key) => ~Open(key, Len(stack), keyword, k)
  /\ pc \in {"new", "lookup", "walk", "seek"} /\ m > 0 => Len(yielded) < m
  /\ pc = "done" => Complete

Inv ==
  /\ TypeOK
  /\ tokens \in {Sorted(V) : V \in Vocabularies}
  /\ pc \in {"walk", "seek"} => key \in ToSet(tokens) /\ StatesOf(stack, key, keyword, k)
  /\ Progress

(* What New was given.                                                     *)
LEMMA AskedIs ==
  ASSUME TypeOK
  PROVE  /\ k \in Nat /\ keyword \in Words /\ m \in Int
         /\ \A t : IsNear(t) <=> t \in Ball(keyword, k)
<1>1. k \in Nat /\ keyword \in Words /\ m \in Int /\ keyword \in Keywords /\ k \in Ks
  BY LevenshteinAssumption DEF TypeOK, Words
<1>. DEFINE e == <<keyword, k>>
<1>2. e \in Keywords \X Ks /\ e[1] = keyword /\ e[2] = k
  BY <1>1
<1>. HIDE DEF e
<1>3. Balls[e] = Ball(keyword, k)
  BY <1>2 DEF Balls
<1>. QED BY <1>1, <1>3 DEF IsNear, e

(* The tokens ascend, and so do those that are wanted.                     *)
LEMMA TokensAre ==
  ASSUME TypeOK, tokens \in {Sorted(V) : V \in Vocabularies}
  PROVE  /\ Len(tokens) \in Nat /\ DOMAIN tokens = 1 .. Len(tokens)
         /\ \A i \in DOMAIN tokens : tokens[i] \in Words
         /\ Ascends(tokens)
         /\ ToSet(tokens) \in SUBSET Words /\ IsFiniteSet(ToSet(tokens))
         /\ \A t : t \in ToSet(tokens) <=> \E i \in DOMAIN tokens : t = tokens[i]
         /\ WantedSet \in SUBSET Words /\ IsFiniteSet(WantedSet)
         /\ WantedSet \in SUBSET ToSet(tokens)
<1>1. PICK V \in Vocabularies : tokens = Sorted(V)
  OBVIOUS
<1>2. V \in SUBSET Words /\ IsFiniteSet(V)
  BY LevenshteinAssumption DEF Words
<1>3. /\ Cardinality(V) \in Nat
      /\ tokens \in [1 .. Cardinality(V) -> V]
      /\ Len(tokens) = Cardinality(V) /\ DOMAIN tokens = 1 .. Cardinality(V)
      /\ \A w \in V : \E i \in 1 .. Cardinality(V) : w = tokens[i]
      /\ Ascends(tokens)
  BY <1>1, <1>2, SortedIs
<1>4. \A t : t \in ToSet(tokens) <=> \E i \in DOMAIN tokens : t = tokens[i]
  BY DEF ToSet
<1>5. ToSet(tokens) = V
  <2>1. \A t \in ToSet(tokens) : t \in V
    BY <1>3, <1>4
  <2>2. \A t \in V : t \in ToSet(tokens)
    BY <1>3, <1>4
  <2>. QED BY <2>1, <2>2
<1>6. WantedSet \in SUBSET V
  BY <1>5 DEF WantedSet
<1>7. IsFiniteSet(WantedSet)
  BY <1>2, <1>6, FS_Subset
<1>. QED BY <1>2, <1>3, <1>4, <1>5, <1>6, <1>7

(* The definitions of the invariant and those of the automaton.            *)
LEMMA StatesAre ==
  ASSUME NEW st, NEW x
  PROVE  /\ StatesOf(st, x, keyword, k) <=>
              /\ st \in Seq([1 .. Size -> 0 .. Cap]) /\ Len(st) >= 1
              /\ \A n \in 1 .. Len(st) : IsState(st[n], SubSeq(x, 1, n - 1))
         /\ \A n : Open(x, n, keyword, k) <=> Alive(SubSeq(x, 1, n))
<1>1. \A n : Open(x, n, keyword, k) <=> Alive(SubSeq(x, 1, n))
  BY DEF Open, Alive, Leading
<1>2. ASSUME st \in Seq([1 .. Size -> 0 .. Cap])
      PROVE  \A n \in 1 .. Len(st) : st[n] \in [1 .. Size -> 0 .. Cap]
  BY <1>2
<1>3. StatesOf(st, x, keyword, k) <=>
        /\ st \in Seq([1 .. Size -> 0 .. Cap]) /\ Len(st) >= 1
        /\ \A n \in 1 .. Len(st) : IsState(st[n], SubSeq(x, 1, n - 1))
  BY <1>2 DEF StatesOf, IsState, Leading, Size, Cap
<1>. QED BY <1>1, <1>3

(* The invariant holds at first.                                           *)
LEMMA InitInv ==
  ASSUME Init
  PROVE  Inv
<1>1. TypeOK
  <2>1. << >> \in Seq(Bytes) /\ DOMAIN stack = {} /\ ToSet(yielded) = {} /\ Len(<< >>) = 0
    BY DEF Init, ToSet
  <2>. QED BY <2>1 DEF Init, TypeOK
<1>2. yielded \in Seq(WantedSet) /\ Ascends(yielded) /\ Len(yielded) = 0
  BY DEF Init, Ascends
<1>3. Progress
  BY <1>2 DEF Init, Progress
<1>. QED BY <1>1, <1>3 DEF Init, Inv

(* What was asked for does not change, nor what is wanted.                 *)
LEMMA AskedStays ==
  ASSUME UNCHANGED Asked
  PROVE  /\ keyword' = keyword /\ k' = k /\ m' = m /\ tokens' = tokens
         /\ WantedSet' = WantedSet /\ Size' = Size /\ Cap' = Cap
  BY DEF Asked, WantedSet, IsNear, Size, Cap

(* New keeps it: nothing has been yielded, and nothing is below no byte.   *)
LEMMA NewKeeps ==
  ASSUME Inv, New
  PROVE  Inv'
<1>1. /\ keyword' = keyword /\ k' = k /\ m' = m /\ tokens' = tokens
      /\ WantedSet' = WantedSet /\ Size' = Size /\ Cap' = Cap
  BY AskedStays DEF New
<1>2. TypeOK'
  BY <1>1 DEF Inv, TypeOK, New, Dead
<1>3. /\ pc' = "lookup" \/ pc' = "panicked"
      /\ seek' = << >> /\ yielded' = << >> /\ yielded' = yielded
  BY DEF Inv, Progress, New
<1>4. ToSet(yielded') = {t \in WantedSet : Below(t, seek')}
  <2>1. ToSet(<< >>) = {}
    BY DEF ToSet
  <2>2. \A t \in WantedSet : t \in Words
    BY TokensAre DEF Inv
  <2>3. ASSUME NEW t \in Words, Below(t, << >>)
        PROVE  FALSE
    <3>1. << >> \in Words
      BY DEF Words
    <3>2. PICK n \in Nat : Parts(t, << >>, n)
      BY <2>3, <3>1, BelowIs
    <3>. QED BY <3>2 DEF Parts
  <2>. QED BY <1>3, <2>1, <2>2, <2>3
<1>5. m > 0 => Len(yielded) < m
  BY DEF Inv, Progress, New
<1>6. Progress'
  BY <1>1, <1>3, <1>4, <1>5 DEF Inv, Progress
<1>. QED BY <1>1, <1>2, <1>3, <1>6 DEF Inv

(* Lookup keeps it: the tokens it passes over are below the pivot.         *)
LEMMA LookupKeeps ==
  ASSUME Inv, Lookup
  PROVE  Inv'
<1>. DEFINE at == {n \in DOMAIN tokens : ~Below(tokens[n], seek)}
<1>0. /\ pc = "lookup" /\ UNCHANGED Asked /\ seek' = seek /\ yielded' = yielded
      /\ at = {} => pc' = "done" /\ key' = key /\ stack' = stack
      /\ at # {} => pc' = "walk" /\ key' = tokens[Min(at)] /\ stack' = <<Start>>
  BY DEF Lookup
<1>1. /\ keyword' = keyword /\ k' = k /\ m' = m /\ tokens' = tokens
      /\ WantedSet' = WantedSet /\ Size' = Size /\ Cap' = Cap
  BY <1>0, AskedStays
<1>2. /\ Len(tokens) \in Nat /\ DOMAIN tokens = 1 .. Len(tokens)
      /\ \A i \in DOMAIN tokens : tokens[i] \in Words
      /\ Ascends(tokens)
      /\ \A t : t \in ToSet(tokens) <=> \E i \in DOMAIN tokens : t = tokens[i]
      /\ WantedSet \in SUBSET Words /\ WantedSet \in SUBSET ToSet(tokens)
  BY TokensAre DEF Inv
<1>3. seek \in Words /\ TypeOK /\ k \in Nat /\ keyword \in Words
  BY AskedIs DEF Inv, TypeOK, Words
<1>4. /\ yielded \in Seq(WantedSet) /\ Ascends(yielded)
      /\ ToSet(yielded) = {t \in WantedSet : Below(t, seek)}
      /\ m > 0 => Len(yielded) < m
  BY <1>0 DEF Inv, Progress
<1>. HIDE DEF at
<1>5. CASE at = {}
  <2>1. pc' = "done" /\ key' = key /\ stack' = stack
    BY <1>0, <1>5
  <2>2. TypeOK'
    BY <1>0, <1>1, <1>3, <2>1 DEF TypeOK, Dead
  <2>3. ToSet(yielded) = WantedSet
    <3>1. \A t \in WantedSet : Below(t, seek)
      <4>. TAKE t \in WantedSet
      <4>1. PICK i \in DOMAIN tokens : t = tokens[i]
        BY <1>2
      <4>2. i \notin at
        BY <1>5
      <4>. QED BY <4>1, <4>2 DEF at
    <3>. QED BY <1>4, <3>1
  <2>4. m > 0 => Len(yielded) <= m
    <3>1. m \in Int /\ Len(yielded) \in Nat
      BY <1>3, <1>4, AskedIs
    <3>. QED BY <3>1, <1>4
  <2>5. Complete'
    BY <1>0, <1>1, <2>3, <2>4 DEF Complete
  <2>6. Progress'
    BY <1>0, <1>1, <1>4, <2>1, <2>5 DEF Progress
  <2>. QED BY <1>1, <2>1, <2>2, <2>6 DEF Inv
<1>6. CASE at # {}
  <2>1. pc' = "walk" /\ key' = tokens[Min(at)] /\ stack' = <<Start>>
    BY <1>0, <1>6
  <2>2. Min(at) \in at /\ \A n \in at : Min(at) <= n
    <3>1. at \in SUBSET Nat
      BY <1>2 DEF at
    <3>. QED BY <1>6, <3>1, MinOfNumbers
  <2>. DEFINE f == Min(at)
  <2>3. /\ f \in DOMAIN tokens /\ f \in 1 .. Len(tokens)
        /\ ~Below(tokens[f], seek)
        /\ \A n \in DOMAIN tokens : n < f => Below(tokens[n], seek)
    <3>1. \A n \in DOMAIN tokens : n \notin at => Below(tokens[n], seek)
      BY DEF at
    <3>2. f \in DOMAIN tokens /\ ~Below(tokens[f], seek)
      BY <2>2 DEF at
    <3>3. \A n \in DOMAIN tokens : n < f => n \notin at
      BY <1>2, <2>2, <3>2
    <3>. QED BY <1>2, <3>1, <3>2, <3>3
  <2>. HIDE DEF f
  <2>4. key' = tokens[f] /\ key' \in Words /\ key' \in ToSet(tokens)
    BY <1>2, <2>1, <2>3 DEF f
  <2>5. ToSet(yielded) = {t \in WantedSet : Below(t, tokens[f])}
    <3>1. ASSUME NEW t \in WantedSet, Below(t, seek)
          PROVE  Below(t, tokens[f])
      <4>1. t \in Words /\ tokens[f] \in Words
        BY <1>2, <2>3
      <4>2. tokens[f] = seek \/ Below(seek, tokens[f])
        BY <1>3, <2>3, <4>1, BelowTotal
      <4>. QED BY <1>3, <3>1, <4>1, <4>2, BelowTransitive
    <3>2. ASSUME NEW t \in WantedSet, Below(t, tokens[f])
          PROVE  Below(t, seek)
      <4>1. PICK i \in DOMAIN tokens : t = tokens[i]
        BY <1>2
      <4>2. tokens[i] \in Words /\ tokens[f] \in Words
        BY <1>2, <2>3
      <4>3. i < f
        <5>. SUFFICES ASSUME ~(i < f) PROVE FALSE
          OBVIOUS
        <5>1. i = f \/ f < i
          BY <1>2, <2>3
        <5>2. f < i => Below(tokens[f], tokens[i])
          BY <1>2, <2>3 DEF Ascends
        <5>3. Below(tokens[f], tokens[f])
          BY <3>2, <4>1, <4>2, <5>1, <5>2, BelowTransitive
        <5>. QED BY <4>2, <5>3, BelowIrreflexive
      <4>. QED BY <2>3, <4>1, <4>3
    <3>. QED BY <1>4, <3>1, <3>2
  <2>6. StatesOf(<<Start>>, key', keyword, k) /\ ~Dead(Start) /\ Start \in [1 .. Size -> 0 .. Cap]
    <3>1. IsState(Start, << >>)
      BY <1>3, StartState
    <3>2. SubSeq(key', 1, 0) = << >>
      <4>1. Len(key') \in Nat
        BY <2>4, WordLength
      <4>2. 0 \in 0 .. Len(key')
        BY <4>1
      <4>3. SubSeq(key', 1, 0) \in Words /\ Len(SubSeq(key', 1, 0)) = 0
        BY <2>4, <4>2, Taken
      <4>. QED BY <4>3, EmptySeq DEF Words
    <3>3. Start \in [1 .. Size -> 0 .. Cap]
      BY <3>1 DEF IsState
    <3>. DEFINE st == <<Start>>
                A == [1 .. Size -> 0 .. Cap]
    <3>4. /\ st \in Seq(A) /\ Len(st) = 1 /\ Len(st) >= 1
          /\ \A n \in 1 .. Len(st) : IsState(st[n], SubSeq(key', 1, n - 1))
      <4>. HIDE DEF A
      <4>1. st \in Seq(A) /\ Len(st) = 1 /\ st[1] = Start
        BY <3>3 DEF A
      <4>2. 1 - 1 = 0 /\ \A n \in 1 .. Len(st) : n = 1
        BY <4>1
      <4>. HIDE DEF st
      <4>3. IsState(st[1], SubSeq(key', 1, 0))
        BY <4>1, <3>1, <3>2
      <4>4. \A n \in 1 .. Len(st) : IsState(st[n], SubSeq(key', 1, n - 1))
        <5>. TAKE n \in 1 .. Len(st)
        <5>1. n = 1 /\ n - 1 = 0
          BY <4>2
        <5>. QED BY <4>3, <5>1
      <4>. QED BY <4>1, <4>4 DEF A
    <3>5. Alive(<< >>)
      <4>1. Leading(0) = << >> /\ 0 \in 0 .. Len(keyword) /\ << >> \in Words
        BY <1>3, LeadingIs DEF Words
      <4>2. << >> \in Ball(<< >>, k)
        <5>1. Len(<< >>) <= k
          BY <1>3
        <5>. QED BY <1>3, <4>1, <5>1, NothingInBall
      <4>. QED BY <4>1, <4>2 DEF Alive
    <3>6. ~Dead(Start)
      BY <1>3, <3>1, <3>5, DeadState
    <3>7. StatesOf(st, key', keyword, k)
      <4>. HIDE DEF st
      <4>. QED BY <3>4, StatesAre
    <3>. QED BY <3>3, <3>6, <3>7
  <2>7. TypeOK'
    <3>1. DOMAIN stack' = {1} /\ stack'[1] = Start /\ Len(stack') = 1 /\ Len(key') \in Nat
      BY <2>1, <2>4, WordLength
    <3>2. \A n \in DOMAIN stack' : stack'[n] \in [1 .. Size' -> 0 .. Cap'] /\ ~Dead(stack[n])'
      BY <1>1, <2>6, <3>1 DEF Dead
    <3>. QED BY <1>0, <1>1, <1>3, <2>1, <2>4, <3>1, <3>2 DEF TypeOK, Words
  <2>8. Progress'
    BY <1>0, <1>1, <1>4, <2>1, <2>4, <2>5 DEF Progress
  <2>. QED BY <1>0, <1>1, <2>1, <2>4, <2>6, <2>7, <2>8 DEF Inv
<1>. QED BY <1>5, <1>6

(* The state after the first n bytes of the key and another byte.          *)
LEMMA NextState ==
  ASSUME k \in Nat, keyword \in Words, NEW x \in Words, NEW st,
         StatesOf(st, x, keyword, k), Len(st) <= Len(x) + 1,
         NEW n \in Nat, n + 1 \in 1 .. Len(st), NEW c \in Bytes
  PROVE  /\ SubSeq(x, 1, n) \in Words
         /\ IsState(st[n + 1], SubSeq(x, 1, n))
         /\ IsState(Step(st[n + 1], c), Append(SubSeq(x, 1, n), c))
<1>1. n \in 0 .. Len(x) /\ (n + 1) - 1 = n
  <2>1. Len(st) \in Nat /\ Len(x) \in Nat
    BY WordLength DEF StatesOf
  <2>. QED BY <2>1
<1>2. SubSeq(x, 1, n) \in Words
  BY <1>1, Taken
<1>3. IsState(st[n + 1], SubSeq(x, 1, n))
  <2>1. \A i \in 1 .. Len(st) : IsState(st[i], SubSeq(x, 1, i - 1))
    BY StatesAre
  <2>2. IsState(st[n + 1], SubSeq(x, 1, (n + 1) - 1))
    BY <2>1
  <2>. QED BY <1>1, <2>2
<1>. QED BY <1>2, <1>3, StepState

(* What the invariant says while a token is looked at.                     *)
LEMMA LookingAt ==
  ASSUME Inv, pc \in {"walk", "seek"}
  PROVE  /\ k \in Nat /\ keyword \in Words /\ m \in Int /\ key \in Words
         /\ key \in ToSet(tokens)
         /\ Len(key) \in Nat /\ Len(stack) \in Nat /\ Len(stack) >= 1
         /\ Len(stack) <= Len(key) + 1 /\ DOMAIN stack = 1 .. Len(stack)
         /\ stack \in Seq([1 .. Size -> 0 .. Cap])
         /\ StatesOf(stack, key, keyword, k)
         /\ WantedSet \in SUBSET Words
         /\ \A t \in WantedSet : t \in Ball(keyword, k)
         /\ key \in WantedSet <=> key \in Ball(keyword, k)
         /\ yielded \in Seq(WantedSet) /\ Ascends(yielded)
<1>1. k \in Nat /\ keyword \in Words /\ m \in Int /\ \A t : IsNear(t) <=> t \in Ball(keyword, k)
  BY AskedIs DEF Inv
<1>2. key \in Words /\ key \in ToSet(tokens) /\ Len(stack) <= Len(key) + 1
  BY DEF Inv, TypeOK, Words
<1>3. Len(key) \in Nat
  BY <1>2, WordLength
<1>4. StatesOf(stack, key, keyword, k)
  BY DEF Inv
<1>5. stack \in Seq([1 .. Size -> 0 .. Cap]) /\ Len(stack) >= 1
  BY <1>4, StatesAre
<1>6. Len(stack) \in Nat /\ DOMAIN stack = 1 .. Len(stack)
  BY <1>5
<1>7. WantedSet \in SUBSET Words
  BY TokensAre DEF Inv
<1>8. /\ \A t \in WantedSet : t \in Ball(keyword, k)
      /\ key \in WantedSet <=> key \in Ball(keyword, k)
  BY <1>1, <1>2 DEF WantedSet
<1>9. yielded \in Seq(WantedSet) /\ Ascends(yielded)
  BY DEF Inv, Progress
<1>. QED BY <1>1, <1>2, <1>3, <1>4, <1>5, <1>6, <1>7, <1>8, <1>9

(* Consume keeps it: a dead state rules the key out.                       *)
LEMMA ConsumeKeeps ==
  ASSUME Inv, Consume
  PROVE  Inv'
<1>. DEFINE l == Len(stack)
            next == Step(Last(stack), key[Matched + 1])
            A == [1 .. Size -> 0 .. Cap]
<1>0. /\ pc = "walk" /\ Len(stack) - 1 # Len(key) /\ UNCHANGED Asked
      /\ seek' = seek /\ key' = key /\ yielded' = yielded
      /\ Dead(next) => pc' = "seek" /\ stack' = stack
      /\ ~Dead(next) => stack' = Append(stack, next) /\ pc' = pc
  BY DEF Consume, Consumed, Matched
<1>1. /\ keyword' = keyword /\ k' = k /\ m' = m /\ tokens' = tokens
      /\ WantedSet' = WantedSet /\ Size' = Size /\ Cap' = Cap
  BY <1>0, AskedStays
<1>2. /\ k \in Nat /\ keyword \in Words /\ m \in Int /\ key \in Words
      /\ key \in ToSet(tokens)
      /\ Len(key) \in Nat /\ Len(stack) \in Nat /\ Len(stack) >= 1
      /\ Len(stack) <= Len(key) + 1 /\ DOMAIN stack = 1 .. Len(stack)
      /\ stack \in Seq(A)
      /\ StatesOf(stack, key, keyword, k)
      /\ WantedSet \in SUBSET Words
      /\ \A t \in WantedSet : t \in Ball(keyword, k)
      /\ yielded \in Seq(WantedSet) /\ Ascends(yielded)
  BY <1>0, LookingAt
<1>3. /\ ToSet(yielded) = {t \in WantedSet : Below(t, key)}
      /\ m > 0 => Len(yielded) < m
      /\ TypeOK
  BY <1>0 DEF Inv, Progress
<1>4. /\ l \in 1 .. Len(key) /\ l \in 1 .. Len(stack) /\ l \in 0 .. Len(key)
      /\ l - 1 \in Nat /\ (l - 1) + 1 = l
  <2>1. l \in Nat /\ l >= 1 /\ l - 1 # Len(key) /\ l <= Len(key) + 1 /\ Len(key) \in Nat
    BY <1>0, <1>2
  <2>2. l = Len(stack)
    OBVIOUS
  <2>. HIDE DEF l
  <2>. QED BY <2>1, <2>2
<1>5. next = Step(stack[l], key[l])
  BY <1>4 DEF Last, Matched
<1>6. key[l] \in Bytes
  BY <1>2, <1>4, ByteOf
<1>7. IsState(next, SubSeq(key, 1, l))
  <2>1. IsState(Step(stack[(l - 1) + 1], key[l]), Append(SubSeq(key, 1, l - 1), key[l]))
    <3>. HIDE DEF l
    <3>. QED BY <1>2, <1>4, <1>6, NextState
  <2>2. SubSeq(key, 1, (l - 1) + 1) = Append(SubSeq(key, 1, l - 1), key[(l - 1) + 1])
    <3>. HIDE DEF l
    <3>. QED BY <1>2, <1>4, TakenNext
  <2>. QED BY <2>1, <2>2, <1>4, <1>5
<1>. HIDE DEF l, next, A
<1>8. CASE Dead(next)
  <2>1. pc' = "seek" /\ stack' = stack
    BY <1>0, <1>8
  <2>2. ~Alive(SubSeq(key, 1, l))
    BY <1>2, <1>7, <1>8, DeadState
  <2>3. ~Open(key, Len(stack), keyword, k)
    BY <2>2, StatesAre DEF l
  <2>4. key \notin WantedSet
    BY <1>2, <1>4, <2>2, DeadEnd
  <2>5. ToSet(yielded) = {t \in WantedSet : t = key \/ Below(t, key)}
    BY <1>3, <2>4
  <2>6. TypeOK'
    BY <1>0, <1>1, <1>3, <2>1 DEF TypeOK, Dead
  <2>7. Progress'
    BY <1>0, <1>1, <1>2, <1>3, <2>1, <2>3, <2>5 DEF Progress
  <2>. QED BY <1>0, <1>1, <1>2, <2>1, <2>6, <2>7 DEF Inv
<1>9. CASE ~Dead(next)
  <2>1. pc' = "walk" /\ stack' = Append(stack, next)
    BY <1>0, <1>9
  <2>2. next \in A
    BY <1>7 DEF IsState, A
  <2>3. /\ stack' \in Seq(A) /\ Len(stack') = l + 1
        /\ \A n \in 1 .. l : stack'[n] = stack[n]
        /\ stack'[l + 1] = next
    BY <1>2, <2>1, <2>2, AppendProperties DEF l
  <2>4. \A n \in 1 .. Len(stack') : IsState(stack'[n], SubSeq(key, 1, n - 1))
    <3>. TAKE n \in 1 .. Len(stack')
    <3>1. CASE n \in 1 .. l
      <4>1. IsState(stack[n], SubSeq(key, 1, n - 1))
        BY <1>2, <3>1, StatesAre DEF l
      <4>. QED BY <2>3, <3>1, <4>1
    <3>2. CASE n = l + 1
      <4>1. n - 1 = l
        BY <1>4, <3>2
      <4>. QED BY <1>7, <2>3, <3>2, <4>1
    <3>. QED BY <1>4, <2>3, <3>1, <3>2
  <2>5. StatesOf(stack', key, keyword, k)
    <3>1. Len(stack') >= 1
      BY <1>4, <2>3
    <3>. QED BY <2>3, <2>4, <3>1, StatesAre DEF A
  <2>6. TypeOK'
    <3>1. DOMAIN stack' = 1 .. l + 1 /\ Len(stack') <= Len(key) + 1
      BY <1>2, <1>4, <2>3
    <3>2. \A n \in DOMAIN stack' : stack'[n] \in [1 .. Size' -> 0 .. Cap'] /\ ~Dead(stack[n])'
      <4>. TAKE n \in DOMAIN stack'
      <4>1. CASE n \in 1 .. l
        <5>1. stack'[n] = stack[n] /\ n \in DOMAIN stack
          BY <1>2, <2>3, <4>1 DEF l
        <5>. QED BY <1>1, <1>3, <5>1 DEF TypeOK, Dead
      <4>2. CASE n = l + 1
        <5>1. stack'[n] = next
          BY <2>3, <4>2
        <5>. QED BY <1>1, <1>9, <2>2, <5>1 DEF A, Dead
      <4>. QED BY <3>1, <4>1, <4>2, <1>4
    <3>. QED BY <1>0, <1>1, <1>3, <2>1, <3>1, <3>2 DEF TypeOK
  <2>7. Progress'
    BY <1>0, <1>1, <1>2, <1>3, <2>1 DEF Progress
  <2>. QED BY <1>0, <1>1, <1>2, <2>1, <2>5, <2>6, <2>7 DEF Inv
<1>. QED BY <1>8, <1>9

(* A wanted key goes to the end of what has been yielded.                  *)
LEMMA YieldedNext ==
  ASSUME NEW W \in SUBSET Words, NEW x \in W, NEW y \in Seq(W), Ascends(y),
         ToSet(y) = {t \in W : Below(t, x)}
  PROVE  /\ Append(y, x) \in Seq(W) /\ Ascends(Append(y, x)) /\ Len(Append(y, x)) = Len(y) + 1
         /\ ToSet(Append(y, x)) = {t \in W : t = x \/ Below(t, x)}
<1>. DEFINE z == Append(y, x)
<1>1. /\ z \in Seq(W) /\ Len(z) = Len(y) + 1 /\ Len(y) \in Nat
      /\ \A i \in 1 .. Len(y) : z[i] = y[i]
      /\ z[Len(y) + 1] = x
  BY AppendProperties
<1>2. DOMAIN z = 1 .. Len(y) + 1 /\ DOMAIN y = 1 .. Len(y)
  BY <1>1
<1>. HIDE DEF z
<1>3. \A t : t \in ToSet(y) <=> \E i \in 1 .. Len(y) : t = y[i]
  BY <1>2 DEF ToSet
<1>4. \A t : t \in ToSet(z) <=> \E i \in 1 .. Len(y) + 1 : t = z[i]
  BY <1>2 DEF ToSet
<1>5. ASSUME NEW i \in DOMAIN z, NEW j \in DOMAIN z, i < j
      PROVE  Below(z[i], z[j])
  <2>1. i \in 1 .. Len(y) /\ z[i] = y[i]
    BY <1>1, <1>2, <1>5
  <2>2. CASE j = Len(y) + 1
    <3>1. y[i] \in ToSet(y)
      BY <1>3, <2>1
    <3>. QED BY <2>1, <2>2, <3>1, <1>1
  <2>3. CASE j \in 1 .. Len(y)
    BY <1>1, <1>2, <1>5, <2>1, <2>3 DEF Ascends
  <2>. QED BY <1>1, <1>2, <2>2, <2>3
<1>6. ToSet(z) = {t \in W : t = x \/ Below(t, x)}
  <2>1. \A t : t \in ToSet(z) <=> t \in ToSet(y) \/ t = x
    <3>1. \A t : (\E i \in 1 .. Len(y) + 1 : t = z[i])
                    <=> (\E i \in 1 .. Len(y) : t = y[i]) \/ t = x
      <4>1. \A i \in 1 .. Len(y) + 1 : i \in 1 .. Len(y) \/ i = Len(y) + 1
        BY <1>1
      <4>2. Len(y) + 1 \in 1 .. Len(y) + 1 /\ \A i \in 1 .. Len(y) : i \in 1 .. Len(y) + 1
        BY <1>1
      <4>. QED BY <1>1, <4>1, <4>2
    <3>. QED BY <1>3, <1>4, <3>1
  <2>. QED BY <2>1
<1>. QED BY <1>1, <1>5, <1>6 DEF Ascends, z

(* Yield keeps it: the key is yielded exactly if it is wanted.             *)
LEMMA YieldKeeps ==
  ASSUME Inv, Yield
  PROVE  Inv'
<1>0. /\ pc = "walk" /\ Len(stack) - 1 = Len(key) /\ UNCHANGED Asked
      /\ seek' = seek /\ key' = key /\ stack' = stack
      /\ yielded' = IF Accept(Last(stack)) THEN Append(yielded, key) ELSE yielded
      /\ pc' = IF Accept(Last(stack)) /\ m > 0 /\ Len(yielded') >= m THEN "done" ELSE "seek"
  BY DEF Yield, Consumed, Matched
<1>1. /\ keyword' = keyword /\ k' = k /\ m' = m /\ tokens' = tokens
      /\ WantedSet' = WantedSet /\ Size' = Size /\ Cap' = Cap
  BY <1>0, AskedStays
<1>2. /\ k \in Nat /\ keyword \in Words /\ m \in Int /\ key \in Words
      /\ key \in ToSet(tokens)
      /\ Len(key) \in Nat /\ Len(stack) \in Nat /\ Len(stack) >= 1
      /\ Len(stack) <= Len(key) + 1 /\ DOMAIN stack = 1 .. Len(stack)
      /\ StatesOf(stack, key, keyword, k)
      /\ WantedSet \in SUBSET Words /\ WantedSet \in SUBSET ToSet(tokens)
      /\ key \in WantedSet <=> key \in Ball(keyword, k)
      /\ yielded \in Seq(WantedSet) /\ Ascends(yielded)
  <2>1. WantedSet \in SUBSET ToSet(tokens)
    BY DEF WantedSet
  <2>. QED BY <1>0, <2>1, LookingAt
<1>3. /\ ToSet(yielded) = {t \in WantedSet : Below(t, key)}
      /\ m > 0 => Len(yielded) < m
      /\ TypeOK
  BY <1>0 DEF Inv, Progress
<1>4. Accept(Last(stack)) <=> key \in WantedSet
  <2>1. \A n \in 1 .. Len(stack) : IsState(stack[n], SubSeq(key, 1, n - 1))
    BY <1>2, StatesAre
  <2>2. Len(stack) \in 1 .. Len(stack) /\ Last(stack) = stack[Len(stack)]
    BY <1>2 DEF Last
  <2>3. IsState(Last(stack), SubSeq(key, 1, Len(key)))
    BY <1>0, <2>1, <2>2
  <2>4. SubSeq(key, 1, Len(key)) = key
    <3>1. Len(key) \in 0 .. Len(key)
      BY <1>2
    <3>2. /\ SubSeq(key, 1, Len(key)) \in Words /\ Len(SubSeq(key, 1, Len(key))) = Len(key)
          /\ \A i \in 1 .. Len(key) : SubSeq(key, 1, Len(key))[i] = key[i]
      BY <1>2, <3>1, Taken
    <3>. QED BY <1>2, <3>2, SameWord
  <2>5. IsState(Last(stack), key)
    BY <2>3, <2>4
  <2>. QED BY <1>2, <2>5, AcceptState
<1>5. /\ yielded' \in Seq(WantedSet) /\ Ascends(yielded')
      /\ ToSet(yielded') = {t \in WantedSet : t = key \/ Below(t, key)}
      /\ key \notin WantedSet => yielded' = yielded
      /\ Len(yielded) \in Nat
      /\ key \in WantedSet => Len(yielded') = Len(yielded) + 1
  <2>0. Len(yielded) \in Nat
    BY <1>2
  <2>1. CASE key \in WantedSet
    <3>1. yielded' = Append(yielded, key)
      BY <1>0, <1>4, <2>1
    <3>2. /\ Append(yielded, key) \in Seq(WantedSet) /\ Ascends(Append(yielded, key))
          /\ Len(Append(yielded, key)) = Len(yielded) + 1
          /\ ToSet(Append(yielded, key)) = {t \in WantedSet : t = key \/ Below(t, key)}
      BY <1>2, <1>3, <2>1, YieldedNext
    <3>. QED BY <2>0, <2>1, <3>1, <3>2
  <2>2. CASE key \notin WantedSet
    <3>1. yielded' = yielded
      BY <1>0, <1>4, <2>2
    <3>. QED BY <1>2, <1>3, <2>0, <2>2, <3>1
  <2>. QED BY <2>1, <2>2
<1>6. TypeOK'
  <2>1. ToSet(yielded') \subseteq ToSet(tokens)
    BY <1>2, <1>5
  <2>2. pc' \in {"done", "seek"}
    BY <1>0
  <2>. QED BY <1>0, <1>1, <1>3, <2>1, <2>2 DEF TypeOK, Dead
<1>7. pc' = "done" => m > 0 /\ Len(yielded') = m
  BY <1>0, <1>2, <1>3, <1>4, <1>5
<1>8. pc' # "done" => pc' = "seek" /\ (m > 0 => Len(yielded') < m)
  <2>1. Len(yielded') \in Nat
    BY <1>5
  <2>. QED BY <1>0, <1>2, <1>3, <1>4, <1>5, <2>1
<1>9. pc' = "done" => Complete'
  BY <1>0, <1>1, <1>5, <1>7 DEF Complete
<1>10. Progress'
  BY <1>0, <1>1, <1>2, <1>5, <1>8, <1>9 DEF Progress
<1>. QED BY <1>0, <1>1, <1>2, <1>6, <1>10 DEF Inv

(* A wanted token above the key goes on with an untried byte where it      *)
(* parts from the key.                                                     *)
LEMMA Successor ==
  ASSUME Inv, pc = "seek", NEW t \in WantedSet, Below(key, t)
  PROVE  \E n \in 0 .. Matched : Parts(key, t, n) /\ t[n + 1] \in Untried(n)
<1>0. /\ k \in Nat /\ keyword \in Words /\ key \in Words
      /\ Len(key) \in Nat /\ Len(stack) \in Nat /\ Len(stack) >= 1
      /\ Len(stack) <= Len(key) + 1
      /\ StatesOf(stack, key, keyword, k)
      /\ t \in Words /\ t \in Ball(keyword, k)
  BY LookingAt
<1>1. Len(stack) - 1 < Len(key) => ~Alive(SubSeq(key, 1, Len(stack)))
  BY StatesAre DEF Inv, Progress
<1>2. PICK n \in Nat : Parts(key, t, n)
  BY <1>0, BelowIs
<1>3. /\ n \in 0 .. Len(key) /\ n < Len(t) /\ \A i \in 1 .. n : key[i] = t[i]
      /\ n = Len(key) \/ key[n + 1] < t[n + 1]
      /\ Len(t) \in Nat
  BY <1>0, <1>2, WordLength DEF Parts
<1>4. \A i \in 0 .. n : SubSeq(t, 1, i) = SubSeq(key, 1, i)
  <2>. TAKE i \in 0 .. n
  <2>. DEFINE a == SubSeq(t, 1, i)
              b == SubSeq(key, 1, i)
  <2>1. i \in 0 .. Len(t) /\ i \in 0 .. Len(key)
    BY <1>0, <1>3
  <2>2. /\ a \in Words /\ Len(a) = i /\ \A j \in 1 .. i : a[j] = t[j]
        /\ b \in Words /\ Len(b) = i /\ \A j \in 1 .. i : b[j] = key[j]
    BY <1>0, <2>1, Taken
  <2>3. \A j \in 1 .. i : t[j] = key[j]
    BY <1>3
  <2>. HIDE DEF a, b
  <2>4. a = b
    BY <2>2, <2>3, SameWord
  <2>. QED BY <2>4 DEF a, b
<1>5. n \in 0 .. Matched
  <2>. SUFFICES ASSUME n > Len(stack) - 1 PROVE FALSE
    BY <1>0 DEF Matched
  <2>1. Len(stack) - 1 < Len(key) /\ Len(stack) \in 0 .. n /\ Len(stack) \in 0 .. Len(t)
    BY <1>0, <1>3
  <2>2. Alive(SubSeq(t, 1, Len(stack)))
    BY <1>0, <2>1, DeadEnd
  <2>. QED BY <1>1, <1>4, <2>1, <2>2
<1>6. t[n + 1] \in Untried(n)
  <2>1. n + 1 \in 1 .. Len(t) /\ n + 1 \in 0 .. Len(t) /\ n + 1 \in 1 .. Len(stack)
    BY <1>0, <1>3, <1>5 DEF Matched
  <2>2. t[n + 1] \in Bytes
    BY <1>0, <2>1, ByteOf
  <2>3. IsState(Step(stack[n + 1], t[n + 1]), Append(SubSeq(key, 1, n), t[n + 1]))
    BY <1>0, <1>2, <2>1, <2>2, NextState
  <2>4. SubSeq(t, 1, n + 1) = Append(SubSeq(key, 1, n), t[n + 1])
    <3>1. SubSeq(t, 1, n + 1) = Append(SubSeq(t, 1, n), t[n + 1])
      BY <1>0, <1>2, <2>1, TakenNext
    <3>2. SubSeq(t, 1, n) = SubSeq(key, 1, n)
      BY <1>3, <1>4
    <3>. QED BY <3>1, <3>2
  <2>5. Alive(SubSeq(t, 1, n + 1))
    BY <1>0, <2>1, DeadEnd
  <2>6. ~Dead(Step(stack[n + 1], t[n + 1]))
    BY <1>0, <2>3, <2>4, <2>5, DeadState
  <2>7. n < Len(key) => t[n + 1] > key[n + 1]
    <3>. SUFFICES ASSUME n < Len(key) PROVE t[n + 1] > key[n + 1]
      OBVIOUS
    <3>1. n + 1 \in 1 .. Len(key)
      BY <1>3
    <3>2. key[n + 1] \in Int /\ t[n + 1] \in Int
      BY <1>0, <2>1, <3>1, ByteOf
    <3>. QED BY <1>3, <3>2
  <2>. QED BY <2>2, <2>6, <2>7 DEF Untried
<1>. QED BY <1>2, <1>5, <1>6

(* NextSeek takes the deepest position with an untried byte, and there the *)
(* smallest of them.                                                       *)
LEMMA NextSeekIs ==
  ASSUME Inv, pc = "seek", NEW q \in 0 .. Matched, Untried(q) # {}
  PROVE  \E p \in 0 .. Matched, b \in Bytes :
           /\ NextSeek = Append(SubSeq(key, 1, p), b)
           /\ b \in Untried(p) /\ \A d \in Untried(p) : b <= d
           /\ \A r \in 0 .. Matched : Untried(r) # {} => r <= p
<1>. DEFINE T == {p \in 0 .. Matched : Untried(p) # {}}
            pos == CHOOSE p \in 0 .. Matched :
                     Untried(p) # {} /\ \A r \in p + 1 .. Matched : Untried(r) = {}
            byte == CHOOSE c \in Untried(pos) : \A d \in Untried(pos) : c <= d
<1>0. Len(stack) \in Nat /\ Len(stack) >= 1 /\ Matched \in Nat
  BY LookingAt DEF Matched
<1>1. T \in SUBSET (0 .. Matched) /\ T # {}
  OBVIOUS
<1>2. PICK x \in T : \A y \in T : x >= y
  <2>. HIDE DEF T
  <2>. QED BY <1>0, <1>1, NatGreatest
<1>3. x \in 0 .. Matched /\ Untried(x) # {} /\ \A r \in x + 1 .. Matched : Untried(r) = {}
  <2>1. x \in 0 .. Matched /\ Untried(x) # {}
    BY <1>2
  <2>2. \A r \in x + 1 .. Matched : Untried(r) = {}
    <3>. SUFFICES ASSUME NEW r \in x + 1 .. Matched, Untried(r) # {} PROVE FALSE
      OBVIOUS
    <3>1. r \in T /\ r > x
      BY <1>0, <2>1
    <3>2. x >= r
      BY <1>2, <3>1
    <3>. QED BY <2>1, <3>1, <3>2
  <2>. QED BY <2>1, <2>2
<1>. HIDE DEF T
<1>4. pos \in 0 .. Matched /\ Untried(pos) # {} /\ \A r \in pos + 1 .. Matched : Untried(r) = {}
  BY <1>3
<1>5. NextSeek = Append(SubSeq(key, 1, pos), byte)
  BY DEF NextSeek
<1>. HIDE DEF pos
<1>6. Untried(pos) \in SUBSET Bytes /\ Untried(pos) \in SUBSET Nat
  BY LevenshteinAssumption DEF Untried, Bytes
<1>7. \E c \in Untried(pos) : \A d \in Untried(pos) : c <= d
  BY <1>4, <1>6, NatLeast
<1>8. byte \in Untried(pos) /\ \A d \in Untried(pos) : byte <= d
  BY <1>7
<1>. HIDE DEF byte
<1>9. \A r \in 0 .. Matched : Untried(r) # {} => r <= pos
  <2>. SUFFICES ASSUME NEW r \in 0 .. Matched, ~(r <= pos) PROVE Untried(r) = {}
    OBVIOUS
  <2>1. r \in pos + 1 .. Matched
    BY <1>0, <1>4
  <2>. QED BY <1>4, <2>1
<1>. QED BY <1>4, <1>5, <1>6, <1>8, <1>9

(* The first p bytes of a word and a higher byte make a word above it.     *)
LEMMA PivotAbove ==
  ASSUME NEW x \in Words, NEW p \in 0 .. Len(x), NEW b \in Bytes,
         p < Len(x) => b > x[p + 1]
  PROVE  /\ Append(SubSeq(x, 1, p), b) \in Words
         /\ Len(Append(SubSeq(x, 1, p), b)) = p + 1
         /\ \A i \in 1 .. p : Append(SubSeq(x, 1, p), b)[i] = x[i]
         /\ Append(SubSeq(x, 1, p), b)[p + 1] = b
         /\ Below(x, Append(SubSeq(x, 1, p), b))
<1>. DEFINE s == SubSeq(x, 1, p)
            q == Append(s, b)
<1>1. s \in Words /\ Len(s) = p /\ \A i \in 1 .. p : s[i] = x[i]
  BY Taken
<1>. HIDE DEF s
<1>2. /\ q \in Words /\ Len(q) = p + 1
      /\ \A i \in 1 .. p : q[i] = s[i]
      /\ q[p + 1] = b
  BY <1>1, AppendWord
<1>. HIDE DEF q
<1>3. Len(x) \in Nat /\ p \in Nat
  BY WordLength
<1>4. \A i \in 1 .. p : q[i] = x[i]
  BY <1>1, <1>2
<1>5. p < Len(x) => x[p + 1] < b
  <2>. SUFFICES ASSUME p < Len(x) PROVE x[p + 1] < b
    OBVIOUS
  <2>1. p + 1 \in 1 .. Len(x) /\ b \in Int
    BY <1>3, LevenshteinAssumption DEF Bytes
  <2>2. x[p + 1] \in Int
    BY <2>1, ByteOf
  <2>. QED BY <2>1, <2>2
<1>6. Parts(x, q, p)
  BY <1>2, <1>3, <1>4, <1>5 DEF Parts
<1>7. Below(x, q)
  BY <1>2, <1>3, <1>6, BelowIs
<1>. QED BY <1>2, <1>4, <1>7 DEF q, s

(* No word that parts from x at n lies between x and that pivot, when n is *)
(* before p, or p itself and the byte there not below b.                   *)
LEMMA PivotBelow ==
  ASSUME NEW x \in Words, NEW p \in 0 .. Len(x), NEW b \in Bytes,
         p < Len(x) => b > x[p + 1],
         NEW t \in Words, NEW n \in 0 .. p, Parts(x, t, n), n = p => b <= t[n + 1]
  PROVE  ~Below(t, Append(SubSeq(x, 1, p), b))
<1>. DEFINE q == Append(SubSeq(x, 1, p), b)
<1>1. /\ q \in Words /\ Len(q) = p + 1
      /\ \A i \in 1 .. p : q[i] = x[i]
      /\ q[p + 1] = b
  BY PivotAbove
<1>. HIDE DEF q
<1>2. Len(x) \in Nat /\ Len(t) \in Nat /\ p \in Nat /\ n \in Nat
  BY WordLength
<1>3. /\ n < Len(t) /\ \A i \in 1 .. n : x[i] = t[i]
      /\ n = Len(x) \/ x[n + 1] < t[n + 1]
  BY DEF Parts
<1>4. \A i \in 1 .. n : q[i] = t[i]
  BY <1>1, <1>2, <1>3
<1>5. q = t \/ Below(q, t)
  <2>1. CASE n < p
    <3>1. n # Len(x) /\ n + 1 \in 1 .. p
      BY <1>2, <2>1
    <3>2. q[n + 1] < t[n + 1]
      BY <1>1, <1>3, <3>1
    <3>3. Parts(q, t, n)
      BY <1>1, <1>2, <1>3, <1>4, <2>1, <3>2 DEF Parts
    <3>. QED BY <1>1, <1>2, <3>3, BelowIs
  <2>2. CASE n = p
    <3>0. n + 1 \in 1 .. Len(t)
      BY <1>2, <1>3
    <3>1. b \in Int /\ t[n + 1] \in Int
      BY <3>0, ByteOf, LevenshteinAssumption DEF Bytes
    <3>2. CASE b < t[n + 1]
      <4>1. Parts(q, t, n)
        BY <1>1, <1>2, <1>3, <1>4, <2>2, <3>2 DEF Parts
      <4>. QED BY <1>1, <1>2, <4>1, BelowIs
    <3>3. CASE b = t[n + 1]
      <4>1. \A i \in 1 .. p + 1 : q[i] = t[i]
        <5>. TAKE i \in 1 .. p + 1
        <5>1. i \in 1 .. n \/ i = p + 1
          BY <1>2, <2>2
        <5>. QED BY <1>1, <1>4, <2>2, <3>3, <5>1
      <4>2. CASE Len(t) = p + 1
        BY <1>1, <4>1, <4>2, SameWord
      <4>3. CASE Len(t) # p + 1
        <5>1. Parts(q, t, p + 1)
          BY <1>1, <1>2, <1>3, <2>2, <4>1, <4>3 DEF Parts
        <5>2. p + 1 \in Nat
          BY <1>2
        <5>. QED BY <1>1, <5>1, <5>2, BelowIs
      <4>. QED BY <4>2, <4>3
    <3>. QED BY <2>2, <3>1, <3>2, <3>3
  <2>. QED BY <1>2, <2>1, <2>2
<1>6. ~Below(t, q)
  <2>. SUFFICES ASSUME Below(t, q) PROVE FALSE
    OBVIOUS
  <2>1. Below(q, q)
    BY <1>1, <1>5, BelowTransitive
  <2>. QED BY <1>1, <2>1, BelowIrreflexive
<1>. QED BY <1>6 DEF q

(* The pivot is above the key, and no wanted token lies in between.        *)
LEMMA SeekPivots ==
  ASSUME Inv, pc = "seek", NEW q \in 0 .. Matched, Untried(q) # {}
  PROVE  /\ NextSeek \in Words /\ Below(key, NextSeek)
         /\ \A t \in WantedSet : Below(key, t) => ~Below(t, NextSeek)
<1>0. /\ key \in Words /\ Len(key) \in Nat /\ Len(stack) \in Nat /\ Len(stack) >= 1
      /\ Len(stack) <= Len(key) + 1 /\ WantedSet \in SUBSET Words
  BY LookingAt
<1>1. PICK p \in 0 .. Matched, b \in Bytes :
           /\ NextSeek = Append(SubSeq(key, 1, p), b)
           /\ b \in Untried(p) /\ \A d \in Untried(p) : b <= d
           /\ \A r \in 0 .. Matched : Untried(r) # {} => r <= p
  BY NextSeekIs
<1>2. p \in 0 .. Len(key) /\ (p < Len(key) => b > key[p + 1])
  BY <1>0, <1>1 DEF Matched, Untried
<1>3. NextSeek \in Words /\ Below(key, NextSeek)
  BY <1>0, <1>1, <1>2, PivotAbove
<1>4. ASSUME NEW t \in WantedSet, Below(key, t)
      PROVE  ~Below(t, NextSeek)
  <2>1. PICK n \in 0 .. Matched : Parts(key, t, n) /\ t[n + 1] \in Untried(n)
    BY <1>4, Successor
  <2>2. n \in 0 .. p /\ t \in Words
    <3>1. n <= p
      BY <1>1, <2>1
    <3>. QED BY <1>0, <1>2, <3>1
  <2>3. n = p => b <= t[n + 1]
    BY <1>1, <2>1
  <2>. QED BY <1>0, <1>1, <1>2, <2>1, <2>2, <2>3, PivotBelow
<1>. QED BY <1>3, <1>4

(* Seek keeps it: there is nothing wanted between the key and the pivot.   *)
LEMMA SeekKeeps ==
  ASSUME Inv, Seek
  PROVE  Inv'
<1>0. /\ pc = "seek" /\ UNCHANGED Asked
      /\ key' = key /\ stack' = stack /\ yielded' = yielded
      /\ IF \A pos \in 0 .. Matched : Untried(pos) = {}
           THEN pc' = "done" /\ seek' = seek
           ELSE pc' = "lookup" /\ seek' = NextSeek
  BY DEF Seek
<1>1. /\ keyword' = keyword /\ k' = k /\ m' = m /\ tokens' = tokens
      /\ WantedSet' = WantedSet /\ Size' = Size /\ Cap' = Cap
  BY <1>0, AskedStays
<1>2. /\ m \in Int /\ key \in Words /\ WantedSet \in SUBSET Words
      /\ yielded \in Seq(WantedSet) /\ Ascends(yielded) /\ Len(yielded) \in Nat
  <2>1. yielded \in Seq(WantedSet)
    BY <1>0, LookingAt
  <2>2. Len(yielded) \in Nat
    BY <2>1
  <2>. QED BY <1>0, <2>1, <2>2, LookingAt
<1>3. /\ ToSet(yielded) = {t \in WantedSet : t = key \/ Below(t, key)}
      /\ m > 0 => Len(yielded) < m
      /\ TypeOK
  BY <1>0 DEF Inv, Progress
<1>4. CASE \A pos \in 0 .. Matched : Untried(pos) = {}
  <2>1. pc' = "done" /\ seek' = seek
    BY <1>0, <1>4
  <2>2. \A t \in WantedSet : t = key \/ Below(t, key)
    <3>. SUFFICES ASSUME NEW t \in WantedSet, t # key, ~Below(t, key) PROVE FALSE
      OBVIOUS
    <3>1. Below(key, t)
      BY <1>2, BelowTotal
    <3>2. \E n \in 0 .. Matched : t[n + 1] \in Untried(n)
      BY <1>0, <3>1, Successor
    <3>. QED BY <1>4, <3>2
  <2>3. ToSet(yielded) = WantedSet
    BY <1>3, <2>2
  <2>4. Complete'
    <3>1. m > 0 => Len(yielded) <= m
      BY <1>2, <1>3
    <3>. QED BY <1>0, <1>1, <2>3, <3>1 DEF Complete
  <2>5. TypeOK'
    BY <1>0, <1>1, <1>3, <2>1 DEF TypeOK, Dead
  <2>6. Progress'
    BY <1>0, <1>1, <1>2, <2>1, <2>4 DEF Progress
  <2>. QED BY <1>1, <2>1, <2>5, <2>6 DEF Inv
<1>5. CASE ~(\A pos \in 0 .. Matched : Untried(pos) = {})
  <2>1. pc' = "lookup" /\ seek' = NextSeek
    BY <1>0, <1>5
  <2>2. PICK q \in 0 .. Matched : Untried(q) # {}
    BY <1>5
  <2>3. /\ NextSeek \in Words /\ Below(key, NextSeek)
        /\ \A t \in WantedSet : Below(key, t) => ~Below(t, NextSeek)
    BY <1>0, <2>2, SeekPivots
  <2>4. ToSet(yielded) = {t \in WantedSet : Below(t, NextSeek)}
    <3>1. ASSUME NEW t \in WantedSet, t = key \/ Below(t, key)
          PROVE  Below(t, NextSeek)
      <4>1. t \in Words
        BY <1>2
      <4>. QED BY <1>2, <2>3, <3>1, <4>1, BelowTransitive
    <3>2. ASSUME NEW t \in WantedSet, Below(t, NextSeek)
          PROVE  t = key \/ Below(t, key)
      <4>1. t \in Words /\ ~Below(key, t)
        BY <1>2, <2>3, <3>2
      <4>. QED BY <1>2, <4>1, BelowTotal
    <3>. QED BY <1>3, <3>1, <3>2
  <2>5. TypeOK'
    <3>1. seek' \in Seq(Bytes)
      BY <2>1, <2>3 DEF Words
    <3>. QED BY <1>0, <1>1, <1>3, <2>1, <3>1 DEF TypeOK, Dead
  <2>6. Progress'
    BY <1>0, <1>1, <1>2, <1>3, <2>1, <2>4 DEF Progress
  <2>. QED BY <1>1, <2>1, <2>5, <2>6 DEF Inv
<1>. QED BY <1>4, <1>5

-----------------------------------------------------------------------------
(* The theorems.                                                           *)

(* So does every step.                                                     *)
LEMMA NextKeeps ==
  ASSUME Inv, [Next]_vars
  PROVE  Inv'
<1>1. CASE New
  BY <1>1, NewKeeps
<1>2. CASE Lookup
  BY <1>2, LookupKeeps
<1>3. CASE Consume
  BY <1>3, ConsumeKeeps
<1>4. CASE Yield
  BY <1>4, YieldKeeps
<1>5. CASE Seek
  BY <1>5, SeekKeeps
<1>6. CASE UNCHANGED vars
  <2>1. UNCHANGED Asked /\ UNCHANGED <<pc, seek, key, stack, yielded>>
    BY <1>6 DEF vars, Asked
  <2>2. /\ keyword' = keyword /\ k' = k /\ m' = m /\ tokens' = tokens
        /\ WantedSet' = WantedSet /\ Size' = Size /\ Cap' = Cap
    BY <2>1, AskedStays
  <2>. QED BY <2>1, <2>2 DEF Inv, TypeOK, Progress, Complete, Dead
<1>. QED BY <1>1, <1>2, <1>3, <1>4, <1>5, <1>6 DEF Next

(* The inductive invariant is an invariant.                                *)
LEMMA Invariance ==
  Spec => []Inv
<1>1. Init => Inv
  BY InitInv
<1>2. Inv /\ [Next]_vars => Inv'
  BY NextKeeps
<1>. QED BY <1>1, <1>2, PTL DEF Spec

(* The states the lookup keeps on its stack are rows of the automaton, and *)
(* none of them is dead.                                                   *)
THEOREM TypesAreRight ==
  Spec => []TypeOK
<1>1. Inv => TypeOK
  BY DEF Inv
<1>. QED BY <1>1, Invariance, PTL

(* A lookup that is over has yielded the tokens within the distance, in    *)
(* ascending order, all of them or as many as it was asked for: whatever   *)
(* the pivots passed over was not wanted.                                  *)
THEOREM MatchesAreAll ==
  Spec => []MatchesAll
<1>1. ASSUME Inv, pc = "done"
      PROVE  yielded = Within(Len(Wanted))
  <2>. DEFINE N == Cardinality(WantedSet)
              l == Len(yielded)
  <2>1. /\ yielded \in Seq(WantedSet) /\ Ascends(yielded) /\ Complete
        /\ WantedSet \in SUBSET Words /\ IsFiniteSet(WantedSet) /\ m \in Int
    BY <1>1, TokensAre, AskedIs DEF Inv, Progress
  <2>2. \A t : t \in ToSet(yielded) <=> \E i \in 1 .. Len(yielded) : t = yielded[i]
    <3>1. DOMAIN yielded = 1 .. Len(yielded)
      BY <2>1
    <3>. QED BY <3>1 DEF ToSet
  <2>3. ASSUME NEW i \in 1 .. Len(yielded), NEW v \in WantedSet, Below(v, yielded[i])
        PROVE  v \in ToSet(yielded)
    <3>1. yielded[i] \in ToSet(yielded) /\ yielded[i] \in WantedSet
      BY <2>1, <2>2
    <3>2. CASE ToSet(yielded) = WantedSet
      BY <3>2
    <3>3. CASE ToSet(yielded) = {t \in WantedSet : t = key \/ Below(t, key)}
      <4>1. yielded[i] = key \/ Below(yielded[i], key)
        BY <3>1, <3>3
      <4>2. v \in Words /\ yielded[i] \in Words /\ key \in Words
        BY <1>1, <2>1, <3>1 DEF Inv, TypeOK, Words
      <4>3. Below(v, key)
        BY <2>3, <4>1, <4>2, BelowTransitive
      <4>. QED BY <3>3, <4>3
    <3>. QED BY <2>1, <3>2, <3>3 DEF Complete
  <2>4. l <= N /\ yielded = SubSeq(Sorted(WantedSet), 1, l)
    BY <2>1, <2>2, <2>3, SortedBegins
  <2>5. Wanted = Sorted(WantedSet) /\ Len(Wanted) = N /\ N \in Nat /\ l \in Nat
    BY <2>1, SortedIs DEF Wanted, WantedSet
  <2>6. CASE ToSet(yielded) = WantedSet /\ (m > 0 => Len(yielded) <= m)
    <3>1. l = N
      BY <2>1, <2>2, <2>4, <2>6, SortedWhole
    <3>2. (IF m > 0 THEN Least2(m, Len(Wanted)) ELSE Len(Wanted)) = l
      BY <2>1, <2>5, <2>6, <3>1 DEF Least2
    <3>. QED BY <2>4, <2>5, <3>2 DEF Within
  <2>7. CASE m > 0 /\ Len(yielded) = m
    <3>1. (IF m > 0 THEN Least2(m, Len(Wanted)) ELSE Len(Wanted)) = l
      BY <2>1, <2>4, <2>5, <2>7 DEF Least2
    <3>. QED BY <2>4, <2>5, <3>1 DEF Within
  <2>. QED BY <2>1, <2>6, <2>7 DEF Complete
<1>2. Inv => MatchesAll
  BY <1>1 DEF MatchesAll
<1>. QED BY <1>2, Invariance, PTL

(* Each pivot is above the token it was computed from, so that no token is *)
(* visited twice.                                                          *)
THEOREM PivotsDoAscend ==
  Spec => PivotsAscend
<1>1. Inv /\ [Next]_vars => [pc = "seek" /\ pc' = "lookup" => Below(key, seek')]_vars
  <2>. SUFFICES ASSUME Inv, Next, pc = "seek", pc' = "lookup"
                PROVE  Below(key, seek')
    OBVIOUS
  <2>1. Seek
    BY DEF Next, New, Lookup, Consume, Yield
  <2>2. ~(\A pos \in 0 .. Matched : Untried(pos) = {}) /\ seek' = NextSeek
    BY <2>1 DEF Seek
  <2>3. PICK q \in 0 .. Matched : Untried(q) # {}
    BY <2>2
  <2>. QED BY <2>2, <2>3, SeekPivots
<1>. QED BY <1>1, Invariance, PTL DEF Spec, PivotsAscend
=============================================================================
