----------------------------- MODULE Levenshtein -----------------------------
(***************************************************************************)
(* The fuzzy lookup of a keyword among the sorted tokens of a field        *)
(* (src/levenshtein/automata.go): Matches intersects the Levenshtein       *)
(* automaton of the keyword with the tokens.  It looks up the first token  *)
(* not below a pivot, runs the automaton over it byte by byte, yields it   *)
(* when the automaton accepts, and computes the next pivot from the states *)
(* it went through, so that it can pass over the tokens in between.        *)
(*                                                                         *)
(* Words are sequences of bytes 0 .. MaxByte.                              *)
(***************************************************************************)
EXTENDS Integers, Sequences, FiniteSets, SequencesExt

CONSTANTS
  MaxByte,        \* 0xFF
  MaxLength,      \* MaxLevenshteinLength
  Keywords,       \* the words that are looked up
  Vocabularies,   \* the sets of words a field may hold as its tokens
  Ks, Ms          \* the distances and the numbers of results asked for

Bytes == 0 .. MaxByte

ASSUME LevenshteinAssumption ==
  /\ MaxByte \in Nat /\ MaxLength \in Nat
  /\ Keywords \subseteq Seq(Bytes)
  /\ \A V \in Vocabularies : V \subseteq Seq(Bytes) /\ IsFiniteSet(V)
  /\ Ks \subseteq Nat /\ Ms \subseteq Int

VARIABLES
  keyword, k, m,   \* what New was given
  tokens,          \* the tokens, in ascending order
  pc,
  seek,            \* the pivot of the next lookup
  key,             \* the token it found
  stack,           \* the states after each prefix of key, up to a dead one
  yielded          \* the tokens yielded so far

vars == <<keyword, k, m, tokens, pc, seek, key, stack, yielded>>
Asked == <<keyword, k, m, tokens>>

Least2(a, b) == IF a < b THEN a ELSE b

-----------------------------------------------------------------------------
(* bytes.Compare(a, b) < 0                                                 *)
Below(a, b) ==
  \/ IsStrictPrefix(a, b)
  \/ \E n \in DOMAIN a \intersect DOMAIN b :
       a[n] < b[n] /\ \A i \in 1 .. n - 1 : a[i] = b[i]

Sorted(V) ==
  [n \in 1 .. Cardinality(V) |->
     CHOOSE w \in V : Cardinality({v \in V : Below(v, w)}) = n - 1]

(* A state of the automaton: s[i] is the least number of edits between the *)
(* bytes consumed so far and the first i - 1 of the keyword, k + 1 for     *)
(* more.                                                                   *)
Cap == k + 1
Size == Len(keyword) + 1
Count(n) == [i \in 1 .. n |-> i]

Start == [i \in 1 .. Size |-> Least2(i - 1, Cap)]

BadStep(prev, c) ==   \* the first entry is not capped
  LET cost(i) == IF c = keyword[i] THEN 0 ELSE 1
      edit(row, i) ==
        Least2(Least2(prev[i] + cost(i), prev[i + 1] + 1), Least2(Last(row) + 1, Cap))
  IN  FoldLeft(LAMBDA row, i : Append(row, edit(row, i)),
               <<prev[1] + 1>>, Count(Len(keyword)))

Step(prev, c) ==
  LET cost(i) == IF c = keyword[i] THEN 0 ELSE 1
      edit(row, i) ==
        Least2(Least2(prev[i] + cost(i), prev[i + 1] + 1), Least2(Last(row) + 1, Cap))
  IN  FoldLeft(LAMBDA row, i : Append(row, edit(row, i)),
               <<Least2(prev[1] + 1, Cap)>>, Count(Len(keyword)))

Accept(s) == s[Size] <= k
Dead(s) == \A i \in 1 .. Size : s[i] > k

-----------------------------------------------------------------------------
Matched == Len(stack) - 1
Consumed == Matched = Len(key)

BadUntried(pos) ==   \* the byte of the key is tried again
  {b \in Bytes : /\ pos < Len(key) => b >= key[pos + 1]
                 /\ ~Dead(Step(stack[pos + 1], b))}

(* SmallestTransition and NextSeek.  The bytes that may follow the first   *)
(* pos bytes of the key; the one of the key itself has been tried.         *)
Untried(pos) ==
  {b \in Bytes : /\ pos < Len(key) => b > key[pos + 1]
                 /\ ~Dead(Step(stack[pos + 1], b))}

BadNextSeek ==   \* the shallowest position
  LET pos == CHOOSE p \in 0 .. Matched :
               Untried(p) # {} /\ \A r \in 0 .. p - 1 : Untried(r) = {}
      b == CHOOSE c \in Untried(pos) : \A d \in Untried(pos) : c <= d
  IN  Append(SubSeq(key, 1, pos), b)

(* The deepest position, and there the smallest byte.                      *)
NextSeek ==
  LET pos == CHOOSE p \in 0 .. Matched :
               Untried(p) # {} /\ \A r \in p + 1 .. Matched : Untried(r) = {}
      b == CHOOSE c \in Untried(pos) : \A d \in Untried(pos) : c <= d
  IN  Append(SubSeq(key, 1, pos), b)

Init ==
  /\ keyword \in Keywords /\ k \in Ks /\ m \in Ms
  /\ tokens \in {Sorted(V) : V \in Vocabularies}
  /\ pc = "new"
  /\ seek = << >> /\ key = << >> /\ stack = << >> /\ yielded = << >>

(* New refuses a k above 3 and a long keyword; its callers do not look at  *)
(* what it returns, and Matches of no automaton fails when it is run.      *)
New ==
  /\ pc = "new"
  /\ pc' = IF k > 3 \/ Len(keyword) >= MaxLength THEN "panicked" ELSE "lookup"
  /\ UNCHANGED <<Asked, seek, key, stack, yielded>>

(* Tokens.GetBytesOrNear: the first token that is not below the pivot.     *)
Lookup ==
  /\ pc = "lookup"
  /\ LET at == {n \in DOMAIN tokens : ~Below(tokens[n], seek)} IN
       IF at = {} THEN pc' = "done" /\ UNCHANGED <<key, stack>>
       ELSE pc' = "walk" /\ key' = tokens[Min(at)] /\ stack' = <<Start>>
  /\ UNCHANGED <<Asked, seek, yielded>>

Consume ==
  /\ pc = "walk"
  /\ ~Consumed
  /\ LET next == Step(Last(stack), key[Matched + 1]) IN
       IF Dead(next) THEN pc' = "seek" /\ UNCHANGED stack
       ELSE stack' = Append(stack, next) /\ UNCHANGED pc
  /\ UNCHANGED <<Asked, seek, key, yielded>>

Yield ==
  /\ pc = "walk"
  /\ Consumed
  /\ yielded' = IF Accept(Last(stack)) THEN Append(yielded, key) ELSE yielded
  /\ pc' = IF Accept(Last(stack)) /\ m > 0 /\ Len(yielded') >= m THEN "done" ELSE "seek"
  /\ UNCHANGED <<Asked, seek, key, stack>>

Seek ==
  /\ pc = "seek"
  /\ IF \A pos \in 0 .. Matched : Untried(pos) = {}
       THEN pc' = "done" /\ UNCHANGED seek
       ELSE pc' = "lookup" /\ seek' = NextSeek
  /\ UNCHANGED <<Asked, key, stack, yielded>>

Next == New \/ Lookup \/ Consume \/ Yield \/ Seek
Spec == Init /\ [][Next]_vars

-----------------------------------------------------------------------------
BadMatchStep(s2, current, c) ==   \* a skip of one byte less
  UNION {LET i == p[1]
             d == p[2]
             n == Len(s2)
             edits == IF d = 0 THEN {}
                      ELSE {<<j, d - 1>> : j \in {i} \union ({i + 1} \intersect (0 .. n))}
             skips == {x \in 0 .. Least2(d, n - i) - 1 : s2[i + x + 1] = c}
         IN  edits \union {<<i + x + 1, d - x>> : x \in skips}
         : p \in current}

(* LevenshteinMatch: an automaton over the pairs of a position in s2 and   *)
(* the edits that are left.                                                *)
MatchStep(s2, current, c) ==
  UNION {LET i == p[1]
             d == p[2]
             n == Len(s2)
             edits == IF d = 0 THEN {}
                      ELSE {<<j, d - 1>> : j \in {i} \union ({i + 1} \intersect (0 .. n))}
             skips == {x \in 0 .. Least2(d + 1, n - i) - 1 : s2[i + x + 1] = c}
         IN  edits \union {<<i + x + 1, d - x>> : x \in skips}
         : p \in current}

LevenshteinMatch(s1, s2, d) ==
  /\ Len(s1) < MaxLength /\ Len(s2) < MaxLength /\ d <= 3
  /\ \E p \in FoldLeft(LAMBDA current, c : MatchStep(s2, current, c), {<<0, d>>}, s1) :
       Len(s2) - p[1] <= p[2]

-----------------------------------------------------------------------------
(* The words one edit away from w, and those at most n edits away.         *)
Without(w, i) == SubSeq(w, 1, i - 1) \o SubSeq(w, i + 1, Len(w))
Edits(w) ==
  {Without(w, i) : i \in DOMAIN w}
  \union {[w EXCEPT ![p[1]] = p[2]] : p \in (DOMAIN w) \X Bytes}
  \union {SubSeq(w, 1, p[1]) \o <<p[2]>> \o SubSeq(w, p[1] + 1, Len(w)) :
            p \in (0 .. Len(w)) \X Bytes}

Ball(w, n) ==
  LET ball[r \in 0 .. n] == IF r = 0 THEN {w}
                            ELSE ball[r - 1] \union UNION {Edits(v) : v \in ball[r - 1]}
  IN  ball[n]

Balls == [p \in Keywords \X Ks |-> Ball(p[1], p[2])]
IsNear(t) == t \in Balls[<<keyword, k>>]

Wanted == Sorted({t \in ToSet(tokens) : IsNear(t)})
Within(n) == SubSeq(Wanted, 1, IF m > 0 THEN Least2(m, n) ELSE n)

-----------------------------------------------------------------------------
(* The state of the lookup is well typed, and no state on the stack is     *)
(* dead.                                                                   *)
TypeOK ==
  /\ keyword \in Keywords /\ k \in Ks /\ m \in Ms
  /\ pc \in {"new", "lookup", "walk", "seek", "done", "panicked"}
  /\ seek \in Seq(Bytes) /\ key \in Seq(Bytes)
  /\ \A n \in DOMAIN stack : stack[n] \in [1 .. Size -> 0 .. Cap] /\ ~Dead(stack[n])
  /\ Len(stack) <= Len(key) + 1
  /\ ToSet(yielded) \subseteq ToSet(tokens)

(* Matches yields "every term within edit distance k of the keyword, in    *)
(* ascending key order, capped at m" (automata.go:141).                    *)
MatchesAll == pc = "done" => yielded = Within(Len(Wanted))

(* The two implementations of the distance agree below MaxLength: of the   *)
(* tokens that Matches looks for, LevenshteinMatch accepts those shorter   *)
(* than MaxLength and no others.  A longer one it refuses                  *)
(* (levenshtein.go:7), where the automaton, which looks at the length of   *)
(* the keyword only, yields it.                                            *)
MatchersAgree ==
  pc = "done" =>
    \A n \in DOMAIN tokens :
      LevenshteinMatch(tokens[n], keyword, k)
        <=> IsNear(tokens[n]) /\ Len(tokens[n]) < MaxLength

(* Each pivot is above the token it was computed from, so that no token is *)
(* visited twice and the loop of Matches ends.                             *)
PivotsAscend == [][pc = "seek" /\ pc' = "lookup" => Below(key, seek')]_vars
=============================================================================
