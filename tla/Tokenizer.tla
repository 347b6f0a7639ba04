----------------------------- MODULE Tokenizer -----------------------------
(***************************************************************************)
(* How text becomes tokens (src/tokenizer): words are cut out, stemmed and,*)
(* where asked for, dropped if they are stop words.                        *)
(*                                                                         *)
(* A text is a sequence of characters, and a token value a number, 0 for   *)
(* no bytes.  A stemmer is any function from words to values.              *)
(***************************************************************************)
EXTENDS Integers, SequencesExt

CONSTANTS
  Letters, Digits,   \* unicode.IsLetter, unicode.IsDigit
  NumSeps,           \* . , : - /
  Texts,             \* texts to be cut, to check
  Bytes(_),          \* the value of a text taken as it is
  Stemmer(_),        \* the value of a word
  Stopwords          \* values

IsText(in) == in \in Seq(ToSet(in))

ASSUME TokenizerAssumption ==
  /\ \A in \in Texts : IsText(in)
  /\ Letters \intersect Digits = {}
  /\ NumSeps \intersect (Letters \union Digits) = {}
  /\ Bytes(<< >>) = 0

isWord(c) == c \in Letters \union Digits
nextIsDigit(in, k) == k < Len(in) /\ in[k + 1] \in Digits

BadKept(in, k) ==   \* the separator at the end of a number is kept
  isWord(in[k]) \/ (in[k] \in NumSeps /\ in[k - 1] \in Digits)

(* The word goes on with the kth character, which is not its first.        *)
Kept(in, k) ==
  \/ isWord(in[k])
  \/ in[k - 1] \in Digits /\ in[k] \in NumSeps /\ nextIsDigit(in, k)

(* The position after the word that starts at i.                           *)
WordEnd(in, i) ==
  LET end[k \in i + 1 .. Len(in) + 1] ==
        IF k <= Len(in) /\ Kept(in, k) THEN end[k + 1] ELSE k
  IN  end[i + 1]

(* The words of a text, as pairs of their first position and the one after.*)
WordsOf(in) ==
  LET from[i \in 1 .. Len(in) + 1] ==
        IF i > Len(in) THEN << >>
        ELSE IF ~isWord(in[i]) THEN from[i + 1]
        ELSE <<<<i, WordEnd(in, i)>>>> \o from[WordEnd(in, i)]
  IN  from[1]

TokenizeWithStemmer(in) ==
  LET words == WordsOf(in) IN
  [k \in DOMAIN words |-> Stemmer(SubSeq(in, words[k][1], words[k][2] - 1))]

FilterStopword(tokens) ==
  FoldLeft(LAMBDA kept, v : IF v \in Stopwords THEN kept ELSE Append(kept, v),
           << >>, tokens)

-----------------------------------------------------------------------------
(* A character belongs to a word if it is a letter or a digit, or a        *)
(* separator between two digits.                                           *)
InWord(in, k) ==
  \/ isWord(in[k])
  \/ /\ in[k] \in NumSeps
     /\ k > 1 /\ in[k - 1] \in Digits
     /\ k < Len(in) /\ in[k + 1] \in Digits

(* The longest runs of such characters.                                    *)
Runs(in) ==
  {r \in (DOMAIN in) \X (2 .. Len(in) + 1) :
     /\ r[1] < r[2]
     /\ \A k \in r[1] .. r[2] - 1 : InWord(in, k)
     /\ r[1] > 1 => ~InWord(in, r[1] - 1)
     /\ r[2] <= Len(in) => ~InWord(in, r[2])}

(* The words of a text are those runs, in the order of the text.           *)
Splits(in) ==
  LET words == WordsOf(in) IN
  /\ ToSet(words) = Runs(in)
  /\ \A i, j \in DOMAIN words : i < j => words[i][2] < words[j][1]

WronglySplit == {in \in Texts : ~Splits(in)}
=============================================================================
