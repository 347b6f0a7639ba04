------------------------------- MODULE Dorks -------------------------------
(***************************************************************************)
(* Package dorks: a query string, parsed, is a sequence of dorks; Compile  *)
(* makes the query of package query from it.                               *)
(*                                                                         *)
(* The searches of Query are run here with compiled dorks over documents   *)
(* made by package fields, to state what a dork means of the values that   *)
(* were given to the fields.                                               *)
(***************************************************************************)
EXTENDS Query, Fields

(* A dork is a record [operator, field, match, value, boost, fuzzy]:       *)
(* operator "+", "-" or ""; match one of the MatchOperators, "" included,  *)
(* or "bare" where the dork is only a keyword, its value then; boost and   *)
(* fuzzy sets of one number, or of none.                                   *)
(*                                                                         *)
(* A reader is a record [allField, default, tokenizers] of what a          *)
(* textiplex.Reader is set up with: tokenizers is a function from the      *)
(* fields that have their own, default is "nil" where there is none.       *)

AllFieldNone == "none"

(* PickTokenizer, and TokenizeOrPushValue for bare keywords.               *)
PickTokenizer(reader, f) ==
  IF f \in DOMAIN reader.tokenizers THEN reader.tokenizers[f]
  ELSE IF reader.default = "nil" THEN "keyword"
  ELSE reader.default

Given(S, default) == IF S = {} THEN default ELSE CHOOSE n \in S : TRUE

BadRangeEntry(f, match, v, boost) ==   \* > and >= the wrong way round
  [kind |-> "fieldRange", field |-> f, boost |-> boost,
   low  |-> IF match \in {">", ">="} THEN v ELSE Open,
   high |-> IF match \in {">", ">="} THEN Open ELSE v,
   mode |-> CASE match = ">=" -> "right" [] match = "<" -> "left" [] OTHER -> "both"]

RangeEntry(f, match, v, boost) ==
  [kind |-> "fieldRange", field |-> f, boost |-> boost,
   low  |-> IF match \in {">", ">="} THEN v ELSE Open,
   high |-> IF match \in {">", ">="} THEN Open ELSE v,
   mode |-> CASE match = ">" -> "right" [] match = "<" -> "left" [] OTHER -> "both"]

(* The entry for one token of the value of a dork.                         *)
EntryFor(dork, reader, v) ==
  LET boost == Given(dork.boost, 1)
      fuzzy == Given(dork.fuzzy, 0)
      in(f) == [kind |-> "fieldKeyword", field |-> f, value |-> v,
                fuzzy |-> fuzzy, boost |-> boost]
  IN  CASE dork.match = "bare" /\ reader.allField = AllFieldNone ->
             [kind |-> "keyword", value |-> v, fuzzy |-> fuzzy, boost |-> boost]
        [] dork.match = "bare" /\ reader.allField # AllFieldNone -> in(reader.allField)
        [] dork.match = "" -> in(dork.field)
        [] OTHER -> RangeEntry(dork.field, dork.match, v, boost)

DorkTokenizer(dork, reader) ==
  IF dork.match # "bare" THEN PickTokenizer(reader, dork.field)
  ELSE IF reader.default = "nil" THEN "keyword" ELSE reader.default

(* The entries of one dork, one for each token of its value: none if the   *)
(* value is no number, or of stop words only.                              *)
EntriesFor(dork, reader) ==
  LET tokens == Tokenize(DorkTokenizer(dork, reader), dork.value)
  IN  [k \in DOMAIN tokens |-> EntryFor(dork, reader, tokens[k])]

(* A clause keeps its keywords, scoped keywords and ranges apart.          *)
Clause(entries) ==
  LET of(kind) == Selected(entries, {k \in DOMAIN entries : entries[k].kind = kind})
  IN  of("keyword") \o of("fieldKeyword") \o of("fieldRange")

Compile(dorks, reader) ==
  LET all(operator) ==
        FlattenSeq([k \in DOMAIN dorks |-> IF dorks[k].operator = operator
                                           THEN EntriesFor(dorks[k], reader) ELSE << >>])
  IN  [musts |-> Clause(all("+")), mustNots |-> Clause(all("-")), shoulds |-> Clause(all(""))]

-----------------------------------------------------------------------------
(* What dorks mean, said of the values that were given to the fields and   *)
(* not of tokens.                                                          *)

CONSTANT Sought   \* records [raw, dorks, reader]: what is searched for

TextTokenizers == {"keyword", "words", "meaning"}
NumberTokenizers == {"integer", "float", "date"}

AtMostOne(S) == \A m, n \in S : m = n

(* No token of a text is taken for no bytes, nor for the bytes of a number.*)
IsTerm(v) == v \in Nat /\ v > Full

IsValue(value) ==
  /\ IsText(value.text)
  /\ value.text # << >> => IsTerm(Bytes(value.text))
  /\ \A r \in Runs(value.text) : IsTerm(Stemmer(SubSeq(value.text, r[1], r[2] - 1)))
  /\ value.int \subseteq Integer /\ AtMostOne(value.int)
  /\ value.float \subseteq Float /\ AtMostOne(value.float)
  /\ value.time \subseteq Int /\ AtMostOne(value.time)

(* What a caller gives to IntegerField, FloatField or TimeField.           *)
IsFieldValue(tokenizer, value) ==
  /\ IsValue(value)
  /\ tokenizer = "integer" => value.int # {}
  /\ tokenizer = "float" => value.float # {}
  /\ tokenizer = "date" => value.time # {}

(* An empty end of a range would be none, see IsEntry.                     *)
IsDork(dork) ==
  /\ dork.operator \in {"+", "-", ""}
  /\ dork.match \in {"bare", "", ">", ">=", "<", "<="}
  /\ IsValue(dork.value)
  /\ dork.match \notin {"bare", ""} => dork.value.text # << >>

(* Bare keywords are read, and looked for, as text.                        *)
IsReader(reader) ==
  /\ \A f \in DOMAIN reader.tokenizers :
       reader.tokenizers[f] \in TextTokenizers \union NumberTokenizers
  /\ reader.default \in TextTokenizers \union {"nil"}
  /\ reader.allField # AllFieldNone =>
       PickTokenizer(reader, reader.allField) \in TextTokenizers

IsAsked(asked) ==
  /\ \A k \in DOMAIN asked.raw : \A f \in DOMAIN asked.raw[k].values :
       IsFieldValue(PickTokenizer(asked.reader, f), asked.raw[k].values[f])
  /\ asked.dorks \in Seq(ToSet(asked.dorks))
  /\ \A dork \in ToSet(asked.dorks) : IsDork(dork)
  /\ IsReader(asked.reader)

ASSUME SoughtAssumption ==
  /\ Open = 0
  /\ \A asked \in Sought : IsAsked(asked)

(* The keys of a value, in an order of their own: terms, or the number.    *)
Keys(tokenizer, value) ==
  LET terms == {Stemmer(SubSeq(value.text, r[1], r[2] - 1)) : r \in Runs(value.text)}
  IN  CASE tokenizer = "keyword" -> {Bytes(value.text)}
        [] tokenizer = "words"   -> terms
        [] tokenizer = "meaning" -> terms \ Stopwords
        [] tokenizer = "integer" -> value.int
        [] tokenizer = "float"   -> {Rank(x) : x \in value.float}
        [] tokenizer = "date"    -> value.time

Compared(match, k, key) ==
  CASE match \in {"bare", ""} -> k = key
    [] match = ">"  -> k > key
    [] match = ">=" -> k >= key
    [] match = "<"  -> k < key
    [] match = "<=" -> k <= key

KeysWanted(dork, reader) == Keys(DorkTokenizer(dork, reader), dork.value)

(* A number is not a term, so bare keywords are not looked for among them. *)
FieldsAsked(dork, reader, values) ==
  LET textual(f) == PickTokenizer(reader, f) \in TextTokenizers IN
  IF dork.match # "bare" THEN DOMAIN values \intersect {dork.field}
  ELSE IF reader.allField # AllFieldNone THEN DOMAIN values \intersect {reader.allField}
  ELSE {f \in DOMAIN values : textual(f)}

HasKey(dork, reader, values, key) ==
  \E f \in FieldsAsked(dork, reader, values) :
    \E k \in Keys(PickTokenizer(reader, f), values[f]) : Compared(dork.match, k, key)

HasEach(dork, reader, values) ==
  \A key \in KeysWanted(dork, reader) : HasKey(dork, reader, values, key)
HasAny(dork, reader, values) ==
  \E key \in KeysWanted(dork, reader) : HasKey(dork, reader, values, key)

(* A Must of stop words only, or of no number where there should be one,   *)
(* asks for nothing.                                                       *)
Answers(dorks, reader, values) ==
  LET with(operator) == {d \in ToSet(dorks) : /\ d.operator = operator
                                              /\ KeysWanted(d, reader) # {}}
  IN  /\ IF with("+") # {} THEN \A d \in with("+") : HasEach(d, reader, values)
         ELSE \E d \in with("") : HasAny(d, reader, values)
      /\ ~\E d \in with("-") : HasAny(d, reader, values)

InTime(value) == value.time \subseteq Integer

(* The searches of Sought as those of Query.                                *)
Tokenizers(reader, raw) ==
  [f \in UNION {DOMAIN raw[k].values : k \in DOMAIN raw} |-> PickTokenizer(reader, f)]
Compiled == {[asked |-> asked,
              docs  |-> Batch(asked.raw, Tokenizers(asked.reader, asked.raw)),
              q     |-> Compile(asked.dorks, asked.reader)] : asked \in Sought}
Now == {c.asked : c \in {x \in Compiled : x.docs = docs /\ x.q = q}}

(* README.md, "Tokenizer consistency" and "Query syntax": with the same    *)
(* tokenizers at index and at query time, the candidates of a query string *)
(* are the documents whose values meet its dorks: numbers and dates by     *)
(* their size, text by its terms.  Aside are dates that do not fit 64 bits,*)
(* as TimeField makes of them any other date, fuzzy dorks, and what        *)
(* CandidatesRight leaves aside.                                           *)
DorksMean ==
  phase = "candidates" /\ ~AnyTooHigh /\ ~Scattered =>
    \A asked \in Now :
      (\A dork \in ToSet(asked.dorks) : InTime(dork.value) /\ dork.fuzzy = {}) =>
        \A d \in Indices :
          LET values == asked.raw[d + 1].values IN
          (\A f \in DOMAIN values : InTime(values[f])) =>
            (d \in bitmap <=> Answers(asked.dorks, asked.reader, values))

(* README.md, "Sort modes": "Rank by the numeric value of a field": of two *)
(* candidates the one with the smaller number, or the earlier date, has    *)
(* the higher score, negative numbers of either kind included.             *)
NumbersRank ==
  phase = "scored" =>
    \A asked \in Now :
      LET number(score) ==
            LET values == asked.raw[score.index + 1].values
                tokenizer == PickTokenizer(asked.reader, view.field)
            IN  IF /\ view.field \in DOMAIN values
                   /\ tokenizer \in NumberTokenizers
                   /\ InTime(values[view.field])
                  THEN Keys(tokenizer, values[view.field]) ELSE {}
      IN  \A x, y \in ToSet(scores) :
            \A m \in number(x), n \in number(y) : m < n => x.value > y.value

(* tokenizer.go:69-71: decimals, dates, times and thousands stay whole, and*)
(* no separator is kept anywhere else; no word is lost, cut or joined with *)
(* the next.  What a query string asks for is cut as the values were.      *)
SplitsWords == phase = "candidates" /\ Now # {} => WronglySplit = {}
=============================================================================
