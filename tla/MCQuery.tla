------------------------------ MODULE MCQuery ------------------------------
(* TLC instances of Query and Dorks.                                       *)
EXTENDS Dorks

Field(tokens, length) == [tokens |-> tokens, length |-> length]

(* Two fields that share a token; one document misses g, one has an empty  *)
(* f, one has several tokens in f.                                         *)
Mixed == <<[id |-> "d1", fields |-> [f |-> Field(1 :> 2 @@ 2 :> 1, 3), g |-> Field(2 :> 1, 1)]],
           [id |-> "d2", fields |-> [f |-> Field(2 :> 3, 3)]],
           [id |-> "d3", fields |-> [f |-> Field(<< >>, 0), g |-> Field(3 :> 1, 1)]],
           [id |-> "d4", fields |-> [f |-> Field(2 :> 1 @@ 4 :> 1, 2), g |-> Field(2 :> 2, 2)]]>>

(* One token that every document has, and another field for some.          *)
Uniform == <<[id |-> "d1", fields |-> [f |-> Field(2 :> 1, 1)]],
             [id |-> "d2", fields |-> [f |-> Field(1 :> 1 @@ 2 :> 2, 3), g |-> Field(3 :> 1, 1)]],
             [id |-> "d3", fields |-> [f |-> Field(2 :> 1, 4), g |-> Field(1 :> 1 @@ 3 :> 1, 2)]]>>

(* A field without a token.                                                *)
Blank == <<[id |-> "d1", fields |-> [f |-> Field(2 :> 1, 1), g |-> Field(<< >>, 0)]],
           [id |-> "d2", fields |-> [f |-> Field(4 :> 1, 1)]]>>

(* Batches of two and three documents: a dense field with a token that some*)
(* documents lack, and a sparse field with tokens in most.                 *)
Long == <<[id |-> "d1", fields |-> [f |-> Field(2 :> 1, 1), g |-> Field(1 :> 2 @@ 3 :> 1, 3)]],
          [id |-> "d2", fields |-> [f |-> Field(1 :> 1 @@ 2 :> 2, 3), g |-> Field(1 :> 1, 2)]],
          [id |-> "d3", fields |-> [f |-> Field(2 :> 3, 5)]],
          [id |-> "d4", fields |-> [f |-> Field(2 :> 1 @@ 4 :> 2, 3), g |-> Field(1 :> 1 @@ 3 :> 3, 4)]],
          [id |-> "d5", fields |-> [f |-> Field(4 :> 1, 1), g |-> Field(1 :> 3 @@ 3 :> 2, 5)]]>>

MCCorpora == {Mixed, Uniform, Blank}

Keyword(v, fuzzy) == [kind |-> "keyword", value |-> v, fuzzy |-> fuzzy, boost |-> 1]
In(f, v, boost) == [kind |-> "fieldKeyword", field |-> f, value |-> v, fuzzy |-> 0, boost |-> boost]
Between(f, low, high, mode) ==
  [kind |-> "fieldRange", field |-> f, low |-> low, high |-> high, mode |-> mode, boost |-> 1]

Bare == {Keyword(2, 0), Keyword(5, 2)}
Scoped == {In("f", 2, 2), In("g", 3, 1), In("f", 1, 0)}
Ranges == {Between("f", 1, 0, "right"), Between("g", 0, 2, "left"),
           Between("f", 2, 4, "both")}

(* Iter takes bare keywords first, then scoped ones, then ranges.          *)
Kind(e) == CASE e.kind = "keyword" -> 1 [] e.kind = "fieldKeyword" -> 2 [] OTHER -> 3
InOrder(clause) == \A i, j \in DOMAIN clause : i < j => Kind(clause[i]) <= Kind(clause[j])

Clauses(S, n) == {c \in BoundedSeq(S, n) : InOrder(c) /\ IsInjective(c)}

MCQueries ==
  [musts : Clauses(Bare \union Scoped \union Ranges, 2),
   shoulds : Clauses({Keyword(2, 0), In("g", 3, 1), Between("f", 2, 4, "both")}, 1),
   mustNots : Clauses({Keyword(3, 0), In("f", 4, 1), Between("g", 0, 2, "left")}, 1)]
  \union
  [musts : {<< >>}, mustNots : {<< >>},
   shoulds : Clauses(Bare \union Scoped \union Ranges, 2)]

MCViews == {[field |-> "bm25", skip |-> 0, reverse |-> FALSE],
            [field |-> "bm25", skip |-> 1, reverse |-> FALSE],
            [field |-> "bm25", skip |-> 1, reverse |-> TRUE],
            [field |-> "f", skip |-> 0, reverse |-> FALSE],
            [field |-> "g", skip |-> 0, reverse |-> TRUE],
            [field |-> "h", skip |-> 0, reverse |-> FALSE]}

(* The searches of the three storages by the queries above, and some of the*)
(* longer one for its scores.                                              *)
LongTerms == {Keyword(1, 0), Keyword(2, 0), In("f", 2, 1), In("f", 4, 2), In("g", 1, 1),
              In("g", 3, 2), Between("f", 1, 4, "both")}
LongQueries ==
  [musts : Clauses(LongTerms, 2) \ {<< >>}, shoulds : {<< >>}, mustNots : {<< >>}]
  \union
  [musts : {<< >>}, shoulds : Clauses(LongTerms, 1) \ {<< >>},
   mustNots : Clauses({In("f", 1, 1), In("g", 3, 1)}, 1)]

(* With a context that holds the scores of others.                         *)
MCFollowups ==
  {[docs |-> Long, view |-> [field |-> f, skip |-> 0, reverse |-> FALSE],
    q |-> [musts |-> << >>, shoulds |-> <<e>>, mustNots |-> << >>]] :
     f \in {"bm25", "g", "h"}, e \in {In("f", 2, 1), In("f", 4, 2), In("f", 3, 1)}}

Plain == [docs : MCCorpora, q : MCQueries, view : MCViews]
         \union [docs : {Long}, q : LongQueries,
                 view : {[field |-> "bm25", skip |-> 0, reverse |-> FALSE]}]
         \union MCFollowups

(* Batches of two, and of three and then of two.                           *)
MCUnrolls == {<<2>>, <<3, 2>>}

-----------------------------------------------------------------------------
(* Documents from values, and query strings.                               *)

MCTexts == BoundedSeq({"a", "1", ".", " "}, 5)

(* Texts of up to four characters in the order of their bytes, above the   *)
(* encoded numbers.                                                        *)
Code == [c \in {"a", "b", "s", "1", "2", ".", " "} |->
           CHOOSE n \in 1 .. 7 : <<" ", ".", "1", "2", "a", "b", "s">>[n] = c]
MCBytes(text) ==
  LET code(k) == IF k <= Len(text) THEN Code[text[k]] ELSE 0
  IN  IF text = << >> THEN 0 ELSE 1000 + 512 * code(1) + 64 * code(2) + 8 * code(3) + code(4)

(* A final s goes from words of more than two characters.                  *)
MCStemmer(word) ==
  MCBytes(IF Len(word) > 2 /\ Last(word) = "s" THEN Front(word) ELSE word)

MCStopwords == {MCBytes(<<"s">>)}

Text(text) == [text |-> text, int |-> {}, float |-> {}, time |-> {}]
Integral(n) == [Text(<<"1">>) EXCEPT !.int = {n}]
Floating(neg, mag) == [Text(<<"1">>) EXCEPT !.float = {[neg |-> neg, mag |-> mag]}]
Time(t) == [Text(<<"1">>) EXCEPT !.time = {t}]

(* Titles in words without stop words, names in words, exact tags; numbers *)
(* of either sign, and a date that does not fit.                           *)
Library ==
  <<[id |-> "d1", values |->
       [title |-> Text(<<"a", "a", "s", " ", "b">>), tag |-> Text(<<"a", "b">>),
        age |-> Integral(-2), height |-> Floating(TRUE, 1), born |-> Time(3)]],
    [id |-> "d2", values |->
       [title |-> Text(<<"1", ".", "2">>), name |-> Text(<<"b", ".", "a">>),
        age |-> Integral(1), height |-> Floating(FALSE, 0), born |-> Time(-4)]],
    [id |-> "d3", values |->
       [title |-> Text(<<"s">>), name |-> Text(<<"a", "a">>), tag |-> Text(<<"a">>),
        age |-> Integral(3), height |-> Floating(TRUE, 3), born |-> Time(9)]],
    [id |-> "d4", values |->
       [title |-> Text(<<"a", "a", " ", "s">>), height |-> Floating(FALSE, 2)]]>>

MCTokenizers == [title |-> "meaning", tag |-> "keyword", age |-> "integer",
                 height |-> "float", born |-> "date"]

MCReaders ==
  {[allField |-> AllFieldNone, default |-> "words", tokenizers |-> MCTokenizers],
   [allField |-> "name", default |-> "nil",
    tokenizers |-> [name |-> "words"] @@ MCTokenizers]}

Dork(field, match, value) ==
  [operator |-> "", field |-> field, match |-> match, value |-> value,
   boost |-> {}, fuzzy |-> {}]

(* Words, phrases, a stop word; numbers that documents have and others;    *)
(* what is no number, and a date that does not fit.                        *)
Dorks0 ==
  {Dork(AllFieldNone, "bare", Text(text)) :
     text \in {<<"a", "a", "s">>, <<"b", " ", "a", "a">>, <<"1", ".", "2">>, <<"s">>}}
  \union {Dork("title", "", Text(text)) :
            text \in {<<"a", "a">>, <<"s", " ", "b">>, <<"s">>, <<"1", ".">>}}
  \union {Dork("tag", match, Text(<<"a">>)) : match \in {"", ">", ">="}}
  \union {Dork("tag", "<", Text(<<"a", "b">>)), Dork("tag", "", Text(<<"a", "s">>))}
  \union {Dork("age", match, Integral(1)) : match \in {"", ">", ">=", "<", "<="}}
  \union {Dork("age", ">", Integral(-1)), Dork("age", "<=", Integral(3)),
          Dork("age", ">=", Text(<<"a">>))}
  \union {Dork("height", match, Floating(TRUE, 1)) : match \in {">", "<="}}
  \union {Dork("height", ">=", Floating(FALSE, 0)), Dork("height", "<", Floating(TRUE, 2))}
  \union {Dork("born", ">", Time(-4)), Dork("born", "<=", Time(2)),
          Dork("born", ">=", Time(9))}
  \union {[Dork("title", "", Text(<<"b">>)) EXCEPT !.boost = {2}],
          [Dork("tag", "", Text(<<"a">>)) EXCEPT !.fuzzy = {1}]}

Second ==
  {Dork(AllFieldNone, "bare", Text(<<"a", "a">>)), Dork("title", "", Text(<<"s">>)),
   Dork("age", "<", Integral(3)), Dork("height", ">", Floating(TRUE, 3))}

As(operator, dork) == [dork EXCEPT !.operator = operator]

MCDorks ==
  {<<As(operator, dork)>> : operator \in {"", "+"}, dork \in Dorks0}
  \union {<<As("+", dork), As(operator, second)>> :
            dork \in Dorks0, operator \in {"", "+", "-"}, second \in Second}

MCSought == [raw : {Library}, dorks : MCDorks, reader : MCReaders]

Sorts == {[field |-> f, skip |-> 0, reverse |-> FALSE] :
            f \in {"bm25", "age", "height", "born"}}

Strings == {[docs |-> c.docs, q |-> c.q, view |-> by] : c \in Compiled, by \in Sorts}

MCSearches == Plain \union Strings
=============================================================================
