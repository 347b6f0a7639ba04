------------------------------- MODULE Fields -------------------------------
(***************************************************************************)
(* Package fields: the documents of a batch, as storage.BuildFrom takes    *)
(* them, from the values a caller has; and the tokenizers that read the    *)
(* same values from the text of a query (src/tokenizer).                   *)
(*                                                                         *)
(* A value is a record [text, int, float, time] of the text and of what    *)
(* ParseInt, ParseFloat and time.Parse make of it: sets of one number, or  *)
(* of none where they fail.  A time is a number of nanoseconds since 1970. *)
(*                                                                         *)
(* The hashes of tokens are taken for the tokens themselves, and the sizes *)
(* that package fields adds up for its callers are left out.               *)
(***************************************************************************)
EXTENDS Numeric, Tokenizer

(* The number of the eight bytes of a word; no bytes are 0.                *)
Encoded(word) == word + 1

(* The tokens of a value, by the tokenizer of its field.                   *)
Tokenize(tokenizer, value) ==
  LET each(S, Encode(_)) == SetToSeq({Encoded(Encode(n)) : n \in S})
      words == TokenizeWithStemmer(value.text)
  IN  CASE tokenizer = "keyword" -> <<Bytes(value.text)>>
        [] tokenizer = "words"   -> words
        [] tokenizer = "meaning" -> FilterStopword(words)   \* WithoutStopwords
        [] tokenizer = "integer" -> each(value.int, PutSortableInteger)
        [] tokenizer = "float"   -> each(value.float, PutSortableFloat)
        [] tokenizer = "date"    ->
             each(value.time, LAMBDA t : PutSortableInteger(UnixNano(t)))

(* TextField: the tokens that are not empty, with their frequencies.       *)
TextField(tokens) ==
  LET kept == {k \in DOMAIN tokens : tokens[k] # 0} IN
  [tokens |-> [v \in {tokens[k] : k \in kept} |-> Cardinality({k \in kept : tokens[k] = v})],
   length |-> Cardinality(kept)]

(* KeywordField, IntegerField, FloatField and TimeField: one token.        *)
OneToken(v) == [tokens |-> [w \in {v} |-> 1], length |-> 1]

Number(S) == CHOOSE n \in S : TRUE

(* A field of a document, by the function that makes it.                   *)
FieldOf(tokenizer, value) ==
  CASE tokenizer \in {"words", "meaning"} -> TextField(Tokenize(tokenizer, value))
    [] tokenizer = "keyword" -> OneToken(Bytes(value.text))
    [] tokenizer = "integer" -> OneToken(Encoded(PutSortableInteger(Number(value.int))))
    [] tokenizer = "float"   -> OneToken(Encoded(PutSortableFloat(Number(value.float))))
    [] tokenizer = "date"    ->
         OneToken(Encoded(PutSortableInteger(UnixNano(Number(value.time)))))

(* Batch.Insert of one document after the other; a raw document is a record*)
(* [id, values], its values a function from field names.                   *)
Batch(raw, tokenizers) ==
  [k \in DOMAIN raw |->
     [id     |-> raw[k].id,
      fields |-> [f \in DOMAIN raw[k].values |->
                    FieldOf(tokenizers[f], raw[k].values[f])]]]
=============================================================================
