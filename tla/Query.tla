------------------------------- MODULE Query -------------------------------
(***************************************************************************)
(* One search: query.Searcher over a storage.Storage (src/query), from     *)
(* FilterDocuments through BM25Score or FieldScore and ResolveScores to    *)
(* the sequence of documents that textiplex.Reader.Query yields            *)
(* (src/reader.go).                                                        *)
(*                                                                         *)
(* A query has three clauses, each a sequence of entries in the order in   *)
(* which Iter and IterCond take them: bare keywords, scoped keywords,      *)
(* ranges.  A bare keyword is looked up in every field, in the order of a  *)
(* Go map, so any field may be next.                                       *)
(*                                                                         *)
(* Token values are numbers, and two values are as many edits apart as     *)
(* their difference.  A score is an integer: the part of a term in it      *)
(* grows with the frequency of the term, shrinks with the length of the    *)
(* field, and leaves out the positive factor idf.                          *)
(***************************************************************************)
EXTENDS Segment

CONSTANTS
  Searches,       \* records [docs, q, view] of the documents a storage is built
                  \* from, a query [musts, shoulds, mustNots] of clauses, and
                  \* how results are asked for: [field, skip, reverse]
  Followups,      \* those that a caller makes with the context of another
  BM25,           \* SortFieldBM25, the field that is none
  Open,           \* the empty bytes: an end of a range that is not given
  LevenshteinMaxK, LevenshteinM,  \* Searcher's limits on fuzzy keywords
  Unrolls,        \* how many documents the accumulators take at a time: <<8>>
                  \* in ScalarAccumulateBM25, <<64, 8>> in AVX2AccumulateBM25
  Scale           \* the fraction of a score that counts as 1

NoField == "no field"

(* An end of a range that is not given is not an excluded one              *)
(* (src/dorks/compile.go:94-100).                                          *)
IsEntry(e) ==
  /\ e.boost \in Nat
  /\ \/ /\ e.kind \in {"keyword", "fieldKeyword"}
        /\ e.value \in Nat /\ e.fuzzy \in Nat
     \/ /\ e.kind = "fieldRange"
        /\ {e.low, e.high} \subseteq Nat \union {Open}
        /\ e.mode \in {"left", "right", "both", "none"}
        /\ e.low = Open => e.mode \in {"left", "both"}
        /\ e.high = Open => e.mode \in {"right", "both"}

IsClause(clause) == clause \in Seq(ToSet(clause)) /\ \A e \in ToSet(clause) : IsEntry(e)

(* The fields of package fields: a token is there at least once, and the   *)
(* length counts every time it is.                                         *)
IsCorpus(corpus) ==
  /\ IsBatch(corpus)
  /\ {BM25, NoField} \intersect FieldsOf(corpus) = {}
  /\ \A f \in FieldsOf(corpus) : Open \notin ValuesOf(corpus, f)
  /\ \A k \in DOMAIN corpus : \A f \in DOMAIN corpus[k].fields :
       LET field == corpus[k].fields[f] IN
       \A v \in DOMAIN field.tokens :
         field.tokens[v] \in 1 .. field.length /\ field.tokens[v] + field.length <= Scale

IsSearch(search) ==
  /\ search = [docs |-> search.docs, q |-> search.q, view |-> search.view]
  /\ IsCorpus(search.docs)
  /\ IsClause(search.q.musts) /\ IsClause(search.q.shoulds) /\ IsClause(search.q.mustNots)
  /\ search.view.skip \in Nat /\ search.view.reverse \in BOOLEAN

ASSUME QueryAssumption ==
  /\ Followups \subseteq Searches
  /\ LevenshteinMaxK \in 0 .. 3
  /\ LevenshteinM \in Nat \ {0}
  /\ Scale \in Nat
  /\ Unrolls \subseteq Seq(Nat \ {0}) /\ Unrolls # {}
  /\ \A search \in Searches : IsSearch(search)

VARIABLES
  docs,      \* the documents, for the properties
  seg,       \* the storage that indexes them
  q, view,   \* what is asked
  used,      \* whether the context comes from a search before this one
  phase,     \* where the search stands
  todo,      \* the clause entries still to be handled, with their fields
  bitmaps,   \* the bitmaps of the Must entries so far
  bitmap,    \* ctx.Bitmap: the candidates, by document index
  scores,    \* ctx.Scoring.Scores: records [index, value]
  pending,   \* FieldScore: candidates without a score
  assigned,  \* FieldScore: scores given out
  walked,    \* FieldScore: tokens of the field walked over
  yielded    \* the document ids the caller has received

vars == <<docs, seg, q, view, used, phase, todo, bitmaps, bitmap, scores,
          pending, assigned, walked, yielded>>

-----------------------------------------------------------------------------
(* storage.Tokens.  A sorted table is searched by halving: the index of    *)
(* the first element that is not below the target, counted from 0.         *)

Search(table, Key(_), x) == Cardinality({k \in DOMAIN table : Key(table[k]) < x})
Has(table, i, Key(_), x) == i < Len(table) /\ Key(table[i + 1]) = x

Value(token) == token.value
BinarySearch(tokens, v) == Search(tokens, Value, v)
Found(tokens, v) == Has(tokens, BinarySearch(tokens, v), Value, v)

(* Tokens.IterBytes: nothing when an end is above every token.             *)
IterBytes(tokens, lo, hi) ==
  LET start == BinarySearch(tokens, lo)
      end   == BinarySearch(tokens, hi)
  IN  IF start >= Len(tokens) \/ end >= Len(tokens) THEN << >>
      ELSE SubSeq(tokens, start + 1, end + 1)

-----------------------------------------------------------------------------
(* Searcher.Iter and Searcher.IterCond.                                    *)

(* The bytes an iterator is given for an end that is not given itself.     *)
LowOf(r, tokens) == IF r.low = Open THEN tokens[1].value ELSE r.low
HighOf(r, tokens) == IF r.high = Open THEN tokens[Len(tokens)].value ELSE r.high

(* What is at the positions I of a table.                                  *)
Selected(table, I) == LET at == Ascending(I) IN [k \in DOMAIN at |-> table[at[k]]]

RangeTokens(r, tokens) ==
  LET lo  == LowOf(r, tokens)
      hi  == HighOf(r, tokens)
      run == IterBytes(tokens, lo, hi)
      skips == run # << >> /\ run[1].value = lo /\ r.mode \in {"right", "none"}
      stops(t) == t.value > hi \/ (t.value = hi /\ r.mode \in {"left", "none"})
      rest == IF skips THEN Tail(run) ELSE run
  IN  Selected(rest, {k \in DOMAIN rest : ~stops(rest[k])})

(* levenshtein.Levenshtein.Matches: the first m tokens within k edits.     *)
Near(tokens, v, k) ==
  LET within == Selected(tokens, {n \in DOMAIN tokens : tokens[n].value - v \in (-k) .. k})
  IN  IF k = 0 THEN << >>
      ELSE SubSeq(within, 1, IF Len(within) < LevenshteinM THEN Len(within) ELSE LevenshteinM)

KeywordTokens(e, tokens) ==
  IF Found(tokens, e.value) THEN <<tokens[BinarySearch(tokens, e.value) + 1]>>
  ELSE Near(tokens, e.value,
            IF e.fuzzy < LevenshteinMaxK THEN e.fuzzy ELSE LevenshteinMaxK)

TokensFor(e, f) ==
  LET tokens == seg.fields[f].tokens IN
  IF e.kind = "fieldRange" THEN RangeTokens(e, tokens) ELSE KeywordTokens(e, tokens)

(* Both ends index the tokens of a field that has none, and the iterator   *)
(* over none is a nil function.                                            *)
Panics(e) == /\ e.kind = "fieldRange"
             /\ e.field \in DOMAIN seg.fields
             /\ seg.fields[e.field].tokens = << >>

FieldsFor(e) ==
  IF e.kind = "keyword" THEN DOMAIN seg.fields ELSE {e.field} \intersect DOMAIN seg.fields

(* The fields an entry is handled with: those where it has tokens.  Where  *)
(* there is none, IterCond calls the handler without tokens, Iter does not.*)
Turns(e, cond) ==
  LET holding == {f \in FieldsFor(e) : TokensFor(e, f) # << >>} IN
  IF Panics(e) \/ (holding = {} /\ cond) THEN {NoField} ELSE holding

Pass(clause, cond) ==
  LET all == [k \in DOMAIN clause |-> [entry |-> clause[k], turns |-> Turns(clause[k], cond)]]
  IN  Selected(all, {k \in DOMAIN all : all[k].turns # {}})

(* One call of the handler, for field f of the entry at the head of todo.  *)
AtTurn(f) == todo # << >> /\ f \in Head(todo).turns /\ ~Panics(Head(todo).entry)

AfterTurn(f) == IF Head(todo).turns = {f} THEN Tail(todo)
                ELSE [todo EXCEPT ![1].turns = @ \ {f}]

Turn == Head(todo).entry
TurnTokens(f) == IF f = NoField THEN << >> ELSE TokensFor(Turn, f)

Listed(tokens) == UNION {seg.lists[tokens[k].list + 1] : k \in DOMAIN tokens}

-----------------------------------------------------------------------------
(* Scoring.  Add looks for the document from the position of the last one. *)

Index(score) == score.index
ByDoc(entry) == entry.doc
Rest(table, n) == SubSeq(table, n + 1, Len(table))

NewScoring(S) == LET at == Ascending(S) IN [k \in DOMAIN at |-> [index |-> at[k], value |-> 0]]

BadAddAt(guess, table, doc) ==   \* the found position does not count from guess
  Search(Rest(table, guess), Index, doc)

AddAt(guess, table, doc) == guess + Search(Rest(table, guess), Index, doc)

(* The part of one term in the score of one document: saturation 1, length *)
(* penalty 1 and an average length of 1, in fractions of Scale.            *)
Part(tf, dl, boost) == boost * ((Scale * tf) \div (tf + dl))

(* As many batches of each width as there are, then one document at a time.*)
Cut(docAt, width) ==
  [k \in 1 .. Len(docAt) \div width |-> SubSeq(docAt, (k - 1) * width + 1, k * width)]

Batched(docAt, widths) ==
  FoldLeft(LAMBDA acc, width :
             [cut  |-> acc.cut \o Cut(acc.rest, width),
              rest |-> Rest(acc.rest, width * (Len(acc.rest) \div width))],
           [cut |-> << >>, rest |-> docAt], Append(widths, 1)).cut

(* Where the documents of a batch are in a table.  One with an entry for   *)
(* each document is indexed; another is searched for the last of them, and *)
(* for each other one in front of the one after it.                        *)
Dense(table) == Len(table) = Len(seg.ids)

Positions(table, dense, batch) ==
  LET at[k \in DOMAIN batch] ==
        IF dense THEN batch[k] + 1
        ELSE 1 + Search(IF k = Len(batch) THEN table ELSE SubSeq(table, 1, at[k + 1] - 1),
                        ByDoc, batch[k])
  IN  at

(* The next batch is searched for behind the last document of this one.    *)
Advance(table, dense, batch) ==
  IF dense THEN table ELSE Rest(table, Last(Positions(table, dense, batch)))

BadAddParts(scoring, batch, parts) ==   \* the last one gets the part of the first
  LET add(acc, k) ==
        LET at == AddAt(acc.guess, acc.table, batch[k])
            part == parts[IF k = Len(batch) THEN 1 ELSE k]
        IN  [table |-> [acc.table EXCEPT ![at + 1].value = @ + part], guess |-> at]
  IN  FoldLeft(add, scoring, [k \in DOMAIN batch |-> k])

(* The parts of a batch go to the scores one after the other.              *)
AddParts(scoring, batch, parts) ==
  LET add(acc, k) ==
        LET at == AddAt(acc.guess, acc.table, batch[k]) IN
        [table |-> [acc.table EXCEPT ![at + 1].value = @ + parts[k]], guess |-> at]
  IN  FoldLeft(add, scoring, [k \in DOMAIN batch |-> k])

(* The body of the accumulators for one token, with their batches.         *)
AccumulateToken(table, f, token, boost, widths) ==
  LET lens  == seg.fields[f].lengths
      freqs == Slice(seg, token)
      docAt == Ascending(bitmap \intersect seg.lists[token.list + 1])
      next(acc, batch) ==
        LET tf == Positions(acc.freqs, Dense(freqs), batch)
            dl == Positions(acc.lens, Dense(lens), batch)
            part(k) == Part(acc.freqs[tf[k]].freq, acc.lens[dl[k]].length, boost)
        IN  [freqs   |-> Advance(acc.freqs, Dense(freqs), batch),
             lens    |-> Advance(acc.lens, Dense(lens), batch),
             scoring |-> AddParts(acc.scoring, batch, [k \in DOMAIN batch |-> part(k)])]
      idf == token.count <= Len(lens) /\ lens # << >>   \* it is not 0
  IN  IF ~idf \/ boost = 0 THEN table
      ELSE FoldLeft(next,
                    [freqs |-> freqs, lens |-> lens, scoring |-> [table |-> table, guess |-> 0]],
                    Batched(docAt, widths)).scoring.table

(* ScalarAccumulateBM25 or AVX2AccumulateBM25 of the tokens of one entry.  *)
Accumulate(f, widths) ==
  FoldLeft(LAMBDA table, token : AccumulateToken(table, f, token, Turn.boost, widths),
           scores, TurnTokens(f))

-----------------------------------------------------------------------------
Init ==
  /\ \E search \in Searches :
       docs = search.docs /\ q = search.q /\ view = search.view
  /\ seg = LaidOut(docs, FoldSet(LAMBDA f, order : Append(order, f), << >>, FieldsOf(docs)))
  /\ used = FALSE
  /\ phase = "start"
  /\ todo = << >>
  /\ bitmaps = {}
  /\ bitmap = {}
  /\ scores = << >>
  /\ pending = {}
  /\ assigned = 0
  /\ walked = 0
  /\ yielded = << >>

Asked == <<docs, seg, q, view, used>>
FieldVars == <<pending, assigned, walked>>

(* FilterDocuments: the Musts define the candidates, or else the Shoulds.  *)
StartFilter ==
  /\ phase = "start"
  /\ IF q.musts # << >>
       THEN phase' = "musts" /\ todo' = Pass(q.musts, TRUE)
       ELSE phase' = "shoulds" /\ todo' = Pass(q.shoulds, FALSE)
  /\ UNCHANGED <<Asked, bitmaps, bitmap, scores, FieldVars, yielded>>

BadFilterMust(f) ==   \* a Must without tokens is passed over
  /\ phase = "musts"
  /\ AtTurn(f)
  /\ bitmaps' = IF TurnTokens(f) = << >> THEN bitmaps
                ELSE bitmaps \union {Listed(TurnTokens(f))}
  /\ todo' = AfterTurn(f)
  /\ UNCHANGED <<Asked, phase, bitmap, scores, FieldVars, yielded>>

FilterMust(f) ==
  /\ phase = "musts"
  /\ AtTurn(f)
  /\ IF TurnTokens(f) = << >>
       THEN bitmaps' = {} /\ todo' = << >>
       ELSE bitmaps' = bitmaps \union {Listed(TurnTokens(f))} /\ todo' = AfterTurn(f)
  /\ UNCHANGED <<Asked, phase, bitmap, scores, FieldVars, yielded>>

EndMusts ==
  /\ phase = "musts"
  /\ todo = << >>
  /\ bitmap' = IF bitmaps = {} THEN bitmap
               ELSE {d \in UNION bitmaps : \A b \in bitmaps : d \in b}
  /\ phase' = "filtered"
  /\ UNCHANGED <<Asked, todo, bitmaps, scores, FieldVars, yielded>>

FilterShould(f) ==
  /\ phase = "shoulds"
  /\ AtTurn(f)
  /\ bitmap' = bitmap \union Listed(TurnTokens(f))
  /\ todo' = AfterTurn(f)
  /\ UNCHANGED <<Asked, phase, bitmaps, scores, FieldVars, yielded>>

EndShoulds ==
  /\ phase = "shoulds"
  /\ todo = << >>
  /\ phase' = "filtered"
  /\ UNCHANGED <<Asked, todo, bitmaps, bitmap, scores, FieldVars, yielded>>

StartMustNots ==
  /\ phase = "filtered"
  /\ IF q.mustNots # << >> /\ bitmap # {}
       THEN phase' = "mustNots" /\ todo' = Pass(q.mustNots, TRUE)
       ELSE phase' = "candidates" /\ UNCHANGED todo
  /\ UNCHANGED <<Asked, bitmaps, bitmap, scores, FieldVars, yielded>>

FilterMustNot(f) ==
  /\ phase = "mustNots"
  /\ AtTurn(f)
  /\ bitmap' = bitmap \ Listed(TurnTokens(f))
  /\ todo' = IF bitmap' = {} THEN << >> ELSE AfterTurn(f)
  /\ UNCHANGED <<Asked, phase, bitmaps, scores, FieldVars, yielded>>

EndMustNots ==
  /\ phase = "mustNots"
  /\ todo = << >>
  /\ phase' = "candidates"
  /\ UNCHANGED <<Asked, todo, bitmaps, bitmap, scores, FieldVars, yielded>>

(* Whichever pass meets the range first.                                   *)
Panic ==
  /\ todo # << >>
  /\ Panics(Turn)
  /\ phase' = "panicked"
  /\ UNCHANGED <<Asked, todo, bitmaps, bitmap, scores, FieldVars, yielded>>

-----------------------------------------------------------------------------
(* BM25Score: the Musts, then the Shoulds.                                 *)
ScoredClauses == q.musts \o q.shoulds

StartBM25 ==
  /\ phase = "candidates"
  /\ view.field = BM25
  /\ scores' = NewScoring(bitmap)
  /\ todo' = Pass(ScoredClauses, FALSE)
  /\ phase' = "bm25"
  /\ UNCHANGED <<Asked, bitmaps, bitmap, FieldVars, yielded>>

(* By either accumulator, as the build and the processor have it.          *)
AccumulateBM25(f) ==
  /\ phase = "bm25"
  /\ AtTurn(f)
  /\ \E widths \in Unrolls : scores' = Accumulate(f, widths)
  /\ todo' = AfterTurn(f)
  /\ UNCHANGED <<Asked, phase, bitmaps, bitmap, FieldVars, yielded>>

EndBM25 ==
  /\ phase = "bm25"
  /\ todo = << >>
  /\ phase' = "scored"
  /\ UNCHANGED <<Asked, todo, bitmaps, bitmap, scores, FieldVars, yielded>>

(* FieldScore: nothing is scored by a field the storage does not have.     *)
StartField ==
  /\ phase = "candidates"
  /\ view.field # BM25
  /\ IF view.field \in DOMAIN seg.fields
       THEN /\ scores' = NewScoring(bitmap)
            /\ pending' = bitmap
            /\ phase' = "field"
       ELSE /\ phase' = "scored"
            /\ UNCHANGED <<scores, pending>>
  /\ UNCHANGED <<Asked, todo, bitmaps, bitmap, assigned, walked, yielded>>

BadStillPending(list) == pending   \* what a token resolved stays pending

StillPending(list) == pending \ list

(* The pending candidates of the next token, by document index.            *)
ScoreByToken ==
  LET tokens   == seg.fields[view.field].tokens
      list     == seg.lists[tokens[walked + 1].list + 1]
      resolved == Ascending(pending \intersect list)
      add(acc, k) ==
        LET at == AddAt(acc.guess, acc.table, resolved[k]) IN
        [table |-> [acc.table EXCEPT ![at + 1].value = @ + Len(scores) - (assigned + k - 1)],
         guess |-> at]
  IN  /\ phase = "field"
      /\ pending # {} /\ walked < Len(tokens)
      /\ scores' = FoldLeft(add, [table |-> scores, guess |-> 0],
                            [k \in DOMAIN resolved |-> k]).table
      /\ assigned' = assigned + Len(resolved)
      /\ pending' = StillPending(list)
      /\ walked' = walked + 1
      /\ UNCHANGED <<Asked, phase, todo, bitmaps, bitmap, yielded>>

EndField ==
  /\ phase = "field"
  /\ \/ pending = {}
     \/ walked = Len(seg.fields[view.field].tokens)
  /\ phase' = "scored"
  /\ UNCHANGED <<Asked, todo, bitmaps, bitmap, scores, FieldVars, yielded>>

-----------------------------------------------------------------------------
(* ResolveScores: by descending value; equal values in any order, as the   *)
(* sort is not stable.                                                     *)
ResolveScores ==
  /\ phase = "scored"
  /\ \E table \in SetToSeqs(ToSet(scores)) :
       /\ \A i, j \in DOMAIN table : i < j => table[i].value >= table[j].value
       /\ scores' = table
  /\ phase' = "resolved"
  /\ UNCHANGED <<Asked, todo, bitmaps, bitmap, FieldVars, yielded>>

(* A caller of package query keeps the context for its next search and     *)
(* clears its Bitmap, as FilterDocuments leaves to it; the scores stay.    *)
(* Bound: once.  Reader.Query has a new context for each search.           *)
SearchAgain ==
  /\ phase = "resolved"
  /\ ~used
  /\ \E search \in Followups :
       search.docs = docs /\ q' = search.q /\ view' = search.view
  /\ used' = TRUE
  /\ phase' = "start"
  /\ bitmaps' = {}
  /\ bitmap' = {}
  /\ pending' = {} /\ assigned' = 0 /\ walked' = 0
  /\ UNCHANGED <<docs, seg, todo, scores, yielded>>

BadSkip(table, n, reverse) ==   \* from the front, whichever end comes first
  Rest(table, IF n < Len(table) THEN n ELSE Len(table))

(* Reader.Query drops the skipped results.  From the end, a skip beyond    *)
(* them wraps around and slices out of bounds.                             *)
Skip(table, n, reverse) ==
  IF reverse THEN SubSeq(table, 1, Len(table) - n)
  ELSE Rest(table, IF n < Len(table) THEN n ELSE Len(table))

SkipResults ==
  /\ phase = "resolved"
  /\ ~used
  /\ IF view.reverse /\ view.skip > Len(scores)
       THEN phase' = "panicked" /\ UNCHANGED scores
       ELSE phase' = "yield" /\ scores' = Skip(scores, view.skip, view.reverse)
  /\ UNCHANGED <<Asked, todo, bitmaps, bitmap, FieldVars, yielded>>

NextScore == IF view.reverse THEN scores[Len(scores) - Len(yielded)]
             ELSE scores[Len(yielded) + 1]

Yield ==
  /\ phase = "yield"
  /\ Len(yielded) < Len(scores)
  /\ NextScore.value # 0
  /\ yielded' = Append(yielded, seg.ids[NextScore.index + 1])
  /\ UNCHANGED <<Asked, phase, todo, bitmaps, bitmap, scores, FieldVars>>

BadReturn ==   \* the last result is not looked at
  /\ phase = "yield"
  /\ Len(yielded) + 1 < Len(scores) => NextScore.value = 0
  /\ phase' = "done"
  /\ UNCHANGED <<Asked, todo, bitmaps, bitmap, scores, FieldVars, yielded>>

(* After the last result, or at the first one without a score.             *)
Return ==
  /\ phase = "yield"
  /\ Len(yielded) < Len(scores) => NextScore.value = 0
  /\ phase' = "done"
  /\ UNCHANGED <<Asked, todo, bitmaps, bitmap, scores, FieldVars, yielded>>

(* The caller leaves its loop.                                             *)
Break ==
  /\ phase = "yield"
  /\ yielded # << >>
  /\ phase' = "left"
  /\ UNCHANGED <<Asked, todo, bitmaps, bitmap, scores, FieldVars, yielded>>

Turning(f) == \/ FilterMust(f) \/ FilterShould(f) \/ FilterMustNot(f)
              \/ AccumulateBM25(f)

Next ==
  \/ StartFilter
  \/ \E f \in DOMAIN seg.fields \union {NoField} : Turning(f)
  \/ EndMusts
  \/ EndShoulds
  \/ StartMustNots
  \/ EndMustNots
  \/ Panic
  \/ StartBM25
  \/ EndBM25
  \/ StartField
  \/ ScoreByToken
  \/ EndField
  \/ ResolveScores
  \/ SearchAgain
  \/ SkipResults
  \/ Yield
  \/ Return
  \/ Break

Spec == Init /\ [][Next]_vars

-----------------------------------------------------------------------------
(* What a query means, said of the documents and not of their index.       *)

Interval(r, values) ==
  {v \in values :
     /\ r.low # Open => IF r.mode \in {"left", "both"} THEN v >= r.low ELSE v > r.low
     /\ r.high # Open => IF r.mode \in {"right", "both"} THEN v <= r.high ELSE v < r.high}

(* The least n of S.                                                       *)
Least(S, n) == {v \in S : Cardinality({w \in S : w < v}) < n}

Meant(e, f) ==
  LET values == ValuesOf(docs, f)
      k == IF e.fuzzy < LevenshteinMaxK THEN e.fuzzy ELSE LevenshteinMaxK
  IN  IF e.kind = "fieldRange" THEN Interval(e, values)
      ELSE IF e.value \in values THEN {e.value}
      ELSE Least({v \in values : k > 0 /\ v - e.value \in (-k) .. k}, LevenshteinM)

MeetsIn(d, e, f) == \E v \in Meant(e, f) : HasToken(docs[d + 1], f, v)
Meets(d, e) == \E f \in FieldsFor(e) : MeetsIn(d, e, f)

MeetsAll(d, clause) == \A k \in DOMAIN clause : Meets(d, clause[k])
MeetsSome(d, clause) == \E k \in DOMAIN clause : Meets(d, clause[k])

Indices == {k - 1 : k \in DOMAIN docs}
Wanted ==
  {d \in Indices :
     /\ IF q.musts # << >> THEN MeetsAll(d, q.musts) ELSE MeetsSome(d, q.shoulds)
     /\ ~MeetsSome(d, q.mustNots)}

(* The value of a document for a query, term by term.                      *)
TermsOf(e) == UNION {{<<f, v>> : v \in Meant(e, f)} : f \in FieldsFor(e)}
RelevanceTo(d, e) ==
  MapThenSumSet(
    LAMBDA t : LET field == docs[d + 1].fields[t[1]]
               IN  Part(field.tokens[t[2]], field.length, e.boost),
    {t \in TermsOf(e) : HasToken(docs[d + 1], t[1], t[2])})
Relevance(d) == SumOf(q.musts \o q.shoulds, LAMBDA e : RelevanceTo(d, e))

Filtered == phase \in {"candidates", "bm25", "field", "scored", "resolved", "yield", "done"}

Entries == ToSet(q.musts) \union ToSet(q.shoulds) \union ToSet(q.mustNots)

(* A range whose high end is above every token of its field, see           *)
(* RangeKeepsFirst.                                                        *)
TooHigh(e) ==
  /\ e.kind = "fieldRange" /\ e.high # Open
  /\ e.field \in DOMAIN seg.fields
  /\ \A v \in ValuesOf(docs, e.field) : v < e.high
AnyTooHigh == \E e \in Entries : TooHigh(e)

(* A bare Must that is found in several fields, see MustsMatchAnywhere.    *)
Scattered ==
  \E e \in ToSet(q.musts) :
    e.kind = "keyword" /\ Cardinality({f \in FieldsFor(e) : Meant(e, f) # {}}) > 1

(* The scores that are left once Reader.Query has returned all it will.    *)
Ids(table) == [k \in DOMAIN table |-> seg.ids[table[k].index + 1]]

SmallestToken(d) ==
  CHOOSE v \in DOMAIN docs[d + 1].fields[view.field].tokens :
    \A w \in DOMAIN docs[d + 1].fields[view.field].tokens : v <= w
HasSortToken(d) == \E v \in ValuesOf(docs, view.field) : HasToken(docs[d + 1], view.field, v)

-----------------------------------------------------------------------------
(* The state of a search is well typed; candidates are documents of the    *)
(* storage and each has at most one score.                                 *)
TypeOK ==
  /\ [docs |-> docs, q |-> q, view |-> view] \in Searches
  /\ phase \in {"start", "musts", "shoulds", "filtered", "mustNots", "candidates",
                "bm25", "field", "scored", "resolved", "yield", "done", "left", "panicked"}
  /\ bitmap \subseteq Indices
  /\ \A b \in bitmaps : b \subseteq Indices
  /\ pending \subseteq bitmap
  /\ assigned \in 0 .. Cardinality(bitmap)
  /\ walked \in Nat
  /\ used \in BOOLEAN
  /\ \A k \in DOMAIN scores : scores[k].index \in Indices /\ scores[k].value \in Nat
  /\ phase \in {"bm25", "field"} => {scores[k].index : k \in DOMAIN scores} = bitmap
  /\ IsInjective([k \in DOMAIN scores |-> scores[k].index])
  /\ yielded \in Seq(ToSet(seg.ids))

(* FilterDocuments keeps no document that misses a Must or meets a MustNot,*)
(* and it keeps every document that is wanted, unless a bare Must keyword  *)
(* is found in several fields; ranges that end above every token aside.    *)
CandidatesRight ==
  Filtered /\ ~AnyTooHigh => /\ bitmap \subseteq Wanted
                             /\ ~Scattered => bitmap = Wanted

(* BM25Score gives each candidate, through dense and sparse tables, moving *)
(* cursors and batches of any size, the frequencies and lengths of that    *)
(* document, once for each term of the Musts and the Shoulds.              *)
ScoresExact ==
  phase \in {"scored", "resolved"} /\ view.field = BM25 /\ ~AnyTooHigh =>
    ToSet(scores) = {[index |-> d, value |-> Relevance(d)] : d \in bitmap}

(* FieldScore ranks the candidates that have the field by their smallest   *)
(* token, then by index, with the scores from the number of candidates     *)
(* down, and leaves the others without a score                             *)
(* (src/query/searcher_fields_test.go:23-33).                              *)
FieldRanks ==
  phase \in {"scored", "resolved"} /\ view.field \in DOMAIN seg.fields =>
    LET having == {d \in bitmap : HasSortToken(d)}
        before(d) == {e \in having : \/ SmallestToken(e) < SmallestToken(d)
                                     \/ (SmallestToken(e) = SmallestToken(d) /\ e < d)}
    IN  ToSet(scores) =
          {[index |-> d,
            value |-> IF d \in having THEN Cardinality(bitmap) - Cardinality(before(d))
                      ELSE 0] : d \in bitmap}

(* Ranked by BM25, with no boost of 0, a caller that reads to the end gets *)
(* every wanted document but the skipped ones, and each once: a candidate  *)
(* never falls out between the filter, which calls IterCond, and the       *)
(* scores, which call Iter.                                                *)
AllAnswered ==
  /\ phase = "done" /\ view.field = BM25
  /\ ~AnyTooHigh /\ ~Scattered
  /\ \A e \in ToSet(q.musts) \union ToSet(q.shoulds) : e.boost > 0
  => LET missing == Cardinality(Wanted) - Len(yielded) IN
     /\ ToSet(yielded) \subseteq {seg.ids[d + 1] : d \in Wanted}
     /\ IsInjective(yielded)
     /\ missing = IF view.skip < Cardinality(Wanted) THEN view.skip ELSE Cardinality(Wanted)

(* The pages of a result follow on each other: what is skipped is what     *)
(* comes first in the order asked for, no result outranks the ones before. *)
PageSkipsFirst ==
  phase = "done" /\ view.field = BM25 /\ ~AnyTooHigh /\ ~Scattered /\ yielded # << >> =>
    LET docOf(id) == CHOOSE d \in Indices : seg.ids[d + 1] = id
        ahead(d, e) == IF view.reverse THEN Relevance(d) < Relevance(e)
                       ELSE Relevance(d) > Relevance(e)
        answered == {docOf(yielded[k]) : k \in DOMAIN yielded}
    IN  /\ \A d \in answered : \A e \in {c \in bitmap : Relevance(c) # 0} \ answered :
             ~ahead(d, e)
        /\ \A i, j \in DOMAIN yielded :
             i < j => ~ahead(docOf(yielded[j]), docOf(yielded[i]))

-----------------------------------------------------------------------------
(* README.md:294: "+Jon +Snow // must match both terms anywhere".  The     *)
(* code wants a bare Must in every field that has the term at all.         *)
MustsMatchAnywhere == Filtered /\ ~AnyTooHigh => bitmap = Wanted

(* README.md:277: "`reverse` inverts the iteration order over the scored   *)
(* result set".  The code stops at the first candidate without a score,    *)
(* and from the end those come first.                                      *)
ReverseInverts ==
  phase = "done" /\ view.reverse /\ view.skip = 0 =>
    yielded = Ids(Reverse(SelectSeq(scores, LAMBDA s : s.value # 0)))

(* searcher_must_range_test.go:119: "the first in-range token must not be  *)
(* dropped when the bound value is absent".  IterBytes yields nothing when *)
(* the high end is above every token.                                      *)
RangeKeepsFirst ==
  Filtered /\ q.musts = << >> =>
    \A e \in ToSet(q.shoulds) : \A f \in FieldsFor(e) :
      LET within == Interval(e, ValuesOf(docs, f)) IN
      e.kind = "fieldRange" =>
        \A v \in Least(within, 1) : \A d \in Holders(docs, f, v) :
          MeetsSome(d, q.mustNots) \/ d \in bitmap
=============================================================================
