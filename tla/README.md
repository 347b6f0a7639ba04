# Textiplex in TLA+

TLA+ models of textiplex, the full-text search library of this repository:
`Writer` and the directory it merges, the storage engine with its streaming
merger, the searcher, the Levenshtein automaton, the `Reader` around one
storage, and what becomes of values and query strings on the way to tokens. TLC
checks the models on small instances; TLAPS proves, for every instance, the
central theorems of the writer, of a storage and its reader, of building, saving
and merging segments, of the filter, the scores, the field ranks and the pages of
a search, of the Levenshtein automaton, of the encodings of numbers, and of what a
query string finds among the values it was given. All paths below are relative to
`src/`.

## 1. Inventory of the system

| Component | State it keeps | Operations | Called by |
|---|---|---|---|
| **Writer** (`writer.go`) | `SegmentCounter`, the segment files of `Directory`; during a merge a listing, the `workers` channel, `errorsCh` | `Batch`, `Merge` | the application, `Batch` from many goroutines |
| **Storage: build and save** (`storage/storage.go`) | tables of document ids, frequencies, posting lists, fields; `Size` | `BuildFrom`, `SaveTo`, `WriteToFile` | Writer |
| **Storage: life** (`storage/storage.go`) | the mapping, the file and slices over it; `Initialized`; whatever an earlier use left | `Load`, `Close`, `Reset`, then `BuildFrom` and `SaveTo` again | Writer, Reader, the application |
| **Merger** (`storage/merge.go`, `merge_bitmap.go`) | cursors, recorded field orders, a mapped temporary file, the output | `Merge` | Writer's workers |
| **On-disk records** (`storage/headers.go`) | none | fixed-size records, binary searches in tables | all of the above |
| **Token lookups** (`storage/storage.go:36-116`) | none | `GetBytes`, `GetBytesOrNear`, `IterBytes` | Searcher, automaton |
| **Searcher** (`query/`) | `QueryContext`: a bitmap and a table of scores | `FilterDocuments`, `Iter`, `IterCond`, `BM25Score`, `FieldScore`, `ResolveScores` | Reader |
| **Levenshtein automaton** (`levenshtein/`) | pivot, stack of states, count | `Matches`; `LevenshteinMatch`, which only tests and benchmarks call | Searcher |
| **Reader** (`reader.go`) | a Storage, a Searcher or nil, tokenizers | `Reset`, `Query`, `QueryString`, `Close`, and the sequences the queries return | the application |
| **Dorks** (`dorks/`) | none | a grammar and its compilation to a `SimpleQuery` | Reader, the application |
| **Fields and batches** (`fields/`) | documents under construction | `Batch.Insert`, fields of text, keywords, integers, floats, times | the application |
| **Tokenizers** (`tokenizer/`) | none | words, stop words, numbers, dates, keywords | fields, dorks |
| **Sortable numbers** (`numeric/`) | none | integers and floats as words whose bytes sort | fields, tokenizers |
| **SIMD scoring** (`query/bm25_acc_avx2_simd.go`) | none | the accumulator in lanes of 64 and 8 | Searcher |
| **pool, pointers, fastlog, watermark, tuple, options** | none that outlives a call | allocation, reinterpretation, a logarithm | the others |

The life of a document: `fields` makes a `storage.Document` of it;
`Writer.Batch` builds a storage of a batch and saves it as a segment file;
`Writer.Merge` lists the directory and joins segments by twos, in goroutines,
until one is left; `Reader.Reset` maps that one; `Reader.Query` filters, scores,
sorts and yields the identifiers of documents.

What is hard in it, component by component:

* **Writer.** Concurrent calls and workers share a counter and a directory;
  some pairs of a round fail while others succeed; the inputs are removed one
  at a time; two channels bound the workers and carry their errors, and one of
  them is read only after the last worker was spawned; a process may die
  anywhere and the next one starts counting at zero. *Correct when* no
  acknowledged batch is ever without a complete segment, none is indexed twice,
  a complete segment is never rewritten, a failed merge leaves no debris and
  may be retried, and a merge ends.
* **Building and saving.** Ranges over Go maps in any order; running indices
  into tables; a size added up in five places; headers written in batches past
  a buffered stream of data. *Correct when* the tables index the documents,
  `Size` is the size of the file, and a file cut at any point is rejected.
* **Merger.** Three passes over the same tokens that never meet and must agree;
  a temporary file of exactly the announced number of entries; a header written
  last. *Correct when* the output indexes A's documents followed by B's.
* **Searcher.** Two copies of the clause loop, cursors in dense and sparse
  tables, absent fields and tokens, open ranges. *Correct when* the candidates
  are the documents that are meant, each is scored with its own figures, and
  none gets lost between the filter, the scores and the page.
* **Automaton.** Pivots that pass over tokens. *Correct when* no token within
  the distance is passed over and every pivot is above the last token.
* **Storage and Reader over time.** A storage is used again and again: `Load`
  replaces only the tables a file has, `Close` leaves slices over memory that is
  no longer mapped, `BuildFrom` resets only what is `Initialized`, errors are
  dropped on the way; a sequence of `Query` runs later, while the caller closes
  and resets the reader. *Correct when* a query and a save use the tables of the
  last load or build, a `Searcher` means an open mapping, no mapping is lost, and
  a loop nobody disturbs answers for the storage it scored.
* **Values and query strings.** The same value is cut and encoded at index and at
  query time by different callers; a dork has several tokens or none. *Correct
  when* a query string finds the documents whose values it describes, and ranks
  numbers by size.

`PROJECT.json` lists these hazards line by line with the properties on them.

## 2. Modules

```
   Corpus  <--- implements --- Writer <--- WriterProofs (TLAPS)
                                 ^
                              MCWriter
   Segment <-- EXTENDS -- Builder <-- MCBuilder
           <-- EXTENDS -- Merger  <-- MCMerger
           <-- EXTENDS -- Query   <--+
           <-- SegmentProofs <-- MergerProofs  (also EXTENDS Merger)   (TLAPS)
                             <-- BuilderProofs (also EXTENDS Builder)  (TLAPS)
                             <-- QueryProofs   (also EXTENDS Query)    (TLAPS)
                                    <-- DorksProofs   (also EXTENDS Dorks)  (TLAPS)
                             <-- LevenshteinProofs (also EXTENDS Levenshtein)  (TLAPS)
   Numeric <--- Fields <-------------+-- Dorks <-- MCQuery
                Tokenizer <-- Fields
   Storage <--- Reader <-- MCReader
                   ^
                ReaderProofs (TLAPS)
   Levenshtein <-- MCLevenshtein
```

**Corpus** is what a `Writer` promises, with no files: the acknowledged batches
are partitioned into segments; a batch comes in as one segment; two segments
are joined to one; `Merge` says "ok" only of a single segment.

**Writer** is the protocol of `writer.go` on the directory. A segment is the
number its name is printed from (names have a fixed width, so the order of
`os.ReadDir` is that of the numbers) and holds the sequence of batches whose
documents it indexes. A file is `short` (a prefix that `Load` rejects), `blank`
(a merger output that still has the all-zero header `Load` accepts) or `full`.
`BeginBatch`, `CreateSegment` and `SaveSegment` are the steps of `Batch` at
which others can interfere; `CallMerge`, `ListDirectory`, `Spawn`,
`StartCollecting`, `ReceiveError` and `EndRound` those of `Merge`; a worker goes
through `LoadA`, `LoadB`, `CreateOutput`, `ReserveOutput`, `WriteOutput`,
`RemoveA`, `RemoveB`, with `SendError` and `Release` as its ways out;
`CloseErrors` is the goroutine that waits for the workers. `Faults` names the
failures the environment may inject, among them a dropped `Flush` error, a
dropped `Remove` error and a restart.

**Segment** is the data of a storage and of its file, what `Load` makes of a
file, and what it means that tables *index* a sequence of documents: every
token of every field is found with its documents and frequencies, every field
with its lengths. It has no state.

**Builder** is `BuildFrom` document by document and field by field, then
`SaveTo` with its buffered stream and `WriteToFile` with its batches of headers
(`WriteEntry`, `WriteRest`), or record by record for mapped lists
(`WriteMapped`), then `Load`, then `SaveTo` again. The file after every step is
a state, so a crash is a stop at any of them.

**Merger** is `Merge` pass by pass: `PrepareFieldA`, `PrepareFieldB`,
`PrepareCollision` and `PrepareToken` for the first, `StartBlock` and
`WriteToken` for the second, `WriteList` and `WriteRest` for the third,
`WriteHeader` at last, and `MergeFails` at every step that can. A field that one
storage lacks is walked as one with no tokens there. The errors of both
`DstW.Flush` calls are dropped (`storage/merge.go:685` and `:809`): `Assemble` and
`WriteRest` choose how many of the last blocks and frequencies, or posting lists,
such a Flush leaves out (`lost`), and Merge goes on. `out` is what was written,
`OnDisk` what of it is in the file.

**Query** is one search from `FilterDocuments` to the last identifier yielded,
one handler call of `Iter` or `IterCond` per step, with the fields of a bare
keyword in any order as they come from a map. Token values are numbers and as
many edits apart as their difference, which leaves the automaton to its own
module. A score is an integer: the part of a term is
`boost * ((Scale * tf) div (tf + dl))`, which keeps what can go wrong, the pairing
of documents with frequencies and lengths, and leaves out the positive factor
idf and rounding. `QueryAssumption` says of every search it is given what the
code that makes it guarantees: documents are batches in which a token is there at
least once and no more often than the field is long, the empty bytes are no token, an
end of a range that is not given is an included one (`dorks/compile.go:94-100`); and
that `Scale`, 12 in the runs, is fine enough for a term not to be rounded to nothing.
The unrolled loops of the accumulators are kept: documents are
taken in batches of a width of `Unrolls`, 8 in the scalar one, 64 and then 8 in
the SIMD one, and singly at the end; in a sparse table the last document of a
batch is searched for first, each other one in front of its successor, and the
next batch behind the last (`Positions`, `Advance`). `SearchAgain` is a caller of
package `query` that keeps its `QueryContext`, so that a search may start with
the scores of another. Code that would index out of bounds ends in the phase
`panicked`.

**Numeric** is the encodings of `numeric/`, on words of any width.
**Tokenizer** is the cutting of text into words with a look at the characters
around each separator; a stemmer is any function of a word. **Fields** makes
documents of values and tokens of query values, by the tokenizer of the field.
**Dorks** is `Compile`; it extends Query, so that the searches TLC runs are of
compiled query strings over documents made by `Fields`, and states what a dork
means in terms of the *values*: numbers by size, text by its terms, with an order
and a notion of word (`Runs`) of their own.

**Storage** is the life of one `Storage` value. A table is known by its *origin*,
the `Load` or `BuildFrom` that made it, so that a stale table is one whose origin
is not the last; `mapped` tells which origins may still be touched. `Load` is
kept with its four outcomes: refused before the mapping, dropped after it with
the tables that were found so far, a lone header, and a whole file.

**Reader** is `Reader` around that Storage, and the loop over a sequence it
returned: `Query` only makes the closure, `Begin` reads the fields and scores,
each `Yield` reads the table of ids anew, and between them the caller's code may
run `Close` and `Reset`. A Storage with no Reader (`owner = "caller"`) takes the
calls of Storage in any order instead.

**Levenshtein** is `Matches`: look up the first token not below the pivot, run
the automaton over it byte by byte, yield, compute the next pivot. Its reference
is the ball of words that single edits reach, which has nothing of the dynamic
programming of either implementation.

Definitions named `Bad...` are not the code: each is a plausible slip (a dropped
guard, a missing return, a swapped operand) that shows that the property it is
paired with in `PROJECT.json` can fail.

## 3. Runs

| Run | States (distinct) | Question |
|---|---|---|
| `WriterSafety` | 122,932 | Is the directory protocol safe, does a reader see all or nothing at any moment, and does it implement Corpus? |
| `WriterLive` | 109,233 | Does a merge return, whatever fails? |
| `BuilderSave` | 11,086 | Are tables, sizes and cut files right? |
| `MergerPasses` | 491,720 | Do the passes agree, does the output index both inputs, and what is left when a Flush fails unnoticed? |
| `QuerySearch` | 198,083 | Are candidates, scores, ranks and pages right, for query strings as well? |
| `LevenshteinMatches` | 248,652 | Is no near token passed over, and do both matchers agree on the tokens below the length that only one of them refuses? |
| `ReaderLife` | 286,508 | Do queries, saves and loops use the tables of the last load or build? |

Five more runs each check one property that a document or a test of the
repository states and the code does not keep; TLC finds the counterexample:

* `WriterRestart`: a second process starts with `SegmentCounter` 0 and truncates
  a complete segment.
* `WriterFlush`: a full disk at one of the two unchecked `Flush` calls of
  `Merger.Merge` leaves a broken segment whose inputs are then removed.
* `QueryAnywhere`: a bare Must keyword is required in *every field that has the
  term at all*, not anywhere.
* `QueryReverse`: sorted by a field and reversed, a result ends before it begins
  if one candidate lacks the field, since scores of 0 come first and the loop
  stops at the first.
* `QueryRange`: a range that ends above every token of its field matches nothing
  (`IterBytes`, `storage/storage.go:104`).

Properties that these divergences would falsify everywhere say so in their
antecedents, by name: `CandidatesRight`, `ScoresExact` and `AllAnswered` set
aside ranges that end above every token (`AnyTooHigh`) and, where it matters,
bare Musts found in several fields (`Scattered`). In the same way
`QueriesReadCurrent` asks that no load since the last `Reset` failed or met a lone
header, and `LoopsAnswerCurrent` leaves the lone header out: such a file leaves
the tables of the one before (section 5). `MergedIndexes` says that a merge which
returns nil indexes both inputs only if no Flush failed. `BuiltIndexes` states what
the code does and the documentation denies: documents are numbered in the order in
which they were given. `BuilderSave` has batches whose ids are not in order, and a
finding in `PROJECT.json` quotes the documents, which call the ids sorted
(section 5).

### Bounds, and why they are enough

* `WriterSafety`: five batches make rounds of five, three, two and one segments,
  so there are two concurrent pairs beside a lone chunk, and a lone segment that
  overtakes merged ones. Two clients and two workers are the fewest that
  interleave; two failures hit both pairs of a round, or a round and its retry.
  `BoundAssumption` makes sure `MaxSegments` never is what stops a step.
* `WriterLive`: one worker, so that a token not given back stops the next pair;
  three batches make two rounds; two failures of any kind but `save`.
* `BuilderSave`: all sequences of at most three of four documents that share
  tokens, miss a field, have an empty field or none. `HeaderBatch` is 2 where the
  code has 5 000 000, so that there are full batches and a rest.
* `MergerPasses`: all pairs of disjoint batches of at most two of four documents;
  lists of up to seven documents against chunks of 3 and a stop below 2, for 16
  and 8 in the code, so that full, short and empty chunks occur. `MaxLost` is 1: a
  failing Flush may leave out more, but the loss of the last record alone is the
  hardest to notice.
* `QuerySearch`: three storages (common and disjoint fields and tokens; a token
  that all documents have, which makes its table dense; a field without
  tokens), up to two Musts with a Should and a MustNot or up to two Shoulds, of
  all kinds of entry and boosts 0, 1 and 2, and six ways to ask for results. A
  fourth storage of five documents with dense and sparse tables makes a batch, a
  batch and a rest, or two batches of the widths 2, and 3 then 2 (`Unrolls`);
  on it one search may follow another in the same context. Query strings are of
  one or two dorks over a library of four documents with text, tags, integers,
  floats and dates; words have 4 bits (`Half` is 8), which leaves two numbers of
  each sign beside the ends and a date that does not fit. Every text of up to
  five characters out of a letter, a digit, a separator and a blank is cut.
* `ReaderLife`: three loads or builds in a row, which is what it takes for a table
  to outlive the one that replaced its neighbours; files cut in every region, with
  a lone header, with a header of zeros and without tokens; two documents and one,
  so that an id of one storage may be missing from the next.
* `LevenshteinMatches`: two bytes of which the higher is the highest, as 0xFF is;
  every vocabulary of three of the fifteen words of at most three bytes, none
  and all, and all words of at most five bytes, since `MaxLength` is 4 (60 in the
  code) and tokens on both sides of it must occur; keywords that are longer and
  shorter than the tokens; distances 1 and 2, with and without a cap. One keyword
  is too long for `New`.

`CHECK_DEADLOCK FALSE` is set where the modelled call returns (a save, a merge,
a search, a lookup). `WriterSafety` and `WriterLive` check deadlock: a client
can always call `Merge` again.

### Fairness

`WriterLive` assumes weak fairness of the goroutine of `Merge`, of each worker
and of the one that closes `errorsCh`: the Go scheduler runs every goroutine
that can run, and a channel operation that stays possible is made. No call of a
client is assumed to happen and no failure is assumed to end other than by
`MaxFaults`. `MergerPasses` assumes weak fairness of the one goroutine that runs
`Merge`. The other runs check no liveness; that a lookup ends rests on
`PivotsAscend`, since a field has finitely many tokens.

## 4. Proofs

`WriterProofs` proves, for any clients, batches, workers and bound on segments:

* `TypeCorrect`: `Spec => []TypeOK`, with every kind of fault. The invariant
  proved is `TypeInv`, which adds what typing rests on: a worker that handles
  inputs belongs to a pair of the current listing (`ActiveInRound`), and a client
  inside `Batch` has a batch and a segment number (`BusyClients`).
* `DirectoryDiscipline`: `SafetyInv` is invariant.
* `NoDocumentLost`: `NothingLost`, a conjunct of it.
* `SegmentsImmutable`: a complete segment is removed or kept, never rewritten.

The last three assume `"restart"` and `"flush"` are not in `Faults`; the runs
`WriterRestart` and `WriterFlush` show that they fail with them. `NothingLost`
alone is not inductive: a removal is harmless only if what is removed is in the
worker's output (`RemovalsCovered`), which stays so only if no one else writes
that output or removes it (`OutputsOwned`, `ListingDistinct`), which holds
because every number handed out is above every number in use (`NamesCounted`),
also to clients (`ClientOwnsSegment`), none of which runs beside a merge
(`NoBatchDuringMerge`). `SafetyInv` is the conjunction; the run `WriterSafety`
checks it as well. The proof has one lemma per group of actions
(`SafetyClient`, `SafetyMerge`, `SafetyWorker`), and the lemmas `QuietStep`,
`OwnWrite` and `RemoveCovered` for the three things a step may do to a file:
nothing, write one it owns, remove one that is covered.

The second half of `WriterProofs` goes on from there to what a caller of `Writer`
may rely on, in three layers.

* `CleanInv` (assuming no restart and no dropped `Flush` error) adds that the
  goroutines exist from their `Spawn` to the end of the round (`RoundShape`), that
  a file that is not complete has a client or a worker at work on it
  (`DebrisOwned`), that the inputs a worker has loaded are complete until it
  removes them (`InputsFull`), that a segment has no documents but acknowledged
  ones (`DocsKnown`), and that each error of a round is that of a pair that ended
  (`ErrorsCounted`). From it follow `NoDebrisEver`, `ReadersSeeAll`,
  `ErrorsAlwaysFit` and `MergeLeavesUnit`. That a blank output, which `Load`
  accepts, is never alone in the directory rests on `DebrisOwned` and `InputsFull`
  together: its worker still has both inputs.
* `CorpusInv` (assuming also that no `os.Remove` fails, or a document would be in
  two segments) adds that clients save different, unacknowledged batches
  (`BatchesApart`), that live segments share no document (`BlocksApart`) and that
  a pair that ended without an error has removed its inputs (`Consumed`). From it
  follow `RoundsConsume` and `WriterImplementsCorpus`. The mapping takes the
  documents of the live files for the blocks of Corpus; a successful `SaveSegment`
  is an `Add`, the last write of a merged output the `Join` of its inputs, and
  every other step either answers or leaves the live files alone (`KeepsLive`).
* `DocsOnce`, that no segment lists a document twice, gives `IndexedExactlyOnce`
  for finitely many batches.

A step of a worker is first reduced to what it writes and where it goes
(`WorkerMoves`), so that each part of the invariants is proved from eleven shapes of
steps instead of the bodies of the actions.

`ReaderProofs` proves, for any files, batches and number of
calls, with every system call free to fail, the six invariants of `ReaderLife`:
`TypeCorrect`, `QueriesReadCurrentAlways`, `SavesCurrentAlways`,
`SearcherMeansOpenAlways`, `NothingLeaksEver`, `LoopsAnswerCurrentAlways`. None
of them is inductive. The invariant `IInv` adds

* to the state of the Storage (`StorageInv`), that what is current and loaded is
  still mapped;
* to its tables (`TablesInv`), that a value without mishaps is `Initialized` as
  long as it has `PostingLists.Headers`: `BuildFrom` does not replace these, and
  is right only because it then starts with a `Reset`;
* to the Reader (`ReaderInv`), that the only mapping it has is its `Buffer`, that
  this is the file of its `Searcher`, and that without an open file it keeps no
  `Buffer`;
* to a loop (`LoopInv`), that its hits are documents of the current storage, which
  is what makes an index into the ids of that storage safe.

The proof has one lemma per operation, in terms of what the operation does to any
value of the type (`LoadOutcome`, `CloseFields`, `BuildFields`), so that `Reset` of
the Reader, a `Close` followed by a `Load`, is two of them in a row.

The first part of `SegmentProofs` has what this and the next five modules share.
The library's induction theorems have an operator for a parameter, which no prover at hand can
instantiate; the ones here have a *set* (`NatInductive`, `NatStrongInductive`),
so that a property is an element of `{n \in Nat : P(n)}`. The folds of the
community modules are choices of recursive functions, and `FoldExists` says that
there is such a function to choose. So what a fold computes for every input is proved
here: sums of tables, concatenations, the rows of the automaton, the chunks of
`addOffsetFrom`. What stays out of reach is anything stated with a `RECURSIVE`
operator.

`SegmentProofs` then proves `LaidOutIndexes`: the tables `BuildFrom` leaves index its
documents, whichever order its range over the map of fields takes, for any batch of
documents with finitely many fields and tokens (`IsBatch`). It has the sums over
sequences (`TotalSteps`, `TotalGrows`), sets listed in ascending order, which are
unique, and where in a concatenation each piece lies. A running index of the code
is such a sum, so a table entry that is found by its index is the entry that was put
there. The last part says what becomes of all that when a batch is put behind
another.

`MergerProofs` proves, for any two batches, any layout of their tables, any
`HeaderBatch` and `ChunkSize` and any loss at the two Flush calls, the four
invariants of `MergerPasses`: `TypesAreRight`, `CursorsAgree` (`PassesAgree`),
`OutputIndexesBoth` (`MergedIndexes`) and `UnfinishedIsNothing` (`ReadsAsNothing`).
`OutputIndexesBoth` has two halves. If no Flush failed, what is on disk is what was
written (`NothingLost`), and that loads as the tables of both. If the second one
left out any posting lists, the header announces more bytes than there are
(`LostListsRejected`), as every list takes space; so a merge that returned nil has
left a file that Load rejects. Of a file whose first Flush failed nothing is said
after the header is written. `MergedIndexes`
speaks of the last state only and none of the others is inductive, because three
passes walk over the same tokens without ever meeting. They are followed through one
sequence: the *cells* of the recorded order, a cell being a field and one of the
values it has in A or in B. Each pass takes the cells one by one, and each of its
cursors is a sum over the cells taken so far. The invariant `Inv` is the
conjunction of

* `Inputs`, which the steps leave alone, and `TypeOK`;
* `OrdersInv`: the three lists of fields are those of A alone, of B alone and of
  both, each listed once; without it a field could be written twice or never;
* `PrepareInv` and `NotesInv`: the first pass has counted the lists of the cells it
  has taken, and the `p`-th note in the temporary file is that of the `p`-th cell,
  which is what the third pass, which has only its own cursor, relies on;
* `FieldsInv`: the second pass stands at the cell of the number of its notes, its
  frequency index is the sum of the lists before it, and the file has the blocks of
  the fields it has finished;
* `ListsInv`: the third pass has written the lists of the first cells, its offsets
  are their sizes added up, and the headers of the batch not yet written are the last
  ones; when it is done, the file is `MergedFile`;
* `FailedInv`: a failure leaves no file.

Three lemmas carry the arithmetic the passes share. `HalfTakes` and those after it
say that walking two ascending sequences takes the values of their union in order,
each once; `CountsUnion` that the counting walk of the first pass announces as many
as the second will find; `OffsetAdded` that `addOffsetFrom`, which stops at the
first chunk below `StopBelow`, has added every document, since only the last chunk
is short. The assumptions on the constants are that inputs are batches (`IsBatch`),
that `HeaderBatch` and `ChunkSize` are positive and that `StopBelow` is not above
`ChunkSize`; the code has constants for them (5 000 000, 16, 8).

`BuilderProofs` proves, for any batches and any `HeaderBatch`, the four invariants of
`BuilderSave`: `CountersStayInTables` (`TypeOK`), `TablesIndexDocuments`
(`BuiltIndexes`), `SizeIsOfTheFile` (`SizeExact`) and `NoHalfSavedFile`
(`CrashedSaveRejected`). The only assumption, `BuilderAssumption`, is that the inputs
are batches and that `HeaderBatch`, 5 000 000 in the code, is positive. None of the four
is inductive: the tables are right at the end only, and `Size` is added up long before
there is a file. The invariant `IInv` says of each phase what has been done so far:

* while documents are added, the accumulators of each field are those of the
  documents added so far (`Added`), and `Size` has their records;
* while fields are emitted, there is an order of the fields, a part of which has been
  emitted: the tables are those of `LaidOut` for that part, each running index is the sum
  of what the tables already hold, and `Size` has the blocks, entries and lists of the
  part (`EmittedIn`). After the last field the tables are `LaidOut(docs, o)`, to which
  `LaidOutIndexes` applies, and `Size` is the size of the file of those tables
  (`SavedBytes`);
* while the file is written (`Saves`), what has left the `bufio.Writer` is a prefix of
  the stream, or the stream is whole and as many lists and headers are on disk as the
  counters say, the headers with the offsets of the bitmaps before them; the batch in
  memory holds the last ones. A mapped storage writes its headers and then its bitmaps,
  and starts from the file it was loaded from, which `Load` gave the same tables.

A file that lacks something is rejected because the header announces the records and
the bytes of all of it, and every list, even an empty one, has a positive size: the
sum over a proper prefix is smaller. A file that has everything is the one `Load`
gives `LaidOut(docs, o)` for. The sizes are sums over sets (the fields of a document,
in the order of a map) as well as over sequences; `AddUpIs` joins the two.

`LevenshteinProofs` proves, for any alphabet of bytes, keyword, tokens, distance and
cap, the three properties of the lookup: `TypesAreRight`, `MatchesAreAll` and
`PivotsDoAscend`. The argument has three layers.

* *The automaton computes distances.* A ball of `k` single edits is characterised by
  its last byte (`BallAppend`, `ReachEdit`, `BallReach`): a word and a keyword are
  within `k` edits when they are after dropping one last byte, or both. So each entry
  of the row after a prefix is the distance, capped, of that prefix from a prefix of
  the keyword (`StepRow`, `StepState`), and a token is accepted just when it is in the
  ball (`AcceptState`).
* *A dead state stays dead* (`DeadState`, `DeadEnd`): no word with that prefix is
  wanted. Hence a pivot that passes over every word with the prefix passes over
  nothing wanted (`PivotAbove`, `PivotBelow`), and it is above the token it was
  computed from, also behind bytes that are the highest (`NextSeekIs`).
* *The loop.* `Inv` adds to the types that the stack holds the rows of the prefixes
  of the current token, and `Progress`: before the pivot, or up to the current
  token, everything wanted has been yielded and nothing else. `MatchesAll` is not
  inductive without it, since it is about the end only.

`QueryProofs` proves, for any documents and queries as `QueryAssumption` has them, any
limits of fuzzy keywords, any batch widths of the accumulators and whichever field of a
bare keyword comes next, the invariants of Query that `QuerySearch` checks: `FilterRight`
(`CandidatesRight`), `FieldRanked` (`FieldRanks`), `BM25Exact` (`ScoresExact`),
`SearchTyped` (`TypeOK`), `AnsweredAlways` (`AllAnswered`) and `PagesFollow`
(`PageSkipsFirst`). The argument for the filter has two halves.

* *What a lookup finds.* A search by halving finds the first entry that is not below its
  target (`Halving`), so the tokens an entry has in a field are those of the values it
  means there (`HolderSays`, `ListedIs`): ranges are cut out of the ascending table by
  their two ends, near tokens are the first ones in it, and where a range ends
  above every token, `IterBytes` has nothing, which is why the theorem, as the
  property, sets such ranges aside. Tables are those of `LaidOut`, to which
  `LaidOutIndexes` applies: the lists of the tokens are the documents that hold the
  values.
* *What a pass has done.* A clause is handled in turns, one per field of an entry, and
  `CandidatesRight` is about the end only. `SearchInv` says of the queue of turns that
  they are turns of the clause (`Queue`), and of each turn that it is still in the
  queue or has been taken: then its list is among the bitmaps, and no other set is
  (`MustsInv`), its documents are candidates, and no others are (`ShouldsInv`), or its
  documents are candidates no more, and the others still are (`MustNotsInv`). A pass that
  gives up early, at a Must without tokens or without candidates, is at a result that no
  later turn would change. A document that misses a Must is dropped by the turn of any
  of its fields, but one that has it in one field may be dropped by another, hence
  `Scattered`.

`FieldInv` follows `FieldScore` token by token: after some tokens, the scores are those
of the documents on their lists, ranked by the first list they are on (`OnLists`,
`FirstList`, `RankedIn`), the pending ones are the others, and `assigned` counts the
former. That `Scoring.Add`, which starts to look at its last hit, gives each document of an
ascending run its own score is `Crediting`, the value of the fold for every table and
every run. The scores a used context still has are no hypothesis, since `NewScoring`
replaces them.

`BM25Exact` climbs in four steps.

* *One batch* (`PositionsAre`, `CursorsMove`). The frequencies of a token and the lengths
  of a field are tables over the documents that have them (`TablesAre`). A dense table is
  indexed; in a sparse one the positions of a batch are found from the last document to
  the first, each below the one after it, and the next batch looks behind its last hit.
  Since the documents ascend, each gets its own frequency and length either way.
* *One token* (`BatchesAdd`, `TokenScores`). For any widths, the batches are the
  documents of the bitmap on the token's list, cut in pieces, without loss and in order
  (`BatchedCuts`); so each of them gets its part, once, and the others nothing (`Gains`).
* *One turn* (`CallScores`). The tokens of an entry in one field are different terms, and
  the call adds a sum over all of them.
* *The clause loop* (`ScoringInv`). Between two calls the scores are the sums over the
  terms of the turns that are no longer in the queue (`SumOver`, `DoneTerms`). A turn is
  open once only, so each term is added once. `Iter`, unlike `IterCond`, leaves out the
  entries without tokens: they have no terms. At the end these are all the terms of the
  Musts and the Shoulds, and `RelevanceIs` says that the sum over them is what the
  documents say, entry by entry (`SumNone`, `AddUpMoved`, `EntryRelevance`).

`SearchTyped` needs little of this: `StateInv` has the scores as a table of documents
with at most one entry each (`IsTable`), in ascending order while they are filled and in
descending order of value once resolved. The context of an earlier search brings such a
table along.

`AnsweredAlways` and `PagesFollow` are about the end of a page, and the scores they speak
of are cut by then. `PageInv` therefore says that some table in descending order, of the
relevance of every candidate (`TermSums`), is the one of which the scores are what `Skip`
leaves, and that what has been yielded are the ids of its first entries in the order
of reading, none of them 0 (`Received`). When `Reader.Query` returns, the next entry, if
any, is 0.

* A wanted document meets an entry of the Musts or Shoulds, and a term is worth 1 at
  least, as frequency and length together are no more than `Scale` (`PartCounts`,
  `WantedCounts`). So with boosts above 0 no candidate is 0, the loop ends at the end of
  the page, and what is missing is what was skipped.
* Without that hypothesis a reversed page that yields anything has no 0 before its end
  either, since in that order the zeros come first (`PlacesMove`).
* Both are theorems for `OwnIds`: no two documents of a storage have one id.
  `BuildFrom` takes ids as they are given, so a document that is inserted twice is two
  documents with one id, and a caller does get it twice.

`DorksProofs` goes from values to results: `WordsAlways` (`SplitsWords`),
`DorksMeanAlways` (`DorksMean`) and `NumbersRanked` (`NumbersRank`), for any values,
dorks and tokenizers as `SoughtAssumption` has them.

* *Numbers.* For words of any width, the encodings of integers and floats keep the
  order (`IntegersSort`, `FloatsSort`) and lose nothing (`IntegerRoundTrip`,
  `FloatRoundTrip`). All of them come to the number, moved up by half of the words
  there are (`MovedUp`).
* *Words.* The scan of a text is at the edge of a word whenever it looks for the next
  one; what it still finds from there are the runs behind that position, one for each
  and in their order. That holds at the end of the text, and from each position for the
  ones before it (`NoRunsBehind`, `RunsBehindOther`, `RunInFront`), so for the whole
  text (`WordsSplit`).
* *Tokens.* The field of a document and the dork of a query, made of values by two
  callers, have exactly the tokens of the *keys* of the value, one for each
  (`FieldTokensAre`, `TokensAre`), and keys compare as their tokens do
  (`TokensInOrder`). `FlattenSeq`, `FoldLeft` and the choice of a sequence do not
  matter: a sequence is said to *spell* a set.
* *Entries.* `Compile` leaves an entry for each key of each dork, in the clause of its
  operator (`CompiledAre`). A document meets an entry just when one of its values has a
  key that compares with it so (`KeyIsMet`): this is where a bare keyword must not be
  taken for a number, and an end of a range not for none.
* With `FilterRight` the candidates are the documents that answer the dorks
  (`QueryMeans`), and with `FieldRanked` a field with one token per document ranks by its
  number (`NumberedDocument`, `SmallerRanksHigher`).

`SoughtAssumption` says more of values than the code does. No token of a text is empty
or equals the eight bytes of an encoded number: a word of eight bytes could, and a bare
keyword then finds the number. A range has a value: `tag:<=""` is open at that end.
A bare keyword is cut as text, and the field it is looked for in, if there is one, is a
text: a number read as a bare keyword would be looked for among words. A value is one
number at most. Values that break these are not in the instances either.

Only model-checked: of the safety properties of the passing runs, `MatchersAgree`.
It has `LevenshteinMatch` accept the near tokens that are shorter than `MaxLength`,
and refuse all others; the automaton, which looks at the keyword's length only, takes
the longer ones as well. So the two do disagree from that length on
(`levenshtein/levenshtein.go:7`), and the run has tokens on both sides of it.
Out of the prover's reach: `MergeTerminates` and `MergeEnds` (liveness).

## 5. What is not modelled

* The grammar of query strings, which a parser library runs: a dork is a record
  of what it captures. Its formatting back to a string.
* The English and Spanish stemmers, any function of a word here; `pool`,
  `pointers`, `fastlog`, the sizes that package `fields` adds up: allocation and
  memory layout. Hashes of tokens are taken for the tokens.
* The approximate reciprocal of the SIMD accumulator, and floating point
  altogether: averages are pairs of sum and count, scores are integers. The
  NaN average of a merged field without lengths, and sums of equal documents in
  different orders, are therefore not seen.
* The cut of values at 128 bytes (`storage/headers.go:109`), which the changelog
  rules out.
* Page faults and checksums of mapped memory (there are none).
* Several goroutines on one `Reader`, of which no document speaks: one loop runs at
  a time, and what is called meanwhile is called in its body.

Seen on the way, with no run of its own:

* Writer. `Writer.MaxWorkers` has no effect (`writer.go:47` takes the greater of
  it and `NumCPU`, then the lesser of that and `NumCPU`). A `Merge` of an empty
  directory lists it for ever: the loop ends on exactly one entry
  (`writer.go:60`). Merge outputs go to `Directory` and only the merger's scratch
  file to `TemporaryDirectory`. After a restart a merge's outputs may bear the
  names of its own inputs. A lone segment of an odd round overtakes the merged
  ones, so the pairs of a later round are not in range order (`writer.go:66`,
  against `storage/README.md:137-139`), which queries do not depend on but for
  ties.
* Storage. A file with only a header leaves `Size` 0 and `Initialized` false
  (`storage/storage.go:704-707`, against `storage/README.md:77-80`), and the
  tables of the file loaded before it. A `BuildFrom` after a load that failed or
  met such a file, or after a `Close` whose `File.Close` failed, keeps the old
  `PostingLists.Headers`, which are then searched and saved instead of its own.
  Once `File.Close` has failed every later `Close` fails too, in `Munmap` of nil.
* Document ids. `BuildFrom` stores each id at the index of its document in the batch
  (`storage/storage.go:343`) and `Merge` appends B's ids to A's: the table is in the
  order of insertion, not "sorted alphabetically" (`README.md:94` and `:132`,
  `storage/README.md:14` and `:54`, `testsuite/documents.go:23`) or "inserted sorted"
  (`storage/document.go:26`). A test has it so (`storage/storage_test.go:37`),
  `storage/README.md:170` itself speaks of unsorted batches, and no code searches the
  table by id: the documents are out of date.
* Reader. A loop whose body closes the reader meets a nil `Searcher` or unmapped
  memory; one whose body resets it yields ids of the new storage for the scores of
  the old. A reversed query that skips more than there is slices out of bounds
  (`reader.go:90`).
* Searcher. A range over a field without tokens panics (`query/clause.go:169`); an
  empty bound is taken for an open end, as in `tag:>""`. `FieldScore` of an unknown
  field with a used context returns the scores of the search before
  (`query/searcher_fields.go:9`, against `query/clause.go:420`). The case
  `freqDense && !dlDense` of the accumulators never happens. The accumulator of the
  `simd` build (`query/bm25_acc_avx2_simd.go:93`) indexes `PostingLists`, now a
  struct: that build does not compile at this commit.
* Values. Dates outside 64 bits of nanoseconds wrap around (`fields/time.go:21`).
  -0 sorts before 0. A Must of stop words only, or with a value that is no number,
  asks for nothing.
* `levenshtein.New` answers nil for long keywords and its callers do not look.

## 6. Plan

Done: Corpus, Writer; Segment, Builder, Merger; Query, Tokenizer, Numeric, Fields,
Dorks; Levenshtein; Storage, Reader; the proofs of Writer, its implementation of
Corpus, Storage, Reader, Segment, Builder, Merger, Query, Levenshtein, Numeric, and
Dorks with Tokenizer and Fields. Left:

1. How often a document may be indexed when an `os.Remove` fails: `ExactlyOnce` is
   stated, and proved, without that fault.
2. The grammar of query strings, if it is ever more than what the parser library
   makes of struct tags.

To repeat the checks: `tlc -config <run>.cfg <module>` and `tlapm <module>.tla`;
modules and configurations of the runs are listed in `PROJECT.json`.
