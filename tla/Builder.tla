------------------------------ MODULE Builder ------------------------------
(***************************************************************************)
(* Storage.BuildFrom, Storage.SaveTo and PostingLists.WriteToFile          *)
(* (src/storage/storage.go): a sequence of documents becomes the tables of *)
(* a storage, the tables become a file, and, the second time round, the    *)
(* file is loaded and saved again.                                         *)
(*                                                                         *)
(* One process runs; what is nondeterministic is the order in which Go     *)
(* ranges over a map, how much of a buffered stream has reached the file,  *)
(* and which write fails.  A crash is a stop after any step: the file is   *)
(* then what `file' says.                                                  *)
(***************************************************************************)
EXTENDS Segment

CONSTANTS
  Inputs,      \* the sequences of documents BuildFrom is called with
  HeaderBatch  \* MaxPostingListHeaders, 5_000_000 in the code

ASSUME BuilderAssumption ==
  /\ HeaderBatch \in Nat \ {0}
  /\ \A batch \in Inputs : IsBatch(batch)

VARIABLES
  docs,      \* the documents
  pc,        \* control point
  next,      \* documents accumulated so far
  acc,       \* fieldsAccumulators
  size,      \* s.Size
  seg,       \* the tables of the storage
  reloaded,  \* the storage was filled by Load: its posting lists are mapped
  order,     \* the order in which SaveTo ranges over s.Fields
  spilled,   \* records of the first part of the stream that are on disk
  written,   \* posting lists handed to the bufio.Writer
  pending,   \* posting-list headers not yet written with WriteAt
  at,        \* headers written with WriteAt
  queued,    \* bitmaps still in the bufio.Writer
  file       \* the file

buildVars == <<next, acc, size, seg>>
listVars  == <<written, pending, at, queued>>
vars == <<docs, pc, buildVars, reloaded, order, spilled, listVars, file>>

-----------------------------------------------------------------------------
(***************************************************************************)
(* BuildFrom.                                                              *)
(***************************************************************************)
(* What is accumulated for one field.                                      *)
NewAccumulator == [lengths |-> << >>, total |-> 0, tokens |-> << >>, occurrences |-> 0]

Accumulator(f) == IF f \in DOMAIN acc THEN acc[f] ELSE NewAccumulator

(* The frequency entries of a token, with those of this document.          *)
TokenEntries(a, v, index, def) ==
  (IF v \in DOMAIN a.tokens THEN a.tokens[v] ELSE << >>) \o
  (IF v \in DOMAIN def.tokens
   THEN <<[doc |-> index, freq |-> def.tokens[v]]>> ELSE << >>)

(* The body of the loop over doc.Fields, for the document of this index.   *)
Accumulate(a, index, def) ==
  [lengths     |-> IF def.length > 0
                   THEN Append(a.lengths, [doc |-> index, length |-> def.length])
                   ELSE a.lengths,
   total       |-> a.total + def.length,
   tokens      |-> [v \in DOMAIN a.tokens \union DOMAIN def.tokens |->
                      TokenEntries(a, v, index, def)],
   occurrences |-> a.occurrences + Cardinality(DOMAIN def.tokens)]

BadFieldBytes(f, def) ==   \* a field header in every document with the field
  FieldHeaderSize
  + (IF def.length > 0 THEN DocumentLengthEntrySize ELSE 0)
  + Cardinality(DOMAIN def.tokens \ DOMAIN Accumulator(f).tokens) * TokenSize
  + Cardinality(DOMAIN def.tokens) * TokenFrequencyEntrySize

(* What a document's field adds to s.Size: each record is counted when it  *)
(* is first met.                                                           *)
FieldBytes(f, def) ==
  (IF f \in DOMAIN acc THEN 0 ELSE FieldHeaderSize)
  + (IF def.length > 0 THEN DocumentLengthEntrySize ELSE 0)
  + Cardinality(DOMAIN def.tokens \ DOMAIN Accumulator(f).tokens) * TokenSize
  + Cardinality(DOMAIN def.tokens) * TokenFrequencyEntrySize

Init ==
  /\ docs \in Inputs
  /\ pc = "add"
  /\ next = 0
  /\ acc = << >>
  /\ size = HeaderSize
  /\ seg = [EmptySegment EXCEPT !.ids = [k \in DOMAIN docs |-> docs[k].id]]
  /\ reloaded = FALSE
  /\ order = << >>
  /\ spilled = 0
  /\ written = 0
  /\ pending = << >>
  /\ at = 0
  /\ queued = << >>
  /\ file = NoSuchFile

(* One turn of the loop over docs.                                         *)
AddDocument ==
  /\ pc = "add"
  /\ next < Len(docs)
  /\ LET doc == docs[next + 1] IN
     /\ acc' = [f \in DOMAIN acc \union DOMAIN doc.fields |->
                  IF f \in DOMAIN doc.fields
                  THEN Accumulate(Accumulator(f), next, doc.fields[f])
                  ELSE acc[f]]
     /\ size' = size + DocumentIdSize +
          MapThenSumSet(LAMBDA f : FieldBytes(f, doc.fields[f]), DOMAIN doc.fields)
  /\ next' = next + 1
  /\ UNCHANGED <<docs, pc, seg, reloaded, order, spilled, listVars, file>>

EndAdding ==
  /\ pc = "add"
  /\ next = Len(docs)
  /\ pc' = "emit"
  /\ UNCHANGED <<docs, buildVars, reloaded, order, spilled, listVars, file>>

BadFirstEntry(freqs, k) == Len(seg.freqs)

(* FrequenciesIndex of the k-th token of the field that is emitted.        *)
FirstEntry(freqs, k) == Len(seg.freqs) + SumOf(SubSeq(freqs, 1, k - 1), Len)

(* One turn of the range over the map of accumulators, in any order: the   *)
(* tokens of the field in ascending order, each with the next posting list *)
(* and the next frequency entries.                                         *)
EmitField(f) ==
  /\ pc = "emit"
  /\ f \in DOMAIN acc
  /\ LET a     == acc[f]
         vals  == Ascending(DOMAIN a.tokens)
         freqs == [k \in DOMAIN vals |-> a.tokens[vals[k]]]
         lists == [k \in DOMAIN vals |-> {freqs[k][n].doc : n \in DOMAIN freqs[k]}]
         token(k) == [value |-> vals[k],
                      count |-> Cardinality(lists[k]),
                      list  |-> Len(seg.lists) + k - 1,
                      freq  |-> FirstEntry(freqs, k)]
     IN  /\ seg' = [seg EXCEPT
              !.lists = @ \o lists,
              !.freqs = @ \o FlattenSeq(freqs),
              !.fields = [h \in DOMAIN @ \union {f} |->
                 IF h # f THEN @[h]
                 ELSE [tokens      |-> [k \in DOMAIN vals |-> token(k)],
                       lengths     |-> a.lengths,
                       total       |-> a.total,
                       avg         |-> Average(a.total, Len(a.lengths)),
                       occurrences |-> a.occurrences]]]
         /\ size' = size + Len(lists) * PostingListHeaderSize + DataSize(lists)
  /\ acc' = Restrict(acc, DOMAIN acc \ {f})
  /\ UNCHANGED <<docs, pc, next, reloaded, order, spilled, listVars, file>>

-----------------------------------------------------------------------------
(***************************************************************************)
(* SaveTo.                                                                 *)
(***************************************************************************)
(* os.Create, after BuildFrom or after Load.                               *)
CreateFile ==
  /\ \/ pc = "emit" /\ DOMAIN acc = {}
     \/ pc = "loaded"
  /\ pc' = "stream"
  /\ file' = NoSuchFile
  /\ order' \in SetToSeqs(DOMAIN seg.fields)
  /\ spilled' = 0
  /\ UNCHANGED <<docs, buildVars, reloaded, listVars>>

Header ==
  [docs |-> Len(seg.ids), fields |-> Cardinality(DOMAIN seg.fields),
   lists |-> Len(seg.lists), data |-> DataSize(seg.lists), freqs |-> Len(seg.freqs)]

Least(a, b) == IF a <= b THEN a ELSE b
Front1(s, n) == SubSeq(s, 1, Least(n, Len(s)))

(* The file when the first n records of the header and the tables are on   *)
(* disk.                                                                   *)
StreamLength == 1 + Len(seg.ids) + Len(seg.freqs) + Len(order)

OnDisk(n) ==
  LET blocks == [k \in DOMAIN order |-> BlockOf(order[k], seg.fields[order[k]])] IN
  [NoSuchFile EXCEPT
     !.header = Front1(<<Header>>, n),
     !.ids    = Front1(seg.ids, n - 1),
     !.freqs  = Front1(seg.freqs, n - 1 - Len(seg.ids)),
     !.fields = Front1(blocks, n - 1 - Len(seg.ids) - Len(seg.freqs))]

(* The bufio.Writer passes records on, a full buffer at a time or in the   *)
(* final Flush.  A full buffer is 4 MiB, never the 56 bytes of the header. *)
Spill(n) ==
  /\ pc = "stream"
  /\ n \in (IF spilled = 0 THEN Least(2, StreamLength) ELSE spilled + 1) .. StreamLength
  /\ spilled' = n
  /\ file' = OnDisk(n)
  /\ UNCHANGED <<docs, pc, buildVars, reloaded, order, listVars>>

(* Flush and Sync, then WriteToFile: it reserves the posting-list headers  *)
(* if the lists are in memory, and appends if they are mapped.             *)
StartLists ==
  /\ pc = "stream"
  /\ spilled = StreamLength
  /\ pc' = "lists"
  /\ written' = 0
  /\ pending' = << >>
  /\ at' = 0
  /\ queued' = << >>
  /\ file' = [file EXCEPT !.heads = IF reloaded THEN << >>
                                    ELSE [k \in DOMAIN seg.lists |-> ZeroHead]]
  /\ UNCHANGED <<docs, buildVars, reloaded, order, spilled>>

HeadOf(k) == [offset |-> DataSize(SubSeq(seg.lists, 1, k - 1)),
              length |-> BitmapSize(seg.lists[k])]

MaxHeaders == Least(HeaderBatch, Len(seg.lists))

BadKept(batch) == batch

(* headers = headers[:0], once the batch is written.                       *)
Kept(batch) == IF Len(batch) >= MaxHeaders THEN << >> ELSE batch

(* One turn of the loop over p.Entries: the header joins the batch, which  *)
(* is written when it is full; the bitmap goes to the bufio.Writer.        *)
WriteEntry ==
  /\ pc = "lists"
  /\ ~reloaded
  /\ written < Len(seg.lists)
  /\ written' = written + 1
  /\ LET batch == Append(pending, HeadOf(written + 1))
         full  == Len(batch) >= MaxHeaders
         bytes == Append(queued, seg.lists[written + 1])
     IN  /\ pending' = Kept(batch)
         /\ at' = IF full THEN at + Len(batch) ELSE at
         /\ \E passed \in BOOLEAN :
              /\ queued' = IF passed THEN << >> ELSE bytes
              /\ file' = [file EXCEPT
                   !.heads = IF full THEN WriteAt(@, at, batch) ELSE @,
                   !.data  = IF passed THEN @ \o bytes ELSE @]
  /\ UNCHANGED <<docs, pc, buildVars, reloaded, order, spilled>>

(* The mapped headers and then the mapped bitmaps, record by record.       *)
WriteMapped ==
  /\ pc = "lists"
  /\ reloaded
  /\ written < 2 * Len(seg.lists)
  /\ written' = written + 1
  /\ file' = [file EXCEPT
       !.heads = Front1([k \in DOMAIN seg.lists |-> HeadOf(k)], written + 1),
       !.data  = Front1(seg.lists, written + 1 - Len(seg.lists))]
  /\ UNCHANGED <<docs, pc, buildVars, reloaded, order, spilled, pending, at, queued>>

AllWritten == written = (IF reloaded THEN 2 ELSE 1) * Len(seg.lists)

(* The last, incomplete batch of headers.                                  *)
WriteRest ==
  /\ pc = "lists"
  /\ AllWritten
  /\ pending # << >>
  /\ pending' = << >>
  /\ at' = at + Len(pending)
  /\ file' = [file EXCEPT !.heads = WriteAt(@, at, pending)]
  /\ UNCHANGED <<docs, pc, buildVars, reloaded, order, spilled, written, queued>>

(* Flush and Sync; SaveTo returns nil.                                     *)
FinishSave ==
  /\ pc = "lists"
  /\ AllWritten
  /\ pending = << >>
  /\ queued' = << >>
  /\ file' = [file EXCEPT !.data = @ \o queued]
  /\ pc' = IF reloaded THEN "resaved" ELSE "saved"
  /\ UNCHANGED <<docs, buildVars, reloaded, order, spilled, written, pending, at>>

(* A write fails: SaveTo closes and removes the file.                      *)
SaveFails ==
  /\ pc \in {"stream", "lists"}
  /\ pc' = "failed"
  /\ file' = NoSuchFile
  /\ UNCHANGED <<docs, buildVars, reloaded, order, spilled, listVars>>

-----------------------------------------------------------------------------
(* s.Size after Load of this file into a new Storage: the bytes the tables *)
(* take; of a file that is only a header, Load returns before it is set.   *)
LoadedSize == IF HeaderOnly(file) THEN 0 ELSE FileSize(file)

(* Load of the saved file.                                                 *)
Reload ==
  /\ pc = "saved"
  /\ pc' = "loaded"
  /\ reloaded' = TRUE
  /\ seg' = Load(file)
  /\ size' = LoadedSize
  /\ UNCHANGED <<docs, next, acc, order, spilled, listVars, file>>

Next ==
  \/ AddDocument
  \/ EndAdding
  \/ \E f \in DOMAIN acc : EmitField(f)
  \/ CreateFile
  \/ \E n \in 1 .. StreamLength : Spill(n)
  \/ StartLists
  \/ WriteEntry
  \/ WriteMapped
  \/ WriteRest
  \/ FinishSave
  \/ SaveFails
  \/ Reload

Spec == Init /\ [][Next]_vars

-----------------------------------------------------------------------------
(***************************************************************************)
(* Properties.                                                             *)
(***************************************************************************)
(* The type invariant: the counters stay within the tables they count, and *)
(* every token points into the tables.                                     *)
TypeOK ==
  /\ docs \in Inputs
  /\ pc \in {"add", "emit", "stream", "lists", "saved", "loaded", "resaved", "failed"}
  /\ next \in 0 .. Len(docs)
  /\ size \in Nat
  /\ reloaded \in BOOLEAN
  /\ spilled \in 0 .. StreamLength
  /\ written \in 0 .. 2 * Len(seg.lists)
  /\ at + Len(pending) <= Len(seg.lists)
  /\ \A f \in DOMAIN seg.fields : \A k \in DOMAIN seg.fields[f].tokens :
       LET t == seg.fields[f].tokens[k] IN
       /\ t.list \in 0 .. Len(seg.lists) - 1
       /\ t.freq \in 0 .. Len(seg.freqs) - t.count

(* BuildFrom's tables index the documents, and so do Load's after SaveTo:  *)
(* whatever the order of the two ranges over maps, each token is found with*)
(* its documents and their frequencies, each field with its lengths.  The  *)
(* documents are numbered as they are given: the table of ids is in that   *)
(* order (storage.go:343) and not sorted, as document.go:26 and            *)
(* storage/README.md:54 have it.                                           *)
BuiltIndexes == pc \notin {"add", "emit"} => Indexes(seg, docs)

(* storage/README, "Storage.Size contract": after BuildFrom Size is the    *)
(* byte count of the file SaveTo writes.                                   *)
SizeExact == pc = "saved" => size = FileSize(file)

(* A process that dies during SaveTo leaves a file that Load rejects or    *)
(* one that is complete: never one that answers for some of the documents. *)
CrashedSaveRejected ==
  pc \in {"stream", "lists", "saved", "resaved", "failed"} =>
    Load(file) = Rejected \/ Indexes(Load(file), docs)
=============================================================================
