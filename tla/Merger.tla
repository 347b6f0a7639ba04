------------------------------- MODULE Merger -------------------------------
(***************************************************************************)
(* storage.Merger.Merge (src/storage/merge.go, merge_bitmap.go): two       *)
(* storages are streamed into one file, in passes that never meet:         *)
(*   prepare   ranges over the two maps of fields, records the order it    *)
(*             found, writes the token frequencies, counts posting lists   *)
(*   fields    follows the recorded order, writes the field blocks with    *)
(*             indices taken from running cursors, and notes for each token*)
(*             which posting lists to merge                                *)
(*   lists     merges and writes the posting lists noted                   *)
(*   header    is written last, over a header that was zero until then     *)
(* A token's indices are right only if the passes agree on every token.    *)
(*                                                                         *)
(* The three passes that walk the tokens of a field side by side, the      *)
(* preparation, CountTokensBetweenCollisionFields and the block writer,    *)
(* take one token, or a pair of equal ones, per turn.  A field that only   *)
(* one storage has is walked with no tokens on the other side, which is    *)
(* what the code's separate loops for such fields do.                      *)
(***************************************************************************)
EXTENDS Segment

CONSTANTS
  Pairs,        \* pairs of document sequences, the contents of A and B
  HeaderBatch,  \* MaxPostingListHeaders, 5_000_000 in the code
  ChunkSize,    \* OffsetBitmapCachedSize, 16 in the code
  StopBelow,    \* addOffsetFrom stops after a chunk of fewer: 8 in the code
  MaxLost       \* bound on the records a Flush that fails leaves behind

ASSUME MergerAssumption ==
  /\ HeaderBatch \in Nat \ {0}
  /\ ChunkSize \in Nat \ {0}
  /\ StopBelow \in 1 .. ChunkSize
  /\ MaxLost \in Nat
  /\ \A p \in Pairs : IsBatch(p[1]) /\ IsBatch(p[2])

VARIABLES
  docsA, docsB,  \* the documents the two storages index
  a, b,          \* StorageA, StorageB
  pc,            \* control point
  todo,          \* fields the current range over a map has still to visit
  orderA, orderB, orderC,  \* FieldsOrder: A-only, B-only, collision fields
  turn,          \* how many fields of the recorded order have been started
  walk,          \* the walk over the tokens of one field: [field, i, j]
  listCount,     \* PostingListCount
  listCursor,    \* PostingListCursor
  freqCursor,    \* FrequenciesCursor
  notes,         \* PendingPostingLists, in the temporary file
  temp,          \* the temporary file exists
  heads,         \* plHeaders, not yet written with WriteAt
  at,            \* posting-list headers written with WriteAt
  dataSize,      \* plHeadersOffset and plTotalDataSize
  out,           \* what has been written to the output file
  lost           \* how many of its last blocks (and frequencies) and lists
                 \* a Flush has failed to pass on, its error dropped

inputVars == <<docsA, docsB, a, b>>
orderVars == <<todo, orderA, orderB, orderC, turn>>
listVars  == <<heads, at, dataSize, lost>>
cursorVars == <<listCursor, freqCursor, notes>>
vars == <<inputVars, pc, orderVars, walk, listCount, cursorVars, temp,
          listVars, out>>

Least(m, n) == IF m <= n THEN m ELSE n

-----------------------------------------------------------------------------
(* DocumentOffset: B's documents come after A's.                           *)
DocumentOffset == Len(a.ids)

BadShifted(entries) == entries

Shifted(entries) == [k \in DOMAIN entries |-> [entries[k] EXCEPT !.doc = @ + DocumentOffset]]

TokensIn(s, f) == IF f \in DOMAIN s.fields THEN s.fields[f].tokens ELSE << >>

NoWalk == [field |-> "", i |-> 0, j |-> 0]
StartOf(f) == [field |-> f, i |-> 1, j |-> 1]

Walking ==
  /\ walk # NoWalk
  /\ \/ walk.i <= Len(TokensIn(a, walk.field))
     \/ walk.j <= Len(TokensIn(b, walk.field))

(* Which of the two next tokens a turn takes: the smaller, or both.        *)
Side(ta, tb, i, j) ==
  IF i > Len(ta) THEN "B"
  ELSE IF j > Len(tb) THEN "A"
  ELSE IF ta[i].value = tb[j].value THEN "both"
  ELSE IF ta[i].value < tb[j].value THEN "A" ELSE "B"

WalkSide == Side(TokensIn(a, walk.field), TokensIn(b, walk.field), walk.i, walk.j)
TokenA == TokensIn(a, walk.field)[walk.i]
TokenB == TokensIn(b, walk.field)[walk.j]

Advance ==
  walk' = [walk EXCEPT !.i = IF WalkSide = "B" THEN @ ELSE @ + 1,
                       !.j = IF WalkSide = "A" THEN @ ELSE @ + 1]

BadCountTokens(ta, tb) == Len(ta) + Len(tb)

(* CountTokensBetweenCollisionFields: the turns of the walk.               *)
CountTokens(ta, tb) ==
  LET next(p) ==
        LET side == Side(ta, tb, p[1], p[2])
        IN  <<IF side = "B" THEN p[1] ELSE p[1] + 1, IF side = "A" THEN p[2] ELSE p[2] + 1>>
      rest[p \in (1 .. Len(ta) + 1) \X (1 .. Len(tb) + 1)] ==
        IF p = <<Len(ta) + 1, Len(tb) + 1>> THEN 0 ELSE 1 + rest[next(p)]
  IN  rest[<<1, 1>>]

BadAddOffsetFrom(dst, src) ==   \* stops after the first chunk
  dst \union {d + DocumentOffset :
                d \in {e \in src : Cardinality({x \in src : x <= e}) <= ChunkSize}}

(* addOffsetFrom: the bitmap is read a chunk at a time, in ascending order,*)
(* until a chunk comes that is too short to be followed by another.        *)
AddOffsetFrom(dst, src) ==
  LET chunk(rest) == {e \in rest : Cardinality({x \in rest : x <= e}) <= ChunkSize}
      shift(S)    == {d + DocumentOffset : d \in S}
      read[rest \in SUBSET src] ==
        IF Cardinality(chunk(rest)) < StopBelow THEN shift(chunk(rest))
        ELSE shift(chunk(rest)) \union read[rest \ chunk(rest)]
  IN  dst \union read[src]

-----------------------------------------------------------------------------
Init ==
  /\ \E p \in Pairs :
       /\ docsA = p[1]
       /\ docsB = p[2]
       /\ a \in LayoutsOf(p[1])
       /\ b \in LayoutsOf(p[2])
  /\ pc = "create"
  /\ todo = {}
  /\ orderA = << >>
  /\ orderB = << >>
  /\ orderC = << >>
  /\ turn = 0
  /\ walk = NoWalk
  /\ listCount = 0
  /\ listCursor = 0
  /\ freqCursor = 0
  /\ notes = << >>
  /\ temp = FALSE
  /\ heads = << >>
  /\ at = 0
  /\ dataSize = 0
  /\ out = NoSuchFile
  /\ lost = [blocks |-> 0, lists |-> 0]

BadCreate ==   \* announces the documents at once
  /\ pc = "create"
  /\ pc' = "prepareA"
  /\ out' = [NoSuchFile EXCEPT
       !.header = <<[ZeroHeader EXCEPT !.docs = Len(a.ids) + Len(b.ids)]>>,
       !.ids = a.ids \o b.ids]
  /\ todo' = DOMAIN a.fields
  /\ UNCHANGED <<inputVars, orderA, orderB, orderC, turn, walk, listCount,
                 cursorVars, temp, listVars>>

(* os.Create, Truncate to the header and the ids, and the ids.             *)
Create ==
  /\ pc = "create"
  /\ pc' = "prepareA"
  /\ out' = [NoSuchFile EXCEPT !.header = <<ZeroHeader>>, !.ids = a.ids \o b.ids]
  /\ todo' = DOMAIN a.fields
  /\ UNCHANGED <<inputVars, orderA, orderB, orderC, turn, walk, listCount,
                 cursorVars, temp, listVars>>

-----------------------------------------------------------------------------
(***************************************************************************)
(* preparationPass.                                                        *)
(***************************************************************************)
(* One field of the range over A's map: a collision field is put off.      *)
PrepareFieldA(f) ==
  /\ pc = "prepareA"
  /\ ~Walking
  /\ f \in todo
  /\ todo' = todo \ {f}
  /\ IF f \in DOMAIN b.fields
     THEN orderC' = Append(orderC, f) /\ UNCHANGED <<orderA, walk>>
     ELSE orderA' = Append(orderA, f) /\ walk' = StartOf(f) /\ UNCHANGED orderC
  /\ UNCHANGED <<inputVars, pc, orderB, turn, listCount, cursorVars, temp,
                 listVars, out>>

StartPrepareB ==
  /\ pc = "prepareA"
  /\ ~Walking
  /\ todo = {}
  /\ pc' = "prepareB"
  /\ todo' = DOMAIN b.fields
  /\ UNCHANGED <<inputVars, orderA, orderB, orderC, turn, walk, listCount,
                 cursorVars, temp, listVars, out>>

(* One field of the range over B's map: a collision field is passed over.  *)
PrepareFieldB(f) ==
  /\ pc = "prepareB"
  /\ ~Walking
  /\ f \in todo
  /\ todo' = todo \ {f}
  /\ IF f \in DOMAIN a.fields
     THEN UNCHANGED <<orderB, walk>>
     ELSE orderB' = Append(orderB, f) /\ walk' = StartOf(f)
  /\ UNCHANGED <<inputVars, pc, orderA, orderC, turn, listCount, cursorVars,
                 temp, listVars, out>>

StartPrepareC ==
  /\ pc = "prepareB"
  /\ ~Walking
  /\ todo = {}
  /\ pc' = "prepareC"
  /\ UNCHANGED <<inputVars, orderVars, walk, listCount, cursorVars, temp,
                 listVars, out>>

(* The collision fields, in the order the range over A's map met them.     *)
PrepareCollision ==
  /\ pc = "prepareC"
  /\ ~Walking
  /\ turn < Len(orderC)
  /\ turn' = turn + 1
  /\ walk' = StartOf(orderC[turn + 1])
  /\ UNCHANGED <<inputVars, pc, todo, orderA, orderB, orderC, listCount,
                 cursorVars, temp, listVars, out>>

(* One turn of a walk: the frequencies of A's token, then those of B's.    *)
PrepareToken ==
  /\ pc \in {"prepareA", "prepareB", "prepareC"}
  /\ Walking
  /\ listCount' = listCount + 1
  /\ out' = [out EXCEPT !.freqs = @
       \o (IF WalkSide = "B" THEN << >> ELSE Slice(a, TokenA))
       \o (IF WalkSide = "A" THEN << >> ELSE Shifted(Slice(b, TokenB)))]
  /\ Advance
  /\ UNCHANGED <<inputVars, pc, orderVars, cursorVars, temp, listVars>>

(* The temporary file with room for listCount notes, if there are any.     *)
MakeTemp ==
  /\ pc = "prepareC"
  /\ ~Walking
  /\ turn = Len(orderC)
  /\ pc' = "fields"
  /\ turn' = 0
  /\ walk' = NoWalk
  /\ temp' = (listCount > 0)
  /\ UNCHANGED <<inputVars, todo, orderA, orderB, orderC, listCount, cursorVars,
                 listVars, out>>

-----------------------------------------------------------------------------
(***************************************************************************)
(* The field blocks.                                                       *)
(***************************************************************************)
RecordedOrder == orderA \o orderB \o orderC

Copied(hash, field, lengths) ==
  [hash |-> hash, avg |-> field.avg, total |-> field.total,
   tokenCount |-> Len(field.tokens), occurrences |-> field.occurrences,
   lengthCount |-> Len(field.lengths), lengths |-> lengths, tokens |-> << >>]

(* The header and the document lengths of a block; its tokens follow.      *)
BlockHeader(f) ==
  IF f \notin DOMAIN b.fields
  THEN Copied(f, a.fields[f], a.fields[f].lengths)
  ELSE IF f \notin DOMAIN a.fields
  THEN Copied(f, b.fields[f], Shifted(b.fields[f].lengths))
  ELSE LET fa    == a.fields[f]
           fb    == b.fields[f]
           count == Len(fa.lengths) + Len(fb.lengths)
       IN  [hash |-> f,
            avg |-> Average(fa.total + fb.total, count),
            total |-> fa.total + fb.total,
            tokenCount |-> CountTokens(fa.tokens, fb.tokens),
            occurrences |-> fa.occurrences + fb.occurrences,
            lengthCount |-> count,
            lengths |-> fa.lengths \o Shifted(fb.lengths),
            tokens |-> << >>]

StartBlock ==
  /\ pc = "fields"
  /\ ~Walking
  /\ turn < Len(RecordedOrder)
  /\ turn' = turn + 1
  /\ walk' = StartOf(RecordedOrder[turn + 1])
  /\ out' = [out EXCEPT !.fields = Append(@, BlockHeader(RecordedOrder[turn + 1]))]
  /\ UNCHANGED <<inputVars, pc, todo, orderA, orderB, orderC, listCount,
                 cursorVars, temp, listVars>>

BadDocumentFrequency ==
  IF WalkSide = "B" THEN TokenB.count ELSE TokenA.count

(* FrequencyCount of the token that is written.                            *)
DocumentFrequency ==
  CASE WalkSide = "A" -> TokenA.count
    [] WalkSide = "B" -> TokenB.count
    [] OTHER -> TokenA.count + TokenB.count

(* One turn of the walk: writeCollisionToken, or the body of the loop over *)
(* the tokens of a field that only one storage has.                        *)
WriteToken ==
  /\ pc = "fields"
  /\ Walking
  /\ LET value == IF WalkSide = "B" THEN TokenB.value ELSE TokenA.value
         token == [value |-> value, count |-> DocumentFrequency,
                   list |-> listCursor, freq |-> freqCursor]
     IN  out' = [out EXCEPT !.fields[Len(out.fields)].tokens = Append(@, token)]
  /\ listCursor' = listCursor + 1
  /\ freqCursor' = freqCursor + DocumentFrequency
  /\ notes' = Append(notes, [a |-> IF WalkSide = "B" THEN -1 ELSE TokenA.list,
                             b |-> IF WalkSide = "A" THEN -1 ELSE TokenB.list])
  /\ Advance
  /\ UNCHANGED <<inputVars, pc, orderVars, listCount, temp, listVars>>

-----------------------------------------------------------------------------
(***************************************************************************)
(* The posting lists and the header.                                       *)
(***************************************************************************)
(* Msync, Flush, Sync, and room for the posting-list headers, behind what  *)
(* is in the file.  The error of Flush is dropped, and Reset clears it, so *)
(* the last of the frequencies and blocks may be missing from there on.  An*)
(* error of a Write before it is MergeFails.                               *)
Assemble ==
  /\ pc = "fields"
  /\ ~Walking
  /\ turn = Len(RecordedOrder)
  /\ pc' = "lists"
  /\ turn' = 0
  /\ walk' = NoWalk
  /\ out' = [out EXCEPT !.heads = [k \in DOMAIN notes |-> ZeroHead]]
  /\ \E n \in 0 .. Least(MaxLost, Len(out.freqs) + Len(out.fields)) :
       lost' = [lost EXCEPT !.blocks = n]
  /\ UNCHANGED <<inputVars, todo, orderA, orderB, orderC, listCount, cursorVars,
                 temp, heads, at, dataSize>>

(* The posting list a note asks for.                                       *)
MergedList(note) ==
  IF note.b = -1 THEN a.lists[note.a + 1]
  ELSE AddOffsetFrom(IF note.a = -1 THEN {} ELSE a.lists[note.a + 1],
                     b.lists[note.b + 1])

MaxHeaders == Least(HeaderBatch, Len(notes))

BadBatchPosition(batch) == Len(batch)

(* writeOffset after a batch of headers has been written.                  *)
BatchPosition(batch) == at + Len(batch)

(* One turn of the loop over PendingPostingLists; turn counts them.        *)
WriteList ==
  /\ pc = "lists"
  /\ turn < Len(notes)
  /\ turn' = turn + 1
  /\ LET list  == MergedList(notes[turn + 1])
         batch == Append(heads, [offset |-> dataSize, length |-> BitmapSize(list)])
         full  == Len(batch) >= MaxHeaders
     IN  /\ heads' = IF full THEN << >> ELSE batch
         /\ at' = IF full THEN BatchPosition(batch) ELSE at
         /\ dataSize' = dataSize + BitmapSize(list)
         /\ out' = [out EXCEPT !.heads = IF full THEN WriteAt(@, at, batch) ELSE @,
                               !.data  = Append(@, list)]
  /\ UNCHANGED <<inputVars, pc, todo, orderA, orderB, orderC, walk, listCount,
                 cursorVars, temp, lost>>

BadWriteRest ==   \* leaves the batch it wrote
  /\ pc = "lists"
  /\ turn = Len(notes)
  /\ pc' = "header"
  /\ at' = at + Len(heads)
  /\ out' = [out EXCEPT !.heads = WriteAt(@, at, heads)]
  /\ \E n \in 0 .. Least(MaxLost, Len(out.data)) : lost' = [lost EXCEPT !.lists = n]
  /\ UNCHANGED <<inputVars, orderVars, walk, listCount, cursorVars, temp, heads, dataSize>>

(* The last, incomplete batch, and the Flush, whose error is dropped too:  *)
(* the last of the lists may be missing.                                   *)
WriteRest ==
  /\ pc = "lists"
  /\ turn = Len(notes)
  /\ pc' = "header"
  /\ heads' = << >>
  /\ at' = at + Len(heads)
  /\ out' = [out EXCEPT !.heads = WriteAt(@, at, heads)]
  /\ \E n \in 0 .. Least(MaxLost, Len(out.data)) : lost' = [lost EXCEPT !.lists = n]
  /\ UNCHANGED <<inputVars, orderVars, walk, listCount, cursorVars, temp, dataSize>>

(* The header; Merge returns nil, and the temporary file is removed.       *)
WriteHeader ==
  /\ pc = "header"
  /\ pc' = "done"
  /\ out' = [out EXCEPT !.header =
       <<[docs   |-> Len(a.ids) + Len(b.ids),
          fields |-> Len(orderA) + Len(orderB) + Len(orderC),
          lists  |-> listCursor,
          data   |-> dataSize,
          freqs  |-> freqCursor]>>]
  /\ temp' = FALSE
  /\ UNCHANGED <<inputVars, orderVars, walk, listCount, cursorVars, listVars>>

BadMergeFails ==   \* forgets the temporary file
  /\ pc \notin {"done", "failed"}
  /\ pc' = "failed"
  /\ out' = NoSuchFile
  /\ UNCHANGED <<inputVars, orderVars, walk, listCount, cursorVars, temp, listVars>>

(* A call whose error is checked fails: Merge removes the output and the   *)
(* temporary file.                                                         *)
MergeFails ==
  /\ pc \notin {"done", "failed"}
  /\ pc' = "failed"
  /\ out' = NoSuchFile
  /\ temp' = FALSE
  /\ UNCHANGED <<inputVars, orderVars, walk, listCount, cursorVars, listVars>>

Proceed ==
  \/ Create
  \/ \E f \in todo : PrepareFieldA(f)
  \/ StartPrepareB
  \/ \E f \in todo : PrepareFieldB(f)
  \/ StartPrepareC
  \/ PrepareCollision
  \/ PrepareToken
  \/ MakeTemp
  \/ StartBlock
  \/ WriteToken
  \/ Assemble
  \/ WriteList
  \/ WriteRest
  \/ WriteHeader

Next == Proceed \/ MergeFails

Spec == Init /\ [][Next]_vars

(* Merge runs in one goroutine, which goes on unless it fails.             *)
FairSpec == Spec /\ WF_vars(Proceed)

-----------------------------------------------------------------------------
(* What is on disk of it, once the passes have flushed.  In place of lost  *)
(* blocks Load finds posting-list headers; no property says what it makes  *)
(* of them.                                                                *)
OnDisk ==
  LET kept == Len(out.freqs) + Len(out.fields) - lost.blocks IN
  [out EXCEPT !.freqs  = SubSeq(@, 1, Least(kept, Len(out.freqs))),
              !.fields = SubSeq(@, 1, kept - Len(out.freqs)),
              !.data   = SubSeq(@, 1, Len(@) - lost.lists)]

(***************************************************************************)
(* Properties.                                                             *)
(***************************************************************************)
(* The type invariant.                                                     *)
TypeOK ==
  /\ pc \in {"create", "prepareA", "prepareB", "prepareC", "fields", "lists",
             "header", "done", "failed"}
  /\ todo \subseteq DOMAIN a.fields \union DOMAIN b.fields
  /\ turn \in Nat
  /\ listCount \in Nat
  /\ listCursor \in Nat
  /\ freqCursor \in Nat
  /\ \A k \in DOMAIN notes : /\ notes[k].a \in -1 .. Len(a.lists) - 1
                             /\ notes[k].b \in -1 .. Len(b.lists) - 1
  /\ temp \in BOOLEAN
  /\ at + Len(heads) <= Len(notes)
  /\ dataSize \in Nat
  /\ lost \in [blocks : Nat, lists : 0 .. Len(notes)]

(* When Merge returns nil and no Flush failed, its output indexes A's      *)
(* documents followed by B's: each token of each field has the documents,  *)
(* the frequencies and the lengths it has in a storage built from all of   *)
(* them.  Merge also returns nil when a Flush did fail (merge.go:685, :809):*)
(* if it was the one behind the lists, the header announces what the file  *)
(* has not, and Load rejects the file.                                     *)
MergedIndexes ==
  pc = "done" /\ lost.blocks = 0 =>
    IF lost.lists = 0 THEN Indexes(Load(OnDisk), docsA \o docsB)
                      ELSE Load(OnDisk) = Rejected

(* The header is the commit point: a process that dies before it is written*)
(* leaves a file that Load takes for an empty storage or rejects, never one*)
(* that answers for some of the documents, whichever Flush failed.         *)
ReadsAsNothing ==
  pc # "done" => Load(OnDisk) \in {Rejected, EmptySegment}

(* While the blocks are written, the slice of frequencies a token points at*)
(* is that of its posting list: the token's documents, in order.           *)
TokenOwnsSlice ==
  pc = "fields" =>
    \A n \in DOMAIN out.fields : \A k \in DOMAIN out.fields[n].tokens :
      LET t     == out.fields[n].tokens[k]
          slice == SubSeq(out.freqs, t.freq + 1, t.freq + t.count)
      IN  [m \in DOMAIN slice |-> slice[m].doc]
            = Ascending(MergedList(notes[t.list + 1]))

(* The three passes over the tokens agree, each with its own cursors: what *)
(* is announced is what is written, the notes never outgrow the mapped     *)
(* temporary file (merge.go:409), the cursor that numbers the posting lists*)
(* is the number of the next note, and the tokens written so far own their *)
(* documents' frequencies, up to the cursor.                               *)
PassesAgree ==
  /\ listCursor = Len(notes)
  /\ pc \notin {"failed"} => freqCursor <= Len(out.freqs)
  /\ pc = "fields" => Len(notes) <= listCount
  /\ pc \in {"lists", "header", "done"} =>
       /\ Len(notes) = listCount
       /\ freqCursor = Len(out.freqs)
       /\ \A k \in DOMAIN out.fields :
            /\ out.fields[k].tokenCount = Len(out.fields[k].tokens)
            /\ out.fields[k].lengthCount = Len(out.fields[k].lengths)
  /\ TokenOwnsSlice

(* Merge ends, and leaves no temporary file.                               *)
MergeEnds == <>[](pc \in {"done", "failed"} /\ ~temp)
=============================================================================
