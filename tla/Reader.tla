------------------------------ MODULE Reader ------------------------------
(***************************************************************************)
(* textiplex.Reader (src/reader.go) around its Storage: Reset, Close,      *)
(* Query, QueryString, and the loops over the sequences they return.       *)
(*                                                                         *)
(* A sequence is a closure over the Reader: it looks at Searcher and at    *)
(* Storage when it is ranged over, the scores when the loop begins, the    *)
(* document ids before each turn.  The body of the loop is the caller's    *)
(* and may call Close and Reset.  A loop that meets a nil Searcher, the end*)
(* of a table or unmapped memory is dead: the process ends or, where a new *)
(* mapping took the place of the old, what is read is anything.            *)
(*                                                                         *)
(* What the scores are is the subject of Query; here a loop has hits, any  *)
(* documents of the storage whose fields it read.                          *)
(***************************************************************************)
EXTENDS Storage

VARIABLES
  owner,      \* who calls the methods of the Storage: "Reader" or "caller"
  searcher,   \* Searcher is not nil
  asked,      \* "no" sequence, one of "Query", or one with a watermark id
  loop        \* the range over it: [at, hits, ids, calm]

readerVars == <<owner, searcher, asked, loop>>
vars == <<storageVars, readerVars>>

(* ids are the identifiers yielded, as pairs of an origin and an index.    *)
(* calm tells that no Close or Reset was called since the loop began.      *)
Loop(at, hits) == [at |-> at, hits |-> hits, ids |-> {}, calm |-> TRUE]
NoLoop == Loop("none", {})

Init ==
  /\ StorageInit
  /\ owner \in {"Reader", "caller"}
  /\ searcher = FALSE
  /\ asked = "no"
  /\ loop = NoLoop

-----------------------------------------------------------------------------
(* The caller's code runs between loops and in their bodies.               *)
CallersTurn == owner = "Reader" /\ loop.at \in {"none", "marked", "body"}

Disturbed == loop' = IF loop.at = "none" THEN loop ELSE [loop EXCEPT !.calm = FALSE]

BadClose ==   \* Searcher stays
  /\ CallersTurn
  /\ s' \in AfterClose
  /\ mapped' = Unmapped
  /\ current' = CurrentUnmapped
  /\ Disturbed
  /\ UNCHANGED <<origin, since, owner, searcher, asked>>

Close ==
  /\ CallersTurn
  /\ searcher' = FALSE
  /\ s' \in AfterClose
  /\ mapped' = Unmapped
  /\ current' = CurrentUnmapped
  /\ Disturbed
  /\ UNCHANGED <<origin, since, owner, asked>>

(* Reset where the directory cannot be read or has not exactly one entry.  *)
ResetWithoutFile ==
  /\ CallersTurn
  /\ searcher' = FALSE
  /\ s' \in AfterClose
  /\ mapped' = Unmapped
  /\ current' = CurrentUnmapped
  /\ Disturbed
  /\ UNCHANGED <<origin, since, owner, asked>>

BadReset(f) ==   \* without Close
  /\ CallersTurn
  /\ LoadFrom(s, mapped, f)
  /\ searcher' = (current' # 0)
  /\ Disturbed
  /\ UNCHANGED <<owner, asked>>

(* Reset of a directory whose one entry is f: the error of Close is        *)
(* dropped, and there is a Searcher only if Load succeeds.                 *)
Reset(f) ==
  /\ CallersTurn
  /\ \E t \in AfterClose : LoadFrom(t, Unmapped, f)
  /\ searcher' = (current' # 0)
  /\ Disturbed
  /\ UNCHANGED <<owner, asked>>

(* Query is refused without a Searcher; QueryString, which calls it, puts  *)
(* a watermark id in front of the others when the query string asks for it.*)
Query ==
  /\ CallersTurn
  /\ loop.at = "none"
  /\ searcher
  /\ asked' \in {"Query", "QueryString"}
  /\ UNCHANGED <<storageVars, owner, searcher, loop>>

(* The watermark id is yielded before the other sequence is begun.         *)
YieldWatermark ==
  /\ asked = "QueryString"
  /\ loop.at = "none"
  /\ loop' = Loop("marked", {})
  /\ UNCHANGED <<storageVars, owner, searcher, asked>>

-----------------------------------------------------------------------------
ScoredTables == QueriedTables \ {s.ids}

(* FilterDocuments, BM25Score or FieldScore, ResolveScores.                *)
Begin ==
  /\ \/ asked = "Query" /\ loop.at = "none"
     \/ asked = "QueryString" /\ loop.at = "marked"
  /\ LET calm == loop.at = "none" \/ loop.calm
         begun(at, hits) == loop' = [Loop(at, hits) EXCEPT !.calm = calm]
     IN  IF ~searcher \/ \E n \in ScoredTables : ~Readable(n)
           THEN begun("dead", {})
           ELSE \E hits \in SUBSET (IF HasTokens THEN 1 .. Of(s.fields).docs ELSE {}) :
                  begun("scored", hits)
  /\ UNCHANGED <<storageVars, owner, searcher, asked>>

(* yield(r.Storage.DocumentsIds[score.Index].Value.Bytes())                *)
Yield(hit) ==
  /\ loop.at \in {"scored", "body"}
  /\ hit \in loop.hits
  /\ loop' = IF s.ids = 0 \/ ~Readable(s.ids) \/ hit > Of(s.ids).docs
               THEN [loop EXCEPT !.at = "dead"]
               ELSE [loop EXCEPT !.at = "body", !.hits = @ \ {hit},
                                 !.ids = @ \union {<<s.ids, hit>>}]
  /\ UNCHANGED <<storageVars, owner, searcher, asked>>

(* After the last result, or as the body breaks.                           *)
EndLoop ==
  /\ \/ loop.at = "scored" /\ loop.hits = {}
     \/ loop.at \in {"marked", "body"}
  /\ loop' = NoLoop
  /\ UNCHANGED <<storageVars, owner, searcher, asked>>

Next ==
  \/ /\ owner = "caller"
     /\ StorageNext
     /\ UNCHANGED readerVars
  \/ Close
  \/ ResetWithoutFile
  \/ \E f \in Files : Reset(f)
  \/ Query
  \/ YieldWatermark
  \/ Begin
  \/ \E hit \in loop.hits : Yield(hit)
  \/ EndLoop

Spec == Init /\ [][Next]_vars

-----------------------------------------------------------------------------
(* The type invariant of a Reader, its Storage and its loops.              *)
TypeOK ==
  /\ StorageTypeOK
  /\ owner \in {"Reader", "caller"}
  /\ searcher \in BOOLEAN
  /\ asked \in {"no", "Query", "QueryString"}
  /\ loop.at \in {"none", "marked", "scored", "body", "dead"}
  /\ loop.calm \in BOOLEAN
  /\ loop.hits \in SUBSET Nat
  /\ loop.ids \subseteq (DOMAIN origin) \X Nat

(* README, "Reading": a Reader that has a Searcher, so one whose Query is  *)
(* not refused, holds the mapping of the file its last Reset loaded;       *)
(* whichever calls failed before, Close among them.                        *)
SearcherMeansOpen ==
  searcher => /\ current # 0
              /\ s.file /\ s.buffer = current /\ current \in mapped

(* "Close releases the mmap": over any number of Resets, that succeed or   *)
(* fail, a Reader keeps at most the mapping it answers from.               *)
NothingLeaks == owner = "Reader" => mapped = IF s.buffer = 0 THEN {} ELSE {s.buffer}

(* A loop whose body left the Reader alone yields ids of the storage it    *)
(* scored, the one of the last Reset, and never touches unmapped memory,   *)
(* though DocumentsIds is read anew for each result and the tables of      *)
(* closed storages stay behind.  A segment that is a header and nothing    *)
(* else, as Batch without documents saves it, is left out: Load returns    *)
(* with the tables of the storage before.                                  *)
LoopsAnswerCurrent ==
  loop.at \in {"scored", "body", "dead"} /\ loop.calm /\ current # 0 /\ Of(current).more =>
    /\ loop.at # "dead"
    /\ \A id \in loop.ids : id[1] = current
=============================================================================
