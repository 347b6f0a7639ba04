------------------------------- MODULE Writer -------------------------------
(***************************************************************************)
(* The directory protocol of textiplex.Writer (src/writer.go).             *)
(*                                                                         *)
(* Client goroutines call Writer.Batch concurrently; each call takes the   *)
(* next number of SegmentCounter and saves one segment file.  One caller   *)
(* then runs Writer.Merge, which lists the directory, merges the segments  *)
(* pairwise in worker goroutines and repeats until one segment is left.    *)
(*                                                                         *)
(* A segment is the number its name "%016X.seg" is printed from: the names *)
(* have a fixed width, so os.ReadDir's order is the order of the numbers.  *)
(* Its content is the sequence of the batches whose documents it holds;    *)
(* what Merger.Merge does inside one pair is the subject of module Merger. *)
(***************************************************************************)
EXTENDS Integers, Sequences, FiniteSets

CONSTANTS
  Clients,      \* goroutines that call Writer.Batch
  Batches,      \* the batches to index; documents of two batches are disjoint
  MaxWorkers,   \* Writer.MaxWorkers
  NoBatch,      \* no batch: what an idle client is saving
  NumCPU,       \* runtime.NumCPU(), also the value of DefaultMaxWorkers
  MaxSegments,  \* bound: the largest value SegmentCounter takes
  Faults,       \* the kinds of failure the environment may inject
  MaxFaults     \* bound: how many failures it injects in one behaviour

FaultKinds ==
  {"list",      \* os.ReadDir fails
   "save",      \* Storage.SaveTo fails (and removes what it wrote)
   "load",      \* Storage.Load of a sound segment fails (open, mmap, madvise)
   "merge",     \* Merger.Merge fails (and removes its output)
   "flush",     \* one of Merger.Merge's two ignored Flush errors occurs
   "remove",    \* an os.Remove of a merged input fails; the error is ignored
   "restart"}   \* the process dies and a new Writer opens the directory

ASSUME WriterAssumption ==
  /\ NoBatch \notin Batches
  /\ MaxWorkers \in Nat
  /\ NumCPU \in Nat \ {0}
  /\ MaxSegments \in Nat
  /\ MaxFaults \in Nat
  /\ Faults \subseteq FaultKinds

VARIABLES
  file,      \* what the directory holds under each segment number
  counter,   \* Writer.SegmentCounter
  cpc,       \* control point of each client's Batch call
  cbatch,    \* the batch each client is saving, or NoBatch
  cseg,      \* the segment number each client took
  home,      \* home[b]: the segment b was acknowledged in, 0 before that
  mpc,       \* control point of the goroutine that runs Merge
  result,    \* what the last Merge returned: "none", "ok" or "failed"
  listing,   \* dirEntries of this round
  spawned,   \* chunks of the listing handed to a goroutine so far
  tokens,    \* tokens in the workers channel
  gpc,       \* control point of the goroutine of each chunk
  gout,      \* the segment number that goroutine writes
  errs,      \* errors buffered in errorsCh
  closed,    \* whether errorsCh has been closed
  failures,  \* len(allErrors)
  faults     \* failures injected so far

dirVars    == <<file, counter>>
clientVars == <<cpc, cbatch, cseg, home>>
roundVars  == <<listing, spawned>>
workerVars == <<gpc, gout>>
errVars    == <<errs, closed, failures>>
vars == <<dirVars, clientVars, mpc, result, roundVars, tokens, workerVars,
          errVars, faults>>

Segs  == 1 .. MaxSegments
Slots == 1 .. MaxSegments

-----------------------------------------------------------------------------
(***************************************************************************)
(* Segment files.                                                          *)
(*   none   no such file                                                   *)
(*   short  a file Storage.Load rejects: created, or written up to a point *)
(*          where a table its header announces is missing                  *)
(*   blank  a Merger output whose header is still all zero: Storage.Load   *)
(*          accepts it (it does not check the magic number) as an empty    *)
(*          storage                                                        *)
(*   full   a complete segment                                             *)
(***************************************************************************)
FileStates == {"none", "short", "blank", "full"}
File == [st : FileStates, docs : Seq(Batches)]

NoFile    == [st |-> "none",  docs |-> << >>]
ShortFile == [st |-> "short", docs |-> << >>]
BlankFile == [st |-> "blank", docs |-> << >>]
FullFile(docs) == [st |-> "full", docs |-> docs]

Present == {s \in Segs : file[s].st # "none"}
DocsOf(f) == {f.docs[k] : k \in DOMAIN f.docs}

(* Storage.Load of a file in this state succeeds.                          *)
Loadable(s) == file[s].st \in {"blank", "full"}

(* Reader.Reset accepts the directory: one entry, which Load takes.        *)
Openable(s) == Present = {s} /\ Loadable(s)

BadMerged(a, b) == file[a].docs

(* The document table Merger.Merge writes: A's documents, then B's.        *)
Merged(a, b) == file[a].docs \o file[b].docs

-----------------------------------------------------------------------------
(* The chunks of a listing: slices.Chunk(dirEntries, 2).                   *)
ChunkCount == (Len(listing) + 1) \div 2
IsPair(i)  == 2 * i <= Len(listing)
InputA(i)  == listing[2 * i - 1]
InputB(i)  == listing[2 * i]

(* Variants that are not the code, named Bad...: each is a plausible slip  *)
(* that the property it is paired with must catch.                         *)
BadErrorsCapacitySmall(n) == (n \div 2) - 1
BadErrorsCapacityUnbuffered(n) == 0

(* The buffer of errorsCh: one slot for every pair, and one more.          *)
ErrorsCapacity(n) == (n \div 2) + 1

BadIsUnit(n) == n <= 2

(* len(dirEntries) == 1: the directory is down to one segment.             *)
IsUnit(n) == n = 1

Least(a, b)    == IF a <= b THEN a ELSE b
Greatest(a, b) == IF a >= b THEN a ELSE b

(* min(max(1, w.MaxWorkers, DefaultMaxWorkers), runtime.NumCPU())          *)
NumWorkers == Least(Greatest(1, Greatest(MaxWorkers, NumCPU)), NumCPU)

(* os.ReadDir: the names present, in ascending order.                      *)
Listings ==
  {l \in [1 .. Cardinality(Present) -> Present] :
     \A i, j \in DOMAIN l : i < j => l[i] < l[j]}

Inject(kind) ==
  /\ kind \in Faults
  /\ faults < MaxFaults
  /\ faults' = faults + 1

NoFault == UNCHANGED faults

-----------------------------------------------------------------------------
Init ==
  /\ file = [s \in Segs |-> NoFile]
  /\ counter = 0
  /\ cpc = [c \in Clients |-> "idle"]
  /\ cbatch = [c \in Clients |-> NoBatch]
  /\ cseg = [c \in Clients |-> 0]
  /\ home = [b \in Batches |-> 0]
  /\ mpc = "idle"
  /\ result = "none"
  /\ listing = << >>
  /\ spawned = 0
  /\ tokens = 0
  /\ gpc = [i \in Slots |-> "off"]
  /\ gout = [i \in Slots |-> 0]
  /\ errs = 0
  /\ closed = FALSE
  /\ failures = 0
  /\ faults = 0

-----------------------------------------------------------------------------
(***************************************************************************)
(* Writer.Batch, one client goroutine each.                                *)
(***************************************************************************)
BadBeginBatch(c, b) ==   \* SegmentCounter.Load() + 1: the number is not taken
  /\ mpc = "idle"
  /\ cpc[c] = "idle"
  /\ home[b] = 0
  /\ \A d \in Clients : cbatch[d] # b
  /\ counter < MaxSegments
  /\ cseg' = [cseg EXCEPT ![c] = counter + 1]
  /\ cbatch' = [cbatch EXCEPT ![c] = b]
  /\ cpc' = [cpc EXCEPT ![c] = "create"]
  /\ UNCHANGED <<dirVars, home, mpc, result, roundVars, tokens, workerVars,
                 errVars, faults>>

(* BuildFrom and SegmentCounter.Add(1).  A batch is not indexed twice, but *)
(* a caller may retry one whose Batch call failed.  The comment on Merge   *)
(* says when it may be called: so no insertion starts while it runs.       *)
BeginBatch(c, b) ==
  /\ mpc = "idle"
  /\ cpc[c] = "idle"
  /\ home[b] = 0
  /\ \A d \in Clients : cbatch[d] # b
  /\ counter < MaxSegments
  /\ counter' = counter + 1
  /\ cseg' = [cseg EXCEPT ![c] = counter + 1]
  /\ cbatch' = [cbatch EXCEPT ![c] = b]
  /\ cpc' = [cpc EXCEPT ![c] = "create"]
  /\ UNCHANGED <<file, home, mpc, result, roundVars, tokens, workerVars,
                 errVars, faults>>

ClientDone(c) ==
  /\ cpc' = [cpc EXCEPT ![c] = "idle"]
  /\ cbatch' = [cbatch EXCEPT ![c] = NoBatch]
  /\ cseg' = [cseg EXCEPT ![c] = 0]

(* SaveTo: os.Create, which truncates a file of that name.  If it fails    *)
(* nothing is removed: the deferred cleanup is not registered yet.         *)
CreateSegment(c) ==
  /\ cpc[c] = "create"
  /\ \/ /\ file' = [file EXCEPT ![cseg[c]] = ShortFile]
        /\ cpc' = [cpc EXCEPT ![c] = "save"]
        /\ NoFault
        /\ UNCHANGED <<cbatch, cseg>>
     \/ /\ Inject("save")
        /\ ClientDone(c)
        /\ UNCHANGED file
  /\ UNCHANGED <<counter, home, mpc, result, roundVars, tokens, workerVars,
                 errVars>>

(* The rest of SaveTo: every table is written and synced and Batch returns *)
(* nil, or one write fails, the file is removed and Batch returns an error.*)
SaveSegment(c) ==
  /\ cpc[c] = "save"
  /\ \/ /\ file' = [file EXCEPT ![cseg[c]] = FullFile(<<cbatch[c]>>)]
        /\ home' = [home EXCEPT ![cbatch[c]] = cseg[c]]
        /\ NoFault
     \/ /\ Inject("save")
        /\ file' = [file EXCEPT ![cseg[c]] = NoFile]
        /\ UNCHANGED home
  /\ ClientDone(c)
  /\ UNCHANGED <<counter, mpc, result, roundVars, tokens, workerVars, errVars>>

-----------------------------------------------------------------------------
(***************************************************************************)
(* Writer.Merge, the calling goroutine.                                    *)
(***************************************************************************)
(* The call: the workers channel is made and filled with tokens.           *)
CallMerge ==
  /\ mpc = "idle"
  /\ \A c \in Clients : cpc[c] = "idle"
  /\ mpc' = "list"
  /\ result' = "none"
  /\ tokens' = NumWorkers
  /\ UNCHANGED <<dirVars, clientVars, roundVars, workerVars, errVars, faults>>

Return(r) ==
  /\ mpc' = "idle"
  /\ result' = r
  /\ tokens' = 0

(* One turn of the loop up to the first chunk: list the directory, return  *)
(* if exactly one entry is left, else make the round's errorsCh.           *)
ListDirectory ==
  /\ mpc = "list"
  /\ \/ /\ IsUnit(Cardinality(Present))
        /\ NoFault
        /\ Return("ok")
        /\ UNCHANGED listing
     \/ /\ ~IsUnit(Cardinality(Present))
        /\ NoFault
        /\ listing' \in Listings
        /\ mpc' = "spawn"
        /\ UNCHANGED <<result, tokens>>
     \/ /\ Inject("list")
        /\ Return("failed")
        /\ UNCHANGED listing
  /\ UNCHANGED <<dirVars, clientVars, spawned, workerVars, errVars>>

(* <-workers, then wg.Go for the next chunk.  A chunk of one entry has     *)
(* nothing to do but give its token back.                                  *)
Spawn ==
  /\ mpc = "spawn"
  /\ spawned < ChunkCount
  /\ tokens > 0
  /\ tokens' = tokens - 1
  /\ spawned' = spawned + 1
  /\ gpc' = [gpc EXCEPT ![spawned + 1] = IF IsPair(spawned + 1)
                                         THEN "loadA" ELSE "release"]
  /\ UNCHANGED <<dirVars, clientVars, mpc, result, listing, gout, errVars,
                 faults>>

(* Every chunk has its goroutine: start the closer, then range errorsCh.   *)
StartCollecting ==
  /\ mpc = "spawn"
  /\ spawned = ChunkCount
  /\ mpc' = "collect"
  /\ UNCHANGED <<dirVars, clientVars, result, roundVars, tokens, workerVars,
                 errVars, faults>>

BadReceiveError ==       \* drains the channel without keeping the errors
  /\ mpc = "collect"
  /\ errs > 0
  /\ errs' = errs - 1
  /\ UNCHANGED <<dirVars, clientVars, mpc, result, roundVars, tokens,
                 workerVars, closed, failures, faults>>

ReceiveError ==
  /\ mpc = "collect"
  /\ errs > 0
  /\ errs' = errs - 1
  /\ failures' = failures + 1
  /\ UNCHANGED <<dirVars, clientVars, mpc, result, roundVars, tokens,
                 workerVars, closed, faults>>

(* errorsCh is closed and empty: go round again without an error, return   *)
(* them otherwise.                                                         *)
EndRound ==
  /\ mpc = "collect"
  /\ closed
  /\ errs = 0
  /\ IF failures = 0
     THEN mpc' = "list" /\ UNCHANGED <<result, tokens>>
     ELSE Return("failed")
  /\ listing' = << >>
  /\ spawned' = 0
  /\ gpc' = [i \in Slots |-> "off"]
  /\ gout' = [i \in Slots |-> 0]
  /\ closed' = FALSE
  /\ failures' = 0
  /\ UNCHANGED <<dirVars, clientVars, errs, faults>>

(* The closer goroutine: wg.Wait(), close(errorsCh).                       *)
CloseErrors ==
  /\ mpc = "collect"
  /\ ~closed
  /\ \A i \in 1 .. ChunkCount : gpc[i] = "done"
  /\ closed' = TRUE
  /\ UNCHANGED <<dirVars, clientVars, mpc, result, roundVars, tokens,
                 workerVars, errs, failures, faults>>

-----------------------------------------------------------------------------
(***************************************************************************)
(* The goroutine of chunk i of the listing.                                *)
(***************************************************************************)
Goto(i, label) == gpc' = [gpc EXCEPT ![i] = label]

(* storageA.Load, storageB.Load: a short file is rejected.                 *)
Load(i, here, input, next) ==
  /\ gpc[i] = here
  /\ \/ /\ Loadable(input)
        /\ NoFault
        /\ Goto(i, next)
     \/ /\ ~Loadable(input)
        /\ NoFault
        /\ Goto(i, "fail")
     \/ /\ Inject("load")
        /\ Goto(i, "fail")
  /\ UNCHANGED <<dirVars, clientVars, mpc, result, roundVars, tokens, gout,
                 errVars>>

LoadA(i) == Load(i, "loadA", InputA(i), "loadB")
LoadB(i) == Load(i, "loadB", InputB(i), "create")

(* SegmentCounter.Add(1), then Merger.Merge's os.Create of the output in   *)
(* Directory, truncating a file of that name.  When os.Create fails no     *)
(* file is removed.                                                        *)
CreateOutput(i) ==
  /\ gpc[i] = "create"
  /\ counter < MaxSegments
  /\ counter' = counter + 1
  /\ gout' = [gout EXCEPT ![i] = counter + 1]
  /\ \/ /\ NoFault
        /\ file' = [file EXCEPT ![counter + 1] = ShortFile]
        /\ Goto(i, "reserve")
     \/ /\ Inject("merge")
        /\ UNCHANGED file
        /\ Goto(i, "fail")
  /\ UNCHANGED <<clientVars, mpc, result, roundVars, tokens, errVars>>

BadMergeFailsDebris(i) ==   \* no deferred cleanup
  /\ Inject("merge")
  /\ Goto(i, "fail")
  /\ UNCHANGED file

BadMergeFailsGoesOn(i) ==   \* no return after the error
  /\ Inject("merge")
  /\ file' = [file EXCEPT ![gout[i]] = NoFile]
  /\ Goto(i, "removeA")

(* A later step of Merger.Merge fails: its deferred cleanup removes the    *)
(* output, and the goroutine reports the error.                            *)
MergeFails(i) ==
  /\ Inject("merge")
  /\ file' = [file EXCEPT ![gout[i]] = NoFile]
  /\ Goto(i, "fail")

(* Truncate to the header and the document table: all-zero header.         *)
ReserveOutput(i) ==
  /\ gpc[i] = "reserve"
  /\ \/ /\ NoFault
        /\ file' = [file EXCEPT ![gout[i]] = BlankFile]
        /\ Goto(i, "write")
     \/ MergeFails(i)
  /\ UNCHANGED <<counter, clientVars, mpc, result, roundVars, tokens, gout,
                 errVars>>

(* The tables, then, last, the header.  The inputs are shared mappings, so *)
(* what is copied is what the two files hold.  If a Flush fails the error  *)
(* is dropped: Merge still returns nil, and the header announces tables    *)
(* that are not there.                                                     *)
WriteOutput(i) ==
  /\ gpc[i] = "write"
  /\ \/ /\ NoFault
        /\ file' = [file EXCEPT ![gout[i]] =
                      FullFile(Merged(InputA(i), InputB(i)))]
        /\ Goto(i, "removeA")
     \/ /\ Inject("flush")
        /\ file' = [file EXCEPT ![gout[i]] = ShortFile]
        /\ Goto(i, "removeA")
     \/ MergeFails(i)
  /\ UNCHANGED <<counter, clientVars, mpc, result, roundVars, tokens, gout,
                 errVars>>

(* os.Remove of an input; its error is ignored.                            *)
Remove(i, here, input, next) ==
  /\ gpc[i] = here
  /\ \/ /\ NoFault
        /\ file' = [file EXCEPT ![input] = NoFile]
     \/ /\ Inject("remove")
        /\ UNCHANGED file
  /\ Goto(i, next)
  /\ UNCHANGED <<counter, clientVars, mpc, result, roundVars, tokens, gout,
                 errVars>>

RemoveA(i) == Remove(i, "removeA", InputA(i), "removeB")
BadRemoveB(i) == Remove(i, "removeB", InputA(i), "release")
RemoveB(i) == Remove(i, "removeB", InputB(i), "release")

(* errorsCh <- err: waits while the channel's buffer is full.              *)
SendError(i) ==
  /\ gpc[i] = "fail"
  /\ errs < ErrorsCapacity(Len(listing))
  /\ errs' = errs + 1
  /\ Goto(i, "release")
  /\ UNCHANGED <<dirVars, clientVars, mpc, result, roundVars, tokens, gout,
                 closed, failures, faults>>

BadReleaseTakes(i) ==    \* <-workers where workers <- is meant
  /\ gpc[i] = "release"
  /\ tokens' = tokens - 1
  /\ Goto(i, "done")
  /\ UNCHANGED <<dirVars, clientVars, mpc, result, roundVars, gout, errVars,
                 faults>>

(* The deferred Close calls and workers <- struct{}{}, then wg.Done().     *)
Release(i) ==
  /\ gpc[i] = "release"
  /\ tokens' = tokens + 1
  /\ Goto(i, "done")
  /\ UNCHANGED <<dirVars, clientVars, mpc, result, roundVars, gout, errVars,
                 faults>>

-----------------------------------------------------------------------------
(* The process dies between any two steps: the goroutines and the counter  *)
(* are gone, the files stay.  A new Writer{Directory: dir} counts from 0.  *)
Restart ==
  /\ Inject("restart")
  /\ counter' = 0
  /\ cpc' = [c \in Clients |-> "idle"]
  /\ cbatch' = [c \in Clients |-> NoBatch]
  /\ cseg' = [c \in Clients |-> 0]
  /\ mpc' = "idle"
  /\ result' = "none"
  /\ listing' = << >>
  /\ spawned' = 0
  /\ tokens' = 0
  /\ gpc' = [i \in Slots |-> "off"]
  /\ gout' = [i \in Slots |-> 0]
  /\ errs' = 0
  /\ closed' = FALSE
  /\ failures' = 0
  /\ UNCHANGED <<file, home>>

Client(c) ==
  \/ \E b \in Batches : BeginBatch(c, b)
  \/ CreateSegment(c)
  \/ SaveSegment(c)

Main == ListDirectory \/ Spawn \/ StartCollecting \/ ReceiveError \/ EndRound

Worker(i) ==
  \/ LoadA(i) \/ LoadB(i)
  \/ CreateOutput(i) \/ ReserveOutput(i) \/ WriteOutput(i)
  \/ RemoveA(i) \/ RemoveB(i)
  \/ SendError(i) \/ Release(i)

Next ==
  \/ \E c \in Clients : Client(c)
  \/ CallMerge
  \/ Main
  \/ CloseErrors
  \/ \E i \in Slots : Worker(i)
  \/ Restart

(* The Go scheduler runs every goroutine that can run.                     *)
Fairness ==
  /\ WF_vars(Main)
  /\ WF_vars(CloseErrors)
  /\ \A i \in Slots : WF_vars(Worker(i))

Spec == Init /\ [][Next]_vars
FairSpec == Spec /\ Fairness

-----------------------------------------------------------------------------
(***************************************************************************)
(* Properties.                                                             *)
(***************************************************************************)
ClientPCs == {"idle", "create", "save"}
MainPCs   == {"idle", "list", "spawn", "collect"}
WorkerPCs == {"off", "loadA", "loadB", "create", "reserve", "write",
              "removeA", "removeB", "fail", "release", "done"}

(* The type invariant of the Writer's state, shared and local.             *)
TypeOK ==
  /\ file \in [Segs -> File]
  /\ counter \in 0 .. MaxSegments
  /\ cpc \in [Clients -> ClientPCs]
  /\ cbatch \in [Clients -> Batches \union {NoBatch}]
  /\ cseg \in [Clients -> 0 .. MaxSegments]
  /\ home \in [Batches -> 0 .. MaxSegments]
  /\ mpc \in MainPCs
  /\ result \in {"none", "ok", "failed"}
  /\ listing \in Seq(Segs)
  /\ spawned \in Nat
  /\ tokens \in Nat
  /\ gpc \in [Slots -> WorkerPCs]
  /\ gout \in [Slots -> 0 .. MaxSegments]
  /\ errs \in Nat
  /\ closed \in BOOLEAN
  /\ failures \in Nat
  /\ faults \in Nat

Acknowledged == {b \in Batches : home[b] # 0}
Full == {s \in Segs : file[s].st = "full"}

(* The inputs of a pair whose output is complete and that os.Remove has    *)
(* not been called on yet: their documents are in two files.               *)
Superseded ==
  {s \in Segs : \E i \in Slots :
     \/ gpc[i] = "removeA" /\ s \in {InputA(i), InputB(i)}
     \/ gpc[i] = "removeB" /\ s = InputB(i)}

Live == Full \ Superseded

(* At every moment, so also if the process dies there, the documents of    *)
(* every batch whose Batch call returned nil are in a complete segment of  *)
(* the directory: writer.go removes a pair's inputs only after Merger.Merge*)
(* returned nil for an output of a name nothing else has.                  *)
NothingLost ==
  \A b \in Acknowledged : \E s \in Full : b \in DocsOf(file[s])

(* What NothingLost and ImmutableSegments rest on while no process restart *)
(* and no dropped Flush error happens.                                     *)

(* A segment number above the counter has never been used.                 *)
NamesCounted == \A s \in Present : s <= counter

(* Each client inside Batch owns its number: nothing complete is there.    *)
ClientOwnsSegment ==
  /\ \A c \in Clients : cpc[c] # "idle" =>
       cseg[c] <= counter /\ file[cseg[c]].st \in {"none", "short"}
  /\ \A c, d \in Clients : c # d /\ cpc[c] # "idle" /\ cpc[d] # "idle" =>
       cseg[c] # cseg[d]

(* No Batch call runs during Merge.                                        *)
NoBatchDuringMerge == mpc # "idle" => \A c \in Clients : cpc[c] = "idle"

(* The entries of the listing are distinct numbers, all taken before.      *)
ListingDistinct ==
  /\ \A k \in 1 .. Len(listing) : listing[k] <= counter
  /\ \A j, k \in 1 .. Len(listing) : j # k => listing[j] # listing[k]

(* The goroutines that have an output own it: it is no entry of the listing*)
(* and no other goroutine's output, and it is complete before the removals.*)
HasOutput == {"reserve", "write", "removeA", "removeB"}

OutputOwned(i) ==
  gpc[i] \in HasOutput =>
    /\ gout[i] \in Segs /\ gout[i] <= counter
    /\ \A k \in 1 .. Len(listing) : listing[k] # gout[i]
    /\ gpc[i] = "reserve" => file[gout[i]].st = "short"
    /\ gpc[i] = "write" => file[gout[i]].st = "blank"
    /\ gpc[i] \in {"removeA", "removeB"} => file[gout[i]].st = "full"

OutputsOwned ==
  /\ \A i \in Slots : OutputOwned(i)
  /\ \A i, j \in Slots : i # j /\ gpc[i] \in HasOutput /\ gpc[j] \in HasOutput =>
       gout[i] # gout[j]

(* What a goroutine is about to remove is in its output.                   *)
RemovalCovered(i) ==
  /\ gpc[i] = "removeA" =>
       DocsOf(file[InputA(i)]) \subseteq DocsOf(file[gout[i]])
  /\ gpc[i] \in {"removeA", "removeB"} =>
       DocsOf(file[InputB(i)]) \subseteq DocsOf(file[gout[i]])

RemovalsCovered == \A i \in Slots : RemovalCovered(i)

SafetyInv ==
  /\ NamesCounted
  /\ ClientOwnsSegment
  /\ NoBatchDuringMerge
  /\ ListingDistinct
  /\ OutputsOwned
  /\ RemovalsCovered
  /\ NothingLost

(* Each acknowledged batch is in exactly one live segment, once: concurrent*)
(* pairs, failed pairs and retried Merge calls index no document twice.    *)
ExactlyOnce ==
  \A b \in Acknowledged :
    Cardinality({p \in Live \X (1 .. Cardinality(Batches)) :
                   /\ p[2] \in DOMAIN file[p[1]].docs
                   /\ file[p[1]].docs[p[2]] = b}) = 1

(* README: "Once written it is never modified in place": a complete segment*)
(* stays as it is until it is removed.                                     *)
ImmutableSegments ==
  [][\A s \in Segs : file[s].st = "full" => file'[s] \in {file[s], NoFile}]_vars

(* README: "Merge reduces them to a single segment required by Reader".    *)
(* When Merge returns nil the directory holds one file, it is complete, and*)
(* its documents are those of the acknowledged batches.                    *)
MergedToUnit ==
  [][(mpc = "list" /\ mpc' = "idle" /\ result' = "ok") =>
       \E s \in Segs : /\ Present = {s}
                       /\ s \in Full
                       /\ DocsOf(file[s]) = Acknowledged]_vars

(* Whatever failed, once no call is running the directory holds complete   *)
(* segments only: SaveTo's and Merger.Merge's cleanups leave no debris.    *)
NoDebris ==
  (mpc = "idle" /\ \A c \in Clients : cpc[c] = "idle") => Present = Full

(* Whenever it is opened, before, between and during merges and after a    *)
(* crash, a Reader either refuses the directory or answers from all the    *)
(* acknowledged batches: never from a half written output, nor from some   *)
(* of the segments.                                                        *)
ReaderSeesAll ==
  \A s \in Segs : Openable(s) => s \in Full /\ DocsOf(file[s]) = Acknowledged

(* errorsCh (writer.go:65) always has room for a pair's error, although the*)
(* channel is read only after the last chunk has been spawned.             *)
ErrorsHaveRoom ==
  \A i \in Slots : gpc[i] = "fail" => errs < ErrorsCapacity(Len(listing))

(* Merge goes round again only when every pair of the round was merged and *)
(* its inputs are gone; one failed pair is enough to make it return.       *)
RoundConsumesInputs ==
  [][(mpc = "collect" /\ mpc' = "list") =>
       \A i \in 1 .. (Len(listing) \div 2) :
          {InputA(i), InputB(i)} \intersect Present = {}]_vars

(* A Merge call that finds a segment returns: no goroutine waits for a     *)
(* token, for room in errorsCh or for its close for ever, and the rounds   *)
(* come to an end.  What it may do instead is empty the directory: the     *)
(* outputs of a restarted process can bear the names of its inputs.  A     *)
(* Merge of an empty directory lists it for ever: the loop ends on exactly *)
(* one entry (writer.go:60).                                               *)
MergeTerminates ==
  (mpc = "list" /\ Present # {}) ~> (mpc = "idle" \/ Present = {})

(* Corpus is implemented when its segments are the live files' contents.   *)
CorpusOfFiles == INSTANCE Corpus WITH
  blocks <- {DocsOf(file[s]) : s \in Live},
  answer <- result

ImplementsCorpus == CorpusOfFiles!Spec
=============================================================================
