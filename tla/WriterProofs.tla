---------------------------- MODULE WriterProofs ----------------------------
(***************************************************************************)
(* Theorems about Writer, for every value of its constants.                *)
(***************************************************************************)
EXTENDS Writer, FiniteSetTheorems, SequenceTheorems, TLAPS

-----------------------------------------------------------------------------
(* Facts about the operators Writer is built from.                         *)

(* The files of the directory are finitely many.                           *)
LEMMA PresentFinite ==
  ASSUME MaxSegments \in Nat
  PROVE  IsFiniteSet(Present) /\ Cardinality(Present) \in Nat
<1>1. IsFiniteSet(Segs)
  BY FS_Interval DEF Segs
<1>2. Present \subseteq Segs
  BY DEF Present
<1>. QED
  BY <1>1, <1>2, FS_Subset, FS_CardinalityType

(* A directory listing is a sequence of segments, each listed once.        *)
LEMMA ListingIsSequence ==
  ASSUME MaxSegments \in Nat, NEW l \in Listings
  PROVE  /\ l \in Seq(Segs)
         /\ Len(l) = Cardinality(Present)
         /\ \A k \in 1 .. Len(l) : l[k] \in Present
         /\ \A j, k \in 1 .. Len(l) : j # k => l[j] # l[k]
<1>. DEFINE n == Cardinality(Present)
<1>1. n \in Nat
  BY PresentFinite
<1>2. /\ l \in [1 .. n -> Present]
      /\ \A i, j \in 1 .. n : i < j => l[i] < l[j]
  BY DEF Listings
<1>3. Present \subseteq Segs /\ Segs \subseteq Nat
  BY DEF Present, Segs
<1>4. l \in Seq(Segs) /\ Len(l) = n
  <2>1. l \in [1 .. n -> Segs]
    BY <1>2, <1>3
  <2>. HIDE DEF n
  <2>2. l \in Seq(Segs)
    BY <1>1, <2>1
  <2>3. Len(l) = n
    BY <1>1, <2>1, <2>2
  <2>. QED
    BY <2>2, <2>3
<1>5. \A j, k \in 1 .. n : j # k => l[j] # l[k]
  <2>. SUFFICES ASSUME NEW j \in 1 .. n, NEW k \in 1 .. n, j # k
                PROVE  l[j] # l[k]
    OBVIOUS
  <2>1. j < k \/ k < j
    BY <1>1
  <2>2. l[j] \in Nat /\ l[k] \in Nat
    BY <1>2, <1>3
  <2>. QED
    BY <1>2, <2>1, <2>2
<1>. QED
  BY <1>1, <1>2, <1>4, <1>5

(* Each element of two sequences is an element of their concatenation.     *)
LEMMA ConcatKeepsElements ==
  ASSUME NEW S, NEW s \in Seq(S), NEW t \in Seq(S)
  PROVE  /\ s \o t \in Seq(S)
         /\ \A k \in DOMAIN s : k \in DOMAIN (s \o t) /\ (s \o t)[k] = s[k]
         /\ \A k \in DOMAIN t : \E m \in DOMAIN (s \o t) : (s \o t)[m] = t[k]
<1>1. /\ s \o t \in Seq(S)
      /\ Len(s \o t) = Len(s) + Len(t)
      /\ \A i \in 1 .. Len(s) + Len(t) :
           (s \o t)[i] = IF i <= Len(s) THEN s[i] ELSE t[i - Len(s)]
  BY ConcatProperties
<1>2. /\ Len(s) \in Nat /\ DOMAIN s = 1 .. Len(s)
      /\ Len(t) \in Nat /\ DOMAIN t = 1 .. Len(t)
      /\ DOMAIN (s \o t) = 1 .. Len(s) + Len(t)
  BY <1>1, LenProperties
<1>3. ASSUME NEW k \in DOMAIN s
      PROVE  k \in DOMAIN (s \o t) /\ (s \o t)[k] = s[k]
  BY <1>1, <1>2
<1>4. ASSUME NEW k \in DOMAIN t
      PROVE  \E m \in DOMAIN (s \o t) : (s \o t)[m] = t[k]
  <2>1. /\ Len(s) + k \in 1 .. Len(s) + Len(t)
        /\ ~(Len(s) + k <= Len(s))
        /\ (Len(s) + k) - Len(s) = k
    BY <1>2
  <2>2. (s \o t)[Len(s) + k] = t[k]
    BY <1>1, <2>1
  <2>. QED
    BY <1>2, <2>1, <2>2
<1>. QED
  BY <1>1, <1>3, <1>4

(* Merging two segments keeps the documents of both.                       *)
LEMMA MergedKeepsDocs ==
  ASSUME file \in [Segs -> File], NEW a \in Segs, NEW b \in Segs
  PROVE  /\ FullFile(Merged(a, b)) \in File
         /\ DocsOf(file[a]) \subseteq DocsOf(FullFile(Merged(a, b)))
         /\ DocsOf(file[b]) \subseteq DocsOf(FullFile(Merged(a, b)))
<1>. DEFINE s == file[a].docs  t == file[b].docs
<1>1. s \in Seq(Batches) /\ t \in Seq(Batches)
  BY DEF File
<1>2. FullFile(Merged(a, b)).docs = s \o t
  BY DEF FullFile, Merged
<1>. HIDE DEF s, t
<1>3. /\ s \o t \in Seq(Batches)
      /\ \A k \in DOMAIN s : k \in DOMAIN (s \o t) /\ (s \o t)[k] = s[k]
      /\ \A k \in DOMAIN t : \E m \in DOMAIN (s \o t) : (s \o t)[m] = t[k]
  BY <1>1, ConcatKeepsElements
<1>4. FullFile(Merged(a, b)) \in File
  BY <1>3 DEF FullFile, Merged, File, FileStates, s, t
<1>5. DocsOf(file[a]) \subseteq DocsOf(FullFile(Merged(a, b)))
  BY <1>2, <1>3 DEF DocsOf, s, t
<1>6. DocsOf(file[b]) \subseteq DocsOf(FullFile(Merged(a, b)))
  BY <1>2, <1>3 DEF DocsOf, s, t
<1>. QED
  BY <1>4, <1>5, <1>6

-----------------------------------------------------------------------------
(***************************************************************************)
(* Type correctness.                                                       *)
(***************************************************************************)
(* The control points at which a goroutine uses its two inputs.            *)
Active == {"loadA", "loadB", "create", "reserve", "write", "removeA",
           "removeB", "fail"}

(* An active goroutine belongs to a chunk of two entries of the listing of *)
(* the current round: this is what types its inputs as segments.           *)
ActiveInRound ==
  \A i \in Slots : gpc[i] \in Active => IsPair(i) /\ mpc \in {"spawn", "collect"}

(* A client inside a Batch call has a batch and a segment number.          *)
BusyClients ==
  \A c \in Clients : cpc[c] # "idle" => cbatch[c] \in Batches /\ cseg[c] \in Segs

TypeInv == TypeOK /\ ActiveInRound /\ BusyClients

(* The inputs of an active goroutine are segments.                         *)
LEMMA ActiveInputs ==
  ASSUME MaxSegments \in Nat, TypeInv, NEW i \in Slots, gpc[i] \in Active
  PROVE  /\ 2 * i - 1 \in 1 .. Len(listing)
         /\ 2 * i \in 1 .. Len(listing)
         /\ InputA(i) \in Segs
         /\ InputB(i) \in Segs
<1>1. 2 * i <= Len(listing) /\ listing \in Seq(Segs) /\ i \in 1 .. MaxSegments
  BY DEF TypeInv, TypeOK, ActiveInRound, IsPair, Slots
<1>2. 2 * i - 1 \in 1 .. Len(listing) /\ 2 * i \in 1 .. Len(listing)
  BY <1>1, LenProperties
<1>. QED
  BY <1>1, <1>2, ElementOfSeq DEF InputA, InputB

LEMMA TypeInvInit == WriterAssumption /\ Init => TypeInv
<1>. SUFFICES ASSUME WriterAssumption, Init
              PROVE  TypeInv
  OBVIOUS
<1>1. NoFile \in File
  BY DEF NoFile, File, FileStates
<1>2. TypeOK
  <2>1. /\ file \in [Segs -> File] /\ counter \in 0 .. MaxSegments
        /\ cpc \in [Clients -> ClientPCs]
        /\ cbatch \in [Clients -> Batches \union {NoBatch}]
        /\ cseg \in [Clients -> 0 .. MaxSegments]
        /\ home \in [Batches -> 0 .. MaxSegments]
    BY <1>1 DEF WriterAssumption, Init, ClientPCs
  <2>2. /\ mpc \in MainPCs /\ result \in {"none", "ok", "failed"}
        /\ listing \in Seq(Segs) /\ spawned \in Nat /\ tokens \in Nat
    BY DEF Init, MainPCs
  <2>3. /\ gpc \in [Slots -> WorkerPCs] /\ gout \in [Slots -> 0 .. MaxSegments]
        /\ errs \in Nat /\ failures \in Nat /\ faults \in Nat
    BY DEF WriterAssumption, Init, WorkerPCs
  <2>4. closed \in BOOLEAN
    BY DEF Init
  <2>. QED
    BY <2>1, <2>2, <2>3, <2>4 DEF TypeOK
<1>3. ActiveInRound /\ BusyClients
  BY DEF Init, ActiveInRound, BusyClients, Active
<1>. QED
  BY <1>2, <1>3 DEF TypeInv

LEMMA NumWorkersType ==
  ASSUME WriterAssumption
  PROVE  NumWorkers \in Nat
BY DEF WriterAssumption, NumWorkers, Least, Greatest

(* TypeOK but for its Boolean conjunct, which needs another prover.        *)
StateTypes ==
  /\ file \in [Segs -> File]
  /\ counter \in 0 .. MaxSegments
  /\ cpc \in [Clients -> ClientPCs]
  /\ cbatch \in [Clients -> Batches \union {NoBatch}]
  /\ cseg \in [Clients -> 0 .. MaxSegments]
  /\ home \in [Batches -> 0 .. MaxSegments]
  /\ mpc \in MainPCs
  /\ result \in {"none", "ok", "failed"}
  /\ listing \in Seq(Segs)
  /\ spawned \in Nat
  /\ tokens \in Nat
  /\ gpc \in [Slots -> WorkerPCs]
  /\ gout \in [Slots -> 0 .. MaxSegments]
  /\ errs \in Nat
  /\ failures \in Nat
  /\ faults \in Nat

StepInv == StateTypes /\ ActiveInRound /\ BusyClients

LEMMA FileKinds ==
  NoFile \in File /\ ShortFile \in File /\ BlankFile \in File
BY DEF NoFile, ShortFile, BlankFile, File, FileStates

LEMMA FaultCount ==
  ASSUME faults \in Nat, NoFault \/ \E kind \in FaultKinds : Inject(kind)
  PROVE  faults' \in Nat
BY DEF NoFault, Inject

LEMMA ClientSteps ==
  ASSUME WriterAssumption, StepInv, NEW c \in Clients, Client(c)
  PROVE  StepInv'
<1>. USE DEF WriterAssumption, StepInv, StateTypes, dirVars, clientVars,
             roundVars, workerVars, errVars, ClientPCs
<1>1. ASSUME NEW b \in Batches, BeginBatch(c, b)
      PROVE  StepInv'
  <2>1. StateTypes'
    BY <1>1 DEF BeginBatch
  <2>2. ActiveInRound'
    BY <1>1 DEF BeginBatch, ActiveInRound, IsPair
  <2>3. BusyClients'
    BY <1>1 DEF BeginBatch, BusyClients, Segs
  <2>. QED
    BY <2>1, <2>2, <2>3
<1>2. CASE CreateSegment(c)
  <2>1. StateTypes'
    <3>1. file' \in [Segs -> File]
      BY <1>2, FileKinds DEF CreateSegment
    <3>2. /\ cpc' \in [Clients -> ClientPCs]
          /\ cbatch' \in [Clients -> Batches \union {NoBatch}]
          /\ cseg' \in [Clients -> 0 .. MaxSegments]
      <4>1. CASE cpc' = [cpc EXCEPT ![c] = "save"] /\ UNCHANGED <<cbatch, cseg>>
        BY <4>1
      <4>2. CASE ClientDone(c)
        BY <4>2 DEF ClientDone
      <4>. QED
        BY <1>2, <4>1, <4>2 DEF CreateSegment
    <3>3. faults' \in Nat
      BY <1>2, FaultCount DEF FaultKinds, CreateSegment
    <3>. QED
      BY <1>2, <3>1, <3>2, <3>3 DEF CreateSegment
  <2>2. ActiveInRound'
    BY <1>2 DEF CreateSegment, ActiveInRound, IsPair
  <2>3. BusyClients'
    BY <1>2 DEF CreateSegment, ClientDone, BusyClients
  <2>. QED
    BY <2>1, <2>2, <2>3
<1>3. CASE SaveSegment(c)
  <2>1. cbatch[c] \in Batches /\ cseg[c] \in Segs
    BY <1>3 DEF SaveSegment, BusyClients
  <2>2. FullFile(<<cbatch[c]>>) \in File
    BY <2>1 DEF FullFile, File, FileStates
  <2>3. StateTypes'
    <3>1. file' \in [Segs -> File]
      BY <1>3, <2>2, FileKinds DEF SaveSegment
    <3>2. /\ cpc' \in [Clients -> ClientPCs]
          /\ cbatch' \in [Clients -> Batches \union {NoBatch}]
          /\ cseg' \in [Clients -> 0 .. MaxSegments]
      BY <1>3 DEF SaveSegment, ClientDone
    <3>3. home' \in [Batches -> 0 .. MaxSegments]
      BY <1>3, <2>1 DEF SaveSegment
    <3>4. faults' \in Nat
      BY <1>3, FaultCount DEF FaultKinds, SaveSegment
    <3>. QED
      BY <1>3, <3>1, <3>2, <3>3, <3>4 DEF SaveSegment
  <2>4. ActiveInRound'
    BY <1>3 DEF SaveSegment, ActiveInRound, IsPair
  <2>5. BusyClients'
    BY <1>3 DEF SaveSegment, ClientDone, BusyClients
  <2>. QED
    BY <2>3, <2>4, <2>5
<1>. QED
  BY <1>1, <1>2, <1>3 DEF Client

LEMMA MergeSteps ==
  ASSUME WriterAssumption, StepInv, CallMerge \/ Main \/ CloseErrors \/ Restart
  PROVE  StepInv'
<1>. USE DEF WriterAssumption, StepInv, StateTypes, dirVars, clientVars,
             roundVars, workerVars, errVars, MainPCs
<1>1. CASE CallMerge
  BY <1>1, NumWorkersType DEF CallMerge, ActiveInRound, BusyClients, IsPair,
                              WorkerPCs
<1>2. CASE ListDirectory
  <2>1. listing' \in Seq(Segs)
    BY <1>2, ListingIsSequence DEF ListDirectory
  <2>2. StateTypes'
    BY <1>2, <2>1 DEF ListDirectory, Return, Inject, NoFault
  <2>3. ActiveInRound'
    BY <1>2 DEF ListDirectory, ActiveInRound
  <2>4. BusyClients'
    BY <1>2 DEF ListDirectory, BusyClients
  <2>. QED
    BY <2>2, <2>3, <2>4
<1>3. CASE Spawn
  <2>1. StateTypes'
    <3>1. gpc' \in [Slots -> WorkerPCs]
      BY <1>3 DEF Spawn, WorkerPCs
    <3>2. tokens' \in Nat /\ spawned' \in Nat
      BY <1>3 DEF Spawn
    <3>. QED
      BY <1>3, <3>1, <3>2 DEF Spawn
  <2>2. ActiveInRound'
    BY <1>3 DEF Spawn, ActiveInRound, IsPair, Active
  <2>3. BusyClients'
    BY <1>3 DEF Spawn, BusyClients
  <2>. QED
    BY <2>1, <2>2, <2>3
<1>4. CASE StartCollecting \/ ReceiveError \/ CloseErrors
  <2>1. StateTypes'
    BY <1>4 DEF StartCollecting, ReceiveError, CloseErrors
  <2>2. ActiveInRound' /\ BusyClients'
    BY <1>4 DEF StartCollecting, ReceiveError, CloseErrors, ActiveInRound,
                IsPair, BusyClients
  <2>. QED
    BY <2>1, <2>2
<1>5. CASE EndRound
  <2>1. StateTypes'
    BY <1>5 DEF EndRound, Return, WorkerPCs
  <2>2. ActiveInRound' /\ BusyClients'
    BY <1>5 DEF EndRound, ActiveInRound, BusyClients, Active
  <2>. QED
    BY <2>1, <2>2
<1>6. CASE Restart
  <2>1. StateTypes'
    BY <1>6 DEF Restart, Inject, WorkerPCs, ClientPCs
  <2>2. ActiveInRound' /\ BusyClients'
    BY <1>6 DEF Restart, ActiveInRound, BusyClients, Active
  <2>. QED
    BY <2>1, <2>2
<1>. QED
  BY <1>1, <1>2, <1>3, <1>4, <1>5, <1>6 DEF Main

LEMMA WorkerSteps ==
  ASSUME WriterAssumption, StepInv, NEW i \in Slots, Worker(i)
  PROVE  StepInv'
<1>. USE DEF WriterAssumption, StepInv, StateTypes, dirVars, clientVars,
             roundVars, workerVars, errVars, WorkerPCs
<1>1. gpc[i] \in Active => IsPair(i) /\ mpc \in {"spawn", "collect"}
  BY DEF ActiveInRound
(* A step of goroutine i that moves only its own control point keeps the   *)
(* other goroutines in their round.                                        *)
<1>2. ASSUME gpc[i] \in Active, UNCHANGED <<listing, mpc>>,
             NEW label, gpc' = [gpc EXCEPT ![i] = label]
      PROVE  ActiveInRound'
  BY <1>1, <1>2 DEF ActiveInRound, IsPair
<1>3. ASSUME UNCHANGED clientVars
      PROVE  BusyClients'
  BY <1>3 DEF BusyClients
<1>4. ASSUME NEW here \in {"loadA", "loadB"}, NEW input,
             NEW next \in {"loadB", "create"}, Load(i, here, input, next)
      PROVE  StepInv'
  <2>1. StateTypes'
    <3>1. gpc' \in [Slots -> WorkerPCs]
      BY <1>4 DEF Load, Goto
    <3>2. faults' \in Nat
      BY <1>4, FaultCount DEF FaultKinds, Load
    <3>. QED
      BY <1>4, <3>1, <3>2 DEF Load
  <2>2. ActiveInRound'
    BY <1>2, <1>4 DEF Load, Goto, Active
  <2>3. BusyClients'
    BY <1>3, <1>4 DEF Load
  <2>. QED
    BY <2>1, <2>2, <2>3
<1>5. CASE CreateOutput(i)
  <2>1. StateTypes'
    <3>1. file' \in [Segs -> File]
      BY <1>5, FileKinds DEF CreateOutput
    <3>2. gpc' \in [Slots -> WorkerPCs]
      BY <1>5 DEF CreateOutput, Goto
    <3>3. counter' \in 0 .. MaxSegments /\ gout' \in [Slots -> 0 .. MaxSegments]
      BY <1>5 DEF CreateOutput
    <3>4. faults' \in Nat
      BY <1>5, FaultCount DEF FaultKinds, CreateOutput
    <3>. QED
      BY <1>5, <3>1, <3>2, <3>3, <3>4 DEF CreateOutput
  <2>2. ActiveInRound'
    BY <1>2, <1>5 DEF CreateOutput, Goto, Active
  <2>3. BusyClients'
    BY <1>3, <1>5 DEF CreateOutput
  <2>. QED
    BY <2>1, <2>2, <2>3
<1>6. CASE ReserveOutput(i)
  <2>1. StateTypes'
    <3>1. file' \in [Segs -> File]
      BY <1>6, FileKinds DEF ReserveOutput, MergeFails
    <3>2. gpc' \in [Slots -> WorkerPCs]
      BY <1>6 DEF ReserveOutput, MergeFails, Goto
    <3>3. faults' \in Nat
      BY <1>6, FaultCount DEF FaultKinds, ReserveOutput, MergeFails
    <3>. QED
      BY <1>6, <3>1, <3>2, <3>3 DEF ReserveOutput
  <2>2. ActiveInRound'
    BY <1>2, <1>6 DEF ReserveOutput, MergeFails, Goto, Active
  <2>3. BusyClients'
    BY <1>3, <1>6 DEF ReserveOutput
  <2>. QED
    BY <2>1, <2>2, <2>3
<1>7. CASE WriteOutput(i)
  <2>1. FullFile(Merged(InputA(i), InputB(i))) \in File
    <3>1. gpc[i] \in Active
      BY <1>7 DEF WriteOutput, Active
    <3>2. 2 * i - 1 \in 1 .. Len(listing) /\ 2 * i \in 1 .. Len(listing)
      BY <1>1, <3>1, LenProperties DEF IsPair, Slots
    <3>3. InputA(i) \in Segs /\ InputB(i) \in Segs
      BY <3>2, ElementOfSeq DEF InputA, InputB
    <3>. QED
      BY <3>3, MergedKeepsDocs
  <2>2. StateTypes'
    <3>1. file' \in [Segs -> File]
      BY <1>7, <2>1, FileKinds DEF WriteOutput, MergeFails
    <3>2. gpc' \in [Slots -> WorkerPCs]
      BY <1>7 DEF WriteOutput, MergeFails, Goto
    <3>3. faults' \in Nat
      BY <1>7, FaultCount DEF FaultKinds, WriteOutput, MergeFails
    <3>. QED
      BY <1>7, <3>1, <3>2, <3>3 DEF WriteOutput
  <2>3. ActiveInRound'
    BY <1>2, <1>7 DEF WriteOutput, MergeFails, Goto, Active
  <2>4. BusyClients'
    BY <1>3, <1>7 DEF WriteOutput
  <2>. QED
    BY <2>2, <2>3, <2>4
<1>8. ASSUME NEW here \in {"removeA", "removeB"}, NEW input,
             NEW next \in {"removeB", "release"}, Remove(i, here, input, next)
      PROVE  StepInv'
  <2>1. StateTypes'
    <3>1. file' \in [Segs -> File]
      BY <1>8, FileKinds DEF Remove
    <3>2. gpc' \in [Slots -> WorkerPCs]
      BY <1>8 DEF Remove, Goto
    <3>3. faults' \in Nat
      BY <1>8, FaultCount DEF FaultKinds, Remove
    <3>. QED
      BY <1>8, <3>1, <3>2, <3>3 DEF Remove
  <2>2. ActiveInRound'
    BY <1>2, <1>8 DEF Remove, Goto, Active
  <2>3. BusyClients'
    BY <1>3, <1>8 DEF Remove
  <2>. QED
    BY <2>1, <2>2, <2>3
<1>9. CASE SendError(i)
  <2>1. StateTypes'
    BY <1>9 DEF SendError, Goto
  <2>2. ActiveInRound' /\ BusyClients'
    BY <1>2, <1>3, <1>9 DEF SendError, Goto, Active
  <2>. QED
    BY <2>1, <2>2
<1>10. CASE Release(i)
  <2>1. StateTypes'
    BY <1>10 DEF Release, Goto
  <2>2. ActiveInRound' /\ BusyClients'
    BY <1>3, <1>10 DEF Release, Goto, ActiveInRound, IsPair, Active
  <2>. QED
    BY <2>1, <2>2
<1>. QED
  BY <1>4, <1>5, <1>6, <1>7, <1>8, <1>9, <1>10
  DEF Worker, LoadA, LoadB, RemoveA, RemoveB

(* Every action keeps the types and the two facts they rest on.            *)
LEMMA TypeInvNext ==
  ASSUME WriterAssumption, TypeInv, [Next]_vars
  PROVE  TypeInv'
<1>1. StepInv /\ closed \in BOOLEAN
  BY DEF TypeInv, TypeOK, StepInv, StateTypes
<1>2. StepInv'
  <2>1. CASE UNCHANGED vars
    BY <1>1, <2>1 DEF vars, dirVars, clientVars, roundVars, workerVars, errVars,
                      StepInv, StateTypes, ActiveInRound, IsPair, BusyClients
  <2>. QED
    BY <1>1, <2>1, ClientSteps, MergeSteps, WorkerSteps DEF Next
<1>3. closed' \in BOOLEAN
  BY <1>1 DEF Next, vars, Client, BeginBatch, CreateSegment, SaveSegment,
     CallMerge, Main, ListDirectory, Spawn, StartCollecting, ReceiveError,
     EndRound, CloseErrors, Worker, LoadA, LoadB, Load, CreateOutput,
     ReserveOutput, WriteOutput, RemoveA, RemoveB, Remove, SendError,
     Release, Restart, errVars
<1>. QED
  BY <1>2, <1>3 DEF TypeInv, TypeOK, StepInv, StateTypes

(* The Writer's state has its types in every behaviour, whatever fails and *)
(* however often the process is restarted.                                 *)
THEOREM TypeCorrect == Spec => []TypeOK
<1>1. Init => TypeInv
  BY TypeInvInit, WriterAssumption
<1>2. TypeInv /\ [Next]_vars => TypeInv'
  BY TypeInvNext, WriterAssumption
<1>3. TypeInv => TypeOK
  BY DEF TypeInv
<1>. QED
  BY <1>1, <1>2, <1>3, PTL DEF Spec

-----------------------------------------------------------------------------
(***************************************************************************)
(* No acknowledged document is lost.                                       *)
(*                                                                         *)
(* NothingLost is not inductive: that a removal is safe depends on what the*)
(* goroutine's output holds, and that nothing else touches that file.      *)
(* SafetyInv adds who owns which segment number, and RemovalsCovered.      *)
(***************************************************************************)
LEMMA SafetyInit == WriterAssumption /\ Init => SafetyInv
<1>. SUFFICES ASSUME WriterAssumption, Init
              PROVE  SafetyInv
  OBVIOUS
<1>1. Len(listing) = 0 /\ Present = {} /\ Acknowledged = {}
  BY DEF Init, Present, NoFile, Acknowledged
<1>. QED
  BY <1>1 DEF Init, SafetyInv, NamesCounted, ClientOwnsSegment,
     NoBatchDuringMerge, ListingDistinct, OutputsOwned, OutputOwned,
     HasOutput, RemovalsCovered, RemovalCovered, NothingLost

(* Writing a file that is not complete loses nothing.                      *)
LEMMA OverwriteIncomplete ==
  ASSUME file \in [Segs -> File], NothingLost, UNCHANGED home,
         NEW x \in Segs, file[x].st # "full",
         NEW f, file' = [file EXCEPT ![x] = f]
  PROVE  NothingLost'
<1>. SUFFICES ASSUME NEW b \in Acknowledged
              PROVE  \E s \in Full' : b \in DocsOf(file'[s])
  BY DEF NothingLost, Acknowledged
<1>1. PICK s \in Full : b \in DocsOf(file[s])
  BY DEF NothingLost
<1>2. s # x /\ s \in Segs
  BY DEF Full
<1>3. file'[s] = file[s]
  BY <1>2
<1>. QED
  BY <1>1, <1>2, <1>3 DEF Full

(* Removing a file whose documents are in another one loses nothing.       *)
LEMMA RemoveCovered ==
  ASSUME file \in [Segs -> File], NothingLost, UNCHANGED home,
         NEW x \in Segs, NEW o \in Segs, o # x, file[o].st = "full",
         DocsOf(file[x]) \subseteq DocsOf(file[o]),
         file' = [file EXCEPT ![x] = NoFile]
  PROVE  NothingLost'
<1>. SUFFICES ASSUME NEW b \in Acknowledged
              PROVE  \E s \in Full' : b \in DocsOf(file'[s])
  BY DEF NothingLost, Acknowledged
<1>1. PICK s \in Full : b \in DocsOf(file[s])
  BY DEF NothingLost
<1>2. CASE s = x
  BY <1>1, <1>2 DEF Full
<1>3. CASE s # x
  BY <1>1, <1>3 DEF Full
<1>. QED
  BY <1>2, <1>3

LEMMA SafetyClient ==
  ASSUME WriterAssumption, TypeInv, SafetyInv, NEW c \in Clients, Client(c)
  PROVE  SafetyInv'
<1>. USE DEF WriterAssumption, TypeInv, SafetyInv, dirVars, clientVars,
             roundVars, workerVars, errVars
<1>1. /\ mpc = "idle"
      /\ UNCHANGED <<mpc, listing, gpc, gout>>
  BY DEF Client, BeginBatch, CreateSegment, SaveSegment, NoBatchDuringMerge
<1>2. \A i \in Slots : gpc[i] \notin HasOutput
  BY <1>1 DEF ActiveInRound, Active, HasOutput
<1>3. OutputsOwned' /\ RemovalsCovered'
  BY <1>1, <1>2
  DEF OutputsOwned, OutputOwned, RemovalsCovered, RemovalCovered,
      HasOutput
<1>4. NoBatchDuringMerge'
  BY <1>1 DEF NoBatchDuringMerge
<1>5. counter \in Nat /\ counter' \in Nat /\ counter <= counter'
  BY DEF Client, BeginBatch, CreateSegment, SaveSegment, TypeOK
<1>6. ListingDistinct'
  <2>1. listing \in Seq(Segs) /\ Segs \subseteq Nat
    BY DEF TypeOK, Segs
  <2>2. \A k \in 1 .. Len(listing) : listing[k] \in Nat
    BY <2>1, ElementOfSeq
  <2>. QED
    BY <1>1, <1>5, <2>2 DEF ListingDistinct
<1>7. ASSUME NEW b \in Batches, BeginBatch(c, b)
      PROVE  NamesCounted' /\ ClientOwnsSegment' /\ NothingLost'
  <2>1. counter + 1 \in Segs /\ file[counter + 1].st = "none"
    BY <1>7 DEF BeginBatch, TypeOK, Segs, NamesCounted, Present
  <2>2. NamesCounted'
    BY <1>7 DEF BeginBatch, NamesCounted, Present, Segs, TypeOK
  <2>3. ClientOwnsSegment'
    <3>1. /\ counter' = counter + 1 /\ cseg' = [cseg EXCEPT ![c] = counter + 1]
          /\ cpc' = [cpc EXCEPT ![c] = "create"] /\ file' = file
      BY <1>7 DEF BeginBatch
    <3>2. ASSUME NEW d \in Clients, cpc'[d] # "idle"
          PROVE  /\ cseg'[d] <= counter'
                 /\ file'[cseg'[d]].st \in {"none", "short"}
      <4>1. CASE d = c
        BY <2>1, <3>1, <4>1 DEF TypeOK
      <4>2. CASE d # c
        BY <3>1, <3>2, <4>2 DEF ClientOwnsSegment, TypeOK
      <4>. QED
        BY <4>1, <4>2
    <3>3. ASSUME NEW d \in Clients, d # c, cpc'[d] # "idle"
          PROVE  cseg'[d] # cseg'[c]
      <4>1. cseg[d] <= counter /\ cseg'[d] = cseg[d] /\ cseg'[c] = counter + 1
        BY <3>1, <3>3 DEF ClientOwnsSegment, TypeOK
      <4>2. cseg[d] \in Nat /\ counter \in Nat
        BY DEF TypeOK
      <4>. QED
        BY <4>1, <4>2
    <3>4. ASSUME NEW d \in Clients, NEW e \in Clients, d # e, d # c, e # c,
                 cpc'[d] # "idle", cpc'[e] # "idle"
          PROVE  cseg'[d] # cseg'[e]
      BY <3>1, <3>4 DEF ClientOwnsSegment, TypeOK
    <3>. QED
      BY <3>2, <3>3, <3>4 DEF ClientOwnsSegment
  <2>4. NothingLost'
    BY <1>7 DEF BeginBatch, NothingLost, Acknowledged, Full
  <2>. QED
    BY <2>2, <2>3, <2>4
<1>8. ASSUME CreateSegment(c)
      PROVE  NamesCounted' /\ ClientOwnsSegment' /\ NothingLost'
  <2>1. cseg[c] \in Segs /\ file[cseg[c]].st # "full" /\ cseg[c] <= counter
    BY <1>8 DEF CreateSegment, BusyClients, ClientOwnsSegment
  <2>2. NamesCounted'
    BY <1>8, <2>1 DEF CreateSegment, NamesCounted, Present, TypeOK
  <2>3. ClientOwnsSegment'
    <3>1. CASE /\ file' = [file EXCEPT ![cseg[c]] = ShortFile]
               /\ cpc' = [cpc EXCEPT ![c] = "save"]
               /\ UNCHANGED <<cseg, counter>>
      BY <1>8, <2>1, <3>1 DEF CreateSegment, ClientOwnsSegment, TypeOK, ShortFile
    <3>2. CASE ClientDone(c) /\ UNCHANGED <<file, counter>>
      BY <3>2 DEF ClientDone, ClientOwnsSegment, TypeOK
    <3>. QED
      BY <1>8, <3>1, <3>2 DEF CreateSegment
  <2>4. NothingLost'
    <3>1. CASE file' = [file EXCEPT ![cseg[c]] = ShortFile]
      BY <1>8, <2>1, <3>1, OverwriteIncomplete DEF CreateSegment, TypeOK
    <3>2. CASE UNCHANGED file
      BY <1>8, <3>2 DEF CreateSegment, NothingLost, Acknowledged, Full
    <3>. QED
      BY <1>8, <3>1, <3>2 DEF CreateSegment
  <2>. QED
    BY <2>2, <2>3, <2>4
<1>9. ASSUME SaveSegment(c)
      PROVE  NamesCounted' /\ ClientOwnsSegment' /\ NothingLost'
  <2>1. /\ cseg[c] \in Segs /\ file[cseg[c]].st # "full" /\ cseg[c] <= counter
        /\ cbatch[c] \in Batches
    BY <1>9 DEF SaveSegment, BusyClients, ClientOwnsSegment
  <2>2. NamesCounted'
    BY <1>9, <2>1 DEF SaveSegment, NamesCounted, Present, TypeOK
  <2>3. ClientOwnsSegment'
    BY <1>9, <2>1 DEF SaveSegment, ClientDone, ClientOwnsSegment, BusyClients,
                      TypeOK
  <2>4. NothingLost'
    <3>1. CASE /\ file' = [file EXCEPT ![cseg[c]] = FullFile(<<cbatch[c]>>)]
               /\ home' = [home EXCEPT ![cbatch[c]] = cseg[c]]
      <4>. SUFFICES ASSUME NEW b \in Acknowledged'
                    PROVE  \E s \in Full' : b \in DocsOf(file'[s])
        BY DEF NothingLost
      <4>1. CASE b = cbatch[c]
        <5>1. file'[cseg[c]] = FullFile(<<b>>)
          BY <2>1, <3>1, <4>1 DEF TypeOK
        <5>2. b \in DocsOf(FullFile(<<b>>)) /\ FullFile(<<b>>).st = "full"
          BY DEF DocsOf, FullFile
        <5>. QED
          BY <2>1, <5>1, <5>2 DEF Full
      <4>2. CASE b # cbatch[c]
        <5>1. b \in Acknowledged
          BY <3>1, <4>2 DEF Acknowledged, TypeOK
        <5>2. PICK s \in Full : b \in DocsOf(file[s])
          BY <5>1 DEF NothingLost
        <5>3. s # cseg[c] /\ s \in Segs
          BY <2>1 DEF Full
        <5>4. file'[s] = file[s]
          BY <3>1, <5>3 DEF TypeOK
        <5>. QED
          BY <5>2, <5>3, <5>4 DEF Full
      <4>. QED
        BY <4>1, <4>2
    <3>2. CASE file' = [file EXCEPT ![cseg[c]] = NoFile] /\ UNCHANGED home
      BY <2>1, <3>2, OverwriteIncomplete DEF TypeOK
    <3>. QED
      BY <1>9, <3>1, <3>2 DEF SaveSegment
  <2>. QED
    BY <2>2, <2>3, <2>4
<1>10. NamesCounted' /\ ClientOwnsSegment' /\ NothingLost'
  BY <1>7, <1>8, <1>9 DEF Client
<1>. QED
  BY <1>3, <1>4, <1>6, <1>10

(* The steps of the calling goroutine and of the closer touch no file.     *)
LEMMA SafetyMerge ==
  ASSUME WriterAssumption, TypeInv, SafetyInv, CallMerge \/ Main \/ CloseErrors
  PROVE  SafetyInv'
<1>. USE DEF WriterAssumption, TypeInv, SafetyInv, dirVars, clientVars,
             roundVars, workerVars, errVars
<1>1. UNCHANGED <<file, counter, cpc, cbatch, cseg, home>>
  BY DEF CallMerge, Main, ListDirectory, Spawn, StartCollecting, ReceiveError,
         EndRound, CloseErrors
<1>2. NamesCounted' /\ ClientOwnsSegment' /\ NothingLost'
  BY <1>1 DEF NamesCounted, Present, ClientOwnsSegment, NothingLost,
              Acknowledged, Full
<1>3. NoBatchDuringMerge'
  BY <1>1 DEF NoBatchDuringMerge, CallMerge, Main, ListDirectory, Spawn,
     StartCollecting, ReceiveError, EndRound, CloseErrors
<1>4. ListingDistinct'
  <2>1. CASE ListDirectory
    <3>1. CASE listing' \in Listings
      BY <1>1, <3>1, ListingIsSequence DEF ListingDistinct, NamesCounted
    <3>2. CASE UNCHANGED listing
      BY <1>1, <3>2 DEF ListingDistinct
    <3>. QED
      BY <2>1, <3>1, <3>2 DEF ListDirectory
  <2>2. CASE EndRound
    <3>1. Len(listing') = 0
      BY <2>2 DEF EndRound
    <3>. QED
      BY <3>1 DEF ListingDistinct
  <2>3. CASE UNCHANGED listing
    BY <1>1, <2>3 DEF ListingDistinct
  <2>. QED
    BY <2>1, <2>2, <2>3 DEF CallMerge, Main, Spawn, StartCollecting,
       ReceiveError, CloseErrors
<1>5. OutputsOwned' /\ RemovalsCovered'
  <2>1. CASE ListDirectory
    <3>1. \A i \in Slots : gpc'[i] \notin HasOutput
      BY <2>1 DEF ListDirectory, ActiveInRound, Active, HasOutput
    <3>. QED
      BY <3>1
      DEF OutputsOwned, OutputOwned, RemovalsCovered, RemovalCovered,
          HasOutput
  <2>2. CASE EndRound
    <3>1. \A i \in Slots : gpc'[i] \notin HasOutput
      BY <2>2 DEF EndRound, HasOutput
    <3>. QED
      BY <3>1
      DEF OutputsOwned, OutputOwned, RemovalsCovered, RemovalCovered,
          HasOutput
  <2>3. CASE Spawn
    <3>1. \A i \in Slots : gpc'[i] \in HasOutput => gpc'[i] = gpc[i]
      BY <2>3 DEF Spawn, TypeOK, HasOutput
    <3>2. UNCHANGED <<listing, gout, file, counter>>
      BY <2>3 DEF Spawn
    <3>3. OutputsOwned'
      BY <3>1, <3>2 DEF OutputsOwned, OutputOwned
    <3>4. RemovalsCovered'
      BY <3>1, <3>2 DEF RemovalsCovered, RemovalCovered, HasOutput,
                         InputA, InputB
    <3>. QED
      BY <3>3, <3>4
  <2>4. CASE UNCHANGED <<listing, gpc, gout>>
    BY <1>1, <2>4
  DEF OutputsOwned, OutputOwned, RemovalsCovered, RemovalCovered,
      InputA, InputB
  <2>. QED
    BY <2>1, <2>2, <2>3, <2>4 DEF CallMerge, Main, StartCollecting,
       ReceiveError, CloseErrors
<1>. QED
  BY <1>2, <1>3, <1>4, <1>5

(* Two different goroutines have four different inputs.                    *)
LEMMA InputsDistinct ==
  ASSUME WriterAssumption, TypeInv, ListingDistinct,
         NEW i \in Slots, gpc[i] \in Active,
         NEW j \in Slots, gpc[j] \in Active
  PROVE  /\ InputA(i) # InputB(j)
         /\ i # j => InputA(i) # InputA(j) /\ InputB(i) # InputB(j)
<1>1. /\ 2 * i - 1 \in 1 .. Len(listing) /\ 2 * i \in 1 .. Len(listing)
      /\ 2 * j - 1 \in 1 .. Len(listing) /\ 2 * j \in 1 .. Len(listing)
  BY ActiveInputs DEF WriterAssumption
<1>2. i \in Nat /\ j \in Nat
  BY DEF Slots, WriterAssumption
<1>3. 2 * i - 1 # 2 * j /\ (i # j => 2 * i - 1 # 2 * j - 1 /\ 2 * i # 2 * j)
  BY <1>2
<1>. QED
  BY <1>1, <1>3 DEF ListingDistinct, InputA, InputB

(* What a goroutine with an output knows of it and of its inputs.          *)
LEMMA OutputFacts ==
  ASSUME WriterAssumption, TypeInv, SafetyInv, NEW i \in Slots,
         gpc[i] \in HasOutput
  PROVE  /\ gout[i] \in Segs /\ gout[i] <= counter
         /\ InputA(i) \in Segs /\ InputB(i) \in Segs
         /\ InputA(i) # gout[i] /\ InputB(i) # gout[i]
         /\ InputA(i) <= counter /\ InputB(i) <= counter
<1>1. gpc[i] \in Active
  BY DEF HasOutput, Active
<1>2. /\ 2 * i - 1 \in 1 .. Len(listing) /\ 2 * i \in 1 .. Len(listing)
      /\ InputA(i) \in Segs /\ InputB(i) \in Segs
  BY <1>1, ActiveInputs DEF WriterAssumption
<1>. QED
  BY <1>2 DEF SafetyInv, OutputsOwned, OutputOwned, ListingDistinct, InputA, InputB

(* A write to a file that goroutine j neither reads nor writes leaves what *)
(* is known of j as it was.                                                *)
LEMMA OthersKept ==
  ASSUME WriterAssumption, TypeInv, SafetyInv,
         NEW x \in Segs, \A s \in Segs \ {x} : file'[s] = file[s],
         counter' \in Nat, counter <= counter', UNCHANGED listing,
         NEW j \in Slots, gpc'[j] = gpc[j], gout'[j] = gout[j],
         gpc[j] \in HasOutput => x \notin {gout[j], InputA(j), InputB(j)}
  PROVE  OutputOwned(j)' /\ RemovalCovered(j)'
<1>1. CASE gpc[j] \in HasOutput
  <2>1. /\ gout[j] \in Segs /\ gout[j] <= counter
        /\ InputA(j) \in Segs /\ InputB(j) \in Segs
    BY <1>1, OutputFacts
  <2>2. /\ file'[gout[j]] = file[gout[j]]
        /\ file'[InputA(j)] = file[InputA(j)]
        /\ file'[InputB(j)] = file[InputB(j)]
    BY <1>1, <2>1 DEF TypeInv, TypeOK
  <2>3. counter \in Nat /\ gout[j] \in Nat
    BY <2>1 DEF TypeInv, TypeOK, Segs
  <2>4. gout[j] <= counter'
    BY <2>1, <2>3
  <2>5. OutputOwned(j) /\ RemovalCovered(j)
    BY DEF SafetyInv, OutputsOwned, RemovalsCovered
  <2>6. OutputOwned(j)'
    BY <2>1, <2>2, <2>4, <2>5 DEF OutputOwned
  <2>7. RemovalCovered(j)'
    BY <2>2, <2>5 DEF RemovalCovered, InputA, InputB
  <2>. QED
    BY <2>6, <2>7
<1>2. CASE gpc[j] \notin HasOutput
  BY <1>2 DEF OutputOwned, RemovalCovered, HasOutput
<1>. QED
  BY <1>1, <1>2

(* A step that writes no file and moves goroutine i to a point where it has*)
(* no output keeps SafetyInv: the loads, the failures, the end.            *)
LEMMA QuietStep ==
  ASSUME WriterAssumption, TypeInv, SafetyInv, NEW i \in Slots,
         gpc'[i] \notin HasOutput,
         \A j \in Slots \ {i} : gpc'[j] = gpc[j] /\ gout'[j] = gout[j],
         counter' \in Nat, counter <= counter',
         UNCHANGED <<file, clientVars, mpc, listing>>
  PROVE  SafetyInv'
<1>. USE DEF clientVars
<1>1. counter \in Nat /\ (\A s \in Segs : s \in Nat) /\ listing \in Seq(Segs)
      /\ cseg \in [Clients -> Nat]
  BY DEF TypeInv, TypeOK, Segs
<1>2. NamesCounted'
  BY <1>1 DEF SafetyInv, NamesCounted, Present
<1>3. ClientOwnsSegment'
  BY <1>1 DEF SafetyInv, ClientOwnsSegment
<1>4. NoBatchDuringMerge' /\ NothingLost'
  BY DEF SafetyInv, NoBatchDuringMerge, NothingLost, Acknowledged, Full
<1>5. ListingDistinct'
  <2>1. \A k \in 1 .. Len(listing) : listing[k] \in Nat
    BY <1>1, ElementOfSeq
  <2>. QED
    BY <1>1, <2>1 DEF SafetyInv, ListingDistinct
<1>6. \A j \in Slots : gpc'[j] \in HasOutput =>
        j # i /\ gpc[j] = gpc'[j] /\ gout'[j] = gout[j]
  BY DEF TypeInv, TypeOK
<1>7. OutputsOwned'
  <2>1. \A j \in Slots : OutputOwned(j)'
    <3>. SUFFICES ASSUME NEW j \in Slots, gpc'[j] \in HasOutput
                  PROVE  OutputOwned(j)'
      BY DEF OutputOwned
    <3>1. gpc[j] = gpc'[j] /\ gout'[j] = gout[j] /\ gpc[j] \in HasOutput
      BY <1>6
    <3>2. OutputOwned(j)
      BY DEF SafetyInv, OutputsOwned
    <3>3. gout[j] \in Segs /\ gout[j] <= counter
      BY <3>1, <3>2 DEF OutputOwned
    <3>4. gout[j] <= counter'
      BY <3>3, <1>1
    <3>. QED
      BY <3>1, <3>2, <3>3, <3>4 DEF OutputOwned
  <2>2. \A j, k \in Slots :
           j # k /\ gpc'[j] \in HasOutput /\ gpc'[k] \in HasOutput =>
             gout'[j] # gout'[k]
    BY <1>6 DEF SafetyInv, OutputsOwned
  <2>. QED
    BY <2>1, <2>2 DEF OutputsOwned
<1>8. RemovalsCovered'
  BY <1>6 DEF SafetyInv, RemovalsCovered, RemovalCovered, HasOutput, InputA,
              InputB
<1>. QED
  BY <1>2, <1>3, <1>4, <1>5, <1>7, <1>8 DEF SafetyInv

(* A goroutine's write to one segment that no client and no other goroutine*)
(* uses keeps everything but what concerns the goroutine itself.           *)
LEMMA OwnWrite ==
  ASSUME WriterAssumption, TypeInv, SafetyInv, NEW i \in Slots,
         gpc[i] \in Active,
         NEW x \in Segs, \A s \in Segs \ {x} : file'[s] = file[s],
         \A j \in Slots \ {i} : gpc'[j] = gpc[j] /\ gout'[j] = gout[j],
         counter' \in Nat, counter <= counter', x <= counter',
         UNCHANGED <<clientVars, mpc, listing>>,
         \A j \in Slots \ {i} : gpc[j] \in HasOutput =>
            x \notin {gout[j], InputA(j), InputB(j)},
         OutputOwned(i)', RemovalCovered(i)',
         \A j \in Slots \ {i} :
            gpc'[i] \in HasOutput /\ gpc[j] \in HasOutput => gout[j] # gout'[i],
         NothingLost'
  PROVE  SafetyInv'
<1>. USE DEF clientVars
<1>1. counter \in Nat /\ (\A s \in Segs : s \in Nat) /\ listing \in Seq(Segs)
  BY DEF TypeInv, TypeOK, Segs
<1>2. NamesCounted'
  <2>. SUFFICES ASSUME NEW s \in Segs, file'[s].st # "none"
                PROVE  s <= counter'
    BY DEF NamesCounted, Present
  <2>1. CASE s = x
    BY <2>1
  <2>2. CASE s # x
    <3>1. s \in Present
      BY <2>2 DEF Present
    <3>2. s <= counter
      BY <3>1 DEF SafetyInv, NamesCounted
    <3>. QED
      BY <3>2, <1>1
  <2>. QED
    BY <2>1, <2>2
<1>3. \A c \in Clients : cpc[c] = "idle"
  BY DEF TypeInv, ActiveInRound, SafetyInv, NoBatchDuringMerge
<1>4. ClientOwnsSegment' /\ NoBatchDuringMerge'
  BY <1>3 DEF ClientOwnsSegment, NoBatchDuringMerge
<1>5. ListingDistinct'
  <2>1. \A k \in 1 .. Len(listing) : listing[k] \in Nat
    BY <1>1, ElementOfSeq
  <2>. QED
    BY <1>1, <2>1 DEF SafetyInv, ListingDistinct
<1>6. \A j \in Slots \ {i} : OutputOwned(j)' /\ RemovalCovered(j)'
  BY OthersKept
<1>7. \A j \in Slots : OutputOwned(j)' /\ RemovalCovered(j)'
  BY <1>6
<1>8. \A j, k \in Slots :
         j # k /\ gpc'[j] \in HasOutput /\ gpc'[k] \in HasOutput =>
           gout'[j] # gout'[k]
  <2>. SUFFICES ASSUME NEW j \in Slots, NEW k \in Slots, j # k,
                       gpc'[j] \in HasOutput, gpc'[k] \in HasOutput
                PROVE  gout'[j] # gout'[k]
    OBVIOUS
  <2>1. CASE j # i /\ k # i
    BY <2>1 DEF SafetyInv, OutputsOwned
  <2>2. CASE j = i
    BY <2>2
  <2>3. CASE k = i
    BY <2>3
  <2>. QED
    BY <2>1, <2>2, <2>3
<1>9. OutputsOwned'
  BY <1>7, <1>8 DEF OutputsOwned
<1>10. RemovalsCovered'
  BY <1>7 DEF RemovalsCovered
<1>. QED
  BY <1>2, <1>4, <1>5, <1>9, <1>10 DEF SafetyInv

LEMMA SafetyWorker ==
  ASSUME WriterAssumption, "flush" \notin Faults,
         TypeInv, SafetyInv, NEW i \in Slots, Worker(i)
  PROVE  SafetyInv'
<1>. USE DEF dirVars
<1>0. counter \in Nat /\ file \in [Segs -> File] /\ gpc \in [Slots -> WorkerPCs]
      /\ gout \in [Slots -> 0 .. MaxSegments]
  BY DEF TypeInv, TypeOK, WriterAssumption
(* A segment that goroutine i has for itself is not used by another.       *)
<1>1. ASSUME gpc[i] \in HasOutput, NEW j \in Slots \ {i}, gpc[j] \in HasOutput
      PROVE  gout[i] \notin {gout[j], InputA(j), InputB(j)}
  <2>1. gpc[j] \in Active
    BY <1>1 DEF HasOutput, Active
  <2>2. 2 * j - 1 \in 1 .. Len(listing) /\ 2 * j \in 1 .. Len(listing)
    BY <2>1, ActiveInputs DEF WriterAssumption
  <2>. QED
    BY <1>1, <2>2 DEF SafetyInv, OutputsOwned, OutputOwned, InputA, InputB
<1>2. ASSUME gpc[i] \in HasOutput
      PROVE  gout[i] \in Segs /\ gout[i] <= counter
  BY <1>2, OutputFacts
<1>3. CASE LoadA(i) \/ LoadB(i) \/ SendError(i) \/ Release(i)
  BY <1>0, <1>3, QuietStep DEF LoadA, LoadB, Load, SendError, Release, Goto,
     HasOutput, errVars, roundVars
<1>4. CASE CreateOutput(i)
  <2>. DEFINE o == counter + 1
  <2>1. /\ o \in Segs /\ counter' = o /\ gout' = [gout EXCEPT ![i] = o]
        /\ file[o].st = "none" /\ gpc[i] \in Active
        /\ UNCHANGED <<clientVars, mpc, listing>>
    BY <1>0, <1>4 DEF CreateOutput, Segs, SafetyInv, NamesCounted, Present,
                      Active, roundVars
  <2>2. \A j \in Slots \ {i} : gpc[j] \in HasOutput =>
          o \notin {gout[j], InputA(j), InputB(j)}
    <3>. SUFFICES ASSUME NEW j \in Slots \ {i}, gpc[j] \in HasOutput
                  PROVE  o \notin {gout[j], InputA(j), InputB(j)}
      OBVIOUS
    <3>1. /\ gout[j] <= counter /\ InputA(j) <= counter /\ InputB(j) <= counter
          /\ gout[j] \in Nat /\ InputA(j) \in Nat /\ InputB(j) \in Nat
      BY OutputFacts DEF Segs
    <3>. QED
      BY <1>0, <3>1
  <2>3. CASE /\ file' = [file EXCEPT ![o] = ShortFile]
             /\ Goto(i, "reserve")
    <3>1. NothingLost'
      BY <1>0, <2>1, <2>3, OverwriteIncomplete DEF SafetyInv, clientVars
    <3>2. \A k \in 1 .. Len(listing) : listing[k] # o
      <4>1. \A k \in 1 .. Len(listing) : listing[k] \in Nat /\ listing[k] <= counter
        BY ElementOfSeq DEF TypeInv, TypeOK, Segs, SafetyInv, ListingDistinct
      <4>. QED
        BY <1>0, <4>1
    <3>3. gpc'[i] = "reserve" /\ gout'[i] = o /\ file'[o].st = "short"
      BY <1>0, <2>1, <2>3 DEF Goto, ShortFile
    <3>4. OutputOwned(i)' /\ RemovalCovered(i)'
      BY <1>0, <2>1, <3>2, <3>3 DEF OutputOwned, RemovalCovered
    <3>5. \A j \in Slots \ {i} : gout'[j] = gout[j]
      BY <1>0, <2>1
    <3>. HIDE DEF o
    <3>. QED
      BY <1>0, <2>1, <2>2, <2>3, <3>1, <3>3, <3>4, <3>5, OwnWrite
      DEF Goto, o
  <2>4. CASE UNCHANGED file /\ Goto(i, "fail")
    BY <1>0, <2>1, <2>4, QuietStep DEF Goto, HasOutput
  <2>. QED
    BY <1>4, <2>3, <2>4 DEF CreateOutput
(* MergeFails: the incomplete output is removed.                           *)
<1>5. ASSUME gpc[i] \in {"reserve", "write"}, MergeFails(i),
             UNCHANGED <<counter, clientVars, mpc, listing, gout>>
      PROVE  SafetyInv'
  <2>1. gpc[i] \in HasOutput /\ gpc[i] \in Active
    BY <1>5 DEF HasOutput, Active
  <2>2. file[gout[i]].st # "full"
    BY <1>5 DEF SafetyInv, OutputsOwned, OutputOwned, HasOutput
  <2>3. file' = [file EXCEPT ![gout[i]] = NoFile] /\ gpc' = [gpc EXCEPT ![i] = "fail"]
    BY <1>5 DEF MergeFails, Goto
  <2>4. NothingLost'
    BY <1>0, <1>2, <1>5, <2>1, <2>2, <2>3, OverwriteIncomplete
    DEF SafetyInv, clientVars
  <2>5. OutputOwned(i)' /\ RemovalCovered(i)'
    BY <1>0, <2>3 DEF OutputOwned, RemovalCovered, HasOutput
  <2>. QED
    BY <1>0, <1>1, <1>2, <1>5, <2>1, <2>3, <2>4, <2>5, OwnWrite DEF HasOutput
<1>6. CASE ReserveOutput(i)
  <2>1. /\ gpc[i] = "reserve" /\ gpc[i] \in HasOutput /\ gpc[i] \in Active
        /\ UNCHANGED <<counter, clientVars, mpc, listing, gout>>
    BY <1>6 DEF ReserveOutput, HasOutput, Active, roundVars
  <2>2. CASE /\ file' = [file EXCEPT ![gout[i]] = BlankFile]
             /\ Goto(i, "write")
    <3>1. file[gout[i]].st # "full"
      BY <2>1 DEF SafetyInv, OutputsOwned, OutputOwned
    <3>2. NothingLost'
      BY <1>0, <1>2, <2>1, <2>2, <3>1, OverwriteIncomplete
      DEF SafetyInv, clientVars
    <3>3. gpc' = [gpc EXCEPT ![i] = "write"] /\ gpc'[i] = "write"
      BY <1>0, <2>2 DEF Goto
    <3>4. file'[gout[i]].st = "blank"
      BY <1>0, <1>2, <2>1, <2>2 DEF BlankFile
    <3>5. OutputOwned(i)' /\ RemovalCovered(i)'
      BY <2>1, <3>3, <3>4 DEF SafetyInv, OutputsOwned, OutputOwned, RemovalCovered
    <3>6. \A j \in Slots \ {i} : gpc[j] \in HasOutput => gout[j] # gout[i]
      BY <1>1, <2>1
    <3>. QED
      BY <1>0, <1>1, <1>2, <2>1, <2>2, <3>2, <3>3, <3>5, <3>6, OwnWrite
  <2>. QED
    BY <1>5, <1>6, <2>1, <2>2 DEF ReserveOutput
<1>7. CASE WriteOutput(i)
  <2>1. /\ gpc[i] = "write" /\ gpc[i] \in HasOutput /\ gpc[i] \in Active
        /\ UNCHANGED <<counter, clientVars, mpc, listing, gout>>
    BY <1>7 DEF WriteOutput, HasOutput, Active, roundVars
  <2>. DEFINE m == FullFile(Merged(InputA(i), InputB(i)))
  <2>2. /\ InputA(i) \in Segs /\ InputB(i) \in Segs
        /\ InputA(i) # gout[i] /\ InputB(i) # gout[i]
    BY <2>1, OutputFacts
  <2>3. /\ DocsOf(file[InputA(i)]) \subseteq DocsOf(m)
        /\ DocsOf(file[InputB(i)]) \subseteq DocsOf(m)
        /\ m.st = "full"
    BY <1>0, <2>2, MergedKeepsDocs DEF FullFile
  <2>4. CASE /\ file' = [file EXCEPT ![gout[i]] = m]
             /\ Goto(i, "removeA")
    <3>1. file[gout[i]].st # "full"
      BY <2>1 DEF SafetyInv, OutputsOwned, OutputOwned
    <3>2. NothingLost'
      BY <1>0, <1>2, <2>1, <2>4, <3>1, OverwriteIncomplete
      DEF SafetyInv, clientVars
    <3>3. gpc' = [gpc EXCEPT ![i] = "removeA"] /\ gpc'[i] = "removeA"
      BY <1>0, <2>4 DEF Goto
    <3>4. /\ file'[gout[i]] = m
          /\ file'[InputA(i)] = file[InputA(i)]
          /\ file'[InputB(i)] = file[InputB(i)]
      BY <1>0, <1>2, <2>1, <2>2, <2>4
    <3>. HIDE DEF m
    <3>5. OutputOwned(i)'
      BY <2>1, <2>3, <3>3, <3>4 DEF SafetyInv, OutputsOwned, OutputOwned
    <3>6. RemovalCovered(i)'
      BY <2>1, <2>3, <3>4 DEF RemovalCovered, InputA, InputB
    <3>7. \A j \in Slots \ {i} : gpc[j] \in HasOutput => gout[j] # gout[i]
      BY <1>1, <2>1
    <3>. QED
      BY <1>0, <1>1, <1>2, <2>1, <2>4, <3>2, <3>3, <3>5, <3>6, <3>7, OwnWrite
  <2>. QED
    BY <1>5, <1>7, <2>1, <2>4 DEF WriteOutput, Inject
<1>8. CASE RemoveA(i)
  <2>1. /\ gpc[i] = "removeA" /\ gpc[i] \in HasOutput /\ gpc[i] \in Active
        /\ UNCHANGED <<counter, clientVars, mpc, listing, gout>>
        /\ gpc' = [gpc EXCEPT ![i] = "removeB"] /\ gpc'[i] = "removeB"
    BY <1>0, <1>8 DEF RemoveA, Remove, Goto, HasOutput, Active, roundVars
  <2>2. /\ InputA(i) \in Segs /\ InputA(i) # gout[i] /\ InputA(i) <= counter
        /\ InputB(i) \in Segs /\ InputB(i) # gout[i]
    BY <2>1, OutputFacts
  <2>3. InputA(i) # InputB(i)
    BY <2>1, InputsDistinct DEF SafetyInv
  <2>4. /\ file[gout[i]].st = "full"
        /\ DocsOf(file[InputA(i)]) \subseteq DocsOf(file[gout[i]])
        /\ DocsOf(file[InputB(i)]) \subseteq DocsOf(file[gout[i]])
    BY <2>1 DEF SafetyInv, OutputsOwned, OutputOwned, RemovalsCovered,
                RemovalCovered
  <2>5. ASSUME NEW f, file' = [file EXCEPT ![InputA(i)] = f], NothingLost'
        PROVE  SafetyInv'
    <3>1. file'[gout[i]] = file[gout[i]] /\ file'[InputB(i)] = file[InputB(i)]
      BY <1>0, <1>2, <2>1, <2>2, <2>3, <2>5
    <3>2. OutputOwned(i)'
      BY <2>1, <2>4, <3>1 DEF SafetyInv, OutputsOwned, OutputOwned
    <3>3. RemovalCovered(i)'
      BY <2>1, <2>4, <3>1 DEF RemovalCovered, InputA, InputB
    <3>4. \A j \in Slots \ {i} : gpc[j] \in HasOutput =>
            InputA(i) \notin {gout[j], InputA(j), InputB(j)}
      <4>. SUFFICES ASSUME NEW j \in Slots \ {i}, gpc[j] \in HasOutput
                    PROVE  InputA(i) \notin {gout[j], InputA(j), InputB(j)}
        OBVIOUS
      <4>1. gpc[j] \in Active
        BY DEF HasOutput, Active
      <4>2. InputA(i) # InputA(j) /\ InputA(i) # InputB(j)
        BY <2>1, <4>1, InputsDistinct DEF SafetyInv
      <4>3. 2 * i - 1 \in 1 .. Len(listing)
        BY <2>1, ActiveInputs DEF WriterAssumption
      <4>4. InputA(i) # gout[j]
        BY <4>3 DEF SafetyInv, OutputsOwned, OutputOwned, InputA
      <4>. QED
        BY <4>2, <4>4
    <3>5. \A j \in Slots \ {i} : gpc[j] \in HasOutput => gout[j] # gout[i]
      BY <1>1, <2>1
    <3>. QED
      BY <1>0, <2>1, <2>2, <2>5, <3>2, <3>3, <3>4, <3>5, OwnWrite
  <2>6. CASE file' = [file EXCEPT ![InputA(i)] = NoFile]
    <3>1. NothingLost'
      BY <1>0, <1>2, <2>1, <2>2, <2>4, <2>6, RemoveCovered
      DEF SafetyInv, clientVars
    <3>. QED
      BY <2>5, <2>6, <3>1
  <2>7. CASE UNCHANGED file
    <3>1. file' = [file EXCEPT ![InputA(i)] = file[InputA(i)]]
      BY <1>0, <2>7
    <3>2. NothingLost'
      BY <2>1, <2>7 DEF SafetyInv, NothingLost, Acknowledged, Full, clientVars
    <3>. QED
      BY <2>5, <3>1, <3>2
  <2>. QED
    BY <1>8, <2>6, <2>7 DEF RemoveA, Remove
<1>9. CASE RemoveB(i)
  <2>1. /\ gpc[i] = "removeB" /\ gpc[i] \in HasOutput /\ gpc[i] \in Active
        /\ UNCHANGED <<counter, clientVars, mpc, listing, gout>>
        /\ gpc' = [gpc EXCEPT ![i] = "release"] /\ gpc'[i] = "release"
    BY <1>0, <1>9 DEF RemoveB, Remove, Goto, HasOutput, Active, roundVars
  <2>2. InputB(i) \in Segs /\ InputB(i) # gout[i] /\ InputB(i) <= counter
    BY <2>1, OutputFacts
  <2>3. /\ file[gout[i]].st = "full"
        /\ DocsOf(file[InputB(i)]) \subseteq DocsOf(file[gout[i]])
    BY <2>1 DEF SafetyInv, OutputsOwned, OutputOwned, RemovalsCovered,
                RemovalCovered
  <2>4. ASSUME NEW f, file' = [file EXCEPT ![InputB(i)] = f], NothingLost'
        PROVE  SafetyInv'
    <3>1. OutputOwned(i)' /\ RemovalCovered(i)'
      BY <2>1 DEF OutputOwned, RemovalCovered, HasOutput
    <3>2. \A j \in Slots \ {i} : gpc[j] \in HasOutput =>
            InputB(i) \notin {gout[j], InputA(j), InputB(j)}
      <4>. SUFFICES ASSUME NEW j \in Slots \ {i}, gpc[j] \in HasOutput
                    PROVE  InputB(i) \notin {gout[j], InputA(j), InputB(j)}
        OBVIOUS
      <4>1. gpc[j] \in Active
        BY DEF HasOutput, Active
      <4>2. InputB(i) # InputB(j) /\ InputB(i) # InputA(j)
        BY <2>1, <4>1, InputsDistinct DEF SafetyInv
      <4>3. 2 * i \in 1 .. Len(listing)
        BY <2>1, ActiveInputs DEF WriterAssumption
      <4>4. InputB(i) # gout[j]
        BY <4>3 DEF SafetyInv, OutputsOwned, OutputOwned, InputB
      <4>. QED
        BY <4>2, <4>4
    <3>. QED
      BY <1>0, <2>1, <2>2, <2>4, <3>1, <3>2, OwnWrite DEF HasOutput
  <2>5. CASE file' = [file EXCEPT ![InputB(i)] = NoFile]
    <3>1. NothingLost'
      BY <1>0, <1>2, <2>1, <2>2, <2>3, <2>5, RemoveCovered
      DEF SafetyInv, clientVars
    <3>. QED
      BY <2>4, <2>5, <3>1
  <2>6. CASE UNCHANGED file
    BY <1>0, <2>1, <2>6, QuietStep DEF HasOutput
  <2>. QED
    BY <1>9, <2>5, <2>6 DEF RemoveB, Remove
<1>. QED
  BY <1>3, <1>4, <1>6, <1>7, <1>8, <1>9 DEF Worker
-----------------------------------------------------------------------------
(* The invariant, over a step of any process.                              *)
LEMMA SafetyNext ==
  ASSUME WriterAssumption, "restart" \notin Faults, "flush" \notin Faults,
         TypeInv, SafetyInv, [Next]_vars
  PROVE  SafetyInv'
<1>1. CASE UNCHANGED vars
  <2>1. /\ UNCHANGED <<file, counter, cpc, cbatch, cseg, home>>
        /\ UNCHANGED <<mpc, listing, gpc, gout>>
    BY <1>1 DEF vars, dirVars, clientVars, roundVars, workerVars
  <2>2. NamesCounted' /\ ClientOwnsSegment' /\ NoBatchDuringMerge'
    BY <2>1 DEF SafetyInv, NamesCounted, Present, ClientOwnsSegment,
                NoBatchDuringMerge
  <2>3. ListingDistinct' /\ NothingLost'
    BY <2>1 DEF SafetyInv, ListingDistinct, NothingLost, Acknowledged, Full
  <2>4. OutputsOwned' /\ RemovalsCovered'
    BY <2>1 DEF SafetyInv, OutputsOwned, OutputOwned, RemovalsCovered,
                RemovalCovered, InputA, InputB
  <2>. QED
    BY <2>2, <2>3, <2>4 DEF SafetyInv
<1>2. CASE \E c \in Clients : Client(c)
  BY <1>2, SafetyClient
<1>3. CASE CallMerge \/ Main \/ CloseErrors
  BY <1>3, SafetyMerge
<1>4. CASE \E i \in Slots : Worker(i)
  BY <1>4, SafetyWorker
<1>5. CASE Restart
  BY <1>5 DEF Restart, Inject
<1>. QED
  BY <1>1, <1>2, <1>3, <1>4, <1>5 DEF Next

(* Who owns which segment number, and what each removal is covered by: the *)
(* discipline Batch and Merge follow while the process stays up and no     *)
(* Flush error is dropped.                                                 *)
THEOREM DirectoryDiscipline ==
  ASSUME "restart" \notin Faults, "flush" \notin Faults
  PROVE  Spec => []SafetyInv
<1>1. Init => TypeInv /\ SafetyInv
  BY TypeInvInit, SafetyInit, WriterAssumption
<1>2. TypeInv /\ SafetyInv /\ [Next]_vars => TypeInv' /\ SafetyInv'
  BY TypeInvNext, SafetyNext, WriterAssumption
<1>. QED
  BY <1>1, <1>2, PTL DEF Spec

(* The documents of every batch whose Batch call returned nil stay in a    *)
(* complete segment of the directory, through failed saves, loads, merges  *)
(* and removals, whatever the number of clients, segments and workers.     *)
THEOREM NoDocumentLost ==
  ASSUME "restart" \notin Faults, "flush" \notin Faults
  PROVE  Spec => []NothingLost
<1>1. SafetyInv => NothingLost
  BY DEF SafetyInv
<1>. QED
  BY <1>1, DirectoryDiscipline, PTL

(* The file a step writes is never a complete segment: it has the number a *)
(* client or a goroutine owns, or one above the counter.                   *)
LEMMA StepKeepsSegments ==
  ASSUME WriterAssumption, "restart" \notin Faults, TypeInv, SafetyInv,
         [Next]_vars, NEW s \in Segs, file[s].st = "full"
  PROVE  file'[s] \in {file[s], NoFile}
<1>0. /\ file \in [Segs -> File] /\ counter \in Nat
      /\ cseg \in [Clients -> Nat]
  BY DEF TypeInv, TypeOK, Segs
<1>1. CASE UNCHANGED file
  BY <1>1
<1>2. ASSUME NEW c \in Clients, CreateSegment(c) \/ SaveSegment(c)
      PROVE  file'[s] \in {file[s], NoFile}
  <2>1. cpc[c] # "idle" /\ (UNCHANGED file \/
          \E f : file' = [file EXCEPT ![cseg[c]] = f])
    BY <1>2 DEF CreateSegment, SaveSegment
  <2>2. s # cseg[c]
    BY <2>1 DEF SafetyInv, ClientOwnsSegment
  <2>. QED
    BY <1>0, <2>1, <2>2
<1>3. ASSUME NEW i \in Slots, CreateOutput(i)
      PROVE  file'[s] \in {file[s], NoFile}
  <2>1. UNCHANGED file \/ file' = [file EXCEPT ![counter + 1] = ShortFile]
    BY <1>3 DEF CreateOutput
  <2>2. s \in Present
    BY DEF Present
  <2>3. s <= counter
    BY <2>2 DEF SafetyInv, NamesCounted
  <2>4. s # counter + 1
    BY <1>0, <2>3 DEF Segs
  <2>. QED
    BY <1>0, <2>1, <2>4
<1>4. ASSUME NEW i \in Slots, ReserveOutput(i) \/ WriteOutput(i)
      PROVE  file'[s] \in {file[s], NoFile}
  <2>1. /\ gpc[i] \in {"reserve", "write"}
        /\ \E f : file' = [file EXCEPT ![gout[i]] = f]
    BY <1>4 DEF ReserveOutput, WriteOutput, MergeFails
  <2>2. file[gout[i]].st # "full"
    BY <2>1 DEF SafetyInv, OutputsOwned, OutputOwned, HasOutput
  <2>. QED
    BY <1>0, <2>1, <2>2
<1>5. ASSUME NEW i \in Slots, RemoveA(i) \/ RemoveB(i)
      PROVE  file'[s] \in {file[s], NoFile}
  <2>1. UNCHANGED file \/ \E x : file' = [file EXCEPT ![x] = NoFile]
    BY <1>5 DEF RemoveA, RemoveB, Remove
  <2>. QED
    BY <1>0, <2>1
<1>6. ASSUME NEW i \in Slots,
             LoadA(i) \/ LoadB(i) \/ SendError(i) \/ Release(i)
      PROVE  UNCHANGED file
  BY <1>6 DEF LoadA, LoadB, Load, SendError, Release, dirVars
<1>7. ASSUME NEW c \in Clients, NEW b \in Batches, BeginBatch(c, b)
      PROVE  UNCHANGED file
  BY <1>7 DEF BeginBatch
<1>8. ASSUME CallMerge \/ Main \/ CloseErrors
      PROVE  UNCHANGED file
  BY <1>8 DEF CallMerge, Main, ListDirectory, Spawn, StartCollecting,
              ReceiveError, EndRound, CloseErrors, dirVars
<1>9. ~Restart
  BY DEF Restart, Inject
<1>10. CASE UNCHANGED vars
  BY <1>1, <1>10 DEF vars, dirVars
<1>11. CASE \E c \in Clients : Client(c)
  BY <1>1, <1>2, <1>7, <1>11 DEF Client
<1>12. CASE \E i \in Slots : Worker(i)
  BY <1>1, <1>3, <1>4, <1>5, <1>6, <1>12 DEF Worker
<1>. QED
  BY <1>1, <1>8, <1>9, <1>10, <1>11, <1>12 DEF Next

(* A complete segment is never written again: it stays as it is until it is*)
(* removed, as long as the process that numbers the segments stays up.     *)
THEOREM SegmentsImmutable ==
  ASSUME "restart" \notin Faults, "flush" \notin Faults
  PROVE  Spec => ImmutableSegments
<1>1. Init => TypeInv /\ SafetyInv
  BY TypeInvInit, SafetyInit, WriterAssumption
<1>2. TypeInv /\ SafetyInv /\ [Next]_vars => TypeInv' /\ SafetyInv'
  BY TypeInvNext, SafetyNext, WriterAssumption
<1>3. TypeInv /\ SafetyInv /\ [Next]_vars =>
        [\A s \in Segs : file[s].st = "full" => file'[s] \in {file[s], NoFile}]_vars
  BY StepKeepsSegments, WriterAssumption
<1>. QED
  BY <1>1, <1>2, <1>3, PTL DEF Spec, ImmutableSegments

-----------------------------------------------------------------------------
(***************************************************************************)
(* What a caller of Writer may rely on, for every value of the constants:  *)
(* no debris, readers that see all or nothing, rounds that consume their   *)
(* inputs, and that the protocol implements Corpus.  The process stays up  *)
(* and no Flush error is dropped; where a document may be in two segments, *)
(* no os.Remove fails either.                                              *)
(***************************************************************************)
Steady == "restart" \notin Faults /\ "flush" \notin Faults

-----------------------------------------------------------------------------
(* The invariant behind NoDebris, ReaderSeesAll, MergedToUnit and          *)
(* ErrorsHaveRoom.                                                         *)

(* Goroutines exist from their Spawn to the end of the round.              *)
RoundShape ==
  /\ mpc \in {"idle", "list"} => \A i \in Slots : gpc[i] = "off"
  /\ \A i \in Slots : i > spawned => gpc[i] = "off"
  /\ closed => mpc = "collect" /\ \A i \in Slots : i <= ChunkCount => gpc[i] = "done"
  /\ Len(listing) <= MaxSegments

(* A file that is not complete has a client or a goroutine at work on it.  *)
ShortOwned(x) == \/ \E c \in Clients : cpc[c] = "save" /\ cseg[c] = x
                 \/ \E i \in Slots : gpc[i] = "reserve" /\ gout[i] = x
BlankOwned(x) == \E i \in Slots : gpc[i] = "write" /\ gout[i] = x

DebrisOwned ==
  \A x \in Segs : /\ file[x].st = "short" => ShortOwned(x)
                  /\ file[x].st = "blank" => BlankOwned(x)

(* The inputs a goroutine has loaded are complete until it removes them.   *)
NeedsA == {"loadB", "create", "reserve", "write", "removeA"}
NeedsB == {"create", "reserve", "write", "removeA", "removeB"}
InputsFull ==
  \A i \in Slots : /\ gpc[i] \in NeedsA => InputA(i) \in Full
                   /\ gpc[i] \in NeedsB => InputB(i) \in Full

(* A complete segment has no documents but those of acknowledged batches.  *)
DocsKnown == \A x \in Full : DocsOf(file[x]) \subseteq Acknowledged

(* Each error in errorsCh is that of a pair that has ended.                *)
Ended == {i \in Slots : IsPair(i) /\ gpc[i] \in {"release", "done"}}
ErrorsCounted == errs <= Cardinality(Ended)

CleanInv == RoundShape /\ DebrisOwned /\ InputsFull /\ DocsKnown /\ ErrorsCounted

-----------------------------------------------------------------------------
(* What a step of goroutine i does: where it goes and what it writes.      *)
Frame(i) ==
  /\ UNCHANGED <<cpc, cbatch, cseg, home, mpc, result, listing, spawned, closed, failures>>
  /\ \A j \in Slots \ {i} : gpc'[j] = gpc[j] /\ gout'[j] = gout[j]

Moves(i, from, to) == gpc[i] \in from /\ gpc'[i] = to
Writes(x, f) == x \in Segs /\ file' = [file EXCEPT ![x] = f]

LoadsA(i) == Moves(i, {"loadA"}, "loadB") /\ Loadable(InputA(i)) /\ UNCHANGED <<file, errs>>
LoadsB(i) == Moves(i, {"loadB"}, "create") /\ Loadable(InputB(i)) /\ UNCHANGED <<file, errs>>
GivesUp(i) == Moves(i, {"loadA", "loadB", "create"}, "fail") /\ UNCHANGED <<file, errs>>
Reports(i) == Moves(i, {"fail"}, "release") /\ errs' = errs + 1 /\ UNCHANGED file
Ends(i) == Moves(i, {"release"}, "done") /\ UNCHANGED <<file, errs>>
Creates(i) ==
  /\ Moves(i, {"create"}, "reserve") /\ gout'[i] = counter + 1
  /\ Writes(counter + 1, ShortFile) /\ UNCHANGED errs
Reserves(i) ==
  /\ Moves(i, {"reserve"}, "write") /\ gout'[i] = gout[i]
  /\ Writes(gout[i], BlankFile) /\ UNCHANGED errs
Discards(i) ==
  /\ Moves(i, {"reserve", "write"}, "fail") /\ gout'[i] = gout[i]
  /\ Writes(gout[i], NoFile) /\ UNCHANGED errs
Completes(i) ==
  /\ Moves(i, {"write"}, "removeA") /\ gout'[i] = gout[i]
  /\ Writes(gout[i], FullFile(Merged(InputA(i), InputB(i)))) /\ UNCHANGED errs
RemovesA(i) ==
  /\ Moves(i, {"removeA"}, "removeB") /\ gout'[i] = gout[i]
  /\ Writes(InputA(i), NoFile) \/ ("remove" \in Faults /\ UNCHANGED file)
  /\ UNCHANGED errs
RemovesB(i) ==
  /\ Moves(i, {"removeB"}, "release") /\ gout'[i] = gout[i]
  /\ Writes(InputB(i), NoFile) \/ ("remove" \in Faults /\ UNCHANGED file)
  /\ UNCHANGED errs

Quiet(i) == LoadsA(i) \/ LoadsB(i) \/ GivesUp(i) \/ Reports(i) \/ Ends(i)
Prepares(i) == Creates(i) \/ Reserves(i) \/ Discards(i)
Removes(i) == RemovesA(i) \/ RemovesB(i)

LEMMA WorkerMoves ==
  ASSUME WriterAssumption, Steady, TypeInv, SafetyInv, NEW i \in Slots, Worker(i)
  PROVE  /\ Frame(i)
         /\ Quiet(i) \/ Prepares(i) \/ Completes(i) \/ Removes(i)
<1>. USE DEF roundVars, workerVars, errVars, dirVars, clientVars, Goto
<1>1. /\ gpc \in [Slots -> WorkerPCs] /\ gout \in [Slots -> 0 .. MaxSegments]
      /\ counter \in 0 .. MaxSegments /\ MaxSegments \in Nat
  BY DEF TypeInv, TypeOK, WriterAssumption
<1>2. gpc[i] \in HasOutput =>
        gout[i] \in Segs /\ InputA(i) \in Segs /\ InputB(i) \in Segs
  BY OutputFacts
<1>3. CASE LoadA(i)
  <2>1. Frame(i)
    BY <1>1, <1>3 DEF LoadA, Load, Frame
  <2>2. LoadsA(i) \/ GivesUp(i)
    BY <1>1, <1>3 DEF LoadA, Load, LoadsA, GivesUp, Moves
  <2>. QED
    BY <2>1, <2>2 DEF Quiet
<1>4. CASE LoadB(i)
  <2>1. Frame(i)
    BY <1>1, <1>4 DEF LoadB, Load, Frame
  <2>2. LoadsB(i) \/ GivesUp(i)
    BY <1>1, <1>4 DEF LoadB, Load, LoadsB, GivesUp, Moves
  <2>. QED
    BY <2>1, <2>2 DEF Quiet
<1>5. CASE CreateOutput(i)
  <2>1. Frame(i)
    BY <1>1, <1>5 DEF CreateOutput, Frame
  <2>2. Creates(i) \/ GivesUp(i)
    BY <1>1, <1>5 DEF CreateOutput, Creates, GivesUp, Moves, Writes, Segs
  <2>. QED
    BY <2>1, <2>2 DEF Quiet, Prepares
<1>6. CASE ReserveOutput(i)
  <2>1. Frame(i)
    BY <1>1, <1>6 DEF ReserveOutput, MergeFails, Frame
  <2>2. gout[i] \in Segs
    BY <1>2, <1>6 DEF ReserveOutput, HasOutput
  <2>3. Reserves(i) \/ Discards(i)
    BY <1>1, <1>6, <2>2 DEF ReserveOutput, MergeFails, Reserves, Discards, Moves, Writes
  <2>. QED
    BY <2>1, <2>3 DEF Prepares
<1>7. CASE WriteOutput(i)
  <2>1. Frame(i)
    BY <1>1, <1>7 DEF WriteOutput, MergeFails, Frame
  <2>2. gout[i] \in Segs
    BY <1>2, <1>7 DEF WriteOutput, HasOutput
  <2>3. Completes(i) \/ Discards(i)
    BY <1>1, <1>7, <2>2
    DEF WriteOutput, MergeFails, Completes, Discards, Moves, Writes, Inject, Steady
  <2>. QED
    BY <2>1, <2>3 DEF Prepares
<1>8. CASE RemoveA(i)
  <2>1. Frame(i)
    BY <1>1, <1>8 DEF RemoveA, Remove, Frame
  <2>2. InputA(i) \in Segs
    BY <1>2, <1>8 DEF RemoveA, Remove, HasOutput
  <2>3. RemovesA(i)
    BY <1>1, <1>8, <2>2 DEF RemoveA, Remove, RemovesA, Moves, Writes, Inject
  <2>. QED
    BY <2>1, <2>3 DEF Removes
<1>9. CASE RemoveB(i)
  <2>1. Frame(i)
    BY <1>1, <1>9 DEF RemoveB, Remove, Frame
  <2>2. InputB(i) \in Segs
    BY <1>2, <1>9 DEF RemoveB, Remove, HasOutput
  <2>3. RemovesB(i)
    BY <1>1, <1>9, <2>2 DEF RemoveB, Remove, RemovesB, Moves, Writes, Inject
  <2>. QED
    BY <2>1, <2>3 DEF Removes
<1>10. CASE SendError(i)
  <2>1. Frame(i)
    BY <1>1, <1>10 DEF SendError, Frame
  <2>2. Reports(i)
    BY <1>1, <1>10 DEF SendError, Reports, Moves
  <2>. QED
    BY <2>1, <2>2 DEF Quiet
<1>11. CASE Release(i)
  <2>1. Frame(i)
    BY <1>1, <1>11 DEF Release, Frame
  <2>2. Ends(i)
    BY <1>1, <1>11 DEF Release, Ends, Moves
  <2>. QED
    BY <2>1, <2>2 DEF Quiet
<1>. QED
  BY <1>3, <1>4, <1>5, <1>6, <1>7, <1>8, <1>9, <1>10, <1>11 DEF Worker

-----------------------------------------------------------------------------
(* A step of a goroutine keeps CleanInv.                                   *)
Known == WriterAssumption /\ Steady /\ TypeInv /\ SafetyInv /\ CleanInv

LEMMA StateFacts ==
  ASSUME Known
  PROVE  /\ file \in [Segs -> File] /\ gpc \in [Slots -> WorkerPCs]
         /\ gout \in [Slots -> 0 .. MaxSegments] /\ counter \in 0 .. MaxSegments
         /\ MaxSegments \in Nat /\ listing \in Seq(Segs) /\ errs \in Nat
         /\ cpc \in [Clients -> ClientPCs] /\ home \in [Batches -> 0 .. MaxSegments]
  BY DEF Known, TypeInv, TypeOK, WriterAssumption

(* No goroutine runs beside a client.                                      *)
LEMMA OneSide ==
  ASSUME Known, NEW i \in Slots, gpc[i] # "off"
  PROVE  \A c \in Clients : cpc[c] = "idle"
  BY StateFacts
  DEF Known, SafetyInv, NoBatchDuringMerge, CleanInv, RoundShape

(* The segments a goroutine reads are no other's outputs.                  *)
LEMMA InputsNoOutputs ==
  ASSUME Known, NEW i \in Slots, gpc[i] \in Active,
         NEW j \in Slots, gpc[j] \in HasOutput
  PROVE  gout[j] \notin {InputA(i), InputB(i)}
<1>1. 2 * i - 1 \in 1 .. Len(listing) /\ 2 * i \in 1 .. Len(listing)
  BY ActiveInputs DEF Known, WriterAssumption
<1>. QED
  BY <1>1 DEF Known, SafetyInv, OutputsOwned, OutputOwned, InputA, InputB

LEMMA WorkerRound ==
  ASSUME Known, NEW i \in Slots, Worker(i)
  PROVE  RoundShape'
<1>1. /\ Frame(i)
      /\ gpc[i] \notin {"off", "done"} /\ gpc'[i] # "off"
  BY WorkerMoves
  DEF Known, Quiet, Prepares, Removes, LoadsA, LoadsB, GivesUp, Reports, Ends, Creates,
      Reserves, Discards, Completes, RemovesA, RemovesB, Moves
<1>2. RoundShape
  BY DEF Known, CleanInv
<1>3. mpc \notin {"idle", "list"} /\ ~(i > spawned)
  BY <1>1, <1>2 DEF RoundShape
<1>4. closed => ~(i <= ChunkCount)
  BY <1>1, <1>2 DEF RoundShape
<1>5. \A j \in Slots : i # j => gpc'[j] = gpc[j]
  BY <1>1 DEF Frame
<1>6. UNCHANGED <<mpc, spawned, closed, listing>>
  BY <1>1 DEF Frame
<1>7. closed' => mpc' = "collect" /\ \A j \in Slots : j <= ChunkCount => gpc'[j] = "done"
  BY <1>2, <1>4, <1>5, <1>6 DEF RoundShape
<1>. QED
  BY <1>1, <1>2, <1>3, <1>5, <1>6, <1>7 DEF RoundShape, ChunkCount

LEMMA WorkerDebris ==
  ASSUME Known, NEW i \in Slots, Worker(i)
  PROVE  DebrisOwned'
<1>1. Frame(i) /\ (Quiet(i) \/ Prepares(i) \/ Completes(i) \/ Removes(i))
  BY WorkerMoves DEF Known
<1>2. \A j \in Slots \ {i} : gpc'[j] = gpc[j] /\ gout'[j] = gout[j]
  BY <1>1 DEF Frame
<1>3. UNCHANGED <<cpc, cseg>>
  BY <1>1 DEF Frame
<1>4. \A x \in Segs : /\ file[x].st = "short" => ShortOwned(x)
                      /\ file[x].st = "blank" => BlankOwned(x)
  BY DEF Known, CleanInv, DebrisOwned
(* The files goroutine i does not own stay with their owners.              *)
<1>5. ASSUME NEW x \in Segs, file'[x] = file[x],
             gpc[i] \in {"reserve", "write"} => gout[i] # x
      PROVE  /\ file'[x].st = "short" => ShortOwned(x)'
             /\ file'[x].st = "blank" => BlankOwned(x)'
  <2>1. ASSUME ShortOwned(x)
        PROVE  ShortOwned(x)'
    <3>1. CASE \E c \in Clients : cpc[c] = "save" /\ cseg[c] = x
      BY <3>1, <1>3 DEF ShortOwned
    <3>2. CASE \E j \in Slots : gpc[j] = "reserve" /\ gout[j] = x
      <4>1. PICK j \in Slots : gpc[j] = "reserve" /\ gout[j] = x
        BY <3>2
      <4>2. j # i
        BY <4>1, <1>5
      <4>. QED
        BY <4>1, <4>2, <1>2 DEF ShortOwned
    <3>. QED
      BY <2>1, <3>1, <3>2 DEF ShortOwned
  <2>2. ASSUME BlankOwned(x)
        PROVE  BlankOwned(x)'
    <3>1. PICK j \in Slots : gpc[j] = "write" /\ gout[j] = x
      BY <2>2 DEF BlankOwned
    <3>2. j # i
      BY <3>1, <1>5
    <3>. QED
      BY <3>1, <3>2, <1>2 DEF BlankOwned
  <2>. QED
    BY <1>4, <1>5, <2>1, <2>2
<1>6. CASE Quiet(i)
  <2>1. UNCHANGED file /\ gpc[i] \notin {"reserve", "write"}
    BY <1>6 DEF Quiet, LoadsA, LoadsB, GivesUp, Reports, Ends, Moves
  <2>. QED
    BY <1>5, <2>1 DEF DebrisOwned
<1>7. ASSUME NEW x \in Segs, NEW f, file' = [file EXCEPT ![x] = f],
             gpc[i] \in {"reserve", "write"} => gout[i] = x,
             f.st = "short" => ShortOwned(x)', f.st = "blank" => BlankOwned(x)'
      PROVE  DebrisOwned'
  <2>. SUFFICES ASSUME NEW y \in Segs
                PROVE  /\ file'[y].st = "short" => ShortOwned(y)'
                       /\ file'[y].st = "blank" => BlankOwned(y)'
    BY DEF DebrisOwned
  <2>1. CASE y = x
    BY <1>7, <2>1, StateFacts
  <2>2. CASE y # x
    <3>1. file'[y] = file[y]
      BY <1>7, <2>2, StateFacts
    <3>2. gpc[i] \in {"reserve", "write"} => gout[i] # y
      BY <1>7, <2>2
    <3>. QED
      BY <1>5, <3>1, <3>2
  <2>. QED
    BY <2>1, <2>2
<1>8. CASE Creates(i)
  <2>1. /\ counter + 1 \in Segs /\ file' = [file EXCEPT ![counter + 1] = ShortFile]
        /\ gpc'[i] = "reserve" /\ gout'[i] = counter + 1 /\ gpc[i] = "create"
    BY <1>8 DEF Creates, Moves, Writes
  <2>2. PICK x \in Segs : x = counter + 1
    BY <2>1
  <2>3. ShortOwned(x)' /\ ShortFile.st = "short"
    BY <2>1, <2>2 DEF ShortOwned, ShortFile
  <2>. QED
    BY <1>7, <2>1, <2>2, <2>3
<1>9. CASE Reserves(i)
  <2>1. /\ gout[i] \in Segs /\ file' = [file EXCEPT ![gout[i]] = BlankFile]
        /\ gpc'[i] = "write" /\ gout'[i] = gout[i]
    BY <1>9 DEF Reserves, Moves, Writes
  <2>2. PICK x \in Segs : x = gout[i]
    BY <2>1
  <2>3. BlankOwned(x)' /\ BlankFile.st = "blank"
    BY <2>1, <2>2 DEF BlankOwned, BlankFile
  <2>. QED
    BY <1>7, <2>1, <2>2, <2>3
<1>10. CASE Discards(i)
  <2>1. /\ gout[i] \in Segs /\ file' = [file EXCEPT ![gout[i]] = NoFile]
        /\ NoFile.st = "none"
    BY <1>10 DEF Discards, Writes, NoFile
  <2>. QED
    BY <1>7, <2>1
<1>11. CASE Completes(i)
  <2>1. /\ gout[i] \in Segs
        /\ \E f : f.st = "full" /\ file' = [file EXCEPT ![gout[i]] = f]
    BY <1>11 DEF Completes, Writes, FullFile
  <2>. QED
    BY <1>7, <2>1
<1>12. CASE Removes(i)
  <2>1. gpc[i] \notin {"reserve", "write"}
    BY <1>12 DEF Removes, RemovesA, RemovesB, Moves
  <2>2. CASE UNCHANGED file
    BY <1>5, <2>1, <2>2 DEF DebrisOwned
  <2>3. CASE \E x \in Segs : file' = [file EXCEPT ![x] = NoFile]
    BY <1>7, <2>1, <2>3 DEF NoFile
  <2>. QED
    BY <1>12, <2>2, <2>3 DEF Removes, RemovesA, RemovesB, Writes
<1>. QED
  BY <1>1, <1>6, <1>8, <1>9, <1>10, <1>11, <1>12 DEF Prepares

LEMMA WorkerInputs ==
  ASSUME Known, NEW i \in Slots, Worker(i)
  PROVE  InputsFull'
<1>1. Frame(i) /\ (Quiet(i) \/ Prepares(i) \/ Completes(i) \/ Removes(i))
  BY WorkerMoves DEF Known
<1>2. InputsFull
  BY DEF Known, CleanInv
<1>3. UNCHANGED listing /\ \A j \in Slots \ {i} : gpc'[j] = gpc[j]
  BY <1>1 DEF Frame
<1>4. /\ NeedsA \subseteq Active /\ NeedsB \subseteq Active /\ HasOutput \subseteq Active
  BY DEF NeedsA, NeedsB, Active, HasOutput
(* What a step writes is no input of another goroutine, nor of its own but *)
(* where it removes one.                                                   *)
<1>5. ASSUME NEW j \in Slots, gpc[j] \in Active, NEW x \in {InputA(j), InputB(j)},
             x \in Full,
             Removes(i) => j # i \/ (RemovesA(i) /\ x = InputB(i))
      PROVE  x \in Full'
  <2>1. x \in Segs /\ file[x].st = "full"
    BY <1>5 DEF Full
  <2>2. CASE UNCHANGED file
    BY <2>1, <2>2 DEF Full
  <2>3. CASE Creates(i)
    <3>1. /\ file' = [file EXCEPT ![counter + 1] = ShortFile]
      BY <2>3 DEF Creates, Writes
    <3>2. x \in Present
      BY <2>1 DEF Present
    <3>3. x <= counter
      BY <3>2 DEF Known, SafetyInv, NamesCounted
    <3>4. x # counter + 1
      BY <2>1, <3>3, StateFacts DEF Segs
    <3>. QED
      BY <2>1, <3>1, <3>4, StateFacts DEF Full
  <2>4. CASE Reserves(i) \/ Discards(i) \/ Completes(i)
    <3>1. gpc[i] \in HasOutput /\ \E f : file' = [file EXCEPT ![gout[i]] = f]
      BY <2>4 DEF Reserves, Discards, Completes, Moves, Writes, HasOutput
    <3>2. x # gout[i]
      BY <1>5, <3>1, InputsNoOutputs
    <3>. QED
      BY <2>1, <3>1, <3>2, StateFacts DEF Full
  <2>5. CASE Removes(i) /\ ~UNCHANGED file
    <3>1. /\ gpc[i] \in Active
          /\ \/ file' = [file EXCEPT ![InputA(i)] = NoFile]
             \/ file' = [file EXCEPT ![InputB(i)] = NoFile]
          /\ RemovesA(i) => file' = [file EXCEPT ![InputA(i)] = NoFile]
      BY <2>5 DEF Removes, RemovesA, RemovesB, Moves, Writes, Active
    <3>2. ListingDistinct /\ WriterAssumption /\ TypeInv
      BY DEF Known, SafetyInv
    <3>3. CASE j # i
      <4>1. x # InputA(i) /\ x # InputB(i)
        BY <1>5, <3>1, <3>2, <3>3, InputsDistinct
      <4>. QED
        BY <2>1, <3>1, <4>1, StateFacts DEF Full
    <3>4. CASE j = i
      <4>1. x = InputB(i) /\ file' = [file EXCEPT ![InputA(i)] = NoFile]
        BY <1>5, <2>5, <3>1, <3>4
      <4>2. InputA(i) # InputB(i)
        BY <3>1, <3>2, InputsDistinct
      <4>. QED
        BY <2>1, <4>1, <4>2, StateFacts DEF Full
    <3>. QED
      BY <3>3, <3>4
  <2>. QED
    BY <1>1, <2>2, <2>3, <2>4, <2>5
    DEF Quiet, Prepares, LoadsA, LoadsB, GivesUp, Reports, Ends
(* A file that loads and is listed is complete: a blank one is the output  *)
(* of a goroutine.                                                         *)
<1>6. ASSUME NEW x \in {InputA(i), InputB(i)}, gpc[i] \in Active, Loadable(x)
      PROVE  x \in Full
  <2>1. x \in Segs
    BY <1>6, ActiveInputs DEF Known, WriterAssumption
  <2>2. file[x].st # "blank"
    <3>. SUFFICES ASSUME file[x].st = "blank"
                  PROVE  FALSE
      OBVIOUS
    <3>1. PICK j \in Slots : gpc[j] = "write" /\ gout[j] = x
      BY <2>1 DEF Known, CleanInv, DebrisOwned, BlankOwned
    <3>. QED
      BY <1>6, <3>1, InputsNoOutputs DEF HasOutput
  <2>. QED
    BY <1>6, <2>1, <2>2 DEF Loadable, Full
<1>7. ASSUME NEW j \in Slots \ {i}
      PROVE  /\ gpc'[j] \in NeedsA => InputA(j)' \in Full'
             /\ gpc'[j] \in NeedsB => InputB(j)' \in Full'
  <2>1. /\ gpc[j] \in NeedsA => InputA(j) \in Full
        /\ gpc[j] \in NeedsB => InputB(j) \in Full
    BY <1>2 DEF InputsFull
  <2>2. InputA(j)' = InputA(j) /\ InputB(j)' = InputB(j)
    BY <1>3 DEF InputA, InputB
  <2>. QED
    BY <1>3, <1>4, <1>5, <2>1, <2>2
<1>8. /\ gpc'[i] \in NeedsA => InputA(i)' \in Full'
      /\ gpc'[i] \in NeedsB => InputB(i)' \in Full'
  <2>1. InputA(i)' = InputA(i) /\ InputB(i)' = InputB(i)
    BY <1>3 DEF InputA, InputB
  <2>2. CASE LoadsA(i)
    <3>1. gpc[i] \in Active /\ gpc'[i] = "loadB" /\ ~Removes(i)
      BY <2>2 DEF LoadsA, Moves, Active, Removes, RemovesA, RemovesB
    <3>2. InputA(i) \in Full
      BY <1>6, <2>2, <3>1 DEF LoadsA
    <3>3. InputA(i) \in Full'
      BY <1>5, <3>1, <3>2
    <3>. QED
      BY <2>1, <3>1, <3>3 DEF NeedsB
  <2>3. CASE LoadsB(i)
    <3>1. gpc[i] \in Active /\ gpc[i] \in NeedsA /\ gpc'[i] = "create" /\ ~Removes(i)
      BY <2>3 DEF LoadsB, Moves, Active, Removes, RemovesA, RemovesB, NeedsA
    <3>2. InputA(i) \in Full /\ InputB(i) \in Full
      BY <1>2, <1>6, <2>3, <3>1 DEF LoadsB, InputsFull
    <3>3. InputA(i) \in Full' /\ InputB(i) \in Full'
      BY <1>5, <3>1, <3>2
    <3>. QED
      BY <2>1, <3>3
  <2>4. CASE GivesUp(i) \/ Reports(i) \/ Ends(i) \/ Discards(i) \/ RemovesB(i)
    BY <2>4
    DEF GivesUp, Reports, Ends, Discards, RemovesB, Moves, NeedsA, NeedsB
  <2>5. CASE Creates(i) \/ Reserves(i) \/ Completes(i)
    <3>1. gpc[i] \in Active /\ gpc[i] \in NeedsA /\ gpc[i] \in NeedsB /\ ~Removes(i)
      BY <2>5 DEF Creates, Reserves, Completes, Moves, Active, Removes, RemovesA,
                  RemovesB, NeedsA, NeedsB
    <3>2. InputA(i) \in Full /\ InputB(i) \in Full
      BY <1>2, <3>1 DEF InputsFull
    <3>3. InputA(i) \in Full' /\ InputB(i) \in Full'
      BY <1>5, <3>1, <3>2
    <3>. QED
      BY <2>1, <3>3
  <2>6. CASE RemovesA(i)
    <3>1. gpc[i] \in Active /\ gpc[i] \in NeedsB /\ gpc'[i] = "removeB"
      BY <2>6 DEF RemovesA, Moves, Active, NeedsB
    <3>2. InputB(i) \in Full
      BY <1>2, <3>1 DEF InputsFull
    <3>3. InputB(i) \in Full'
      BY <1>5, <2>6, <3>1, <3>2
    <3>. QED
      BY <2>1, <3>1, <3>3 DEF NeedsA
  <2>. QED
    BY <1>1, <2>2, <2>3, <2>4, <2>5, <2>6 DEF Quiet, Prepares, Removes
<1>. QED
  BY <1>7, <1>8 DEF InputsFull

(* The documents of a merged segment are those of the two.                 *)
LEMMA MergedDocs ==
  ASSUME file \in [Segs -> File], NEW a \in Segs, NEW b \in Segs
  PROVE  DocsOf(FullFile(Merged(a, b))) = DocsOf(file[a]) \union DocsOf(file[b])
<1>. DEFINE p == file[a].docs  t == file[b].docs
<1>1. p \in Seq(Batches) /\ t \in Seq(Batches)
  BY DEF File
<1>2. FullFile(Merged(a, b)).docs = p \o t
  BY DEF FullFile, Merged
<1>3. /\ DocsOf(file[a]) \subseteq DocsOf(FullFile(Merged(a, b)))
      /\ DocsOf(file[b]) \subseteq DocsOf(FullFile(Merged(a, b)))
  BY MergedKeepsDocs
<1>. HIDE DEF p, t
<1>4. /\ Len(p) \in Nat /\ DOMAIN p = 1 .. Len(p)
      /\ Len(t) \in Nat /\ DOMAIN t = 1 .. Len(t)
      /\ p \o t \in Seq(Batches) /\ Len(p \o t) = Len(p) + Len(t)
      /\ \A k \in 1 .. Len(p) + Len(t) :
           (p \o t)[k] = IF k <= Len(p) THEN p[k] ELSE t[k - Len(p)]
  BY <1>1, ConcatProperties, LenProperties
<1>5. DOMAIN (p \o t) = 1 .. Len(p) + Len(t)
  BY <1>4, LenProperties
<1>6. ASSUME NEW k \in DOMAIN (p \o t)
      PROVE  \/ \E m \in DOMAIN p : (p \o t)[k] = p[m]
             \/ \E m \in DOMAIN t : (p \o t)[k] = t[m]
  <2>1. CASE k <= Len(p)
    BY <1>4, <1>5, <1>6, <2>1
  <2>2. CASE ~(k <= Len(p))
    <3>1. k - Len(p) \in DOMAIN t /\ (p \o t)[k] = t[k - Len(p)]
      BY <1>4, <1>5, <1>6, <2>2
    <3>. QED
      BY <3>1
  <2>. QED
    BY <2>1, <2>2
<1>7. DocsOf(FullFile(Merged(a, b))) \subseteq DocsOf(file[a]) \union DocsOf(file[b])
  BY <1>2, <1>6 DEF DocsOf, p, t
<1>. QED
  BY <1>3, <1>7

(* What a step of a goroutine does to the complete segments.               *)
LEMMA WorkerSegments ==
  ASSUME Known, NEW i \in Slots, Worker(i)
  PROVE  \A x \in Full' :
           \/ x \in Full /\ file'[x] = file[x]
           \/ /\ Completes(i) /\ x = gout[i]
              /\ DocsOf(file'[x]) = DocsOf(file[InputA(i)]) \union DocsOf(file[InputB(i)])
<1>1. Quiet(i) \/ Prepares(i) \/ Completes(i) \/ Removes(i)
  BY WorkerMoves DEF Known
<1>. SUFFICES ASSUME NEW x \in Segs, file'[x].st = "full",
                     ~(x \in Full /\ file'[x] = file[x])
              PROVE  /\ Completes(i) /\ x = gout[i]
                     /\ DocsOf(file'[x]) = DocsOf(file[InputA(i)]) \union DocsOf(file[InputB(i)])
  BY DEF Full
<1>2. file'[x] # file[x]
  BY DEF Full
<1>3. ~Quiet(i)
  BY <1>2 DEF Quiet, LoadsA, LoadsB, GivesUp, Reports, Ends
<1>4. ~Prepares(i)
  BY <1>2, StateFacts
  DEF Prepares, Creates, Reserves, Discards, Writes, ShortFile, BlankFile, NoFile
<1>5. ~Removes(i)
  BY <1>2, StateFacts DEF Removes, RemovesA, RemovesB, Writes, NoFile
<1>6. /\ Completes(i) /\ gpc[i] \in HasOutput
      /\ file' = [file EXCEPT ![gout[i]] = FullFile(Merged(InputA(i), InputB(i)))]
  BY <1>1, <1>3, <1>4, <1>5 DEF Completes, Writes, Moves, HasOutput
<1>7. x = gout[i] /\ file'[x] = FullFile(Merged(InputA(i), InputB(i)))
  BY <1>2, <1>6, StateFacts
<1>8. InputA(i) \in Segs /\ InputB(i) \in Segs
  BY <1>6, OutputFacts DEF Known
<1>. QED
  BY <1>6, <1>7, <1>8, MergedDocs, StateFacts

LEMMA WorkerDocs ==
  ASSUME Known, NEW i \in Slots, Worker(i)
  PROVE  DocsKnown'
<1>1. DocsKnown /\ InputsFull
  BY DEF Known, CleanInv
<1>2. Acknowledged' = Acknowledged
  BY WorkerMoves DEF Known, Frame, Acknowledged
<1>3. Completes(i) => InputA(i) \in Full /\ InputB(i) \in Full
  BY <1>1 DEF Completes, Moves, InputsFull, NeedsA, NeedsB
<1>. QED
  BY <1>1, <1>2, <1>3, WorkerSegments DEF DocsKnown

LEMMA EndedFinite ==
  ASSUME MaxSegments \in Nat
  PROVE  IsFiniteSet(Ended) /\ Cardinality(Ended) \in Nat
<1>1. IsFiniteSet(Slots)
  BY FS_Interval DEF Slots
<1>2. Ended \subseteq Slots
  BY DEF Ended
<1>. QED
  BY <1>1, <1>2, FS_Subset, FS_CardinalityType

LEMMA WorkerErrors ==
  ASSUME Known, NEW i \in Slots, Worker(i)
  PROVE  ErrorsCounted'
<1>1. Frame(i) /\ (Quiet(i) \/ Prepares(i) \/ Completes(i) \/ Removes(i))
  BY WorkerMoves DEF Known
<1>2. /\ IsFiniteSet(Ended) /\ Cardinality(Ended) \in Nat
      /\ errs \in Nat /\ errs <= Cardinality(Ended)
  BY EndedFinite, StateFacts DEF Known, CleanInv, ErrorsCounted
<1>3. UNCHANGED listing /\ \A j \in Slots \ {i} : gpc'[j] = gpc[j]
  BY <1>1 DEF Frame
<1>4. \A j \in Slots \ {i} : j \in Ended' <=> j \in Ended
  BY <1>3 DEF Ended, IsPair
<1>5. Ended \subseteq Slots /\ Ended' \subseteq Slots
  BY DEF Ended
<1>6. CASE Reports(i)
  <2>1. /\ gpc[i] = "fail" /\ gpc'[i] = "release" /\ errs' = errs + 1
        /\ IsPair(i) /\ IsPair(i)'
    BY <1>3, <1>6 DEF Reports, Moves, Known, TypeInv, ActiveInRound, Active, IsPair
  <2>2. i \notin Ended /\ i \in Ended'
    BY <2>1 DEF Ended
  <2>3. Ended' = Ended \union {i}
    BY <1>4, <1>5, <2>2
  <2>4. Cardinality(Ended') = Cardinality(Ended) + 1
    BY <1>2, <2>2, <2>3, FS_AddElement
  <2>. QED
    BY <1>2, <2>1, <2>4 DEF ErrorsCounted
<1>7. CASE RemovesB(i)
  <2>1. errs' = errs /\ gpc[i] = "removeB"
    BY <1>7 DEF RemovesB, Moves
  <2>2. i \notin Ended
    BY <2>1 DEF Ended
  <2>3. Ended' = Ended \/ (i \notin Ended /\ Ended' = Ended \union {i})
    BY <1>4, <1>5, <2>2
  <2>4. \/ Cardinality(Ended') = Cardinality(Ended)
        \/ Cardinality(Ended') = Cardinality(Ended) + 1
    BY <1>2, <2>3, FS_AddElement
  <2>. QED
    BY <1>2, <2>1, <2>4 DEF ErrorsCounted
<1>8. CASE ~Reports(i) /\ ~RemovesB(i)
  <2>1. errs' = errs
    BY <1>1, <1>8
    DEF Quiet, Prepares, Removes, LoadsA, LoadsB, GivesUp, Ends, Creates, Reserves,
        Discards, Completes, RemovesA
  <2>2. gpc'[i] \in {"release", "done"} <=> gpc[i] \in {"release", "done"}
    BY <1>1, <1>8
    DEF Quiet, Prepares, Removes, LoadsA, LoadsB, GivesUp, Ends, Creates, Reserves,
        Discards, Completes, RemovesA, Moves
  <2>3. i \in Ended' <=> i \in Ended
    BY <1>3, <2>2 DEF Ended, IsPair
  <2>4. Ended' = Ended
    BY <1>4, <1>5, <2>3
  <2>. QED
    BY <1>2, <2>1, <2>4 DEF ErrorsCounted
<1>. QED
  BY <1>6, <1>7, <1>8

LEMMA WorkerClean ==
  ASSUME Known, NEW i \in Slots, Worker(i)
  PROVE  CleanInv'
  BY WorkerRound, WorkerDebris, WorkerInputs, WorkerDocs, WorkerErrors DEF CleanInv

-----------------------------------------------------------------------------
(* The steps of the clients keep CleanInv: no goroutine is there.          *)
LEMMA ClientClean ==
  ASSUME Known, NEW c \in Clients, Client(c)
  PROVE  CleanInv'
<1>. USE DEF dirVars, clientVars, roundVars, workerVars, errVars
<1>1. mpc = "idle" /\ UNCHANGED <<mpc, listing, spawned, closed, errs, gpc, gout>>
  BY DEF Client, BeginBatch, CreateSegment, SaveSegment, Known, SafetyInv,
         NoBatchDuringMerge
<1>2. \A i \in Slots : gpc[i] = "off"
  BY <1>1 DEF Known, CleanInv, RoundShape
<1>3. RoundShape'
  BY <1>1 DEF Known, CleanInv, RoundShape, ChunkCount
<1>4. InputsFull'
  BY <1>1, <1>2 DEF InputsFull, NeedsA, NeedsB
<1>5. ErrorsCounted'
  <2>1. Ended' = Ended
    BY <1>1 DEF Ended, IsPair
  <2>. QED
    BY <1>1, <2>1 DEF Known, CleanInv, ErrorsCounted
<1>6. \A x \in Segs : /\ file[x].st = "short" =>
                           \E d \in Clients : cpc[d] = "save" /\ cseg[d] = x
                      /\ file[x].st # "blank"
  BY <1>2 DEF Known, CleanInv, DebrisOwned, ShortOwned, BlankOwned
<1>7. DocsKnown
  BY DEF Known, CleanInv
<1>8. ASSUME NEW b \in Batches, BeginBatch(c, b)
      PROVE  DebrisOwned' /\ DocsKnown'
  <2>1. /\ UNCHANGED <<file, home>> /\ cpc[c] = "idle"
        /\ \A d \in Clients \ {c} : cpc'[d] = cpc[d] /\ cseg'[d] = cseg[d]
    BY <1>8, StateFacts DEF BeginBatch, Known, TypeInv, TypeOK
  <2>2. DebrisOwned'
    BY <1>6, <2>1 DEF DebrisOwned, ShortOwned
  <2>3. DocsKnown'
    BY <1>7, <2>1 DEF DocsKnown, Full, Acknowledged
  <2>. QED
    BY <2>2, <2>3
<1>9. cpc[c] # "idle" => cseg[c] \in Segs /\ cbatch[c] \in Batches
  BY DEF Known, TypeInv, BusyClients
<1>10. ASSUME CreateSegment(c)
       PROVE  DebrisOwned' /\ DocsKnown'
  <2>1. /\ cpc[c] = "create" /\ cseg[c] \in Segs /\ UNCHANGED home
        /\ \A d \in Clients \ {c} : cpc'[d] = cpc[d] /\ cseg'[d] = cseg[d]
    BY <1>9, <1>10, StateFacts DEF CreateSegment, ClientDone, Known, TypeInv, TypeOK
  <2>2. CASE UNCHANGED file
    <3>1. DebrisOwned'
      BY <1>6, <2>1, <2>2 DEF DebrisOwned, ShortOwned
    <3>. QED
      BY <1>7, <2>1, <2>2, <3>1 DEF DocsKnown, Full, Acknowledged
  <2>3. CASE /\ file' = [file EXCEPT ![cseg[c]] = ShortFile]
             /\ cpc' = [cpc EXCEPT ![c] = "save"] /\ UNCHANGED cseg
    <3>1. /\ cpc'[c] = "save" /\ cseg'[c] = cseg[c] /\ file'[cseg[c]] = ShortFile
          /\ \A x \in Segs \ {cseg[c]} : file'[x] = file[x]
      BY <2>1, <2>3, StateFacts
    <3>2. ShortFile.st = "short"
      BY DEF ShortFile
    <3>3. DebrisOwned'
      BY <1>6, <2>1, <3>1, <3>2 DEF DebrisOwned, ShortOwned
    <3>4. DocsKnown'
      BY <1>7, <2>1, <3>1, <3>2 DEF DocsKnown, Full, Acknowledged
    <3>. QED
      BY <3>3, <3>4
  <2>. QED
    BY <1>10, <2>2, <2>3 DEF CreateSegment
<1>11. ASSUME SaveSegment(c)
       PROVE  DebrisOwned' /\ DocsKnown'
  <2>1. /\ cpc[c] = "save" /\ cseg[c] \in Segs /\ cbatch[c] \in Batches
        /\ \A d \in Clients \ {c} : cpc'[d] = cpc[d] /\ cseg'[d] = cseg[d]
    BY <1>9, <1>11, StateFacts DEF SaveSegment, ClientDone, Known, TypeInv, TypeOK
  <2>2. ASSUME NEW f, file' = [file EXCEPT ![cseg[c]] = f], f.st \in {"full", "none"}
        PROVE  DebrisOwned'
    <3>1. /\ file'[cseg[c]] = f
          /\ \A x \in Segs \ {cseg[c]} : file'[x] = file[x]
      BY <2>1, <2>2, StateFacts
    <3>. QED
      BY <1>6, <2>1, <2>2, <3>1 DEF DebrisOwned, ShortOwned
  <2>3. CASE /\ file' = [file EXCEPT ![cseg[c]] = FullFile(<<cbatch[c]>>)]
             /\ home' = [home EXCEPT ![cbatch[c]] = cseg[c]]
    <3>1. /\ FullFile(<<cbatch[c]>>).st = "full"
          /\ DocsOf(FullFile(<<cbatch[c]>>)) = {cbatch[c]}
      BY DEF FullFile, DocsOf
    <3>2. cseg[c] # 0
      BY <2>1 DEF Segs
    <3>3. Acknowledged' = Acknowledged \union {cbatch[c]}
      BY <2>1, <2>3, <3>2, StateFacts DEF Acknowledged
    <3>4. /\ file'[cseg[c]] = FullFile(<<cbatch[c]>>)
          /\ \A x \in Segs \ {cseg[c]} : file'[x] = file[x]
      BY <2>1, <2>3, StateFacts
    <3>5. DocsKnown'
      BY <1>7, <3>1, <3>3, <3>4 DEF DocsKnown, Full
    <3>. QED
      BY <2>2, <2>3, <3>1, <3>5
  <2>4. CASE file' = [file EXCEPT ![cseg[c]] = NoFile] /\ UNCHANGED home
    <3>1. NoFile.st = "none"
      BY DEF NoFile
    <3>2. /\ file'[cseg[c]] = NoFile
          /\ \A x \in Segs \ {cseg[c]} : file'[x] = file[x]
      BY <2>1, <2>4, StateFacts
    <3>3. DocsKnown'
      BY <1>7, <2>4, <3>1, <3>2 DEF DocsKnown, Full, Acknowledged
    <3>. QED
      BY <2>2, <2>4, <3>1, <3>3
  <2>. QED
    BY <1>11, <2>3, <2>4 DEF SaveSegment
<1>. QED
  BY <1>3, <1>4, <1>5, <1>8, <1>10, <1>11 DEF CleanInv, Client

(* The listing of a directory is no longer than there are segments.        *)
LEMMA ListingFits ==
  ASSUME MaxSegments \in Nat, NEW l \in Listings
  PROVE  Len(l) <= MaxSegments
<1>1. IsFiniteSet(Segs) /\ Cardinality(Segs) = MaxSegments
  BY FS_Interval DEF Segs
<1>2. Present \subseteq Segs
  BY DEF Present
<1>. QED
  BY <1>1, <1>2, FS_Subset, ListingIsSequence

(* At the end of a round every goroutine is done.                          *)
LEMMA RoundOver ==
  ASSUME Known, closed, NEW i \in Slots
  PROVE  gpc[i] \notin Active /\ (IsPair(i) => gpc[i] = "done")
<1>1. IsPair(i) => i <= ChunkCount
  <2>1. Len(listing) \in Nat /\ i \in Nat
    BY StateFacts, LenProperties DEF Slots
  <2>. QED
    BY <2>1 DEF IsPair, ChunkCount
<1>. QED
  BY <1>1 DEF Known, CleanInv, RoundShape, TypeInv, ActiveInRound, Active

(* The steps of the calling goroutine and of the closer.                   *)
LEMMA MergeClean ==
  ASSUME Known, CallMerge \/ Main \/ CloseErrors
  PROVE  CleanInv'
<1>. USE DEF dirVars, clientVars, roundVars, workerVars, errVars
<1>0. CleanInv /\ RoundShape /\ DebrisOwned /\ InputsFull /\ DocsKnown /\ ErrorsCounted
  BY DEF Known, CleanInv
<1>1. UNCHANGED <<file, cpc, cseg, home>>
  BY DEF CallMerge, Main, ListDirectory, Spawn, StartCollecting, ReceiveError,
         EndRound, CloseErrors
<1>2. DocsKnown'
  BY <1>0, <1>1 DEF DocsKnown, Full, Acknowledged
<1>3. /\ Len(listing) \in Nat /\ spawned \in Nat /\ errs \in Nat
      /\ Cardinality(Ended) \in Nat
  BY StateFacts, LenProperties, EndedFinite DEF Known, TypeInv, TypeOK
<1>4. CASE CallMerge \/ StartCollecting \/ ReceiveError \/ CloseErrors
  <2>1. UNCHANGED <<gpc, gout, listing, spawned>>
    BY <1>4 DEF CallMerge, StartCollecting, ReceiveError, CloseErrors
  <2>2. DebrisOwned'
    BY <1>0, <1>1, <2>1 DEF DebrisOwned, ShortOwned, BlankOwned
  <2>3. InputsFull'
    BY <1>0, <1>1, <2>1 DEF InputsFull, InputA, InputB, Full
  <2>4. ErrorsCounted'
    <3>1. Ended' = Ended
      BY <2>1 DEF Ended, IsPair
    <3>2. errs' = errs \/ (errs > 0 /\ errs' = errs - 1)
      BY <1>4 DEF CallMerge, StartCollecting, ReceiveError, CloseErrors
    <3>. QED
      BY <1>0, <1>3, <3>1, <3>2 DEF ErrorsCounted
  <2>5. RoundShape'
    <3>1. ChunkCount' = ChunkCount
      BY <2>1 DEF ChunkCount
    <3>2. mpc' \in {"idle", "list"} => mpc \in {"idle", "list"}
      BY <1>4 DEF CallMerge, StartCollecting, ReceiveError, CloseErrors
    <3>3. closed' => mpc' = "collect" /\ \A i \in Slots : i <= ChunkCount => gpc[i] = "done"
      <4>1. CASE CallMerge \/ StartCollecting \/ ReceiveError
        BY <1>0, <4>1 DEF RoundShape, CallMerge, StartCollecting, ReceiveError
      <4>2. CASE CloseErrors
        <5>1. \A i \in Slots : i <= ChunkCount => i \in 1 .. ChunkCount
          BY <1>3 DEF Slots, ChunkCount
        <5>. QED
          BY <4>2, <5>1 DEF CloseErrors
      <4>. QED
        BY <1>4, <4>1, <4>2
    <3>. QED
      BY <1>0, <2>1, <3>1, <3>2, <3>3 DEF RoundShape
  <2>. QED
    BY <1>2, <2>2, <2>3, <2>4, <2>5 DEF CleanInv
<1>5. CASE ListDirectory
  <2>1. /\ \A i \in Slots : gpc[i] = "off" /\ gpc'[i] = "off"
        /\ ~closed /\ ~closed' /\ UNCHANGED <<gpc, gout, spawned, errs>>
    BY <1>0, <1>5 DEF ListDirectory, RoundShape
  <2>2. Len(listing') <= MaxSegments
    <3>1. CASE listing' \in Listings
      BY <3>1, ListingFits DEF Known, WriterAssumption
    <3>2. CASE UNCHANGED listing
      BY <1>0, <3>2 DEF RoundShape
    <3>. QED
      BY <1>5, <3>1, <3>2 DEF ListDirectory
  <2>3. RoundShape' /\ InputsFull'
    BY <2>1, <2>2 DEF RoundShape, InputsFull, NeedsA, NeedsB
  <2>4. DebrisOwned'
    BY <1>0, <1>1, <2>1 DEF DebrisOwned, ShortOwned, BlankOwned
  <2>5. ErrorsCounted'
    <3>1. Ended = {} /\ Ended' = {}
      BY <2>1 DEF Ended
    <3>. QED
      BY <1>0, <2>1, <3>1 DEF ErrorsCounted
  <2>. QED
    BY <1>2, <2>3, <2>4, <2>5 DEF CleanInv
<1>6. CASE Spawn
  <2>1. /\ spawned' = spawned + 1 /\ mpc' = "spawn" /\ ~closed'
        /\ UNCHANGED <<listing, gout, errs>>
        /\ \A i \in Slots : i # spawned + 1 => gpc'[i] = gpc[i]
        /\ \A i \in Slots : i = spawned + 1 =>
             gpc[i] = "off" /\ gpc'[i] \in {"loadA", "release"}
                            /\ (IsPair(i) => gpc'[i] = "loadA")
    BY <1>0, <1>3, <1>6, StateFacts DEF Spawn, RoundShape
  <2>2. RoundShape'
    BY <1>0, <1>3, <2>1 DEF RoundShape, Slots
  <2>3. DebrisOwned'
    BY <1>0, <1>1, <2>1 DEF DebrisOwned, ShortOwned, BlankOwned
  <2>4. InputsFull'
    BY <1>0, <1>1, <2>1 DEF InputsFull, InputA, InputB, Full, NeedsA, NeedsB
  <2>5. ErrorsCounted'
    <3>1. Ended' = Ended
      BY <2>1 DEF Ended, IsPair
    <3>. QED
      BY <1>0, <2>1, <3>1 DEF ErrorsCounted
  <2>. QED
    BY <1>2, <2>2, <2>3, <2>4, <2>5 DEF CleanInv
<1>7. CASE EndRound
  <2>1. /\ \A i \in Slots : gpc'[i] = "off" /\ gpc[i] \notin {"reserve", "write"}
        /\ listing' = << >> /\ ~closed' /\ errs = 0 /\ errs' = 0
    BY <1>7, RoundOver DEF EndRound, Active
  <2>2. RoundShape' /\ InputsFull'
    BY <2>1 DEF RoundShape, InputsFull, NeedsA, NeedsB, Known, WriterAssumption
  <2>3. DebrisOwned'
    BY <1>0, <1>1, <2>1 DEF DebrisOwned, ShortOwned, BlankOwned
  <2>4. ErrorsCounted'
    <3>1. Ended' = {}
      BY <2>1 DEF Ended
    <3>. QED
      BY <2>1, <3>1, FS_EmptySet DEF ErrorsCounted
  <2>. QED
    BY <1>2, <2>2, <2>3, <2>4 DEF CleanInv
<1>. QED
  BY <1>4, <1>5, <1>6, <1>7 DEF Main

LEMMA CleanInit == WriterAssumption /\ Init => CleanInv
<1>. SUFFICES ASSUME WriterAssumption, Init
              PROVE  CleanInv
  OBVIOUS
<1>1. \A x \in Segs : file[x].st = "none"
  BY DEF Init, NoFile
<1>2. \A i \in Slots : gpc[i] = "off"
  BY DEF Init
<1>3. RoundShape /\ InputsFull
  BY <1>2 DEF Init, RoundShape, InputsFull, NeedsA, NeedsB, WriterAssumption
<1>4. DebrisOwned /\ DocsKnown
  BY <1>1 DEF DebrisOwned, DocsKnown, Full
<1>5. Ended = {}
  BY <1>2 DEF Ended
<1>. QED
  BY <1>3, <1>4, <1>5, FS_EmptySet DEF CleanInv, ErrorsCounted, Init

LEMMA CleanNext ==
  ASSUME Known, [Next]_vars
  PROVE  CleanInv'
<1>1. CASE UNCHANGED vars
  <2>1. /\ UNCHANGED <<file, cpc, cseg, home, mpc, listing, spawned, gpc, gout>>
        /\ UNCHANGED <<errs, closed>>
    BY <1>1 DEF vars, dirVars, clientVars, roundVars, workerVars, errVars
  <2>2. RoundShape' /\ InputsFull'
    BY <2>1 DEF Known, CleanInv, RoundShape, ChunkCount, InputsFull, InputA, InputB, Full
  <2>3. DebrisOwned' /\ DocsKnown'
    BY <2>1 DEF Known, CleanInv, DebrisOwned, ShortOwned, BlankOwned, DocsKnown, Full,
                Acknowledged
  <2>4. ErrorsCounted'
    BY <2>1 DEF Known, CleanInv, ErrorsCounted, Ended, IsPair
  <2>. QED
    BY <2>2, <2>3, <2>4 DEF CleanInv
<1>2. ~Restart
  BY DEF Restart, Inject, Known, Steady
<1>. QED
  BY <1>1, <1>2, ClientClean, MergeClean, WorkerClean DEF Next

(* The three invariants together, over a behaviour.                        *)
LEMMA Invariance ==
  ASSUME Steady
  PROVE  Spec => [](TypeInv /\ SafetyInv /\ CleanInv)
<1>1. Init => TypeInv /\ SafetyInv /\ CleanInv
  BY TypeInvInit, SafetyInit, CleanInit, WriterAssumption
<1>2. TypeInv /\ SafetyInv /\ CleanInv /\ [Next]_vars => (TypeInv /\ SafetyInv /\ CleanInv)'
  BY TypeInvNext, SafetyNext, CleanNext, WriterAssumption DEF Known, Steady
<1>. QED
  BY <1>1, <1>2, PTL DEF Spec

(* Whatever failed, between calls the directory holds complete segments    *)
(* only: every failed SaveTo and Merger.Merge removed what it wrote.       *)
THEOREM NoDebrisEver ==
  ASSUME Steady
  PROVE  Spec => []NoDebris
<1>1. TypeInv /\ SafetyInv /\ CleanInv => NoDebris
  <2>. SUFFICES ASSUME TypeInv, CleanInv, mpc = "idle", \A c \in Clients : cpc[c] = "idle"
                PROVE  Present = Full
    BY DEF NoDebris
  <2>1. \A i \in Slots : gpc[i] = "off"
    BY DEF CleanInv, RoundShape
  <2>2. \A x \in Segs : file[x].st \notin {"short", "blank"}
    BY <2>1 DEF CleanInv, DebrisOwned, ShortOwned, BlankOwned
  <2>3. \A x \in Segs : file[x].st \in FileStates
    BY DEF TypeInv, TypeOK, File
  <2>. QED
    BY <2>2, <2>3 DEF Present, Full, FileStates
<1>. QED
  BY <1>1, Invariance, PTL

(* A directory that Reader.Reset accepts, at any moment of any Batch or    *)
(* Merge, answers for every acknowledged batch and for no other: a half    *)
(* written output that Load accepts never lies alone in the directory.     *)
THEOREM ReadersSeeAll ==
  ASSUME Steady
  PROVE  Spec => []ReaderSeesAll
<1>1. TypeInv /\ SafetyInv /\ CleanInv => ReaderSeesAll
  <2>. SUFFICES ASSUME TypeInv, SafetyInv, CleanInv, NEW x \in Segs, Openable(x)
                PROVE  x \in Full /\ DocsOf(file[x]) = Acknowledged
    BY DEF ReaderSeesAll
  <2>1. Present = {x} /\ file[x].st \in {"blank", "full"}
    BY DEF Openable, Loadable
  <2>2. file[x].st # "blank"
    <3>. SUFFICES ASSUME file[x].st = "blank"
                  PROVE  FALSE
      OBVIOUS
    <3>1. PICK i \in Slots : gpc[i] = "write" /\ gout[i] = x
      BY DEF CleanInv, DebrisOwned, BlankOwned
    <3>2. InputA(i) \in Full /\ InputA(i) # gout[i]
      BY <3>1, OutputFacts, WriterAssumption DEF CleanInv, InputsFull, NeedsA, HasOutput
    <3>3. InputA(i) \in Present
      BY <3>2 DEF Full, Present
    <3>. QED
      BY <2>1, <3>1, <3>2, <3>3
  <2>3. Full = {x}
    BY <2>1, <2>2 DEF Full, Present
  <2>4. DocsOf(file[x]) \subseteq Acknowledged
    BY <2>3 DEF CleanInv, DocsKnown
  <2>5. Acknowledged \subseteq DocsOf(file[x])
    BY <2>3 DEF SafetyInv, NothingLost
  <2>. QED
    BY <2>3, <2>4, <2>5
<1>. QED
  BY <1>1, Invariance, PTL

(* errorsCh has room for each error a goroutine may send in a round, which *)
(* is read only after the last goroutine was spawned.                      *)
THEOREM ErrorsAlwaysFit ==
  ASSUME Steady
  PROVE  Spec => []ErrorsHaveRoom
<1>1. TypeInv /\ SafetyInv /\ CleanInv => ErrorsHaveRoom
  <2>. SUFFICES ASSUME TypeInv, CleanInv, NEW i \in Slots, gpc[i] = "fail"
                PROVE  errs < ErrorsCapacity(Len(listing))
    BY DEF ErrorsHaveRoom
  <2>. DEFINE pairs == Len(listing) \div 2
  <2>1. Len(listing) \in Nat /\ pairs \in Nat /\ errs \in Nat /\ MaxSegments \in Nat
    BY LenProperties, WriterAssumption DEF TypeInv, TypeOK, WriterAssumption
  <2>2. Ended \subseteq 1 .. pairs
    BY <2>1 DEF Ended, IsPair, Slots
  <2>3. IsFiniteSet(1 .. pairs) /\ Cardinality(1 .. pairs) = pairs
    BY <2>1, FS_Interval
  <2>4. Cardinality(Ended) <= pairs /\ Cardinality(Ended) \in Nat
    BY <2>1, <2>2, <2>3, FS_Subset, EndedFinite
  <2>. QED
    BY <2>1, <2>4 DEF CleanInv, ErrorsCounted, ErrorsCapacity
<1>. QED
  BY <1>1, Invariance, PTL

(* When Merge returns nil the directory holds one file, which is complete  *)
(* and has the documents of the acknowledged batches and no others.        *)
THEOREM MergeLeavesUnit ==
  ASSUME Steady
  PROVE  Spec => MergedToUnit
<1>1. TypeInv /\ SafetyInv /\ CleanInv /\ [Next]_vars =>
        [(mpc = "list" /\ mpc' = "idle" /\ result' = "ok") =>
           \E s \in Segs : /\ Present = {s}
                           /\ s \in Full
                           /\ DocsOf(file[s]) = Acknowledged]_vars
  <2>. SUFFICES ASSUME TypeInv, SafetyInv, CleanInv, Next,
                       mpc = "list", mpc' = "idle", result' = "ok"
                PROVE  \E x \in Segs : /\ Present = {x} /\ x \in Full
                                       /\ DocsOf(file[x]) = Acknowledged
    OBVIOUS
  <2>1. (\A i \in Slots : gpc[i] = "off") /\ \A c \in Clients : cpc[c] = "idle"
    BY DEF CleanInv, RoundShape, SafetyInv, NoBatchDuringMerge
  <2>2. IsUnit(Cardinality(Present))
    <3>1. \A c \in Clients : ~Client(c)
      BY DEF Client, BeginBatch, CreateSegment, SaveSegment, clientVars
    <3>2. \A i \in Slots : ~Worker(i)
      BY <2>1 DEF Worker, LoadA, LoadB, Load, CreateOutput, ReserveOutput, WriteOutput,
                  RemoveA, RemoveB, Remove, SendError, Release
    <3>3. ~Restart
      BY DEF Restart, Inject, Steady
    <3>4. ListDirectory
      BY <3>1, <3>2, <3>3 DEF Next, CallMerge, Main, Spawn, StartCollecting,
         ReceiveError, EndRound, CloseErrors
    <3>. QED
      BY <3>4 DEF ListDirectory, Return
  <2>3. PICK x : Present = {x}
    BY <2>2, PresentFinite, FS_Singleton, WriterAssumption DEF IsUnit, WriterAssumption
  <2>4. x \in Segs /\ file[x].st \in FileStates \ {"none"}
    BY <2>3 DEF Present, TypeInv, TypeOK, File
  <2>5. file[x].st \notin {"short", "blank"}
    BY <2>1, <2>4 DEF CleanInv, DebrisOwned, ShortOwned, BlankOwned
  <2>6. Openable(x) /\ Full = {x}
    BY <2>3, <2>4, <2>5 DEF Openable, Loadable, FileStates, Full, Present
  <2>7. DocsOf(file[x]) = Acknowledged
    BY <2>6 DEF CleanInv, DocsKnown, SafetyInv, NothingLost
  <2>. QED
    BY <2>3, <2>4, <2>6, <2>7
<1>. QED
  BY <1>1, Invariance, PTL DEF MergedToUnit, Spec

-----------------------------------------------------------------------------
(* With no os.Remove failing either, each document is in one live segment. *)
(* The invariant behind RoundConsumesInputs and ImplementsCorpus.          *)

(* A client saves a batch that no other does and none has acknowledged.    *)
BatchesApart ==
  /\ \A c \in Clients : cpc[c] # "idle" => home[cbatch[c]] = 0
  /\ \A c, d \in Clients : c # d /\ cpc[c] # "idle" /\ cpc[d] # "idle" =>
       cbatch[c] # cbatch[d]

(* The live segments are non-empty and have no document in common.         *)
BlocksApart ==
  \A x \in Live : /\ DocsOf(file[x]) # {}
                  /\ \A y \in Live : x # y => DocsOf(file[x]) \intersect DocsOf(file[y]) = {}

(* A round without an error removes the inputs of each pair.               *)
Consumed ==
  \A i \in Slots :
    /\ gpc[i] = "removeB" => InputA(i) \notin Present
    /\ errs = 0 /\ failures = 0 /\ i \in Ended =>
         InputA(i) \notin Present /\ InputB(i) \notin Present

CorpusInv == BatchesApart /\ BlocksApart /\ Consumed

Tidy == "remove" \notin Faults
Held == Known /\ Tidy /\ CorpusInv

(* What a step does to the live segments.                                  *)
KeepsLive ==
  \A x \in Segs : (x \in Live' <=> x \in Live) /\ (x \in Live => file'[x] = file[x])
AddsLive(z, b) ==
  /\ z \in Segs \ Live /\ DocsOf(file'[z]) = {b}
  /\ \A x \in Segs : /\ x \in Live' <=> x \in Live \/ x = z
                     /\ x \in Live => file'[x] = file[x]
JoinsLive(a, b, z) ==
  /\ a \in Live /\ b \in Live /\ a # b /\ z \in Segs \ Live
  /\ DocsOf(file'[z]) = DocsOf(file[a]) \union DocsOf(file[b])
  /\ \A x \in Segs : /\ x \in Live' <=> (x \in Live /\ x # a /\ x # b) \/ x = z
                     /\ x \in Live => file'[x] = file[x]

(* A write of a file that neither was nor becomes complete.                *)
LEMMA KeepsFull ==
  ASSUME Known, NEW x \in Segs, NEW f, file[x].st # "full", f.st # "full",
         file' = [file EXCEPT ![x] = f]
  PROVE  \A y \in Segs : (y \in Full' <=> y \in Full) /\ (y \in Full => file'[y] = file[y])
<1>1. \A y \in Segs : file'[y] = IF y = x THEN f ELSE file[y]
  BY StateFacts
<1>. QED
  BY <1>1 DEF Full

LEMMA WorkerLive ==
  ASSUME Known, Tidy, NEW i \in Slots, Worker(i)
  PROVE  KeepsLive \/ (Completes(i) /\ JoinsLive(InputA(i), InputB(i), gout[i]))
<1>1. Frame(i) /\ (Quiet(i) \/ Prepares(i) \/ Completes(i) \/ Removes(i))
  BY WorkerMoves DEF Known
<1>2. UNCHANGED listing /\ \A j \in Slots \ {i} : gpc'[j] = gpc[j]
  BY <1>1 DEF Frame
<1>3. \A j \in Slots : InputA(j)' = InputA(j) /\ InputB(j)' = InputB(j)
  BY <1>2 DEF InputA, InputB
<1>. DEFINE Over(x) == \/ gpc[i] = "removeA" /\ x \in {InputA(i), InputB(i)}
                       \/ gpc[i] = "removeB" /\ x = InputB(i)
            Others(x) == \E j \in Slots \ {i} :
                           \/ gpc[j] = "removeA" /\ x \in {InputA(j), InputB(j)}
                           \/ gpc[j] = "removeB" /\ x = InputB(j)
            NowOver(x) == \/ gpc'[i] = "removeA" /\ x \in {InputA(i), InputB(i)}
                          \/ gpc'[i] = "removeB" /\ x = InputB(i)
<1>4. \A x \in Segs : /\ x \in Superseded <=> Over(x) \/ Others(x)
                      /\ x \in Superseded' <=> NowOver(x) \/ Others(x)
  BY <1>2, <1>3 DEF Superseded
<1>. HIDE DEF Over, Others, NowOver
<1>5. CASE Quiet(i) \/ Prepares(i)
  <2>1. /\ gpc[i] \notin {"removeA", "removeB"}
        /\ gpc'[i] \notin {"removeA", "removeB"}
    BY <1>5
    DEF Quiet, Prepares, LoadsA, LoadsB, GivesUp, Reports, Ends, Creates, Reserves,
        Discards, Moves
  <2>2. \A x \in Segs : x \in Superseded' <=> x \in Superseded
    BY <1>4, <2>1 DEF Over, NowOver
  <2>3. \A x \in Segs : (x \in Full' <=> x \in Full) /\ (x \in Full => file'[x] = file[x])
    <3>1. CASE UNCHANGED file
      BY <3>1 DEF Full
    <3>2. CASE Creates(i)
      <4>1. PICK x \in Segs : x = counter + 1 /\ file' = [file EXCEPT ![x] = ShortFile]
        BY <3>2 DEF Creates, Writes
      <4>2. x \notin Present
        BY <4>1, StateFacts DEF Known, SafetyInv, NamesCounted
      <4>3. file[x].st # "full" /\ ShortFile.st # "full"
        BY <4>2 DEF Present, ShortFile
      <4>. QED
        BY <4>1, <4>3, KeepsFull
    <3>3. CASE Reserves(i) \/ Discards(i)
      <4>1. PICK x \in Segs : /\ x = gout[i]
                              /\ \E f \in {BlankFile, NoFile} : file' = [file EXCEPT ![x] = f]
        BY <3>3 DEF Reserves, Discards, Writes
      <4>2. gpc[i] \in {"reserve", "write"}
        BY <3>3 DEF Reserves, Discards, Moves
      <4>3. file[x].st # "full"
        BY <4>1, <4>2 DEF Known, SafetyInv, OutputsOwned, OutputOwned, HasOutput
      <4>4. BlankFile.st # "full" /\ NoFile.st # "full"
        BY DEF BlankFile, NoFile
      <4>. QED
        BY <4>1, <4>3, <4>4, KeepsFull
    <3>. QED
      BY <1>5, <3>1, <3>2, <3>3
      DEF Quiet, Prepares, LoadsA, LoadsB, GivesUp, Reports, Ends
  <2>. QED
    BY <2>2, <2>3 DEF KeepsLive, Live, Full
<1>6. CASE Removes(i)
  <2>1. PICK z \in Segs : /\ Over(z) /\ file' = [file EXCEPT ![z] = NoFile]
                          /\ \A x \in Segs : x # z => (NowOver(x) <=> Over(x))
    <3>1. CASE RemovesA(i)
      BY <1>6, <3>1 DEF RemovesA, Moves, Writes, Tidy, Over, NowOver
    <3>2. CASE RemovesB(i)
      BY <1>6, <3>2 DEF RemovesB, Moves, Writes, Tidy, Over, NowOver
    <3>. QED
      BY <1>6, <3>1, <3>2 DEF Removes
  <2>2. NoFile.st # "full"
    BY DEF NoFile
  <2>3. z \in Superseded /\ z \notin Full'
    BY <1>4, <2>1, <2>2, StateFacts DEF Full
  <2>4. \A x \in Segs : x # z => /\ file'[x] = file[x]
                                 /\ x \in Superseded' <=> x \in Superseded
    BY <1>4, <2>1, StateFacts
  <2>. QED
    BY <2>3, <2>4 DEF KeepsLive, Live, Full
<1>7. CASE Completes(i)
  <2>. DEFINE a == InputA(i)  b == InputB(i)  z == gout[i]
  <2>1. /\ gpc[i] = "write" /\ gpc'[i] = "removeA" /\ z \in Segs
        /\ file' = [file EXCEPT ![z] = FullFile(Merged(a, b))]
    BY <1>7 DEF Completes, Moves, Writes
  <2>2. /\ gpc[i] \in Active /\ gpc[i] \in HasOutput /\ gpc[i] \in NeedsA
        /\ gpc[i] \in NeedsB
    BY <2>1 DEF Active, HasOutput, NeedsA, NeedsB
  <2>3. a \in Full /\ b \in Full /\ a \in Segs /\ b \in Segs
    BY <2>2 DEF Known, CleanInv, InputsFull, Full
  <2>4. a # b /\ a # z /\ b # z
    BY <2>2, InputsDistinct, OutputFacts DEF Known, SafetyInv
  <2>5. ~Others(a) /\ ~Others(b) /\ ~Others(z)
    <3>. SUFFICES ASSUME NEW j \in Slots \ {i}, gpc[j] \in {"removeA", "removeB"}
                  PROVE  /\ a # InputA(j) /\ a # InputB(j)
                         /\ b # InputA(j) /\ b # InputB(j)
                         /\ z # InputA(j) /\ z # InputB(j)
      BY DEF Others
    <3>1. gpc[j] \in Active
      BY DEF Active
    <3>2. WriterAssumption /\ TypeInv /\ ListingDistinct
      BY DEF Known, SafetyInv
    <3>. QED
      BY <2>2, <3>1, <3>2, InputsDistinct, InputsNoOutputs
  <2>6. file[z].st # "full"
    BY <2>1, <2>2 DEF Known, SafetyInv, OutputsOwned, OutputOwned
  <2>7. /\ ~Over(a) /\ ~Over(b) /\ NowOver(a) /\ NowOver(b) /\ ~NowOver(z)
        /\ \A x \in Segs : x # a /\ x # b => (NowOver(x) <=> Over(x))
    BY <2>1, <2>4 DEF Over, NowOver
  <2>8. /\ file'[z] = FullFile(Merged(a, b)) /\ file'[z].st = "full"
        /\ \A x \in Segs : x # z => file'[x] = file[x]
    BY <2>1, StateFacts DEF FullFile
  <2>9. DocsOf(file'[z]) = DocsOf(file[a]) \union DocsOf(file[b])
    BY <2>3, <2>8, MergedDocs, StateFacts
  <2>. HIDE DEF a, b, z
  <2>10. a \in Live /\ b \in Live /\ z \notin Live
    BY <1>4, <2>3, <2>5, <2>6, <2>7 DEF Live, Full
  <2>11. \A x \in Segs : /\ x \in Live' <=> (x \in Live /\ x # a /\ x # b) \/ x = z
                         /\ x \in Live => file'[x] = file[x]
    BY <1>4, <2>1, <2>3, <2>4, <2>5, <2>6, <2>7, <2>8 DEF Live, Full
  <2>12. JoinsLive(a, b, z)
    BY <2>1, <2>4, <2>9, <2>10, <2>11 DEF JoinsLive
  <2>. QED
    BY <1>7, <2>12 DEF a, b, z
<1>. QED
  BY <1>1, <1>5, <1>6, <1>7

(* No step of a goroutine gives a listed name back to the directory.       *)
LEMMA ListedStaysGone ==
  ASSUME Known, NEW i \in Slots, Worker(i),
         NEW k \in 1 .. Len(listing), listing[k] \notin Present
  PROVE  listing[k] \notin Present'
<1>1. Quiet(i) \/ Prepares(i) \/ Completes(i) \/ Removes(i)
  BY WorkerMoves DEF Known
<1>2. listing[k] <= counter /\ listing[k] \in Segs
  BY StateFacts, ElementOfSeq DEF Known, SafetyInv, ListingDistinct
<1>3. CASE UNCHANGED file
  BY <1>3 DEF Present
<1>4. CASE \E x \in Segs : x # listing[k] /\ \E f : file' = [file EXCEPT ![x] = f]
  <2>1. file'[listing[k]] = file[listing[k]]
    BY <1>2, <1>4, StateFacts
  <2>. QED
    BY <1>2, <2>1 DEF Present
<1>5. CASE \E x \in Segs : file' = [file EXCEPT ![x] = NoFile]
  <2>1. file'[listing[k]] \in {file[listing[k]], NoFile}
    BY <1>2, <1>5, StateFacts
  <2>. QED
    BY <1>2, <2>1 DEF Present, NoFile
<1>6. CASE Creates(i)
  <2>1. counter + 1 # listing[k]
    BY <1>2, StateFacts
  <2>. QED
    BY <1>4, <1>6, <2>1 DEF Creates, Writes
<1>7. CASE Reserves(i) \/ Discards(i) \/ Completes(i)
  <2>1. gpc[i] \in HasOutput
    BY <1>7 DEF Reserves, Discards, Completes, Moves, HasOutput
  <2>2. gout[i] # listing[k]
    BY <2>1 DEF Known, SafetyInv, OutputsOwned, OutputOwned
  <2>. QED
    BY <1>4, <1>7, <2>2 DEF Reserves, Discards, Completes, Writes
<1>. QED
  BY <1>1, <1>3, <1>5, <1>6, <1>7
  DEF Quiet, Prepares, Removes, LoadsA, LoadsB, GivesUp, Reports, Ends, RemovesA,
      RemovesB, Writes

LEMMA WorkerConsumed ==
  ASSUME Held, NEW i \in Slots, Worker(i)
  PROVE  Consumed'
<1>1. Known /\ Tidy /\ Consumed
  BY DEF Held, CorpusInv
<1>2. Frame(i) /\ (Quiet(i) \/ Prepares(i) \/ Completes(i) \/ Removes(i))
  BY <1>1, WorkerMoves DEF Known
<1>3. UNCHANGED <<listing, failures>> /\ \A j \in Slots \ {i} : gpc'[j] = gpc[j]
  BY <1>2 DEF Frame
<1>4. \A j \in Slots : InputA(j)' = InputA(j) /\ InputB(j)' = InputB(j)
  BY <1>3 DEF InputA, InputB
<1>5. \/ errs' = errs
      \/ Reports(i) /\ errs' = errs + 1
  BY <1>2
  DEF Quiet, Prepares, Removes, LoadsA, LoadsB, GivesUp, Reports, Ends, Creates,
      Reserves, Discards, Completes, RemovesA, RemovesB
<1>6. errs' = 0 => errs = 0 /\ ~Reports(i)
  <2>1. errs \in Nat
    BY <1>1, StateFacts
  <2>. QED
    BY <1>5, <2>1 DEF Reports
(* The inputs of a pair of the round are listed.                           *)
<1>7. ASSUME NEW j \in Slots, IsPair(j), NEW x \in {InputA(j), InputB(j)},
             x \notin Present
      PROVE  x \notin Present'
  <2>1. 2 * j - 1 \in 1 .. Len(listing) /\ 2 * j \in 1 .. Len(listing)
    <3>1. Len(listing) \in Nat /\ j \in Nat \ {0}
      BY <1>1, StateFacts, LenProperties DEF Slots
    <3>. QED
      BY <1>7, <3>1 DEF IsPair
  <2>. QED
    BY <1>1, <1>7, <2>1, ListedStaysGone DEF InputA, InputB
<1>8. ASSUME NEW j \in Slots, gpc[j] = "removeB"
      PROVE  IsPair(j)
  <2>1. gpc[j] \in HasOutput /\ gpc[j] \in Active
    BY <1>8 DEF HasOutput, Active
  <2>. QED
    BY <1>1, <2>1 DEF Known, TypeInv, ActiveInRound
<1>9. ASSUME NEW j \in Slots \ {i}
      PROVE  /\ gpc'[j] = "removeB" => InputA(j)' \notin Present'
             /\ errs' = 0 /\ failures' = 0 /\ j \in Ended' =>
                  InputA(j)' \notin Present' /\ InputB(j)' \notin Present'
  <2>1. j \in Ended' => j \in Ended /\ IsPair(j)
    BY <1>3 DEF Ended, IsPair
  <2>. QED
    BY <1>1, <1>3, <1>4, <1>6, <1>7, <1>8, <2>1 DEF Consumed
<1>10. /\ gpc'[i] = "removeB" => InputA(i)' \notin Present'
       /\ errs' = 0 /\ failures' = 0 /\ i \in Ended' =>
            InputA(i)' \notin Present' /\ InputB(i)' \notin Present'
  <2>1. CASE RemovesA(i)
    <3>1. /\ gpc'[i] = "removeB" /\ InputA(i) \in Segs
          /\ file' = [file EXCEPT ![InputA(i)] = NoFile]
      BY <1>1, <2>1 DEF RemovesA, Moves, Writes, Tidy
    <3>2. file'[InputA(i)].st = "none"
      BY <1>1, <3>1, StateFacts DEF NoFile
    <3>. QED
      BY <1>4, <3>1, <3>2 DEF Present, Ended
  <2>2. CASE RemovesB(i)
    <3>1. /\ gpc[i] = "removeB" /\ gpc'[i] = "release" /\ InputB(i) \in Segs
          /\ file' = [file EXCEPT ![InputB(i)] = NoFile]
      BY <1>1, <2>2 DEF RemovesB, Moves, Writes, Tidy
    <3>2. file'[InputB(i)].st = "none"
      BY <1>1, <3>1, StateFacts DEF NoFile
    <3>3. InputA(i) \notin Present'
      BY <1>1, <1>7, <1>8, <3>1 DEF Consumed
    <3>. QED
      BY <1>4, <3>1, <3>2, <3>3 DEF Present
  <2>3. CASE Ends(i)
    <3>1. gpc[i] = "release" /\ gpc'[i] = "done" /\ UNCHANGED file
      BY <2>3 DEF Ends, Moves
    <3>2. i \in Ended' => i \in Ended
      BY <1>3, <3>1 DEF Ended, IsPair
    <3>. QED
      BY <1>1, <1>3, <1>4, <1>6, <3>1, <3>2 DEF Consumed, Present
  <2>4. CASE Reports(i)
    BY <1>6, <2>4 DEF Reports, Moves
  <2>5. CASE ~RemovesA(i) /\ ~RemovesB(i) /\ ~Ends(i) /\ ~Reports(i)
    <3>1. gpc'[i] \notin {"removeB", "release", "done"}
      BY <1>2, <2>5
      DEF Quiet, Prepares, Removes, LoadsA, LoadsB, GivesUp, Creates, Reserves,
          Discards, Completes, Moves
    <3>. QED
      BY <3>1 DEF Ended
  <2>. QED
    BY <2>1, <2>2, <2>3, <2>4, <2>5
<1>. QED
  BY <1>9, <1>10 DEF Consumed

(* What a step does to the live segments keeps them apart.                 *)
LEMMA ApartKept ==
  ASSUME BlocksApart,
         \/ KeepsLive
         \/ \E a, b, z \in Segs : JoinsLive(a, b, z)
         \/ \E z \in Segs, b \in Batches :
              AddsLive(z, b) /\ \A x \in Live : b \notin DocsOf(file[x])
  PROVE  BlocksApart'
<1>. USE DEF BlocksApart
<1>0. Live' \subseteq Segs /\ Live \subseteq Segs
  BY DEF Live, Full
<1>1. ASSUME KeepsLive
      PROVE  BlocksApart'
  <2>1. \A x \in Live' : x \in Live /\ file'[x] = file[x]
    BY <1>0, <1>1 DEF KeepsLive
  <2>2. \A x \in Live' : DocsOf(file'[x]) # {}
    BY <2>1
  <2>3. \A x, y \in Live' : x # y => DocsOf(file'[x]) \intersect DocsOf(file'[y]) = {}
    BY <2>1
  <2>. QED
    BY <2>2, <2>3 DEF DocsOf
<1>2. ASSUME NEW a \in Segs, NEW b \in Segs, NEW z \in Segs, JoinsLive(a, b, z)
      PROVE  BlocksApart'
  <2>1. /\ a \in Live /\ b \in Live /\ z \notin Live
        /\ DocsOf(file'[z]) = DocsOf(file[a]) \union DocsOf(file[b])
        /\ \A x \in Live' : x # z => x \in Live /\ x # a /\ x # b /\ file'[x] = file[x]
    BY <1>0, <1>2 DEF JoinsLive
  <2>2. \A x \in Live' : DocsOf(file'[x]) # {}
    BY <2>1
  <2>3. ASSUME NEW x \in Live', NEW y \in Live', x # y
        PROVE  DocsOf(file'[x]) \intersect DocsOf(file'[y]) = {}
    <3>1. CASE x = z
      BY <2>1, <2>3, <3>1
    <3>2. CASE y = z
      BY <2>1, <2>3, <3>2
    <3>3. CASE x # z /\ y # z
      BY <2>1, <2>3, <3>3
    <3>. QED
      BY <3>1, <3>2, <3>3
  <2>. QED
    BY <2>2, <2>3 DEF DocsOf
<1>3. ASSUME NEW z \in Segs, NEW b \in Batches, AddsLive(z, b),
             \A x \in Live : b \notin DocsOf(file[x])
      PROVE  BlocksApart'
  <2>1. /\ z \notin Live /\ DocsOf(file'[z]) = {b}
        /\ \A x \in Live' : x # z => x \in Live /\ file'[x] = file[x]
    BY <1>0, <1>3 DEF AddsLive
  <2>2. \A x \in Live' : DocsOf(file'[x]) # {}
    BY <2>1
  <2>3. ASSUME NEW x \in Live', NEW y \in Live', x # y
        PROVE  DocsOf(file'[x]) \intersect DocsOf(file'[y]) = {}
    BY <1>3, <2>1, <2>3
  <2>. QED
    BY <2>2, <2>3 DEF DocsOf
<1>. QED
  BY <1>1, <1>2, <1>3

LEMMA WorkerCorpus ==
  ASSUME Held, NEW i \in Slots, Worker(i)
  PROVE  CorpusInv'
<1>1. Known /\ Tidy /\ CorpusInv
  BY DEF Held
<1>2. UNCHANGED <<cpc, cbatch, home>>
  BY <1>1, WorkerMoves DEF Known, Frame
<1>3. BatchesApart'
  BY <1>1, <1>2 DEF CorpusInv, BatchesApart
<1>4. KeepsLive \/ \E a, b, z \in Segs : JoinsLive(a, b, z)
  <2>1. ASSUME JoinsLive(InputA(i), InputB(i), gout[i])
        PROVE  InputA(i) \in Segs /\ InputB(i) \in Segs /\ gout[i] \in Segs
    BY <2>1 DEF JoinsLive, Live, Full
  <2>. QED
    BY <1>1, <2>1, WorkerLive
<1>5. BlocksApart'
  BY <1>1, <1>4, ApartKept DEF CorpusInv
<1>. QED
  BY <1>3, <1>5, WorkerConsumed DEF CorpusInv

(* The steps of a client: no goroutine runs, so every complete segment is  *)
(* live.                                                                   *)
LEMMA AllLive ==
  ASSUME \A i \in Slots : gpc[i] \notin {"removeA", "removeB"}
  PROVE  Live = Full
  BY DEF Live, Superseded

LEMMA ClientLive ==
  ASSUME Known, NEW c \in Clients, Client(c)
  PROVE  \/ KeepsLive
         \/ /\ cpc[c] = "save" /\ home' = [home EXCEPT ![cbatch[c]] = cseg[c]]
            /\ cbatch[c] \in Batches /\ AddsLive(cseg[c], cbatch[c])
<1>. USE DEF dirVars, clientVars, roundVars, workerVars, errVars
<1>1. mpc = "idle" /\ UNCHANGED gpc
  BY DEF Client, BeginBatch, CreateSegment, SaveSegment, Known, SafetyInv,
         NoBatchDuringMerge
<1>2. \A i \in Slots : gpc[i] = "off" /\ gpc'[i] = "off"
  BY <1>1 DEF Known, CleanInv, RoundShape
<1>3. Live = Full /\ Live' = Full'
  BY <1>2, AllLive DEF Live, Superseded
<1>4. CASE UNCHANGED file
  BY <1>3, <1>4 DEF KeepsLive, Full
<1>5. ASSUME cpc[c] # "idle"
      PROVE  /\ cseg[c] \in Segs /\ cbatch[c] \in Batches
             /\ file[cseg[c]].st # "full"
  BY <1>5 DEF Known, TypeInv, BusyClients, SafetyInv, ClientOwnsSegment
<1>6. ASSUME cpc[c] # "idle",
             NEW f \in {ShortFile, NoFile}, file' = [file EXCEPT ![cseg[c]] = f]
      PROVE  KeepsLive
  <2>1. PICK x \in Segs : x = cseg[c]
    BY <1>5, <1>6
  <2>2. f.st # "full"
    BY DEF ShortFile, NoFile
  <2>. QED
    BY <1>3, <1>5, <1>6, <2>1, <2>2, KeepsFull DEF KeepsLive
<1>7. ASSUME cpc[c] = "save",
             file' = [file EXCEPT ![cseg[c]] = FullFile(<<cbatch[c]>>)]
      PROVE  cbatch[c] \in Batches /\ AddsLive(cseg[c], cbatch[c])
  <2>1. /\ FullFile(<<cbatch[c]>>).st = "full"
        /\ DocsOf(FullFile(<<cbatch[c]>>)) = {cbatch[c]}
    BY DEF FullFile, DocsOf
  <2>2. /\ file'[cseg[c]] = FullFile(<<cbatch[c]>>)
        /\ \A x \in Segs : x # cseg[c] => file'[x] = file[x]
    BY <1>5, <1>7, StateFacts
  <2>. QED
    BY <1>3, <1>5, <1>7, <2>1, <2>2 DEF AddsLive, Full, DocsOf
<1>. QED
  BY <1>4, <1>6, <1>7 DEF Client, BeginBatch, CreateSegment, SaveSegment

LEMMA ClientCorpus ==
  ASSUME Held, NEW c \in Clients, Client(c)
  PROVE  CorpusInv'
<1>. USE DEF dirVars, clientVars, roundVars, workerVars, errVars
<1>1. Known /\ Tidy /\ BatchesApart /\ BlocksApart
  BY DEF Held, CorpusInv
<1>2. \A i \in Slots : gpc'[i] = "off"
  <2>1. mpc = "idle" /\ UNCHANGED gpc
    BY <1>1 DEF Client, BeginBatch, CreateSegment, SaveSegment, Known, SafetyInv,
           NoBatchDuringMerge
  <2>. QED
    BY <1>1, <2>1 DEF Known, CleanInv, RoundShape
<1>3. Consumed'
  BY <1>2 DEF Consumed, Ended
<1>4. BatchesApart'
  <2>1. ASSUME NEW b \in Batches, BeginBatch(c, b)
        PROVE  BatchesApart'
    <3>1. /\ home[b] = 0 /\ UNCHANGED home /\ cbatch'[c] = b
          /\ \A d \in Clients : cbatch[d] # b
          /\ \A d \in Clients \ {c} : cpc'[d] = cpc[d] /\ cbatch'[d] = cbatch[d]
      BY <1>1, <2>1, StateFacts DEF BeginBatch, Known, TypeInv, TypeOK
    <3>. QED
      BY <1>1, <3>1 DEF BatchesApart
  <2>2. ASSUME CreateSegment(c) \/ SaveSegment(c)
        PROVE  BatchesApart'
    <3>1. /\ cpc[c] # "idle"
          /\ cpc'[c] # "idle" => cbatch'[c] = cbatch[c]
          /\ \A d \in Clients \ {c} : cpc'[d] = cpc[d] /\ cbatch'[d] = cbatch[d]
          /\ \/ UNCHANGED home
             \/ cpc'[c] = "idle" /\ home' = [home EXCEPT ![cbatch[c]] = cseg[c]]
      BY <1>1, <2>2, StateFacts
      DEF CreateSegment, SaveSegment, ClientDone, Known, TypeInv, TypeOK
    <3>2. \A d \in Clients \ {c} : cpc[d] # "idle" =>
            cbatch[d] # cbatch[c] /\ cbatch[d] \in Batches
      BY <1>1, <3>1 DEF BatchesApart, Known, TypeInv, BusyClients
    <3>3. \A d \in Clients : cpc'[d] # "idle" => home'[cbatch'[d]] = 0
      BY <1>1, <3>1, <3>2, StateFacts DEF BatchesApart
    <3>4. \A d, e \in Clients : d # e /\ cpc'[d] # "idle" /\ cpc'[e] # "idle" =>
            cbatch'[d] # cbatch'[e]
      BY <1>1, <3>1 DEF BatchesApart
    <3>. QED
      BY <3>3, <3>4 DEF BatchesApart
  <2>. QED
    BY <2>1, <2>2 DEF Client
<1>5. CASE KeepsLive
  BY <1>1, <1>3, <1>4, <1>5, ApartKept DEF CorpusInv
<1>6. CASE cpc[c] = "save" /\ cbatch[c] \in Batches /\ AddsLive(cseg[c], cbatch[c])
  <2>1. home[cbatch[c]] = 0
    BY <1>1, <1>6 DEF BatchesApart
  <2>2. \A x \in Live : cbatch[c] \notin DocsOf(file[x])
    BY <1>1, <2>1 DEF Known, CleanInv, DocsKnown, Acknowledged, Live
  <2>3. cseg[c] \in Segs
    BY <1>6 DEF AddsLive
  <2>4. BlocksApart'
    BY <1>1, <1>6, <2>2, <2>3, ApartKept
  <2>. QED
    BY <1>3, <1>4, <2>4 DEF CorpusInv
<1>. QED
  BY <1>1, <1>5, <1>6, ClientLive

(* The calling goroutine and the closer leave the live segments alone.     *)
LEMMA MergeLive ==
  ASSUME Known, CallMerge \/ Main \/ CloseErrors
  PROVE  KeepsLive
<1>. USE DEF dirVars, clientVars, roundVars, workerVars, errVars
<1>1. UNCHANGED file
  BY DEF CallMerge, Main, ListDirectory, Spawn, StartCollecting, ReceiveError,
         EndRound, CloseErrors
<1>2. Superseded' = Superseded
  <2>1. CASE CallMerge \/ StartCollecting \/ ReceiveError \/ CloseErrors
    BY <2>1
    DEF CallMerge, StartCollecting, ReceiveError, CloseErrors, Superseded, InputA, InputB
  <2>2. CASE Spawn
    <3>1. /\ UNCHANGED listing
          /\ \A i \in Slots : i # spawned + 1 => gpc'[i] = gpc[i]
          /\ \A i \in Slots : i = spawned + 1 =>
               gpc[i] = "off" /\ gpc'[i] \in {"loadA", "release"}
      <4>1. spawned \in Nat /\ RoundShape
        BY DEF Known, TypeInv, TypeOK, CleanInv
      <4>. QED
        BY <2>2, <4>1, StateFacts DEF Spawn, RoundShape
    <3>2. \A i \in Slots : gpc'[i] = gpc[i] \/
            (gpc[i] \notin {"removeA", "removeB"} /\ gpc'[i] \notin {"removeA", "removeB"})
      BY <3>1
    <3>. QED
      BY <3>1, <3>2 DEF Superseded, InputA, InputB
  <2>3. CASE ListDirectory \/ EndRound
    <3>1. \A i \in Slots : gpc[i] \notin {"removeA", "removeB"} /\ gpc'[i] = "off"
      <4>1. CASE ListDirectory
        BY <4>1 DEF ListDirectory, Known, CleanInv, RoundShape
      <4>2. CASE EndRound
        BY <4>2, RoundOver DEF EndRound, Active
      <4>. QED
        BY <2>3, <4>1, <4>2
    <3>. QED
      BY <3>1 DEF Superseded
  <2>. QED
    BY <2>1, <2>2, <2>3 DEF Main
<1>. QED
  BY <1>1, <1>2 DEF KeepsLive, Live, Full

LEMMA MergeCorpus ==
  ASSUME Held, CallMerge \/ Main \/ CloseErrors
  PROVE  CorpusInv'
<1>. USE DEF dirVars, clientVars, roundVars, workerVars, errVars
<1>1. Known /\ BatchesApart /\ BlocksApart /\ Consumed
  BY DEF Held, CorpusInv
<1>2. UNCHANGED <<file, cpc, cbatch, home>>
  BY DEF CallMerge, Main, ListDirectory, Spawn, StartCollecting, ReceiveError,
         EndRound, CloseErrors
<1>3. BatchesApart' /\ BlocksApart'
  BY <1>1, <1>2, MergeLive, ApartKept DEF BatchesApart
<1>4. CASE ListDirectory \/ EndRound
  <2>1. \A i \in Slots : gpc'[i] = "off"
    BY <1>1, <1>4 DEF ListDirectory, EndRound, Known, CleanInv, RoundShape
  <2>. QED
    BY <1>3, <2>1 DEF CorpusInv, Consumed, Ended
<1>5. CASE Spawn
  <2>1. /\ UNCHANGED <<listing, errs, failures>>
        /\ \A i \in Slots : i # spawned + 1 => gpc'[i] = gpc[i]
        /\ \A i \in Slots : i = spawned + 1 =>
             gpc'[i] = IF IsPair(i) THEN "loadA" ELSE "release"
    BY <1>1, <1>5, StateFacts DEF Spawn
  <2>2. \A i \in Slots : /\ gpc'[i] = "removeB" => gpc[i] = "removeB"
                         /\ i \in Ended' => i \in Ended
    BY <2>1 DEF Ended, IsPair
  <2>3. Consumed'
    BY <1>1, <1>2, <2>1, <2>2 DEF Consumed, InputA, InputB, Present
  <2>. QED
    BY <1>3, <2>3 DEF CorpusInv
<1>6. CASE CallMerge \/ StartCollecting \/ CloseErrors \/ ReceiveError
  <2>1. UNCHANGED <<gpc, listing>>
    BY <1>6 DEF CallMerge, StartCollecting, CloseErrors, ReceiveError
  <2>2. errs' = 0 /\ failures' = 0 => errs = 0 /\ failures = 0
    <3>1. errs \in Nat /\ failures \in Nat
      BY <1>1 DEF Known, TypeInv, TypeOK
    <3>. QED
      BY <1>6, <3>1 DEF CallMerge, StartCollecting, CloseErrors, ReceiveError
  <2>3. Ended' = Ended
    BY <2>1 DEF Ended, IsPair
  <2>4. Consumed'
    BY <1>1, <1>2, <2>1, <2>2, <2>3 DEF Consumed, InputA, InputB, Present
  <2>. QED
    BY <1>3, <2>4 DEF CorpusInv
<1>. QED
  BY <1>4, <1>5, <1>6 DEF Main

LEMMA CorpusNext ==
  ASSUME Held, [Next]_vars
  PROVE  CorpusInv'
<1>1. CASE UNCHANGED vars
  <2>1. /\ UNCHANGED <<file, cpc, cbatch, home, listing, gpc, errs, failures>>
    BY <1>1 DEF vars, dirVars, clientVars, roundVars, workerVars, errVars
  <2>2. BatchesApart' /\ Consumed'
    BY <2>1 DEF Held, CorpusInv, BatchesApart, Consumed, Ended, IsPair, InputA, InputB,
                Present
  <2>3. KeepsLive
    BY <2>1 DEF KeepsLive, Live, Full, Superseded, InputA, InputB
  <2>. QED
    BY <2>2, <2>3, ApartKept DEF Held, CorpusInv
<1>2. ~Restart
  BY DEF Restart, Inject, Held, Known, Steady
<1>. QED
  BY <1>1, <1>2, ClientCorpus, MergeCorpus, WorkerCorpus DEF Next

LEMMA CorpusInit == Init => CorpusInv
<1>. SUFFICES ASSUME Init
              PROVE  CorpusInv
  OBVIOUS
<1>1. /\ \A x \in Segs : file[x].st = "none"
      /\ \A c \in Clients : cpc[c] = "idle"
      /\ \A i \in Slots : gpc[i] = "off"
  BY DEF Init, NoFile
<1>. QED
  BY <1>1 DEF CorpusInv, BatchesApart, BlocksApart, Consumed, Ended, Live, Full

LEMMA CorpusInvariance ==
  ASSUME Steady, Tidy
  PROVE  Spec => [](TypeInv /\ SafetyInv /\ CleanInv /\ CorpusInv)
<1>1. Init => CorpusInv
  BY CorpusInit
<1>2. TypeInv /\ SafetyInv /\ CleanInv /\ CorpusInv /\ [Next]_vars => CorpusInv'
  BY CorpusNext, WriterAssumption DEF Held, Known
<1>. QED
  BY <1>1, <1>2, Invariance, PTL DEF Spec

(* Merge goes round again only when the inputs of every pair of the round  *)
(* are gone: no segment is merged twice.                                   *)
THEOREM RoundsConsume ==
  ASSUME Steady, Tidy
  PROVE  Spec => RoundConsumesInputs
<1>1. TypeInv /\ SafetyInv /\ CleanInv /\ CorpusInv /\ [Next]_vars =>
        [(mpc = "collect" /\ mpc' = "list") =>
           \A i \in 1 .. (Len(listing) \div 2) :
              {InputA(i), InputB(i)} \intersect Present = {}]_vars
  <2>. SUFFICES ASSUME TypeInv, SafetyInv, CleanInv, CorpusInv, Next,
                       mpc = "collect", mpc' = "list",
                       NEW i \in 1 .. (Len(listing) \div 2)
                PROVE  {InputA(i), InputB(i)} \intersect Present = {}
    OBVIOUS
  <2>1. Known
    BY WriterAssumption DEF Known
  <2>2. closed /\ errs = 0 /\ failures = 0
    <3>1. \A j \in Slots : Worker(j) => mpc' = mpc
      BY <2>1, WorkerMoves DEF Known, Frame
    <3>2. \A c \in Clients : Client(c) => mpc' = mpc
      BY DEF Client, BeginBatch, CreateSegment, SaveSegment
    <3>3. ~Restart
      BY DEF Restart
    <3>4. EndRound
      BY <3>1, <3>2, <3>3 DEF Next, CallMerge, Main, ListDirectory, Spawn,
         StartCollecting, ReceiveError, CloseErrors
    <3>. QED
      BY <3>4 DEF EndRound, Return
  <2>3. i \in Slots /\ IsPair(i)
    <3>1. Len(listing) \in Nat /\ Len(listing) <= MaxSegments /\ MaxSegments \in Nat
      BY <2>1, StateFacts, LenProperties DEF CleanInv, RoundShape
    <3>. QED
      BY <3>1 DEF Slots, IsPair
  <2>4. i \in Ended
    BY <2>1, <2>2, <2>3, RoundOver DEF Ended
  <2>. QED
    BY <2>2, <2>3, <2>4 DEF CorpusInv, Consumed
<1>. QED
  BY <1>1, CorpusInvariance, PTL DEF RoundConsumesInputs, Spec

-----------------------------------------------------------------------------
(* The refinement: the segments of Corpus are the live files' documents.   *)
Blocks == {DocsOf(file[s]) : s \in Live}

LEMMA BlocksKept ==
  ASSUME KeepsLive
  PROVE  Blocks' = Blocks
<1>1. Live \subseteq Segs /\ Live' \subseteq Segs
  BY DEF Live, Full
<1>. QED
  BY <1>1 DEF KeepsLive, Blocks, DocsOf

LEMMA BlocksAdded ==
  ASSUME NEW z, NEW b, AddsLive(z, b)
  PROVE  Blocks' = Blocks \union {{b}}
<1>1. /\ Live' = Live \union {z} /\ z \notin Live /\ DocsOf(file'[z]) = {b}
      /\ \A x \in Live : file'[x] = file[x]
  BY DEF AddsLive, Live, Full
<1>2. Blocks' = {DocsOf(file'[s]) : s \in Live'}
  BY DEF Blocks, DocsOf
<1>. QED
  BY <1>1, <1>2 DEF Blocks

LEMMA BlocksJoined ==
  ASSUME BlocksApart, NEW a, NEW b, NEW z, JoinsLive(a, b, z)
  PROVE  /\ DocsOf(file[a]) \in Blocks /\ DocsOf(file[b]) \in Blocks
         /\ DocsOf(file[a]) # DocsOf(file[b])
         /\ Blocks' = (Blocks \ {DocsOf(file[a]), DocsOf(file[b])})
                        \union {DocsOf(file[a]) \union DocsOf(file[b])}
<1>1. /\ Live' = (Live \ {a, b}) \union {z} /\ z \notin Live
      /\ a \in Live /\ b \in Live /\ a # b
      /\ DocsOf(file'[z]) = DocsOf(file[a]) \union DocsOf(file[b])
      /\ \A x \in Live : file'[x] = file[x]
  BY DEF JoinsLive, Live, Full
<1>2. Blocks' = {DocsOf(file'[s]) : s \in Live'}
  BY DEF Blocks, DocsOf
(* Two live segments with the same documents would share them.             *)
<1>3. \A x, y \in Live : x # y => DocsOf(file[x]) # DocsOf(file[y])
  BY DEF BlocksApart
<1>4. Blocks' = {DocsOf(file[s]) : s \in Live \ {a, b}}
                  \union {DocsOf(file[a]) \union DocsOf(file[b])}
  BY <1>1, <1>2
<1>5. {DocsOf(file[s]) : s \in Live \ {a, b}} = Blocks \ {DocsOf(file[a]), DocsOf(file[b])}
  BY <1>1, <1>3 DEF Blocks
<1>. QED
  BY <1>1, <1>3, <1>4, <1>5 DEF Blocks

LEMMA StepImplements ==
  ASSUME Held, [Next]_vars
  PROVE  CorpusOfFiles!Next \/ (Blocks' = Blocks /\ result' = result)
<1>. USE DEF CorpusOfFiles!Next
<1>1. Known /\ Tidy /\ CorpusInv /\ BlocksApart
  BY DEF Held, CorpusInv
<1>2. CASE UNCHANGED vars
  <2>1. KeepsLive /\ result' = result
    BY <1>2
    DEF vars, dirVars, workerVars, roundVars, KeepsLive, Live, Full, Superseded, InputA,
        InputB
  <2>. QED
    BY <2>1, BlocksKept
<1>3. ASSUME NEW c \in Clients, Client(c)
      PROVE  CorpusOfFiles!Next \/ (Blocks' = Blocks /\ result' = result)
  <2>1. result' = result
    BY <1>3 DEF Client, BeginBatch, CreateSegment, SaveSegment
  <2>2. CASE KeepsLive
    BY <2>1, <2>2, BlocksKept
  <2>3. CASE cpc[c] = "save" /\ cbatch[c] \in Batches /\ AddsLive(cseg[c], cbatch[c])
    <3>1. Blocks' = Blocks \union {{cbatch[c]}}
      BY <2>3, BlocksAdded
    <3>2. home[cbatch[c]] = 0
      BY <1>1, <2>3 DEF CorpusInv, BatchesApart
    <3>3. cbatch[c] \notin UNION Blocks
      BY <1>1, <3>2 DEF Known, CleanInv, DocsKnown, Acknowledged, Live, Blocks
    <3>4. CorpusOfFiles!Add(cbatch[c])
      BY <2>1, <3>1, <3>3 DEF CorpusOfFiles!Add, Blocks
    <3>. QED
      BY <2>3, <3>4
  <2>. QED
    BY <1>1, <1>3, <2>2, <2>3, ClientLive
<1>4. ASSUME NEW i \in Slots, Worker(i)
      PROVE  CorpusOfFiles!Next \/ (Blocks' = Blocks /\ result' = result)
  <2>1. result' = result
    BY <1>1, <1>4, WorkerMoves DEF Known, Frame
  <2>2. CASE KeepsLive
    BY <2>1, <2>2, BlocksKept
  <2>3. ASSUME JoinsLive(InputA(i), InputB(i), gout[i])
        PROVE  CorpusOfFiles!Next
    <3>. DEFINE p == DocsOf(file[InputA(i)])  q == DocsOf(file[InputB(i)])
    <3>1. /\ p \in Blocks /\ q \in Blocks /\ p # q
          /\ Blocks' = (Blocks \ {p, q}) \union {p \union q}
      BY <1>1, <2>3, BlocksJoined
    <3>. HIDE DEF p, q
    <3>2. CorpusOfFiles!Join(p, q)
      BY <2>1, <3>1 DEF CorpusOfFiles!Join, Blocks
    <3>. QED
      BY <3>1, <3>2 DEF Blocks
  <2>. QED
    BY <1>1, <1>4, <2>2, <2>3, WorkerLive
<1>5. ASSUME CallMerge \/ Main \/ CloseErrors
      PROVE  CorpusOfFiles!Next \/ (Blocks' = Blocks /\ result' = result)
  <2>1. Blocks' = Blocks
    BY <1>1, <1>5, MergeLive, BlocksKept
  <2>2. CASE result' = "ok" /\ ListDirectory /\ IsUnit(Cardinality(Present))
    <3>1. (\A i \in Slots : gpc[i] = "off") /\ \A c \in Clients : cpc[c] = "idle"
      BY <1>1, <2>2
      DEF ListDirectory, Known, CleanInv, RoundShape, SafetyInv, NoBatchDuringMerge
    <3>2. PICK x : Present = {x}
      BY <2>2, PresentFinite, FS_Singleton, StateFacts, <1>1 DEF IsUnit
    <3>3. \A y \in Segs : y \in Present => file[y].st = "full"
      <4>1. \A y \in Segs : file[y].st \notin {"short", "blank"}
        BY <1>1, <3>1 DEF Known, CleanInv, DebrisOwned, ShortOwned, BlankOwned
      <4>2. \A y \in Segs : file[y].st \in FileStates
        BY <1>1, StateFacts DEF File
      <4>. QED
        BY <4>1, <4>2 DEF Present, FileStates
    <3>4. Live = {x}
      BY <3>1, <3>2, <3>3, AllLive DEF Full, Present
    <3>5. Blocks = {DocsOf(file[x])}
      BY <3>4 DEF Blocks
    <3>6. Cardinality(Blocks) = 1
      BY <3>5, FS_Singleton
    <3>7. CorpusOfFiles!Cardinality(Blocks) = Cardinality(Blocks)
      BY DEF CorpusOfFiles!Cardinality, Cardinality
    <3>. QED
      BY <2>1, <2>2, <3>6, <3>7 DEF CorpusOfFiles!ReturnOk, Blocks
  <2>3. CASE result' = "failed"
    BY <2>1, <2>3 DEF CorpusOfFiles!ReturnFailed, Blocks
  <2>4. CASE result' = "none"
    BY <2>1, <2>4 DEF CorpusOfFiles!Call, Blocks
  <2>5. CASE result' = result
    BY <2>1, <2>5
  <2>. QED
    BY <1>5, <2>2, <2>3, <2>4, <2>5
    DEF CallMerge, Main, ListDirectory, Spawn, StartCollecting, ReceiveError, EndRound,
        CloseErrors, Return, errVars
<1>6. ~Restart
  BY <1>1 DEF Restart, Inject, Known, Steady
<1>. QED
  BY <1>2, <1>3, <1>4, <1>5, <1>6 DEF Next

(* However Batch calls, merge workers and failures interleave, a caller of *)
(* Writer sees Corpus: a batch added as a whole, two segments joined into  *)
(* one at the instant Merger.Merge completes, "ok" from a single segment.  *)
THEOREM WriterImplementsCorpus ==
  ASSUME Steady, Tidy
  PROVE  Spec => ImplementsCorpus
<1>1. Init => CorpusOfFiles!Init
  <2>. SUFFICES ASSUME Init
                PROVE  CorpusOfFiles!Init
    OBVIOUS
  <2>1. \A x \in Segs : file[x].st = "none"
    BY DEF Init, NoFile
  <2>2. Live = {}
    BY <2>1 DEF Live, Full
  <2>. QED
    BY <2>2 DEF CorpusOfFiles!Init, Init
<1>2. TypeInv /\ SafetyInv /\ CleanInv /\ CorpusInv /\ [Next]_vars =>
        [CorpusOfFiles!Next]_(CorpusOfFiles!vars)
  BY StepImplements, WriterAssumption DEF Held, Known, CorpusOfFiles!vars, Blocks
<1>. QED
  BY <1>1, <1>2, CorpusInvariance, PTL DEF ImplementsCorpus, CorpusOfFiles!Spec, Spec

-----------------------------------------------------------------------------
(* No segment lists a document twice, which makes ExactlyOnce of what the  *)
(* live segments hold together.                                            *)
Once(f) == \A j, k \in DOMAIN f.docs : f.docs[j] = f.docs[k] => j = k

DocsOnce == \A x \in Full : Once(file[x])

(* The concatenation of two sequences with nothing twice and nothing in    *)
(* common has nothing twice.                                               *)
LEMMA MergedOnce ==
  ASSUME file \in [Segs -> File], NEW a \in Segs, NEW b \in Segs,
         Once(file[a]), Once(file[b]),
         DocsOf(file[a]) \intersect DocsOf(file[b]) = {}
  PROVE  Once(FullFile(Merged(a, b)))
<1>. DEFINE p == file[a].docs  t == file[b].docs
<1>1. p \in Seq(Batches) /\ t \in Seq(Batches)
  BY DEF File
<1>2. FullFile(Merged(a, b)).docs = p \o t
  BY DEF FullFile, Merged
<1>3. /\ \A j, k \in DOMAIN p : p[j] = p[k] => j = k
      /\ \A j, k \in DOMAIN t : t[j] = t[k] => j = k
      /\ \A j \in DOMAIN p, k \in DOMAIN t : p[j] # t[k]
  BY DEF Once, DocsOf
<1>. HIDE DEF p, t
<1>4. /\ Len(p) \in Nat /\ DOMAIN p = 1 .. Len(p)
      /\ Len(t) \in Nat /\ DOMAIN t = 1 .. Len(t)
      /\ p \o t \in Seq(Batches) /\ Len(p \o t) = Len(p) + Len(t)
      /\ \A k \in 1 .. Len(p) + Len(t) :
           (p \o t)[k] = IF k <= Len(p) THEN p[k] ELSE t[k - Len(p)]
  BY <1>1, ConcatProperties, LenProperties
<1>5. DOMAIN (p \o t) = 1 .. Len(p) + Len(t)
  BY <1>4, LenProperties
<1>6. ASSUME NEW j \in DOMAIN (p \o t), NEW k \in DOMAIN (p \o t),
             (p \o t)[j] = (p \o t)[k]
      PROVE  j = k
  <2>1. CASE j <= Len(p) /\ k <= Len(p)
    BY <1>3, <1>4, <1>5, <1>6, <2>1
  <2>2. CASE ~(j <= Len(p)) /\ ~(k <= Len(p))
    <3>1. j - Len(p) \in DOMAIN t /\ k - Len(p) \in DOMAIN t
      BY <1>4, <1>5, <2>2
    <3>2. t[j - Len(p)] = t[k - Len(p)]
      BY <1>4, <1>5, <1>6, <2>2
    <3>3. j - Len(p) = k - Len(p)
      BY <1>3, <3>1, <3>2
    <3>. QED
      BY <1>4, <1>5, <3>3
  <2>3. CASE j <= Len(p) /\ ~(k <= Len(p))
    <3>1. j \in DOMAIN p /\ k - Len(p) \in DOMAIN t
      BY <1>4, <1>5, <2>3
    <3>2. p[j] = t[k - Len(p)]
      BY <1>4, <1>5, <1>6, <2>3
    <3>. QED
      BY <1>3, <3>1, <3>2
  <2>4. CASE ~(j <= Len(p)) /\ k <= Len(p)
    <3>1. k \in DOMAIN p /\ j - Len(p) \in DOMAIN t
      BY <1>4, <1>5, <2>4
    <3>2. p[k] = t[j - Len(p)]
      BY <1>4, <1>5, <1>6, <2>4
    <3>. QED
      BY <1>3, <3>1, <3>2
  <2>. QED
    BY <2>1, <2>2, <2>3, <2>4
<1>. QED
  BY <1>2, <1>6 DEF Once

(* The inputs of a pair being written are live.                            *)
LEMMA PairLive ==
  ASSUME Known, NEW i \in Slots, gpc[i] = "write"
  PROVE  InputA(i) \in Live /\ InputB(i) \in Live /\ InputA(i) # InputB(i)
<1>1. gpc[i] \in Active /\ gpc[i] \in NeedsA /\ gpc[i] \in NeedsB
  BY DEF Active, NeedsA, NeedsB
<1>2. InputA(i) \in Full /\ InputB(i) \in Full
  BY <1>1 DEF Known, CleanInv, InputsFull
<1>3. ASSUME NEW j \in Slots, gpc[j] \in {"removeA", "removeB"}
      PROVE  {InputA(i), InputB(i)} \intersect {InputA(j), InputB(j)} = {}
  <2>1. gpc[j] \in Active /\ i # j
    BY <1>3 DEF Active
  <2>. QED
    BY <1>1, <2>1, InputsDistinct DEF Known, SafetyInv
<1>. QED
  BY <1>1, <1>2, <1>3, InputsDistinct DEF Live, Superseded, Known, SafetyInv

LEMMA OnceNext ==
  ASSUME Held, DocsOnce, [Next]_vars
  PROVE  DocsOnce'
<1>. USE DEF dirVars, clientVars, roundVars, workerVars, errVars
<1>1. Known /\ BlocksApart
  BY DEF Held, CorpusInv
<1>2. ASSUME \A x \in Full' : \/ x \in Full /\ file'[x] = file[x]
                              \/ \E f : file'[x] = f /\ Once(f)
      PROVE  DocsOnce'
  <2>1. \A x \in Full' : Once(file'[x])
    BY <1>2 DEF DocsOnce
  <2>. QED
    BY <2>1 DEF DocsOnce, Once
<1>3. CASE UNCHANGED file
  BY <1>2, <1>3 DEF Full
<1>4. ASSUME NEW c \in Clients, Client(c)
      PROVE  DocsOnce'
  <2>1. Once(FullFile(<<cbatch[c]>>))
    BY DEF Once, FullFile
  <2>2. UNCHANGED file \/ \E f : /\ file' = [file EXCEPT ![cseg[c]] = f]
                                 /\ f.st # "full" \/ f = FullFile(<<cbatch[c]>>)
    BY <1>4
    DEF Client, BeginBatch, CreateSegment, SaveSegment, ShortFile, NoFile
  <2>3. \A x \in Full' : \/ x \in Full /\ file'[x] = file[x]
                         \/ file'[x] = FullFile(<<cbatch[c]>>)
    BY <1>1, <2>2, StateFacts DEF Full
  <2>. QED
    BY <1>2, <2>1, <2>3
<1>5. ASSUME NEW i \in Slots, Worker(i)
      PROVE  DocsOnce'
  <2>1. \A x \in Full' : \/ x \in Full /\ file'[x] = file[x]
                         \/ Completes(i) /\ x = gout[i]
    BY <1>1, <1>5, WorkerSegments
  <2>2. ASSUME Completes(i)
        PROVE  /\ file'[gout[i]] = FullFile(Merged(InputA(i), InputB(i)))
               /\ Once(FullFile(Merged(InputA(i), InputB(i))))
    <3>1. /\ gpc[i] = "write" /\ gout[i] \in Segs
          /\ file' = [file EXCEPT ![gout[i]] = FullFile(Merged(InputA(i), InputB(i)))]
      BY <2>2 DEF Completes, Moves, Writes
    <3>2. InputA(i) \in Live /\ InputB(i) \in Live /\ InputA(i) # InputB(i)
      BY <1>1, <3>1, PairLive
    <3>3. DocsOf(file[InputA(i)]) \intersect DocsOf(file[InputB(i)]) = {}
      BY <1>1, <3>2 DEF BlocksApart
    <3>4. /\ InputA(i) \in Segs /\ InputB(i) \in Segs
          /\ Once(file[InputA(i)]) /\ Once(file[InputB(i)])
      BY <3>2 DEF Live, Full, DocsOnce
    <3>. QED
      BY <1>1, <3>1, <3>3, <3>4, MergedOnce, StateFacts
  <2>. QED
    BY <1>2, <2>1, <2>2
<1>6. CASE UNCHANGED vars \/ CallMerge \/ Main \/ CloseErrors
  BY <1>3, <1>6
  DEF vars, CallMerge, Main, ListDirectory, Spawn, StartCollecting, ReceiveError,
      EndRound, CloseErrors
<1>7. ~Restart
  BY <1>1 DEF Restart, Inject, Known, Steady
<1>. QED
  BY <1>4, <1>5, <1>6, <1>7 DEF Next

(* What the output of a removing pair supersedes it also contains, so each *)
(* acknowledged batch is in a live segment.                                *)
LEMMA LiveCovers ==
  ASSUME Known, NEW b \in Acknowledged
  PROVE  \E x \in Live : b \in DocsOf(file[x])
<1>1. PICK s \in Full : b \in DocsOf(file[s])
  BY DEF Known, SafetyInv, NothingLost
<1>2. CASE s \notin Superseded
  BY <1>1, <1>2 DEF Live
<1>3. CASE s \in Superseded
  <2>1. PICK i \in Slots : \/ gpc[i] = "removeA" /\ s \in {InputA(i), InputB(i)}
                           \/ gpc[i] = "removeB" /\ s = InputB(i)
    BY <1>3 DEF Superseded
  <2>2. b \in DocsOf(file[gout[i]])
    BY <1>1, <2>1 DEF Known, SafetyInv, RemovalsCovered, RemovalCovered
  <2>3. gpc[i] \in HasOutput
    BY <2>1 DEF HasOutput
  <2>4. gout[i] \in Full
    BY <2>1, <2>3 DEF Known, SafetyInv, OutputsOwned, OutputOwned, Full
  <2>5. gout[i] \notin Superseded
    <3>. SUFFICES ASSUME NEW j \in Slots, gpc[j] \in {"removeA", "removeB"}
                  PROVE  gout[i] \notin {InputA(j), InputB(j)}
      BY DEF Superseded
    <3>. QED
      BY <2>3, InputsNoOutputs DEF Active
  <2>. QED
    BY <2>2, <2>4, <2>5 DEF Live
<1>. QED
  BY <1>2, <1>3

(* A sequence with nothing twice is no longer than what it is taken from.  *)
LEMMA OnceShort ==
  ASSUME NEW S, IsFiniteSet(S), NEW d \in Seq(S),
         \A j, k \in DOMAIN d : d[j] = d[k] => j = k
  PROVE  Len(d) <= Cardinality(S)
<1>. DEFINE I == 1 .. Len(d)
<1>1. Len(d) \in Nat /\ DOMAIN d = I /\ d \in [I -> S]
  BY LenProperties
<1>2. Cardinality(I) = Len(d)
  BY <1>1, FS_Interval
<1>. HIDE DEF I
<1>3. d \in Injection(I, S)
  BY <1>1 DEF Injection, IsInjective
<1>4. \A f \in Injection(I, S) : Cardinality(I) <= Cardinality(S)
  BY FS_Injection
<1>. QED
  BY <1>2, <1>3, <1>4

LEMMA OnceFits ==
  ASSUME IsFiniteSet(Batches), NEW f \in File, Once(f)
  PROVE  DOMAIN f.docs \subseteq 1 .. Cardinality(Batches)
<1>1. f.docs \in Seq(Batches)
  BY DEF File
<1>2. Len(f.docs) <= Cardinality(Batches)
  BY <1>1, OnceShort DEF Once
<1>3. Cardinality(Batches) \in Nat /\ Len(f.docs) \in Nat /\ DOMAIN f.docs = 1 .. Len(f.docs)
  BY <1>1, LenProperties, FS_CardinalityType
<1>. QED
  BY <1>2, <1>3

(* Each acknowledged batch is in exactly one live segment, once: concurrent*)
(* pairs, failed pairs and retried Merge calls index no document twice.    *)
THEOREM IndexedExactlyOnce ==
  ASSUME Steady, Tidy, IsFiniteSet(Batches)
  PROVE  Spec => []ExactlyOnce
<1>1. Init => DocsOnce
  BY DEF Init, DocsOnce, Full, NoFile
<1>2. TypeInv /\ SafetyInv /\ CleanInv /\ CorpusInv /\ DocsOnce /\ [Next]_vars => DocsOnce'
  BY OnceNext, WriterAssumption DEF Held, Known
<1>3. TypeInv /\ SafetyInv /\ CleanInv /\ CorpusInv /\ DocsOnce => ExactlyOnce
  <2>. SUFFICES ASSUME TypeInv, SafetyInv, CleanInv, CorpusInv, DocsOnce,
                       NEW b \in Acknowledged
                PROVE  Cardinality({p \in Live \X (1 .. Cardinality(Batches)) :
                                      /\ p[2] \in DOMAIN file[p[1]].docs
                                      /\ file[p[1]].docs[p[2]] = b}) = 1
    BY DEF ExactlyOnce
  <2>. DEFINE P == {p \in Live \X (1 .. Cardinality(Batches)) :
                      /\ p[2] \in DOMAIN file[p[1]].docs
                      /\ file[p[1]].docs[p[2]] = b}
  <2>1. Known
    BY WriterAssumption DEF Known
  <2>2. PICK x \in Live : b \in DocsOf(file[x])
    BY <2>1, LiveCovers
  <2>3. PICK k \in DOMAIN file[x].docs : file[x].docs[k] = b
    BY <2>2 DEF DocsOf
  <2>4. x \in Full /\ file[x] \in File /\ Once(file[x])
    BY <2>1, StateFacts DEF Live, Full, DocsOnce
  <2>5. k \in 1 .. Cardinality(Batches)
    BY <2>3, <2>4, OnceFits
  <2>6. ASSUME NEW y \in Live, NEW m \in DOMAIN file[y].docs, file[y].docs[m] = b
        PROVE  y = x /\ m = k
    <3>1. b \in DocsOf(file[y])
      BY <2>6 DEF DocsOf
    <3>2. y = x
      BY <2>2, <3>1 DEF CorpusInv, BlocksApart
    <3>. QED
      BY <2>3, <2>4, <2>6, <3>2 DEF Once
  <2>7. P = {<<x, k>>}
    BY <2>3, <2>5, <2>6
  <2>. QED
    BY <2>7, FS_Singleton
<1>. QED
  BY <1>1, <1>2, <1>3, CorpusInvariance, PTL DEF Spec
=============================================================================
