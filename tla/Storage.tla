------------------------------ MODULE Storage ------------------------------
(***************************************************************************)
(* The life of one storage.Storage value (src/storage/storage.go): Load,   *)
(* Close, Reset, BuildFrom and SaveTo in any order.                        *)
(*                                                                         *)
(* A table of a storage is known by its origin: 0 when it is empty, else   *)
(* the number of the Load or the BuildFrom that made it.  The tables of a  *)
(* Load are slices over its mapping and outlive it; then they must not be  *)
(* touched.  What the tables contain is the subject of Segment and Builder;*)
(* here a file or a batch says only which of them it has.                  *)
(***************************************************************************)
EXTENDS Integers, Sequences, FiniteSets

CONSTANTS
  Files,       \* segment files
  Batches,     \* what BuildFrom is given
  MaxOrigins   \* bound: the Loads and BuildFroms of one behaviour

(* docs is the number of documents, tokens whether one of them has a token.*)
(* The regions of a file are its header, document ids, frequencies, fields,*)
(* posting-list headers and posting lists; whole of them are there.  more  *)
(* tells whether anything follows the header.                              *)
Regions == 6
Batch == [docs : Nat, tokens : BOOLEAN]
File == [docs : Nat, tokens : BOOLEAN, whole : 0 .. Regions, more : BOOLEAN]

ASSUME StorageAssumption ==
  /\ MaxOrigins \in Nat
  /\ Batches \subseteq Batch /\ Files \subseteq File
  /\ \A b \in Batches \union Files : b.tokens => b.docs > 0
  /\ \A f \in Files : f.more => f.whole > 0
  /\ \A f \in Files : f.docs > 0 /\ f.whole > 1 => f.more

VARIABLES
  s,        \* the Storage
  origin,   \* origin[n]: what the nth Load or BuildFrom was given
  mapped,   \* the Loads whose mapping is there
  current,  \* the last Load or BuildFrom that succeeded, 0 if a Load failed
            \* or Close or Reset took its tables down since
  since     \* the Loads and BuildFroms since the value was new or Reset

storageVars == <<s, origin, mapped, current, since>>

ZeroStorage ==
  [ids |-> 0, freqs |-> 0, fields |-> 0,
   heads |-> 0, entries |-> 0,   \* PostingLists.Headers, PostingLists.Entries
   size |-> 0,
   buffer |-> 0,                 \* the mapping that Buffer is
   file |-> FALSE,               \* File is not nil
   initialized |-> FALSE]

Given(by, what, ok) == [by |-> by, what |-> what, ok |-> ok]
Fresh == Len(origin) + 1
Of(n) == origin[n].what
IsLoad(n) == origin[n].by = "Load"

(* A table that is empty, of a batch or over a mapping that is there.      *)
Readable(n) == n # 0 /\ IsLoad(n) => n \in mapped

StorageInit ==
  /\ s = ZeroStorage
  /\ origin = << >>
  /\ mapped = {}
  /\ current = 0
  /\ since = {}

-----------------------------------------------------------------------------
(* Close.  When File.Close fails the mapping is gone already, and from     *)
(* then on Munmap of the nil Buffer fails before File is reached.          *)
CloseFails == s.file /\ s.buffer = 0

AfterClose ==
  IF s.file /\ ~CloseFails
    THEN {[s EXCEPT !.buffer = 0, !.file = FALSE], [s EXCEPT !.buffer = 0]}
    ELSE {s}

Unmapped == IF s.file THEN mapped \ {s.buffer} ELSE mapped

CurrentUnmapped == IF s.buffer = current THEN 0 ELSE current

-----------------------------------------------------------------------------
(* Load of file f as origin n into storage t: the tables that are there    *)
(* replace those of t, the others stay.                                    *)
Complete(f) == f.whole = Regions \/ (f.whole > 0 /\ ~f.more)

BadTables(t, f, n) ==   \* the map of fields is made only where there are some
  [t EXCEPT !.ids    = IF f.docs > 0 /\ f.whole >= 2 THEN n ELSE @,
            !.freqs  = IF f.tokens /\ f.whole >= 3 THEN n ELSE @,
            !.fields = IF f.tokens /\ f.whole >= 3 THEN n ELSE @,
            !.heads  = IF f.tokens /\ f.whole >= 5 THEN n ELSE @]

Tables(t, f, n) ==
  [t EXCEPT !.ids    = IF f.docs > 0 /\ f.whole >= 2 THEN n ELSE @,
            !.freqs  = IF f.tokens /\ f.whole >= 3 THEN n ELSE @,
            !.fields = IF f.whole >= 3 THEN n ELSE @,
            !.heads  = IF f.tokens /\ f.whole >= 5 THEN n ELSE @]

(* The file cannot be opened or has no header: Buffer stays what it was.   *)
Refuse(t) == [t EXCEPT !.initialized = FALSE, !.file = FALSE]

BadDrop(t) == [t EXCEPT !.initialized = FALSE]   \* no deferred cleanup

(* It cannot be mapped, or a table is missing.                             *)
Drop(t) == [t EXCEPT !.initialized = FALSE, !.file = FALSE, !.buffer = 0]

(* After the header alone Load returns nil before anything else is set.    *)
Load(t, f, n) ==
  LET open == [t EXCEPT !.initialized = FALSE, !.file = TRUE, !.buffer = n] IN
  IF f.whole = 0 THEN Refuse(t)
  ELSE IF ~f.more THEN open
  ELSE IF Complete(f) THEN [Tables(open, f, n) EXCEPT !.size = n, !.initialized = TRUE]
  ELSE Drop(Tables(open, f, n))

(* A Load of f into t, a Storage whose mappings are maps: it succeeds or   *)
(* fails as f says, or a system call fails before f is looked at.          *)
LoadFrom(t, maps, f) ==
  /\ Fresh <= MaxOrigins
  /\ \/ /\ s' = Load(t, f, Fresh)
        /\ origin' = Append(origin, Given("Load", f, Complete(f)))
        /\ mapped' = IF Complete(f) THEN maps \union {Fresh} ELSE maps
        /\ current' = IF Complete(f) THEN Fresh ELSE 0
     \/ /\ s' \in {Refuse(t), Drop(t)}
        /\ origin' = Append(origin, Given("Load", f, FALSE))
        /\ mapped' = maps
        /\ current' = 0
  /\ since' = since \union {Fresh}

-----------------------------------------------------------------------------
(* The calls on a Storage that no Reader holds.                            *)
LoadStorage(f) == LoadFrom(s, mapped, f)

CloseStorage ==
  /\ s' \in AfterClose
  /\ mapped' = Unmapped
  /\ current' = CurrentUnmapped
  /\ UNCHANGED <<origin, since>>

ResetStorage ==
  /\ ~CloseFails
  /\ s' = ZeroStorage
  /\ mapped' = Unmapped
  /\ current' = 0
  /\ since' = {}
  /\ UNCHANGED origin

BadStart == s   \* BuildFrom without Reset

(* What BuildFrom starts from: a storage that is Initialized is Reset.     *)
Start == IF s.initialized THEN (IF CloseFails THEN s ELSE ZeroStorage) ELSE s

(* ColdInitialize, then every table but PostingLists.Headers.              *)
BuildFrom(b) ==
  LET n == Fresh
      reset == s.initialized /\ ~CloseFails
  IN  /\ n <= MaxOrigins
      /\ s' = [Start EXCEPT !.initialized = TRUE, !.fields = n, !.size = n,
                            !.ids = IF b.docs > 0 THEN n ELSE 0,
                            !.freqs = IF b.tokens THEN n ELSE 0,
                            !.entries = IF b.tokens THEN n ELSE 0]
      /\ origin' = Append(origin, Given("BuildFrom", b, TRUE))
      /\ mapped' = IF reset THEN Unmapped ELSE mapped
      /\ current' = n
      /\ since' = IF reset THEN {n} ELSE since \union {n}

BadLists == IF s.entries # 0 THEN s.entries ELSE s.heads   \* Entries first

(* PostingLists.Len, DataSize, Get and WriteToFile take the Headers, where *)
(* there are any, for the lists.                                           *)
Lists == IF s.heads # 0 THEN s.heads ELSE s.entries

(* What SaveTo writes.                                                     *)
SavedTables ==
  [ids |-> s.ids, freqs |-> s.freqs, lists |-> Lists,
   fields |-> IF s.initialized THEN s.fields ELSE 0]

(* A SaveTo that reads unmapped memory does not return.                    *)
SaveTo ==
  /\ \A k \in DOMAIN SavedTables : Readable(SavedTables[k])
  /\ s' = [s EXCEPT !.initialized = TRUE, !.fields = SavedTables.fields]
  /\ UNCHANGED <<origin, mapped, current, since>>

StorageNext ==
  \/ \E f \in Files : LoadStorage(f)
  \/ CloseStorage
  \/ ResetStorage
  \/ \E b \in Batches : BuildFrom(b)
  \/ SaveTo

-----------------------------------------------------------------------------
(* The tables a query reads: those of the tokens of the fields.            *)
HasTokens == s.fields # 0 /\ Of(s.fields).tokens
QueriedTables == IF HasTokens THEN {s.fields, s.ids, s.freqs, Lists} ELSE {}

(* Origins are those of the behaviour so far, and the Buffer of an open    *)
(* File is mapped.                                                         *)
StorageTypeOK ==
  LET Origin == 0 .. Len(origin) IN
  /\ s \in [ids : Origin, freqs : Origin, fields : Origin, heads : Origin,
            entries : Origin, size : Origin, buffer : Origin,
            file : BOOLEAN, initialized : BOOLEAN]
  /\ Len(origin) <= MaxOrigins
  /\ mapped \subseteq {n \in DOMAIN origin : IsLoad(n)}
  /\ s.buffer # 0 => IsLoad(s.buffer)
  /\ s.file => s.buffer \in mapped \union {0}
  /\ current \in Origin /\ current \in since \union {0}
  /\ since \subseteq DOMAIN origin

(* A Load that returned an error, or read a header and nothing else.       *)
Mishap(n) == IsLoad(n) /\ (~origin[n].ok \/ ~Of(n).more)

(* A value that is used over and over answers from the last Load or        *)
(* BuildFrom alone, though Load replaces only the tables that are not      *)
(* empty and a Close between two Loads leaves slices over unmapped memory  *)
(* behind: as long as no Load since Reset failed or met a lone header, and *)
(* File.Close did not fail in the last Close.                              *)
QueriesReadCurrent ==
  current # 0 /\ ~CloseFails /\ (\A n \in since : ~Mishap(n)) =>
    /\ QueriedTables \subseteq {current}
    /\ Readable(current)
    /\ s.size = current

(* SaveTo of a storage that was built, or loaded into a value that was new *)
(* or Reset, writes the tables of that batch or file and no others.        *)
SavesCurrent ==
  current # 0 /\ since = {current} =>
    LET b    == Of(current)
        there == ~IsLoad(current) \/ b.more
        if(has) == IF there /\ has THEN current ELSE 0
    IN  SavedTables = [ids |-> if(b.docs > 0), freqs |-> if(b.tokens),
                       lists |-> if(b.tokens), fields |-> if(TRUE)]
=============================================================================
