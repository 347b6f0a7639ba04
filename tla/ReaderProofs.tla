---------------------------- MODULE ReaderProofs ----------------------------
(***************************************************************************)
(* Theorems about Storage and Reader, for any files and batches and any    *)
(* number of Loads and BuildFroms.  First what each operation of Storage   *)
(* leaves of the value, and the invariant all of them keep; then the       *)
(* Reader, its searchers and the loops over their hits.                    *)
(***************************************************************************)
EXTENDS Reader, SequenceTheorems, TLAPS

Call == [by : {"Load", "BuildFrom"}, what : File \union Batch, ok : BOOLEAN]
Store == [ids : Nat, freqs : Nat, fields : Nat, heads : Nat, entries : Nat, size : Nat,
          buffer : Nat, file : BOOLEAN, initialized : BOOLEAN]

(* The tables of u are those of t.                                         *)
SameTables(t, u) ==
  /\ u.ids = t.ids /\ u.freqs = t.freqs /\ u.fields = t.fields
  /\ u.heads = t.heads /\ u.entries = t.entries /\ u.size = t.size

(* Each table of u is that of t or the one of origin n.                    *)
TablesOf(t, u, n) ==
  /\ u.ids \in {t.ids, n} /\ u.freqs \in {t.freqs, n} /\ u.fields \in {t.fields, n}
  /\ u.heads \in {t.heads, n} /\ u.entries \in {t.entries, n} /\ u.size \in {t.size, n}

(* A whole file with more than a header replaces the tables it has.        *)
Replaced(t, u, f, n) ==
  /\ u.ids = (IF f.docs > 0 THEN n ELSE t.ids)
  /\ u.freqs = (IF f.tokens THEN n ELSE t.freqs)
  /\ u.heads = (IF f.tokens THEN n ELSE t.heads)
  /\ u.fields = n /\ u.entries = t.entries

-----------------------------------------------------------------------------
(* Refuse, Drop and the assignments at the start of Load.                  *)
LEMMA RefuseFields ==
  ASSUME NEW t \in Store, NEW u, u = Refuse(t)
  PROVE  u \in Store /\ SameTables(t, u) /\ ~u.file /\ u.buffer = t.buffer
  BY DEF Refuse, Store, SameTables

LEMMA DropFields ==
  ASSUME NEW t \in Store, NEW u, u = Drop(t)
  PROVE  u \in Store /\ SameTables(t, u) /\ ~u.file /\ u.buffer = 0
  BY DEF Drop, Store, SameTables

LEMMA OpenFields ==
  ASSUME NEW t \in Store, NEW n \in Nat, NEW u,
         u = [t EXCEPT !.initialized = FALSE, !.file = TRUE, !.buffer = n]
  PROVE  u \in Store /\ SameTables(t, u) /\ u.file /\ u.buffer = n /\ ~u.initialized
  BY DEF Store, SameTables

(* The tables that are found in a file, whole or cut short.                *)
LEMMA FoundTables ==
  ASSUME NEW t \in Store, NEW f \in File, NEW n \in Nat, NEW u, u = Tables(t, f, n)
  PROVE  /\ u \in Store /\ TablesOf(t, u, n) /\ u.file = t.file /\ u.buffer = t.buffer
         /\ u.initialized = t.initialized
         /\ f.whole = Regions => Replaced(t, u, f, n)
<1>1. u \in Store /\ u.file = t.file /\ u.buffer = t.buffer /\ u.initialized = t.initialized
  BY DEF Tables, Store, File
<1>2. TablesOf(t, u, n)
  BY DEF Tables, Store, File, TablesOf
<1>3. ASSUME f.whole = Regions
      PROVE  Replaced(t, u, f, n)
  BY <1>3 DEF Tables, Store, File, Regions, Replaced
<1>. QED
  BY <1>1, <1>2, <1>3

(* Load of a whole file, and of one that is not.                           *)
LEMMA LoadWhole ==
  ASSUME NEW t \in Store, NEW f \in File, NEW n \in Nat, NEW u,
         u = Load(t, f, n), Complete(f)
  PROVE  /\ u \in Store /\ u.file /\ u.buffer = n
         /\ f.more => Replaced(t, u, f, n) /\ u.size = n /\ u.initialized
         /\ ~f.more => SameTables(t, u) /\ ~u.initialized
<1>. DEFINE o == [t EXCEPT !.initialized = FALSE, !.file = TRUE, !.buffer = n]
<1>0. f.whole # 0
  BY DEF Complete, Regions, File
<1>1. o \in Store /\ SameTables(t, o) /\ o.file /\ o.buffer = n /\ ~o.initialized
  BY OpenFields
<1>2. CASE ~f.more
  <2>1. u = o
    BY <1>0, <1>2 DEF Load
  <2>. QED
    BY <1>1, <1>2, <2>1
<1>3. CASE f.more
  <2>. DEFINE w == Tables(o, f, n)
  <2>1. u = [w EXCEPT !.size = n, !.initialized = TRUE]
    BY <1>0, <1>3 DEF Load
  <2>2. f.whole = Regions
    BY <1>3 DEF Complete
  <2>0. o \in Store
    BY <1>1
  <2>. HIDE DEF o
  <2>3. w \in Store /\ w.file = o.file /\ w.buffer = o.buffer /\ Replaced(o, w, f, n)
    BY <2>0, <2>2, FoundTables
  <2>. HIDE DEF w
  <2>4. /\ u \in Store /\ u.file = w.file /\ u.buffer = w.buffer
        /\ u.ids = w.ids /\ u.freqs = w.freqs /\ u.heads = w.heads
        /\ u.fields = w.fields /\ u.entries = w.entries
        /\ u.size = n /\ u.initialized
    BY <2>1, <2>3 DEF Store
  <2>. QED
    BY <1>1, <1>3, <2>3, <2>4 DEF Replaced, SameTables
<1>. QED
  BY <1>2, <1>3

LEMMA LoadFails ==
  ASSUME NEW t \in Store, NEW f \in File, NEW n \in Nat, NEW u,
         u = Load(t, f, n), ~Complete(f)
  PROVE  u \in Store /\ TablesOf(t, u, n) /\ ~u.file /\ u.buffer \in {t.buffer, 0}
<1>. DEFINE o == [t EXCEPT !.initialized = FALSE, !.file = TRUE, !.buffer = n]
<1>1. CASE f.whole = 0
  <2>1. u = Refuse(t)
    BY <1>1 DEF Load
  <2>. QED
    BY <2>1, RefuseFields DEF SameTables, TablesOf
<1>2. CASE f.whole # 0
  <2>. DEFINE w == Tables(o, f, n)
  <2>1. f.more
    BY <1>2 DEF Complete, File, Regions
  <2>2. u = Drop(w)
    BY <1>2, <2>1 DEF Load
  <2>3. o \in Store /\ SameTables(t, o)
    BY OpenFields
  <2>. HIDE DEF o
  <2>4. w \in Store /\ TablesOf(o, w, n)
    BY <2>3, FoundTables
  <2>. HIDE DEF w
  <2>5. u \in Store /\ SameTables(w, u) /\ ~u.file /\ u.buffer = 0
    BY <2>2, <2>4, DropFields
  <2>. QED
    BY <2>3, <2>4, <2>5 DEF SameTables, TablesOf
<1>. QED
  BY <1>1, <1>2

(* Close takes down the mapping and leaves the tables.                     *)
LEMMA CloseFields ==
  ASSUME s \in Store, NEW t \in AfterClose
  PROVE  /\ t \in Store /\ SameTables(s, t) /\ t.initialized = s.initialized
         /\ t.file => s.file /\ t.buffer = 0
         /\ s.file => t.buffer = 0
         /\ ~s.file => t = s
         /\ CloseFails => t = s
<1>1. CASE s.file /\ ~CloseFails
  <2>1. CASE t = [s EXCEPT !.buffer = 0, !.file = FALSE]
    <3>1. /\ t \in Store /\ SameTables(s, t) /\ t.initialized = s.initialized
          /\ ~t.file /\ t.buffer = 0
      BY <2>1 DEF Store, SameTables
    <3>. QED
      BY <1>1, <3>1
  <2>2. CASE t = [s EXCEPT !.buffer = 0]
    <3>1. /\ t \in Store /\ SameTables(s, t) /\ t.initialized = s.initialized
          /\ t.buffer = 0
      BY <2>2 DEF Store, SameTables
    <3>. QED
      BY <1>1, <3>1
  <2>. QED
    BY <1>1, <2>1, <2>2 DEF AfterClose
<1>2. CASE ~s.file \/ CloseFails
  <2>1. t = s
    BY <1>2 DEF AfterClose
  <2>2. CloseFails => s.file /\ s.buffer = 0
    BY DEF CloseFails
  <2>. QED
    BY <1>2, <2>1, <2>2 DEF SameTables
<1>. QED
  BY <1>1, <1>2

-----------------------------------------------------------------------------
(* The invariant.  What is typed about a value and the mappings, ...       *)
UpTo(t, n) ==
  /\ t.ids <= n /\ t.freqs <= n /\ t.fields <= n
  /\ t.heads <= n /\ t.entries <= n /\ t.size <= n /\ t.buffer <= n

Typed(t, maps) ==
  /\ t \in Store
  /\ UpTo(t, Len(origin))
  /\ t.buffer # 0 => IsLoad(t.buffer)
  /\ maps \subseteq {n \in DOMAIN origin : IsLoad(n)}

(* ... about the whole state, ...                                          *)
StorageInv ==
  /\ origin \in Seq(Call) /\ Len(origin) <= MaxOrigins
  /\ Typed(s, mapped)
  /\ s.file => s.buffer \in mapped \union {0}
  /\ current \in 0 .. Len(origin) /\ current \in since \union {0}
  /\ since \subseteq DOMAIN origin
  /\ current # 0 /\ IsLoad(current) => current \in mapped

(* ... and where the tables come from.  A value whose Loads all went well  *)
(* is Initialized as long as it has headers of posting lists: so the next  *)
(* BuildFrom, which does not replace them, starts with a Reset.            *)
Clean == \A n \in since : ~Mishap(n)

AnswersCurrent ==
  /\ s.initialized /\ s.size = current /\ s.fields = current
  /\ Of(current).tokens => /\ s.ids = current /\ s.freqs = current
                           /\ CloseFails \/ Lists = current

There(n) == ~IsLoad(n) \/ Of(n).more
HasCurrent(has) == IF There(current) /\ has THEN current ELSE 0
HoldsCurrent ==
  /\ s.ids = HasCurrent(Of(current).docs > 0)
  /\ s.freqs = HasCurrent(Of(current).tokens)
  /\ Lists = HasCurrent(Of(current).tokens)
  /\ s.fields = HasCurrent(TRUE)
  /\ There(current) => s.initialized

TablesInv ==
  /\ Clean => (s.heads # 0 => s.initialized)
  /\ Clean /\ current # 0 => AnswersCurrent
  /\ since = {} => /\ s.ids = 0 /\ s.freqs = 0 /\ s.fields = 0
                   /\ s.heads = 0 /\ s.entries = 0
  /\ current # 0 /\ since = {current} => HoldsCurrent

-----------------------------------------------------------------------------
(* One more Load or BuildFrom.                                             *)
LEMMA OneMore ==
  ASSUME origin \in Seq(Call), NEW c \in Call, origin' = Append(origin, c)
  PROVE  /\ origin' \in Seq(Call) /\ Len(origin) \in Nat
         /\ Len(origin') = Len(origin) + 1
         /\ DOMAIN origin = 1 .. Len(origin)
         /\ DOMAIN origin' = 1 .. Len(origin) + 1
         /\ \A k \in 1 .. Len(origin) : origin'[k] = origin[k]
         /\ origin'[Len(origin) + 1] = c
  BY AppendProperties, LenProperties

(* What LoadFrom leaves, ok or not.                                        *)
Loaded(t, maps, f, ok) ==
  /\ Fresh <= MaxOrigins
  /\ origin' = Append(origin, Given("Load", f, ok))
  /\ since' = since \union {Fresh}
  /\ s' \in Store /\ TablesOf(t, s', Fresh)
  /\ ok => /\ s'.file /\ s'.buffer = Fresh
           /\ mapped' = maps \union {Fresh} /\ current' = Fresh
           /\ f.more => Replaced(t, s', f, Fresh) /\ s'.size = Fresh /\ s'.initialized
           /\ ~f.more => SameTables(t, s')
  /\ ~ok => /\ ~s'.file /\ s'.buffer \in {t.buffer, 0}
            /\ mapped' = maps /\ current' = 0

LEMMA LoadOutcome ==
  ASSUME origin \in Seq(Call), NEW t \in Store, NEW maps, NEW f \in File,
         LoadFrom(t, maps, f)
  PROVE  \E ok \in BOOLEAN : Loaded(t, maps, f, ok)
<1>0. Fresh \in Nat
  BY LenProperties DEF Fresh
<1>1. CASE s' = Load(t, f, Fresh) /\ Complete(f)
           /\ origin' = Append(origin, Given("Load", f, Complete(f)))
           /\ mapped' = (IF Complete(f) THEN maps \union {Fresh} ELSE maps)
           /\ current' = (IF Complete(f) THEN Fresh ELSE 0)
  <2>1. /\ s' \in Store /\ s'.file /\ s'.buffer = Fresh
        /\ f.more => Replaced(t, s', f, Fresh) /\ s'.size = Fresh /\ s'.initialized
        /\ ~f.more => SameTables(t, s')
    BY <1>0, <1>1, LoadWhole
  <2>2. TablesOf(t, s', Fresh)
    BY <2>1 DEF TablesOf, SameTables, Replaced
  <2>3. Complete(f) = TRUE
    BY <1>1 DEF Complete
  <2>. QED
    BY <1>1, <2>1, <2>2, <2>3 DEF Loaded, LoadFrom
<1>2. CASE s' = Load(t, f, Fresh) /\ ~Complete(f)
           /\ origin' = Append(origin, Given("Load", f, Complete(f)))
           /\ mapped' = (IF Complete(f) THEN maps \union {Fresh} ELSE maps)
           /\ current' = (IF Complete(f) THEN Fresh ELSE 0)
  <2>1. s' \in Store /\ TablesOf(t, s', Fresh) /\ ~s'.file /\ s'.buffer \in {t.buffer, 0}
    BY <1>0, <1>2, LoadFails
  <2>2. Complete(f) = FALSE
    BY <1>2 DEF Complete
  <2>. QED
    BY <1>2, <2>1, <2>2 DEF Loaded, LoadFrom
<1>3. CASE s' \in {Refuse(t), Drop(t)} /\ origin' = Append(origin, Given("Load", f, FALSE))
           /\ mapped' = maps /\ current' = 0
  <2>1. s' \in Store /\ SameTables(t, s') /\ ~s'.file /\ s'.buffer \in {t.buffer, 0}
    BY <1>3, RefuseFields, DropFields
  <2>2. TablesOf(t, s', Fresh)
    BY <2>1 DEF TablesOf, SameTables
  <2>. QED
    BY <1>3, <2>1, <2>2 DEF Loaded, LoadFrom
<1>. QED
  BY <1>1, <1>2, <1>3 DEF LoadFrom

(* Origins stay what they were when one is appended.                       *)
LEMMA OriginsStay ==
  ASSUME origin \in Seq(Call), NEW c \in Call, origin' = Append(origin, c),
         NEW n \in DOMAIN origin
  PROVE  /\ n \in DOMAIN origin' /\ Of(n)' = Of(n)
         /\ IsLoad(n)' = IsLoad(n) /\ Mishap(n)' = Mishap(n)
<1>1. n \in DOMAIN origin' /\ origin'[n] = origin[n]
  BY OneMore
<1>. QED
  BY <1>1 DEF Of, IsLoad, Mishap

LEMMA CallTypes ==
  ASSUME StorageAssumption
  PROVE  /\ \A f \in Files : f \in File /\ \A ok \in BOOLEAN : Given("Load", f, ok) \in Call
         /\ \A b \in Batches : b \in Batch /\ Given("BuildFrom", b, TRUE) \in Call
  BY DEF StorageAssumption, Given, Call

(* A Load into t, a value with the tables of s, keeps the invariant.       *)
LEMMA LoadStep ==
  ASSUME StorageAssumption, StorageInv, NEW t, NEW maps, NEW f \in Files, NEW ok \in BOOLEAN,
         Typed(t, maps), Loaded(t, maps, f, ok)
  PROVE  StorageInv'
<1>0. PICK n \in Nat : n = Len(origin) + 1
  BY LenProperties DEF StorageInv
<1>. DEFINE c == Given("Load", f, ok)
<1>1. f \in File /\ c \in Call
  BY CallTypes
<1>2. /\ origin' \in Seq(Call) /\ Len(origin) \in Nat /\ Len(origin') = n
      /\ DOMAIN origin = 1 .. Len(origin) /\ DOMAIN origin' = 1 .. n
      /\ origin'[n] = c
  BY <1>0, <1>1, OneMore DEF StorageInv, Loaded
<1>3. \A k \in DOMAIN origin : IsLoad(k)' = IsLoad(k)
  BY <1>1, OriginsStay DEF StorageInv, Loaded
<1>4. IsLoad(n)'
  BY <1>2 DEF IsLoad, Given
<1>5. Fresh = n
  BY <1>0 DEF Fresh
<1>. HIDE DEF c
<1>6. s' \in Store /\ UpTo(s', n)
  <2>1. t \in Store /\ UpTo(t, Len(origin))
    BY DEF Typed
  <2>2. s' \in Store /\ TablesOf(t, s', n)
    BY <1>5 DEF Loaded
  <2>3. s'.buffer \in {n, t.buffer, 0}
    BY <1>5 DEF Loaded
  <2>4. /\ t.ids \in Nat /\ t.freqs \in Nat /\ t.fields \in Nat /\ t.heads \in Nat
        /\ t.entries \in Nat /\ t.size \in Nat /\ t.buffer \in Nat
    BY <2>1 DEF Store
  <2>. QED
    BY <1>2, <1>0, <2>1, <2>2, <2>3, <2>4 DEF UpTo, TablesOf
<1>7. (s.buffer # 0 => IsLoad(s.buffer))'
  <2>1. s'.buffer \in Nat
    BY <1>6 DEF Store
  <2>2. CASE ok
    BY <1>4, <1>5, <2>2 DEF Loaded, IsLoad
  <2>3. CASE ~ok /\ s'.buffer # 0
    <3>1. s'.buffer = t.buffer /\ t.buffer <= Len(origin) /\ IsLoad(t.buffer)
      BY <2>3 DEF Loaded, Typed, UpTo
    <3>2. s'.buffer \in DOMAIN origin
      BY <1>2, <2>1, <2>3, <3>1
    <3>. QED
      BY <1>3, <3>1, <3>2 DEF IsLoad
  <2>. QED
    BY <2>1, <2>2, <2>3
<1>8. mapped' \subseteq {k \in DOMAIN origin' : IsLoad(k)'}
  <2>1. \A k \in maps : k \in DOMAIN origin' /\ IsLoad(k)'
    BY <1>2, <1>0, <1>3 DEF Typed
  <2>2. n \in DOMAIN origin'
    BY <1>2, <1>0
  <2>3. mapped' \subseteq maps \union {n}
    BY <1>5 DEF Loaded
  <2>. QED
    BY <1>4, <2>1, <2>2, <2>3
<1>9. /\ s'.file => s'.buffer \in mapped' \union {0}
      /\ current' \in {0, n} /\ current' \in since' \union {0}
      /\ current' # 0 => current' \in mapped'
  BY <1>5 DEF Loaded
<1>10. since' \subseteq DOMAIN origin' /\ n <= MaxOrigins
  BY <1>2, <1>0, <1>5 DEF Loaded, StorageInv
<1>. QED
  BY <1>2, <1>0, <1>6, <1>7, <1>8, <1>9, <1>10 DEF StorageInv, Typed

(* It keeps what is known of the tables, too.                              *)
LEMMA LoadTables ==
  ASSUME StorageAssumption, StorageInv, TablesInv, NEW t \in Store, NEW maps,
         NEW f \in Files, NEW ok \in BOOLEAN,
         SameTables(s, t), Loaded(t, maps, f, ok)
  PROVE  TablesInv'
<1>0. PICK n \in Nat : n = Len(origin) + 1
  BY LenProperties DEF StorageInv
<1>. DEFINE c == Given("Load", f, ok)
<1>1. f \in File /\ c \in Call
  BY CallTypes
<1>2. /\ origin' \in Seq(Call) /\ Len(origin) \in Nat
      /\ DOMAIN origin = 1 .. Len(origin) /\ origin'[n] = c
  BY <1>0, <1>1, OneMore DEF StorageInv, Loaded
<1>3. Of(n)' = f /\ IsLoad(n)' /\ Mishap(n)' = (~ok \/ ~f.more)
  BY <1>1, <1>2 DEF Of, IsLoad, Mishap, Given, Call
<1>4. Fresh = n
  BY <1>0 DEF Fresh
<1>5. n \in since' /\ n \notin since /\ n # 0
  BY <1>0, <1>2, <1>4 DEF Loaded, StorageInv
<1>. HIDE DEF c
<1>6. Clean' => ok /\ f.more
  BY <1>3, <1>5 DEF Clean
<1>7. current' # 0 => current' = n /\ ok
  BY <1>4 DEF Loaded
<1>8. ASSUME ok, f.more
      PROVE  /\ s'.initialized /\ s'.size = n /\ s'.fields = n
             /\ s'.ids = (IF f.docs > 0 THEN n ELSE s.ids)
             /\ s'.freqs = (IF f.tokens THEN n ELSE s.freqs)
             /\ s'.heads = (IF f.tokens THEN n ELSE s.heads)
             /\ s'.entries = s.entries
  BY <1>4, <1>8 DEF Loaded, Replaced, SameTables
<1>9. f.tokens => f.docs > 0
  BY DEF StorageAssumption
<1>10. Clean' => (s'.heads # 0 => s'.initialized)
  BY <1>6, <1>8
<1>11. ASSUME Clean', current' # 0
       PROVE  AnswersCurrent'
  BY <1>3, <1>5, <1>6, <1>7, <1>8, <1>9, <1>11 DEF AnswersCurrent, Lists
<1>12. since' # {}
  BY <1>5
<1>13. ASSUME current' # 0, since' = {current'}
       PROVE  HoldsCurrent'
  <2>1. since = {}
    BY <1>5, <1>7, <1>13, <1>4 DEF Loaded
  <2>2. s.ids = 0 /\ s.freqs = 0 /\ s.fields = 0 /\ s.heads = 0 /\ s.entries = 0
    BY <2>1 DEF TablesInv
  <2>3. CASE f.more
    <3>1. There(n)'
      BY <1>3, <2>3 DEF There
    <3>. QED
      BY <1>3, <1>5, <1>7, <1>8, <1>13, <2>2, <2>3, <3>1 DEF HoldsCurrent, HasCurrent, Lists
  <2>4. CASE ~f.more
    <3>1. ~There(n)'
      BY <1>3, <2>4 DEF There
    <3>2. SameTables(t, s')
      BY <1>7, <1>13, <2>4 DEF Loaded
    <3>3. s'.ids = 0 /\ s'.freqs = 0 /\ s'.fields = 0 /\ s'.heads = 0 /\ s'.entries = 0
      BY <2>2, <3>2 DEF SameTables
    <3>. QED
      BY <1>7, <1>13, <3>1, <3>3 DEF HoldsCurrent, HasCurrent, Lists
  <2>. QED
    BY <2>3, <2>4
<1>. QED
  BY <1>10, <1>11, <1>12, <1>13 DEF TablesInv

-----------------------------------------------------------------------------
(* Close, of a Reader or of the caller.                                    *)
LEMMA CloseStep ==
  ASSUME StorageInv, s' \in AfterClose, mapped' = Unmapped, current' = CurrentUnmapped,
         UNCHANGED <<origin, since>>
  PROVE  StorageInv'
<1>1. s \in Store /\ UpTo(s, Len(origin)) /\ (s.buffer # 0 => IsLoad(s.buffer))
  BY DEF StorageInv, Typed
<1>2. /\ s' \in Store /\ SameTables(s, s')
      /\ s'.file => s.file /\ s'.buffer = 0
      /\ s.file => s'.buffer = 0
      /\ ~s.file => s' = s
  BY <1>1, CloseFields
<1>3. s'.buffer \in {s.buffer, 0}
  BY <1>2
<1>4. UpTo(s', Len(origin))
  <2>1. Len(origin) \in Nat
    BY LenProperties DEF StorageInv
  <2>. QED
    BY <1>1, <1>2, <1>3, <2>1 DEF UpTo, SameTables
<1>5. (s.buffer # 0 => IsLoad(s.buffer))'
  BY <1>1, <1>3 DEF IsLoad
<1>6. mapped' \subseteq mapped
  BY DEF Unmapped
<1>7. (mapped \subseteq {n \in DOMAIN origin : IsLoad(n)})'
  BY <1>6 DEF StorageInv, Typed, IsLoad
<1>8. /\ current' \in 0 .. Len(origin) /\ current' \in since \union {0}
      /\ (current # 0 /\ IsLoad(current) => current \in mapped)'
  <2>1. CASE s.buffer = current
    BY <2>1 DEF CurrentUnmapped, StorageInv
  <2>2. CASE s.buffer # current
    <3>1. current' = current
      BY <2>2 DEF CurrentUnmapped
    <3>2. current \in mapped => current \in mapped'
      BY <2>2 DEF Unmapped
    <3>. QED
      BY <3>1, <3>2 DEF StorageInv, IsLoad
  <2>. QED
    BY <2>1, <2>2
<1>9. s'.file => s'.buffer = 0
  BY <1>2
<1>. QED
  BY <1>2, <1>4, <1>5, <1>7, <1>8, <1>9 DEF StorageInv, Typed

LEMMA CloseTables ==
  ASSUME StorageInv, TablesInv, s' \in AfterClose, current' = CurrentUnmapped,
         UNCHANGED <<origin, since>>
  PROVE  TablesInv'
<1>1. /\ SameTables(s, s') /\ s'.initialized = s.initialized
      /\ CloseFails => s' = s
  BY CloseFields DEF StorageInv, Typed
<1>2. current' \in {current, 0}
  BY DEF CurrentUnmapped
<1>3. Clean' = Clean
  BY DEF Clean, Mishap, IsLoad, Of
<1>4. Lists' = Lists /\ (CloseFails => CloseFails')
  BY <1>1 DEF Lists, SameTables, CloseFails
<1>5. ASSUME current' # 0
      PROVE  /\ AnswersCurrent => AnswersCurrent'
             /\ HoldsCurrent => HoldsCurrent'
  <2>1. current' = current
    BY <1>2, <1>5
  <2>2. Of(current)' = Of(current) /\ There(current)' = There(current)
    BY <2>1 DEF Of, There, IsLoad
  <2>3. AnswersCurrent => AnswersCurrent'
    BY <1>1, <1>4, <2>1, <2>2 DEF AnswersCurrent, SameTables
  <2>4. HoldsCurrent => HoldsCurrent'
    BY <1>1, <1>4, <2>1, <2>2 DEF HoldsCurrent, HasCurrent, SameTables
  <2>. QED
    BY <2>3, <2>4
<1>. QED
  BY <1>1, <1>2, <1>3, <1>5 DEF TablesInv, SameTables

(* A Load into s itself, or into what Close left of it.                    *)
LEMMA TypedClosed ==
  ASSUME StorageInv, NEW t \in AfterClose
  PROVE  Typed(t, Unmapped) /\ t \in Store /\ SameTables(s, t)
<1>1. s \in Store /\ UpTo(s, Len(origin)) /\ (s.buffer # 0 => IsLoad(s.buffer))
  BY DEF StorageInv, Typed
<1>2. /\ t \in Store /\ SameTables(s, t)
      /\ t.buffer \in {s.buffer, 0}
  BY <1>1, CloseFields
<1>3. UpTo(t, Len(origin))
  <2>1. Len(origin) \in Nat
    BY LenProperties DEF StorageInv
  <2>. QED
    BY <1>1, <1>2, <2>1 DEF UpTo, SameTables
<1>4. Unmapped \subseteq mapped
  BY DEF Unmapped
<1>. QED
  BY <1>1, <1>2, <1>3, <1>4 DEF Typed, StorageInv

-----------------------------------------------------------------------------
(* ResetStorage, BuildFrom and SaveTo.                                     *)
LEMMA ZeroFields ==
  /\ ZeroStorage \in Store
  /\ ZeroStorage.ids = 0 /\ ZeroStorage.freqs = 0 /\ ZeroStorage.fields = 0
  /\ ZeroStorage.heads = 0 /\ ZeroStorage.entries = 0 /\ ZeroStorage.size = 0
  /\ ZeroStorage.buffer = 0 /\ ~ZeroStorage.file /\ ~ZeroStorage.initialized
  BY DEF ZeroStorage, Store

LEMMA ResetStep ==
  ASSUME StorageInv, ResetStorage
  PROVE  StorageInv' /\ TablesInv'
<1>0. Len(origin) \in Nat
  BY LenProperties DEF StorageInv
<1>1. /\ s' = ZeroStorage /\ mapped' \subseteq mapped /\ current' = 0 /\ since' = {}
      /\ origin' = origin
  BY DEF ResetStorage, Unmapped
<1>2. UpTo(s', Len(origin))
  BY <1>0, <1>1, ZeroFields DEF UpTo
<1>3. (mapped \subseteq {n \in DOMAIN origin : IsLoad(n)})'
  BY <1>1 DEF StorageInv, Typed, IsLoad
<1>4. StorageInv'
  BY <1>0, <1>1, <1>2, <1>3, ZeroFields DEF StorageInv, Typed
<1>5. TablesInv'
  BY <1>1, ZeroFields DEF TablesInv
<1>. QED
  BY <1>4, <1>5

LEMMA SaveFields ==
  ASSUME s \in Store, SaveTo
  PROVE  /\ s' \in Store
         /\ s'.ids = s.ids /\ s'.freqs = s.freqs /\ s'.heads = s.heads
         /\ s'.entries = s.entries /\ s'.size = s.size
         /\ s'.buffer = s.buffer /\ s'.file = s.file /\ s'.initialized
         /\ s'.fields = IF s.initialized THEN s.fields ELSE 0
<1>1. PICK n \in Nat : n = IF s.initialized THEN s.fields ELSE 0
  BY DEF Store
<1>2. s' = [s EXCEPT !.initialized = TRUE, !.fields = n]
  BY <1>1 DEF SaveTo, SavedTables
<1>. QED
  BY <1>1, <1>2 DEF Store

LEMMA SaveStep ==
  ASSUME StorageInv, TablesInv, SaveTo
  PROVE  StorageInv' /\ TablesInv'
<1>0. Len(origin) \in Nat
  BY LenProperties DEF StorageInv
<1>1. s \in Store /\ UpTo(s, Len(origin))
  BY DEF StorageInv, Typed
<1>2. /\ s' \in Store
      /\ s'.ids = s.ids /\ s'.freqs = s.freqs /\ s'.heads = s.heads
      /\ s'.entries = s.entries /\ s'.size = s.size
      /\ s'.buffer = s.buffer /\ s'.file = s.file /\ s'.initialized
      /\ s'.fields = (IF s.initialized THEN s.fields ELSE 0)
  BY <1>1, SaveFields
<1>3. UNCHANGED <<origin, mapped, current, since>>
  BY DEF SaveTo
<1>4. UpTo(s', Len(origin))
  BY <1>0, <1>1, <1>2 DEF UpTo
<1>5. /\ \A n : IsLoad(n)' = IsLoad(n) /\ Of(n)' = Of(n) /\ There(n)' = There(n)
      /\ Clean' = Clean
  BY <1>3 DEF IsLoad, Of, There, Clean, Mishap
<1>6. StorageInv'
  BY <1>2, <1>3, <1>4, <1>5 DEF StorageInv, Typed, IsLoad
<1>7. Lists' = Lists /\ CloseFails' = CloseFails
  BY <1>2 DEF Lists, CloseFails
<1>8. AnswersCurrent => AnswersCurrent'
  BY <1>2, <1>3, <1>5, <1>7 DEF AnswersCurrent, Of
<1>9. ASSUME HoldsCurrent
      PROVE  HoldsCurrent'
  <2>1. There(current)' = There(current) /\ Of(current)' = Of(current)
    BY <1>3 DEF There, Of, IsLoad
  <2>2. s'.fields = s.fields
    BY <1>2, <1>9 DEF HoldsCurrent, HasCurrent
  <2>. QED
    BY <1>2, <1>3, <1>7, <1>9, <2>1, <2>2 DEF HoldsCurrent, HasCurrent
<1>10. TablesInv'
  BY <1>2, <1>3, <1>5, <1>8, <1>9 DEF TablesInv
<1>. QED
  BY <1>6, <1>10

(* BuildFrom makes every table but the headers, which stay those of Start. *)
LEMMA BuildFields ==
  ASSUME s \in Store, NEW b \in Batch, NEW n \in Nat, n = Fresh, BuildFrom(b)
  PROVE  /\ s' \in Store
         /\ s'.initialized /\ s'.fields = n /\ s'.size = n
         /\ s'.ids = IF b.docs > 0 THEN n ELSE 0
         /\ s'.freqs = IF b.tokens THEN n ELSE 0
         /\ s'.entries = IF b.tokens THEN n ELSE 0
         /\ s'.heads = Start.heads /\ s'.buffer = Start.buffer /\ s'.file = Start.file
<1>0. ZeroStorage \in Store
  BY ZeroFields
<1>1. PICK t \in Store : t = Start
  BY <1>0 DEF Start
<1>2. PICK i \in Nat : i = IF b.docs > 0 THEN n ELSE 0
  OBVIOUS
<1>3. PICK k \in Nat : k = IF b.tokens THEN n ELSE 0
  OBVIOUS
<1>4. s' = [t EXCEPT !.initialized = TRUE, !.fields = n, !.size = n,
                     !.ids = i, !.freqs = k, !.entries = k]
  BY <1>1, <1>2, <1>3 DEF BuildFrom
<1>5. /\ s' \in Store
      /\ s'.initialized /\ s'.fields = n /\ s'.size = n
      /\ s'.ids = i /\ s'.freqs = k /\ s'.entries = k
      /\ s'.heads = t.heads /\ s'.buffer = t.buffer /\ s'.file = t.file
  BY <1>4 DEF Store
<1>. QED
  BY <1>1, <1>2, <1>3, <1>5

LEMMA StartFields ==
  ASSUME s \in Store
  PROVE  /\ s.initialized /\ ~CloseFails =>
              Start.heads = 0 /\ Start.buffer = 0 /\ ~Start.file
         /\ ~(s.initialized /\ ~CloseFails) => Start = s
  BY ZeroFields DEF Start

LEMMA BuildStep ==
  ASSUME StorageAssumption, StorageInv, TablesInv, NEW b \in Batches, BuildFrom(b)
  PROVE  StorageInv' /\ TablesInv'
<1>0. PICK n \in Nat : n = Len(origin) + 1
  BY LenProperties DEF StorageInv
<1>. DEFINE c == Given("BuildFrom", b, TRUE)
<1>1. b \in Batch /\ c \in Call
  BY CallTypes
<1>2. /\ origin' \in Seq(Call) /\ Len(origin) \in Nat /\ Len(origin') = n
      /\ DOMAIN origin = 1 .. Len(origin) /\ DOMAIN origin' = 1 .. n
      /\ origin'[n] = c
  BY <1>0, <1>1, OneMore DEF StorageInv, BuildFrom
<1>3. \A k \in DOMAIN origin : IsLoad(k)' = IsLoad(k) /\ Mishap(k)' = Mishap(k)
  BY <1>1, OriginsStay DEF StorageInv, BuildFrom
<1>4. ~IsLoad(n)' /\ Of(n)' = b
  BY <1>2 DEF IsLoad, Of, Given
<1>5. Fresh = n /\ n # 0
  BY <1>0 DEF Fresh
<1>. HIDE DEF c
<1>6. s \in Store /\ UpTo(s, Len(origin)) /\ (s.buffer # 0 => IsLoad(s.buffer))
  BY DEF StorageInv, Typed
<1>7. /\ s' \in Store
      /\ s'.initialized /\ s'.fields = n /\ s'.size = n
      /\ s'.ids = (IF b.docs > 0 THEN n ELSE 0)
      /\ s'.freqs = (IF b.tokens THEN n ELSE 0)
      /\ s'.entries = (IF b.tokens THEN n ELSE 0)
      /\ s'.heads = Start.heads /\ s'.buffer = Start.buffer /\ s'.file = Start.file
  BY <1>1, <1>5, <1>6, BuildFields
<1>8. current' = n /\ n <= MaxOrigins
      /\ since' = (IF s.initialized /\ ~CloseFails THEN {n} ELSE since \union {n})
      /\ mapped' = (IF s.initialized /\ ~CloseFails THEN Unmapped ELSE mapped)
  BY <1>5 DEF BuildFrom
<1>9. /\ s.initialized /\ ~CloseFails => s'.heads = 0 /\ s'.buffer = 0 /\ ~s'.file
      /\ ~(s.initialized /\ ~CloseFails) =>
           s'.heads = s.heads /\ s'.buffer = s.buffer /\ s'.file = s.file
  BY <1>6, <1>7, StartFields
<1>10. mapped' \subseteq mapped
  BY <1>8 DEF Unmapped
<1>11. UpTo(s', n)
  <2>1. /\ s.heads \in Nat /\ s.heads <= Len(origin)
        /\ s.buffer \in Nat /\ s.buffer <= Len(origin)
    BY <1>6 DEF UpTo, Store
  <2>2. s'.heads \in {s.heads, 0} /\ s'.buffer \in {s.buffer, 0}
    BY <1>9
  <2>. QED
    BY <1>0, <1>2, <1>7, <2>1, <2>2 DEF UpTo
<1>12. (s.buffer # 0 => IsLoad(s.buffer))'
  <2>1. s.buffer \in Nat /\ s.buffer <= Len(origin)
    BY <1>6 DEF UpTo, Store
  <2>. QED
    BY <1>2, <1>3, <1>6, <1>9, <2>1 DEF IsLoad
<1>13. (mapped \subseteq {k \in DOMAIN origin : IsLoad(k)})'
  BY <1>0, <1>2, <1>3, <1>10 DEF StorageInv, Typed, IsLoad
<1>14. s'.file => s'.buffer \in mapped' \union {0}
  BY <1>8, <1>9 DEF StorageInv
<1>15. /\ n \in since' /\ since' \subseteq DOMAIN origin'
       /\ (~IsLoad(current))'
  BY <1>0, <1>2, <1>4, <1>8 DEF StorageInv, IsLoad
<1>16. StorageInv'
  BY <1>2, <1>7, <1>8, <1>11, <1>12, <1>13, <1>14, <1>15 DEF StorageInv, Typed
<1>17. Clean' => (s'.initialized \/ Clean)
  BY <1>7
<1>18. n \notin since /\ n \notin DOMAIN origin
  BY <1>0, <1>2 DEF StorageInv
<1>19. Clean' => (Clean \/ (s.initialized /\ ~CloseFails))
  <2>1. SUFFICES ASSUME Clean', ~(s.initialized /\ ~CloseFails), NEW k \in since
                 PROVE  ~Mishap(k)
    BY DEF Clean
  <2>2. k \in DOMAIN origin /\ k \in since'
    BY <1>8, <2>1 DEF StorageInv
  <2>3. Mishap(k)' = Mishap(k)
    BY <1>3, <2>2
  <2>. QED
    BY <2>1, <2>2, <2>3 DEF Clean
<1>20. b.tokens => b.docs > 0
  BY DEF StorageAssumption
<1>21. ASSUME Clean'
       PROVE  AnswersCurrent'
  <2>1. s'.heads = 0 \/ CloseFails'
    <3>1. CASE s.initialized /\ ~CloseFails
      BY <1>9, <3>1
    <3>2. CASE CloseFails
      BY <1>9, <3>2 DEF CloseFails
    <3>3. CASE ~s.initialized
      BY <1>9, <1>19, <1>21, <3>3 DEF TablesInv
    <3>. QED
      BY <3>1, <3>2, <3>3
  <2>. QED
    BY <1>4, <1>7, <1>8, <1>20, <2>1 DEF AnswersCurrent, Lists, Of
<1>22. ASSUME since' = {current'}
       PROVE  HoldsCurrent'
  <2>1. s'.heads = 0
    <3>1. CASE s.initialized /\ ~CloseFails
      BY <1>9, <3>1
    <3>2. CASE ~(s.initialized /\ ~CloseFails)
      <4>1. since = {}
        BY <1>8, <1>18, <1>22, <3>2
      <4>. QED
        BY <1>9, <3>2, <4>1 DEF TablesInv
    <3>. QED
      BY <3>1, <3>2
  <2>2. There(n)'
    BY <1>4 DEF There
  <2>. QED
    BY <1>4, <1>7, <1>8, <2>1, <2>2 DEF HoldsCurrent, HasCurrent, Lists, There, Of, IsLoad
<1>. QED
  BY <1>7, <1>15, <1>16, <1>21, <1>22 DEF TablesInv

-----------------------------------------------------------------------------
(* What the invariant says to a caller.                                    *)
LEMMA TypesFollow ==
  ASSUME StorageAssumption, StorageInv
  PROVE  StorageTypeOK
<1>0. Len(origin) \in Nat
  BY LenProperties DEF StorageInv
<1>1. s \in Store /\ UpTo(s, Len(origin))
  BY DEF StorageInv, Typed
<1>2. s \in [ids : 0 .. Len(origin), freqs : 0 .. Len(origin), fields : 0 .. Len(origin),
             heads : 0 .. Len(origin), entries : 0 .. Len(origin), size : 0 .. Len(origin),
             buffer : 0 .. Len(origin), file : BOOLEAN, initialized : BOOLEAN]
  BY <1>0, <1>1 DEF Store, UpTo
<1>. QED
  BY <1>2 DEF StorageTypeOK, StorageInv, Typed

LEMMA QueriesFollow ==
  ASSUME StorageInv, TablesInv
  PROVE  QueriesReadCurrent
<1>. SUFFICES ASSUME current # 0, ~CloseFails, \A n \in since : ~Mishap(n)
              PROVE  /\ QueriedTables \subseteq {current}
                     /\ Readable(current)
                     /\ s.size = current
  BY DEF QueriesReadCurrent
<1>1. AnswersCurrent
  BY DEF TablesInv, Clean
<1>2. QueriedTables \subseteq {current}
  BY <1>1 DEF AnswersCurrent, QueriedTables, HasTokens
<1>3. Readable(current)
  BY DEF Readable, StorageInv
<1>. QED
  BY <1>1, <1>2, <1>3 DEF AnswersCurrent

LEMMA SavesFollow ==
  ASSUME TablesInv
  PROVE  SavesCurrent
<1>. SUFFICES ASSUME current # 0, since = {current}
              PROVE  SavedTables = [ids    |-> HasCurrent(Of(current).docs > 0),
                                    freqs  |-> HasCurrent(Of(current).tokens),
                                    lists  |-> HasCurrent(Of(current).tokens),
                                    fields |-> HasCurrent(TRUE)]
  BY DEF SavesCurrent, HasCurrent, There
<1>1. HoldsCurrent
  BY DEF TablesInv
<1>2. (IF s.initialized THEN s.fields ELSE 0) = HasCurrent(TRUE)
  BY <1>1 DEF HoldsCurrent, HasCurrent
<1>. QED
  BY <1>1, <1>2 DEF SavedTables, HoldsCurrent

-----------------------------------------------------------------------------
(***************************************************************************)
(* The Reader and the theorems.                                            *)
(***************************************************************************)
LoopRecord == [at : {"none", "marked", "scored", "body", "dead"},
               hits : SUBSET Nat, ids : SUBSET (Nat \X Nat), calm : BOOLEAN]

ReaderTypes ==
  /\ owner \in {"Reader", "caller"}
  /\ searcher \in BOOLEAN
  /\ asked \in {"no", "Query", "QueryString"}
  /\ loop \in LoopRecord
  /\ loop.ids \subseteq (DOMAIN origin) \X Nat

(* The tables a query reads are those of current.                          *)
Answering ==
  /\ s.fields = current
  /\ Of(current).tokens => s.ids = current /\ s.freqs = current /\ s.heads = current

(* A Reader has either one open file, that of its Searcher, or at most a   *)
(* mapping that is closed with the next call; a Storage in other hands has *)
(* no Searcher and no loop.                                                *)
ReaderInv ==
  /\ owner = "caller" => ~searcher /\ asked = "no" /\ loop.at = "none"
  /\ owner = "Reader" =>
       /\ ~s.file => s.buffer = 0
       /\ mapped = IF s.buffer = 0 THEN {} ELSE {s.buffer}
       /\ searcher <=> current # 0
       /\ current # 0 => s.file /\ s.buffer = current /\ IsLoad(current)
       /\ current # 0 /\ Of(current).more => Answering

(* The hits of a loop that nobody disturbed are documents of current.      *)
LoopInv ==
  loop.at \in {"scored", "body", "dead"} /\ loop.calm /\ current # 0 /\ Of(current).more =>
    /\ loop.at # "dead"
    /\ loop.hits \subseteq 1 .. Of(current).docs
    /\ loop.hits # {} => Of(current).tokens
    /\ \A id \in loop.ids : id[1] = current

IInv == StorageInv /\ TablesInv /\ ReaderTypes /\ ReaderInv /\ LoopInv

-----------------------------------------------------------------------------
LEMMA InitIInv == Init => IInv
<1>. SUFFICES ASSUME Init PROVE IInv
  OBVIOUS
<1>1. /\ s = ZeroStorage /\ origin = << >> /\ mapped = {} /\ current = 0 /\ since = {}
      /\ owner \in {"Reader", "caller"} /\ searcher = FALSE /\ asked = "no"
      /\ loop.at = "none" /\ loop \in LoopRecord /\ loop.ids = {}
  BY DEF Init, StorageInit, NoLoop, Loop, LoopRecord
<1>2. Len(origin) = 0 /\ origin \in Seq(Call) /\ Len(origin) <= MaxOrigins
  BY <1>1, StorageAssumption, EmptySeq DEF StorageAssumption
<1>3. Typed(s, mapped)
  BY <1>1, <1>2, ZeroFields DEF Typed, UpTo
<1>4. StorageInv
  BY <1>1, <1>2, <1>3, ZeroFields DEF StorageInv
<1>5. TablesInv
  BY <1>1, ZeroFields DEF TablesInv
<1>6. ReaderTypes
  BY <1>1 DEF ReaderTypes
<1>7. ReaderInv
  BY <1>1, ZeroFields DEF ReaderInv
<1>8. LoopInv
  BY <1>1 DEF LoopInv
<1>. QED
  BY <1>4, <1>5, <1>6, <1>7, <1>8 DEF IInv

(* What a Reader's Close leaves: no mapping.                               *)
LEMMA Closed ==
  ASSUME StorageInv, ReaderInv, owner = "Reader", NEW t \in AfterClose
  PROVE  t.buffer = 0 /\ Unmapped = {} /\ CurrentUnmapped = 0
<1>1. /\ s.file => t.buffer = 0
      /\ ~s.file => t = s
  BY CloseFields DEF StorageInv, Typed
<1>2. t.buffer = 0
  BY <1>1 DEF ReaderInv
<1>3. Unmapped = {}
  BY DEF ReaderInv, Unmapped
<1>4. CurrentUnmapped = 0
  BY DEF ReaderInv, CurrentUnmapped
<1>. QED
  BY <1>2, <1>3, <1>4

LEMMA DisturbedLoop ==
  ASSUME loop \in LoopRecord, Disturbed
  PROVE  /\ loop' \in LoopRecord /\ loop'.ids = loop.ids /\ loop'.at = loop.at
         /\ loop.at # "none" => ~loop'.calm
<1>1. CASE loop.at = "none"
  BY <1>1 DEF Disturbed
<1>2. CASE loop.at # "none"
  <2>1. loop' = [loop EXCEPT !.calm = FALSE]
    BY <1>2 DEF Disturbed
  <2>. QED
    BY <2>1 DEF LoopRecord
<1>. QED
  BY <1>1, <1>2

LEMMA DisturbedInv ==
  ASSUME ReaderTypes, Disturbed, owner' = owner, asked' = asked, searcher' \in BOOLEAN,
         DOMAIN origin \subseteq DOMAIN origin'
  PROVE  ReaderTypes' /\ LoopInv'
<1>1. /\ loop' \in LoopRecord /\ loop'.ids = loop.ids /\ loop'.at = loop.at
      /\ loop.at # "none" => ~loop'.calm
  BY DisturbedLoop DEF ReaderTypes
<1>2. ReaderTypes'
  BY <1>1 DEF ReaderTypes
<1>3. LoopInv'
  BY <1>1 DEF LoopInv
<1>. QED
  BY <1>2, <1>3

-----------------------------------------------------------------------------
LEMMA CallerStep ==
  ASSUME IInv, owner = "caller", StorageNext, UNCHANGED readerVars
  PROVE  IInv'
<1>1. StorageInv' /\ TablesInv'
  <2>1. CASE \E f \in Files : LoadStorage(f)
    <3>1. PICK f \in Files : LoadFrom(s, mapped, f)
      BY <2>1 DEF LoadStorage
    <3>2. f \in File /\ s \in Store /\ Typed(s, mapped)
      BY StorageAssumption, CallTypes DEF IInv, StorageInv, Typed
    <3>3. PICK ok \in BOOLEAN : Loaded(s, mapped, f, ok)
      BY <3>1, <3>2, LoadOutcome DEF IInv, StorageInv
    <3>4. SameTables(s, s)
      BY DEF SameTables
    <3>5. StorageInv'
      BY <3>2, <3>3, StorageAssumption, LoadStep DEF IInv
    <3>6. TablesInv'
      BY <3>2, <3>3, <3>4, StorageAssumption, LoadTables DEF IInv
    <3>. QED
      BY <3>5, <3>6
  <2>2. CASE CloseStorage
    BY <2>2, CloseStep, CloseTables DEF CloseStorage, IInv
  <2>3. CASE ResetStorage
    BY <2>3, ResetStep DEF IInv
  <2>4. CASE \E b \in Batches : BuildFrom(b)
    BY <2>4, StorageAssumption, BuildStep DEF IInv
  <2>5. CASE SaveTo
    BY <2>5, SaveStep DEF IInv
  <2>. QED
    BY <2>1, <2>2, <2>3, <2>4, <2>5 DEF StorageNext
<1>2. DOMAIN origin \subseteq DOMAIN origin'
  <2>1. CASE \E f \in Files : LoadStorage(f)
    <3>1. PICK f \in Files, ok \in BOOLEAN : origin' = Append(origin, Given("Load", f, ok))
      <4>1. PICK f \in Files : LoadFrom(s, mapped, f)
        BY <2>1 DEF LoadStorage
      <4>2. Complete(f) \in BOOLEAN
        BY DEF Complete
      <4>. QED
        BY <4>1, <4>2 DEF LoadFrom
    <3>2. Given("Load", f, ok) \in Call
      BY StorageAssumption, CallTypes
    <3>. QED
      BY <3>1, <3>2, OneMore DEF IInv, StorageInv
  <2>2. CASE \E b \in Batches : BuildFrom(b)
    <3>1. PICK b \in Batches : origin' = Append(origin, Given("BuildFrom", b, TRUE))
      BY <2>2 DEF BuildFrom
    <3>2. Given("BuildFrom", b, TRUE) \in Call
      BY StorageAssumption, CallTypes
    <3>. QED
      BY <3>1, <3>2, OneMore DEF IInv, StorageInv
  <2>3. CASE CloseStorage \/ ResetStorage \/ SaveTo
    BY <2>3 DEF CloseStorage, ResetStorage, SaveTo
  <2>. QED
    BY <2>1, <2>2, <2>3 DEF StorageNext
<1>3. /\ owner' = "caller" /\ searcher' = searcher /\ asked' = asked /\ loop' = loop
      /\ ~searcher /\ asked = "no" /\ loop.at = "none"
  BY DEF IInv, ReaderInv, readerVars
<1>4. ReaderTypes'
  BY <1>2, <1>3 DEF IInv, ReaderTypes, readerVars
<1>5. ReaderInv'
  BY <1>3 DEF ReaderInv
<1>6. LoopInv'
  BY <1>3 DEF LoopInv
<1>. QED
  BY <1>1, <1>4, <1>5, <1>6 DEF IInv

LEMMA ReaderCloses ==
  ASSUME IInv, CallersTurn, searcher' = FALSE, s' \in AfterClose, mapped' = Unmapped,
         current' = CurrentUnmapped, Disturbed, UNCHANGED <<origin, since, owner, asked>>
  PROVE  IInv'
<1>1. owner = "Reader" /\ owner' = "Reader"
  BY DEF CallersTurn
<1>2. StorageInv' /\ TablesInv'
  BY CloseStep, CloseTables DEF IInv
<1>3. s'.buffer = 0 /\ mapped' = {} /\ current' = 0
  BY <1>1, Closed DEF IInv
<1>4. ReaderTypes' /\ LoopInv'
  BY DisturbedInv DEF IInv
<1>5. ReaderInv'
  BY <1>1, <1>3 DEF ReaderInv
<1>. QED
  BY <1>2, <1>4, <1>5 DEF IInv

LEMMA ReaderResets ==
  ASSUME IInv, NEW f \in Files, Reset(f)
  PROVE  IInv'
<1>1. owner = "Reader" /\ owner' = "Reader"
  BY DEF Reset, CallersTurn
<1>2. PICK t \in AfterClose : LoadFrom(t, Unmapped, f)
  BY DEF Reset
<1>3. Typed(t, Unmapped) /\ t \in Store /\ SameTables(s, t)
  BY TypedClosed DEF IInv
<1>4. t.buffer = 0 /\ Unmapped = {}
  BY <1>1, Closed DEF IInv
<1>5. f \in File /\ \A ok \in BOOLEAN : Given("Load", f, ok) \in Call
  BY StorageAssumption, CallTypes
<1>6. PICK ok \in BOOLEAN : Loaded(t, Unmapped, f, ok)
  BY <1>2, <1>3, <1>5, LoadOutcome DEF IInv, StorageInv
<1>7. StorageInv'
  BY <1>3, <1>6, StorageAssumption, LoadStep DEF IInv
<1>8. TablesInv'
  BY <1>3, <1>6, StorageAssumption, LoadTables DEF IInv
<1>9. PICK n \in Nat : n = Len(origin) + 1
  BY LenProperties DEF IInv, StorageInv
<1>10. /\ origin'[n] = Given("Load", f, ok) /\ Fresh = n /\ n # 0
       /\ DOMAIN origin \subseteq DOMAIN origin'
  BY <1>5, <1>6, <1>9, OneMore DEF IInv, StorageInv, Loaded, Fresh
<1>11. ReaderTypes' /\ LoopInv'
  <2>1. searcher' \in BOOLEAN /\ Disturbed /\ owner' = owner /\ asked' = asked
    BY DEF Reset
  <2>. QED
    BY <1>10, <2>1, DisturbedInv DEF IInv
<1>12. ReaderInv'
  <2>0. searcher' = (current' # 0)
    BY DEF Reset
  <2>1. CASE ~ok
    <3>1. ~s'.file /\ s'.buffer = 0 /\ mapped' = {} /\ current' = 0
      BY <1>4, <1>6, <2>1 DEF Loaded
    <3>. QED
      BY <1>1, <2>0, <3>1 DEF ReaderInv
  <2>2. CASE ok
    <3>1. /\ s'.file /\ s'.buffer = n /\ mapped' = {n} /\ current' = n
      BY <1>4, <1>6, <1>10, <2>2 DEF Loaded
    <3>2. IsLoad(n)' /\ Of(n)' = f
      BY <1>10 DEF IsLoad, Of, Given
    <3>3. f.tokens => f.docs > 0
      BY StorageAssumption DEF StorageAssumption
    <3>4. f.more => /\ s'.fields = n
                    /\ f.tokens => s'.ids = n /\ s'.freqs = n /\ s'.heads = n
      BY <1>6, <1>10, <2>2, <3>3 DEF Loaded, Replaced
    <3>5. f.more => Answering'
      BY <3>1, <3>2, <3>4 DEF Answering
    <3>6. IsLoad(current)' /\ Of(current)' = f
      BY <3>1, <3>2 DEF IsLoad, Of
    <3>. QED
      BY <1>1, <1>10, <2>0, <3>1, <3>5, <3>6 DEF ReaderInv
  <2>. QED
    BY <2>1, <2>2
<1>. QED
  BY <1>7, <1>8, <1>11, <1>12 DEF IInv

-----------------------------------------------------------------------------
(* The steps that leave the Storage alone.                                 *)
LEMMA StorageAlone ==
  ASSUME StorageInv, TablesInv, UNCHANGED storageVars
  PROVE  StorageInv' /\ TablesInv'
  BY DEF StorageInv, TablesInv, storageVars, Typed, UpTo, IsLoad, Clean, Mishap, Of,
         AnswersCurrent, HoldsCurrent, HasCurrent, There, Lists, CloseFails

LEMMA ReaderAlone ==
  ASSUME ReaderInv, UNCHANGED <<storageVars, owner, searcher>>, owner = "Reader"
  PROVE  ReaderInv'
  BY DEF ReaderInv, storageVars, Answering, IsLoad, Of

LEMMA QueryStep ==
  ASSUME IInv, Query \/ YieldWatermark
  PROVE  IInv'
<1>1. UNCHANGED <<storageVars, owner, searcher>>
  BY DEF Query, YieldWatermark
<1>2. owner = "Reader"
  BY DEF Query, YieldWatermark, CallersTurn, IInv, ReaderTypes, ReaderInv
<1>3. StorageInv' /\ TablesInv' /\ ReaderInv'
  BY <1>1, <1>2, StorageAlone, ReaderAlone DEF IInv
<1>4. ReaderTypes' /\ LoopInv'
  <2>1. CASE Query
    <3>1. asked' \in {"Query", "QueryString"} /\ loop' = loop /\ loop.at = "none"
      BY <2>1 DEF Query
    <3>2. LoopInv'
      BY <3>1 DEF LoopInv
    <3>3. ReaderTypes'
      BY <1>1, <3>1 DEF IInv, ReaderTypes, storageVars
    <3>. QED
      BY <3>2, <3>3
  <2>2. CASE YieldWatermark
    <3>1. asked' = asked /\ loop'.at = "marked" /\ loop' \in LoopRecord /\ loop'.ids = {}
      BY <2>2 DEF YieldWatermark, Loop, LoopRecord
    <3>2. LoopInv'
      BY <3>1 DEF LoopInv
    <3>3. ReaderTypes'
      BY <1>1, <3>1 DEF IInv, ReaderTypes, storageVars
    <3>. QED
      BY <3>2, <3>3
  <2>. QED
    BY <2>1, <2>2
<1>. QED
  BY <1>3, <1>4 DEF IInv

LEMMA EndStep ==
  ASSUME IInv, EndLoop
  PROVE  IInv'
<1>1. UNCHANGED <<storageVars, owner, searcher, asked>>
  BY DEF EndLoop
<1>2. owner = "Reader"
  BY DEF EndLoop, IInv, ReaderTypes, ReaderInv
<1>3. StorageInv' /\ TablesInv' /\ ReaderInv'
  BY <1>1, <1>2, StorageAlone, ReaderAlone DEF IInv
<1>4. loop'.at = "none" /\ loop' \in LoopRecord /\ loop'.ids = {}
  BY DEF EndLoop, NoLoop, Loop, LoopRecord
<1>5. ReaderTypes'
  BY <1>1, <1>4 DEF IInv, ReaderTypes, storageVars
<1>6. LoopInv'
  BY <1>4 DEF LoopInv
<1>. QED
  BY <1>3, <1>5, <1>6 DEF IInv

(* What is scored are documents of current.                                *)
LEMMA BeginStep ==
  ASSUME IInv, Begin
  PROVE  IInv'
<1>1. UNCHANGED <<storageVars, owner, searcher, asked>>
  BY DEF Begin
<1>2. owner = "Reader"
  BY DEF Begin, IInv, ReaderTypes, ReaderInv
<1>3. StorageInv' /\ TablesInv' /\ ReaderInv'
  BY <1>1, <1>2, StorageAlone, ReaderAlone DEF IInv
<1>. DEFINE mayHit == IF HasTokens THEN 1 .. Of(s.fields).docs ELSE {}
            dead == ~searcher \/ \E n \in ScoredTables : ~Readable(n)
<1>4. PICK calm \in BOOLEAN, hits \in SUBSET mayHit :
        \/ dead /\ loop' = [Loop("dead", {}) EXCEPT !.calm = calm]
        \/ ~dead /\ loop' = [Loop("scored", hits) EXCEPT !.calm = calm]
  <2>1. PICK calm \in BOOLEAN : calm = (loop.at = "none" \/ loop.calm)
    OBVIOUS
  <2>2. CASE dead
    BY <2>1, <2>2 DEF Begin
  <2>3. CASE ~dead
    BY <2>1, <2>3 DEF Begin
  <2>. QED
    BY <2>2, <2>3
<1>5. mayHit \subseteq Nat
  OBVIOUS
<1>6. /\ loop' \in LoopRecord /\ loop'.ids = {}
      /\ \/ dead /\ loop'.at = "dead"
         \/ ~dead /\ loop'.at = "scored" /\ loop'.hits \subseteq mayHit
  BY <1>4, <1>5 DEF Loop, LoopRecord
<1>7. ReaderTypes'
  BY <1>1, <1>6 DEF IInv, ReaderTypes, storageVars
<1>8. ASSUME current # 0, Of(current).more
      PROVE  /\ ~dead
             /\ mayHit \subseteq 1 .. Of(current).docs
             /\ mayHit # {} => Of(current).tokens
  <2>1. searcher /\ Answering /\ current \in mapped
    BY <1>2, <1>8 DEF IInv, ReaderInv, StorageInv
  <2>2. QueriedTables \subseteq {current}
    BY <1>8, <2>1 DEF QueriedTables, HasTokens, Answering, Lists
  <2>3. \A n \in ScoredTables : Readable(n)
    BY <2>1, <2>2 DEF ScoredTables, Readable
  <2>. QED
    BY <1>8, <2>1, <2>3 DEF Answering, HasTokens
<1>9. Of(current)' = Of(current) /\ current' = current
  BY <1>1 DEF storageVars, Of
<1>10. LoopInv'
  BY <1>6, <1>8, <1>9 DEF LoopInv
<1>. QED
  BY <1>3, <1>7, <1>10 DEF IInv

(* A result of a loop that nobody disturbed is an id of current.           *)
LEMMA YieldStep ==
  ASSUME IInv, NEW hit \in loop.hits, Yield(hit)
  PROVE  IInv'
<1>1. UNCHANGED <<storageVars, owner, searcher, asked>>
  BY DEF Yield
<1>2. owner = "Reader" /\ loop.at \in {"scored", "body"}
  BY DEF Yield, IInv, ReaderTypes, ReaderInv
<1>3. StorageInv' /\ TablesInv' /\ ReaderInv'
  BY <1>1, <1>2, StorageAlone, ReaderAlone DEF IInv
<1>. DEFINE dead == s.ids = 0 \/ ~Readable(s.ids) \/ hit > Of(s.ids).docs
<1>4. loop \in LoopRecord /\ loop.hits \subseteq Nat /\ hit \in Nat
  BY DEF IInv, ReaderTypes, LoopRecord
<1>5. Len(origin) \in Nat /\ s.ids \in Nat /\ s.ids <= Len(origin)
      /\ DOMAIN origin = 1 .. Len(origin)
  BY LenProperties DEF IInv, StorageInv, Typed, UpTo, Store
<1>6. CASE dead
  <2>1. loop' = [loop EXCEPT !.at = "dead"]
    BY <1>6 DEF Yield
  <2>2. /\ loop' \in LoopRecord /\ loop'.at = "dead" /\ loop'.ids = loop.ids
        /\ loop'.calm = loop.calm
    BY <1>4, <2>1 DEF LoopRecord
  <2>3. ReaderTypes'
    BY <1>1, <2>2 DEF IInv, ReaderTypes, storageVars
  <2>4. ASSUME loop.calm, current # 0, Of(current).more
        PROVE  FALSE
    <3>1. Answering /\ current \in mapped
      BY <1>2, <2>4 DEF IInv, ReaderInv, StorageInv
    <3>2. Of(current).tokens /\ hit \in 1 .. Of(current).docs
      BY <1>2, <2>4 DEF IInv, LoopInv
    <3>3. s.ids = current
      BY <3>1, <3>2 DEF Answering
    <3>4. hit <= Of(current).docs /\ ~(hit > Of(current).docs)
      <4>1. Of(current).docs \in Int
        <5>1. current \in DOMAIN origin
          BY <1>5, <2>4, <3>3
        <5>2. origin[current] \in Call
          BY <1>5, <5>1, ElementOfSeq DEF IInv, StorageInv
        <5>. QED
          BY <5>2 DEF Call, Of, File, Batch
      <4>. QED
        BY <1>4, <3>2, <4>1
    <3>. QED
      BY <1>6, <2>4, <3>1, <3>3, <3>4 DEF Readable
  <2>5. LoopInv'
    BY <1>1, <2>2, <2>4 DEF LoopInv, storageVars, Of
  <2>. QED
    BY <1>3, <2>3, <2>5 DEF IInv
<1>7. CASE ~dead
  <2>0. PICK hits \in SUBSET Nat, ids \in SUBSET (Nat \X Nat) :
          hits = loop.hits \ {hit} /\ ids = loop.ids \union {<<s.ids, hit>>}
    <3>1. loop.hits \ {hit} \in SUBSET Nat
      BY <1>4
    <3>2. loop.ids \subseteq Nat \X Nat
      BY <1>4 DEF LoopRecord
    <3>3. loop.ids \union {<<s.ids, hit>>} \in SUBSET (Nat \X Nat)
      BY <1>4, <1>5, <3>2
    <3>. QED
      BY <3>1, <3>3
  <2>1. loop' = [loop EXCEPT !.at = "body", !.hits = hits, !.ids = ids]
    BY <1>7, <2>0 DEF Yield
  <2>2. /\ loop' \in LoopRecord /\ loop'.at = "body"
        /\ loop'.ids = loop.ids \union {<<s.ids, hit>>}
        /\ loop'.hits \subseteq loop.hits /\ loop'.calm = loop.calm
    BY <1>4, <2>0, <2>1 DEF LoopRecord
  <2>3. s.ids \in DOMAIN origin
    BY <1>5, <1>7
  <2>4. ReaderTypes'
    BY <1>1, <1>4, <2>2, <2>3 DEF IInv, ReaderTypes, storageVars
  <2>5. ASSUME loop.calm, current # 0, Of(current).more
        PROVE  s.ids = current
    BY <1>2, <2>5 DEF IInv, LoopInv, ReaderInv, Answering
  <2>6. LoopInv'
    BY <1>1, <1>2, <2>2, <2>5 DEF IInv, LoopInv, storageVars, Of
  <2>. QED
    BY <1>3, <2>4, <2>6 DEF IInv
<1>. QED
  BY <1>6, <1>7

LEMMA StutterStep ==
  ASSUME IInv, UNCHANGED vars
  PROVE  IInv'
<1>1. UNCHANGED storageVars /\ UNCHANGED <<owner, searcher, asked, loop>>
  BY DEF vars, readerVars
<1>2. StorageInv' /\ TablesInv'
  BY <1>1, StorageAlone DEF IInv
<1>. QED
  BY <1>1, <1>2 DEF IInv, storageVars, ReaderTypes, ReaderInv, LoopInv, Answering, IsLoad, Of

LEMMA NextIInv == IInv /\ [Next]_vars => IInv'
<1>. SUFFICES ASSUME IInv, [Next]_vars PROVE IInv'
  OBVIOUS
<1>1. CASE owner = "caller" /\ StorageNext /\ UNCHANGED readerVars
  BY <1>1, CallerStep
<1>2. CASE Close
  BY <1>2, ReaderCloses DEF Close
<1>3. CASE ResetWithoutFile
  BY <1>3, ReaderCloses DEF ResetWithoutFile
<1>4. CASE \E f \in Files : Reset(f)
  BY <1>4, ReaderResets
<1>5. CASE Query \/ YieldWatermark
  BY <1>5, QueryStep
<1>6. CASE Begin
  BY <1>6, BeginStep
<1>7. CASE \E hit \in loop.hits : Yield(hit)
  BY <1>7, YieldStep
<1>8. CASE EndLoop
  BY <1>8, EndStep
<1>9. CASE UNCHANGED vars
  BY <1>9, StutterStep
<1>. QED
  BY <1>1, <1>2, <1>3, <1>4, <1>5, <1>6, <1>7, <1>8, <1>9 DEF Next

LEMMA Invariance == Spec => []IInv
  BY InitIInv, NextIInv, PTL DEF Spec

-----------------------------------------------------------------------------
(* Every reachable state is well typed.                                    *)
THEOREM TypeCorrect == Spec => []TypeOK
<1>1. IInv => TypeOK
  <2>. SUFFICES ASSUME IInv PROVE TypeOK
    OBVIOUS
  <2>1. StorageTypeOK
    BY StorageAssumption, TypesFollow DEF IInv
  <2>. QED
    BY <2>1 DEF IInv, ReaderTypes, LoopRecord, TypeOK
<1>. QED
  BY <1>1, Invariance, PTL

(* A value that is used over and over answers from its last Load or        *)
(* BuildFrom alone (QueriesReadCurrent), in any order of the calls.        *)
THEOREM QueriesReadCurrentAlways == Spec => []QueriesReadCurrent
<1>1. IInv => QueriesReadCurrent
  BY QueriesFollow DEF IInv
<1>. QED
  BY <1>1, Invariance, PTL

(* SaveTo writes the tables of one batch or file (SavesCurrent).           *)
THEOREM SavesCurrentAlways == Spec => []SavesCurrent
<1>1. IInv => SavesCurrent
  BY SavesFollow DEF IInv
<1>. QED
  BY <1>1, Invariance, PTL

(* A Query that is not refused has the mapping of the last Reset           *)
(* (SearcherMeansOpen), whichever calls failed before.                     *)
THEOREM SearcherMeansOpenAlways == Spec => []SearcherMeansOpen
<1>1. IInv => SearcherMeansOpen
  BY DEF IInv, ReaderTypes, ReaderInv, StorageInv, SearcherMeansOpen
<1>. QED
  BY <1>1, Invariance, PTL

(* A Reader keeps no mapping but the one it answers from (NothingLeaks).   *)
THEOREM NothingLeaksEver == Spec => []NothingLeaks
<1>1. IInv => NothingLeaks
  BY DEF IInv, ReaderInv, NothingLeaks
<1>. QED
  BY <1>1, Invariance, PTL

(* A loop that nobody disturbed yields ids of the storage it scored and    *)
(* touches no unmapped memory (LoopsAnswerCurrent).                        *)
THEOREM LoopsAnswerCurrentAlways == Spec => []LoopsAnswerCurrent
<1>1. IInv => LoopsAnswerCurrent
  BY DEF IInv, LoopInv, LoopsAnswerCurrent
<1>. QED
  BY <1>1, Invariance, PTL
=============================================================================
