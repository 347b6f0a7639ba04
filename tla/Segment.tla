------------------------------ MODULE Segment ------------------------------
(***************************************************************************)
(* The data of a storage.Storage and of the file it is saved in            *)
(* (src/storage/storage.go, src/storage/headers.go), and what it means for *)
(* a storage to index a sequence of documents.                             *)
(*                                                                         *)
(* A document is a record [id, fields]; its fields are a function from the *)
(* hashes of its field names to records [tokens, length], and the tokens   *)
(* of a field a function from token values to frequencies: the callers in  *)
(* package fields give each value once per field, and this model has each  *)
(* field once per document.  Token values are numbers, ordered as          *)
(* bytes.Compare orders the strings they stand for.  Document indices,     *)
(* posting-list indices and frequency indices count from 0 as in the code. *)
(***************************************************************************)
EXTENDS Integers, Sequences, FiniteSets, SequencesExt

(* What a document can be: an AccumulatorDocument has finitely many fields *)
(* of finitely many tokens, and a batch is a sequence of such documents.   *)
IsDocument(doc) ==
  /\ IsFiniteSet(DOMAIN doc.fields)
  /\ \A f \in DOMAIN doc.fields :
       /\ doc.fields[f].length \in Nat
       /\ IsFiniteSet(DOMAIN doc.fields[f].tokens)
       /\ \A v \in DOMAIN doc.fields[f].tokens :
            v \in Nat /\ doc.fields[f].tokens[v] \in Nat

IsBatch(docs) == /\ Len(docs) \in Nat
                 /\ docs = [k \in 1 .. Len(docs) |-> docs[k]]
                 /\ \A k \in 1 .. Len(docs) : IsDocument(docs[k])

FieldsOf(docs) == UNION {DOMAIN docs[k].fields : k \in DOMAIN docs}

HasToken(doc, f, v) == f \in DOMAIN doc.fields /\ v \in DOMAIN doc.fields[f].tokens

(* The indices of the documents that have token v in field f.              *)
Holders(docs, f, v) == {k - 1 : k \in {n \in DOMAIN docs : HasToken(docs[n], f, v)}}

ValuesOf(docs, f) ==
  UNION {DOMAIN docs[k].fields[f].tokens :
           k \in {n \in DOMAIN docs : f \in DOMAIN docs[n].fields}}

(* SetToSortSeq(S, <), without its enumeration of the sequences over S.    *)
Ascending(S) ==
  [k \in 1 .. Cardinality(S) |->
     CHOOSE x \in S : Cardinality({y \in S : y < x}) = k - 1]

(* The (document, frequency) pairs of one token, by document index.        *)
EntriesOf(docs, f, v) ==
  LET at == Ascending(Holders(docs, f, v)) IN
  [k \in DOMAIN at |-> [doc  |-> at[k],
                        freq |-> docs[at[k] + 1].fields[f].tokens[v]]]

(* The documents that have a positive length in field f.                   *)
LengthsOf(docs, f) ==
  LET at == Ascending({k - 1 : k \in {n \in DOMAIN docs :
                /\ f \in DOMAIN docs[n].fields
                /\ docs[n].fields[f].length > 0}})
  IN  [k \in DOMAIN at |-> [doc    |-> at[k],
                            length |-> docs[at[k] + 1].fields[f].length]]

SumOf(seq, Value(_)) == FoldLeft(LAMBDA sum, x : sum + Value(x), 0, seq)
LengthSum(lengths) == SumOf(lengths, LAMBDA e : e.length)
LenSum(seqs) == SumOf(seqs, Len)
CountSum(tokens) == SumOf(tokens, LAMBDA t : t.count)

(* AvgDocumentLength is a quotient; it is kept as the pair it is computed  *)
(* from.  BuildFrom leaves 0 in a field without lengths, Merger.Merge      *)
(* divides 0 by 0 there.                                                   *)
NoAverage == [sum |-> 0, over |-> 0]
Average(sum, n) == [sum |-> sum, over |-> n]

EmptySegment == [ids |-> << >>, freqs |-> << >>, lists |-> << >>, fields |-> << >>]

Slice(s, t) == SubSeq(s.freqs, t.freq + 1, t.freq + t.count)

-----------------------------------------------------------------------------
(***************************************************************************)
(* s indexes docs: what a reader finds through the tables of s is what     *)
(* docs say, whatever the order of the fields and of the tables.           *)
(***************************************************************************)
IndexesField(s, docs, f) ==
  LET field == s.fields[f]
      vals  == Ascending(ValuesOf(docs, f))
  IN  /\ [k \in DOMAIN field.tokens |-> field.tokens[k].value] = vals
      /\ \A k \in DOMAIN field.tokens :
           LET t == field.tokens[k] IN
           /\ t.list + 1 \in DOMAIN s.lists
           /\ s.lists[t.list + 1] = Holders(docs, f, t.value)
           /\ t.count = Cardinality(Holders(docs, f, t.value))
           /\ Slice(s, t) = EntriesOf(docs, f, t.value)
      /\ field.lengths = LengthsOf(docs, f)
      /\ field.total = LengthSum(field.lengths)
      /\ field.avg = Average(field.total, Len(field.lengths))
      /\ field.occurrences = CountSum(field.tokens)

(* Each posting list and each frequency entry belongs to one token.        *)
TokensOf(s) ==
  UNION {{<<f, k>> : k \in DOMAIN s.fields[f].tokens} : f \in DOMAIN s.fields}

TablesCovered(s) ==
  LET tok(p) == s.fields[p[1]].tokens[p[2]] IN
  /\ Cardinality(TokensOf(s)) = Len(s.lists)
  /\ \A p, q \in TokensOf(s) : p # q =>
       /\ tok(p).list # tok(q).list
       /\ \/ tok(p).freq + tok(p).count <= tok(q).freq
          \/ tok(q).freq + tok(q).count <= tok(p).freq
  /\ Len(s.freqs) = MapThenSumSet(LAMBDA p : tok(p).count, TokensOf(s))

Indexes(s, docs) ==
  /\ s.ids = [k \in DOMAIN docs |-> docs[k].id]
  /\ DOMAIN s.fields = FieldsOf(docs)
  /\ \A f \in DOMAIN s.fields : IndexesField(s, docs, f)
  /\ TablesCovered(s)

-----------------------------------------------------------------------------
(* A storage that indexes docs, its tables laid out field by field in this *)
(* order of the fields: what BuildFrom leaves when its range over the map  *)
(* of accumulators takes them in this order.                               *)
LaidOut(docs, order) ==
  LET cells == FlattenSeq([n \in DOMAIN order |->
                 [k \in DOMAIN Ascending(ValuesOf(docs, order[n])) |->
                    [f |-> order[n],
                     v |-> Ascending(ValuesOf(docs, order[n]))[k]]]])
      entries == [n \in DOMAIN cells |-> EntriesOf(docs, cells[n].f, cells[n].v)]
      token(n) == [value |-> cells[n].v,
                   count |-> Len(entries[n]),
                   list  |-> n - 1,
                   freq  |-> LenSum(SubSeq(entries, 1, n - 1))]
      field(f) ==
        LET mine == Ascending({n \in DOMAIN cells : cells[n].f = f})
            lens == LengthsOf(docs, f)
        IN  [tokens      |-> [k \in DOMAIN mine |-> token(mine[k])],
             lengths     |-> lens,
             total       |-> LengthSum(lens),
             avg         |-> Average(LengthSum(lens), Len(lens)),
             occurrences |-> LenSum([k \in DOMAIN mine |-> entries[mine[k]]])]
  IN  [ids    |-> [k \in DOMAIN docs |-> docs[k].id],
       freqs  |-> FlattenSeq(entries),
       lists  |-> [n \in DOMAIN cells |-> Holders(docs, cells[n].f, cells[n].v)],
       fields |-> [f \in FieldsOf(docs) |-> field(f)]]

LayoutsOf(docs) == {LaidOut(docs, o) : o \in SetToSeqs(FieldsOf(docs))}

-----------------------------------------------------------------------------
(***************************************************************************)
(* The file.  Its regions are sequences; a file that was cut off misses    *)
(* the end of a region and all the regions after it.                       *)
(*   header  << >> or one header record                                    *)
(*   fields  blocks [hash, avg, total, tokenCount, occurrences,            *)
(*           lengthCount, lengths, tokens]                                 *)
(*   heads   posting-list headers [offset, length]                         *)
(*   data    serialized bitmaps                                            *)
(***************************************************************************)
NoSuchFile == [header |-> << >>, ids |-> << >>, freqs |-> << >>,
               fields |-> << >>, heads |-> << >>, data |-> << >>]

ZeroHeader == [docs |-> 0, fields |-> 0, lists |-> 0, data |-> 0, freqs |-> 0]
ZeroHead == [offset |-> 0, length |-> 0]

(* unsafe.Sizeof of the records of a file.                                 *)
HeaderSize == 56
DocumentIdSize == 136
TokenFrequencyEntrySize == 8
FieldHeaderSize == 48
DocumentLengthEntrySize == 8
TokenSize == 160
PostingListHeaderSize == 16

(* roaring: the serialized size of a bitmap of one array container.        *)
BitmapSize(S) == IF S = {} THEN 8 ELSE 16 + 2 * Cardinality(S)

DataSize(data) == SumOf(data, BitmapSize)
HeadsSize(heads) == SumOf(heads, LAMBDA h : h.length)

FileSize(f) ==
  Len(f.header) * HeaderSize
  + Len(f.ids) * DocumentIdSize
  + Len(f.freqs) * TokenFrequencyEntrySize
  + SumOf(f.fields, LAMBDA b : FieldHeaderSize
                                  + Len(b.lengths) * DocumentLengthEntrySize
                                  + Len(b.tokens) * TokenSize)
  + Len(f.heads) * PostingListHeaderSize
  + DataSize(f.data)

(* os.File.WriteAt of a chunk of posting-list headers, in the room that is *)
(* reserved for them.                                                      *)
WriteAt(old, pos, chunk) ==
  [k \in DOMAIN old |-> IF k - pos \in DOMAIN chunk THEN chunk[k - pos] ELSE old[k]]

(* PostingLists.Get: the bytes a posting-list header points at.  Bytes that*)
(* are not one bitmap do not parse, and UnsafeBitmap leaves the empty one. *)
BitmapAt(data, head) ==
  LET at == {n \in DOMAIN data : /\ DataSize(SubSeq(data, 1, n - 1)) = head.offset
                                 /\ BitmapSize(data[n]) = head.length}
  IN  IF at = {} THEN {} ELSE data[CHOOSE n \in at : TRUE]

(* Storage.Load: a region that is shorter than the header announces is an  *)
(* error; what follows the announced part of a region is the next region.  *)
Rejected == [error |-> "not enough space"]

HeaderOnly(f) ==
  f.ids = << >> /\ f.freqs = << >> /\ f.fields = << >> /\ f.heads = << >>

BadUnreadable(f) ==   \* the posting lists are not measured
  LET h == f.header[1] IN
  \/ Len(f.ids) < h.docs
  \/ Len(f.freqs) < h.freqs
  \/ Len(f.fields) < h.fields
  \/ \E n \in 1 .. h.fields : \/ Len(f.fields[n].lengths) < f.fields[n].lengthCount
                              \/ Len(f.fields[n].tokens) < f.fields[n].tokenCount
  \/ Len(f.heads) < h.lists

Unreadable(f) ==
  LET h == f.header[1] IN
  \/ Len(f.ids) < h.docs
  \/ Len(f.freqs) < h.freqs
  \/ Len(f.fields) < h.fields
  \/ \E n \in 1 .. h.fields : \/ Len(f.fields[n].lengths) < f.fields[n].lengthCount
                              \/ Len(f.fields[n].tokens) < f.fields[n].tokenCount
  \/ Len(f.heads) < h.lists
  \/ h.lists > 0 /\ (DataSize(f.data) < h.data \/ HeadsSize(f.heads) # h.data)

Load(f) ==
  IF f.header = << >> THEN Rejected
  ELSE IF HeaderOnly(f) THEN EmptySegment
  ELSE IF Unreadable(f) THEN Rejected
  ELSE
    LET h == f.header[1]
        block(hash) == f.fields[CHOOSE n \in 1 .. h.fields : f.fields[n].hash = hash]
    IN  [ids    |-> SubSeq(f.ids, 1, h.docs),
         freqs  |-> SubSeq(f.freqs, 1, h.freqs),
         lists  |-> [n \in 1 .. h.lists |-> BitmapAt(f.data, f.heads[n])],
         fields |-> [hash \in {f.fields[n].hash : n \in 1 .. h.fields} |->
           [tokens      |-> SubSeq(block(hash).tokens, 1, block(hash).tokenCount),
            lengths     |-> SubSeq(block(hash).lengths, 1, block(hash).lengthCount),
            total       |-> block(hash).total,
            avg         |-> block(hash).avg,
            occurrences |-> block(hash).occurrences]]]

(* The block that SaveTo writes for a field.                               *)
BlockOf(hash, field) ==
  [hash |-> hash, avg |-> field.avg, total |-> field.total,
   tokenCount |-> Len(field.tokens), occurrences |-> field.occurrences,
   lengthCount |-> Len(field.lengths),
   lengths |-> field.lengths, tokens |-> field.tokens]
=============================================================================
