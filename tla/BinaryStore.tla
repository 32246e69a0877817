---------------------------- MODULE BinaryStore -----------------------------
(***************************************************************************)
(* V00J files being written, read, copied with damage and indexed: a       *)
(* writer (binary_format_v00j.py or the Rust core behind rust_core_v00o.py)*)
(* that rewrites the file of a kind in place and may die halfway, and an   *)
(* indexer (binary_index_v00k.py) that reads the two files one after the   *)
(* other, a buffer at a time, and writes the index.                        *)
(*                                                                         *)
(* A row is a payload as JSON gives it: a function from its fields.        *)
(***************************************************************************)
EXTENDS BinaryFormat

CONSTANTS
  Rows,        \* the rows there are, as a sequence; the payload of one tells its number
  Sizes,       \* how many cells the payload of each takes
  Writes,      \* what may be written: pairs of a kind and a sequence of numbers of rows
  Trusts,      \* numbers given as a trust
  Buffer,      \* what one read of an open file takes: so many cells, or what there is
  MaxWrites    \* bound: writes begun

ASSUME BinaryStoreAssumption ==
  /\ MaxWrites \in Nat /\ Trusts \subseteq Nat /\ Buffer \in Nat \ {0}
  /\ Len(Rows) \in Nat \ {0} /\ DOMAIN Rows = 1..Len(Rows)
  /\ Sizes \in [1..Len(Rows) -> Nat \ {0}]
  /\ Writes \subseteq Kinds \X Seq(1..Len(Rows))

VARIABLES
  files,      \* for a kind: its file
  writer,     \* the write under way
  writes,     \* how many have begun
  indexer,    \* build_index_from_files
  index,      \* the index file
  aside,      \* what some other caller made in the last step: a copy or an encoded record
  begun,      \* history: for a kind, the payloads of the write begun last
  versions,   \* history: for a kind, the payloads of all writes begun
  raced       \* history: the kinds rewritten while they were read for the index there is

vars == <<files, writer, writes, indexer, index, aside, begun, versions, raced>>

SeedKind == 1
BridgeKind == 2

\* canonical_payload.
Payload(n) == [i \in 1..Sizes[n] |-> <<n>>]

Payloads(numbers) == [i \in DOMAIN numbers |-> Payload(numbers[i])]

\* json.loads of one that was written.
RowOf(payload) == Rows[payload[1][1]]

----------------------------------------------------------------------------
(* binary_index_v00k.py: the payload of an index *)

\* The first of the fields that the row has, or else another text.
FirstOf(row, fields, otherwise) ==
  LET has == {i \in DOMAIN fields : fields[i] \in DOMAIN row}
  IN  IF has = {} THEN otherwise ELSE row[fields[Min(has)]]

\* _entry_from_record, with _payload_type and _logical_id.
Entry(kind, i, payload) ==
  LET row == RowOf(payload)
      source == IF kind = BridgeKind THEN "bbridge" ELSE "bseed"
  IN  [record_id |-> RecordId(payload), source_kind |-> source, record_index |-> i - 1,
       type |-> FirstOf(row, IF kind = BridgeKind THEN <<"type", "relation", "kind">> ELSE <<"type", "kind">>,
                        IF kind = BridgeKind THEN "BBRIDGE" ELSE "BSEED"),
       trust_state |-> FirstOf(row, <<"trust_state">>, "RAW"),
       logical_id |-> FirstOf(row, <<"seed_id", "bridge_id", "id", "key">>, "rid:" \o ToString(RecordId(payload))),
       relation |-> FirstOf(row, <<"relation">>, "")]

LookupFields == {"record_id", "type", "trust_state", "relation", "logical_id"}

PositionsBy(rows, at) ==
  [field \in LookupFields |->
     LET keyed == {i \in DOMAIN rows : ~(field = "relation" /\ rows[i].relation = "")}
     IN  [key \in {rows[i][field] : i \in keyed} |-> Sublist(at, {i \in keyed : rows[i][field] = key})]]

\* Mutant: a lookup keeps the place of a record in its file.
PositionsInFile(rows) == PositionsBy(rows, [i \in DOMAIN rows |-> rows[i].record_index])

\* Mutant: positions from 1.
PositionsFromOne(rows) == PositionsBy(rows, [i \in DOMAIN rows |-> i])

\* build_index_payload 99-111, with _add_lookup: positions from 0.
Positions(rows) == PositionsBy(rows, [i \in DOMAIN rows |-> i - 1])

\* build_index_payload: sorted by source_kind, "bbridge" before "bseed", and then by place.
IndexPayload(seeds, bridges) ==
  LET rows == [i \in DOMAIN bridges |-> Entry(BridgeKind, i, bridges[i])]
              \o [i \in DOMAIN seeds |-> Entry(SeedKind, i, seeds[i])]
  IN  [count |-> Len(rows), records |-> rows, lookups |-> Positions(rows)]

\* write_index: the header, with the length and the CRC of the bytes that
\* follow; they are the payload, in two cells.
NoPayload == [count |-> -1]
NoIndex == [header |-> FALSE, crc |-> NoPayload, body |-> NoPayload, cells |-> 0]
IndexFile(payload) == [header |-> TRUE, crc |-> payload, body |-> payload, cells |-> 2]

\* read_index, and verify_index.
ReadIndex(file) ==
  IF file.header /\ file.cells = 2 /\ file.crc = file.body THEN [ok |-> TRUE, payload |-> file.body] ELSE Failed

VerifyIndex(file) ==
  IF ReadIndex(file).ok /\ file.body.count = Len(file.body.records) THEN ReadIndex(file) ELSE Failed

\* _lookup, and lookup_record_id and the others.
Lookup(payload, field, key) ==
  LET found == payload.lookups[field]
  IN  IF key \notin DOMAIN found THEN << >>
      ELSE [n \in DOMAIN found[key] |-> payload.records[found[key][n] + 1]]

\* binary_mini_query.
MiniQuery(payload, query) ==
  IF query.field \notin LookupFields THEN [ok |-> FALSE, results |-> << >>]
  ELSE [ok |-> TRUE, results |-> Lookup(payload, query.field, query.key)]

----------------------------------------------------------------------------
(* The writer *)

Idle == [at |-> "idle"]

\* The indexer with a part of the file of a kind, and the seeds when it has them.
HasRead(kind, got, seeds, during) ==
  [at |-> "reading", kind |-> kind, got |-> got, seeds |-> seeds, raced |-> during]

Nothing == [is |-> "none"]

\* write_records and write_records_v00j: the file is opened and emptied.
BeginWrite(kind, numbers, rust) ==
  /\ writer = Idle /\ writes < MaxWrites
  /\ writes' = writes + 1
  /\ files' = [files EXCEPT ![kind] = << >>]
  /\ begun' = [begun EXCEPT ![kind] = Payloads(numbers)]
  /\ versions' = [versions EXCEPT ![kind] = @ \cup {Payloads(numbers)}]
  /\ writer' = [at |-> "writing", kind |-> kind, data |-> WriteRecords(kind, Payloads(numbers), rust)]
  /\ indexer' = IF indexer.at = "reading" /\ indexer.kind = kind /\ indexer.got # << >>
                THEN [indexer EXCEPT !.raced = @ \cup {kind}] ELSE indexer
  /\ aside' = Nothing
  /\ UNCHANGED <<index, raced>>

\* The start of the text gets to the file before the rest.
WriteSome ==
  /\ writer # Idle /\ Len(files[writer.kind]) < Len(writer.data)
  /\ files' = [files EXCEPT ![writer.kind] = Append(@, writer.data[Len(@) + 1])]
  /\ aside' = Nothing
  /\ UNCHANGED <<writer, writes, indexer, index, begun, versions, raced>>

EndWrite ==
  /\ writer # Idle /\ files[writer.kind] = writer.data
  /\ writer' = Idle
  /\ aside' = Nothing
  /\ UNCHANGED <<files, writes, indexer, index, begun, versions, raced>>

CrashWriter ==
  /\ writer # Idle
  /\ writer' = Idle
  /\ aside' = Nothing
  /\ UNCHANGED <<files, writes, indexer, index, begun, versions, raced>>

----------------------------------------------------------------------------
(* The indexer: build_index_from_files *)

\* read_bseed, which is the Python reader, opens the file of the seeds.
BuildIndex ==
  /\ indexer = Idle
  /\ indexer' = HasRead(SeedKind, << >>, << >>, {})
  /\ aside' = Nothing
  /\ UNCHANGED <<files, writer, writes, index, begun, versions, raced>>

\* The f.read calls of read_records: a buffer more of the file as it is now.
ReadSome ==
  /\ indexer.at = "reading" /\ Len(indexer.got) < Len(files[indexer.kind])
  /\ indexer' = [indexer EXCEPT !.got = @ \o Cells(files[indexer.kind], Len(@) + 1, Buffer)]
  /\ aside' = Nothing
  /\ UNCHANGED <<files, writer, writes, index, begun, versions, raced>>

\* The end of the file, as it is now, or what made read_records raise before it.
AtEnd(kind) ==
  /\ indexer.at = "reading" /\ indexer.kind = kind
  /\ Len(indexer.got) >= Len(files[kind])

\* build_index_from_files 187-189.
ReadSeeds ==
  /\ AtEnd(SeedKind)
  /\ LET read == ReadPython(indexer.got, SeedKind)
     IN  /\ read.ok
         /\ indexer' = HasRead(BridgeKind, << >>, read.payloads, indexer.raced)
  /\ aside' = Nothing
  /\ UNCHANGED <<files, writer, writes, index, begun, versions, raced>>

\* build_index_from_files 191-195, and the open of the index in write_index.
ReadBridges ==
  /\ AtEnd(BridgeKind)
  /\ LET read == ReadPython(indexer.got, BridgeKind)
     IN  /\ read.ok
         /\ indexer' = [at |-> "index", payload |-> IndexPayload(indexer.seeds, read.payloads),
                        raced |-> indexer.raced]
  /\ index' = NoIndex
  /\ aside' = Nothing
  /\ UNCHANGED <<files, writer, writes, begun, versions, raced>>

\* read_records raises, and the index stays as it was.
ReadRaises ==
  /\ \E kind \in {SeedKind, BridgeKind} : AtEnd(kind) /\ ~ReadPython(indexer.got, kind).ok
  /\ indexer' = Idle
  /\ aside' = Nothing
  /\ UNCHANGED <<files, writer, writes, index, begun, versions, raced>>

\* write_index 135-137.
WriteIndex ==
  /\ indexer.at = "index"
  /\ index' = IndexFile(indexer.payload)
  /\ raced' = indexer.raced
  /\ indexer' = Idle
  /\ aside' = Nothing
  /\ UNCHANGED <<files, writer, writes, begun, versions>>

\* The indexer dies with a part of the index written.
CrashIndexer ==
  /\ indexer.at = "index"
  /\ \E cells \in 0..1 :
       index' = [IndexFile(indexer.payload) EXCEPT !.header = (cells > 0), !.cells = cells, !.body = NoPayload]
  /\ indexer' = Idle
  /\ aside' = Nothing
  /\ UNCHANGED <<files, writer, writes, begun, versions, raced>>

----------------------------------------------------------------------------
(* Others *)

Flip(cell) == <<cell[1] + 100>> \o Tail(cell)

\* corrupt_copy: a copy with the byte at an offset changed.
CorruptCopy(kind, offset) ==
  /\ Len(files[kind]) > HeaderSize + RecordHeaderSize /\ offset \in DOMAIN files[kind]
  /\ aside' = [is |-> "copy", kind |-> kind, offset |-> offset,
               was |-> ReadPython(files[kind], kind), data |-> [files[kind] EXCEPT ![offset] = Flip(@)]]
  /\ UNCHANGED <<files, writer, writes, indexer, index, begun, versions, raced>>

\* corrupt_index_copy: the second byte of the payload.
CorruptIndexCopy ==
  /\ index.cells = 2
  /\ aside' = [is |-> "index", file |-> [index EXCEPT !.body = NoPayload]]
  /\ UNCHANGED <<files, writer, writes, indexer, index, begun, versions, raced>>

\* encode_record of the shim, and encode_batch, by a backend that may be there.
Encode(n, trust, backend, available) ==
  /\ aside' = [is |-> "record", n |-> n, available |-> available, backend |-> backend,
               got |-> EncodeRecord(Payload(n), backend, available),
               records |-> <<<<SeedKind, trust, Payload(n)>>, <<BridgeKind, trust, Payload(1)>>>>,
               batch |-> EncodeBatch(<<<<SeedKind, trust, Payload(n)>>, <<BridgeKind, trust, Payload(1)>>>>,
                                     backend, available)]
  /\ UNCHANGED <<files, writer, writes, indexer, index, begun, versions, raced>>

\* encode_record of BRS1, and a copy with the byte at an offset changed.
EncodeBrs(n, trust, offset) ==
  LET data == BrsEncode(SeedKind, trust, Payload(1), Payload(n))
  IN  /\ offset \in 0..Len(data)
      /\ aside' = [is |-> "brs", n |-> n, trust |-> trust, offset |-> offset,
                   data |-> IF offset = 0 THEN data ELSE [data EXCEPT ![offset] = Flip(@)]]
      /\ UNCHANGED <<files, writer, writes, indexer, index, begun, versions, raced>>

----------------------------------------------------------------------------

Init ==
  /\ files = [kind \in Kinds |-> << >>]
  /\ writer = Idle /\ writes = 0 /\ indexer = Idle
  /\ index = NoIndex
  /\ aside = Nothing
  /\ begun = [kind \in Kinds |-> << >>]
  /\ versions = [kind \in Kinds |-> {}]
  /\ raced = {}

Write == \E write \in Writes, rust \in BOOLEAN : BeginWrite(write[1], write[2], rust)

\* Bounds: one call of another caller at a time; what is encoded depends on no
\* file, so before any is written; a copy depends on a file alone, torn or not,
\* so between two writes and before there is an index.
Other ==
  /\ aside = Nothing
  /\ \/ /\ indexer = Idle /\ writer = Idle /\ index = NoIndex
        /\ \E kind \in Kinds, offset \in 1..30 : CorruptCopy(kind, offset)
     \/ CorruptIndexCopy
     \/ /\ writes = 0
        /\ \E n \in DOMAIN Rows, trust \in Trusts :
             \/ \E backend \in {"auto", "python", "rust", "none"}, available \in BOOLEAN :
                  Encode(n, trust, backend, available)
             \/ \E offset \in 0..12 : EncodeBrs(n, trust, offset)

Next ==
  \/ Write \/ WriteSome \/ EndWrite \/ CrashWriter
  \/ BuildIndex \/ ReadSome \/ ReadSeeds \/ ReadBridges \/ ReadRaises \/ WriteIndex \/ CrashIndexer
  \/ Other

Spec == Init /\ [][Next]_vars

----------------------------------------------------------------------------
(* Properties *)

\* Types; a position in an index is that of a record.
TypeOK ==
  /\ files \in [Kinds -> Seq(Seq(Int))] /\ writes \in 0..MaxWrites
  /\ writer # Idle => writer.at = "writing" /\ writer.kind \in Kinds /\ writer.data \in Seq(Seq(Int))
  /\ indexer.at \in {"idle", "reading", "index"} /\ raced \subseteq {SeedKind, BridgeKind}
  /\ indexer.at = "reading" => /\ indexer.kind \in {SeedKind, BridgeKind} /\ indexer.got \in Seq(Seq(Int))
                               /\ indexer.seeds \in Seq(Seq(Seq(Int)))
  /\ index.header \in BOOLEAN /\ index.cells \in 0..2
  /\ index.body # NoPayload =>
       \A field \in LookupFields : LET found == index.body.lookups[field]
                                   IN  \A key \in DOMAIN found : Range(found[key]) \subseteq 0..(index.body.count - 1)
  /\ aside.is \in {"none", "copy", "index", "record", "brs"}
  /\ begun \in [Kinds -> Seq(Seq(Seq(Int)))]
  /\ \A kind \in Kinds : versions[kind] \subseteq Seq(Seq(Seq(Int)))

\* Both readers, whichever side wrote the file and wherever it was cut off,
\* return the payloads of the last write when all of it is there and refuse
\* the file otherwise (binary_format_v00j.py 132-162, v00j.rs 98-167).
CompleteOrRefused ==
  \A kind \in Kinds, rust \in BOOLEAN :
    LET got == ReadRecords(files[kind], kind, rust)
    IN  /\ got.ok <=> /\ versions[kind] # {}
                      /\ Len(files[kind]) = Len(WritePython(kind, begun[kind]))
        /\ got.ok => got.payloads = begun[kind]

\* The Rust reader and the Python reader take the same files, damaged and
\* truncated ones too, as files of the same kind and with the same payloads
\* (rust_core_v00o.py 116-129 uses one in place of the other).
ReadersAgree ==
  aside.is = "copy" =>
    \A n \in 0..Len(aside.data), expected \in Kinds :
      LET data == SubSeq(aside.data, 1, n)
      IN  ReadRecords(data, expected, TRUE) = ReadRecords(data, expected, FALSE)

\* A record encoded for a caller, by the backend that was chosen, is what
\* either reader expects after a header; a batch is the same from both
\* backends (rust_backend_shim_v00p.py 122-131, rust_batch_backend_v00q.py 33-64).
EncodersAgree ==
  aside.is = "record" =>
    /\ aside.got.ok =>
         \A rust \in BOOLEAN :
           ReadRecords(PackHeader(SeedKind, 1) \o aside.got.data, SeedKind, rust)
             = [ok |-> TRUE, payloads |-> <<Payload(aside.n)>>]
    /\ aside.batch.ok => aside.batch = EncodeBatch(aside.records, "python", FALSE)

\* A change of a byte of a file that was readable is seen by both readers, or
\* is in a part that holds no data; a change of a BRS1 record or of the payload
\* of an index is always seen (corrupt_copy, corrupt_index_copy, decode_record).
DamageIsSeen ==
  /\ aside.is = "copy" =>
       \A rust \in BOOLEAN :
         LET got == ReadRecords(aside.data, aside.kind, rust)
         IN  got.ok => got = aside.was
  /\ aside.is = "brs" =>
       LET got == BrsDecode(aside.data)
       IN  IF aside.offset > 0 THEN ~got.ok
           ELSE got = [ok |-> TRUE, kind |-> SeedKind, trust |-> aside.trust,
                       logical |-> Payload(1), payload |-> Payload(aside.n)]
  /\ aside.is = "index" => ~ReadIndex(aside.file).ok

\* A lookup in an index that verifies finds the records that a scan of all of
\* them would, in their order (binary_index_v00k.py 96-126, 199-246).
LookupIsScan ==
  VerifyIndex(index).ok =>
    LET records == index.body.records
    IN  \A field \in LookupFields :
          \A key \in {records[i][field] : i \in {j \in DOMAIN records : field = "relation" => records[j].relation # ""}} :
            MiniQuery(index.body, [field |-> field, key |-> key])
              = [ok |-> TRUE, results |-> Sublist(records, {i \in DOMAIN records : records[i][field] = key})]

\* The rows of an index that are of a kind, when as many as given are of bridges.
RowsOf(kind, rows, bridges) ==
  IF kind = BridgeKind THEN SubSeq(rows, 1, bridges) ELSE SubSeq(rows, bridges + 1, Len(rows))

\* The rows for the records of a file.
Entries(kind, payloads) == [i \in DOMAIN payloads |-> Entry(kind, i, payloads[i])]

\* An index that verifies has the bridges and then the seeds.  Those of a file
\* that was not rewritten while it was read are one version of it, all of it;
\* of a file that was, they are as many as one version has, and each is a
\* whole record of some version, at the place where it was read: no record is
\* put together of two (binary_index_v00k.py 182-196, read_records 134-161).
IndexIsOfVersions ==
  VerifyIndex(index).ok =>
    \E bridges \in 0..Len(index.body.records) :
      \A kind \in {SeedKind, BridgeKind} :
        LET rows == RowsOf(kind, index.body.records, bridges)
        IN  /\ kind \notin raced => \E payloads \in versions[kind] : rows = Entries(kind, payloads)
            /\ \E payloads \in versions[kind] : Len(rows) = Len(payloads)
            /\ \A i \in DOMAIN rows :
                 \E payloads \in versions[kind] : \E n \in DOMAIN payloads : rows[i] = Entry(kind, i, payloads[n])
=============================================================================
