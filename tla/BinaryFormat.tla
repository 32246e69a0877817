---------------------------- MODULE BinaryFormat ----------------------------
(***************************************************************************)
(* The V00J format and what reads and writes it: binary_format_v00j.py,    *)
(* the Rust core that must agree with it byte for byte (v00j.rs), the      *)
(* Python modules that choose between the two, and the older BRS1 record   *)
(* (lib.rs).                                                               *)
(*                                                                         *)
(* A file is a sequence of cells, one for each field of a header and a few *)
(* for a payload.  A cell is a sequence of numbers: that of a number has   *)
(* one, and a digest has a tag, 0, and those of what it is taken of, so    *)
(* that digests of different things differ and none is a number.           *)
(***************************************************************************)
EXTENDS Lists, SequencesExt

Kinds == 1..3     \* KIND_SEED, KIND_BRIDGE, KIND_WAL

Version == 1
HeaderSize == 7   \* cells: magic, version, kind, header_size, created_ms, record_count, reserved
RecordHeaderSize == 5   \* cells: record_id, payload_len, crc32, flags, reserved

\* MAGIC_BY_KIND, and a magic of another format.
Magic(kind) == <<10 + kind>>

Number(cell) == cell[1]

Digest(tag, cells) == <<tag, 0>> \o FlattenSeq(cells)

Crc(payload) == Digest(32, payload)
RecordId(payload) == Digest(64, payload)

Failed == [ok |-> FALSE]

\* What a read returns: as much as there is.
Cells(data, first, count) == SubSeq(data, first, Min({first + count - 1, Len(data)}))

----------------------------------------------------------------------------
(* binary_format_v00j.py *)

\* _pack_header, and the body of write_records.
PackHeader(kind, count) ==
  <<Magic(kind), <<Version>>, <<kind>>, <<HeaderSize>>, <<0>>, <<count>>, <<0>>>>

PackRecord(payload) ==
  <<RecordId(payload), <<Len(payload)>>, Crc(payload), <<0>>, <<0>>>> \o payload

WritePython(kind, payloads) ==
  PackHeader(kind, Len(payloads)) \o FlattenSeq([i \in DOMAIN payloads |-> PackRecord(payloads[i])])

\* _unpack_header does not raise.
HeaderOk(raw) ==
  /\ Len(raw) = HeaderSize
  /\ \E kind \in Kinds : raw[1] = Magic(kind) /\ raw[3] = <<kind>>
  /\ raw[2] = <<Version>>
  /\ raw[4] = <<HeaderSize>>

\* Where the payload of the record at a position ends, by its length.
PayloadEnd(data, pos) == pos + RecordHeaderSize + Number(data[pos + 1])

PayloadAt(data, pos) == Cells(data, pos + RecordHeaderSize, Number(data[pos + 1]))

\* read_records 140-157 does not raise.
RecordOk(data, pos) ==
  /\ Len(Cells(data, pos, RecordHeaderSize)) = RecordHeaderSize
  /\ Len(PayloadAt(data, pos)) = Number(data[pos + 1])
  /\ Crc(PayloadAt(data, pos)) = data[pos + 2]
  /\ RecordId(PayloadAt(data, pos)) = data[pos]

\* read_records 139-158: the records at the start, at most a number of them.
PythonRecords(data, count) ==
  LET after[i \in 0..count] ==
        IF i = 0 THEN [ok |-> TRUE, next |-> HeaderSize + 1, payloads |-> << >>]
        ELSE LET before == after[i - 1]
             IN  IF before.ok /\ RecordOk(data, before.next)
                 THEN [ok |-> TRUE, next |-> PayloadEnd(data, before.next),
                       payloads |-> Append(before.payloads, PayloadAt(data, before.next))]
                 ELSE [before EXCEPT !.ok = FALSE]
  IN  after[count]

\* Mutant: a reader that keeps the records before the first that is not whole.
ReadPrefix(data, expected) ==
  LET raw == Cells(data, 1, HeaderSize)
  IN  IF HeaderOk(raw) /\ raw[3] = <<expected>>
      THEN [ok |-> TRUE, payloads |-> PythonRecords(data, Number(raw[6])).payloads]
      ELSE Failed

\* read_records: as many records as the header says, and then the end.
ReadPython(data, expected) ==
  LET raw == Cells(data, 1, HeaderSize)
      last == PythonRecords(data, Number(raw[6]))
  IN  IF HeaderOk(raw) /\ raw[3] = <<expected>> /\ last.ok /\ last.next = Len(data) + 1
      THEN [ok |-> TRUE, payloads |-> last.payloads]
      ELSE Failed

----------------------------------------------------------------------------
(* v00j.rs *)

\* Mutant: the length and the CRC change places.
PushSwapped(out, payload) ==
  out \o <<RecordId(payload)>> \o <<Crc(payload)>> \o <<<<Len(payload)>>>> \o <<<<0>>, <<0>>>> \o payload

\* push_record, which v00j_encode_record calls too.
PushRecord(out, payload) ==
  out \o <<RecordId(payload)>> \o <<<<Len(payload)>>>> \o <<Crc(payload)>> \o <<<<0>>, <<0>>>> \o payload

\* v00j_write_file.
WriteRust(kind, payloads) ==
  LET out[n \in 0..Len(payloads)] ==
        IF n = 0 THEN <<Magic(kind)>> \o <<<<Version>>, <<kind>>, <<HeaderSize>>, <<0>>, <<Len(payloads)>>, <<0>>>>
        ELSE PushRecord(out[n - 1], payloads[n])
  IN  out[Len(payloads)]

\* Mutant: a record is taken by its length alone.
RustRecordFits(data, pos) ==
  /\ pos + RecordHeaderSize <= Len(data) + 1
  /\ PayloadEnd(data, pos) <= Len(data) + 1

\* v00j_read_file 130-149 does not raise.
RustRecordOk(data, pos) ==
  /\ pos + RecordHeaderSize <= Len(data) + 1
  /\ PayloadEnd(data, pos) <= Len(data) + 1
  /\ Crc(PayloadAt(data, pos)) = data[pos + 2]
  /\ RecordId(PayloadAt(data, pos)) = data[pos]

\* Mutant: the number of records in the header is not compared.
AnyCount(data, payloads) == TRUE

\* v00j_read_file 159.
CountAgrees(data, payloads) == Number(data[6]) = Len(payloads)

\* v00j_read_file 128-158: records to the end of the data, which is where the
\* loop stops; it has no more turns than there are data.
RustRecords(data) ==
  LET after[i \in 0..Len(data)] ==
        IF i = 0 THEN [ok |-> TRUE, next |-> HeaderSize + 1, payloads |-> << >>]
        ELSE LET before == after[i - 1]
             IN  IF ~before.ok \/ before.next > Len(data) THEN before
                 ELSE IF RustRecordOk(data, before.next)
                 THEN [ok |-> TRUE, next |-> PayloadEnd(data, before.next),
                       payloads |-> Append(before.payloads, PayloadAt(data, before.next))]
                 ELSE [before EXCEPT !.ok = FALSE]
  IN  after[Len(data)]

\* v00j_read_file: the header, the records, and then their number.
ReadRust(data) ==
  LET parsed == RustRecords(data)
      kinds == {kind \in Kinds : Magic(kind) = data[1]}
  IN  IF /\ Len(data) >= HeaderSize
         /\ \E kind \in kinds : data[3] = <<kind>>
         /\ data[2] = <<Version>> /\ data[4] = <<HeaderSize>>
         /\ parsed.ok /\ CountAgrees(data, parsed.payloads)
      THEN [ok |-> TRUE, kind |-> Number(data[3]), payloads |-> parsed.payloads]
      ELSE Failed

----------------------------------------------------------------------------
(* The choice between the two: rust_core_v00o.py, rust_backend_shim_v00p.py *)

\* v00j_write_file_bytes and write_records_v00j.
WriteRecords(kind, payloads, rust) ==
  IF rust THEN WriteRust(kind, payloads) ELSE WritePython(kind, payloads)

\* read_records_v00j.
ReadRecords(data, expected, rust) ==
  IF rust
  THEN LET decoded == ReadRust(data)
       IN  IF decoded.ok /\ decoded.kind = expected THEN [ok |-> TRUE, payloads |-> decoded.payloads] ELSE Failed
  ELSE ReadPython(data, expected)

\* _try_rust_encode_record: the arguments of an attempt are its payloads and
\* its numbers; the function takes a payload.
Attempts(payload) == <<<<payload, 1, 1>>, <<1, 1, payload>>, <<1, payload, 1>>, <<payload>>>>

TryRust(payload) ==
  LET taken == {i \in DOMAIN Attempts(payload) : Len(Attempts(payload)[i]) = 1}
  IN  IF taken = {} THEN Failed
      ELSE [ok |-> TRUE, data |-> PushRecord(<< >>, Attempts(payload)[Min(taken)][1])]

\* "auto" is Rust where the extension is there and not disabled.
Chosen(backend, available) ==
  IF backend # "auto" THEN backend ELSE IF available THEN "rust" ELSE "python"

\* encode_record_from_payload: another backend, and Rust where there is none, raise.
EncodeRecord(payload, backend, available) ==
  CASE Chosen(backend, available) = "python" -> [ok |-> TRUE, data |-> PackRecord(payload)]
    [] Chosen(backend, available) = "rust" /\ available -> TryRust(payload)
    [] OTHER -> Failed

\* rust_batch_backend_v00q.py and batch_v00q.rs: a record with its kind and
\* its trust, in an order of its own.
BatchRecordPython(kind, trust, payload) ==
  <<RecordId(payload), <<kind>>, <<trust>>, <<Len(payload)>>, Crc(payload)>> \o payload

BatchRecordRust(kind, trust, payload) ==
  <<RecordId(payload)>> \o <<<<kind>>>> \o <<<<trust>>>> \o <<<<Len(payload)>>>> \o <<Crc(payload)>> \o payload

\* encode_batch, of triples of a kind, a trust and a payload.
EncodeBatch(records, backend, available) ==
  LET each(Encode(_, _, _)) == [ok |-> TRUE, data |-> [i \in DOMAIN records |->
                                  Encode(records[i][1], records[i][2], records[i][3])]]
  IN  CASE Chosen(backend, available) = "python" -> each(BatchRecordPython)
        [] Chosen(backend, available) = "rust" /\ available -> each(BatchRecordRust)
        [] OTHER -> Failed

----------------------------------------------------------------------------
(* BRS1: lib.rs *)

BrsMagic == <<19>>
BrsHeaderLen == 8   \* cells: magic, version, kind, trust, two lengths, crc32, id

\* brs_sha256_record.
BrsId(kind, trust, logical, payload) ==
  <<256, kind, trust, Len(logical), Len(payload)>> \o FlattenSeq(logical \o payload)

\* encode_record.
BrsEncode(kind, trust, logical, payload) ==
  <<BrsMagic, <<Version>>, <<kind>>, <<trust>>, <<Len(logical)>>, <<Len(payload)>>,
    Crc(logical \o payload), BrsId(kind, trust, logical, payload)>> \o logical \o payload

\* decode_record.
BrsDecode(data) ==
  LET first == BrsHeaderLen + 1
      second == first + Number(data[5])
      end == second + Number(data[6])
      logical == Cells(data, first, Number(data[5]))
      payload == Cells(data, second, Number(data[6]))
  IN  IF /\ Len(data) >= BrsHeaderLen
         /\ data[1] = BrsMagic /\ data[2] = <<Version>>
         /\ end = Len(data) + 1
         /\ Crc(logical \o payload) = data[7]
         /\ BrsId(Number(data[3]), Number(data[4]), logical, payload) = data[8]
      THEN [ok |-> TRUE, kind |-> Number(data[3]), trust |-> Number(data[4]),
            logical |-> logical, payload |-> payload]
      ELSE Failed
=============================================================================
