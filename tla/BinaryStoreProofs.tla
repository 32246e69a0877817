------------------------- MODULE BinaryStoreProofs --------------------------
(***************************************************************************)
(* Theorems about V00J files and the index, for all rows and writes, and   *)
(* first about the format: both writers make the same file of the same     *)
(* payloads, both readers take the same files, and what is read of the     *)
(* start of a file is the start of what was written.                       *)
(***************************************************************************)
EXTENDS BinaryStore, ListProofs

\* What a file is a sequence of, and a payload.
Cell == Seq(Nat) \ {<< >>}
Text == Seq(Cell)

----------------------------------------------------------------------------
(* Cells *)

(* A number in a cell, and what a cell begins with. *)
LEMMA NumberInCell ==
  /\ \A cell \in Cell : Number(cell) \in Nat
  /\ \A n \in Nat : <<n>> \in Cell /\ Number(<<n>>) = n
<1>1. ASSUME NEW cell \in Cell
      PROVE  Number(cell) \in Nat
  <2>1. cell \in Seq(Nat) /\ cell # << >>
    BY DEF Cell
  <2>2. 1 \in 1..Len(cell)
    BY <2>1
  <2>3. QED
    BY <2>1, <2>2 DEF Number
<1>2. ASSUME NEW n \in Nat
      PROVE  <<n>> \in Cell /\ Number(<<n>>) = n
  BY DEF Cell, Number
<1>3. QED
  BY <1>1, <1>2

(* The cells of a payload are put together to a sequence of numbers, which a
   digest has after its tag and 0. *)
LEMMA DigestIs ==
  ASSUME NEW tag \in Nat, NEW text \in Text
  PROVE  /\ FlattenSeq(text) \in Seq(Nat) /\ Digest(tag, text) \in Cell
         /\ Digest(tag, text)[1] = tag /\ Digest(tag, text)[2] = 0 /\ Len(Digest(tag, text)) >= 2
<1>1. Len(text) \in Nat /\ text \in [1..Len(text) -> Seq(Nat)]
  BY DEF Text, Cell
<1>2. PICK flat \in [0..Len(text) -> Seq(Nat)] :
        Flattens(flat, text, Len(text)) /\ FlattenSeq(text) = flat[Len(text)]
  BY <1>1, Flattening
<1>3. FlattenSeq(text) \in Seq(Nat)
  BY <1>1, <1>2
<1>4. PICK cells \in Seq(Nat) : cells = FlattenSeq(text)
  BY <1>3
<1>5. PICK c \in Seq(Nat) : c = <<tag, 0>> /\ Len(c) = 2 /\ c[1] = tag /\ c[2] = 0
  <2>1. <<tag, 0>> \in Seq(Nat) /\ Len(<<tag, 0>>) = 2 /\ <<tag, 0>>[1] = tag /\ <<tag, 0>>[2] = 0
    OBVIOUS
  <2>2. QED
    BY <2>1, Zenon
<1>6. c \o cells \in Seq(Nat) /\ Len(c \o cells) = 2 + Len(cells) /\ (c \o cells)[1] = tag /\ (c \o cells)[2] = 0
  BY <1>5, ConcatProperties
<1>7. c \o cells # << >> /\ Len(c \o cells) >= 2
  BY <1>6
<1>8. Digest(tag, text) = c \o cells
  BY <1>4, <1>5 DEF Digest
<1>9. QED
  BY <1>3, <1>6, <1>7, <1>8 DEF Cell

(* The lesser of two numbers. *)
LEMMA MinOfTwo ==
  ASSUME NEW a \in Int, NEW b \in Int
  PROVE  Min({a, b}) = IF a <= b THEN a ELSE b
<1> DEFINE least == IF a <= b THEN a ELSE b
           Is(x) == \A y \in {a, b} : x =< y
<1>1. least \in {a, b} /\ Is(least)
  OBVIOUS
<1>2. \A x \in {a, b} : Is(x) => x = least
  OBVIOUS
<1> HIDE DEF least
<1>3. Min({a, b}) = CHOOSE x \in {a, b} : Is(x)
  BY DEF Min
<1> HIDE DEF Is
<1>4. (CHOOSE x \in {a, b} : Is(x)) \in {a, b} /\ Is(CHOOSE x \in {a, b} : Is(x))
  BY <1>1
<1>5. QED
  BY <1>2, <1>3, <1>4 DEF least

(* What a read returns has the number of cells that were asked for when there
   are as many, and only then. *)
LEMMA CellsAre ==
  ASSUME NEW data \in Text, NEW first \in Nat \ {0}, NEW count \in Nat
  PROVE  LET got == Cells(data, first, count)
         IN  /\ got \in Text
             /\ first + count <= Len(data) + 1 => /\ Len(got) = count
                                                  /\ \A k \in 1..count : got[k] = data[first + k - 1]
             /\ ~(first + count <= Len(data) + 1) /\ count > 0 => Len(got) # count
<1> DEFINE last == IF first + count - 1 <= Len(data) THEN first + count - 1 ELSE Len(data)
<1>1. Len(data) \in Nat /\ \A i \in 1..Len(data) : data[i] \in Cell
  BY DEF Text
<1>2. Cells(data, first, count) = SubSeq(data, first, last)
  <2>1. first + count - 1 \in Int /\ Len(data) \in Int
    BY <1>1
  <2>2. Min({first + count - 1, Len(data)}) = last
    BY <2>1, MinOfTwo
  <2>3. QED
    BY <2>2, Zenon DEF Cells
<1>3. last \in Int /\ \A i \in first..last : data[i] \in Cell
  BY <1>1
<1>4. /\ SubSeq(data, first, last) \in Seq(Cell)
      /\ Len(SubSeq(data, first, last)) = IF first <= last THEN last - first + 1 ELSE 0
      /\ \A i \in 1..(last - first + 1) : SubSeq(data, first, last)[i] = data[first + i - 1]
  <2> HIDE DEF last
  <2>1. QED
    BY <1>3, SubSeqProperties
<1>5. PICK got : got = Cells(data, first, count) /\ got = SubSeq(data, first, last)
  BY <1>2
<1>6. PICK len \in Nat : len = Len(data)
  BY <1>1
<1>7. CASE first + count <= len + 1
  <2>1. last = first + count - 1
    BY <1>6, <1>7
  <2>2. Len(got) = count /\ \A k \in 1..count : got[k] = data[first + k - 1]
    <3>1. Len(got) = IF first <= last THEN last - first + 1 ELSE 0
      BY <1>4, <1>5
    <3>2. \A k \in 1..(last - first + 1) : got[k] = data[first + k - 1]
      BY <1>4, <1>5
    <3> HIDE DEF last
    <3>3. QED
      BY <2>1, <3>1, <3>2
  <2>3. QED
    BY <1>4, <1>5, <1>6, <1>7, <2>2 DEF Text
<1>8. CASE ~(first + count <= len + 1)
  <2>1. last = len
    BY <1>6, <1>8
  <2>2. count > 0 => Len(got) # count
    <3>1. Len(got) = IF first <= last THEN last - first + 1 ELSE 0
      BY <1>4, <1>5
    <3> HIDE DEF last
    <3>2. QED
      BY <1>8, <2>1, <3>1
  <2>3. QED
    BY <1>4, <1>5, <1>6, <1>8, <2>2 DEF Text
<1>9. QED
  BY <1>7, <1>8

----------------------------------------------------------------------------
(* What is written *)

(* The header of a file: seven cells. *)
LEMMA HeaderIs ==
  ASSUME NEW kind \in Kinds, NEW count \in Nat
  PROVE  LET header == PackHeader(kind, count)
         IN  /\ header \in Text /\ Len(header) = HeaderSize
             /\ header[1] = Magic(kind) /\ header[2] = <<Version>> /\ header[3] = <<kind>>
             /\ header[4] = <<HeaderSize>> /\ header[6] = <<count>>
<1>1. kind \in Nat /\ 10 + kind \in Nat
  BY DEF Kinds
<1>2. \A n \in Nat : <<n>> \in Cell
  BY NumberInCell
<1>3. PICK a, b, c, d, e, f, g : /\ a = Magic(kind) /\ b = <<Version>> /\ c = <<kind>> /\ d = <<HeaderSize>>
                                 /\ e = <<0>> /\ f = <<count>> /\ g = <<0>>
  OBVIOUS
<1>4. {a, b, c, d, e, f, g} \subseteq Cell
  BY <1>1, <1>2, <1>3 DEF Magic, Version, HeaderSize
<1>5. <<a, b, c, d, e, f, g>> \in Seq(Cell)
  BY <1>4
<1>6. PackHeader(kind, count) = <<a, b, c, d, e, f, g>>
  BY <1>3 DEF PackHeader
<1>7. QED
  BY <1>3, <1>5, <1>6 DEF Text, HeaderSize

(* A record: five cells of a header, and the payload. *)
LEMMA RecordIs ==
  ASSUME NEW text \in Text
  PROVE  LET record == PackRecord(text)
         IN  /\ record \in Text /\ Len(record) = RecordHeaderSize + Len(text)
             /\ record[1] = RecordId(text) /\ record[2] = <<Len(text)>> /\ record[3] = Crc(text)
             /\ \A k \in 1..Len(text) : record[RecordHeaderSize + k] = text[k]
<1>1. PICK a, b, c, d : a = RecordId(text) /\ b = <<Len(text)>> /\ c = Crc(text) /\ d = <<0>>
  OBVIOUS
<1>2. {a, b, c, d} \subseteq Cell
  <2>1. Len(text) \in Nat /\ 64 \in Nat /\ 32 \in Nat
    BY DEF Text
  <2>2. a \in Cell /\ c \in Cell
    BY <1>1, <2>1, DigestIs DEF RecordId, Crc
  <2>3. b \in Cell /\ d \in Cell
    BY <1>1, <2>1, NumberInCell
  <2>4. QED
    BY <2>2, <2>3
<1>3. PICK header \in Seq(Cell) : header = <<a, b, c, d, d>> /\ Len(header) = 5 /\ header[1] = a /\ header[2] = b /\ header[3] = c
  <2>1. a \in Cell /\ b \in Cell /\ c \in Cell /\ d \in Cell
    BY <1>2
  <2>2. <<a, b, c, d, d>> \in Seq(Cell)
    BY <2>1
  <2>3. Len(<<a, b, c, d, d>>) = 5
    OBVIOUS
  <2>4. QED
    BY <2>2, <2>3
<1>4. text \in Seq(Cell) /\ PackRecord(text) = header \o text
  BY <1>1, <1>3 DEF PackRecord, Text
<1>5. /\ header \o text \in Seq(Cell) /\ Len(header \o text) = 5 + Len(text)
      /\ \A k \in 1..(5 + Len(text)) : (header \o text)[k] = IF k <= 5 THEN header[k] ELSE text[k - 5]
  BY <1>3, <1>4, ConcatProperties
<1>6. Len(text) \in Nat
  BY <1>4
<1>7. QED
  BY <1>1, <1>3, <1>4, <1>5, <1>6 DEF Text, RecordHeaderSize

----------------------------------------------------------------------------
(* What is read: records *)

(* The two readers agree on a record, and what one takes is the payload that
   the header of the record announces and that is there. *)
LEMMA RecordReads ==
  ASSUME NEW data \in Text, NEW pos \in Nat \ {0}
  PROVE  /\ RecordOk(data, pos) <=> RustRecordOk(data, pos)
         /\ RecordOk(data, pos) =>
              LET size == Number(data[pos + 1])
                  got == PayloadAt(data, pos)
              IN  /\ size \in Nat /\ got \in Text /\ Len(got) = size
                  /\ PayloadEnd(data, pos) = pos + RecordHeaderSize + size
                  /\ PayloadEnd(data, pos) <= Len(data) + 1
                  /\ \A k \in 1..size : got[k] = data[pos + RecordHeaderSize + k - 1]
<1>1. PICK len \in Nat : len = Len(data) /\ \A i \in 1..len : data[i] \in Cell
  BY DEF Text
<1>2. CASE ~(pos + RecordHeaderSize <= len + 1)
  <2>1. RecordHeaderSize \in Nat /\ RecordHeaderSize > 0
    BY DEF RecordHeaderSize
  <2>2. Len(Cells(data, pos, RecordHeaderSize)) # RecordHeaderSize
    BY <1>1, <1>2, <2>1, CellsAre
  <2>3. ~RecordOk(data, pos) /\ ~RustRecordOk(data, pos)
    BY <1>1, <1>2, <2>2 DEF RecordOk, RustRecordOk
  <2>4. QED
    BY <2>3
<1>3. CASE pos + RecordHeaderSize <= len + 1
  <2>1. RecordHeaderSize \in Nat /\ pos + 1 \in 1..len /\ pos + RecordHeaderSize \in Nat \ {0}
    BY <1>3 DEF RecordHeaderSize
  <2>2. Len(Cells(data, pos, RecordHeaderSize)) = RecordHeaderSize
    BY <1>1, <1>3, <2>1, CellsAre
  <2>3. PICK size \in Nat : size = Number(data[pos + 1])
    BY <1>1, <2>1, NumberInCell
  <2>4. PICK first \in Nat \ {0} : first = pos + RecordHeaderSize
    BY <2>1
  <2>5. PICK got : got = PayloadAt(data, pos) /\ got = Cells(data, first, size)
    BY <2>3, <2>4 DEF PayloadAt
  <2>6. /\ got \in Text
        /\ first + size <= len + 1 => /\ Len(got) = size
                                      /\ \A k \in 1..size : got[k] = data[first + k - 1]
        /\ ~(first + size <= len + 1) /\ size > 0 => Len(got) # size
    <3>1. /\ Cells(data, first, size) \in Text
          /\ first + size <= Len(data) + 1 =>
               /\ Len(Cells(data, first, size)) = size
               /\ \A k \in 1..size : Cells(data, first, size)[k] = data[first + k - 1]
          /\ ~(first + size <= Len(data) + 1) /\ size > 0 => Len(Cells(data, first, size)) # size
      BY CellsAre
    <3>2. QED
      BY <1>1, <2>5, <3>1, Zenon
  <2>7. PayloadEnd(data, pos) = first + size
    BY <2>3, <2>4 DEF PayloadEnd
  <2>8. Len(got) = size <=> first + size <= len + 1
    BY <1>3, <2>4, <2>6
  <2>9. RecordOk(data, pos) <=> RustRecordOk(data, pos)
    BY <1>1, <1>3, <2>2, <2>3, <2>5, <2>7, <2>8 DEF RecordOk, RustRecordOk
  <2>10. RecordOk(data, pos) => Len(got) = size
    BY <2>3, <2>5 DEF RecordOk
  <2>11. QED
    BY <1>1, <2>3, <2>4, <2>5, <2>6, <2>7, <2>8, <2>9, <2>10
<1>4. QED
  BY <1>2, <1>3

\* What the loop of a reader has: whether it goes on, where, and the payloads.
Reading == [ok : BOOLEAN, next : Nat \ {0}, payloads : Seq(Text)]

Begin == [ok |-> TRUE, next |-> HeaderSize + 1, payloads |-> << >>]

Take(data, s) == [ok |-> TRUE, next |-> PayloadEnd(data, s.next),
                  payloads |-> Append(s.payloads, PayloadAt(data, s.next))]

PythonTurn(data, s) == IF s.ok /\ RecordOk(data, s.next) THEN Take(data, s) ELSE [s EXCEPT !.ok = FALSE]

RustTurn(data, s) ==
  IF ~s.ok \/ s.next > Len(data) THEN s
  ELSE IF RustRecordOk(data, s.next) THEN Take(data, s) ELSE [s EXCEPT !.ok = FALSE]

(* A turn of either reader takes the payload of a record or does not. *)
LEMMA TurnReads ==
  ASSUME NEW data \in Text
  PROVE  /\ Begin \in Reading
         /\ \A s \in Reading : PythonTurn(data, s) \in Reading /\ RustTurn(data, s) \in Reading
<1>1. Begin \in Reading
  BY DEF Begin, Reading, HeaderSize
<1>2. ASSUME NEW s \in Reading
      PROVE  /\ [s EXCEPT !.ok = FALSE] \in Reading
             /\ RecordOk(data, s.next) \/ RustRecordOk(data, s.next) => Take(data, s) \in Reading
  <2>1. s.ok \in BOOLEAN /\ s.next \in Nat \ {0} /\ s.payloads \in Seq(Text)
    BY DEF Reading
  <2>2. [s EXCEPT !.ok = FALSE] \in Reading
    BY DEF Reading
  <2>3. ASSUME RecordOk(data, s.next) \/ RustRecordOk(data, s.next)
        PROVE  Take(data, s) \in Reading
    <3>1. RecordOk(data, s.next)
      BY <2>1, <2>3, RecordReads
    <3>2. /\ Number(data[s.next + 1]) \in Nat /\ PayloadAt(data, s.next) \in Text
          /\ PayloadEnd(data, s.next) = s.next + RecordHeaderSize + Number(data[s.next + 1])
      BY <2>1, <3>1, RecordReads
    <3>3. PayloadEnd(data, s.next) \in Nat \ {0}
      BY <2>1, <3>2 DEF RecordHeaderSize
    <3>4. Append(s.payloads, PayloadAt(data, s.next)) \in Seq(Text)
      BY <2>1, <3>2, AppendProperties
    <3>5. QED
      BY <3>3, <3>4 DEF Take, Reading
  <2>4. QED
    BY <2>2, <2>3
<1>3. QED
  BY <1>1, <1>2 DEF PythonTurn, RustTurn

(* What the Python reader has after each of its records. *)
LEMMA PythonLoop ==
  ASSUME NEW data \in Text, NEW count \in Nat
  PROVE  \E after \in [0..count -> Reading] :
           /\ after[0] = Begin /\ \A i \in 1..count : after[i] = PythonTurn(data, after[i - 1])
           /\ PythonRecords(data, count) = after[count]
<1> DEFINE F == [p \in Reading \X (1..count) |-> PythonTurn(data, p[1])]
<1>1. F \in [Reading \X (1..count) -> Reading]
  BY TurnReads
<1>2. \A s \in Reading, i \in 1..count : F[<<s, i>>] = PythonTurn(data, s)
  OBVIOUS
<1> HIDE DEF F
<1>3. PICK f \in [0..count -> Reading] : Turns(f, Begin, count, F)
  BY <1>1, TurnReads, Recursion, Zenon
<1>4. ASSUME NEW i \in 1..count
      PROVE  f[i] = PythonTurn(data, f[i - 1])
  <2>1. i - 1 \in 0..count
    OBVIOUS
  <2>2. f[i - 1] \in Reading
    BY <2>1
  <2>3. QED
    BY <1>2, <1>3, <2>2 DEF Turns
<1> DEFINE Is(k) == k = [i \in 0..count |->
                           IF i = 0 THEN Begin ELSE PythonTurn(data, k[i - 1])]
           after == CHOOSE k : Is(k)
<1>5. PythonRecords(data, count) = after[count]
  BY Zenon DEF PythonRecords, PythonTurn, Begin, Take
<1>6. Is(f)
  <2>1. \A i \in 0..count : f[i] = IF i = 0 THEN Begin ELSE PythonTurn(data, f[i - 1])
    BY <1>3, <1>4 DEF Turns
  <2>2. f = [i \in 0..count |-> f[i]]
    OBVIOUS
  <2>3. QED
    BY <2>1, <2>2
<1>7. Is(after)
  <2> HIDE DEF Is
  <2>1. QED
    BY <1>6
<1> HIDE DEF after
<1>8. /\ after = [i \in 0..count |-> after[i]]
      /\ after[0] = Begin /\ \A i \in 1..count : after[i] = PythonTurn(data, after[i - 1])
  BY <1>7
<1>9. after[0] \in Reading /\ \A i \in 1..count : after[i - 1] \in Reading => after[i] \in Reading
  BY <1>8, TurnReads
<1> HIDE DEF Is
<1>10. after \in [0..count -> Reading]
  BY <1>8, <1>9, LoopType
<1>11. QED
  BY <1>5, <1>8, <1>10

(* What the Rust reader has after each of its turns. *)
LEMMA RustLoop ==
  ASSUME NEW data \in Text
  PROVE  \E after \in [0..Len(data) -> Reading] :
           /\ after[0] = Begin /\ \A i \in 1..Len(data) : after[i] = RustTurn(data, after[i - 1])
           /\ RustRecords(data) = after[Len(data)]
<1> DEFINE F == [p \in Reading \X (1..Len(data)) |-> RustTurn(data, p[1])]
<1>1. Len(data) \in Nat
  BY DEF Text
<1>2. F \in [Reading \X (1..Len(data)) -> Reading]
  BY TurnReads
<1>3. \A s \in Reading, i \in 1..Len(data) : F[<<s, i>>] = RustTurn(data, s)
  OBVIOUS
<1> HIDE DEF F
<1>4. PICK f \in [0..Len(data) -> Reading] : Turns(f, Begin, Len(data), F)
  BY <1>1, <1>2, TurnReads, Recursion, Zenon
<1>5. ASSUME NEW i \in 1..Len(data)
      PROVE  f[i] = RustTurn(data, f[i - 1])
  <2>1. i - 1 \in 0..Len(data)
    BY <1>1
  <2>2. f[i - 1] \in Reading
    BY <2>1
  <2>3. QED
    BY <1>3, <1>4, <2>2 DEF Turns
<1> DEFINE Is(k) == k = [i \in 0..Len(data) |->
                           IF i = 0 THEN Begin ELSE RustTurn(data, k[i - 1])]
           after == CHOOSE k : Is(k)
<1>6. RustRecords(data) = after[Len(data)]
  BY Zenon DEF RustRecords, RustTurn, Begin, Take
<1>7. Is(f)
  <2>1. \A i \in 0..Len(data) : f[i] = IF i = 0 THEN Begin ELSE RustTurn(data, f[i - 1])
    BY <1>1, <1>4, <1>5 DEF Turns
  <2>2. f = [i \in 0..Len(data) |-> f[i]]
    OBVIOUS
  <2>3. QED
    BY <2>1, <2>2
<1>8. Is(after)
  <2> HIDE DEF Is
  <2>1. QED
    BY <1>7
<1> HIDE DEF after
<1>9. /\ after = [i \in 0..Len(data) |-> after[i]]
      /\ after[0] = Begin /\ \A i \in 1..Len(data) : after[i] = RustTurn(data, after[i - 1])
  <2>1. after = [i \in 0..Len(data) |-> after[i]]
    BY <1>8
  <2>2. \A i \in 0..Len(data) : after[i] = IF i = 0 THEN Begin ELSE RustTurn(data, after[i - 1])
    BY <1>8
  <2>3. 0 \in 0..Len(data) /\ \A i \in 1..Len(data) : i \in 0..Len(data) /\ i # 0
    BY <1>1
  <2> HIDE DEF Is
  <2>4. QED
    BY <2>1, <2>2, <2>3
<1>10. after[0] \in Reading /\ \A i \in 1..Len(data) : after[i - 1] \in Reading => after[i] \in Reading
  BY <1>1, <1>9, TurnReads
<1> HIDE DEF Is
<1>11. after \in [0..Len(data) -> Reading]
  BY <1>1, <1>9, <1>10, LoopType
<1>12. QED
  BY <1>1, <1>6, <1>9, <1>11
(* What a turn that takes a record goes from and comes to. *)
LEMMA TakeIs ==
  ASSUME NEW data \in Text, NEW s \in Reading, RecordOk(data, s.next)
  PROVE  /\ Take(data, s) \in Reading /\ Take(data, s).ok
         /\ Len(Take(data, s).payloads) = Len(s.payloads) + 1
         /\ s.next + RecordHeaderSize <= Take(data, s).next /\ Take(data, s).next <= Len(data) + 1
         /\ s.next <= Len(data)
<1>1. s.next \in Nat \ {0} /\ s.payloads \in Seq(Text) /\ Len(data) \in Nat /\ RecordHeaderSize = 5
  BY DEF Reading, Text, RecordHeaderSize
<1>2. PICK size \in Nat : size = Number(data[s.next + 1]) /\ PayloadEnd(data, s.next) = s.next + RecordHeaderSize + size
                          /\ PayloadEnd(data, s.next) <= Len(data) + 1 /\ PayloadAt(data, s.next) \in Text
  BY <1>1, RecordReads
<1>3. /\ Append(s.payloads, PayloadAt(data, s.next)) \in Seq(Text)
      /\ Len(Append(s.payloads, PayloadAt(data, s.next))) = Len(s.payloads) + 1
  BY <1>1, <1>2, AppendProperties
<1>4. PICK next \in Nat \ {0} : next = PayloadEnd(data, s.next)
  BY <1>1, <1>2
<1>5. s.next + RecordHeaderSize <= next /\ next <= Len(data) + 1 /\ s.next <= Len(data)
  BY <1>1, <1>2, <1>4
<1>6. Take(data, s) \in Reading
  BY <1>3, <1>4 DEF Take, Reading
<1>7. QED
  BY <1>3, <1>4, <1>5, <1>6 DEF Take

(* A turn of the Python reader that goes on took a record. *)
LEMMA PythonTook ==
  ASSUME NEW data \in Text, NEW s \in Reading, PythonTurn(data, s).ok
  PROVE  s.ok /\ RecordOk(data, s.next) /\ PythonTurn(data, s) = Take(data, s)
<1>1. ~[s EXCEPT !.ok = FALSE].ok
  BY DEF Reading
<1>2. QED
  BY <1>1 DEF PythonTurn
PythonTurns(after, data, count) == after[0] = Begin /\ \A i \in 1..count : after[i] = PythonTurn(data, after[i - 1])

RustTurns(rust, data) == rust[0] = Begin /\ \A i \in 1..Len(data) : rust[i] = RustTurn(data, rust[i - 1])

\* What the Python reader has after a number of records that it took.
Took(data, s, i) ==
  /\ s.ok /\ Len(s.payloads) = i
  /\ HeaderSize + 1 + i * RecordHeaderSize <= s.next /\ s.next <= Len(data) + 1

(* A Python reader that took a number of records took all before them, none
   of them smaller than its header. *)
LEMMA PythonTakes ==
  ASSUME NEW data \in Text, Len(data) >= HeaderSize, NEW count \in Nat, NEW after \in [0..count -> Reading],
         PythonTurns(after, data, count),
         NEW n \in 0..count, after[n].ok
  PROVE  \A i \in 0..n : Took(data, after[i], i)
<1> USE DEF PythonTurns
<1>1. \A i \in 1..n : i - 1 \in 0..count /\ i \in 0..count /\ i \in 1..count
  OBVIOUS
<1>2. n \in Nat
  OBVIOUS
<1>3. \A i \in 0..n : after[n - i].ok
  <2> DEFINE T == {i \in 0..n : after[n - i].ok}
  <2>1. 0 \in T
    <3>1. n - 0 = n /\ 0 \in 0..n
      BY <1>2
    <3>2. QED
      BY <3>1
  <2>2. ASSUME NEW i \in 0..(n - 1), i \in T
        PROVE  i + 1 \in T
    <3>1. n - i \in 1..n /\ (n - i) - 1 = n - (i + 1) /\ i + 1 \in 0..n
      BY <1>2
    <3>2. after[n - i] = PythonTurn(data, after[(n - i) - 1]) /\ after[(n - i) - 1] \in Reading
      BY <1>1, <3>1
    <3>3. after[(n - i) - 1].ok
      BY <2>2, <3>2, PythonTook
    <3>4. QED
      BY <3>1, <3>3
  <2>3. \A i \in 0..n : i \in T
    <3> HIDE DEF T
    <3>1. QED
      BY <1>2, <2>1, <2>2, Induction
  <2>4. QED
    BY <2>3
<1>4. \A i \in 0..n : after[i].ok
  <2>1. \A i \in 0..n : n - i \in 0..n /\ n - (n - i) = i
    BY <1>2
  <2>2. QED
    BY <1>3, <2>1
<1> DEFINE T == {i \in 0..n : Took(data, after[i], i)}
<1>5. 0 \in T
  <2>1. Took(data, Begin, 0)
    BY DEF Took, Begin, HeaderSize, RecordHeaderSize, Text
  <2>2. QED
    BY <1>2, <2>1
<1>6. ASSUME NEW i \in 0..(n - 1), i \in T
      PROVE  i + 1 \in T
  <2>1. i + 1 \in 1..n /\ i + 1 \in 0..n /\ (i + 1) - 1 = i /\ i \in 0..count /\ i \in Nat
    BY <1>2
  <2>2. PICK s \in Reading : s = after[i]
    BY <2>1
  <2>3. after[i + 1] = PythonTurn(data, s) /\ PythonTurn(data, s).ok /\ Took(data, s, i)
    BY <1>1, <1>4, <1>6, <2>1, <2>2
  <2>4. RecordOk(data, s.next) /\ after[i + 1] = Take(data, s)
    BY <2>3, PythonTook
  <2>5. PICK t \in Reading : /\ t = Take(data, s) /\ t.ok /\ Len(t.payloads) = Len(s.payloads) + 1
                             /\ s.next + RecordHeaderSize <= t.next /\ t.next <= Len(data) + 1
    BY <2>4, TakeIs
  <2>6. s.next \in Nat /\ t.next \in Nat
    BY DEF Reading
  <2>7. Took(data, t, i + 1)
    BY <2>1, <2>3, <2>5, <2>6 DEF Took, RecordHeaderSize, HeaderSize
  <2>8. QED
    BY <2>1, <2>4, <2>5, <2>7
<1>7. \A i \in 0..n : i \in T
  <2> HIDE DEF T
  <2>1. QED
    BY <1>2, <1>5, <1>6, Induction
<1>8. QED
  BY <1>7

(* Where the Python reader takes all records that a header announces and is at
   the end, the Rust reader has the same. *)
LEMMA RustFollows ==
  ASSUME NEW data \in Text, Len(data) >= HeaderSize, NEW count \in Nat, NEW after \in [0..count -> Reading],
         PythonTurns(after, data, count),
         NEW rust \in [0..Len(data) -> Reading],
         RustTurns(rust, data),
         after[count].ok, after[count].next = Len(data) + 1
  PROVE  rust[Len(data)] = after[count] /\ Len(after[count].payloads) = count
<1> USE DEF PythonTurns, RustTurns
<1>1. PICK len \in Nat : len = Len(data)
  BY DEF Text
<1>2. \A i \in 0..count : Took(data, after[i], i)
  <2>1. count \in 0..count
    OBVIOUS
  <2>2. QED
    BY <2>1, PythonTakes
<1>3. count <= len /\ Len(after[count].payloads) = count
  <2>1. Took(data, after[count], count)
    BY <1>2
  <2>2. QED
    BY <1>1, <2>1 DEF Took, HeaderSize, RecordHeaderSize
<1>4. \A i \in 0..count : rust[i] = after[i]
  <2> DEFINE T == {i \in 0..count : rust[i] = after[i]}
  <2>1. 0 \in T
    OBVIOUS
  <2>2. ASSUME NEW i \in 0..(count - 1), i \in T
        PROVE  i + 1 \in T
    <3>1. /\ i + 1 \in 1..count /\ i + 1 \in 0..count /\ (i + 1) - 1 = i /\ i \in 0..count /\ i \in Nat
          /\ i + 1 \in 1..len
      BY <1>3
    <3>2. PICK s \in Reading : s = after[i]
      BY <3>1
    <3>3. after[i + 1] = PythonTurn(data, s) /\ rust[i + 1] = RustTurn(data, s) /\ PythonTurn(data, s).ok
      <4>1. Took(data, after[i + 1], i + 1)
        BY <1>2, <3>1
      <4>2. QED
        BY <1>1, <2>2, <3>1, <3>2, <4>1 DEF Took
    <3>4. s.ok /\ RecordOk(data, s.next) /\ after[i + 1] = Take(data, s)
      BY <3>3, PythonTook
    <3>5. s.next <= Len(data) /\ s.next \in Nat \ {0}
      BY <3>4, TakeIs DEF Reading
    <3>6. RustRecordOk(data, s.next)
      BY <3>4, <3>5, RecordReads
    <3>7. ~(s.next > Len(data))
      BY <1>1, <3>5
    <3>8. rust[i + 1] = Take(data, s)
      BY <3>3, <3>4, <3>6, <3>7 DEF RustTurn
    <3>9. QED
      BY <3>1, <3>4, <3>8
  <2>3. \A i \in 0..count : i \in T
    <3> HIDE DEF T
    <3>1. QED
      BY <2>1, <2>2, Induction
  <2>4. QED
    BY <2>3
<1>5. \A i \in 0..(len - count) : rust[count + i] = after[count]
  <2> DEFINE T == {i \in 0..(len - count) : rust[count + i] = after[count]}
  <2>1. 0 \in T /\ len - count \in Nat
    <3>1. count + 0 = count /\ count \in 0..count /\ 0 \in 0..(len - count)
      BY <1>3
    <3>2. QED
      BY <1>3, <1>4, <3>1
  <2>2. ASSUME NEW i \in 0..(len - count - 1), i \in T
        PROVE  i + 1 \in T
    <3>1. count + i + 1 \in 1..len /\ (count + i + 1) - 1 = count + i /\ i + 1 \in 0..(len - count)
      BY <1>3
    <3>2. rust[count + i + 1] = RustTurn(data, after[count])
      BY <1>1, <2>2, <3>1
    <3>3. after[count].next > Len(data)
      BY <1>1
    <3>4. rust[count + i + 1] = after[count]
      BY <3>2, <3>3 DEF RustTurn
    <3>5. count + i + 1 = count + (i + 1)
      BY <3>1
    <3>6. QED
      BY <3>1, <3>4, <3>5
  <2>3. \A i \in 0..(len - count) : i \in T
    <3> HIDE DEF T
    <3>1. QED
      BY <2>1, <2>2, Induction
  <2>4. QED
    BY <2>3
<1>6. len - count \in 0..(len - count) /\ count + (len - count) = len
  BY <1>3
<1>7. QED
  BY <1>1, <1>3, <1>5, <1>6

\* What the Rust reader has after a turn, while it goes on: it is at the end,
\* or it took a record in every turn, and what it has the Python reader has
\* after as many records.
Follows(data, count, after, s, i) ==
  s.ok => /\ HeaderSize + 1 + Len(s.payloads) * RecordHeaderSize <= s.next /\ s.next <= Len(data) + 1
          /\ s.next <= Len(data) => Len(s.payloads) = i
          /\ Len(s.payloads) <= count => after[Len(s.payloads)] = s

(* Where the Rust reader goes on to the end of the data, it is there, and the
   Python reader has the same after as many records. *)
LEMMA PythonFollows ==
  ASSUME NEW data \in Text, Len(data) >= HeaderSize, NEW count \in Nat, NEW after \in [0..count -> Reading],
         PythonTurns(after, data, count),
         NEW rust \in [0..Len(data) -> Reading],
         RustTurns(rust, data),
         rust[Len(data)].ok, Len(rust[Len(data)].payloads) = count
  PROVE  after[count] = rust[Len(data)] /\ rust[Len(data)].next = Len(data) + 1
<1> USE DEF PythonTurns, RustTurns
<1>1. PICK len \in Nat : len = Len(data)
  BY DEF Text
<1> DEFINE T == {i \in 0..len : Follows(data, count, after, rust[i], i)}
<1>2. 0 \in T
  <2>1. Len(Begin.payloads) = 0 /\ Begin.next = HeaderSize + 1 /\ HeaderSize \in Nat /\ RecordHeaderSize \in Nat
    BY DEF Begin, HeaderSize, RecordHeaderSize
  <2>2. Follows(data, count, after, Begin, 0)
    BY <1>1, <2>1 DEF Follows
  <2>3. QED
    BY <1>1, <2>2
<1>3. ASSUME NEW i \in 0..(len - 1), i \in T
      PROVE  i + 1 \in T
  <2>1. i + 1 \in 1..len /\ i + 1 \in 0..len /\ (i + 1) - 1 = i /\ i \in 0..len /\ i \in Nat
    BY <1>1
  <2>2. PICK s \in Reading : s = rust[i]
    BY <1>1, <2>1
  <2>3. rust[i + 1] = RustTurn(data, s) /\ Follows(data, count, after, s, i)
    BY <1>1, <1>3, <2>1, <2>2
  <2>4. s.next \in Nat \ {0} /\ s.payloads \in Seq(Text) /\ Len(s.payloads) \in Nat
    BY DEF Reading
  <2>5. Follows(data, count, after, RustTurn(data, s), i + 1)
    <3>1. CASE ~s.ok \/ s.next > len
      <4>1. RustTurn(data, s) = s
        BY <1>1, <3>1 DEF RustTurn
      <4>2. Follows(data, count, after, s, i + 1)
        BY <1>1, <2>3, <2>4, <3>1 DEF Follows
      <4>3. QED
        BY <4>1, <4>2
    <3>2. CASE s.ok /\ ~(s.next > len) /\ RustRecordOk(data, s.next)
      <4>1. RustTurn(data, s) = Take(data, s)
        BY <1>1, <3>2 DEF RustTurn
      <4>2. RecordOk(data, s.next)
        BY <2>4, <3>2, RecordReads
      <4>3. PICK t \in Reading : /\ t = Take(data, s) /\ t.ok /\ Len(t.payloads) = Len(s.payloads) + 1
                                 /\ s.next + RecordHeaderSize <= t.next /\ t.next <= Len(data) + 1
        BY <4>2, TakeIs
      <4>4. t.next \in Nat
        BY DEF Reading
      <4>5. Len(s.payloads) = i
        BY <1>1, <2>3, <2>4, <3>2 DEF Follows
      <4>6. /\ HeaderSize + 1 + (i + 1) * RecordHeaderSize <= t.next
            /\ Len(t.payloads) = i + 1
        BY <2>1, <2>3, <2>4, <3>2, <4>3, <4>4, <4>5 DEF Follows, HeaderSize, RecordHeaderSize
      <4>7. ASSUME i + 1 <= count
            PROVE  after[i + 1] = t
        <5>1. i + 1 \in 1..count /\ i <= count
          BY <2>1, <4>7
        <5>2. after[i] = s
          BY <2>3, <3>2, <4>5, <5>1 DEF Follows
        <5>3. after[i + 1] = PythonTurn(data, s)
          BY <2>1, <5>1, <5>2
        <5>4. QED
          BY <3>2, <4>2, <4>3, <5>3 DEF PythonTurn
      <4>8. Follows(data, count, after, t, i + 1)
        BY <4>3, <4>6, <4>7 DEF Follows
      <4>9. QED
        BY <4>1, <4>3, <4>8
    <3>3. CASE s.ok /\ ~(s.next > len) /\ ~RustRecordOk(data, s.next)
      <4>1. RustTurn(data, s) = [s EXCEPT !.ok = FALSE]
        BY <1>1, <3>3, Zenon DEF RustTurn
      <4>2. ~RustTurn(data, s).ok
        BY <4>1 DEF Reading
      <4>3. QED
        BY <4>2, Zenon DEF Follows
    <3>4. QED
      BY <3>1, <3>2, <3>3
  <2>6. QED
    BY <2>1, <2>3, <2>5
<1>4. \A i \in 0..len : i \in T
  <2> HIDE DEF T
  <2>1. QED
    BY <1>2, <1>3, Induction
<1>5. PICK s \in Reading : s = rust[len]
  BY <1>1
<1>6. s.ok /\ Len(s.payloads) = count /\ Follows(data, count, after, s, len)
  BY <1>1, <1>4, <1>5
<1>7. after[count] = s
  BY <1>6 DEF Follows
<1>8. s.next = len + 1
  <2>1. s.next \in Nat
    BY DEF Reading
  <2>2. /\ HeaderSize + 1 + count * RecordHeaderSize <= s.next /\ s.next <= len + 1
        /\ s.next <= len => count = len
    BY <1>1, <1>6 DEF Follows
  <2>3. QED
    BY <2>1, <2>2 DEF HeaderSize, RecordHeaderSize
<1>9. QED
  BY <1>1, <1>5, <1>7, <1>8

(* The headers that the Python reader takes as of a file of a kind. *)
LEMMA HeaderReads ==
  ASSUME NEW data \in Text, NEW expected \in Kinds
  PROVE  LET raw == Cells(data, 1, HeaderSize)
         IN  /\ HeaderOk(raw) /\ raw[3] = <<expected>> =>
                  /\ Len(data) >= HeaderSize /\ data[1] = Magic(expected) /\ data[2] = <<Version>>
                  /\ data[3] = <<expected>> /\ data[4] = <<HeaderSize>>
             /\ /\ Len(data) >= HeaderSize /\ data[1] = Magic(expected) /\ data[2] = <<Version>>
                /\ data[3] = <<expected>> /\ data[4] = <<HeaderSize>>
                => HeaderOk(raw) /\ raw[3] = <<expected>>
             /\ Len(data) >= HeaderSize => raw[6] = data[6] /\ Number(data[6]) \in Nat
<1>1. PICK len \in Nat : len = Len(data) /\ \A i \in 1..len : data[i] \in Cell
  BY DEF Text
<1>2. PICK raw : raw = Cells(data, 1, HeaderSize)
  OBVIOUS
<1>3. 1 \in Nat \ {0} /\ HeaderSize \in Nat /\ HeaderSize = 7
  BY DEF HeaderSize
<1>4. /\ 1 + HeaderSize <= len + 1 => Len(raw) = HeaderSize /\ \A k \in 1..HeaderSize : raw[k] = data[1 + k - 1]
      /\ ~(1 + HeaderSize <= len + 1) => Len(raw) # HeaderSize
  <2>1. /\ 1 + HeaderSize <= Len(data) + 1 =>
             /\ Len(Cells(data, 1, HeaderSize)) = HeaderSize
             /\ \A k \in 1..HeaderSize : Cells(data, 1, HeaderSize)[k] = data[1 + k - 1]
        /\ ~(1 + HeaderSize <= Len(data) + 1) /\ HeaderSize > 0 => Len(Cells(data, 1, HeaderSize)) # HeaderSize
    BY <1>3, CellsAre
  <2>2. HeaderSize > 0
    BY <1>3
  <2>3. QED
    BY <1>1, <1>2, <2>1, <2>2, Zenon
<1>5. len >= HeaderSize => Len(raw) = HeaderSize /\ \A k \in 1..HeaderSize : raw[k] = data[k]
  <2>1. \A k \in 1..HeaderSize : 1 + k - 1 = k
    BY <1>3
  <2>2. QED
    BY <1>3, <1>4, <2>1
<1>6. len >= HeaderSize => raw[1] = data[1] /\ raw[2] = data[2] /\ raw[3] = data[3] /\ raw[4] = data[4] /\ raw[6] = data[6]
  BY <1>3, <1>5
<1>7. HeaderOk(raw) /\ raw[3] = <<expected>> => raw[1] = Magic(expected) /\ raw[2] = <<Version>> /\ raw[4] = <<HeaderSize>>
  BY DEF HeaderOk, Kinds
<1>8. len >= HeaderSize => Number(data[6]) \in Nat
  BY <1>1, <1>3, NumberInCell
<1>9. HeaderOk(raw) => len >= HeaderSize
  BY <1>3, <1>4 DEF HeaderOk
<1>10. /\ len >= HeaderSize /\ data[1] = Magic(expected) /\ data[2] = <<Version>>
       /\ data[3] = <<expected>> /\ data[4] = <<HeaderSize>>
       => HeaderOk(raw) /\ raw[3] = <<expected>>
  BY <1>5, <1>6 DEF HeaderOk
<1>11. QED
  BY <1>1, <1>2, <1>6, <1>7, <1>8, <1>9, <1>10, Zenon

(* Where the loop of one reader ends well, that of the other does, with the
   same payloads. *)
LEMMA LoopsAgree ==
  ASSUME NEW data \in Text, Len(data) >= HeaderSize, NEW count \in Nat
  PROVE  LET python == PythonRecords(data, count)
             rust == RustRecords(data)
         IN  /\ python.ok /\ python.next = Len(data) + 1 <=> rust.ok /\ count = Len(rust.payloads)
             /\ rust.ok /\ count = Len(rust.payloads) => rust.payloads = python.payloads
<1>1. PICK after \in [0..count -> Reading] :
        PythonTurns(after, data, count) /\ PythonRecords(data, count) = after[count]
  BY PythonLoop DEF PythonTurns
<1>2. PICK rust \in [0..Len(data) -> Reading] :
        RustTurns(rust, data) /\ RustRecords(data) = rust[Len(data)]
  BY RustLoop DEF RustTurns
<1>3. ASSUME after[count].ok, after[count].next = Len(data) + 1
      PROVE  rust[Len(data)] = after[count] /\ Len(after[count].payloads) = count
  BY <1>1, <1>2, <1>3, RustFollows
<1>4. ASSUME rust[Len(data)].ok, Len(rust[Len(data)].payloads) = count
      PROVE  after[count] = rust[Len(data)] /\ rust[Len(data)].next = Len(data) + 1
  BY <1>1, <1>2, <1>4, PythonFollows
<1>5. QED
  BY <1>1, <1>2, <1>3, <1>4, Zenon

(* Whatever the data are, the two readers return the same: read_records counts
   the records of the header and then expects the end, v00j_read_file goes to
   the end and then compares the count. *)
THEOREM SameRead ==
  ASSUME NEW data \in Text, NEW expected \in Kinds, NEW rust \in BOOLEAN
  PROVE  ReadRecords(data, expected, rust) = ReadPython(data, expected)
<1>1. CASE rust = FALSE
  BY <1>1, Zenon DEF ReadRecords
<1>2. CASE rust = TRUE
  <2> DEFINE headed == /\ Len(data) >= HeaderSize /\ data[1] = Magic(expected) /\ data[2] = <<Version>>
                       /\ data[3] = <<expected>> /\ data[4] = <<HeaderSize>>
             raw == Cells(data, 1, HeaderSize)
  <2>1. (HeaderOk(raw) /\ raw[3] = <<expected>>) <=> headed
    BY HeaderReads, Zenon
  <2>2. ReadRecords(data, expected, rust) =
          IF ReadRust(data).ok /\ ReadRust(data).kind = expected
          THEN [ok |-> TRUE, payloads |-> ReadRust(data).payloads] ELSE Failed
    BY <1>2, Zenon DEF ReadRecords
  <2>3. CASE ~headed
    <3>1. ReadPython(data, expected) = Failed
      BY <2>1, <2>3, Zenon DEF ReadPython
    <3>2. ASSUME ReadRust(data).ok, ReadRust(data).kind = expected
          PROVE  FALSE
      <4>1. PICK kind \in {k \in Kinds : Magic(k) = data[1]} :
              /\ data[3] = <<kind>> /\ Len(data) >= HeaderSize
              /\ data[2] = <<Version>> /\ data[4] = <<HeaderSize>>
              /\ ReadRust(data) = [ok |-> TRUE, kind |-> Number(data[3]), payloads |-> RustRecords(data).payloads]
        <5>1. ~Failed.ok
          BY DEF Failed
        <5>2. QED
          BY <3>2, <5>1, Zenon DEF ReadRust
      <4>2. ReadRust(data).kind = Number(data[3])
        BY <4>1
      <4>3. kind = expected
        BY <3>2, <4>1, <4>2 DEF Number
      <4>4. QED
        BY <2>3, <4>1, <4>3
    <3>3. QED
      BY <2>2, <3>1, <3>2, Zenon
  <2>4. CASE headed
    <3>1. PICK count \in Nat : count = Number(data[6]) /\ count = Number(raw[6])
      BY <2>4, HeaderReads, Zenon
    <3>2. PICK python : python = PythonRecords(data, count)
      OBVIOUS
    <3>3. PICK parsed : parsed = RustRecords(data)
      OBVIOUS
    <3>4. /\ python.ok /\ python.next = Len(data) + 1 <=> parsed.ok /\ count = Len(parsed.payloads)
          /\ parsed.ok /\ count = Len(parsed.payloads) => parsed.payloads = python.payloads
      BY <2>4, <3>2, <3>3, LoopsAgree, Zenon
    <3>5. ReadPython(data, expected) = IF python.ok /\ python.next = Len(data) + 1
                                       THEN [ok |-> TRUE, payloads |-> python.payloads] ELSE Failed
      <4>1. HeaderOk(raw) /\ raw[3] = <<expected>>
        BY <2>1, <2>4
      <4>2. QED
        BY <3>1, <3>2, <4>1, Zenon DEF ReadPython
    <3>6. ReadRust(data) = IF parsed.ok /\ count = Len(parsed.payloads)
                           THEN [ok |-> TRUE, kind |-> expected, payloads |-> parsed.payloads] ELSE Failed
      <4>1. \E kind \in {k \in Kinds : Magic(k) = data[1]} : data[3] = <<kind>>
        BY <2>4
      <4>2. Number(data[3]) = expected
        BY <2>4 DEF Number
      <4>3. QED
        BY <2>4, <3>1, <3>3, <4>1, <4>2, Zenon DEF ReadRust, CountAgrees
    <3>7. CASE parsed.ok /\ count = Len(parsed.payloads)
      <4>1. ReadRust(data) = [ok |-> TRUE, kind |-> expected, payloads |-> parsed.payloads]
        BY <3>6, <3>7
      <4>2. ReadRust(data).ok /\ ReadRust(data).kind = expected /\ ReadRust(data).payloads = parsed.payloads
        BY <4>1
      <4>3. QED
        BY <2>2, <3>4, <3>5, <3>7, <4>2, Zenon
    <3>8. CASE ~(parsed.ok /\ count = Len(parsed.payloads))
      <4>1. ~ReadRust(data).ok
        BY <3>6, <3>8 DEF Failed
      <4>2. QED
        BY <2>2, <3>4, <3>5, <3>8, <4>1, Zenon
    <3>9. QED
      BY <3>7, <3>8
  <2>5. QED
    BY <2>3, <2>4
<1>3. QED
  BY <1>1, <1>2

----------------------------------------------------------------------------
(* What is written is what is read *)

Packed(payloads) == [i \in DOMAIN payloads |-> PackRecord(payloads[i])]

(* A file is its header and its records, put together. *)
LEMMA FileIs ==
  ASSUME NEW kind \in Kinds, NEW n \in Nat, NEW payloads \in [1..n -> Text]
  PROVE  /\ Packed(payloads) \in [1..n -> Seq(Cell)] /\ \A i \in 1..n : Packed(payloads)[i] = PackRecord(payloads[i])
         /\ PackHeader(kind, n) \in Seq(Cell)
         /\ \E flat \in [0..n -> Seq(Cell)] :
              /\ Flattens(flat, Packed(payloads), n)
              /\ WritePython(kind, payloads) = PackHeader(kind, n) \o flat[n]
              /\ WritePython(kind, payloads) \in Text
              /\ Len(WritePython(kind, payloads)) = HeaderSize + Len(flat[n])
<1>1. /\ Packed(payloads) \in [1..n -> Seq(Cell)]
      /\ \A i \in 1..n : Packed(payloads)[i] = PackRecord(payloads[i])
  <2>1. \A i \in 1..n : PackRecord(payloads[i]) \in Seq(Cell)
    BY RecordIs DEF Text
  <2>2. QED
    BY <2>1 DEF Packed
<1>2. PackHeader(kind, n) \in Seq(Cell) /\ Len(PackHeader(kind, n)) = HeaderSize
  BY HeaderIs DEF Text
<1>3. PICK flat \in [0..n -> Seq(Cell)] :
        Flattens(flat, Packed(payloads), n) /\ FlattenSeq(Packed(payloads)) = flat[n]
  BY <1>1, Flattening
<1>4. flat[n] \in Seq(Cell)
  OBVIOUS
<1>5. Len(payloads) = n
  OBVIOUS
<1>6. WritePython(kind, payloads) = PackHeader(kind, n) \o flat[n]
  BY <1>3, <1>5, Zenon DEF WritePython, Packed
<1>7. /\ PackHeader(kind, n) \o flat[n] \in Seq(Cell)
      /\ Len(PackHeader(kind, n) \o flat[n]) = HeaderSize + Len(flat[n])
  <2>1. PICK a \in Seq(Cell) : a = PackHeader(kind, n)
    BY <1>2
  <2>2. PICK b \in Seq(Cell) : b = flat[n]
    BY <1>4
  <2>3. a \o b \in Seq(Cell) /\ Len(a \o b) = Len(a) + Len(b)
    BY ConcatProperties
  <2>4. QED
    BY <1>2, <2>1, <2>2, <2>3
<1>8. QED
  BY <1>1, <1>2, <1>3, <1>6, <1>7, Zenon DEF Text

\* One pair of parentheses for another.
Regrouped(s, t, u) == (s \o t) \o u = s \o (t \o u)

\* Sequences may be put together in either order of the two steps.
LEMMA Regroup ==
  ASSUME NEW S, NEW s \in Seq(S), NEW t \in Seq(S), NEW u \in Seq(S)
  PROVE  Regrouped(s, t, u)
<1>1. (s \o t) \o u = s \o (t \o u)
  BY ConcatAssociative
<1>2. QED
  BY <1>1, Zenon DEF Regrouped

(* What push_record appends is the record that the Python writer writes. *)
LEMMA PushIs ==
  ASSUME NEW out \in Seq(Cell), NEW text \in Text
  PROVE  PushRecord(out, text) = out \o PackRecord(text)
<1>1. PICK a, b, c, d : a = RecordId(text) /\ b = <<Len(text)>> /\ c = Crc(text) /\ d = <<0>>
  OBVIOUS
<1>2. a \in Cell /\ b \in Cell /\ c \in Cell /\ d \in Cell
  <2>1. Len(text) \in Nat /\ 64 \in Nat /\ 32 \in Nat
    BY DEF Text
  <2>2. QED
    BY <1>1, <2>1, DigestIs, NumberInCell DEF RecordId, Crc
<1>3. PICK A, B, C, D, P : A = <<a>> /\ B = <<b>> /\ C = <<c>> /\ D = <<d, d>> /\ P = text
  OBVIOUS
<1>4. A \in Seq(Cell) /\ B \in Seq(Cell) /\ C \in Seq(Cell) /\ D \in Seq(Cell) /\ P \in Seq(Cell)
  BY <1>2, <1>3 DEF Text
<1>5. PushRecord(out, text) = ((((out \o A) \o B) \o C) \o D) \o P
  BY <1>1, <1>3, Zenon DEF PushRecord
<1>6. PackRecord(text) = <<a, b, c, d, d>> \o P
  BY <1>1, <1>3, Zenon DEF PackRecord
<1>7. <<a, b, c, d, d>> = ((A \o B) \o C) \o D
  BY <1>2, <1>3
<1>8. /\ A \o B \in Seq(Cell) /\ (A \o B) \o C \in Seq(Cell) /\ ((A \o B) \o C) \o D \in Seq(Cell)
  BY <1>4, ConcatProperties
<1>9. Regrouped(out, A, B)
  BY <1>4, Regroup, Zenon
<1>10. Regrouped(out, A \o B, C)
  BY <1>4, <1>8, Regroup, Zenon
<1>11. Regrouped(out, (A \o B) \o C, D)
  BY <1>4, <1>8, Regroup, Zenon
<1>12. Regrouped(out, ((A \o B) \o C) \o D, P)
  BY <1>4, <1>8, Regroup, Zenon
<1>13. QED
  BY <1>5, <1>6, <1>7, <1>9, <1>10, <1>11, <1>12, Zenon DEF Regrouped

(* write_records and v00j_write_file make the same file of the same payloads,
   any number of them and of any length. *)
THEOREM WritersAgree ==
  ASSUME NEW kind \in Kinds, NEW n \in Nat, NEW payloads \in [1..n -> Text], NEW rust \in BOOLEAN
  PROVE  WriteRecords(kind, payloads, rust) = WritePython(kind, payloads)
<1>1. PICK header \in Seq(Cell) : header = PackHeader(kind, n)
  BY FileIs
<1>2. PICK flat \in [0..n -> Seq(Cell)] :
        Flattens(flat, Packed(payloads), n) /\ WritePython(kind, payloads) = header \o flat[n]
  BY <1>1, FileIs
<1>3. \A i \in 1..n : flat[i] = flat[i - 1] \o PackRecord(payloads[i])
  BY <1>2, FileIs DEF Flattens
<1>4. flat[0] = << >>
  BY <1>2 DEF Flattens
<1>5. <<Magic(kind)>> \o <<<<Version>>, <<kind>>, <<HeaderSize>>, <<0>>, <<n>>, <<0>>>> = header
  <2>1. PICK a, b, c, d, e, f : /\ a = Magic(kind) /\ b = <<Version>> /\ c = <<kind>> /\ d = <<HeaderSize>>
                                /\ e = <<0>> /\ f = <<n>>
    OBVIOUS
  <2>2. {a, b, c, d, e, f} \subseteq Cell
    <3>1. 10 + kind \in Nat /\ kind \in Nat /\ Version \in Nat /\ HeaderSize \in Nat
      BY DEF Kinds, Version, HeaderSize
    <3>2. QED
      BY <2>1, <3>1, NumberInCell DEF Magic
  <2>3. <<a>> \o <<b, c, d, e, f, e>> = <<a, b, c, d, e, f, e>>
    <3>1. /\ a \in Cell /\ <<a>> \in Seq(Cell) /\ <<b, c, d, e, f, e>> \in Seq(Cell)
          /\ <<a, b, c, d, e, f, e>> \in Seq(Cell)
      BY <2>2
    <3>2. PICK x \in Seq(Cell) : x = <<a>> /\ Len(x) = 1 /\ x[1] = a
      BY <3>1
    <3>3. PICK y \in Seq(Cell) : /\ y = <<b, c, d, e, f, e>> /\ Len(y) = 6
                                 /\ y[1] = b /\ y[2] = c /\ y[3] = d /\ y[4] = e /\ y[5] = f /\ y[6] = e
      BY <3>1
    <3>4. PICK z \in Seq(Cell) : /\ z = <<a, b, c, d, e, f, e>> /\ Len(z) = 7 /\ z[1] = a /\ z[2] = b
                                 /\ z[3] = c /\ z[4] = d /\ z[5] = e /\ z[6] = f /\ z[7] = e
      BY <3>1
    <3>5. PICK w \in Seq(Cell) : /\ w = x \o y /\ Len(w) = 7
                                 /\ \A i \in 1..7 : w[i] = IF i <= 1 THEN x[i] ELSE y[i - 1]
      <4>1. x \o y \in Seq(Cell) /\ Len(x \o y) = Len(x) + Len(y)
            /\ \A i \in 1..(Len(x) + Len(y)) : (x \o y)[i] = IF i <= Len(x) THEN x[i] ELSE y[i - Len(x)]
        BY ConcatProperties
      <4>2. Len(x) + Len(y) = 7 /\ Len(x) = 1
        BY <3>2, <3>3
      <4>3. x \o y \in Seq(Cell) /\ Len(x \o y) = 7
            /\ \A i \in 1..7 : (x \o y)[i] = IF i <= 1 THEN x[i] ELSE y[i - 1]
        BY <4>1, <4>2, Zenon
      <4>4. QED
        BY <4>3, Zenon
    <3>6. \A i \in 1..7 : w[i] = z[i]
      <4>1. /\ w[1] = a /\ w[2] = b /\ w[3] = c /\ w[4] = d
            /\ w[5] = e /\ w[6] = f /\ w[7] = e
        BY <3>2, <3>3, <3>5
      <4>2. \A i \in 1..7 : i = 1 \/ i = 2 \/ i = 3 \/ i = 4 \/ i = 5 \/ i = 6 \/ i = 7
        OBVIOUS
      <4>3. QED
        BY <3>4, <4>1, <4>2, Zenon
    <3>7. w = z
      BY <3>4, <3>5, <3>6, SeqEqual
    <3>8. QED
      BY <3>2, <3>3, <3>4, <3>5, <3>7
  <2>4. QED
    BY <1>1, <2>1, <2>3, Zenon DEF PackHeader
<1> DEFINE Is(k) == k = [i \in 0..n |-> IF i = 0 THEN header ELSE PushRecord(k[i - 1], payloads[i])]
           out == CHOOSE k : Is(k)
           g == [i \in 0..n |-> header \o flat[i]]
<1>6. WriteRust(kind, payloads) = out[n]
  <2>1. Len(payloads) = n
    OBVIOUS
  <2>2. QED
    BY <1>5, <2>1, Zenon DEF WriteRust
<1>7. g[0] = header
  <2>1. header \o << >> = header
    BY ConcatEmptySeq
  <2>2. QED
    BY <1>4, <2>1
<1>8. ASSUME NEW i \in 1..n
      PROVE  g[i] = PushRecord(g[i - 1], payloads[i])
  <2>1. i \in 0..n /\ i - 1 \in 0..n
    OBVIOUS
  <2>2. PICK before \in Seq(Cell) : before = flat[i - 1]
    BY <2>1
  <2>3. PICK record \in Seq(Cell) : record = PackRecord(payloads[i])
    BY RecordIs DEF Text
  <2>4. flat[i] = before \o record
    BY <1>3, <2>2, <2>3
  <2>5. g[i] = header \o (before \o record) /\ g[i - 1] = header \o before
    BY <2>1, <2>2, <2>4
  <2>6. header \o (before \o record) = (header \o before) \o record /\ header \o before \in Seq(Cell)
    <3>1. Regrouped(header, before, record)
      BY Regroup, Zenon
    <3>2. header \o before \in Seq(Cell)
      BY ConcatProperties
    <3>3. QED
      BY <3>1, <3>2, Zenon DEF Regrouped
  <2>7. PushRecord(header \o before, payloads[i]) = (header \o before) \o record
    BY <2>3, <2>6, PushIs
  <2> HIDE DEF g
  <2>8. QED
    BY <2>5, <2>6, <2>7
<1>9. Is(g)
  <2>1. g = [i \in 0..n |-> g[i]]
    OBVIOUS
  <2> HIDE DEF g
  <2>2. \A i \in 0..n : i = 0 \/ i \in 1..n
    OBVIOUS
  <2>3. \A i \in 0..n : g[i] = IF i = 0 THEN header ELSE PushRecord(g[i - 1], payloads[i])
    BY <1>7, <1>8, <2>2
  <2>4. QED
    BY <2>1, <2>3
<1> HIDE DEF g
<1>10. Is(out)
  <2> HIDE DEF Is
  <2>1. QED
    BY <1>9
<1> HIDE DEF out
<1>11. out[0] = header /\ \A i \in 1..n : out[i] = PushRecord(out[i - 1], payloads[i])
  BY <1>10
<1> HIDE DEF Is
<1> DEFINE T == {i \in 0..n : out[i] = g[i]}
<1>12. 0 \in T
  BY <1>7, <1>11
<1>13. ASSUME NEW i \in 0..(n - 1), i \in T
       PROVE  i + 1 \in T
  <2>1. i + 1 \in 1..n /\ i + 1 \in 0..n /\ (i + 1) - 1 = i /\ out[i] = g[i]
    BY <1>13
  <2>2. out[i + 1] = PushRecord(out[(i + 1) - 1], payloads[i + 1]) /\ g[i + 1] = PushRecord(g[(i + 1) - 1], payloads[i + 1])
    BY <1>8, <1>11, <2>1
  <2>3. out[i + 1] = g[i + 1]
    BY <2>1, <2>2
  <2>4. QED
    BY <2>1, <2>3
<1>14. \A i \in 0..n : i \in T
  <2> HIDE DEF T
  <2>1. QED
    BY <1>12, <1>13, Induction
<1>15. out[n] = header \o flat[n]
  BY <1>14 DEF g
<1>16. QED
  BY <1>2, <1>6, <1>15, Zenon DEF WriteRecords

\* A record with a payload lies in a file from a position on.
Lies(full, pos, text) ==
  /\ pos + RecordHeaderSize + Len(text) <= Len(full) + 1
  /\ full[pos] = RecordId(text) /\ full[pos + 1] = <<Len(text)>> /\ full[pos + 2] = Crc(text)
  /\ \A k \in 1..Len(text) : full[pos + RecordHeaderSize + k - 1] = text[k]

\* A record lies where the ones before it end.
LiesAfter(full, flat, i, text) ==
  LET pos == HeaderSize + 1 + Len(flat[i - 1])
  IN  /\ pos \in Nat \ {0} /\ Lies(full, pos, text)
      /\ pos + RecordHeaderSize + Len(text) = HeaderSize + 1 + Len(flat[i])

(* Each record lies where the records before it end. *)
LEMMA RecordLies ==
  ASSUME NEW kind \in Kinds, NEW n \in Nat, NEW payloads \in [1..n -> Text],
         NEW flat \in [0..n -> Seq(Cell)], Flattens(flat, Packed(payloads), n),
         WritePython(kind, payloads) = PackHeader(kind, n) \o flat[n],
         NEW i \in 1..n
  PROVE  LiesAfter(WritePython(kind, payloads), flat, i, payloads[i])
<1>1. PICK text \in Text : text = payloads[i]
  OBVIOUS
<1>2. PICK record \in Seq(Cell) : /\ record = PackRecord(text) /\ Len(record) = RecordHeaderSize + Len(text)
                                  /\ record[1] = RecordId(text) /\ record[2] = <<Len(text)>> /\ record[3] = Crc(text)
                                  /\ \A k \in 1..Len(text) : record[RecordHeaderSize + k] = text[k]
  BY RecordIs DEF Text
<1>3. PICK a \in Seq(Cell) : a = flat[i - 1]
  OBVIOUS
<1>4. PICK b \in Seq(Cell) : b = flat[i]
  OBVIOUS
<1>5. PICK c \in Seq(Cell) : c = flat[n]
  OBVIOUS
<1>6. PICK header \in Seq(Cell) : header = PackHeader(kind, n) /\ Len(header) = HeaderSize
  BY HeaderIs DEF Text
<1>7. /\ Len(b) = Len(a) + Len(record) /\ Len(b) <= Len(c)
      /\ \A k \in 1..Len(record) : c[Len(a) + k] = record[k]
  <2>1. Packed(payloads) \in [1..n -> Seq(Cell)] /\ Packed(payloads)[i] = record
    BY <1>1, <1>2, FileIs
  <2>2. LiesIn(flat, Packed(payloads), n, i)
    BY <2>1, FlatHas, Zenon
  <2>3. QED
    BY <1>3, <1>4, <1>5, <2>1, <2>2, Zenon DEF LiesIn
<1>8. PICK full \in Seq(Cell) : /\ full = WritePython(kind, payloads)
                                /\ Len(full) = Len(header) + Len(c)
                                /\ \A k \in 1..Len(c) : full[Len(header) + k] = c[k]
  <2>1. /\ header \o c \in Seq(Cell) /\ Len(header \o c) = Len(header) + Len(c)
        /\ \A k \in 1..(Len(header) + Len(c)) : (header \o c)[k] = IF k <= Len(header) THEN header[k] ELSE c[k - Len(header)]
    BY ConcatProperties
  <2>2. ASSUME NEW k \in 1..Len(c)
        PROVE  (header \o c)[Len(header) + k] = c[k]
    <3>1. /\ Len(header) + k \in 1..(Len(header) + Len(c)) /\ ~(Len(header) + k <= Len(header))
          /\ (Len(header) + k) - Len(header) = k
      OBVIOUS
    <3>2. QED
      BY <2>1, <3>1, Zenon
  <2>3. QED
    BY <1>5, <1>6, <2>1, <2>2, Zenon
<1>9. PICK pos \in Nat \ {0} : pos = HeaderSize + 1 + Len(a)
  BY DEF HeaderSize
<1>10. \A k \in 1..Len(record) : full[pos + k - 1] = record[k]
  <2>1. ASSUME NEW k \in 1..Len(record)
        PROVE  full[pos + k - 1] = record[k]
    <3>1. Len(a) + k \in 1..Len(c) /\ HeaderSize + (Len(a) + k) = pos + k - 1
      BY <1>7, <1>9 DEF HeaderSize
    <3>2. c[Len(a) + k] = record[k] /\ full[HeaderSize + (Len(a) + k)] = c[Len(a) + k]
      BY <1>6, <1>7, <1>8, <3>1, Zenon
    <3>3. QED
      BY <3>1, <3>2
  <2>2. QED
    BY <2>1
<1>11. pos + RecordHeaderSize + Len(text) = HeaderSize + 1 + Len(b) /\ Len(text) \in Nat
  BY <1>2, <1>7, <1>9 DEF HeaderSize, RecordHeaderSize, Text
<1>12. pos + RecordHeaderSize + Len(text) <= Len(full) + 1
  BY <1>6, <1>7, <1>8, <1>11 DEF HeaderSize
<1>13. full[pos] = RecordId(text) /\ full[pos + 1] = <<Len(text)>> /\ full[pos + 2] = Crc(text)
  <2>1. 1 \in 1..Len(record) /\ 2 \in 1..Len(record) /\ 3 \in 1..Len(record)
    BY <1>2, <1>11 DEF RecordHeaderSize
  <2>2. pos + 1 - 1 = pos /\ pos + 2 - 1 = pos + 1 /\ pos + 3 - 1 = pos + 2
    OBVIOUS
  <2>3. full[pos + 1 - 1] = record[1] /\ full[pos + 2 - 1] = record[2] /\ full[pos + 3 - 1] = record[3]
    BY <1>10, <2>1
  <2>4. QED
    BY <1>2, <2>2, <2>3
<1>14. \A k \in 1..Len(text) : full[pos + RecordHeaderSize + k - 1] = text[k]
  <2>1. ASSUME NEW k \in 1..Len(text)
        PROVE  full[pos + RecordHeaderSize + k - 1] = text[k]
    <3>1. RecordHeaderSize + k \in 1..Len(record) /\ pos + (RecordHeaderSize + k) - 1 = pos + RecordHeaderSize + k - 1
      BY <1>2, <1>11 DEF RecordHeaderSize
    <3>2. full[pos + (RecordHeaderSize + k) - 1] = record[RecordHeaderSize + k]
      BY <1>10, <3>1
    <3>3. QED
      BY <1>2, <3>1, <3>2
  <2>2. QED
    BY <2>1
<1>15. Lies(full, pos, text)
  BY <1>12, <1>13, <1>14 DEF Lies
<1>16. QED
  BY <1>1, <1>3, <1>4, <1>8, <1>9, <1>11, <1>15, Zenon DEF LiesAfter

\* One file is the start of another.
Starts(data, full) == Len(data) <= Len(full) /\ \A k \in 1..Len(data) : data[k] = full[k]

(* In the start of a file, the reader takes a record that is all there, with
   its payload, and no other. *)
LEMMA RecordInStart ==
  ASSUME NEW data \in Text, NEW full \in Text, Starts(data, full),
         NEW text \in Text, NEW pos \in Nat \ {0}, Lies(full, pos, text)
  PROVE  /\ RecordOk(data, pos) <=> pos + RecordHeaderSize + Len(text) <= Len(data) + 1
         /\ RecordOk(data, pos) => /\ PayloadAt(data, pos) = text
                                   /\ PayloadEnd(data, pos) = pos + RecordHeaderSize + Len(text)
<1>1. PICK len \in Nat : len = Len(data)
  BY DEF Text
<1>2. PICK size \in Nat : size = Len(text)
  BY DEF Text
<1>3. PICK first \in Nat \ {0} : first = pos + RecordHeaderSize /\ first = pos + 5
  BY DEF RecordHeaderSize
<1>4. ASSUME first <= len + 1
      PROVE  /\ data[pos] = RecordId(text) /\ data[pos + 1] = <<size>> /\ data[pos + 2] = Crc(text)
             /\ Number(data[pos + 1]) = size
  <2>1. pos \in 1..len /\ pos + 1 \in 1..len /\ pos + 2 \in 1..len
    BY <1>3, <1>4
  <2>2. data[pos] = full[pos] /\ data[pos + 1] = full[pos + 1] /\ data[pos + 2] = full[pos + 2]
    BY <1>1, <2>1, Zenon DEF Starts
  <2>3. data[pos] = RecordId(text) /\ data[pos + 1] = <<size>> /\ data[pos + 2] = Crc(text)
    BY <1>2, <2>2, Zenon DEF Lies
  <2>4. QED
    BY <2>3, NumberInCell
<1>5. ASSUME first + size <= len + 1
      PROVE  RecordOk(data, pos) /\ PayloadAt(data, pos) = text /\ PayloadEnd(data, pos) = first + size
  <2>1. first <= len + 1
    BY <1>5
  <2>2. PICK got : got = PayloadAt(data, pos) /\ got = Cells(data, first, size)
    BY <1>3, <1>4, <2>1 DEF PayloadAt
  <2>3. got \in Text /\ Len(got) = size /\ \A k \in 1..size : got[k] = data[first + k - 1]
    <3>1. /\ Cells(data, first, size) \in Text
          /\ first + size <= Len(data) + 1 =>
               /\ Len(Cells(data, first, size)) = size
               /\ \A k \in 1..size : Cells(data, first, size)[k] = data[first + k - 1]
      BY CellsAre
    <3>2. QED
      BY <1>1, <1>5, <2>2, <3>1, Zenon
  <2>4. \A k \in 1..size : got[k] = text[k]
    <3>1. ASSUME NEW k \in 1..size
          PROVE  got[k] = text[k]
      <4>1. first + k - 1 \in 1..len
        BY <1>5
      <4>2. data[first + k - 1] = full[first + k - 1]
        BY <1>1, <4>1, Zenon DEF Starts
      <4>3. full[pos + RecordHeaderSize + k - 1] = text[k]
        BY <1>2, Zenon DEF Lies
      <4>4. QED
        BY <1>3, <2>3, <4>2, <4>3
    <3>2. QED
      BY <3>1
  <2>5. got = text
    BY <1>2, <2>3, <2>4, SeqEqual DEF Text
  <2>6. Len(Cells(data, pos, RecordHeaderSize)) = RecordHeaderSize
    <3>1. RecordHeaderSize \in Nat /\ pos + RecordHeaderSize <= Len(data) + 1
      BY <1>1, <1>3, <2>1 DEF RecordHeaderSize
    <3>2. QED
      BY <3>1, CellsAre
  <2>7. RecordOk(data, pos)
    BY <1>2, <1>4, <2>1, <2>2, <2>5, <2>6, Zenon DEF RecordOk
  <2>8. QED
    BY <1>3, <1>4, <2>1, <2>2, <2>5, <2>7 DEF PayloadEnd
<1>6. ASSUME RecordOk(data, pos)
      PROVE  first + size <= len + 1
  <2>1. /\ Number(data[pos + 1]) \in Nat
        /\ PayloadEnd(data, pos) = pos + RecordHeaderSize + Number(data[pos + 1])
        /\ PayloadEnd(data, pos) <= Len(data) + 1
    BY <1>6, RecordReads
  <2>2. first <= len + 1
    BY <1>1, <1>3, <2>1
  <2>3. QED
    BY <1>1, <1>3, <1>4, <2>1, <2>2
<1>7. QED
  BY <1>1, <1>2, <1>3, <1>5, <1>6

\* What the Python reader has after a number of records of the start of a file.
Parsed(data, payloads, end, s, i) ==
  /\ s.ok => s.next = end /\ Len(s.payloads) = i /\ \A k \in 1..i : s.payloads[k] = payloads[k]
  /\ end <= Len(data) + 1 => s.ok

\* The header is at the start of a file.
LEMMA HeaderLies ==
  ASSUME NEW kind \in Kinds, NEW n \in Nat, NEW payloads \in [1..n -> Text], NEW data \in Text,
         Starts(data, WritePython(kind, payloads)), Len(data) >= HeaderSize
  PROVE  /\ data[1] = Magic(kind) /\ data[2] = <<Version>> /\ data[3] = <<kind>>
         /\ data[4] = <<HeaderSize>> /\ data[6] = <<n>>
<1>1. PICK flat \in [0..n -> Seq(Cell)] : WritePython(kind, payloads) = PackHeader(kind, n) \o flat[n]
  BY FileIs
<1>2. PICK c \in Seq(Cell) : c = flat[n]
  OBVIOUS
<1>3. PICK header \in Seq(Cell) : /\ header = PackHeader(kind, n) /\ Len(header) = HeaderSize
                                  /\ header[1] = Magic(kind) /\ header[2] = <<Version>> /\ header[3] = <<kind>>
                                  /\ header[4] = <<HeaderSize>> /\ header[6] = <<n>>
  BY HeaderIs DEF Text
<1>4. PICK len \in Nat : len = Len(data)
  BY DEF Text
<1>5. \A k \in 1..HeaderSize : data[k] = header[k]
  <2>1. ASSUME NEW k \in 1..HeaderSize
        PROVE  data[k] = header[k]
    <3>1. k \in 1..len /\ k \in 1..Len(header) /\ k \in 1..(Len(header) + Len(c)) /\ k <= Len(header)
      BY <1>3, <1>4 DEF HeaderSize
    <3>2. (header \o c)[k] = header[k]
      BY <3>1, ConcatProperties
    <3>3. data[k] = WritePython(kind, payloads)[k]
      BY <1>4, <3>1, Zenon DEF Starts
    <3>4. QED
      BY <1>1, <1>2, <1>3, <3>2, <3>3, Zenon
  <2>2. QED
    BY <2>1
<1>6. 1 \in 1..HeaderSize /\ 2 \in 1..HeaderSize /\ 3 \in 1..HeaderSize /\ 4 \in 1..HeaderSize /\ 6 \in 1..HeaderSize
  BY DEF HeaderSize
<1>7. QED
  BY <1>3, <1>5, <1>6, Zenon

(* A file that was cut off anywhere in write_records is refused by read_records,
   also between two records, and a file that is all there is read as what was
   written. *)
THEOREM StartReads ==
  ASSUME NEW kind \in Kinds, NEW n \in Nat, NEW payloads \in [1..n -> Text], NEW data \in Text,
         Starts(data, WritePython(kind, payloads))
  PROVE  ReadPython(data, kind) = IF Len(data) = Len(WritePython(kind, payloads))
                                  THEN [ok |-> TRUE, payloads |-> payloads] ELSE Failed
<1>1. PICK flat \in [0..n -> Seq(Cell)] :
        /\ Flattens(flat, Packed(payloads), n)
        /\ WritePython(kind, payloads) = PackHeader(kind, n) \o flat[n]
        /\ WritePython(kind, payloads) \in Text
        /\ Len(WritePython(kind, payloads)) = HeaderSize + Len(flat[n])
  BY FileIs
<1>2. PICK full \in Text : full = WritePython(kind, payloads)
  BY <1>1
<1>3. PICK len \in Nat : len = Len(data)
  BY DEF Text
<1>4. PICK size \in Nat : size = Len(full) /\ size = HeaderSize + Len(flat[n])
  BY <1>1, <1>2 DEF Text
<1>5. Starts(data, full) /\ len <= size
  BY <1>2, <1>3, <1>4 DEF Starts
<1>6. Len(flat[0]) = 0 /\ \A i \in 0..n : Len(flat[i]) \in Nat
  BY <1>1 DEF Flattens
<1>7. CASE len < HeaderSize
  <2>1. ~(HeaderOk(Cells(data, 1, HeaderSize)) /\ Cells(data, 1, HeaderSize)[3] = <<kind>>)
    <3>1. ~(Len(data) >= HeaderSize)
      BY <1>3, <1>7 DEF HeaderSize
    <3>2. QED
      BY <3>1, HeaderReads, Zenon
  <2>2. ReadPython(data, kind) = Failed
    BY <2>1, Zenon DEF ReadPython
  <2>3. Len(data) # Len(full)
    BY <1>3, <1>4, <1>6, <1>7 DEF HeaderSize
  <2>4. QED
    BY <1>2, <2>2, <2>3, Zenon
<1>8. CASE ~(len < HeaderSize)
  <2>1. Len(data) >= HeaderSize /\ HeaderSize \in Nat
    BY <1>3, <1>8 DEF HeaderSize
  <2>2. /\ data[1] = Magic(kind) /\ data[2] = <<Version>> /\ data[3] = <<kind>>
        /\ data[4] = <<HeaderSize>> /\ data[6] = <<n>>
    BY <2>1, HeaderLies
  <2>3. /\ HeaderOk(Cells(data, 1, HeaderSize)) /\ Cells(data, 1, HeaderSize)[3] = <<kind>>
        /\ Cells(data, 1, HeaderSize)[6] = <<n>>
    BY <2>1, <2>2, HeaderReads, Zenon
  <2>4. Number(Cells(data, 1, HeaderSize)[6]) = n
    BY <2>3, NumberInCell
  <2>5. PICK after \in [0..n -> Reading] :
          PythonTurns(after, data, n) /\ PythonRecords(data, n) = after[n]
    BY PythonLoop DEF PythonTurns
  <2>6. ReadPython(data, kind) = IF after[n].ok /\ after[n].next = Len(data) + 1
                                 THEN [ok |-> TRUE, payloads |-> after[n].payloads] ELSE Failed
    BY <2>3, <2>4, <2>5, Zenon DEF ReadPython
  <2> DEFINE end(i) == HeaderSize + 1 + Len(flat[i])
             T == {i \in 0..n : Parsed(data, payloads, end(i), after[i], i)}
  <2>7. 0 \in T
    <3>1. after[0] = Begin /\ end(0) = HeaderSize + 1
      BY <1>6, <2>1, <2>5 DEF PythonTurns
    <3>2. Parsed(data, payloads, HeaderSize + 1, Begin, 0)
      BY DEF Parsed, Begin
    <3>3. QED
      BY <3>1, <3>2
  <2>8. ASSUME NEW i \in 0..(n - 1), i \in T
         PROVE  i + 1 \in T
    <3>1. i + 1 \in 1..n /\ i + 1 \in 0..n /\ (i + 1) - 1 = i /\ i \in Nat
      BY <2>8
    <3>2. PICK s \in Reading : s = after[i]
      BY <3>1
    <3>3. after[i + 1] = PythonTurn(data, s) /\ Parsed(data, payloads, end(i), s, i)
      BY <2>5, <2>8, <3>1, <3>2 DEF PythonTurns
    <3>4. PICK text \in Text : text = payloads[i + 1]
      BY <3>1
    <3>5. PICK pos \in Nat \ {0} : pos = end(i) /\ Lies(full, pos, text) /\ pos + RecordHeaderSize + Len(text) = end(i + 1)
      <4>1. LiesAfter(full, flat, i + 1, text)
        BY <1>1, <1>2, <3>1, <3>4, RecordLies, Zenon
      <4>2. QED
        BY <3>1, <4>1, Zenon DEF LiesAfter
    <3>6. /\ RecordOk(data, pos) <=> end(i + 1) <= len + 1
          /\ RecordOk(data, pos) => PayloadAt(data, pos) = text /\ PayloadEnd(data, pos) = end(i + 1)
      BY <1>3, <1>5, <3>5, RecordInStart
    <3>7. PICK next \in Nat : next = end(i + 1) /\ pos <= next
      <4>1. Len(text) \in Nat
        BY DEF Text
      <4>2. QED
        BY <3>5, <4>1 DEF RecordHeaderSize
    <3> HIDE DEF end
    <3>8. PICK t : t = PythonTurn(data, s)
      OBVIOUS
    <3>9. next <= len + 1 => t.ok
      <4>1. ASSUME next <= len + 1
            PROVE  s.ok /\ RecordOk(data, s.next)
        <5>1. pos <= len + 1
          BY <3>7, <4>1
        <5>2. s.ok /\ s.next = pos
          BY <1>3, <3>3, <3>5, <5>1 DEF Parsed
        <5>3. QED
          BY <3>6, <3>7, <4>1, <5>2
      <4>2. QED
        BY <3>8, <4>1 DEF PythonTurn, Take
    <3>10. ASSUME t.ok
           PROVE  t.next = next /\ Len(t.payloads) = i + 1 /\ \A k \in 1..(i + 1) : t.payloads[k] = payloads[k]
      <4>1. s.ok /\ RecordOk(data, s.next) /\ t = Take(data, s)
        BY <3>8, <3>10, PythonTook
      <4>2. s.next = pos /\ Len(s.payloads) = i /\ \A k \in 1..i : s.payloads[k] = payloads[k]
        BY <3>3, <3>5, <4>1 DEF Parsed
      <4>3. t.next = next /\ t.payloads = Append(s.payloads, text)
        BY <3>6, <3>7, <4>1, <4>2 DEF Take
      <4>4. s.payloads \in Seq(Text)
        BY DEF Reading
      <4>5. PICK p \in Seq(Text) : p = s.payloads
        BY <4>4
      <4>6. Len(Append(p, text)) = Len(p) + 1 /\ Append(p, text)[Len(p) + 1] = text
            /\ \A k \in 1..Len(p) : Append(p, text)[k] = p[k]
        BY AppendProperties
      <4>7. \A k \in 1..(i + 1) : k = i + 1 \/ k \in 1..i
        BY <3>1
      <4>8. QED
        BY <3>4, <4>2, <4>3, <4>5, <4>6, <4>7, Zenon
    <3>11. Parsed(data, payloads, next, t, i + 1)
      BY <1>3, <3>9, <3>10, Zenon DEF Parsed
    <3>12. QED
      BY <3>1, <3>3, <3>7, <3>8, <3>11
  <2>9. \A i \in 0..n : i \in T
    <3> HIDE DEF T
    <3>1. QED
      BY <2>7, <2>8, Induction
  <2>10. PICK last \in Reading : last = after[n]
    OBVIOUS
  <2>11. Parsed(data, payloads, size + 1, last, n)
    <3>1. Parsed(data, payloads, end(n), after[n], n)
      BY <2>9
    <3>2. end(n) = size + 1
      BY <1>4, <1>6 DEF HeaderSize
    <3> HIDE DEF end
    <3>3. QED
      BY <2>10, <3>1, <3>2
  <2>12. CASE len = size
    <3>1. /\ last.ok /\ last.next = len + 1 /\ Len(last.payloads) = n
          /\ \A k \in 1..n : last.payloads[k] = payloads[k]
      BY <1>3, <2>11, <2>12 DEF Parsed
    <3>2. last.payloads \in Seq(Text) /\ payloads \in Seq(Text) /\ Len(payloads) = n
      BY DEF Reading
    <3>3. last.payloads = payloads
      BY <3>1, <3>2, SeqEqual
    <3>4. QED
      BY <1>2, <1>3, <1>4, <2>6, <2>10, <2>12, <3>1, <3>3, Zenon
  <2>13. CASE len # size
    <3>1. last.ok => last.next # len + 1
      BY <2>11, <2>13 DEF Parsed
    <3>2. QED
      BY <1>2, <1>3, <1>4, <2>6, <2>10, <2>13, <3>1, Zenon
  <2>14. QED
    BY <2>12, <2>13
<1>9. QED
  BY <1>7, <1>8

----------------------------------------------------------------------------
(* What a read of a file that is being rewritten can take for a record *)

\* The cells of a text, put together one after the other.
LEMMA TextFlattens ==
  ASSUME NEW text \in Text
  PROVE  /\ Len(text) \in Nat /\ text \in [1..Len(text) -> Seq(Nat)] /\ AtLeast(1, text, Len(text))
         /\ \E flat \in [0..Len(text) -> Seq(Nat)] :
              Flattens(flat, text, Len(text)) /\ FlattenSeq(text) = flat[Len(text)]
<1>1. Len(text) \in Nat /\ text \in [1..Len(text) -> Seq(Nat)]
  BY DEF Text, Cell
<1>2. AtLeast(1, text, Len(text))
  <2>1. \A i \in 1..Len(text) : text[i] \in Cell
    BY DEF Text
  <2>2. \A cell \in Cell : 1 <= Len(cell)
    BY DEF Cell
  <2>3. QED
    BY <2>1, <2>2 DEF AtLeast
<1>3. QED
  BY <1>1, <1>2, Flattening

\* A text that goes on after another has more numbers.
LEMMA LongerFlat ==
  ASSUME NEW t \in Text, NEW u \in Text, Starts(t, u), Len(t) < Len(u)
  PROVE  FlattenSeq(t) # FlattenSeq(u)
<1>1. PICK m \in Nat, n \in Nat : m = Len(t) /\ n = Len(u)
  BY TextFlattens
<1>2. PICK f \in [0..m -> Seq(Nat)] : Flattens(f, t, m) /\ FlattenSeq(t) = f[m]
  BY <1>1, TextFlattens
<1>3. PICK g \in [0..n -> Seq(Nat)] : Flattens(g, u, n) /\ FlattenSeq(u) = g[n]
  BY <1>1, TextFlattens
<1>4. t \in [1..m -> Seq(Nat)] /\ u \in [1..n -> Seq(Nat)] /\ AtLeast(1, u, n)
  BY <1>1, TextFlattens
<1>5. m \in 0..m /\ m <= n /\ m < n /\ m \in 0..n /\ n \in m..n /\ SameUpTo(t, u, m)
  BY <1>1 DEF Starts, SameUpTo
<1>6. SameAt(f, g, m)
  BY <1>2, <1>3, <1>4, <1>5, FlatsAgree
<1>7. Leads(g[m], g[n], n - m)
  <2>1. Leads(g[m], g[n], (n - m) * 1)
    BY <1>3, <1>4, <1>5, FlatBegins
  <2>2. (n - m) * 1 = n - m
    OBVIOUS
  <2>3. QED
    BY <2>1, <2>2, Zenon
<1>8. PICK a \in Seq(Nat), b \in Seq(Nat) : a = g[m] /\ b = g[n]
  BY <1>5
<1>9. Len(a) + (n - m) <= Len(b) /\ Len(a) \in Nat /\ Len(b) \in Nat
  BY <1>7, <1>8 DEF Leads
<1>10. a # b
  BY <1>5, <1>9
<1>11. QED
  BY <1>2, <1>3, <1>6, <1>8, <1>10, Zenon DEF SameAt

\* Texts of one digest have the same numbers.
LEMMA DigestTells ==
  ASSUME NEW tag \in Nat, NEW t \in Text, NEW u \in Text, Digest(tag, t) = Digest(tag, u)
  PROVE  FlattenSeq(t) = FlattenSeq(u)
<1>1. PICK a \in Seq(Nat), b \in Seq(Nat) : a = FlattenSeq(t) /\ b = FlattenSeq(u)
  BY DigestIs
<1>2. <<tag, 0>> \o a = <<tag, 0>> \o b
  BY <1>1, Zenon DEF Digest
<1>3. PICK c \in Seq(Nat) : c = <<tag, 0>> /\ Len(c) = 2
  <2>1. <<tag, 0>> \in Seq(Nat) /\ Len(<<tag, 0>>) = 2
    OBVIOUS
  <2>2. QED
    BY <2>1, Zenon
<1>4. /\ Len(c \o a) = 2 + Len(a) /\ \A i \in 1..(2 + Len(a)) : (c \o a)[i] = IF i <= 2 THEN c[i] ELSE a[i - 2]
  BY <1>3, ConcatProperties
<1>5. /\ Len(c \o b) = 2 + Len(b) /\ \A i \in 1..(2 + Len(b)) : (c \o b)[i] = IF i <= 2 THEN c[i] ELSE b[i - 2]
  BY <1>3, ConcatProperties
<1>6. c \o a = c \o b
  BY <1>2, <1>3, Zenon
<1>7. Len(a) = Len(b) /\ Len(a) \in Nat
  BY <1>4, <1>5, <1>6
<1>8. \A i \in 1..Len(a) : a[i] = b[i]
  <2>1. TAKE i \in 1..Len(a)
  <2>2. i + 2 \in 1..(2 + Len(a)) /\ i + 2 \in 1..(2 + Len(b)) /\ ~(i + 2 <= 2) /\ (i + 2) - 2 = i
    BY <1>7
  <2>3. (c \o a)[i + 2] = a[i] /\ (c \o b)[i + 2] = b[i]
    BY <1>4, <1>5, <2>2
  <2>4. QED
    BY <1>6, <2>3
<1>9. a = b
  BY <1>7, <1>8, SeqEqual
<1>10. QED
  BY <1>1, <1>9

\* Payloads of which each cell is the same number, and not 0.
Plain == UNION {Seq({<<m>>}) : m \in Nat \ {0}}

\* The cells of files in which only records of some payloads are.
Proper(Q) ==
  {cell \in Cell : Len(cell) = 1 \/ (cell[2] = 0 /\ (cell[1] = 64 => \E q \in Q : cell = RecordId(q)))}

\* They are payloads, and a number is a cell of any file.
LEMMA PlainIs ==
  /\ Plain \subseteq Text
  /\ \A n \in Nat : \A Q : <<n>> \in Proper(Q)
  /\ \A Q : Proper(Q) \subseteq Cell
  /\ \A P, Q : P \subseteq Q => Proper(P) \subseteq Proper(Q)
<1>1. ASSUME NEW m \in Nat \ {0}
      PROVE  Seq({<<m>>}) \subseteq Text
  <2>1. {<<m>>} \subseteq Cell
    BY NumberInCell
  <2>2. QED
    BY <2>1 DEF Text
<1>2. ASSUME NEW n \in Nat, NEW Q
      PROVE  <<n>> \in Proper(Q)
  BY NumberInCell DEF Proper
<1>3. QED
  BY <1>1, <1>2 DEF Plain, Proper

\* The cells of what is written of some payloads.
LEMMA ProperFile ==
  ASSUME NEW kind \in Kinds, NEW Q, Q \subseteq Plain, NEW n \in Nat, NEW payloads \in [1..n -> Q]
  PROVE  WritePython(kind, payloads) \in Seq(Proper(Q))
<1> DEFINE P == Proper(Q)
<1>1. \A m \in Nat : <<m>> \in P
  BY PlainIs
<1>2. PackHeader(kind, n) \in Seq(P)
  <2>1. 10 + kind \in Nat /\ kind \in Nat
    BY DEF Kinds
  <2>2. PICK a, b, c, d, e, f : /\ a = Magic(kind) /\ b = <<Version>> /\ c = <<kind>> /\ d = <<HeaderSize>>
                                /\ e = <<0>> /\ f = <<n>>
    OBVIOUS
  <2>3. a \in P /\ b \in P /\ c \in P /\ d \in P /\ e \in P /\ f \in P
    BY <1>1, <2>1, <2>2 DEF Magic, Version, HeaderSize
  <2> HIDE DEF P
  <2>4. <<a, b, c, d, e, f, e>> \in Seq(P)
    BY <2>3
  <2>5. QED
    BY <2>2, <2>4 DEF PackHeader
<1>3. ASSUME NEW q \in Q
      PROVE  PackRecord(q) \in Seq(P)
  <2>1. q \in Text /\ q \in Seq(P)
    <3>1. PICK m \in Nat \ {0} : q \in Seq({<<m>>})
      BY DEF Plain
    <3>2. {<<m>>} \subseteq P
      BY <1>1
    <3> HIDE DEF P
    <3>3. QED
      BY <3>1, <3>2, PlainIs
  <2>2. PICK a, b, c, d : a = RecordId(q) /\ b = <<Len(q)>> /\ c = Crc(q) /\ d = <<0>>
    OBVIOUS
  <2>3. a \in Cell /\ a[2] = 0 /\ c \in Cell /\ c[2] = 0 /\ c[1] = 32
    BY <2>1, <2>2, DigestIs DEF RecordId, Crc
  <2>4. a \in P /\ c \in P
    BY <2>2, <2>3 DEF Proper
  <2>5. b \in P /\ d \in P
    <3>1. Len(q) \in Nat
      BY <2>1 DEF Text
    <3>2. QED
      BY <1>1, <2>2, <3>1
  <2> HIDE DEF P
  <2>6. <<a, b, c, d, d>> \in Seq(P)
    BY <2>4, <2>5
  <2>7. PICK header \in Seq(P) : header = <<a, b, c, d, d>>
    BY <2>6
  <2>8. header \o q \in Seq(P)
    BY <2>1, ConcatProperties
  <2>9. QED
    BY <2>2, <2>7, <2>8 DEF PackRecord
<1> HIDE DEF P
<1>4. Packed(payloads) \in [1..n -> Seq(P)]
  BY <1>3 DEF Packed
<1>5. PICK flat \in [0..n -> Seq(P)] : FlattenSeq(Packed(payloads)) = flat[n]
  BY <1>4, Flattening
<1>6. PICK a \in Seq(P), b \in Seq(P) : a = PackHeader(kind, n) /\ b = FlattenSeq(Packed(payloads))
  BY <1>2, <1>5
<1>7. a \o b \in Seq(P)
  BY ConcatProperties
<1>8. Len(payloads) = n
  OBVIOUS
<1>9. WritePython(kind, payloads) = a \o b
  BY <1>6, <1>8, Zenon DEF WritePython, Packed
<1>10. QED
  BY <1>7, <1>9 DEF P

\* A cell of a file is one number, or a digest.
LEMMA ProperIs ==
  \A Q : \A cell \in Proper(Q) :
    /\ cell \in Cell /\ (Len(cell) = 1 \/ cell[2] = 0)
    /\ cell[1] = 64 /\ Len(cell) # 1 => \E q \in Q : cell = RecordId(q)
<1> HIDE DEF Cell
<1>1. QED
  BY DEF Proper

LEMMA ProperDigest ==
  \A Q : \A cell \in Proper(Q) : cell[1] = 64 /\ Len(cell) # 1 => \E q \in Q : cell = RecordId(q)
<1> HIDE DEF Cell
<1>1. QED
  BY DEF Proper

\* No cells of files but those of a payload have its numbers, put together.
LEMMA SameNumbers ==
  ASSUME NEW q \in Plain, NEW Q, NEW t \in Seq(Proper(Q)), FlattenSeq(t) = FlattenSeq(q)
  PROVE  t = q
<1>1. PICK m \in Nat \ {0} : q \in Seq({<<m>>})
  BY DEF Plain
<1>2. q \in Text /\ t \in Text
  BY PlainIs DEF Text
<1>3. PICK n \in Nat : n = Len(t) /\ t \in [1..n -> Seq(Nat)]
  BY <1>2, TextFlattens
<1>4. PICK f \in [0..n -> Seq(Nat)] : Flattens(f, t, n) /\ FlattenSeq(t) = f[n]
  BY <1>2, <1>3, TextFlattens
<1>5. FlattenSeq(q) \in Seq({m})
  <2>1. PICK l \in Nat : q \in [1..l -> {<<m>>}]
    <3>1. \A S : \A s \in Seq(S) : \E l \in Nat : s \in [1..l -> S]
      OBVIOUS
    <3>2. QED
      BY <1>1, <3>1, Zenon
  <2>2. <<m>> \in Seq({m})
    OBVIOUS
  <2>3. q \in [1..l -> Seq({m})]
    <3>1. PICK numbers : numbers = Seq({m})
      OBVIOUS
    <3>2. {<<m>>} \subseteq numbers
      BY <2>2, <3>1
    <3>3. q \in [1..l -> numbers]
      BY <2>1, <3>2
    <3>4. QED
      BY <3>1, <3>3
  <2>4. PICK g \in [0..l -> Seq({m})] : FlattenSeq(q) = g[l]
    BY <2>1, <2>3, Flattening, Zenon
  <2>5. g[l] \in Seq({m})
    OBVIOUS
  <2>6. QED
    BY <2>4, <2>5, Zenon
<1>6. ASSUME NEW k \in 1..n
      PROVE  t[k] = <<m>>
  <2>1. PICK all \in Seq({m}) : all = f[n]
    <3>1. f[n] = FlattenSeq(q)
      BY <1>4, Zenon
    <3>2. f[n] \in Seq({m})
      BY <1>5, <3>1, Zenon
    <3>3. QED
      BY <3>2, Zenon
  <2>2. PICK before \in Seq(Nat), upto \in Seq(Nat) : before = f[k - 1] /\ upto = f[k]
    <3>1. k - 1 \in 0..n /\ k \in 0..n
      OBVIOUS
    <3>2. f[k - 1] \in Seq(Nat) /\ f[k] \in Seq(Nat)
      BY <3>1, Zenon
    <3>3. QED
      BY <3>2, Zenon
  <2>3. PICK cell \in Proper(Q) : cell = t[k]
    BY <1>3
  <2>4. /\ Len(upto) = Len(before) + Len(cell) /\ Len(upto) <= Len(all)
        /\ \A j \in 1..Len(cell) : all[Len(before) + j] = cell[j]
    <3>1. LiesIn(f, t, n, k)
      BY <1>3, <1>4, FlatHas
    <3>2. QED
      BY <2>1, <2>2, <2>3, <3>1, Zenon DEF LiesIn
  <2>5. cell \in Seq(Nat) /\ Len(cell) >= 1 /\ Len(cell) \in Nat
    BY DEF Proper, Cell
  <2>6. \A j \in 1..Len(cell) : cell[j] = m
    <3>1. TAKE j \in 1..Len(cell)
    <3>2. Len(before) \in Nat /\ Len(all) \in Nat /\ \A x \in 1..Len(all) : all[x] = m
      <4>1. \A S : \A s \in Seq(S) : Len(s) \in Nat /\ \A x \in 1..Len(s) : s[x] \in S
        OBVIOUS
      <4>2. Len(before) \in Nat /\ Len(all) \in Nat /\ \A x \in 1..Len(all) : all[x] \in {m}
        BY <4>1, Zenon
      <4>3. QED
        BY <4>2, Zenon
    <3>3. Len(before) + j \in 1..Len(all)
      <4>1. \A a, b, c \in Nat : a + b <= c => \A x \in 1..b : a + x \in 1..c
        OBVIOUS
      <4>2. Len(before) + Len(cell) <= Len(all)
        BY <2>4, Zenon
      <4>3. QED
        BY <2>5, <3>2, <4>1, <4>2, Zenon
    <3>4. all[Len(before) + j] = m
      BY <3>2, <3>3
    <3>5. QED
      BY <2>4, <3>4
  <2>7. Len(cell) = 1
    <3>1. CASE cell[2] = 0 /\ Len(cell) >= 2
      BY <2>5, <2>6, <3>1
    <3>2. Len(cell) = 1 \/ cell[2] = 0
      BY ProperIs, Zenon
    <3>3. \A a \in Nat : a >= 1 => a = 1 \/ a >= 2
      OBVIOUS
    <3>4. QED
      BY <2>5, <3>1, <3>2, <3>3, Zenon
  <2>8. PICK one \in Seq(Nat) : one = <<m>> /\ Len(one) = 1 /\ one[1] = m
    <3>1. <<m>> \in Seq(Nat) /\ Len(<<m>>) = 1 /\ <<m>>[1] = m
      OBVIOUS
    <3>2. QED
      BY <3>1, Zenon
  <2>9. cell = one
    BY <2>5, <2>6, <2>7, <2>8, SeqEqual
  <2>10. QED
    BY <2>3, <2>8, <2>9, Zenon
<1>7. PICK l \in Nat : l = Len(q) /\ \A k \in 1..l : q[k] = <<m>>
  <2>1. \A S : \A s \in Seq(S) : Len(s) \in Nat /\ \A k \in 1..Len(s) : s[k] \in S
    OBVIOUS
  <2>2. Len(q) \in Nat /\ \A k \in 1..Len(q) : q[k] \in {<<m>>}
    BY <1>1, <2>1, Zenon
  <2>3. \A k \in 1..Len(q) : q[k] = <<m>>
    BY <2>2, Zenon
  <2>4. QED
    BY <2>2, <2>3, Zenon
<1>8. PICK one : one = <<m>>
  OBVIOUS
<1>9. (\A k \in 1..n : t[k] = one) /\ \A k \in 1..l : q[k] = one
  BY <1>6, <1>7, <1>8, Zenon
<1>10. CASE n < l
  <2>1. Starts(t, q)
    BY <1>3, <1>7, <1>9, <1>10 DEF Starts
  <2>2. QED
    BY <1>2, <1>3, <1>7, <1>10, <2>1, LongerFlat
<1>11. CASE l < n
  <2>1. Starts(q, t)
    BY <1>3, <1>7, <1>9, <1>11 DEF Starts
  <2>2. QED
    BY <1>2, <1>3, <1>7, <1>11, <2>1, LongerFlat
<1>12. CASE l = n
  BY <1>2, <1>3, <1>7, <1>9, <1>12, SeqEqual DEF Text
<1>13. n < l \/ l < n \/ l = n
  OBVIOUS
<1>14. QED
  BY <1>10, <1>11, <1>12, <1>13, Zenon

(* What passes the checks of read_records for one record is a record that was
   written, of whichever files its cells are. *)
LEMMA RecordWasWritten ==
  ASSUME NEW Q, Q \subseteq Plain, NEW data \in Seq(Proper(Q)), NEW pos \in Nat \ {0}, RecordOk(data, pos)
  PROVE  PayloadAt(data, pos) \in Q
<1>1. data \in Text
  BY PlainIs DEF Text
<1>2. PICK size \in Nat, got \in Text :
        /\ size = Number(data[pos + 1]) /\ got = PayloadAt(data, pos) /\ Len(got) = size
        /\ PayloadEnd(data, pos) = pos + RecordHeaderSize + size /\ PayloadEnd(data, pos) <= Len(data) + 1
        /\ \A k \in 1..size : got[k] = data[pos + RecordHeaderSize + k - 1]
  BY <1>1, RecordReads
<1>3. PICK len \in Nat : len = Len(data) /\ \A i \in 1..len : data[i] \in Proper(Q)
  OBVIOUS
<1>4. got \in Seq(Proper(Q))
  <2>1. \A k \in 1..size : pos + RecordHeaderSize + k - 1 \in 1..len
    BY <1>2, <1>3 DEF RecordHeaderSize
  <2>2. \A k \in 1..size : got[k] \in Proper(Q)
    BY <1>2, <1>3, <2>1
  <2>3. got = [k \in 1..size |-> got[k]]
    BY <1>2 DEF Text
  <2>4. [k \in 1..size |-> got[k]] \in Seq(Proper(Q))
    BY <2>2
  <2>5. QED
    BY <2>3, <2>4
<1>5. PICK id \in Proper(Q) : id = data[pos] /\ id = RecordId(got)
  <2>1. pos \in 1..len
    BY <1>2, <1>3 DEF RecordHeaderSize
  <2>2. QED
    BY <1>2, <1>3, <2>1 DEF RecordOk
<1>6. id[1] = 64 /\ Len(id) # 1
  <2>1. 64 \in Nat
    OBVIOUS
  <2>2. id[1] = 64 /\ Len(id) >= 2
    <3>1. Digest(64, got)[1] = 64 /\ Len(Digest(64, got)) >= 2
      BY <2>1, DigestIs
    <3>2. id = Digest(64, got)
      BY <1>5, Zenon DEF RecordId
    <3>3. QED
      BY <3>1, <3>2, Zenon
  <2>3. \A n \in Nat : n >= 2 => n # 1
    OBVIOUS
  <2>4. Len(id) \in Nat
    BY <1>5, DigestIs DEF Proper, Cell
  <2>5. QED
    BY <2>2, <2>3, <2>4, Zenon
<1>7. PICK q \in Q : id = RecordId(q)
  <2>1. \A cell \in Proper(Q) : cell[1] = 64 /\ Len(cell) # 1 => \E q \in Q : cell = RecordId(q)
    BY ProperDigest
  <2>2. QED
    BY <1>6, <2>1, Zenon
<1>8. q \in Text /\ q \in Plain
  BY PlainIs
<1>9. FlattenSeq(got) = FlattenSeq(q)
  BY <1>5, <1>7, <1>8, DigestTells DEF RecordId
<1>10. QED
  BY <1>2, <1>4, <1>7, <1>8, <1>9, SameNumbers

(* What read_records returns of a file that was rewritten while it was read:
   records that were written, as many as the header that it got says. *)
LEMMA MixedRead ==
  ASSUME NEW Q, Q \subseteq Plain, NEW kind \in Kinds, NEW data \in Seq(Proper(Q)), ReadPython(data, kind).ok
  PROVE  /\ Len(data) >= HeaderSize
         /\ ReadPython(data, kind).payloads \in Seq(Q)
         /\ Len(ReadPython(data, kind).payloads) = Number(data[6])
<1>1. data \in Text
  BY PlainIs DEF Text
<1>2. PICK raw : raw = Cells(data, 1, HeaderSize)
  OBVIOUS
<1>3. HeaderOk(raw) /\ raw[3] = <<kind>>
  BY <1>2 DEF ReadPython, Failed
<1>4. Len(data) >= HeaderSize /\ raw[6] = data[6] /\ Number(data[6]) \in Nat
  BY <1>1, <1>2, <1>3, HeaderReads
<1>5. PICK count \in Nat : count = Number(data[6]) /\ count = Number(raw[6])
  BY <1>4
<1>6. PICK after \in [0..count -> Reading] :
        /\ after[0] = Begin /\ \A i \in 1..count : after[i] = PythonTurn(data, after[i - 1])
        /\ PythonRecords(data, count) = after[count]
  BY <1>1, PythonLoop
<1>7. PICK last \in Reading : last = after[count]
  BY <1>6
<1>8. last.ok /\ ReadPython(data, kind).payloads = last.payloads
  <2>1. ReadPython(data, kind) = IF last.ok /\ last.next = Len(data) + 1
                                 THEN [ok |-> TRUE, payloads |-> last.payloads] ELSE Failed
    BY <1>2, <1>3, <1>5, <1>6, <1>7, Zenon DEF ReadPython
  <2>2. ReadPython(data, kind) # Failed
    BY DEF Failed
  <2>3. ReadPython(data, kind) = [ok |-> TRUE, payloads |-> last.payloads] /\ last.ok
    BY <2>1, <2>2, Zenon
  <2>4. QED
    BY <2>3
<1> DEFINE T == {i \in 0..count : after[i].ok => after[i].payloads \in Seq(Q) /\ Len(after[i].payloads) = i}
<1>9. 0 \in T
  <2>1. after[0].payloads = << >>
    BY <1>6 DEF Begin
  <2>2. << >> \in Seq(Q) /\ Len(<< >>) = 0
    OBVIOUS
  <2>3. QED
    BY <2>1, <2>2
<1>10. ASSUME NEW i \in 0..(count - 1), i \in T
       PROVE  i + 1 \in T
  <2>1. i + 1 \in 1..count /\ i \in 0..count /\ (i + 1) - 1 = i
    OBVIOUS
  <2>2. PICK s \in Reading : s = after[i]
    BY <2>1
  <2>3. after[i + 1] = PythonTurn(data, s)
    BY <1>6, <2>1, <2>2
  <2>4. ASSUME after[i + 1].ok
        PROVE  after[i + 1].payloads \in Seq(Q) /\ Len(after[i + 1].payloads) = i + 1
    <3>1. s.ok /\ RecordOk(data, s.next) /\ after[i + 1] = Take(data, s)
      BY <1>1, <2>3, <2>4, PythonTook
    <3>2. s.next \in Nat \ {0}
      BY DEF Reading
    <3>3. PICK q \in Q : q = PayloadAt(data, s.next)
      BY <3>1, <3>2, RecordWasWritten
    <3>4. PICK p \in Seq(Q) : p = s.payloads /\ Len(p) = i
      BY <1>10, <2>2, <3>1
    <3>5. Append(p, q) \in Seq(Q) /\ Len(Append(p, q)) = i + 1
      BY <3>4, AppendProperties
    <3>6. QED
      BY <3>1, <3>3, <3>4, <3>5 DEF Take
  <2>5. QED
    BY <2>1, <2>4
<1>11. \A i \in 0..count : i \in T
  <2> HIDE DEF T
  <2>1. QED
    BY <1>9, <1>10, Induction
<1>12. last.payloads \in Seq(Q) /\ Len(last.payloads) = count
  <2>1. count \in T
    BY <1>11
  <2>2. QED
    BY <1>7, <1>8, <2>1
<1>13. QED
  BY <1>4, <1>5, <1>8, <1>12

(* A read at a place within a file returns cells of it, and of no other place. *)
LEMMA CellsFrom ==
  ASSUME NEW S, NEW data \in Seq(S), NEW first \in Nat \ {0}, NEW count \in Nat
  PROVE  /\ Cells(data, first, count) \in Seq(S)
         /\ \A k \in 1..Len(Cells(data, first, count)) :
              first + k - 1 \in 1..Len(data) /\ Cells(data, first, count)[k] = data[first + k - 1]
<1> DEFINE last == IF first + count - 1 <= Len(data) THEN first + count - 1 ELSE Len(data)
<1>1. Cells(data, first, count) = SubSeq(data, first, last)
  <2>1. first + count - 1 \in Int /\ Len(data) \in Int
    OBVIOUS
  <2>2. Min({first + count - 1, Len(data)}) = last
    BY <2>1, MinOfTwo
  <2>3. QED
    BY <2>2, Zenon DEF Cells
<1>2. last \in Int /\ last <= Len(data) /\ \A i \in first..last : data[i] \in S
  OBVIOUS
<1> HIDE DEF last
<1>3. /\ SubSeq(data, first, last) \in Seq(S)
      /\ Len(SubSeq(data, first, last)) = IF first <= last THEN last - first + 1 ELSE 0
      /\ \A i \in 1..(last - first + 1) : SubSeq(data, first, last)[i] = data[first + i - 1]
  BY <1>2, SubSeqProperties
<1>4. QED
  BY <1>1, <1>2, <1>3

----------------------------------------------------------------------------
(* The inductive invariant of the store *)

\* What a record may be: the payload of a row.
RowPayloads == {Payload(n) : n \in DOMAIN Rows}

\* The payloads in the versions of the file of a kind.
Recorded(kind) == {q \in RowPayloads : \E v \in versions[kind] : \E i \in DOMAIN v : q = v[i]}

Typed ==
  /\ files \in [Kinds -> Text] /\ writes \in 0..MaxWrites
  /\ begun \in [Kinds -> Seq(RowPayloads)] /\ versions \in [Kinds -> SUBSET Seq(RowPayloads)]
  /\ writer = Idle \/ writer \in [at : {"writing"}, kind : Kinds, data : Text]

\* A file is a start of the file of the payloads of the write begun last.
Written ==
  /\ \A kind \in Kinds :
       /\ Starts(files[kind], WritePython(kind, begun[kind]))
       /\ IF versions[kind] = {} THEN files[kind] = << >> ELSE begun[kind] \in versions[kind]
  /\ writer # Idle => /\ writer.data = WritePython(writer.kind, begun[writer.kind])
                      /\ versions[writer.kind] # {}

\* What a reader may have got of the file of a kind, when those of some kinds
\* were rewritten while it read them.
GotOf(kind, got, during) ==
  /\ got \in Seq(Proper(Recorded(kind)))
  /\ Len(got) >= 6 => \E v \in versions[kind] : got[6] = <<Len(v)>>
  /\ kind \notin during => Starts(got, WritePython(kind, begun[kind]))

\* And what read_records may have returned: records that were written, as many
\* as one version has, and just a version if the file was not rewritten.
ReadOf(kind, payloads, during) ==
  /\ payloads \in Seq(Recorded(kind))
  /\ \E v \in versions[kind] : Len(payloads) = Len(v)
  /\ kind \notin during => payloads \in versions[kind]

\* The kinds that are indexed.
FileKinds == {SeedKind, BridgeKind}

\* An index may be of what was read so.
IndexOf(payload, during) ==
  \E seeds, bridges : /\ ReadOf(SeedKind, seeds, during) /\ ReadOf(BridgeKind, bridges, during)
                     /\ payload = IndexPayload(seeds, bridges)

TornIndex(payload, cells) == [header |-> cells > 0, crc |-> payload, body |-> NoPayload, cells |-> cells]

ReadingOf(kind, got, seeds, during) ==
  /\ indexer = HasRead(kind, got, seeds, during)
  /\ GotOf(kind, got, during) /\ seeds \in Seq(RowPayloads)
  /\ kind = BridgeKind => ReadOf(SeedKind, seeds, during)

IndexingOf(payload, during) ==
  /\ indexer = [at |-> "index", payload |-> payload, raced |-> during]
  /\ IndexOf(payload, during)

Indexed ==
  /\ \/ indexer = Idle
     \/ \E kind \in FileKinds, during \in SUBSET FileKinds : \E got, seeds : ReadingOf(kind, got, seeds, during)
     \/ \E during \in SUBSET FileKinds : \E payload : IndexingOf(payload, during)
  /\ raced \subseteq FileKinds
  /\ \/ index = NoIndex
     \/ \E payload : IndexOf(payload, raced) /\ index = IndexFile(payload)
     \/ \E payload : \E cells \in 0..1 : index = TornIndex(payload, cells)

\* What the other callers make, of the files and the index as they are.
Copied ==
  \E kind \in Kinds : \E offset \in DOMAIN files[kind] :
    /\ Len(files[kind]) > HeaderSize + RecordHeaderSize
    /\ aside = [is |-> "copy", kind |-> kind, offset |-> offset, was |-> ReadPython(files[kind], kind),
                data |-> [files[kind] EXCEPT ![offset] = Flip(@)]]

IndexCopied == index.cells = 2 /\ aside = [is |-> "index", file |-> [index EXCEPT !.body = NoPayload]]

Encoded ==
  \E n \in DOMAIN Rows, trust \in Trusts, backend \in {"auto", "python", "rust", "none"}, available \in BOOLEAN :
    aside = [is |-> "record", n |-> n, available |-> available, backend |-> backend,
             got |-> EncodeRecord(Payload(n), backend, available),
             records |-> <<<<SeedKind, trust, Payload(n)>>, <<BridgeKind, trust, Payload(1)>>>>,
             batch |-> EncodeBatch(<<<<SeedKind, trust, Payload(n)>>, <<BridgeKind, trust, Payload(1)>>>>,
                                   backend, available)]

BrsFlipped(data, offset) == IF offset = 0 THEN data ELSE [data EXCEPT ![offset] = Flip(@)]

BrsEncoded ==
  \E n \in DOMAIN Rows, trust \in Trusts :
    \E offset \in 0..Len(BrsEncode(SeedKind, trust, Payload(1), Payload(n))) :
      aside = [is |-> "brs", n |-> n, trust |-> trust, offset |-> offset,
               data |-> BrsFlipped(BrsEncode(SeedKind, trust, Payload(1), Payload(n)), offset)]

Aside == aside = Nothing \/ Copied \/ IndexCopied \/ Encoded \/ BrsEncoded

StoreInv == Typed /\ Written /\ Indexed /\ Aside

\* The payloads of rows are texts, and a write is of such payloads.
LEMMA PayloadsAre ==
  /\ RowPayloads \subseteq Plain /\ RowPayloads \subseteq Text /\ Seq(RowPayloads) \subseteq Seq(Text)
  /\ \A n \in DOMAIN Rows : Payload(n) \in Text
  /\ 1 \in DOMAIN Rows
  /\ \A numbers \in Seq(1..Len(Rows)) : Payloads(numbers) \in Seq(RowPayloads)
  /\ \A write \in Writes : write[1] \in Kinds /\ write[2] \in Seq(1..Len(Rows))
<1>1. ASSUME NEW n \in DOMAIN Rows
      PROVE  Payload(n) \in Plain
  <2>1. n \in Nat \ {0} /\ Sizes[n] \in Nat
    BY BinaryStoreAssumption
  <2>2. Payload(n) = [i \in 1..Sizes[n] |-> <<n>>]
    BY DEF Payload
  <2>3. PICK m \in Nat : m = Sizes[n]
    BY <2>1
  <2>4. PICK x : x = <<n>>
    OBVIOUS
  <2>5. [i \in 1..m |-> x] \in Seq({x})
    OBVIOUS
  <2>6. Payload(n) \in Seq({<<n>>})
    BY <2>2, <2>3, <2>5, <2>4, Zenon
  <2>7. QED
    BY <2>1, <2>6 DEF Plain
<1>2. RowPayloads \subseteq Plain
  BY <1>1 DEF RowPayloads
<1>3. RowPayloads \subseteq Text
  BY <1>2, PlainIs
<1>4. Seq(RowPayloads) \subseteq Seq(Text)
  <2>1. \A A, B : A \subseteq B => Seq(A) \subseteq Seq(B)
    OBVIOUS
  <2>2. QED
    BY <1>3, <2>1, Zenon
<1>5. ASSUME NEW numbers \in Seq(1..Len(Rows))
      PROVE  Payloads(numbers) \in Seq(RowPayloads)
  <2>1. ASSUME NEW i \in DOMAIN numbers
        PROVE  Payload(numbers[i]) \in RowPayloads
    <3>1. numbers[i] \in DOMAIN Rows
      BY BinaryStoreAssumption
    <3>2. QED
      BY <3>1 DEF RowPayloads
  <2>2. DOMAIN numbers = 1..Len(numbers) /\ Len(numbers) \in Nat
    OBVIOUS
  <2> HIDE DEF RowPayloads
  <2>3. [i \in DOMAIN numbers |-> Payload(numbers[i])] \in Seq(RowPayloads)
    BY <2>1, <2>2
  <2>4. QED
    BY <2>3 DEF Payloads
<1>6. 1 \in DOMAIN Rows
  BY BinaryStoreAssumption
<1>7. \A write \in Writes : write[1] \in Kinds /\ write[2] \in Seq(1..Len(Rows))
  BY BinaryStoreAssumption
<1>8. \A n \in DOMAIN Rows : Payload(n) \in Text
  BY <1>1, PlainIs
<1>9. QED
  BY <1>2, <1>3, <1>4, <1>5, <1>6, <1>7, <1>8

\* The file of some payloads is a text, and never empty.
LEMMA WholeIs ==
  ASSUME NEW kind \in Kinds, NEW payloads \in Seq(Text)
  PROVE  /\ Len(payloads) \in Nat /\ payloads \in [1..Len(payloads) -> Text]
         /\ WritePython(kind, payloads) \in Text
         /\ Len(WritePython(kind, payloads)) >= HeaderSize
<1> HIDE DEF Text
<1>1. Len(payloads) \in Nat /\ payloads \in [1..Len(payloads) -> Text]
  OBVIOUS
<1>2. PICK flat \in [0..Len(payloads) -> Seq(Cell)] :
        /\ WritePython(kind, payloads) \in Text
        /\ Len(WritePython(kind, payloads)) = HeaderSize + Len(flat[Len(payloads)])
  BY <1>1, FileIs
<1>3. PICK last \in Seq(Cell) : last = flat[Len(payloads)]
  BY <1>1
<1>4. Len(last) >= 0
  OBVIOUS
<1>5. QED
  BY <1>1, <1>2, <1>3, <1>4 DEF HeaderSize

\* A flipped cell differs from the cell in its first number alone.
LEMMA FlipIs ==
  ASSUME NEW cell \in Cell
  PROVE  /\ Flip(cell) \in Cell /\ Len(Flip(cell)) = Len(cell)
         /\ Flip(cell)[1] = cell[1] + 100 /\ Flip(cell) # cell
         /\ \A k \in 2..Len(cell) : Flip(cell)[k] = cell[k]
<1>1. cell \in Seq(Nat) /\ cell # << >> /\ Len(cell) >= 1 /\ cell[1] \in Nat
  BY DEF Cell
<1>2. Flip(cell) = <<cell[1] + 100>> \o Tail(cell)
  BY DEF Flip
<1>3. Tail(cell) \in Seq(Nat) /\ Len(Tail(cell)) = Len(cell) - 1 /\ \A k \in 1..(Len(cell) - 1) : Tail(cell)[k] = cell[k + 1]
  BY <1>1
<1>4. Flip(cell) \in Seq(Nat) /\ Len(Flip(cell)) = Len(cell) /\ Flip(cell)[1] = cell[1] + 100
      /\ \A k \in 2..Len(cell) : Flip(cell)[k] = Tail(cell)[k - 1]
  BY <1>1, <1>2, <1>3
<1>5. Flip(cell) # << >> /\ Flip(cell) # cell
  BY <1>1, <1>4
<1>6. QED
  BY <1>1, <1>3, <1>4, <1>5 DEF Cell

\* The empty files are the start of any write.
LEMMA InitStoreInv == Init => StoreInv
<1> SUFFICES ASSUME Init PROVE StoreInv
  OBVIOUS
<1>1. << >> \in Text /\ << >> \in Seq(RowPayloads)
  BY DEF Text
<1>2. Typed
  <2> HIDE DEF Text, RowPayloads
  <2>1. QED
    BY <1>1, BinaryStoreAssumption DEF Init, Typed
<1>3. Written
  BY DEF Init, Written, Starts
<1>4. Indexed /\ Aside
  BY DEF Init, Indexed, Aside
<1>5. QED
  BY <1>2, <1>3, <1>4 DEF StoreInv

\* A file is read as the payloads of the write begun last, or is refused.
LEMMA FileReads ==
  ASSUME Typed, Written, NEW kind \in Kinds
  PROVE  /\ ReadPython(files[kind], kind).ok <=> /\ versions[kind] # {}
                                                 /\ Len(files[kind]) = Len(WritePython(kind, begun[kind]))
         /\ ReadPython(files[kind], kind).ok =>
              /\ ReadPython(files[kind], kind) = [ok |-> TRUE, payloads |-> begun[kind]]
              /\ begun[kind] \in versions[kind]
<1> HIDE DEF Text, RowPayloads
<1>1. files[kind] \in Text /\ begun[kind] \in Seq(Text)
  BY PayloadsAre DEF Typed
<1>2. PICK payloads \in Seq(Text) : payloads = begun[kind]
  BY <1>1
<1>3. Len(payloads) \in Nat /\ payloads \in [1..Len(payloads) -> Text] /\ Len(WritePython(kind, payloads)) >= HeaderSize
  BY WholeIs
<1>4. Starts(files[kind], WritePython(kind, payloads))
      /\ IF versions[kind] = {} THEN files[kind] = << >> ELSE begun[kind] \in versions[kind]
  BY <1>2 DEF Written
<1>5. ReadPython(files[kind], kind) = IF Len(files[kind]) = Len(WritePython(kind, payloads))
                                      THEN [ok |-> TRUE, payloads |-> payloads] ELSE Failed
  BY <1>1, <1>3, <1>4, StartReads
<1>6. Len(files[kind]) = Len(WritePython(kind, payloads)) => versions[kind] # {}
  <2>1. Len(<< >>) # Len(WritePython(kind, payloads))
    BY <1>3 DEF HeaderSize
  <2>2. QED
    BY <1>4, <2>1
<1>7. [ok |-> TRUE, payloads |-> payloads].ok /\ ~Failed.ok
  BY DEF Failed
<1>8. QED
  BY <1>2, <1>4, <1>5, <1>6, <1>7, Zenon

\* What was read stays what it is, when versions are added.
LEMMA ReadStays ==
  ASSUME \A k \in Kinds : versions[k] \subseteq versions'[k], NEW kind \in Kinds
  PROVE  /\ Recorded(kind) \subseteq Recorded(kind)'
         /\ \A payloads : \A during, more : ReadOf(kind, payloads, during) /\ during \subseteq more
                                            => ReadOf(kind, payloads, more)'
         /\ \A got, during, more : /\ GotOf(kind, got, during) /\ during \subseteq more
                                   /\ kind \in more \/ got = << >> \/ begun'[kind] = begun[kind]
                                   => GotOf(kind, got, more)'
<1> HIDE DEF RowPayloads
<1>1. versions[kind] \subseteq versions'[kind]
  OBVIOUS
<1>2. Recorded(kind) \subseteq Recorded(kind)'
  BY <1>1 DEF Recorded
<1>3. \A A, B : A \subseteq B => Seq(A) \subseteq Seq(B)
  OBVIOUS
<1> HIDE DEF Recorded
<1>4. ASSUME NEW payloads, NEW during, NEW more, ReadOf(kind, payloads, during), during \subseteq more
      PROVE  ReadOf(kind, payloads, more)'
  <2>1. payloads \in Seq(Recorded(kind)')
    BY <1>2, <1>3, <1>4, Zenon DEF ReadOf
  <2>2. QED
    BY <1>1, <1>4, <2>1, Zenon DEF ReadOf
<1>5. ASSUME NEW got, NEW during, NEW more, GotOf(kind, got, during), during \subseteq more,
             kind \in more \/ got = << >> \/ begun'[kind] = begun[kind]
      PROVE  GotOf(kind, got, more)'
  <2>1. Proper(Recorded(kind)) \subseteq Proper(Recorded(kind)')
    BY <1>2, PlainIs
  <2>2. got \in Seq(Proper(Recorded(kind)'))
    BY <1>3, <1>5, <2>1, Zenon DEF GotOf
  <2>3. Len(got) >= 6 => \E v \in versions'[kind] : got[6] = <<Len(v)>>
    BY <1>1, <1>5, Zenon DEF GotOf
  <2>4. ASSUME kind \notin more
        PROVE  Starts(got, WritePython(kind, begun'[kind]))
    <3>1. CASE got = << >>
      <4>1. Len(WritePython(kind, begun'[kind])) >= 0
        BY DEF WritePython
      <4>2. QED
        BY <3>1, <4>1 DEF Starts
    <3>2. CASE begun'[kind] = begun[kind]
      BY <1>5, <2>4, <3>2, Zenon DEF GotOf
    <3>3. QED
      BY <1>5, <2>4, <3>1, <3>2
  <2>5. QED
    BY <2>2, <2>3, <2>4, Zenon DEF GotOf
<1>6. QED
  BY <1>2, <1>4, <1>5, Zenon

\* So are the index and what it will be of.
LEMMA IndexStays ==
  ASSUME \A k \in Kinds : versions[k] \subseteq versions'[k]
  PROVE  \A payload, during : IndexOf(payload, during) => IndexOf(payload, during)'
<1>1. SeedKind \in Kinds /\ BridgeKind \in Kinds
  BY DEF SeedKind, BridgeKind, Kinds
<1>2. SUFFICES ASSUME NEW payload, NEW during, IndexOf(payload, during)
               PROVE  IndexOf(payload, during)'
  OBVIOUS
<1>3. PICK seeds, bridges : /\ ReadOf(SeedKind, seeds, during) /\ ReadOf(BridgeKind, bridges, during)
                            /\ payload = IndexPayload(seeds, bridges)
  BY <1>2 DEF IndexOf
<1>4. during \subseteq during
  OBVIOUS
<1>5. ReadOf(SeedKind, seeds, during)' /\ ReadOf(BridgeKind, bridges, during)'
  BY <1>1, <1>3, <1>4, ReadStays, Zenon
<1>6. QED
  BY <1>3, <1>5 DEF IndexOf

\* A write that begins changes of an indexer only that it knows of the race.
LEMMA IndexedRaced ==
  ASSUME Indexed, \A k \in Kinds : versions[k] \subseteq versions'[k],
         NEW kind \in Kinds, \A k \in Kinds : k # kind => begun'[k] = begun[k],
         UNCHANGED <<index, raced>>,
         indexer' = IF indexer.at = "reading" /\ indexer.kind = kind /\ indexer.got # << >>
                    THEN [indexer EXCEPT !.raced = @ \cup {kind}] ELSE indexer
  PROVE  Indexed'
<1>1. FileKinds \subseteq Kinds
  BY DEF FileKinds, SeedKind, BridgeKind, Kinds
<1>2. /\ raced' \subseteq FileKinds
      /\ \/ index' = NoIndex
         \/ \E payload : IndexOf(payload, raced)' /\ index' = IndexFile(payload)
         \/ \E payload : \E cells \in 0..1 : index' = TornIndex(payload, cells)
  BY IndexStays DEF Indexed
<1>3. CASE indexer = Idle
  <2>1. indexer' = Idle
    BY <1>3 DEF Idle
  <2>2. QED
    BY <1>2, <2>1 DEF Indexed
<1>4. ASSUME NEW during \in SUBSET FileKinds, NEW payload, IndexingOf(payload, during)
      PROVE  Indexed'
  <2>1. indexer' = indexer
    BY <1>4 DEF IndexingOf
  <2>2. IndexingOf(payload, during)'
    BY <1>4, <2>1, IndexStays DEF IndexingOf
  <2>3. QED
    BY <1>2, <2>2 DEF Indexed
<1>5. ASSUME NEW k \in FileKinds, NEW during \in SUBSET FileKinds, NEW got, NEW seeds, ReadingOf(k, got, seeds, during)
      PROVE  Indexed'
  <2>1. indexer = HasRead(k, got, seeds, during) /\ GotOf(k, got, during) /\ seeds \in Seq(RowPayloads)
        /\ (k = BridgeKind => ReadOf(SeedKind, seeds, during))
    BY <1>5 DEF ReadingOf
  <2>2. SeedKind \in Kinds /\ k \in Kinds
    BY <1>1 DEF FileKinds
  <2>3. indexer.at = "reading" /\ indexer.kind = k /\ indexer.got = got
    BY <2>1 DEF HasRead
  <2>4. PICK more \in SUBSET FileKinds :
          /\ during \subseteq more /\ indexer' = HasRead(k, got, seeds, more)
          /\ k \in more \/ got = << >> \/ begun'[k] = begun[k]
    <3>1. CASE k = kind /\ got # << >>
      <4>1. indexer' = HasRead(k, got, seeds, during \cup {kind})
        BY <2>1, <2>3, <3>1 DEF HasRead
      <4>2. during \cup {kind} \in SUBSET FileKinds
        BY <3>1
      <4>3. QED
        BY <3>1, <4>1, <4>2
    <3>2. CASE ~(k = kind /\ got # << >>)
      <4>1. indexer' = HasRead(k, got, seeds, during)
        BY <2>1, <2>3, <3>2
      <4>2. QED
        BY <2>2, <3>2, <4>1
    <3>3. QED
      BY <3>1, <3>2
  <2>5. GotOf(k, got, more)'
    BY <2>1, <2>2, <2>4, ReadStays, Zenon
  <2>6. k = BridgeKind => ReadOf(SeedKind, seeds, more)'
    BY <2>1, <2>2, <2>4, ReadStays, Zenon
  <2>7. ReadingOf(k, got, seeds, more)'
    BY <2>1, <2>4, <2>5, <2>6 DEF ReadingOf
  <2>8. QED
    BY <1>2, <2>7 DEF Indexed
<1>6. QED
  BY <1>3, <1>4, <1>5 DEF Indexed

\* Nothing of an indexer changes where no write begins.
LEMMA IndexedStays ==
  ASSUME Indexed, UNCHANGED <<indexer, index, begun, versions, raced>>
  PROVE  Indexed'
<1>1. \A kind : Recorded(kind)' = Recorded(kind)
  BY DEF Recorded
<1>2. /\ \A kind, payloads, during : ReadOf(kind, payloads, during)' <=> ReadOf(kind, payloads, during)
      /\ \A kind, got, during : GotOf(kind, got, during)' <=> GotOf(kind, got, during)
  <2> HIDE DEF Recorded
  <2>1. QED
    BY <1>1 DEF ReadOf, GotOf
<1>3. \A payload, during : IndexOf(payload, during)' <=> IndexOf(payload, during)
  BY <1>2 DEF IndexOf
<1>4. /\ \A kind, got, seeds, during : ReadingOf(kind, got, seeds, during)' <=> ReadingOf(kind, got, seeds, during)
      /\ \A payload, during : IndexingOf(payload, during)' <=> IndexingOf(payload, during)
  BY <1>2, <1>3 DEF ReadingOf, IndexingOf
<1>5. QED
  BY <1>3, <1>4 DEF Indexed

\* A write that begins: its file is emptied and its payloads are a version.
LEMMA BeginWriteStep ==
  ASSUME StoreInv, Write
  PROVE  StoreInv'
<1> HIDE DEF Text, RowPayloads
<1>1. PICK write \in Writes, rust \in BOOLEAN : BeginWrite(write[1], write[2], rust)
  BY DEF Write
<1>2. PICK kind \in Kinds, payloads \in Seq(RowPayloads) : kind = write[1] /\ payloads = Payloads(write[2])
  BY PayloadsAre
<1>3. BeginWrite(kind, write[2], rust)
  BY <1>1, <1>2
<1>4. /\ writes < MaxWrites /\ writes' = writes + 1
      /\ files' = [files EXCEPT ![kind] = << >>]
      /\ begun' = [begun EXCEPT ![kind] = payloads]
      /\ versions' = [versions EXCEPT ![kind] = @ \cup {payloads}]
      /\ writer' = [at |-> "writing", kind |-> kind, data |-> WriteRecords(kind, payloads, rust)]
      /\ aside' = Nothing /\ index' = index /\ raced' = raced
      /\ indexer' = IF indexer.at = "reading" /\ indexer.kind = kind /\ indexer.got # << >>
                    THEN [indexer EXCEPT !.raced = @ \cup {kind}] ELSE indexer
  BY <1>2, <1>3 DEF BeginWrite
<1>5. Typed /\ Written /\ Indexed
  BY DEF StoreInv
<1>6. Len(payloads) \in Nat /\ payloads \in [1..Len(payloads) -> Text] /\ WritePython(kind, payloads) \in Text
  BY PayloadsAre, WholeIs
<1>7. WriteRecords(kind, payloads, rust) = WritePython(kind, payloads)
  BY <1>6, WritersAgree
<1>8. Typed'
  <2>1. << >> \in Text
    BY DEF Text
  <2>2. /\ files' \in [Kinds -> Text] /\ begun' \in [Kinds -> Seq(RowPayloads)]
        /\ versions' \in [Kinds -> SUBSET Seq(RowPayloads)]
    BY <1>4, <1>5, <2>1 DEF Typed
  <2>3. writes' \in 0..MaxWrites
    BY <1>4, <1>5, BinaryStoreAssumption DEF Typed
  <2>4. writer' \in [at : {"writing"}, kind : Kinds, data : Text]
    BY <1>4, <1>6, <1>7
  <2>5. QED
    BY <2>2, <2>3, <2>4 DEF Typed
<1>9. Written'
  <2>1. ASSUME NEW k \in Kinds
        PROVE  /\ Starts(files'[k], WritePython(k, begun'[k]))
               /\ IF versions'[k] = {} THEN files'[k] = << >> ELSE begun'[k] \in versions'[k]
    <3>1. CASE k = kind
      <4>1. files'[k] = << >> /\ begun'[k] = payloads /\ versions'[k] = versions[k] \cup {payloads}
        BY <1>4, <1>5, <3>1 DEF Typed
      <4>2. Len(WritePython(kind, payloads)) \in Nat
        BY <1>6 DEF Text
      <4>3. QED
        BY <3>1, <4>1, <4>2 DEF Starts
    <3>2. CASE k # kind
      <4>1. files'[k] = files[k] /\ begun'[k] = begun[k] /\ versions'[k] = versions[k]
        BY <1>4, <1>5, <3>2 DEF Typed
      <4>2. QED
        BY <1>5, <4>1 DEF Written
    <3>3. QED
      BY <3>1, <3>2
  <2>2. /\ writer'.kind = kind /\ writer'.data = WritePython(kind, payloads)
        /\ begun'[kind] = payloads /\ versions'[kind] # {}
    BY <1>4, <1>5, <1>7 DEF Typed
  <2>3. QED
    BY <2>1, <2>2 DEF Written
<1>10. Indexed'
  <2>1. \A k \in Kinds : versions[k] \subseteq versions'[k]
    BY <1>4, <1>5 DEF Typed
  <2>2. \A k \in Kinds : k # kind => begun'[k] = begun[k]
    BY <1>4, <1>5 DEF Typed
  <2>3. QED
    BY <1>4, <1>5, <2>1, <2>2, IndexedRaced
<1>11. Aside'
  BY <1>4 DEF Aside, Nothing
<1>12. QED
  BY <1>8, <1>9, <1>10, <1>11 DEF StoreInv

\* One more cell of what is being written gets to the file.
LEMMA WriteSomeStep ==
  ASSUME StoreInv, WriteSome
  PROVE  StoreInv'
<1> HIDE DEF Text
<1>1. Typed /\ Written /\ Indexed
  BY DEF StoreInv
<1>2. writer # Idle /\ aside' = Nothing /\ UNCHANGED <<writer, writes, indexer, index, begun, versions, raced>>
  BY DEF WriteSome
<1>3. PICK kind \in Kinds : kind = writer.kind
  BY <1>1, <1>2 DEF Typed
<1>4. PICK data \in Text : data = files[kind]
  BY <1>1 DEF Typed
<1>5. PICK full \in Text : full = writer.data
  BY <1>1, <1>2 DEF Typed
<1>6. full = WritePython(kind, begun[kind]) /\ Starts(data, full) /\ versions[kind] # {}
  BY <1>1, <1>2, <1>3, <1>4, <1>5 DEF Written
<1>7. Len(data) < Len(full) /\ files' = [files EXCEPT ![kind] = Append(data, full[Len(data) + 1])]
  BY <1>1, <1>3, <1>4, <1>5 DEF WriteSome, Typed
<1>8. Append(data, full[Len(data) + 1]) \in Text /\ Starts(Append(data, full[Len(data) + 1]), full)
  <2> HIDE DEF Cell
  <2>1. data \in Seq(Cell) /\ full \in Seq(Cell)
    BY DEF Text
  <2>2. full[Len(data) + 1] \in Cell
    BY <1>7, <2>1
  <2>3. QED
    BY <1>6, <1>7, <2>1, <2>2 DEF Text, Starts
<1>9. Typed'
  BY <1>1, <1>2, <1>7, <1>8 DEF Typed
<1>10. Written'
  <2>1. ASSUME NEW k \in Kinds
        PROVE  /\ Starts(files'[k], WritePython(k, begun'[k]))
               /\ IF versions'[k] = {} THEN files'[k] = << >> ELSE begun'[k] \in versions'[k]
    <3>1. begun'[k] = begun[k] /\ versions'[k] = versions[k]
      BY <1>2
    <3>2. CASE k = kind
      <4>1. files'[k] = Append(data, full[Len(data) + 1])
        BY <1>1, <1>7, <3>2 DEF Typed
      <4>2. begun[k] \in versions[k]
        BY <1>1, <1>6, <3>2 DEF Written
      <4>3. QED
        BY <1>6, <1>8, <3>1, <3>2, <4>1, <4>2
    <3>3. CASE k # kind
      <4>1. files'[k] = files[k]
        BY <1>1, <1>7, <3>3 DEF Typed
      <4>2. QED
        BY <1>1, <3>1, <4>1 DEF Written
    <3>4. QED
      BY <3>2, <3>3
  <2>2. QED
    BY <1>1, <1>2, <2>1 DEF Written
<1>11. Indexed'
  BY <1>1, <1>2, IndexedStays
<1>12. Aside'
  BY <1>2 DEF Aside, Nothing
<1>13. QED
  BY <1>9, <1>10, <1>11, <1>12 DEF StoreInv

\* A writer that ends or dies leaves the file as it is.
LEMMA StopStep ==
  ASSUME StoreInv, EndWrite \/ CrashWriter
  PROVE  StoreInv'
<1>1. writer' = Idle /\ aside' = Nothing /\ UNCHANGED <<files, writes, indexer, index, begun, versions, raced>>
  BY DEF EndWrite, CrashWriter
<1>2. Typed'
  BY <1>1 DEF StoreInv, Typed
<1>3. Written'
  BY <1>1 DEF StoreInv, Written
<1>4. Indexed'
  BY <1>1, IndexedStays DEF StoreInv
<1>5. QED
  BY <1>1, <1>2, <1>3, <1>4 DEF StoreInv, Aside, Nothing

\* What is in a file as it stands: cells of the version begun last.
LEMMA FileHas ==
  ASSUME Typed, Written, NEW kind \in Kinds
  PROVE  /\ files[kind] \in Seq(Proper(Recorded(kind)))
         /\ Len(files[kind]) >= 6 => \E v \in versions[kind] : files[kind][6] = <<Len(v)>>
         /\ Starts(files[kind], WritePython(kind, begun[kind]))
         /\ Recorded(kind) \subseteq Plain
<1> HIDE DEF RowPayloads, Text
<1>1. Starts(files[kind], WritePython(kind, begun[kind]))
      /\ IF versions[kind] = {} THEN files[kind] = << >> ELSE begun[kind] \in versions[kind]
  BY DEF Written
<1>2. Recorded(kind) \subseteq Plain
  BY PayloadsAre DEF Recorded
<1>3. CASE files[kind] = << >>
  <2>1. << >> \in Seq(Proper(Recorded(kind))) /\ ~(Len(<< >>) >= 6)
    OBVIOUS
  <2>2. QED
    BY <1>1, <1>2, <1>3, <2>1
<1>4. CASE files[kind] # << >>
  <2>1. begun[kind] \in versions[kind] /\ begun[kind] \in Seq(RowPayloads) /\ files[kind] \in Text
    BY <1>1, <1>4 DEF Typed
  <2>2. PICK n \in Nat : \E payloads \in [1..n -> RowPayloads] : payloads = begun[kind] /\ n = Len(payloads)
    BY <2>1
  <2>3. PICK payloads \in [1..n -> RowPayloads] : payloads = begun[kind] /\ n = Len(payloads)
    BY <2>2
  <2>4. \A i \in 1..n : payloads[i] \in Recorded(kind)
    BY <2>1, <2>3 DEF Recorded
  <2>5. payloads \in [1..n -> Recorded(kind)] /\ payloads \in [1..n -> Text]
    BY <2>3, <2>4, PayloadsAre
  <2>6. PICK full : full = WritePython(kind, payloads) /\ full \in Seq(Proper(Recorded(kind)))
    BY <1>2, <2>5, ProperFile
  <2>7. PICK data \in Text : data = files[kind] /\ Starts(data, full)
    BY <1>1, <2>1, <2>3, <2>6
  <2>8. data \in Seq(Proper(Recorded(kind)))
    <3>1. PICK P : P = Proper(Recorded(kind))
      OBVIOUS
    <3>2. full \in Seq(P) /\ data \in Seq(Cell) /\ Len(data) <= Len(full) /\ \A k \in 1..Len(data) : data[k] = full[k]
      BY <2>6, <2>7, <3>1 DEF Starts, Text
    <3>3. \A k \in 1..Len(data) : data[k] \in P
      BY <3>2
    <3>4. data = [k \in 1..Len(data) |-> data[k]] /\ Len(data) \in Nat
      BY <3>2
    <3>5. [k \in 1..Len(data) |-> data[k]] \in Seq(P)
      BY <3>3, <3>4
    <3>6. QED
      BY <3>1, <3>4, <3>5
  <2>9. ASSUME Len(data) >= 6
        PROVE  data[6] = <<n>>
    <3>1. full \in Text /\ Len(full) >= HeaderSize
      BY <2>1, <2>3, <2>6, PayloadsAre, WholeIs
    <3>2. Starts(full, full)
      BY <3>1 DEF Starts, Text
    <3>3. full[6] = <<n>>
      BY <2>5, <2>6, <3>1, <3>2, HeaderLies
    <3>4. data[6] = full[6]
      BY <2>7, <2>9 DEF Starts, Text
    <3>5. QED
      BY <3>3, <3>4
  <2>10. QED
    BY <1>1, <1>2, <2>1, <2>3, <2>7, <2>8, <2>9
<1>5. QED
  BY <1>3, <1>4

\* One more read of a file as it is now.
LEMMA GotMore ==
  ASSUME Typed, Written, NEW kind \in Kinds, NEW got, NEW during, GotOf(kind, got, during)
  PROVE  GotOf(kind, got \o Cells(files[kind], Len(got) + 1, Buffer), during)
<1>1. PICK P : P = Proper(Recorded(kind))
  OBVIOUS
<1>2. PICK data \in Seq(P) : data = files[kind]
  BY <1>1, FileHas
<1>3. PICK old \in Seq(P) : old = got
  BY <1>1 DEF GotOf
<1>4. Len(old) \in Nat /\ Len(data) \in Nat /\ Buffer \in Nat
  BY BinaryStoreAssumption
<1>5. PICK some \in Seq(P) :
        /\ some = Cells(data, Len(old) + 1, Buffer)
        /\ \A k \in 1..Len(some) : Len(old) + 1 + k - 1 \in 1..Len(data) /\ some[k] = data[Len(old) + 1 + k - 1]
  <2>1. PICK first \in Nat \ {0} : first = Len(old) + 1
    BY <1>4
  <2>2. /\ Cells(data, first, Buffer) \in Seq(P)
        /\ \A k \in 1..Len(Cells(data, first, Buffer)) :
             first + k - 1 \in 1..Len(data) /\ Cells(data, first, Buffer)[k] = data[first + k - 1]
    BY <1>4, CellsFrom
  <2>3. QED
    BY <2>1, <2>2
<1>6. PICK more \in Seq(P) :
        /\ more = old \o some /\ Len(more) = Len(old) + Len(some)
        /\ \A k \in 1..(Len(old) + Len(some)) : more[k] = IF k <= Len(old) THEN old[k] ELSE some[k - Len(old)]
  <2>1. PICK both : both = old \o some
    OBVIOUS
  <2>2. /\ both \in Seq(P) /\ Len(both) = Len(old) + Len(some)
        /\ \A k \in 1..(Len(old) + Len(some)) : both[k] = IF k <= Len(old) THEN old[k] ELSE some[k - Len(old)]
    BY <2>1, ConcatProperties, Zenon
  <2>3. QED
    BY <2>1, <2>2, Zenon
<1>7. \A k \in 1..Len(more) : k > Len(old) => k \in 1..Len(data) /\ more[k] = data[k]
  <2>1. TAKE k \in 1..Len(more)
  <2>2. HAVE k > Len(old)
  <2>3. k - Len(old) \in 1..Len(some) /\ Len(old) + 1 + (k - Len(old)) - 1 = k
    BY <1>4, <1>6, <2>2
  <2>4. k \in 1..Len(data) /\ some[k - Len(old)] = data[k]
    BY <1>5, <2>3
  <2>5. QED
    BY <1>4, <1>6, <2>2, <2>4
<1>8. ASSUME Len(more) >= 6
      PROVE  \E v \in versions[kind] : more[6] = <<Len(v)>>
  <2>1. CASE Len(old) >= 6
    <3>1. more[6] = old[6]
      BY <1>4, <1>6, <2>1
    <3>2. QED
      BY <1>3, <2>1, <3>1 DEF GotOf
  <2>2. CASE ~(Len(old) >= 6)
    <3>1. 6 \in 1..Len(more) /\ 6 > Len(old)
      BY <1>4, <1>8, <2>2
    <3>2. 6 \in 1..Len(data) /\ more[6] = data[6]
      BY <1>7, <3>1
    <3>3. Len(data) >= 6
      BY <1>4, <3>2
    <3>4. QED
      BY <1>2, <3>2, <3>3, FileHas
  <2>3. QED
    BY <2>1, <2>2
<1>9. ASSUME kind \notin during
      PROVE  Starts(more, WritePython(kind, begun[kind]))
  <2>1. PICK full : full = WritePython(kind, begun[kind])
    OBVIOUS
  <2>2. Starts(old, full) /\ Starts(data, full)
    BY <1>2, <1>3, <1>9, <2>1, FileHas DEF GotOf
  <2>3. full \in Text
    BY <2>1, PayloadsAre, WholeIs DEF Typed
  <2>4. Len(full) \in Nat /\ Len(more) \in Nat
    BY <2>3 DEF Text
  <2>5. \A k \in 1..Len(more) : more[k] = full[k]
    <3>1. TAKE k \in 1..Len(more)
    <3>2. CASE k <= Len(old)
      BY <1>4, <1>6, <2>2, <3>2 DEF Starts
    <3>3. CASE k > Len(old)
      BY <1>7, <2>2, <3>3 DEF Starts
    <3>4. QED
      BY <1>4, <3>2, <3>3
  <2>6. Len(more) <= Len(full)
    <3>1. CASE Len(some) = 0
      BY <1>4, <1>6, <2>2, <3>1 DEF Starts
    <3>2. CASE Len(some) # 0
      <4>1. Len(some) \in Nat
        OBVIOUS
      <4>2. Len(more) \in 1..Len(more) /\ Len(more) > Len(old)
        BY <1>4, <1>6, <3>2, <4>1
      <4>3. Len(more) \in 1..Len(data)
        BY <1>7, <4>2
      <4>4. QED
        BY <1>4, <2>2, <2>4, <4>3 DEF Starts
    <3>3. QED
      BY <3>1, <3>2
  <2>7. QED
    BY <2>1, <2>5, <2>6 DEF Starts
<1>10. more = got \o Cells(files[kind], Len(got) + 1, Buffer)
  BY <1>2, <1>3, <1>5, <1>6
<1>11. GotOf(kind, more, during)
  BY <1>1, <1>8, <1>9 DEF GotOf
<1>12. QED
  BY <1>10, <1>11

\* What is read at the end of the file.
LEMMA ReadEnds ==
  ASSUME Typed, Written, NEW kind \in Kinds, NEW got, NEW during, GotOf(kind, got, during), ReadPython(got, kind).ok
  PROVE  ReadOf(kind, ReadPython(got, kind).payloads, during)
<1> HIDE DEF RowPayloads, Text
<1>1. PICK Q : Q = Recorded(kind) /\ Q \subseteq Plain
  BY FileHas
<1>2. PICK data \in Seq(Proper(Q)) : data = got
  BY <1>1 DEF GotOf
<1>3. PICK payloads : payloads = ReadPython(data, kind).payloads
  OBVIOUS
<1>4. Len(data) >= HeaderSize /\ payloads \in Seq(Q) /\ Len(payloads) = Number(data[6])
  BY <1>1, <1>2, <1>3, MixedRead
<1>5. PICK v \in versions[kind] : data[6] = <<Len(v)>>
  <2>1. Len(data) >= 6
    BY <1>4 DEF HeaderSize
  <2>2. QED
    BY <1>2, <2>1 DEF GotOf
<1>6. Len(payloads) = Len(v)
  BY <1>4, <1>5 DEF Number
<1>7. ASSUME kind \notin during
      PROVE  payloads \in versions[kind]
  <2>1. begun[kind] \in versions[kind]
    BY <1>5 DEF Written
  <2>2. begun[kind] \in Seq(RowPayloads)
    BY DEF Typed
  <2>3. PICK whole \in Seq(Text) : whole = begun[kind]
    BY <2>2, PayloadsAre
  <2>4. Len(whole) \in Nat /\ whole \in [1..Len(whole) -> Text]
    BY WholeIs
  <2>5. data \in Text
    BY PlainIs DEF Text
  <2>6. Starts(data, WritePython(kind, whole))
    BY <1>2, <1>7, <2>3 DEF GotOf
  <2>7. ReadPython(data, kind) = IF Len(data) = Len(WritePython(kind, whole))
                                 THEN [ok |-> TRUE, payloads |-> whole] ELSE Failed
    BY <2>4, <2>5, <2>6, StartReads
  <2>8. ReadPython(data, kind) = [ok |-> TRUE, payloads |-> whole]
    BY <1>2, <2>7 DEF Failed
  <2>9. QED
    BY <1>3, <2>1, <2>3, <2>8
<1>8. QED
  BY <1>1, <1>2, <1>3, <1>4, <1>6, <1>7 DEF ReadOf

\* A step of the indexer: what it reads is a version, or of versions, and what
\* it writes is an index of what it read.
LEMMA IndexerStep ==
  ASSUME StoreInv,
         BuildIndex \/ ReadSome \/ ReadSeeds \/ ReadBridges \/ ReadRaises \/ WriteIndex \/ CrashIndexer
  PROVE  StoreInv'
<1> HIDE DEF RowPayloads, Text
<1>1. Typed /\ Written /\ Indexed
  BY DEF StoreInv
<1>2. aside' = Nothing /\ UNCHANGED <<files, writer, writes, begun, versions>>
  BY DEF BuildIndex, ReadSome, ReadSeeds, ReadBridges, ReadRaises, WriteIndex, CrashIndexer
<1>3. Typed' /\ Written' /\ Aside'
  BY <1>1, <1>2 DEF Typed, Written, Aside, Nothing
<1>4. SeedKind \in Kinds /\ BridgeKind \in Kinds /\ SeedKind \in FileKinds /\ BridgeKind \in FileKinds
      /\ FileKinds \subseteq Kinds /\ SeedKind # BridgeKind
  BY DEF SeedKind, BridgeKind, Kinds, FileKinds
<1>5. \A kind : Recorded(kind)' = Recorded(kind)
  BY <1>2 DEF Recorded
<1> HIDE DEF Recorded
<1>6. /\ \A kind, payloads, during : ReadOf(kind, payloads, during)' <=> ReadOf(kind, payloads, during)
      /\ \A kind, got, during : GotOf(kind, got, during)' <=> GotOf(kind, got, during)
  BY <1>2, <1>5 DEF ReadOf, GotOf
<1>7. \A payload, during : IndexOf(payload, during)' <=> IndexOf(payload, during)
  BY <1>6 DEF IndexOf
<1>8. ASSUME index' = index, raced' = raced,
             \/ indexer' = Idle
             \/ \E kind \in FileKinds, during \in SUBSET FileKinds : \E got, seeds : ReadingOf(kind, got, seeds, during)'
      PROVE  Indexed'
  BY <1>1, <1>7, <1>8 DEF Indexed
<1>9. ASSUME Indexed' PROVE StoreInv'
  BY <1>3, <1>9 DEF StoreInv
<1>10. ASSUME indexer.at = "reading"
       PROVE  \E kind \in FileKinds, during \in SUBSET FileKinds : \E got, seeds : ReadingOf(kind, got, seeds, during)
  <2>1. indexer # Idle
    BY <1>10 DEF Idle
  <2>2. \A payload, during : ~IndexingOf(payload, during)
    BY <1>10 DEF IndexingOf
  <2>3. QED
    BY <1>1, <2>1, <2>2 DEF Indexed
<1>11. CASE BuildIndex
  <2>1. index' = index /\ raced' = raced /\ indexer' = HasRead(SeedKind, << >>, << >>, {})
    BY <1>11 DEF BuildIndex
  <2>2. << >> \in Seq(RowPayloads) /\ << >> \in Seq(Proper(Recorded(SeedKind))) /\ ~(Len(<< >>) >= 6)
    OBVIOUS
  <2>3. Starts(<< >>, WritePython(SeedKind, begun[SeedKind]))
    <3>1. WritePython(SeedKind, begun[SeedKind]) \in Text
      BY <1>1, <1>4, PayloadsAre, WholeIs DEF Typed
    <3>2. QED
      BY <3>1 DEF Starts, Text
  <2>4. GotOf(SeedKind, << >>, {})
    BY <2>2, <2>3 DEF GotOf
  <2>5. ReadingOf(SeedKind, << >>, << >>, {})'
    BY <1>4, <1>6, <2>1, <2>2, <2>4 DEF ReadingOf
  <2>6. {} \in SUBSET FileKinds
    OBVIOUS
  <2>7. QED
    BY <1>4, <1>8, <1>9, <2>1, <2>5, <2>6
<1>12. CASE ReadSome
  <2>1. indexer.at = "reading" /\ index' = index /\ raced' = raced
        /\ indexer' = [indexer EXCEPT !.got = @ \o Cells(files[indexer.kind], Len(@) + 1, Buffer)]
    BY <1>12 DEF ReadSome
  <2>2. PICK kind \in FileKinds, during \in SUBSET FileKinds : \E got, seeds : ReadingOf(kind, got, seeds, during)
    BY <1>10, <2>1
  <2>3. PICK got, seeds : ReadingOf(kind, got, seeds, during)
    BY <2>2
  <2>4. PICK more : more = got \o Cells(files[kind], Len(got) + 1, Buffer)
    OBVIOUS
  <2>5. indexer' = HasRead(kind, more, seeds, during)
    BY <2>1, <2>3, <2>4 DEF ReadingOf, HasRead
  <2>6. GotOf(kind, more, during)
    BY <1>1, <1>4, <2>3, <2>4, GotMore DEF ReadingOf
  <2>7. ReadingOf(kind, more, seeds, during)'
    BY <1>6, <2>3, <2>5, <2>6 DEF ReadingOf
  <2>8. QED
    BY <1>8, <1>9, <2>1, <2>7
<1>13. ASSUME NEW kind, AtEnd(kind), ReadPython(indexer.got, kind).ok
       PROVE  \E during \in SUBSET FileKinds :
                /\ during = indexer.raced
                /\ kind \in FileKinds /\ ReadOf(kind, ReadPython(indexer.got, kind).payloads, during)
                /\ kind = BridgeKind => ReadOf(SeedKind, indexer.seeds, during)
  <2>1. indexer.at = "reading" /\ indexer.kind = kind
    BY <1>13 DEF AtEnd
  <2>2. PICK k \in FileKinds, during \in SUBSET FileKinds : \E got, seeds : ReadingOf(k, got, seeds, during)
    BY <1>10, <2>1
  <2>3. PICK got, seeds : ReadingOf(k, got, seeds, during)
    BY <2>2
  <2>4. k = kind /\ indexer.got = got /\ indexer.seeds = seeds /\ indexer.raced = during
    BY <2>1, <2>3 DEF ReadingOf, HasRead
  <2>5. GotOf(kind, got, during) /\ (kind = BridgeKind => ReadOf(SeedKind, seeds, during))
    BY <2>3, <2>4 DEF ReadingOf
  <2>6. ReadOf(kind, ReadPython(got, kind).payloads, during)
    BY <1>1, <1>4, <1>13, <2>4, <2>5, ReadEnds
  <2>7. QED
    BY <2>4, <2>5, <2>6
<1>14. CASE ReadSeeds
  <2>1. PICK payloads : payloads = ReadPython(indexer.got, SeedKind).payloads
    OBVIOUS
  <2>2. /\ AtEnd(SeedKind) /\ ReadPython(indexer.got, SeedKind).ok /\ index' = index /\ raced' = raced
        /\ indexer' = HasRead(BridgeKind, << >>, payloads, indexer.raced)
    BY <1>14, <2>1 DEF ReadSeeds
  <2>3. PICK during \in SUBSET FileKinds : during = indexer.raced /\ ReadOf(SeedKind, payloads, during)
    BY <1>13, <2>1, <2>2
  <2>4. payloads \in Seq(RowPayloads)
    <3>1. Recorded(SeedKind) \subseteq RowPayloads
      BY DEF Recorded
    <3>2. \A A, B : A \subseteq B => Seq(A) \subseteq Seq(B)
      OBVIOUS
    <3>3. QED
      BY <2>3, <3>1, <3>2, Zenon DEF ReadOf
  <2>5. GotOf(BridgeKind, << >>, during)
    <3>1. WritePython(BridgeKind, begun[BridgeKind]) \in Text
      BY <1>1, <1>4, PayloadsAre, WholeIs DEF Typed
    <3>2. Starts(<< >>, WritePython(BridgeKind, begun[BridgeKind]))
      BY <3>1 DEF Starts, Text
    <3>3. << >> \in Seq(Proper(Recorded(BridgeKind))) /\ ~(Len(<< >>) >= 6)
      OBVIOUS
    <3>4. QED
      BY <3>2, <3>3 DEF GotOf
  <2>6. ReadingOf(BridgeKind, << >>, payloads, during)'
    BY <1>6, <2>2, <2>3, <2>4, <2>5 DEF ReadingOf
  <2>7. QED
    BY <1>4, <1>8, <1>9, <2>2, <2>6
<1>15. CASE ReadBridges
  <2>1. PICK payloads, seeds : payloads = ReadPython(indexer.got, BridgeKind).payloads /\ seeds = indexer.seeds
    OBVIOUS
  <2>2. /\ AtEnd(BridgeKind) /\ ReadPython(indexer.got, BridgeKind).ok /\ index' = NoIndex /\ raced' = raced
        /\ indexer' = [at |-> "index", payload |-> IndexPayload(seeds, payloads), raced |-> indexer.raced]
    BY <1>15, <2>1 DEF ReadBridges
  <2>3. PICK during \in SUBSET FileKinds :
          during = indexer.raced /\ ReadOf(BridgeKind, payloads, during) /\ ReadOf(SeedKind, seeds, during)
    BY <1>13, <2>1, <2>2
  <2>4. IndexingOf(IndexPayload(seeds, payloads), during)'
    BY <1>7, <2>2, <2>3 DEF IndexingOf, IndexOf
  <2>5. Indexed'
    BY <1>1, <2>2, <2>4 DEF Indexed
  <2>6. QED
    BY <1>9, <2>5
<1>16. CASE ReadRaises
  <2>1. indexer' = Idle /\ index' = index /\ raced' = raced
    BY <1>16 DEF ReadRaises
  <2>2. QED
    BY <1>8, <1>9, <2>1
<1>17. CASE WriteIndex \/ CrashIndexer
  <2>1. PICK during \in SUBSET FileKinds : \E payload : IndexingOf(payload, during)
    <3>1. indexer.at = "index"
      BY <1>17 DEF WriteIndex, CrashIndexer
    <3>2. indexer # Idle /\ \A kind, got, seeds, during : ~ReadingOf(kind, got, seeds, during)
      BY <3>1 DEF Idle, ReadingOf, HasRead
    <3>3. QED
      BY <1>1, <3>2 DEF Indexed
  <2>2. PICK payload : IndexingOf(payload, during)
    BY <2>1
  <2>3. indexer.payload = payload /\ indexer.raced = during /\ IndexOf(payload, during)
    BY <2>2 DEF IndexingOf
  <2>4. CASE WriteIndex
    <3>1. indexer' = Idle /\ index' = IndexFile(payload) /\ raced' = during
      BY <2>3, <2>4 DEF WriteIndex
    <3>2. IndexOf(payload, raced)'
      BY <1>5, <1>2, <2>3, <3>1 DEF IndexOf, ReadOf
    <3>3. Indexed'
      BY <3>1, <3>2 DEF Indexed
    <3>4. QED
      BY <1>9, <3>3
  <2>5. CASE CrashIndexer
    <3>1. PICK cells \in 0..1 :
            index' = [IndexFile(payload) EXCEPT !.header = (cells > 0), !.cells = cells, !.body = NoPayload]
      BY <2>3, <2>5 DEF CrashIndexer
    <3>2. index' = TornIndex(payload, cells)
      BY <3>1 DEF IndexFile, TornIndex
    <3>3. indexer' = Idle /\ raced' = raced
      BY <2>5 DEF CrashIndexer
    <3>4. Indexed'
      BY <1>1, <3>2, <3>3 DEF Indexed
    <3>5. QED
      BY <1>9, <3>4
  <2>6. QED
    BY <1>17, <2>4, <2>5
<1>18. QED
  BY <1>11, <1>12, <1>14, <1>15, <1>16, <1>17

\* A step of another caller, whose outcome is of the files as they are.
LEMMA OtherStep ==
  ASSUME StoreInv, Other
  PROVE  StoreInv'
<1>1. UNCHANGED <<files, writer, writes, indexer, index, begun, versions, raced>>
  BY DEF Other, CorruptCopy, CorruptIndexCopy, Encode, EncodeBrs
<1>2. Typed' /\ Written' /\ Indexed'
  <2>1. Typed' /\ Written'
    BY <1>1 DEF StoreInv, Typed, Written
  <2>2. QED
    BY <1>1, <2>1, IndexedStays DEF StoreInv
<1>3. Aside'
  <2>1. ASSUME NEW kind \in Kinds, NEW offset \in 1..30, CorruptCopy(kind, offset)
        PROVE  Copied'
    BY <1>1, <2>1 DEF Copied, CorruptCopy
  <2>2. ASSUME CorruptIndexCopy
        PROVE  IndexCopied'
    BY <1>1, <2>2 DEF IndexCopied, CorruptIndexCopy
  <2>3. ASSUME NEW n \in DOMAIN Rows, NEW trust \in Trusts, NEW backend \in {"auto", "python", "rust", "none"},
               NEW available \in BOOLEAN, Encode(n, trust, backend, available)
        PROVE  Encoded'
    BY <2>3 DEF Encoded, Encode
  <2>4. ASSUME NEW n \in DOMAIN Rows, NEW trust \in Trusts, NEW offset \in 0..12, EncodeBrs(n, trust, offset)
        PROVE  BrsEncoded'
    BY <2>4 DEF BrsEncoded, EncodeBrs, BrsFlipped
  <2>5. QED
    BY <2>1, <2>2, <2>3, <2>4 DEF Other, Aside
<1>4. QED
  BY <1>2, <1>3 DEF StoreInv

\* Every step keeps the invariant.
LEMMA NextStoreInv == StoreInv /\ [Next]_vars => StoreInv'
<1> SUFFICES ASSUME StoreInv, [Next]_vars PROVE StoreInv'
  OBVIOUS
<1>1. CASE UNCHANGED vars
  <2>1. UNCHANGED <<files, writer, writes, indexer, index, aside, begun, versions, raced>>
    BY <1>1 DEF vars
  <2>2. Typed' /\ Written'
    BY <2>1 DEF StoreInv, Typed, Written
  <2>3. Indexed'
    BY <2>1, IndexedStays DEF StoreInv
  <2>4. Copied <=> Copied'
    BY <2>1 DEF Copied
  <2>5. IndexCopied <=> IndexCopied'
    BY <2>1 DEF IndexCopied
  <2>6. Encoded <=> Encoded'
    BY <2>1 DEF Encoded
  <2>7. BrsEncoded <=> BrsEncoded'
    BY <2>1 DEF BrsEncoded
  <2>8. QED
    BY <2>1, <2>2, <2>3, <2>4, <2>5, <2>6, <2>7 DEF StoreInv, Aside
<1>2. CASE Next
  BY <1>2, BeginWriteStep, WriteSomeStep, StopStep, IndexerStep, OtherStep DEF Next
<1>3. QED
  BY <1>1, <1>2

(* In every state that writers, indexers and their crashes can reach, a file is
   the start of what was last written to it, what an indexer has got of a file
   are cells of records that were written to it, an index is, whole or torn, of
   whole records that were written, and of one version of each file that was not
   rewritten while it was read, and what another caller made is of the files as
   they are: the inductive invariant of the theorems that follow. *)
THEOREM StoreInvariant == Spec => []StoreInv
<1>1. QED
  BY InitStoreInv, NextStoreInv, PTL DEF Spec

----------------------------------------------------------------------------
(* The index *)

IndexRows(seeds, bridges) == Entries(BridgeKind, bridges) \o Entries(SeedKind, seeds)

\* Two sequences are the two parts of them put together.
LEMMA PartsAre ==
  ASSUME NEW S, NEW a \in Seq(S), NEW b \in Seq(S)
  PROVE  SubSeq(a \o b, 1, Len(a)) = a /\ SubSeq(a \o b, Len(a) + 1, Len(a \o b)) = b
<1>1. PICK m \in Nat, n \in Nat : m = Len(a) /\ n = Len(b)
  OBVIOUS
<1>2. PICK c \in Seq(S) : /\ c = a \o b /\ Len(c) = m + n
                          /\ \A i \in 1..(m + n) : c[i] = IF i <= m THEN a[i] ELSE b[i - m]
  <2>1. PICK both : both = a \o b
    OBVIOUS
  <2>2. /\ both \in Seq(S) /\ Len(both) = Len(a) + Len(b)
        /\ \A i \in 1..(Len(a) + Len(b)) : both[i] = IF i <= Len(a) THEN a[i] ELSE b[i - Len(a)]
    BY <2>1, ConcatProperties, Zenon
  <2>3. QED
    BY <1>1, <2>1, <2>2, Zenon
<1>3. \A i \in 1..(m + n) : c[i] \in S
  BY <1>2
<1>4. ASSUME NEW first \in Int, NEW last \in Int, \A i \in first..last : c[i] \in S
      PROVE  /\ SubSeq(c, first, last) \in Seq(S)
             /\ Len(SubSeq(c, first, last)) = IF first <= last THEN last - first + 1 ELSE 0
             /\ \A i \in 1..(last - first + 1) : SubSeq(c, first, last)[i] = c[first + i - 1]
  BY <1>4, SubSeqProperties
<1>5. SubSeq(c, 1, m) = a
  <2>1. PICK first \in Int : first = 1
    OBVIOUS
  <2>2. \A i \in first..m : c[i] \in S
    BY <1>3, <2>1
  <2>3. /\ SubSeq(c, first, m) \in Seq(S) /\ Len(SubSeq(c, first, m)) = IF first <= m THEN m - first + 1 ELSE 0
        /\ \A i \in 1..(m - first + 1) : SubSeq(c, first, m)[i] = c[first + i - 1]
    BY <1>4, <2>2
  <2>4. PICK part \in Seq(S) : part = SubSeq(c, first, m)
    BY <2>3
  <2>5. part = SubSeq(c, 1, m) /\ Len(part) = m /\ \A i \in 1..m : part[i] = c[i]
    BY <2>1, <2>3, <2>4
  <2>6. \A i \in 1..m : c[i] = a[i]
    BY <1>2
  <2>7. Len(part) = Len(a) /\ \A i \in 1..Len(part) : part[i] = a[i]
    BY <1>1, <2>5, <2>6
  <2>8. part = a
    BY <2>7, SeqEqual
  <2>9. QED
    BY <2>5, <2>8
<1>6. SubSeq(c, m + 1, m + n) = b
  <2>1. PICK first \in Nat, last \in Nat : first = m + 1 /\ last = m + n
    OBVIOUS
  <2>2. \A i \in first..last : c[i] \in S
    BY <1>3, <2>1
  <2>3. /\ SubSeq(c, first, last) \in Seq(S)
        /\ Len(SubSeq(c, first, last)) = IF first <= last THEN last - first + 1 ELSE 0
        /\ \A i \in 1..(last - first + 1) : SubSeq(c, first, last)[i] = c[first + i - 1]
    BY <1>4, <2>2
  <2>4. PICK part \in Seq(S) : part = SubSeq(c, first, last)
    BY <2>3
  <2>5. Len(part) = n /\ \A i \in 1..n : part[i] = c[m + i]
    BY <2>1, <2>3, <2>4
  <2>6. \A i \in 1..n : c[m + i] = b[i]
    <3>1. \A i \in 1..n : m + i \in 1..(m + n) /\ ~(m + i <= m) /\ (m + i) - m = i
      OBVIOUS
    <3>2. QED
      BY <1>2, <3>1
  <2>7. Len(part) = Len(b) /\ \A i \in 1..Len(part) : part[i] = b[i]
    BY <1>1, <2>5, <2>6
  <2>8. part = b
    BY <2>7, SeqEqual
  <2>9. QED
    BY <2>1, <2>8, <2>4
<1>7. QED
  BY <1>1, <1>2, <1>5, <1>6

\* The rows of an index are of the bridges and then of the seeds.
LEMMA RowsAre ==
  ASSUME NEW seeds \in Seq(Text), NEW bridges \in Seq(Text)
  PROVE  /\ IndexPayload(seeds, bridges) = [count |-> Len(IndexRows(seeds, bridges)),
                                            records |-> IndexRows(seeds, bridges),
                                            lookups |-> Positions(IndexRows(seeds, bridges))]
         /\ \E S : IndexRows(seeds, bridges) \in Seq(S)
         /\ Len(bridges) \in 0..Len(IndexRows(seeds, bridges))
         /\ RowsOf(BridgeKind, IndexRows(seeds, bridges), Len(bridges)) = Entries(BridgeKind, bridges)
         /\ RowsOf(SeedKind, IndexRows(seeds, bridges), Len(bridges)) = Entries(SeedKind, seeds)
<1> HIDE DEF Text
<1> DEFINE S == {Entry(BridgeKind, i, bridges[i]) : i \in DOMAIN bridges}
                \cup {Entry(SeedKind, i, seeds[i]) : i \in DOMAIN seeds}
<1>1. Len(bridges) \in Nat /\ Len(seeds) \in Nat /\ SeedKind # BridgeKind
  BY DEF SeedKind, BridgeKind
<1>2. Entries(BridgeKind, bridges) \in [1..Len(bridges) -> S] /\ Entries(SeedKind, seeds) \in [1..Len(seeds) -> S]
  BY DEF Entries
<1> HIDE DEF S
<1>3. \A n \in Nat : \A f \in [1..n -> S] : f \in Seq(S) /\ Len(f) = n
  OBVIOUS
<1>4. PICK b \in Seq(S), s \in Seq(S) :
        b = Entries(BridgeKind, bridges) /\ s = Entries(SeedKind, seeds) /\ Len(b) = Len(bridges)
  BY <1>1, <1>2, <1>3
<1>5. b \o s \in Seq(S) /\ Len(b \o s) = Len(b) + Len(s)
  BY ConcatProperties
<1>6. Len(b) \in 0..Len(b \o s)
  BY <1>5
<1>7. SubSeq(b \o s, 1, Len(b)) = b /\ SubSeq(b \o s, Len(b) + 1, Len(b \o s)) = s
  BY PartsAre
<1>8. IndexRows(seeds, bridges) = b \o s
  BY <1>4, Zenon DEF IndexRows
<1>9. IndexPayload(seeds, bridges) = [count |-> Len(b \o s), records |-> b \o s, lookups |-> Positions(b \o s)]
  <2>1. IndexRows(seeds, bridges) = [i \in DOMAIN bridges |-> Entry(BridgeKind, i, bridges[i])]
                                   \o [i \in DOMAIN seeds |-> Entry(SeedKind, i, seeds[i])]
    BY DEF IndexRows, Entries
  <2>2. QED
    BY <1>8, <2>1, Zenon DEF IndexPayload
<1>10. QED
  BY <1>1, <1>4, <1>5, <1>6, <1>7, <1>8, <1>9, Zenon DEF RowsOf

Keyed(rows, field) == {i \in DOMAIN rows : ~(field = "relation" /\ rows[i].relation = "")}

Finds(rows, field, key) ==
  [n \in DOMAIN Positions(rows)[field][key] |-> rows[Positions(rows)[field][key][n] + 1]]
    = Sublist(rows, {i \in Keyed(rows, field) : rows[i][field] = key})

\* The positions under a key of a field are those of the rows that have it, in their order.
LEMMA PositionsAre ==
  ASSUME NEW S, NEW rows \in Seq(S), NEW field \in LookupFields
  PROVE  /\ DOMAIN Positions(rows)[field] = {rows[i][field] : i \in Keyed(rows, field)}
         /\ \A key \in DOMAIN Positions(rows)[field] :
              Positions(rows)[field][key] \in Seq(0..(Len(rows) - 1)) /\ Finds(rows, field, key)
<1> DEFINE at == [i \in DOMAIN rows |-> i - 1]
           having(key) == {i \in Keyed(rows, field) : rows[i][field] = key}
           R == {<<rows[i], i - 1>> : i \in 1..Len(rows)}
<1>1. Positions(rows)[field] = [key \in {rows[i][field] : i \in Keyed(rows, field)} |-> Sublist(at, having(key))]
  BY DEF Positions, PositionsBy, Keyed
<1>2. at \in Seq(0..(Len(rows) - 1)) /\ Len(at) = Len(rows) /\ \A i \in 1..Len(rows) : at[i] = i - 1
  <2>1. DOMAIN rows = 1..Len(rows) /\ Len(rows) \in Nat
    OBVIOUS
  <2>2. at \in [1..Len(rows) -> 0..(Len(rows) - 1)]
    BY <2>1
  <2>3. QED
    BY <2>1, <2>2
<1>3. ASSUME NEW key
      PROVE  /\ Sublist(at, having(key)) \in Seq(0..(Len(rows) - 1))
             /\ [n \in DOMAIN Sublist(at, having(key)) |-> rows[Sublist(at, having(key))[n] + 1]]
                  = Sublist(rows, having(key))
  <2>1. \A i \in 1..Len(rows) : i \in having(key) => <<rows[i], at[i]>> \in R
    BY <1>2
  <2> HIDE DEF at, having, R
  <2>2. PICK part \in Seq(0..(Len(rows) - 1)) : part = Sublist(at, having(key))
    BY <1>2, SublistHas
  <2>3. PICK found \in Seq(S) : found = Sublist(rows, having(key))
    BY SublistHas
  <2>4. Len(part) = Len(found) /\ \A k \in 1..Len(found) : <<found[k], part[k]>> \in R
    <3>1. \A i \in 1..Len(rows) : i \in having(key) => <<rows[i], at[i]>> \in R
      BY <2>1
    <3>2. /\ Len(Sublist(at, having(key))) = Len(Sublist(rows, having(key)))
          /\ \A k \in 1..Len(Sublist(rows, having(key))) :
               <<Sublist(rows, having(key))[k], Sublist(at, having(key))[k]>> \in R
      BY <1>2, <3>1, SublistsCorrespond, Zenon
    <3>3. QED
      BY <2>2, <2>3, <3>2, Zenon
  <2>5. \A k \in 1..Len(found) : found[k] = rows[part[k] + 1]
    <3>1. TAKE k \in 1..Len(found)
    <3>2. PICK i \in 1..Len(rows) : <<found[k], part[k]>> = <<rows[i], i - 1>>
      BY <2>4 DEF R
    <3>3. found[k] = rows[i] /\ part[k] + 1 = i
      BY <3>2
    <3>4. QED
      BY <3>3
  <2>6. [n \in DOMAIN part |-> rows[part[n] + 1]] = found
    BY <2>4, <2>5
  <2>7. QED
    BY <2>2, <2>3, <2>6
<1> HIDE DEF at
<1>4. \A key \in {rows[i][field] : i \in Keyed(rows, field)} : Positions(rows)[field][key] = Sublist(at, having(key))
  BY <1>1
<1>5. DOMAIN Positions(rows)[field] = {rows[i][field] : i \in Keyed(rows, field)}
  BY <1>1
<1>6. QED
  <2> SUFFICES ASSUME NEW key \in DOMAIN Positions(rows)[field]
               PROVE  /\ Positions(rows)[field][key] \in Seq(0..(Len(rows) - 1))
                      /\ [n \in DOMAIN Positions(rows)[field][key] |-> rows[Positions(rows)[field][key][n] + 1]]
                           = Sublist(rows, having(key))
    BY <1>5 DEF Finds
  <2> HIDE DEF having, R
  <2>1. Positions(rows)[field][key] = Sublist(at, having(key))
    BY <1>4, <1>5
  <2>2. QED
    BY <1>3, <2>1

\* What an index is of are texts.
LEMMA IndexOfTexts ==
  ASSUME NEW payload, NEW during, IndexOf(payload, during)
  PROVE  \E seeds \in Seq(Text), bridges \in Seq(Text) :
           /\ ReadOf(SeedKind, seeds, during) /\ ReadOf(BridgeKind, bridges, during)
           /\ payload = IndexPayload(seeds, bridges)
<1> HIDE DEF Text, RowPayloads
<1>1. PICK seeds, bridges : /\ ReadOf(SeedKind, seeds, during) /\ ReadOf(BridgeKind, bridges, during)
                            /\ payload = IndexPayload(seeds, bridges)
  BY DEF IndexOf
<1>2. \A kind : Recorded(kind) \subseteq Text
  BY PayloadsAre DEF Recorded
<1>3. \A A, B : A \subseteq B => Seq(A) \subseteq Seq(B)
  OBVIOUS
<1>4. seeds \in Seq(Text) /\ bridges \in Seq(Text)
  BY <1>1, <1>2, <1>3, Zenon DEF ReadOf
<1>5. QED
  BY <1>1, <1>4

\* An index that verifies is a whole one, of what was read of the files.
LEMMA IndexVerifies ==
  ASSUME Indexed, VerifyIndex(index).ok
  PROVE  \E seeds \in Seq(Text), bridges \in Seq(Text) :
           /\ ReadOf(SeedKind, seeds, raced) /\ ReadOf(BridgeKind, bridges, raced)
           /\ index.body = IndexPayload(seeds, bridges)
<1>1. index.cells = 2
  BY DEF VerifyIndex, ReadIndex, Failed
<1>2. index # NoIndex /\ \A payload, cells : cells \in 0..1 => index # TornIndex(payload, cells)
  BY <1>1 DEF NoIndex, TornIndex
<1>3. PICK payload : IndexOf(payload, raced) /\ index = IndexFile(payload)
  BY <1>2 DEF Indexed
<1>4. index.body = payload
  BY <1>3 DEF IndexFile
<1>5. QED
  BY <1>3, <1>4, IndexOfTexts

(* The rows of an index that verify_index accepts are those of one version of
   each file that was not rewritten while build_index_from_files read it; of a
   file that was, they are as many as some version has, and each is of one whole
   record that was written. *)
THEOREM IndexIsOfVersionsHolds == Spec => []IndexIsOfVersions
<1>1. StoreInv => IndexIsOfVersions
  <2> SUFFICES ASSUME StoreInv, VerifyIndex(index).ok
               PROVE  \E count \in 0..Len(index.body.records) :
                        \A kind \in {SeedKind, BridgeKind} :
                          LET rows == RowsOf(kind, index.body.records, count)
                          IN  /\ kind \notin raced => \E payloads \in versions[kind] : rows = Entries(kind, payloads)
                              /\ \E payloads \in versions[kind] : Len(rows) = Len(payloads)
                              /\ \A i \in DOMAIN rows :
                                   \E payloads \in versions[kind] : \E n \in DOMAIN payloads :
                                     rows[i] = Entry(kind, i, payloads[n])
    BY DEF IndexIsOfVersions
  <2> HIDE DEF Text
  <2>1. PICK seeds \in Seq(Text), bridges \in Seq(Text) :
          /\ ReadOf(SeedKind, seeds, raced) /\ ReadOf(BridgeKind, bridges, raced)
          /\ index.body = IndexPayload(seeds, bridges)
    BY IndexVerifies DEF StoreInv
  <2>2. PICK all : all = IndexRows(seeds, bridges)
    OBVIOUS
  <2>3. index.body.records = all
    <3>1. IndexPayload(seeds, bridges) = [count |-> Len(all), records |-> all, lookups |-> Positions(all)]
      BY <2>2, RowsAre, Zenon
    <3>2. QED
      BY <2>1, <3>1
  <2>4. /\ Len(bridges) \in 0..Len(all)
        /\ RowsOf(BridgeKind, all, Len(bridges)) = Entries(BridgeKind, bridges)
        /\ RowsOf(SeedKind, all, Len(bridges)) = Entries(SeedKind, seeds)
    BY <2>2, RowsAre, Zenon
  <2>5. ASSUME NEW kind, NEW payloads \in Seq(Text), ReadOf(kind, payloads, raced), NEW rows, rows = Entries(kind, payloads)
        PROVE  /\ kind \notin raced => \E v \in versions[kind] : rows = Entries(kind, v)
               /\ \E v \in versions[kind] : Len(rows) = Len(v)
               /\ \A i \in DOMAIN rows :
                    \E v \in versions[kind] : \E n \in DOMAIN v : rows[i] = Entry(kind, i, v[n])
    <3>1. kind \notin raced => \E v \in versions[kind] : rows = Entries(kind, v)
      BY <2>5 DEF ReadOf
    <3>2. DOMAIN payloads = 1..Len(payloads) /\ Len(payloads) \in Nat
      OBVIOUS
    <3>3. DOMAIN rows = DOMAIN payloads /\ \A i \in DOMAIN payloads : rows[i] = Entry(kind, i, payloads[i])
      BY <2>5 DEF Entries
    <3>4. Len(rows) = Len(payloads)
      <4>1. rows = [i \in 1..Len(payloads) |-> Entry(kind, i, payloads[i])]
        BY <2>5, <3>2 DEF Entries
      <4>2. QED
        BY <3>2, <4>1
    <3>5. \E v \in versions[kind] : Len(rows) = Len(v)
      BY <2>5, <3>4, Zenon DEF ReadOf
    <3>6. ASSUME NEW i \in DOMAIN rows
          PROVE  \E v \in versions[kind] : \E n \in DOMAIN v : rows[i] = Entry(kind, i, v[n])
      <4>1. \A R : payloads \in Seq(R) => payloads[i] \in R
        BY <3>2, <3>3, <3>6
      <4>2. payloads[i] \in Recorded(kind)
        BY <2>5, <4>1, Zenon DEF ReadOf
      <4>3. PICK v \in versions[kind] : \E n \in DOMAIN v : payloads[i] = v[n]
        BY <4>2 DEF Recorded
      <4>4. rows[i] = Entry(kind, i, payloads[i])
        BY <3>3
      <4>5. QED
        BY <4>3, <4>4, Zenon
    <3>7. QED
      BY <3>1, <3>5, <3>6
  <2>6. QED
    BY <2>1, <2>3, <2>4, <2>5
<1>2. QED
  BY <1>1, StoreInvariant, PTL

(* Every lookup of binary_index_v00k.py in an index that verifies returns what
   a scan of all its records would, in their order. *)
THEOREM LookupIsScanHolds == Spec => []LookupIsScan
<1>1. StoreInv => LookupIsScan
  <2> DEFINE records == index.body.records
             keys(field) == {records[i][field] : i \in {j \in DOMAIN records : field = "relation" => records[j].relation # ""}}
  <2> SUFFICES ASSUME StoreInv, VerifyIndex(index).ok, NEW field \in LookupFields, NEW key \in keys(field)
               PROVE  MiniQuery(index.body, [field |-> field, key |-> key])
                        = [ok |-> TRUE, results |-> Sublist(records, {i \in DOMAIN records : records[i][field] = key})]
    BY DEF LookupIsScan
  <2>1. Indexed
    BY DEF StoreInv
  <2>2. PICK seeds \in Seq(Text), bridges \in Seq(Text) : index.body = IndexPayload(seeds, bridges)
    BY <2>1, IndexVerifies
  <2>3. PICK S : IndexRows(seeds, bridges) \in Seq(S)
    BY RowsAre
  <2>4. PICK rows \in Seq(S) : rows = IndexRows(seeds, bridges)
    BY <2>3
  <2>5. records = rows /\ index.body.lookups = Positions(rows)
    <3>1. index.body = [count |-> Len(rows), records |-> rows, lookups |-> Positions(rows)]
      BY <2>2, <2>4, RowsAre, Zenon
    <3>2. PICK body : body = index.body
      OBVIOUS
    <3>3. body = [count |-> Len(rows), records |-> rows, lookups |-> Positions(rows)]
      BY <3>1, <3>2, Zenon
    <3>4. body.records = rows /\ body.lookups = Positions(rows)
      BY <3>3
    <3>5. QED
      BY <3>2, <3>4, Zenon
  <2>6. keys(field) = {rows[i][field] : i \in Keyed(rows, field)}
    <3>1. {j \in DOMAIN rows : field = "relation" => rows[j].relation # ""} = Keyed(rows, field)
      BY DEF Keyed
    <3>2. QED
      BY <2>5, <3>1
  <2>7. key \in DOMAIN Positions(rows)[field]
    BY <2>6, PositionsAre
  <2>8. {i \in Keyed(rows, field) : rows[i][field] = key} = {i \in DOMAIN rows : rows[i][field] = key}
    BY <2>6 DEF Keyed
  <2>9. [n \in DOMAIN Positions(rows)[field][key] |-> rows[Positions(rows)[field][key][n] + 1]]
          = Sublist(rows, {i \in DOMAIN rows : rows[i][field] = key})
    <3>1. Finds(rows, field, key)
      BY <2>7, PositionsAre, Zenon
    <3>2. QED
      BY <2>8, <3>1 DEF Finds
  <2>10. Lookup(index.body, field, key)
           = [n \in DOMAIN Positions(rows)[field][key] |-> rows[Positions(rows)[field][key][n] + 1]]
    BY <2>5, <2>7 DEF Lookup
  <2>11. MiniQuery(index.body, [field |-> field, key |-> key])
           = [ok |-> TRUE, results |-> Lookup(index.body, field, key)]
    BY DEF MiniQuery
  <2>12. QED
    BY <2>5, <2>9, <2>10, <2>11
<1>2. QED
  BY <1>1, StoreInvariant, PTL

----------------------------------------------------------------------------
(* Types, and what is read *)

\* Texts are sequences of sequences of numbers, as TypeOK has them.
LEMMA TextsAreNumbers ==
  /\ Text \subseteq Seq(Seq(Int))
  /\ Seq(Text) \subseteq Seq(Seq(Seq(Int)))
<1>1. \A A, B : A \subseteq B => Seq(A) \subseteq Seq(B)
  OBVIOUS
<1>2. Seq(Nat) \subseteq Seq(Int)
  OBVIOUS
<1>3. Cell \subseteq Seq(Int)
  BY <1>2 DEF Cell
<1> HIDE DEF Cell
<1>4. Text \subseteq Seq(Seq(Int))
  BY <1>1, <1>3 DEF Text
<1>5. QED
  BY <1>1, <1>4

Copy(file, kind, offset) ==
  /\ aside.is = "copy" /\ aside.kind = kind /\ aside.offset = offset /\ aside.was = ReadPython(file, kind)
  /\ aside.data = [file EXCEPT ![offset] = Flip(@)] /\ Len(file) > HeaderSize + RecordHeaderSize

Record(n, trust, backend, available) ==
  /\ aside.is = "record" /\ aside.n = n /\ aside.got = EncodeRecord(Payload(n), backend, available)
  /\ aside.records = <<<<SeedKind, trust, Payload(n)>>, <<BridgeKind, trust, Payload(1)>>>>
  /\ aside.batch = EncodeBatch(<<<<SeedKind, trust, Payload(n)>>, <<BridgeKind, trust, Payload(1)>>>>,
                               backend, available)

Brs(n, trust, offset) ==
  /\ aside.is = "brs" /\ aside.n = n /\ aside.trust = trust /\ aside.offset = offset
  /\ aside.data = BrsFlipped(BrsEncode(SeedKind, trust, Payload(1), Payload(n)), offset)

\* What the other callers made, field by field.
LEMMA AsideIs ==
  ASSUME Aside
  PROVE  /\ aside.is \in {"none", "copy", "index", "record", "brs"}
         /\ aside.is = "copy" => \E kind \in Kinds : \E offset \in DOMAIN files[kind] : Copy(files[kind], kind, offset)
         /\ aside.is = "index" => index.cells = 2 /\ aside.file = [index EXCEPT !.body = NoPayload]
         /\ aside.is = "record" => \E n \in DOMAIN Rows, trust \in Trusts, available \in BOOLEAN :
                                     \E backend \in {"auto", "python", "rust", "none"} : Record(n, trust, backend, available)
         /\ aside.is = "brs" => \E n \in DOMAIN Rows, trust \in Trusts :
                                  \E offset \in 0..Len(BrsEncode(SeedKind, trust, Payload(1), Payload(n))) : Brs(n, trust, offset)
<1>1. CASE aside = Nothing
  BY <1>1 DEF Nothing
<1>2. CASE Copied
  <2>1. PICK kind \in Kinds : \E offset \in DOMAIN files[kind] :
          /\ Len(files[kind]) > HeaderSize + RecordHeaderSize
          /\ aside = [is |-> "copy", kind |-> kind, offset |-> offset, was |-> ReadPython(files[kind], kind),
                      data |-> [files[kind] EXCEPT ![offset] = Flip(@)]]
    BY <1>2 DEF Copied
  <2>2. PICK offset \in DOMAIN files[kind] :
          /\ Len(files[kind]) > HeaderSize + RecordHeaderSize
          /\ aside = [is |-> "copy", kind |-> kind, offset |-> offset, was |-> ReadPython(files[kind], kind),
                      data |-> [files[kind] EXCEPT ![offset] = Flip(@)]]
    BY <2>1
  <2>3. PICK was, data : was = ReadPython(files[kind], kind) /\ data = [files[kind] EXCEPT ![offset] = Flip(@)]
    OBVIOUS
  <2>4. aside = [is |-> "copy", kind |-> kind, offset |-> offset, was |-> was, data |-> data]
    BY <2>2, <2>3, Zenon
  <2>5. aside.is = "copy" /\ aside.kind = kind /\ aside.offset = offset /\ aside.was = was /\ aside.data = data
    BY <2>4
  <2>6. Copy(files[kind], kind, offset)
    BY <2>2, <2>3, <2>5, Zenon DEF Copy
  <2>7. QED
    BY <2>5, <2>6
<1>3. CASE IndexCopied
  <2>1. PICK file : file = [index EXCEPT !.body = NoPayload]
    OBVIOUS
  <2>2. aside = [is |-> "index", file |-> file] /\ index.cells = 2
    BY <1>3, <2>1, Zenon DEF IndexCopied
  <2>3. aside.is = "index" /\ aside.file = file
    BY <2>2
  <2>4. QED
    BY <2>1, <2>2, <2>3, Zenon
<1>4. CASE Encoded
  <2>1. PICK n \in DOMAIN Rows, trust \in Trusts, backend \in {"auto", "python", "rust", "none"}, available \in BOOLEAN :
          aside = [is |-> "record", n |-> n, available |-> available, backend |-> backend,
                   got |-> EncodeRecord(Payload(n), backend, available),
                   records |-> <<<<SeedKind, trust, Payload(n)>>, <<BridgeKind, trust, Payload(1)>>>>,
                   batch |-> EncodeBatch(<<<<SeedKind, trust, Payload(n)>>, <<BridgeKind, trust, Payload(1)>>>>,
                                         backend, available)]
    BY <1>4 DEF Encoded
  <2>2. PICK got, records, batch :
          /\ got = EncodeRecord(Payload(n), backend, available)
          /\ records = <<<<SeedKind, trust, Payload(n)>>, <<BridgeKind, trust, Payload(1)>>>>
          /\ batch = EncodeBatch(<<<<SeedKind, trust, Payload(n)>>, <<BridgeKind, trust, Payload(1)>>>>,
                                 backend, available)
    OBVIOUS
  <2>3. aside = [is |-> "record", n |-> n, available |-> available, backend |-> backend, got |-> got,
                 records |-> records, batch |-> batch]
    BY <2>1, <2>2, Zenon
  <2>4. aside.is = "record" /\ aside.n = n /\ aside.got = got /\ aside.records = records /\ aside.batch = batch
    BY <2>3
  <2>5. Record(n, trust, backend, available)
    BY <2>2, <2>4, Zenon DEF Record
  <2>6. QED
    BY <2>4, <2>5
<1>5. CASE BrsEncoded
  <2>1. PICK n \in DOMAIN Rows, trust \in Trusts :
          \E offset \in 0..Len(BrsEncode(SeedKind, trust, Payload(1), Payload(n))) :
            aside = [is |-> "brs", n |-> n, trust |-> trust, offset |-> offset,
                     data |-> BrsFlipped(BrsEncode(SeedKind, trust, Payload(1), Payload(n)), offset)]
    BY <1>5 DEF BrsEncoded
  <2>2. PICK offset \in 0..Len(BrsEncode(SeedKind, trust, Payload(1), Payload(n))) :
            aside = [is |-> "brs", n |-> n, trust |-> trust, offset |-> offset,
                     data |-> BrsFlipped(BrsEncode(SeedKind, trust, Payload(1), Payload(n)), offset)]
    BY <2>1
  <2>3. PICK data : data = BrsFlipped(BrsEncode(SeedKind, trust, Payload(1), Payload(n)), offset)
    OBVIOUS
  <2>4. aside = [is |-> "brs", n |-> n, trust |-> trust, offset |-> offset, data |-> data]
    BY <2>2, <2>3, Zenon
  <2>5. aside.is = "brs" /\ aside.n = n /\ aside.trust = trust /\ aside.offset = offset /\ aside.data = data
    BY <2>4
  <2>6. Brs(n, trust, offset)
    BY <2>3, <2>5, Zenon DEF Brs
  <2>7. QED
    BY <2>5, <2>6
<1>6. QED
  BY <1>1, <1>2, <1>3, <1>4, <1>5 DEF Aside

(* The files, the history and the calls have their types, and the positions that
   _add_lookup has put in an index are those of records in it. *)
THEOREM TypeOKHolds == Spec => []TypeOK
<1>1. StoreInv => TypeOK
  <2> SUFFICES ASSUME StoreInv PROVE TypeOK
    OBVIOUS
  <2> HIDE DEF Text
  <2>1. Typed /\ Indexed /\ Aside
    BY DEF StoreInv
  <2>2. files \in [Kinds -> Seq(Seq(Int))] /\ begun \in [Kinds -> Seq(Seq(Seq(Int)))]
        /\ \A kind \in Kinds : versions[kind] \subseteq Seq(Seq(Seq(Int)))
    <3> HIDE DEF RowPayloads
    <3>1. Seq(RowPayloads) \subseteq Seq(Seq(Seq(Int)))
      BY PayloadsAre, TextsAreNumbers, Zenon
    <3>2. QED
      BY <2>1, <3>1, TextsAreNumbers DEF Typed
  <2>3. writer # Idle => writer.at = "writing" /\ writer.kind \in Kinds /\ writer.data \in Seq(Seq(Int))
    BY <2>1, TextsAreNumbers DEF Typed
  <2>4. indexer.at \in {"idle", "reading", "index"} /\ raced \subseteq {SeedKind, BridgeKind}
    BY <2>1 DEF Indexed, Idle, ReadingOf, HasRead, IndexingOf, FileKinds
  <2>5. ASSUME indexer.at = "reading"
         PROVE  /\ indexer.kind \in {SeedKind, BridgeKind} /\ indexer.got \in Seq(Seq(Int))
                /\ indexer.seeds \in Seq(Seq(Seq(Int)))
    <3> HIDE DEF RowPayloads
    <3>1. PICK kind \in FileKinds, during \in SUBSET FileKinds : \E got, seeds : ReadingOf(kind, got, seeds, during)
      BY <2>1, <2>5 DEF Indexed, Idle, IndexingOf
    <3>2. PICK got, seeds : ReadingOf(kind, got, seeds, during)
      BY <3>1
    <3>3. indexer.kind = kind /\ indexer.got = got /\ indexer.seeds = seeds /\ seeds \in Seq(RowPayloads)
          /\ GotOf(kind, got, during)
      BY <3>2 DEF ReadingOf, HasRead
    <3>4. seeds \in Seq(Seq(Seq(Int)))
      BY <3>3, PayloadsAre, TextsAreNumbers, Zenon
    <3>5. got \in Seq(Seq(Int))
      <4>1. \A A, B : A \subseteq B => Seq(A) \subseteq Seq(B)
        OBVIOUS
      <4>2. Seq(Proper(Recorded(kind))) \subseteq Text
        BY <4>1, PlainIs, Zenon DEF Text
      <4>3. QED
        BY <3>3, <4>2, TextsAreNumbers, Zenon DEF GotOf
    <3>6. QED
      BY <3>3, <3>4, <3>5 DEF FileKinds
  <2>6. index.header \in BOOLEAN /\ index.cells \in 0..2
    <3>1. CASE index = NoIndex
      BY <3>1 DEF NoIndex
    <3>2. ASSUME NEW payload, index = IndexFile(payload)
          PROVE  index.header \in BOOLEAN /\ index.cells \in 0..2
      BY <3>2 DEF IndexFile
    <3>3. ASSUME NEW payload, NEW cells \in 0..1, index = TornIndex(payload, cells)
          PROVE  index.header \in BOOLEAN /\ index.cells \in 0..2
      <4>1. PICK some \in BOOLEAN : some = (cells > 0)
        <5>1. (cells > 0) = TRUE \/ (cells > 0) = FALSE
          OBVIOUS
        <5>2. QED
          BY <5>1, Zenon
      <4>2. index = [header |-> some, crc |-> payload, body |-> NoPayload, cells |-> cells]
        BY <3>3, <4>1, Zenon DEF TornIndex
      <4>3. QED
        BY <4>2
    <3>4. QED
      BY <2>1, <3>1, <3>2, <3>3 DEF Indexed
  <2>7. ASSUME index.body # NoPayload, NEW field \in LookupFields, NEW key \in DOMAIN index.body.lookups[field]
        PROVE  Range(index.body.lookups[field][key]) \subseteq 0..(index.body.count - 1)
    <3>1. index # NoIndex /\ \A payload, cells : index # TornIndex(payload, cells)
      BY <2>7 DEF NoIndex, TornIndex
    <3>2. PICK payload : IndexOf(payload, raced) /\ index = IndexFile(payload)
      BY <2>1, <3>1 DEF Indexed
    <3>3. PICK seeds \in Seq(Text), bridges \in Seq(Text) : payload = IndexPayload(seeds, bridges)
      BY <3>2, IndexOfTexts
    <3>4. PICK body : body = index.body
      OBVIOUS
    <3>5. body = IndexPayload(seeds, bridges)
      BY <3>2, <3>3, <3>4 DEF IndexFile
    <3>6. PICK S : IndexRows(seeds, bridges) \in Seq(S)
      BY RowsAre
    <3>7. PICK rows \in Seq(S) : rows = IndexRows(seeds, bridges)
      BY <3>6
    <3>8. body = [count |-> Len(rows), records |-> rows, lookups |-> Positions(rows)]
      BY <3>5, <3>7, RowsAre, Zenon
    <3>9. body.count = Len(rows) /\ body.lookups = Positions(rows)
      BY <3>8
    <3>10. Positions(rows)[field][key] \in Seq(0..(Len(rows) - 1))
      BY <2>7, <3>4, <3>9, PositionsAre
    <3>11. Range(Positions(rows)[field][key]) \subseteq 0..(Len(rows) - 1)
      BY <3>10 DEF Range
    <3>12. QED
      BY <3>4, <3>9, <3>11
  <2>8. aside.is \in {"none", "copy", "index", "record", "brs"}
    BY <2>1, AsideIs
  <2>9. writes \in 0..MaxWrites
    BY <2>1 DEF Typed
  <2>10. QED
    BY <2>2, <2>3, <2>4, <2>6, <2>7, <2>8, <2>9, <2>5 DEF TypeOK
<1>2. QED
  BY <1>1, StoreInvariant, PTL

(* Both readers return the payloads of the last write exactly when all of it is
   in the file, whichever language wrote it and wherever the writer died. *)
THEOREM CompleteOrRefusedHolds == Spec => []CompleteOrRefused
<1>1. StoreInv => CompleteOrRefused
  <2> SUFFICES ASSUME StoreInv, NEW kind \in Kinds, NEW rust \in BOOLEAN
               PROVE  LET got == ReadRecords(files[kind], kind, rust)
                      IN  /\ got.ok <=> /\ versions[kind] # {}
                                        /\ Len(files[kind]) = Len(WritePython(kind, begun[kind]))
                          /\ got.ok => got.payloads = begun[kind]
    BY DEF CompleteOrRefused
  <2>1. Typed /\ Written
    BY DEF StoreInv
  <2>2. ReadRecords(files[kind], kind, rust) = ReadPython(files[kind], kind)
    <3>1. files[kind] \in Text
      BY <2>1 DEF Typed
    <3>2. QED
      BY <3>1, SameRead
  <2>3. PICK got : got = ReadPython(files[kind], kind)
    OBVIOUS
  <2>4. got.ok <=> versions[kind] # {} /\ Len(files[kind]) = Len(WritePython(kind, begun[kind]))
    BY <2>1, <2>3, FileReads, Zenon
  <2>5. got.ok => got = [ok |-> TRUE, payloads |-> begun[kind]]
    BY <2>1, <2>3, FileReads, Zenon
  <2>6. got.ok => got.payloads = begun[kind]
    BY <2>5
  <2>7. QED
    BY <2>2, <2>3, <2>4, <2>6, Zenon
<1>2. QED
  BY <1>1, StoreInvariant, PTL

\* A file with a byte changed is a text.
LEMMA FlippedIs ==
  ASSUME NEW data \in Text, NEW offset \in DOMAIN data
  PROVE  LET flipped == [data EXCEPT ![offset] = Flip(@)]
         IN  /\ flipped \in Text /\ Len(flipped) = Len(data)
             /\ flipped[offset] = Flip(data[offset])
             /\ \A i \in DOMAIN data : i # offset => flipped[i] = data[i]
<1> HIDE DEF Cell
<1>1. data \in Seq(Cell) /\ data[offset] \in Cell
  BY DEF Text
<1>2. Flip(data[offset]) \in Cell
  BY <1>1, FlipIs
<1>3. QED
  BY <1>1, <1>2 DEF Text

(* The reader of either language takes a copy that corrupt_copy has changed, cut
   off anywhere and read as any kind, as the other one does. *)
THEOREM ReadersAgreeHolds == Spec => []ReadersAgree
<1>1. StoreInv => ReadersAgree
  <2> SUFFICES ASSUME StoreInv, aside.is = "copy", NEW n \in 0..Len(aside.data), NEW expected \in Kinds
               PROVE  ReadRecords(SubSeq(aside.data, 1, n), expected, TRUE)
                        = ReadRecords(SubSeq(aside.data, 1, n), expected, FALSE)
    BY DEF ReadersAgree
  <2> HIDE DEF Text
  <2>1. PICK kind \in Kinds : \E offset \in DOMAIN files[kind] : Copy(files[kind], kind, offset)
    BY AsideIs DEF StoreInv
  <2>2. aside.data \in Text
    <3>1. PICK offset \in DOMAIN files[kind] : Copy(files[kind], kind, offset)
      BY <2>1
    <3>2. files[kind] \in Text
      BY DEF StoreInv, Typed
    <3>3. [files[kind] EXCEPT ![offset] = Flip(@)] \in Text
      BY <3>2, FlippedIs
    <3>4. QED
      BY <3>1, <3>3, Zenon DEF Copy
  <2>3. PICK data \in Text : data = aside.data
    BY <2>2
  <2>4. SubSeq(data, 1, n) \in Text
    BY <2>3 DEF Text
  <2>5. QED
    BY <2>3, <2>4, SameRead
<1>2. QED
  BY <1>1, StoreInvariant, PTL

----------------------------------------------------------------------------
(* What is encoded for a caller *)

Ends(r, p, b) == Len(r) = Len(p) + 1 /\ r[Len(p) + 1] = b /\ \A k \in 1..Len(p) : r[k] = p[k]

\* One more cell.
LEMMA OneMore ==
  ASSUME NEW S, NEW p \in Seq(S), NEW b \in S
  PROVE  p \o <<b>> \in Seq(S) /\ Ends(p \o <<b>>, p, b)
<1>1. p \o <<b>> = Append(p, b)
  OBVIOUS
<1>2. PICK r \in Seq(S) : r = Append(p, b)
  <2>1. Append(p, b) \in Seq(S)
    OBVIOUS
  <2>2. QED
    BY <2>1, Zenon
<1>3. Len(r) = Len(p) + 1 /\ r[Len(p) + 1] = b /\ \A k \in 1..Len(p) : r[k] = p[k]
  BY <1>2
<1>4. QED
  BY <1>1, <1>2, <1>3, Zenon DEF Ends

Together(a, b, c, d, e) == <<a>> \o <<b>> \o <<c>> \o <<d>> \o <<e>> = <<a, b, c, d, e>>

\* Five cells, one after the other.
LEMMA FiveTogether ==
  ASSUME NEW a \in Cell, NEW b \in Cell, NEW c \in Cell, NEW d \in Cell, NEW e \in Cell
  PROVE  Together(a, b, c, d, e)
<1>1. PICK p \in Seq(Cell) : p = <<a>>
  <2>1. <<a>> \in Seq(Cell)
    OBVIOUS
  <2>2. QED
    BY <2>1, Zenon
<1>2. PICK q \in Seq(Cell) : q = p \o <<b>> /\ Ends(q, p, b)
  BY OneMore
<1>3. PICK r \in Seq(Cell) : r = q \o <<c>> /\ Ends(r, q, c)
  BY OneMore
<1>4. PICK s \in Seq(Cell) : s = r \o <<d>> /\ Ends(s, r, d)
  BY OneMore
<1>5. PICK t \in Seq(Cell) : t = s \o <<e>> /\ Ends(t, s, e)
  BY OneMore
<1>6. PICK u \in Seq(Cell) : u = <<a, b, c, d, e>>
  <2>1. <<a, b, c, d, e>> \in Seq(Cell)
    OBVIOUS
  <2>2. QED
    BY <2>1, Zenon
<1>7. Len(p) = 1 /\ p[1] = a /\ Len(u) = 5 /\ u[1] = a /\ u[2] = b /\ u[3] = c /\ u[4] = d /\ u[5] = e
  BY <1>1, <1>6
<1>8. Len(t) = 5 /\ t[1] = a /\ t[2] = b /\ t[3] = c /\ t[4] = d /\ t[5] = e
  BY <1>2, <1>3, <1>4, <1>5, <1>7 DEF Ends
<1>9. \A i \in 1..5 : i = 1 \/ i = 2 \/ i = 3 \/ i = 4 \/ i = 5
  OBVIOUS
<1>10. t = u
  <2>1. \A i \in 1..Len(t) : t[i] = u[i]
    BY <1>7, <1>8, <1>9, Zenon
  <2>2. QED
    BY <1>7, <1>8, <2>1, SeqEqual
<1>11. QED
  BY <1>1, <1>2, <1>3, <1>4, <1>5, <1>6, <1>10, Zenon DEF Together
\* The two sides give the same record of a batch.
LEMMA BatchRecordsAgree ==
  ASSUME NEW kind \in Nat, NEW trust \in Nat, NEW payload \in Text
  PROVE  BatchRecordRust(kind, trust, payload) = BatchRecordPython(kind, trust, payload)
<1>1. PICK a, b, c, d, e : a = RecordId(payload) /\ b = <<kind>> /\ c = <<trust>> /\ d = <<Len(payload)>> /\ e = Crc(payload)
  OBVIOUS
<1>2. a \in Cell /\ b \in Cell /\ c \in Cell /\ d \in Cell /\ e \in Cell
  <2>1. Len(payload) \in Nat /\ 64 \in Nat /\ 32 \in Nat
    BY DEF Text
  <2>2. QED
    BY <1>1, <2>1, DigestIs, NumberInCell DEF RecordId, Crc
<1>3. Together(a, b, c, d, e)
  BY <1>2, FiveTogether, Zenon
<1>4. BatchRecordRust(kind, trust, payload) = <<a>> \o <<b>> \o <<c>> \o <<d>> \o <<e>> \o payload
  BY <1>1, Zenon DEF BatchRecordRust
<1>5. BatchRecordPython(kind, trust, payload) = <<a, b, c, d, e>> \o payload
  BY <1>1, Zenon DEF BatchRecordPython
<1>6. QED
  BY <1>3, <1>4, <1>5, Zenon DEF Together

\* A record encoded by any backend that gives one is that of the file format.
LEMMA EncodedIs ==
  ASSUME NEW payload \in Text, NEW backend, NEW available \in BOOLEAN,
         EncodeRecord(payload, backend, available).ok
  PROVE  EncodeRecord(payload, backend, available) = [ok |-> TRUE, data |-> PackRecord(payload)]
<1> HIDE DEF Text
<1>1. TryRust(payload) = [ok |-> TRUE, data |-> PackRecord(payload)]
  <2> DEFINE taken == {i \in DOMAIN Attempts(payload) : Len(Attempts(payload)[i]) = 1}
  <2>1. /\ DOMAIN Attempts(payload) = 1..4 /\ Len(Attempts(payload)[1]) = 3 /\ Len(Attempts(payload)[2]) = 3
        /\ Len(Attempts(payload)[3]) = 3 /\ Len(Attempts(payload)[4]) = 1 /\ Attempts(payload)[4][1] = payload
    BY DEF Attempts
  <2>2. \A i \in 1..4 : i = 1 \/ i = 2 \/ i = 3 \/ i = 4
    OBVIOUS
  <2>3. taken = {4}
    BY <2>1, <2>2
  <2>4. Min(taken) = 4
    <3>1. Min({4, 4}) = 4
      BY MinOfTwo
    <3>2. {4, 4} = taken
      BY <2>3
    <3>3. QED
      BY <3>1, <3>2, Zenon
  <2>5. << >> \in Seq(Cell) /\ PackRecord(payload) \in Seq(Cell)
    BY RecordIs DEF Text
  <2>6. PushRecord(<< >>, payload) = PackRecord(payload)
    <3>1. \A p \in Seq(Cell) : << >> \o p = p
      OBVIOUS
    <3>2. PushRecord(<< >>, payload) = << >> \o PackRecord(payload)
      BY <2>5, PushIs
    <3>3. QED
      BY <2>5, <3>1, <3>2, Zenon
  <2>7. TryRust(payload) = IF taken = {} THEN Failed
                           ELSE [ok |-> TRUE, data |-> PushRecord(<< >>, Attempts(payload)[Min(taken)][1])]
    BY Zenon DEF TryRust
  <2>8. QED
    BY <2>1, <2>3, <2>4, <2>6, <2>7
<1>2. ~Failed.ok
  BY DEF Failed
<1>3. CASE Chosen(backend, available) = "python"
  BY <1>3, Zenon DEF EncodeRecord
<1>4. CASE Chosen(backend, available) = "rust" /\ available
  BY <1>1, <1>4 DEF EncodeRecord
<1>5. CASE Chosen(backend, available) # "python" /\ ~(Chosen(backend, available) = "rust" /\ available)
  <2>1. EncodeRecord(payload, backend, available) = Failed
    BY <1>5 DEF EncodeRecord
  <2>2. QED
    BY <1>2, <2>1
<1>6. QED
  BY <1>3, <1>4, <1>5

\* One record after a header is a file, which both readers take.
LEMMA OneRecord ==
  ASSUME NEW payload \in Text, NEW rust \in BOOLEAN
  PROVE  ReadRecords(PackHeader(SeedKind, 1) \o PackRecord(payload), SeedKind, rust)
           = [ok |-> TRUE, payloads |-> <<payload>>]
<1> HIDE DEF Text
<1>1. <<payload>> \in Seq(Text) /\ Len(<<payload>>) = 1 /\ <<payload>> \in [1..1 -> Text]
  OBVIOUS
<1>2. PICK payloads \in [1..1 -> Text] : payloads = <<payload>> /\ Len(payloads) = 1 /\ payloads[1] = payload
  BY <1>1
<1>3. SeedKind \in Kinds /\ 1 \in Nat
  BY DEF SeedKind, Kinds
<1>4. PICK flat \in [0..1 -> Seq(Cell)] :
        /\ Flattens(flat, Packed(payloads), 1)
        /\ WritePython(SeedKind, payloads) = PackHeader(SeedKind, 1) \o flat[1]
        /\ WritePython(SeedKind, payloads) \in Text
  BY <1>3, FileIs
<1>5. Packed(payloads)[1] = PackRecord(payload) /\ PackRecord(payload) \in Seq(Cell)
  <2>1. \A i \in 1..1 : Packed(payloads)[i] = PackRecord(payloads[i])
    BY <1>3, FileIs
  <2>2. QED
    BY <1>2, <2>1, RecordIs DEF Text
<1>6. flat[1] = PackRecord(payload)
  <2>1. flat[0] = << >> /\ flat[1] = flat[0] \o Packed(payloads)[1]
    <3>1. \A i \in 1..1 : flat[i] = flat[i - 1] \o Packed(payloads)[i]
      BY <1>4 DEF Flattens
    <3>2. 1 \in 1..1 /\ 1 - 1 = 0
      OBVIOUS
    <3>3. flat[0] = << >>
      BY <1>4, Zenon DEF Flattens
    <3>4. QED
      BY <3>1, <3>2, <3>3, Zenon
  <2>2. \A p \in Seq(Cell) : << >> \o p = p
    OBVIOUS
  <2>3. QED
    BY <1>5, <2>1, <2>2, Zenon
<1>7. PICK data \in Text : data = WritePython(SeedKind, payloads)
  BY <1>4
<1>8. Starts(data, data)
  BY DEF Starts, Text
<1>9. ReadPython(data, SeedKind) = [ok |-> TRUE, payloads |-> payloads]
  BY <1>3, <1>7, <1>8, StartReads
<1>10. ReadRecords(data, SeedKind, rust) = ReadPython(data, SeedKind)
  BY <1>3, SameRead
<1>11. QED
  BY <1>2, <1>4, <1>6, <1>7, <1>9, <1>10, Zenon

Two(trust, first, second) == <<<<SeedKind, trust, first>>, <<BridgeKind, trust, second>>>>

IsPythonBatch(batch, records) == batch = EncodeBatch(records, "python", FALSE)

\* A batch is the same from every backend that gives one.
LEMMA BatchIs ==
  ASSUME NEW trust \in Nat, NEW first \in Text, NEW second \in Text, NEW backend, NEW available \in BOOLEAN,
         NEW records, records = Two(trust, first, second),
         NEW batch, batch = EncodeBatch(records, backend, available), batch.ok
  PROVE  IsPythonBatch(batch, records)
<1> HIDE DEF Text
<1> DEFINE python == [ok |-> TRUE, data |-> [i \in DOMAIN records |->
                                               BatchRecordPython(records[i][1], records[i][2], records[i][3])]]
           rust == [ok |-> TRUE, data |-> [i \in DOMAIN records |->
                                             BatchRecordRust(records[i][1], records[i][2], records[i][3])]]
<1>1. \A i \in DOMAIN records : records[i][1] \in Nat /\ records[i][2] \in Nat /\ records[i][3] \in Text
  BY DEF SeedKind, BridgeKind, Two
<1>2. rust = python
  BY <1>1, BatchRecordsAgree
<1>3. EncodeBatch(records, "python", FALSE) = python
  BY Zenon DEF EncodeBatch, Chosen
<1>4. ~Failed.ok
  BY DEF Failed
<1>5. CASE Chosen(backend, available) = "python"
  <2>1. EncodeBatch(records, backend, available) = python
    BY <1>5, Zenon DEF EncodeBatch
  <2>2. QED
    BY <1>3, <2>1, Zenon DEF IsPythonBatch
<1>6. CASE Chosen(backend, available) = "rust" /\ available
  <2>1. EncodeBatch(records, backend, available) = rust
    BY <1>6 DEF EncodeBatch
  <2>2. QED
    BY <1>2, <1>3, <2>1, Zenon DEF IsPythonBatch
<1>7. CASE Chosen(backend, available) # "python" /\ ~(Chosen(backend, available) = "rust" /\ available)
  <2>1. EncodeBatch(records, backend, available) = Failed
    BY <1>7 DEF EncodeBatch
  <2>2. QED
    BY <1>4, <2>1
<1>8. QED
  BY <1>5, <1>6, <1>7

(* A record that encode_record_from_payload returns, from the backend that was
   chosen, is what both readers expect after a header, and encode_batch makes
   the same batch with both backends. *)
THEOREM EncodersAgreeHolds == Spec => []EncodersAgree
<1>1. StoreInv => EncodersAgree
  <2> SUFFICES ASSUME StoreInv, aside.is = "record"
               PROVE  /\ aside.got.ok =>
                           \A rust \in BOOLEAN :
                             ReadRecords(PackHeader(SeedKind, 1) \o aside.got.data, SeedKind, rust)
                               = [ok |-> TRUE, payloads |-> <<Payload(aside.n)>>]
                      /\ aside.batch.ok => aside.batch = EncodeBatch(aside.records, "python", FALSE)
    BY DEF EncodersAgree
  <2> HIDE DEF Text
  <2>1. PICK n \in DOMAIN Rows, trust \in Trusts, available \in BOOLEAN :
          \E backend \in {"auto", "python", "rust", "none"} : Record(n, trust, backend, available)
    BY AsideIs DEF StoreInv
  <2>2. PICK backend : Record(n, trust, backend, available)
    BY <2>1
  <2>3. Payload(n) \in Text /\ Payload(1) \in Text /\ trust \in Nat
    BY PayloadsAre, BinaryStoreAssumption
  <2>4. ASSUME aside.got.ok, NEW rust \in BOOLEAN
        PROVE  ReadRecords(PackHeader(SeedKind, 1) \o aside.got.data, SeedKind, rust)
                 = [ok |-> TRUE, payloads |-> <<Payload(aside.n)>>]
    <3>1. PICK got : got = aside.got
      OBVIOUS
    <3>2. got = EncodeRecord(Payload(n), backend, available) /\ got.ok /\ aside.n = n
      BY <2>2, <2>4, <3>1, Zenon DEF Record
    <3>3. got = [ok |-> TRUE, data |-> PackRecord(Payload(n))]
      BY <2>3, <3>2, EncodedIs, Zenon
    <3>4. got.data = PackRecord(Payload(n))
      BY <3>3
    <3>5. QED
      BY <2>3, <3>1, <3>2, <3>4, OneRecord, Zenon
  <2>5. ASSUME aside.batch.ok
        PROVE  aside.batch = EncodeBatch(aside.records, "python", FALSE)
    <3>1. PICK records : records = <<<<SeedKind, trust, Payload(n)>>, <<BridgeKind, trust, Payload(1)>>>>
      OBVIOUS
    <3>2. PICK batch : batch = aside.batch
      OBVIOUS
    <3>3. batch = EncodeBatch(records, backend, available) /\ aside.records = records
      BY <2>2, <3>1, <3>2, Zenon DEF Record
    <3>4. batch.ok
      BY <2>5, <3>2, Zenon
    <3>5. records = Two(trust, Payload(n), Payload(1))
      BY <3>1, Zenon DEF Two
    <3>6. IsPythonBatch(batch, records)
      BY <2>3, <3>3, <3>4, <3>5, BatchIs
    <3>7. QED
      BY <3>2, <3>3, <3>6, Zenon DEF IsPythonBatch
  <2>6. QED
    BY <2>4, <2>5
<1>2. QED
  BY <1>1, StoreInvariant, PTL

----------------------------------------------------------------------------
(* Damage *)

\* Texts that differ in the first number of one cell have not the same numbers.
LEMMA ChangedFlat ==
  ASSUME NEW t \in Text, NEW u \in Text, Len(u) = Len(t), NEW k \in 1..Len(t), u[k] = Flip(t[k]),
         \A i \in 1..Len(t) : i # k => u[i] = t[i]
  PROVE  FlattenSeq(t) # FlattenSeq(u)
<1>1. PICK n \in Nat : n = Len(t) /\ n = Len(u)
  BY TextFlattens
<1>2. PICK f \in [0..n -> Seq(Nat)] : Flattens(f, t, n) /\ FlattenSeq(t) = f[n]
  BY <1>1, TextFlattens
<1>3. PICK g \in [0..n -> Seq(Nat)] : Flattens(g, u, n) /\ FlattenSeq(u) = g[n]
  BY <1>1, TextFlattens
<1>4. t \in [1..n -> Seq(Nat)] /\ u \in [1..n -> Seq(Nat)]
  BY <1>1, TextFlattens
<1>5. k \in 1..n /\ k - 1 \in 0..n /\ k - 1 <= n /\ SameUpTo(t, u, k - 1)
  BY <1>1 DEF SameUpTo
<1>6. SameAt(f, g, k - 1)
  BY <1>2, <1>3, <1>4, <1>5, FlatsAgree
<1>7. LiesIn(f, t, n, k)
  BY <1>2, <1>4, <1>5, FlatHas
<1>8. LiesIn(g, u, n, k)
  BY <1>3, <1>4, <1>5, FlatHas
<1>9. PICK place \in Nat : place = Len(f[k - 1]) /\ place = Len(g[k - 1])
  <2>1. PICK a \in Seq(Nat) : a = f[k - 1]
    BY <1>5
  <2>2. QED
    BY <1>6, <2>1 DEF SameAt
<1>10. t[k] \in Cell /\ u[k] \in Cell
  BY DEF Text
<1>11. u[k][1] = t[k][1] + 100 /\ t[k][1] \in Nat /\ Len(t[k]) >= 1 /\ Len(u[k]) >= 1
  <2>1. \A cell \in Cell : cell[1] \in Nat /\ Len(cell) >= 1
    BY DEF Cell
  <2>2. QED
    BY <1>10, <2>1, FlipIs
<1>12. f[n][place + 1] = t[k][1]
  <2>1. 1 \in 1..Len(t[k])
    BY <1>10, <1>11 DEF Cell
  <2>2. QED
    BY <1>7, <1>9, <2>1 DEF LiesIn
<1>13. g[n][place + 1] = u[k][1]
  <2>1. 1 \in 1..Len(u[k])
    BY <1>10, <1>11 DEF Cell
  <2>2. QED
    BY <1>8, <1>9, <2>1 DEF LiesIn
<1>14. t[k][1] # u[k][1]
  BY <1>11
<1>15. QED
  BY <1>2, <1>3, <1>12, <1>13, <1>14, Zenon

\* The damage of a copy is that one byte is another.
Damaged(copy, file, offset) ==
  /\ Len(copy) = Len(file) /\ copy[offset] = Flip(file[offset])
  /\ \A i \in 1..Len(file) : i # offset => copy[i] = file[i]

\* A cell of the file's format is another after damage.
LEMMA FlippedNumber ==
  /\ \A n \in Nat : Flip(<<n>>) # <<n>> /\ Number(Flip(<<n>>)) = n + 100
  /\ \A text \in Text, other \in Text, tag \in Nat : Flip(Digest(tag, text)) # Digest(tag, other)
<1>1. ASSUME NEW n \in Nat
      PROVE  Flip(<<n>>) # <<n>> /\ Number(Flip(<<n>>)) = n + 100
  <2>1. <<n>> \in Cell /\ <<n>>[1] = n
    BY NumberInCell DEF Number
  <2>2. Flip(<<n>>)[1] = <<n>>[1] + 100 /\ Flip(<<n>>) # <<n>>
    BY <2>1, FlipIs
  <2>3. QED
    BY <2>1, <2>2 DEF Number
<1>2. ASSUME NEW text \in Text, NEW other \in Text, NEW tag \in Nat
      PROVE  Flip(Digest(tag, text)) # Digest(tag, other)
  <2>1. Digest(tag, text) \in Cell /\ Digest(tag, text)[1] = tag /\ Digest(tag, other)[1] = tag
    BY DigestIs
  <2>2. Flip(Digest(tag, text))[1] = Digest(tag, text)[1] + 100
    BY <2>1, FlipIs
  <2>3. QED
    BY <2>1, <2>2
<1>3. QED
  BY <1>1, <1>2

\* A record of a damaged copy that is taken is the one that was there.
LEMMA DamagedRecord ==
  ASSUME NEW copy \in Text, NEW file \in Text, NEW full \in Text, NEW offset \in 1..Len(file),
         Damaged(copy, file, offset), Starts(file, full),
         NEW text \in Text, NEW pos \in Nat \ {0}, Lies(full, pos, text), RecordOk(copy, pos)
  PROVE  PayloadAt(copy, pos) = text /\ PayloadEnd(copy, pos) = pos + RecordHeaderSize + Len(text)
<1>1. PICK len \in Nat : len = Len(copy) /\ len = Len(file)
  BY DEF Damaged, Text
<1>2. PICK size \in Nat : size = Len(text)
  BY DEF Text
<1>3. PICK first \in Nat \ {0} : first = pos + RecordHeaderSize /\ first = pos + 5
  BY DEF RecordHeaderSize
<1>4. PICK n \in Nat : n = Number(copy[pos + 1])
  BY RecordReads
<1>5. PICK got \in Text : got = PayloadAt(copy, pos)
  BY RecordReads
<1>6. /\ Len(got) = n /\ PayloadEnd(copy, pos) = first + n /\ first + n <= len + 1
      /\ \A k \in 1..n : got[k] = copy[first + k - 1]
  <2>1. /\ Len(got) = n /\ PayloadEnd(copy, pos) = pos + RecordHeaderSize + n /\ PayloadEnd(copy, pos) <= Len(copy) + 1
        /\ \A k \in 1..n : got[k] = copy[pos + RecordHeaderSize + k - 1]
    BY <1>4, <1>5, RecordReads, Zenon
  <2>2. QED
    BY <1>1, <1>3, <2>1, Zenon
<1>7. Crc(got) = copy[pos + 2] /\ RecordId(got) = copy[pos]
  BY <1>5, Zenon DEF RecordOk
<1>8. \A i \in 1..len : file[i] = full[i] /\ (i # offset => copy[i] = file[i])
  BY <1>1, Zenon DEF Starts, Damaged
<1>9. copy[offset] = Flip(file[offset]) /\ offset \in Nat
  BY DEF Damaged
<1>10. pos \in 1..len /\ pos + 1 \in 1..len /\ pos + 2 \in 1..len
  BY <1>3, <1>6
<1>11. file[pos] = RecordId(text) /\ file[pos + 1] = <<size>> /\ file[pos + 2] = Crc(text)
  BY <1>2, <1>8, <1>10, Zenon DEF Lies
<1>12. \A k \in 1..size : first + k - 1 <= len => file[first + k - 1] = text[k]
  <2>1. TAKE k \in 1..size
  <2>2. full[first + k - 1] = text[k]
    BY <1>2, <1>3 DEF Lies
  <2>3. QED
    BY <1>8, <2>2
<1>13. offset # pos
  <2>1. Flip(RecordId(text)) # RecordId(got)
    BY FlippedNumber DEF RecordId
  <2>2. QED
    BY <1>7, <1>9, <1>11, <2>1
<1>14. offset # pos + 2
  <2>1. Flip(Crc(text)) # Crc(got)
    BY FlippedNumber DEF Crc
  <2>2. QED
    BY <1>7, <1>9, <1>11, <2>1
<1>15. FlattenSeq(got) = FlattenSeq(text)
  <2>1. Crc(got) = Crc(text)
    BY <1>7, <1>8, <1>10, <1>11, <1>14
  <2>2. Digest(32, got) = Digest(32, text) /\ 32 \in Nat
    BY <2>1, Zenon DEF Crc
  <2>3. QED
    BY <2>2, DigestTells
<1>16. offset # pos + 1
  <2> SUFFICES ASSUME offset = pos + 1 PROVE FALSE
    OBVIOUS
  <2>1. n = size + 100
    BY <1>4, <1>9, <1>11, FlippedNumber
  <2>2. \A k \in 1..size : got[k] = text[k]
    <3>1. TAKE k \in 1..size
    <3>2. k \in 1..n /\ first + k - 1 \in 1..len /\ first + k - 1 # offset
      <4>1. first + n <= len + 1 /\ first = pos + 5 /\ n = size + 100 /\ offset = pos + 1
        BY <1>3, <1>6, <2>1
      <4>2. QED
        BY <4>1
    <3>3. QED
      BY <1>6, <1>8, <1>12, <3>2
  <2>3. Starts(text, got) /\ Len(text) < Len(got)
    BY <1>2, <1>6, <2>1, <2>2 DEF Starts
  <2>4. QED
    BY <1>15, <2>3, LongerFlat
<1>17. n = size
  <2>1. copy[pos + 1] = <<size>>
    BY <1>8, <1>10, <1>11, <1>16
  <2>2. QED
    BY <1>4, <2>1, NumberInCell
<1>18. \A k \in 1..size : got[k] = IF first + k - 1 = offset THEN Flip(text[k]) ELSE text[k]
  <2>1. TAKE k \in 1..size
  <2>2. first + k - 1 \in 1..len
    BY <1>6, <1>17
  <2>3. got[k] = copy[first + k - 1] /\ file[first + k - 1] = text[k]
    BY <1>6, <1>12, <1>17, <2>2
  <2>4. QED
    BY <1>8, <1>9, <2>2, <2>3
<1>19. \A k \in 1..size : first + k - 1 # offset
  <2> SUFFICES ASSUME NEW k \in 1..size, first + k - 1 = offset PROVE FALSE
    OBVIOUS
  <2>1. got[k] = Flip(text[k]) /\ \A i \in 1..size : i # k => got[i] = text[i]
    BY <1>18
  <2>2. Len(got) = Len(text) /\ k \in 1..Len(text) /\ \A i \in 1..Len(text) : i # k => got[i] = text[i]
    BY <1>2, <1>6, <1>17, <2>1
  <2>3. QED
    BY <1>15, <2>1, <2>2, ChangedFlat
<1>20. got = text
  <2>1. Len(got) = Len(text) /\ \A k \in 1..Len(got) : got[k] = text[k]
    BY <1>2, <1>6, <1>17, <1>18, <1>19
  <2>2. QED
    BY <2>1, SeqEqual DEF Text
<1>21. QED
  BY <1>2, <1>3, <1>5, <1>6, <1>17, <1>20

\* What the Python reader has after a number of records of a damaged copy.
SameSoFar(payloads, end, s, i) == s.next = end /\ Len(s.payloads) = i /\ \A k \in 1..i : s.payloads[k] = payloads[k]

(* If read_records accepts a copy of a file with one byte changed, it reads
   there what it reads in the file: the change is in a part without data. *)
THEOREM DamagedReads ==
  ASSUME NEW kind \in Kinds, NEW n \in Nat, NEW payloads \in [1..n -> Text], NEW file \in Text,
         Starts(file, WritePython(kind, payloads)), Len(file) > HeaderSize + RecordHeaderSize,
         NEW copy \in Text, NEW offset \in 1..Len(file), Damaged(copy, file, offset),
         ReadPython(copy, kind).ok
  PROVE  ReadPython(copy, kind) = ReadPython(file, kind)
<1>1. PICK flat \in [0..n -> Seq(Cell)] :
        /\ Flattens(flat, Packed(payloads), n)
        /\ WritePython(kind, payloads) = PackHeader(kind, n) \o flat[n]
        /\ WritePython(kind, payloads) \in Text
        /\ Len(WritePython(kind, payloads)) = HeaderSize + Len(flat[n])
  BY FileIs
<1>2. PICK full \in Text : full = WritePython(kind, payloads)
  BY <1>1
<1>3. PICK len \in Nat : len = Len(copy) /\ len = Len(file)
  BY DEF Damaged, Text
<1>4. PICK size \in Nat : size = Len(full) /\ size = HeaderSize + Len(flat[n])
  BY <1>1, <1>2 DEF Text
<1>5. Starts(file, full) /\ len <= size
  BY <1>2, <1>3, <1>4 DEF Starts
<1>6. Len(flat[0]) = 0 /\ \A i \in 0..n : Len(flat[i]) \in Nat
  BY <1>1 DEF Flattens
<1>7. Len(copy) >= HeaderSize /\ Len(file) >= HeaderSize
  BY <1>3 DEF HeaderSize, RecordHeaderSize
<1>8. file[6] = <<n>>
  BY <1>7, HeaderLies
<1>9. PICK m \in Nat : m = Number(Cells(copy, 1, HeaderSize)[6]) /\ m = Number(copy[6])
  BY <1>7, HeaderReads
<1>10. m = n \/ m = n + 100
  <2>1. CASE offset = 6
    <3>1. copy[6] = Flip(<<n>>)
      BY <1>8, <2>1 DEF Damaged
    <3>2. QED
      BY <1>9, <3>1, FlippedNumber
  <2>2. CASE offset # 6
    <3>1. 6 \in 1..Len(file)
      BY <1>3, <1>7 DEF HeaderSize
    <3>2. copy[6] = <<n>>
      BY <1>8, <2>2, <3>1, Zenon DEF Damaged
    <3>3. QED
      BY <1>9, <3>2, NumberInCell
  <2>3. QED
    BY <2>1, <2>2
<1>11. PICK after \in [0..m -> Reading] : PythonTurns(after, copy, m) /\ PythonRecords(copy, m) = after[m]
  BY PythonLoop DEF PythonTurns
<1>12. /\ after[m].ok /\ after[m].next = len + 1
       /\ ReadPython(copy, kind) = [ok |-> TRUE, payloads |-> after[m].payloads]
  <2>1. ReadPython(copy, kind)
          = IF HeaderOk(Cells(copy, 1, HeaderSize)) /\ Cells(copy, 1, HeaderSize)[3] = <<kind>>
               /\ after[m].ok /\ after[m].next = Len(copy) + 1
            THEN [ok |-> TRUE, payloads |-> after[m].payloads] ELSE Failed
    BY <1>9, <1>11, Zenon DEF ReadPython
  <2>2. ~Failed.ok
    BY DEF Failed
  <2>3. QED
    BY <1>3, <2>1, <2>2, Zenon
<1>13. \A i \in 0..m : after[i].ok
  <2>1. m \in 0..m
    OBVIOUS
  <2>2. \A i \in 0..m : Took(copy, after[i], i)
    BY <1>7, <1>11, <1>12, <2>1, PythonTakes
  <2>3. QED
    BY <2>2 DEF Took
<1> DEFINE end(i) == HeaderSize + 1 + Len(flat[i])
           T == {i \in 0..n : SameSoFar(payloads, end(i), after[i], i)}
<1>14. 0 \in T
  <2>1. after[0] = Begin /\ end(0) = HeaderSize + 1
    BY <1>6, <1>11 DEF PythonTurns, HeaderSize
  <2>2. SameSoFar(payloads, HeaderSize + 1, Begin, 0)
    BY DEF SameSoFar, Begin
  <2>3. QED
    BY <2>1, <2>2
<1>15. ASSUME NEW i \in 0..(n - 1), i \in T
       PROVE  i + 1 \in T
  <2>1. i + 1 \in 1..n /\ i + 1 \in 0..n /\ (i + 1) - 1 = i /\ i \in Nat /\ i + 1 \in 1..m /\ i + 1 \in 0..m /\ i \in 0..m
    BY <1>10, <1>15
  <2>2. PICK s \in Reading : s = after[i]
    BY <2>1
  <2>3. PICK t \in Reading : t = after[i + 1] /\ t = PythonTurn(copy, s) /\ t.ok
    BY <1>11, <1>13, <2>1, <2>2 DEF PythonTurns
  <2>4. s.next = end(i) /\ Len(s.payloads) = i /\ \A k \in 1..i : s.payloads[k] = payloads[k]
    BY <1>15, <2>2 DEF SameSoFar
  <2>5. RecordOk(copy, s.next) /\ t = Take(copy, s)
    BY <2>3, PythonTook
  <2>6. PICK text \in Text : text = payloads[i + 1]
    BY <2>1
  <2>7. PICK pos \in Nat \ {0} : pos = end(i) /\ Lies(full, pos, text) /\ pos + RecordHeaderSize + Len(text) = end(i + 1)
    <3>1. LiesAfter(full, flat, i + 1, text)
      BY <1>1, <1>2, <2>1, <2>6, RecordLies, Zenon
    <3>2. QED
      BY <2>1, <3>1, Zenon DEF LiesAfter
  <2>8. PayloadAt(copy, pos) = text /\ PayloadEnd(copy, pos) = end(i + 1)
    <3>1. RecordOk(copy, pos)
      BY <2>4, <2>5, <2>7
    <3>2. PayloadAt(copy, pos) = text /\ PayloadEnd(copy, pos) = pos + RecordHeaderSize + Len(text)
      BY <1>5, <2>7, <3>1, DamagedRecord
    <3>3. QED
      BY <2>7, <3>2
  <2> HIDE DEF end
  <2>9. t.next = end(i + 1) /\ t.payloads = Append(s.payloads, text)
    BY <2>4, <2>5, <2>7, <2>8 DEF Take
  <2>10. PICK p \in Seq(Text) : p = s.payloads
    BY DEF Reading
  <2>11. Len(Append(p, text)) = Len(p) + 1 /\ Append(p, text)[Len(p) + 1] = text
         /\ \A k \in 1..Len(p) : Append(p, text)[k] = p[k]
    BY AppendProperties
  <2>12. \A k \in 1..(i + 1) : k = i + 1 \/ k \in 1..i
    BY <2>1
  <2>13. SameSoFar(payloads, end(i + 1), t, i + 1)
    BY <2>4, <2>6, <2>9, <2>10, <2>11, <2>12, Zenon DEF SameSoFar
  <2>14. QED
    BY <2>1, <2>3, <2>13
<1>16. \A i \in 0..n : i \in T
  <2> HIDE DEF T
  <2>1. QED
    BY <1>14, <1>15, Induction
<1>17. PICK last \in Reading : last = after[n]
  BY <1>10
<1>18. SameSoFar(payloads, size + 1, last, n)
  <2>1. SameSoFar(payloads, end(n), after[n], n)
    BY <1>16
  <2>2. end(n) = size + 1
    BY <1>4, <1>6 DEF HeaderSize
  <2> HIDE DEF end
  <2>3. QED
    BY <1>17, <2>1, <2>2
<1>19. m = n
  <2> SUFFICES ASSUME m = n + 100 PROVE FALSE
    BY <1>10
  <2>1. n + 1 \in 1..m /\ n + 1 \in 0..m /\ (n + 1) - 1 = n
    OBVIOUS
  <2>2. PythonTurn(copy, last).ok
    BY <1>11, <1>13, <1>17, <2>1 DEF PythonTurns
  <2>3. RecordOk(copy, last.next)
    BY <2>2, PythonTook
  <2>4. PICK pos \in Nat \ {0} : pos = last.next /\ pos = size + 1
    BY <1>18 DEF SameSoFar
  <2>5. /\ Number(copy[pos + 1]) \in Nat /\ PayloadEnd(copy, pos) = pos + RecordHeaderSize + Number(copy[pos + 1])
        /\ PayloadEnd(copy, pos) <= Len(copy) + 1
    BY <2>3, <2>4, RecordReads
  <2>6. QED
    BY <1>3, <1>5, <2>4, <2>5 DEF RecordHeaderSize
<1>20. Len(file) = Len(WritePython(kind, payloads))
  BY <1>2, <1>3, <1>4, <1>12, <1>17, <1>18, <1>19 DEF SameSoFar
<1>21. last.payloads = payloads
  <2>1. last.payloads \in Seq(Text) /\ payloads \in Seq(Text) /\ Len(payloads) = n
    BY DEF Reading
  <2>2. Len(last.payloads) = n /\ \A k \in 1..n : last.payloads[k] = payloads[k]
    BY <1>18 DEF SameSoFar
  <2>3. QED
    BY <2>1, <2>2, SeqEqual
<1>22. ReadPython(copy, kind) = [ok |-> TRUE, payloads |-> payloads]
  BY <1>12, <1>17, <1>19, <1>21, Zenon
<1>23. ReadPython(file, kind) = [ok |-> TRUE, payloads |-> payloads]
  BY <1>20, StartReads
<1>24. QED
  BY <1>22, <1>23, Zenon

Tells(id, kind, trust) == id \in Cell /\ id[1] = 256 /\ id[2] = kind /\ id[3] = trust

\* The id of a BRS1 record tells its kind and its trust.
LEMMA BrsIdIs ==
  ASSUME NEW kind \in Nat, NEW trust \in Nat, NEW logical \in Text, NEW payload \in Text
  PROVE  BrsId(kind, trust, logical, payload) \in Cell /\ Tells(BrsId(kind, trust, logical, payload), kind, trust)
<1>1. PICK body \in Text : body = logical \o payload
  <2>1. logical \o payload \in Text
    BY DEF Text
  <2>2. QED
    BY <2>1, Zenon
<1>2. PICK cells \in Seq(Nat) : cells = FlattenSeq(body)
  BY DigestIs
<1>3. PICK l \in Nat, p \in Nat : l = Len(logical) /\ p = Len(payload)
  BY TextFlattens
<1>4. PICK head \in Seq(Nat) : head = <<256, kind, trust, l, p>> /\ Len(head) = 5
                               /\ head[1] = 256 /\ head[2] = kind /\ head[3] = trust
  <2>1. <<256, kind, trust, l, p>> \in Seq(Nat)
    OBVIOUS
  <2>2. Len(<<256, kind, trust, l, p>>) = 5 /\ <<256, kind, trust, l, p>>[1] = 256
        /\ <<256, kind, trust, l, p>>[2] = kind /\ <<256, kind, trust, l, p>>[3] = trust
    OBVIOUS
  <2>3. QED
    BY <2>1, <2>2, Zenon
<1>5. BrsId(kind, trust, logical, payload) = head \o cells
  BY <1>1, <1>2, <1>3, <1>4, Zenon DEF BrsId
<1>6. /\ head \o cells \in Seq(Nat) /\ Len(head \o cells) = 5 + Len(cells)
      /\ \A i \in 1..(5 + Len(cells)) : (head \o cells)[i] = IF i <= 5 THEN head[i] ELSE cells[i - 5]
  BY <1>4, ConcatProperties
<1>7. 1 \in 1..(5 + Len(cells)) /\ 2 \in 1..(5 + Len(cells)) /\ 3 \in 1..(5 + Len(cells)) /\ Len(head \o cells) # 0
  BY <1>6
<1>8. head \o cells # << >>
  BY <1>6, <1>7
<1>9. QED
  BY <1>4, <1>5, <1>6, <1>7, <1>8 DEF Cell, Tells

\* Cells of a BRS1 record: eight, and then those of the two texts.
BrsCells(data, kind, trust, logical, payload, body) ==
  /\ data[1] = BrsMagic /\ data[2] = <<Version>> /\ data[3] = <<kind>> /\ data[4] = <<trust>>
  /\ data[5] = <<Len(logical)>> /\ data[6] = <<Len(payload)>>
  /\ data[7] = Crc(body) /\ data[8] = BrsId(kind, trust, logical, payload)
  /\ Len(body) = Len(logical) + Len(payload)
  /\ Len(data) = 8 + Len(body) /\ \A k \in 1..Len(body) : data[8 + k] = body[k]

\* What encode_record makes is a text of those cells.
LEMMA BrsIs ==
  ASSUME NEW kind \in Nat, NEW trust \in Nat, NEW logical \in Text, NEW payload \in Text,
         NEW body \in Text, body = logical \o payload
  PROVE  /\ BrsEncode(kind, trust, logical, payload) \in Text
         /\ BrsCells(BrsEncode(kind, trust, logical, payload), kind, trust, logical, payload, body)
<1>1. PICK l \in Nat, p \in Nat : l = Len(logical) /\ p = Len(payload)
  BY TextFlattens
<1>2. PICK a \in Cell, b \in Cell, c \in Cell, d \in Cell, e \in Cell, f \in Cell, g \in Cell, h \in Cell :
        /\ a = BrsMagic /\ b = <<Version>> /\ c = <<kind>> /\ d = <<trust>> /\ e = <<l>> /\ f = <<p>>
        /\ g = Crc(body) /\ h = BrsId(kind, trust, logical, payload)
  <2>1. BrsMagic \in Cell /\ <<Version>> \in Cell /\ <<kind>> \in Cell /\ <<trust>> \in Cell
        /\ <<l>> \in Cell /\ <<p>> \in Cell
    BY NumberInCell DEF BrsMagic, Version
  <2>2. Crc(body) \in Cell
    BY DigestIs DEF Crc
  <2>3. BrsId(kind, trust, logical, payload) \in Cell
    BY BrsIdIs
  <2>4. QED
    BY <2>1, <2>2, <2>3, Zenon
<1>3. PICK head \in Seq(Cell) : /\ head = <<a, b, c, d, e, f, g, h>> /\ Len(head) = 8
                                /\ head[1] = a /\ head[2] = b /\ head[3] = c /\ head[4] = d
                                /\ head[5] = e /\ head[6] = f /\ head[7] = g /\ head[8] = h
  <2>1. <<a, b, c, d, e, f, g, h>> \in Seq(Cell)
    OBVIOUS
  <2>2. \A s : s = <<a, b, c, d, e, f, g, h>> =>
          Len(s) = 8 /\ s[1] = a /\ s[2] = b /\ s[3] = c /\ s[4] = d /\ s[5] = e /\ s[6] = f /\ s[7] = g /\ s[8] = h
    OBVIOUS
  <2>3. QED
    BY <2>1, <2>2, Zenon
<1>4. PICK x \in Seq(Cell), y \in Seq(Cell), z \in Seq(Cell) : x = logical /\ y = payload /\ z = body
  BY DEF Text
<1>5. BrsEncode(kind, trust, logical, payload) = (head \o x) \o y
  BY <1>1, <1>2, <1>3, <1>4, Zenon DEF BrsEncode
<1>6. (head \o x) \o y = head \o z
  <2>1. Regrouped(head, x, y)
    BY Regroup
  <2>2. QED
    BY <1>4, <2>1, Zenon DEF Regrouped
<1>7. PICK data \in Seq(Cell) : data = head \o z
  BY ConcatProperties, Zenon
<1>8. Len(z) = l + p /\ Len(z) \in Nat
  BY <1>1, <1>4, ConcatProperties
<1>9. Len(data) = 8 + Len(z) /\ \A i \in 1..(8 + Len(z)) : data[i] = IF i <= 8 THEN head[i] ELSE z[i - 8]
  BY <1>3, <1>7, ConcatProperties
<1>10. \A i \in 1..8 : data[i] = head[i]
  <2>1. TAKE i \in 1..8
  <2>2. i \in 1..(8 + Len(z)) /\ i <= 8
    BY <1>8
  <2>3. QED
    BY <1>9, <2>2, Zenon
<1>11. \A k \in 1..Len(z) : data[8 + k] = z[k]
  <2>1. TAKE k \in 1..Len(z)
  <2>2. 8 + k \in 1..(8 + Len(z)) /\ ~(8 + k <= 8) /\ (8 + k) - 8 = k
    BY <1>8
  <2>3. QED
    BY <1>9, <2>2
<1>12. /\ data[1] = BrsMagic /\ data[2] = <<Version>> /\ data[3] = <<kind>> /\ data[4] = <<trust>>
       /\ data[5] = <<l>> /\ data[6] = <<p>> /\ data[7] = Crc(body) /\ data[8] = BrsId(kind, trust, logical, payload)
  <2>1. 1 \in 1..8 /\ 2 \in 1..8 /\ 3 \in 1..8 /\ 4 \in 1..8 /\ 5 \in 1..8 /\ 6 \in 1..8 /\ 7 \in 1..8 /\ 8 \in 1..8
    OBVIOUS
  <2>2. QED
    BY <1>2, <1>3, <1>10, <2>1, Zenon
<1>13. BrsCells(data, kind, trust, logical, payload, body)
  BY <1>1, <1>4, <1>8, <1>9, <1>11, <1>12, Zenon DEF BrsCells
<1>14. QED
  BY <1>5, <1>6, <1>7, <1>13, Zenon DEF Text

\* What decode_record takes: the two texts by their lengths.
BrsTakes(data, l, p, logical, payload, body) ==
  /\ Len(data) >= BrsHeaderLen /\ data[1] = BrsMagic /\ data[2] = <<Version>>
  /\ 8 + l + p = Len(data)
  /\ Crc(body) = data[7] /\ BrsId(Number(data[3]), Number(data[4]), logical, payload) = data[8]

Lengths(data, l, p) == l = Number(data[5]) /\ p = Number(data[6]) /\ 8 + l + p = Len(data)

\* What decode_record returns of a record that ends where its lengths say.
LEMMA BrsDecodeIs ==
  ASSUME NEW data \in Text, NEW l \in Nat, NEW p \in Nat, Lengths(data, l, p)
  PROVE  \E logical \in Text, payload \in Text, body \in Text :
           /\ body = logical \o payload /\ Len(logical) = l /\ Len(payload) = p /\ Len(body) = l + p
           /\ \A k \in 1..l : logical[k] = data[8 + k]
           /\ \A k \in 1..p : payload[k] = data[8 + l + k]
           /\ \A k \in 1..(l + p) : body[k] = data[8 + k]
           /\ BrsDecode(data) = IF BrsTakes(data, l, p, logical, payload, body)
                                THEN [ok |-> TRUE, kind |-> Number(data[3]), trust |-> Number(data[4]),
                                      logical |-> logical, payload |-> payload]
                                ELSE Failed
<1>1. PICK len \in Nat : len = Len(data) /\ len = 8 + l + p
  BY TextFlattens DEF Lengths
<1>2. PICK first \in Nat \ {0}, second \in Nat \ {0} : first = BrsHeaderLen + 1 /\ first = 9 /\ second = first + l
  BY DEF BrsHeaderLen
<1>3. PICK logical : logical = Cells(data, first, l)
  OBVIOUS
<1>4. PICK payload : payload = Cells(data, second, p)
  OBVIOUS
<1>5. logical \in Text /\ Len(logical) = l /\ \A k \in 1..l : logical[k] = data[8 + k]
  <2>1. /\ Cells(data, first, l) \in Text
        /\ first + l <= Len(data) + 1 => /\ Len(Cells(data, first, l)) = l
                                         /\ \A k \in 1..l : Cells(data, first, l)[k] = data[first + k - 1]
    BY CellsAre
  <2>2. first + l <= Len(data) + 1
    BY <1>1, <1>2
  <2>3. \A k \in 1..l : first + k - 1 = 8 + k
    BY <1>2
  <2>4. QED
    BY <1>3, <2>1, <2>2, <2>3, Zenon
<1>6. payload \in Text /\ Len(payload) = p /\ \A k \in 1..p : payload[k] = data[8 + l + k]
  <2>1. /\ Cells(data, second, p) \in Text
        /\ second + p <= Len(data) + 1 => /\ Len(Cells(data, second, p)) = p
                                          /\ \A k \in 1..p : Cells(data, second, p)[k] = data[second + k - 1]
    BY CellsAre
  <2>2. second + p <= Len(data) + 1
    BY <1>1, <1>2
  <2>3. \A k \in 1..p : second + k - 1 = 8 + l + k
    BY <1>2
  <2>4. QED
    BY <1>4, <2>1, <2>2, <2>3, Zenon
<1>7. PICK x \in Seq(Cell), y \in Seq(Cell) : x = logical /\ y = payload
  BY <1>5, <1>6 DEF Text
<1>8. /\ x \o y \in Seq(Cell) /\ Len(x \o y) = Len(x) + Len(y)
      /\ \A k \in 1..(Len(x) + Len(y)) : (x \o y)[k] = IF k <= Len(x) THEN x[k] ELSE y[k - Len(x)]
  BY ConcatProperties
<1>9. PICK body \in Text : body = x \o y
  BY <1>8 DEF Text
<1>10. Len(body) = l + p /\ \A k \in 1..(l + p) : body[k] = IF k <= l THEN x[k] ELSE y[k - l]
  BY <1>5, <1>6, <1>7, <1>8, <1>9, Zenon
<1>11. \A k \in 1..(l + p) : body[k] = data[8 + k]
  <2>1. TAKE k \in 1..(l + p)
  <2>2. CASE k <= l
    BY <1>5, <1>7, <1>10, <2>2
  <2>3. CASE ~(k <= l)
    <3>1. k - l \in 1..p /\ 8 + l + (k - l) = 8 + k
      BY <2>3
    <3>2. QED
      BY <1>6, <1>7, <1>10, <2>3, <3>1
  <2>4. QED
    BY <2>2, <2>3
<1>12. BrsDecode(data) = IF /\ Len(data) >= BrsHeaderLen /\ data[1] = BrsMagic /\ data[2] = <<Version>>
                            /\ second + p = Len(data) + 1
                            /\ Crc(body) = data[7] /\ BrsId(Number(data[3]), Number(data[4]), logical, payload) = data[8]
                         THEN [ok |-> TRUE, kind |-> Number(data[3]), trust |-> Number(data[4]),
                               logical |-> logical, payload |-> payload]
                         ELSE Failed
  BY <1>2, <1>3, <1>4, <1>7, <1>9, Zenon DEF BrsDecode, Lengths
<1>13. second + p = Len(data) + 1 <=> 8 + l + p = Len(data)
  BY <1>1, <1>2
<1>14. BrsDecode(data) = IF BrsTakes(data, l, p, logical, payload, body)
                         THEN [ok |-> TRUE, kind |-> Number(data[3]), trust |-> Number(data[4]),
                               logical |-> logical, payload |-> payload]
                         ELSE Failed
  BY <1>12, <1>13, Zenon DEF BrsTakes
<1>15. QED
  BY <1>5, <1>6, <1>7, <1>9, <1>10, <1>11, <1>14, Zenon

\* A record that is decoded ends where its lengths say.
LEMMA BrsEnds ==
  ASSUME NEW data \in Text, NEW l \in Nat, NEW p \in Nat, l = Number(data[5]), p = Number(data[6]), BrsDecode(data).ok
  PROVE  Lengths(data, l, p)
<1>1. PICK len \in Nat : len = Len(data)
  BY TextFlattens
<1>2. ~Failed.ok
  BY DEF Failed
<1>3. BrsHeaderLen + 1 + l + p = len + 1
  BY <1>1, <1>2, Zenon DEF BrsDecode
<1>4. 8 + l + p = len
  BY <1>3 DEF BrsHeaderLen
<1>5. QED
  BY <1>1, <1>4, Zenon DEF Lengths

\* A record is decoded as what was encoded.
LEMMA BrsDecodes ==
  ASSUME NEW kind \in Nat, NEW trust \in Nat, NEW logical \in Text, NEW payload \in Text
  PROVE  BrsDecode(BrsEncode(kind, trust, logical, payload))
           = [ok |-> TRUE, kind |-> kind, trust |-> trust, logical |-> logical, payload |-> payload]
<1>1. PICK body \in Text : body = logical \o payload
  <2>1. logical \o payload \in Text
    BY DEF Text
  <2>2. QED
    BY <2>1, Zenon
<1>2. PICK data \in Text : data = BrsEncode(kind, trust, logical, payload)
                           /\ BrsCells(data, kind, trust, logical, payload, body)
  BY <1>1, BrsIs
<1>3. PICK l \in Nat, p \in Nat : l = Len(logical) /\ p = Len(payload)
  BY TextFlattens
<1>4. /\ data[1] = BrsMagic /\ data[2] = <<Version>> /\ data[3] = <<kind>> /\ data[4] = <<trust>>
      /\ data[5] = <<l>> /\ data[6] = <<p>> /\ data[7] = Crc(body) /\ data[8] = BrsId(kind, trust, logical, payload)
      /\ Len(body) = l + p /\ Len(data) = 8 + Len(body) /\ \A k \in 1..Len(body) : data[8 + k] = body[k]
  BY <1>2, <1>3, Zenon DEF BrsCells
<1>5. Number(data[3]) = kind /\ Number(data[4]) = trust /\ Number(data[5]) = l /\ Number(data[6]) = p
  BY <1>4, NumberInCell
<1>6. Len(data) = 8 + l + p
  BY <1>4
<1>7. Lengths(data, l, p)
  BY <1>5, <1>6 DEF Lengths
<1>8. PICK lg \in Text, pl \in Text, bd \in Text :
        /\ bd = lg \o pl /\ Len(lg) = l /\ Len(pl) = p /\ Len(bd) = l + p
        /\ \A k \in 1..l : lg[k] = data[8 + k]
        /\ \A k \in 1..p : pl[k] = data[8 + l + k]
        /\ \A k \in 1..(l + p) : bd[k] = data[8 + k]
        /\ BrsDecode(data) = IF BrsTakes(data, l, p, lg, pl, bd)
                             THEN [ok |-> TRUE, kind |-> Number(data[3]), trust |-> Number(data[4]),
                                   logical |-> lg, payload |-> pl]
                             ELSE Failed
  BY <1>7, BrsDecodeIs, Zenon
<1>9. /\ \A k \in 1..l : body[k] = logical[k]
      /\ \A k \in 1..p : body[l + k] = payload[k]
  <2>1. PICK x \in Seq(Cell), y \in Seq(Cell) : x = logical /\ y = payload /\ Len(x) = l /\ Len(y) = p
    BY <1>3 DEF Text
  <2>2. \A k \in 1..(l + p) : (x \o y)[k] = IF k <= l THEN x[k] ELSE y[k - l]
    BY <2>1, ConcatProperties
  <2>3. \A k \in 1..l : (x \o y)[k] = x[k]
    <3>1. TAKE k \in 1..l
    <3>2. k \in 1..(l + p) /\ k <= l
      OBVIOUS
    <3>3. QED
      BY <2>2, <3>2
  <2>4. \A k \in 1..p : (x \o y)[l + k] = y[k]
    <3>1. TAKE k \in 1..p
    <3>2. l + k \in 1..(l + p) /\ ~(l + k <= l) /\ (l + k) - l = k
      OBVIOUS
    <3>3. QED
      BY <2>2, <3>2
  <2>5. QED
    BY <1>1, <2>1, <2>3, <2>4, Zenon
<1>10. lg = logical
  <2>1. \A k \in 1..l : lg[k] = logical[k]
    BY <1>4, <1>8, <1>9
  <2>2. QED
    BY <1>3, <1>8, <2>1, SeqEqual DEF Text
<1>11. pl = payload
  <2>1. \A k \in 1..p : pl[k] = payload[k]
    <3>1. TAKE k \in 1..p
    <3>2. l + k \in 1..Len(body) /\ 8 + (l + k) = 8 + l + k
      BY <1>4
    <3>3. QED
      BY <1>4, <1>8, <1>9, <3>2
  <2>2. QED
    BY <1>3, <1>8, <2>1, SeqEqual DEF Text
<1>12. bd = body
  BY <1>1, <1>8, <1>10, <1>11
<1>13. BrsTakes(data, l, p, lg, pl, bd)
  <2>1. Len(data) >= BrsHeaderLen
    BY <1>6 DEF BrsHeaderLen
  <2>2. QED
    BY <1>4, <1>5, <1>6, <1>10, <1>11, <1>12, <2>1, Zenon DEF BrsTakes
<1>14. QED
  BY <1>2, <1>5, <1>8, <1>10, <1>11, <1>13, Zenon

\* A record with a byte changed is never decoded.
LEMMA BrsDamage ==
  ASSUME NEW kind \in Nat, NEW trust \in Nat, NEW logical \in Text, NEW payload \in Text,
         NEW data, data = BrsEncode(kind, trust, logical, payload), NEW offset \in 1..Len(data),
         NEW copy \in Text, Damaged(copy, data, offset)
  PROVE  ~BrsDecode(copy).ok
<1> SUFFICES ASSUME BrsDecode(copy).ok PROVE FALSE
  OBVIOUS
<1>1. PICK body \in Text : body = logical \o payload
  <2>1. logical \o payload \in Text
    BY DEF Text
  <2>2. QED
    BY <2>1, Zenon
<1>2. data \in Text /\ BrsCells(data, kind, trust, logical, payload, body)
  BY <1>1, BrsIs
<1>3. PICK l \in Nat, p \in Nat : l = Len(logical) /\ p = Len(payload)
  BY TextFlattens
<1>4. /\ data[1] = BrsMagic /\ data[2] = <<Version>> /\ data[3] = <<kind>> /\ data[4] = <<trust>>
      /\ data[5] = <<l>> /\ data[6] = <<p>> /\ data[7] = Crc(body) /\ data[8] = BrsId(kind, trust, logical, payload)
      /\ Len(body) = l + p /\ Len(data) = 8 + Len(body) /\ \A k \in 1..Len(body) : data[8 + k] = body[k]
  BY <1>2, <1>3, Zenon DEF BrsCells
<1>5. PICK len \in Nat : len = Len(data) /\ len = Len(copy) /\ len = 8 + l + p
  BY <1>4 DEF Damaged
<1>6. copy[offset] = Flip(data[offset]) /\ \A i \in 1..len : i # offset => copy[i] = data[i]
  BY <1>5, Zenon DEF Damaged
<1>7. \A i \in 1..8 : i \in 1..len
  BY <1>5
<1>8. copy[5] \in Cell /\ copy[6] \in Cell
  <2>1. \A i \in 1..Len(copy) : copy[i] \in Cell
    BY DEF Text
  <2>2. QED
    BY <1>5, <1>7, <2>1
<1>9. PICK m \in Nat, n \in Nat : m = Number(copy[5]) /\ n = Number(copy[6])
  BY <1>8, NumberInCell
<1>10. Lengths(copy, m, n)
  BY <1>9, BrsEnds, Zenon
<1>11. m + n = l + p
  BY <1>5, <1>10 DEF Lengths
<1>12. offset # 5 /\ offset # 6 /\ m = l /\ n = p
  <2>1. m = IF offset = 5 THEN l + 100 ELSE l
    <3>1. 5 \in 1..8 /\ 5 \in 1..len
      BY <1>5
    <3>2. CASE offset = 5
      <4>1. copy[5] = Flip(<<l>>)
        BY <1>4, <1>6, <3>2, Zenon
      <4>2. QED
        BY <1>9, <3>2, <4>1, FlippedNumber
    <3>3. CASE offset # 5
      <4>1. copy[5] = <<l>>
        BY <1>4, <1>6, <3>1, <3>3, Zenon
      <4>2. QED
        BY <1>9, <3>3, <4>1, NumberInCell
    <3>4. QED
      BY <3>2, <3>3
  <2>2. n = IF offset = 6 THEN p + 100 ELSE p
    <3>1. 6 \in 1..8 /\ 6 \in 1..len
      BY <1>5
    <3>2. CASE offset = 6
      <4>1. copy[6] = Flip(<<p>>)
        BY <1>4, <1>6, <3>2, Zenon
      <4>2. QED
        BY <1>9, <3>2, <4>1, FlippedNumber
    <3>3. CASE offset # 6
      <4>1. copy[6] = <<p>>
        BY <1>4, <1>6, <3>1, <3>3, Zenon
      <4>2. QED
        BY <1>9, <3>3, <4>1, NumberInCell
    <3>4. QED
      BY <3>2, <3>3
  <2>3. QED
    BY <1>11, <2>1, <2>2
<1>13. PICK lg \in Text, pl \in Text, bd \in Text :
         /\ bd = lg \o pl /\ Len(lg) = l /\ Len(pl) = p /\ Len(bd) = l + p
         /\ \A k \in 1..(l + p) : bd[k] = copy[8 + k]
         /\ BrsDecode(copy) = IF BrsTakes(copy, l, p, lg, pl, bd)
                              THEN [ok |-> TRUE, kind |-> Number(copy[3]), trust |-> Number(copy[4]),
                                    logical |-> lg, payload |-> pl]
                              ELSE Failed
  BY <1>10, <1>12, BrsDecodeIs, Zenon
<1>14. BrsTakes(copy, l, p, lg, pl, bd)
  <2>1. ~Failed.ok
    BY DEF Failed
  <2>2. QED
    BY <1>13, <2>1, Zenon
<1>15. /\ copy[1] = BrsMagic /\ copy[2] = <<Version>> /\ Crc(bd) = copy[7]
       /\ BrsId(Number(copy[3]), Number(copy[4]), lg, pl) = copy[8]
  BY <1>14, Zenon DEF BrsTakes
<1>16. offset # 1 /\ offset # 2
  <2>1. Flip(BrsMagic) # BrsMagic /\ Flip(<<Version>>) # <<Version>>
    BY FlippedNumber DEF BrsMagic, Version
  <2>2. QED
    BY <1>4, <1>6, <1>15, <2>1
<1>17. offset # 7
  <2>1. Flip(Crc(body)) # Crc(bd)
    BY FlippedNumber DEF Crc
  <2>2. QED
    BY <1>4, <1>6, <1>15, <2>1
<1>18. PICK k2 \in Nat, t2 \in Nat : /\ k2 = Number(copy[3]) /\ t2 = Number(copy[4])
                                     /\ k2 = (IF offset = 3 THEN kind + 100 ELSE kind)
                                     /\ t2 = (IF offset = 4 THEN trust + 100 ELSE trust)
  <2>1. 3 \in 1..len /\ 4 \in 1..len
    BY <1>5
  <2>2. Number(copy[3]) = IF offset = 3 THEN kind + 100 ELSE kind
    <3>1. CASE offset = 3
      <4>1. copy[3] = Flip(<<kind>>)
        BY <1>4, <1>6, <3>1, Zenon
      <4>2. QED
        BY <3>1, <4>1, FlippedNumber
    <3>2. CASE offset # 3
      <4>1. copy[3] = <<kind>>
        BY <1>4, <1>6, <2>1, <3>2, Zenon
      <4>2. QED
        BY <3>2, <4>1, NumberInCell
    <3>3. QED
      BY <3>1, <3>2
  <2>3. Number(copy[4]) = IF offset = 4 THEN trust + 100 ELSE trust
    <3>1. CASE offset = 4
      <4>1. copy[4] = Flip(<<trust>>)
        BY <1>4, <1>6, <3>1, Zenon
      <4>2. QED
        BY <3>1, <4>1, FlippedNumber
    <3>2. CASE offset # 4
      <4>1. copy[4] = <<trust>>
        BY <1>4, <1>6, <2>1, <3>2, Zenon
      <4>2. QED
        BY <3>2, <4>1, NumberInCell
    <3>3. QED
      BY <3>1, <3>2
  <2>4. Number(copy[3]) \in Nat /\ Number(copy[4]) \in Nat
    BY <2>2, <2>3
  <2>5. QED
    BY <2>2, <2>3, <2>4, Zenon
<1>19. PICK id \in Cell : id = BrsId(k2, t2, lg, pl) /\ id[1] = 256 /\ id[2] = k2 /\ id[3] = t2
  <2>1. BrsId(k2, t2, lg, pl) \in Cell /\ Tells(BrsId(k2, t2, lg, pl), k2, t2)
    BY BrsIdIs
  <2>2. QED
    BY <2>1, Zenon DEF Tells
<1>20. PICK old \in Cell : /\ old = BrsId(kind, trust, logical, payload)
                           /\ old[1] = 256 /\ old[2] = kind /\ old[3] = trust
  <2>1. BrsId(kind, trust, logical, payload) \in Cell /\ Tells(BrsId(kind, trust, logical, payload), kind, trust)
    BY BrsIdIs
  <2>2. QED
    BY <2>1, Zenon DEF Tells
<1>20a. id = copy[8]
  BY <1>15, <1>18, <1>19, Zenon
<1>20b. id = IF offset = 8 THEN Flip(old) ELSE old
  <2>3. 8 \in 1..len
    BY <1>5
  <2>4. CASE offset = 8
    BY <1>4, <1>6, <1>20, <1>20a, <2>4, Zenon
  <2>5. CASE offset # 8
    BY <1>4, <1>6, <1>20, <1>20a, <2>3, <2>5, Zenon
  <2>6. QED
    BY <2>4, <2>5
<1>21. offset # 8
  <2>1. Flip(old)[1] = old[1] + 100
    BY FlipIs
  <2>2. QED
    BY <1>19, <1>20, <1>20b, <2>1
<1>22. offset # 3 /\ offset # 4
  BY <1>18, <1>19, <1>20, <1>20b, <1>21
<1>23. offset \in 9..len
  BY <1>5, <1>12, <1>16, <1>17, <1>21, <1>22
<1>24. PICK place \in 1..(l + p) : offset = 8 + place
  <2>1. offset - 8 \in 1..(l + p) /\ offset = 8 + (offset - 8)
    BY <1>5, <1>23
  <2>2. QED
    BY <2>1, Zenon
<1>25. bd[place] = Flip(body[place])
  BY <1>4, <1>6, <1>13, <1>24
<1>26. \A k \in 1..(l + p) : k # place => bd[k] = body[k]
  <2>1. TAKE k \in 1..(l + p)
  <2>2. 8 + k \in 1..len /\ (k # place => 8 + k # offset)
    BY <1>5, <1>24
  <2>3. QED
    BY <1>4, <1>6, <1>13, <2>2
<1>27. FlattenSeq(body) # FlattenSeq(bd)
  <2>1. Len(bd) = Len(body) /\ place \in 1..Len(body) /\ \A k \in 1..Len(body) : k # place => bd[k] = body[k]
    BY <1>4, <1>13, <1>26
  <2>2. QED
    BY <1>25, <2>1, ChangedFlat
<1>28. Digest(32, body) = Digest(32, bd) /\ 32 \in Nat
  <2>1. Crc(bd) = Crc(body)
    BY <1>4, <1>6, <1>7, <1>15, <1>17
  <2>2. QED
    BY <2>1, Zenon DEF Crc
<1>29. QED
  BY <1>27, <1>28, DigestTells

\* A change of one byte is seen by both readers, or is where no data are; that
\* of a BRS1 record or of an index is always seen.
THEOREM DamageIsSeenHolds == Spec => []DamageIsSeen
<1>1. ASSUME StoreInv, aside.is = "copy", NEW rust \in BOOLEAN, ReadRecords(aside.data, aside.kind, rust).ok
      PROVE  ReadRecords(aside.data, aside.kind, rust) = aside.was
  <2> HIDE DEF Text
  <2>1. Typed /\ Written /\ Aside
    BY <1>1 DEF StoreInv
  <2>2. PICK kind \in Kinds : \E offset \in DOMAIN files[kind] : Copy(files[kind], kind, offset)
    BY <1>1, <2>1, AsideIs
  <2>3. PICK offset \in DOMAIN files[kind] : Copy(files[kind], kind, offset)
    BY <2>2
  <2>4. PICK file \in Text : file = files[kind]
    BY <2>1 DEF Typed
  <2>5. PICK len \in Nat : len = Len(file)
    BY DEF Text
  <2>6. offset \in 1..Len(file) /\ offset \in DOMAIN file
    BY <2>3, <2>4 DEF Text
  <2>7. PICK copy : copy = [file EXCEPT ![offset] = Flip(@)]
    OBVIOUS
  <2>8. copy \in Text /\ Damaged(copy, file, offset)
    <3>1. /\ copy \in Text /\ Len(copy) = Len(file) /\ copy[offset] = Flip(file[offset])
          /\ \A i \in DOMAIN file : i # offset => copy[i] = file[i]
      BY <2>6, <2>7, FlippedIs
    <3>2. DOMAIN file = 1..Len(file)
      BY DEF Text
    <3>3. QED
      BY <3>1, <3>2, Zenon DEF Damaged
  <2>9. /\ aside.kind = kind /\ aside.data = copy /\ aside.was = ReadPython(file, kind)
        /\ Len(file) > HeaderSize + RecordHeaderSize
    BY <2>3, <2>4, <2>7, Zenon DEF Copy
  <2>10. ReadRecords(copy, kind, rust) = ReadPython(copy, kind)
    BY <2>8, SameRead
  <2>11. ReadPython(copy, kind).ok
    BY <1>1, <2>9, <2>10, Zenon
  <2>12. PICK payloads \in Seq(Text) : payloads = begun[kind]
    BY <2>1, PayloadsAre DEF Typed
  <2>13. Starts(file, WritePython(kind, payloads))
    BY <2>1, <2>4, <2>12 DEF Written
  <2>14. PICK n \in Nat : n = Len(payloads) /\ payloads \in [1..n -> Text]
    BY WholeIs
  <2>15. ReadPython(copy, kind) = ReadPython(file, kind)
    BY <2>6, <2>8, <2>9, <2>11, <2>13, <2>14, DamagedReads
  <2>16. QED
    BY <2>9, <2>10, <2>15, Zenon
<1>2. ASSUME StoreInv, aside.is = "brs"
      PROVE  LET got == BrsDecode(aside.data)
             IN  IF aside.offset > 0 THEN ~got.ok
                 ELSE got = [ok |-> TRUE, kind |-> SeedKind, trust |-> aside.trust,
                             logical |-> Payload(1), payload |-> Payload(aside.n)]
  <2>1. PICK n \in DOMAIN Rows, trust \in Trusts :
          \E offset \in 0..Len(BrsEncode(SeedKind, trust, Payload(1), Payload(n))) : Brs(n, trust, offset)
    BY <1>2, AsideIs DEF StoreInv
  <2>2. PICK logical \in Text, payload \in Text : logical = Payload(1) /\ payload = Payload(n)
    BY <2>1, PayloadsAre
  <2>3. PICK kind \in Nat, state \in Nat : kind = SeedKind /\ state = trust
    BY BinaryStoreAssumption DEF SeedKind
  <2>4. PICK data \in Text : data = BrsEncode(kind, state, logical, payload)
    <3>1. PICK body \in Text : body = logical \o payload
      <4>1. logical \o payload \in Text
        BY DEF Text
      <4>2. QED
        BY <4>1, Zenon
    <3>2. QED
      BY <3>1, BrsIs
  <2>5. PICK len \in Nat : len = Len(data)
    BY TextFlattens
  <2>6. PICK offset \in 0..len : Brs(n, trust, offset)
    BY <2>1, <2>2, <2>3, <2>4, <2>5, Zenon
  <2>7. /\ aside.n = n /\ aside.trust = trust /\ aside.offset = offset
        /\ aside.data = BrsFlipped(data, offset)
    BY <2>2, <2>3, <2>4, <2>6, Zenon DEF Brs
  <2>8. CASE offset = 0
    <3>1. aside.data = data
      BY <2>7, <2>8, Zenon DEF BrsFlipped
    <3>2. BrsDecode(data) = [ok |-> TRUE, kind |-> kind, trust |-> state, logical |-> logical, payload |-> payload]
      BY <2>4, BrsDecodes, Zenon
    <3>3. ~(aside.offset > 0)
      BY <2>7, <2>8
    <3>4. QED
      BY <2>2, <2>3, <2>7, <3>1, <3>2, <3>3, Zenon
  <2>9. CASE offset # 0
    <3>1. PICK copy : copy = [data EXCEPT ![offset] = Flip(@)]
      OBVIOUS
    <3>2. offset \in 1..Len(data) /\ offset \in DOMAIN data /\ DOMAIN data = 1..Len(data)
      BY <2>5, <2>9 DEF Text
    <3>3. copy \in Text /\ Damaged(copy, data, offset)
      <4>1. /\ copy \in Text /\ Len(copy) = Len(data) /\ copy[offset] = Flip(data[offset])
            /\ \A i \in DOMAIN data : i # offset => copy[i] = data[i]
        BY <3>1, <3>2, FlippedIs
      <4>2. QED
        BY <3>2, <4>1, Zenon DEF Damaged
    <3>4. ~BrsDecode(copy).ok
      BY <2>4, <3>2, <3>3, BrsDamage
    <3>5. aside.data = copy
      BY <2>7, <2>9, <3>1, Zenon DEF BrsFlipped
    <3>6. aside.offset > 0
      BY <2>7, <2>9
    <3>7. QED
      BY <3>4, <3>5, <3>6, Zenon
  <2>10. QED
    BY <2>8, <2>9
<1>3. ASSUME StoreInv, aside.is = "index"
      PROVE  ~ReadIndex(aside.file).ok
  <2>1. index.cells = 2 /\ aside.file = [index EXCEPT !.body = NoPayload]
    BY <1>3, AsideIs DEF StoreInv
  <2>2. PICK payload : IndexOf(payload, raced) /\ index = IndexFile(payload)
    <3>1. NoIndex.cells = 0
      BY DEF NoIndex
    <3>2. \A payload : \A cells \in 0..1 : TornIndex(payload, cells).cells = cells
      BY DEF TornIndex
    <3>3. index # NoIndex /\ \A payload : \A cells \in 0..1 : index # TornIndex(payload, cells)
      BY <2>1, <3>1, <3>2
    <3>4. Indexed
      BY <1>3 DEF StoreInv
    <3>5. \/ index = NoIndex
          \/ \E payload : IndexOf(payload, raced) /\ index = IndexFile(payload)
          \/ \E payload : \E cells \in 0..1 : index = TornIndex(payload, cells)
      BY <3>4, Zenon DEF Indexed
    <3>6. QED
      BY <3>3, <3>5, Zenon
  <2>3. payload # NoPayload
    <3>1. PICK seeds \in Seq(Text), bridges \in Seq(Text) : payload = IndexPayload(seeds, bridges)
      BY <2>2, IndexOfTexts
    <3>2. PICK S : IndexRows(seeds, bridges) \in Seq(S)
      BY RowsAre
    <3>3. PICK rows \in Seq(S) : rows = IndexRows(seeds, bridges)
      BY <3>2
    <3>4. payload = [count |-> Len(rows), records |-> rows, lookups |-> Positions(rows)]
      BY <3>1, <3>3, RowsAre, Zenon
    <3>5. payload.count = Len(rows) /\ Len(rows) \in Nat
      BY <3>4
    <3>6. NoPayload.count = -1
      BY DEF NoPayload
    <3>7. QED
      BY <3>5, <3>6
  <2>4. aside.file.crc = payload /\ aside.file.body = NoPayload
    BY <2>1, <2>2 DEF IndexFile
  <2>5. ~Failed.ok
    BY DEF Failed
  <2>6. QED
    BY <2>3, <2>4, <2>5, Zenon DEF ReadIndex
<1>4. StoreInv => DamageIsSeen
  BY <1>1, <1>2, <1>3, Zenon DEF DamageIsSeen
<1>5. QED
  BY <1>4, StoreInvariant, PTL
=============================================================================
