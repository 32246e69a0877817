------------------------ MODULE QueryHistoryProofs -------------------------
(***************************************************************************)
(* What the history promises, for any processes, calls and bounds.         *)
(***************************************************************************)
EXTENDS QueryHistory, ListProofs

----------------------------------------------------------------------------
(* Why the log keeps them: the invariant that every step preserves *)

Sequence(s) == s \in Seq({s[i] : i \in DOMAIN s})

\* The files: only what was the log is appended to, so a .tmp holds no more
\* than what was written to it.
FilesInv ==
  /\ disk = [live |-> disk.live, tmp |-> disk.tmp, data |-> disk.data]
  /\ DOMAIN disk.data = 1..(Cardinality(Actors) + 2)
  /\ \A file \in DOMAIN disk.data : Sequence(disk.data[file])
  /\ Sequence(appended)
  /\ disk.tmp # NoFile => Len(disk.data[disk.tmp]) <= Kept

\* A process has a file open just while it is at the log.
CallInv(a) ==
  LET call == caller[a]
  IN  /\ "at" \in DOMAIN call
      /\ AtLog(a) <=> "file" \in DOMAIN call
      /\ AtLog(a) => call.file \in DOMAIN disk.data /\ disk.live # NoFile
      /\ call.at = "append" => call.file # disk.tmp
      /\ call.at \in {"open tmp", "write tmp", "replace"} =>
           "newest" \in DOMAIN call /\ Sequence(call.newest) /\ Len(call.newest) <= Kept

\* Those that have added a row to the log and will cut it: once a .tmp was
\* opened, the log is replaced before the .tmp is gone.
Cutting ==
  {a \in Actors : \/ caller[a].at \in {"read", "open tmp"}
                  \/ caller[a].at \in {"write tmp", "replace"} /\ disk.tmp # NoFile}

RowsInv == Len(Log) <= Kept + faults + Cardinality(Cutting)

\* What a process that is alone at the log has of it.
AloneAtLog(a) ==
  LET call == caller[a]
  IN  /\ call.at \in {"append", "read", "open tmp"} => call.file = disk.live
      /\ call.at \in {"open tmp", "write tmp", "replace"} => call.newest = LastOf(Log, Kept)
      /\ call.at \in {"write tmp", "replace"} => call.file = disk.tmp
      /\ call.at = "write tmp" => disk.data[call.file] = << >>
      /\ call.at = "replace" => disk.data[call.file] = call.newest

NewestInv ==
  ~overlap =>
    /\ \A a, b \in Actors : AtLog(a) /\ AtLog(b) => a = b
    /\ \A a \in Actors : AloneAtLog(a)
    /\ NewestKept

HistoryInv ==
  /\ TypeOK /\ FilesInv
  /\ DOMAIN caller = Actors /\ \A a \in Actors : CallInv(a)
  /\ RowsInv

----------------------------------------------------------------------------
(* Two numbers, and the end of a sequence *)

LEMMA MaxOfTwo ==
  ASSUME NEW a \in Int, NEW b \in Int
  PROVE  Max({a, b}) = IF a <= b THEN b ELSE a
<1>1. \E m \in {a, b} : \A n \in {a, b} : m >= n
  OBVIOUS
<1>2. Max({a, b}) \in {a, b} /\ \A n \in {a, b} : Max({a, b}) >= n
  BY <1>1 DEF Max
<1>3. QED
  BY <1>2

LEMMA MinOfTwo ==
  ASSUME NEW a \in Int, NEW b \in Int
  PROVE  Min({a, b}) = IF a <= b THEN a ELSE b
<1>1. \E m \in {a, b} : \A n \in {a, b} : m <= n
  OBVIOUS
<1>2. Min({a, b}) \in {a, b} /\ \A n \in {a, b} : Min({a, b}) <= n
  BY <1>1 DEF Min
<1>3. QED
  BY <1>2

LEMMA KeptType == Kept \in Nat \ {0}
<1>1. Max({1, MaxEntries}) \in Nat \ {0}
  BY MaxOfTwo, QueryHistoryAssumption
<1>2. QED
  BY <1>1, QueryHistoryAssumption DEF Kept

LEMMA MinKept ==
  ASSUME NEW r \in Nat
  PROVE  /\ Min({Kept, r}) \in Nat /\ Min({Kept, r}) <= Kept /\ Min({Kept, r}) <= r
         /\ Min({Kept, r}) = Kept \/ Min({Kept, r}) = r
<1>1. Kept \in Nat
  BY KeptType
<1>2. Min({Kept, r}) = IF Kept <= r THEN Kept ELSE r
  BY <1>1, MinOfTwo
<1>3. CASE Kept <= r
  BY <1>1, <1>2, <1>3
<1>4. CASE ~(Kept <= r)
  BY <1>1, <1>2, <1>4
<1>5. QED
  BY <1>3, <1>4

LEMMA SequenceOf ==
  ASSUME NEW S, NEW s \in Seq(S)
  PROVE  Sequence(s) /\ Len(s) \in Nat /\ DOMAIN s = 1..Len(s)
<1>1. Len(s) \in Nat /\ DOMAIN s = 1..Len(s) /\ s = [i \in 1..Len(s) |-> s[i]]
  OBVIOUS
<1> DEFINE T == {s[i] : i \in DOMAIN s}
<1>2. s \in [1..Len(s) -> T]
  BY <1>1
<1>3. s \in Seq(T)
  BY <1>1, <1>2
<1>4. QED
  BY <1>1, <1>3 DEF Sequence

LEMMA SequenceHas ==
  ASSUME NEW s, Sequence(s)
  PROVE  Len(s) \in Nat /\ DOMAIN s = 1..Len(s)
BY DEF Sequence

LEMMA NoRows == Sequence(<< >>) /\ Len(<< >>) = 0
<1>1. << >> \in Seq({})
  OBVIOUS
<1>2. QED
  BY <1>1, SequenceOf

LEMMA AppendIs ==
  ASSUME NEW s, Sequence(s), NEW x
  PROVE  /\ Sequence(Append(s, x)) /\ Len(Append(s, x)) = Len(s) + 1
         /\ \A i \in 1..Len(s) : Append(s, x)[i] = s[i]
         /\ Append(s, x)[Len(s) + 1] = x
<1> DEFINE T == {s[i] : i \in DOMAIN s} \cup {x}
<1>1. s \in Seq(T)
  <2>1. Len(s) \in Nat /\ s \in [1..Len(s) -> {s[i] : i \in DOMAIN s}]
    BY DEF Sequence
  <2>2. s \in [1..Len(s) -> T]
    BY <2>1
  <2>3. QED
    BY <2>1, <2>2
<1>2. x \in T
  OBVIOUS
<1> HIDE DEF T
<1>3. Append(s, x) \in Seq(T) /\ Len(Append(s, x)) = Len(s) + 1
  BY <1>1, <1>2
<1>4. /\ \A i \in 1..Len(s) : Append(s, x)[i] = s[i]
      /\ Append(s, x)[Len(s) + 1] = x
  BY <1>1, <1>2
<1>5. QED
  BY <1>3, <1>4, SequenceOf

LEMMA SubSeqIs ==
  ASSUME NEW s, Sequence(s), NEW m \in Nat \ {0}, NEW n \in Nat, n <= Len(s), m <= n + 1
  PROVE  /\ Sequence(SubSeq(s, m, n)) /\ Len(SubSeq(s, m, n)) = n - m + 1
         /\ \A i \in 1..(n - m + 1) : SubSeq(s, m, n)[i] = s[m + i - 1]
<1> DEFINE T == {s[i] : i \in DOMAIN s}
<1>1. s \in Seq(T)
  BY DEF Sequence
<1> HIDE DEF T
<1>2. SubSeq(s, m, n) \in Seq(T)
  BY <1>1
<1>3. Len(SubSeq(s, m, n)) = n - m + 1
  BY <1>1
<1>4. \A i \in 1..(n - m + 1) : SubSeq(s, m, n)[i] = s[m + i - 1]
  BY <1>1
<1>5. QED
  BY <1>2, <1>3, <1>4, SequenceOf

LEMMA SameSequence ==
  ASSUME NEW s, NEW t, Sequence(s), Sequence(t), Len(s) = Len(t),
         \A i \in 1..Len(s) : s[i] = t[i]
  PROVE  s = t
<1>1. /\ Len(s) \in Nat
      /\ s = [i \in 1..Len(s) |-> s[i]]
      /\ t = [i \in 1..Len(t) |-> t[i]]
  BY DEF Sequence
<1>2. QED
  BY <1>1

\* How many rows LastOf has, and which.
LastLen(rows, n) == IF n <= Len(rows) THEN n ELSE Len(rows)

LEMMA LastLenIs ==
  ASSUME NEW rows, Len(rows) \in Nat, NEW n \in Nat
  PROVE  /\ LastLen(rows, n) \in Nat /\ LastLen(rows, n) <= Len(rows) /\ LastLen(rows, n) <= n
         /\ n <= Len(rows) => LastLen(rows, n) = n
         /\ ~(n <= Len(rows)) => LastLen(rows, n) = Len(rows)
<1>1. CASE n <= Len(rows)
  BY <1>1 DEF LastLen
<1>2. CASE ~(n <= Len(rows))
  BY <1>2 DEF LastLen
<1>3. QED
  BY <1>1, <1>2

LEMMA LastOfIs ==
  ASSUME NEW rows, Sequence(rows), NEW n \in Nat
  PROVE  /\ Sequence(LastOf(rows, n)) /\ Len(LastOf(rows, n)) = LastLen(rows, n)
         /\ \A i \in 1..LastLen(rows, n) : LastOf(rows, n)[i] = rows[Len(rows) - LastLen(rows, n) + i]
<1> DEFINE m == Len(rows) - LastLen(rows, n) + 1
<1>1. Len(rows) \in Nat
  BY SequenceHas
<1>2. Max({1, Len(rows) - n + 1}) = m
  <2>1. Len(rows) - n + 1 \in Int
    BY <1>1
  <2>2. Max({1, Len(rows) - n + 1}) = IF 1 <= Len(rows) - n + 1 THEN Len(rows) - n + 1 ELSE 1
    BY <2>1, MaxOfTwo
  <2>3. QED
    BY <1>1, <2>2, LastLenIs
<1>3. m \in Nat \ {0} /\ m <= Len(rows) + 1 /\ Len(rows) - m + 1 = LastLen(rows, n)
  BY <1>1, LastLenIs
<1>4. LastOf(rows, n) = SubSeq(rows, m, Len(rows))
  BY <1>2 DEF LastOf
<1> HIDE DEF m
<1>5. /\ Sequence(SubSeq(rows, m, Len(rows)))
      /\ Len(SubSeq(rows, m, Len(rows))) = LastLen(rows, n)
      /\ \A i \in 1..LastLen(rows, n) : SubSeq(rows, m, Len(rows))[i] = rows[m + i - 1]
  BY <1>1, <1>3, SubSeqIs
<1>6. \A i \in 1..LastLen(rows, n) : m + i - 1 = Len(rows) - LastLen(rows, n) + i
  BY <1>1, <1>3 DEF m
<1>7. QED
  BY <1>4, <1>5, <1>6

\* The last rows of the last rows.
LEMMA LastOfLast ==
  ASSUME NEW rows, Sequence(rows), NEW k \in Nat, NEW n \in Nat, NEW m \in Nat,
         LastLen(rows, m) <= k, LastLen(rows, m) = IF n <= LastLen(rows, k) THEN n ELSE LastLen(rows, k)
  PROVE  LastOf(LastOf(rows, k), n) = LastOf(rows, m)
<1> DEFINE inner == LastOf(rows, k)
<1>1. /\ Len(rows) \in Nat /\ Sequence(inner) /\ Len(inner) = LastLen(rows, k)
      /\ \A i \in 1..LastLen(rows, k) : inner[i] = rows[Len(rows) - LastLen(rows, k) + i]
  BY LastOfIs, SequenceHas
<1> HIDE DEF inner
<1>2. /\ Sequence(LastOf(inner, n)) /\ Len(LastOf(inner, n)) = LastLen(inner, n)
      /\ \A i \in 1..LastLen(inner, n) : LastOf(inner, n)[i] = inner[Len(inner) - LastLen(inner, n) + i]
  BY <1>1, LastOfIs
<1>3. /\ Sequence(LastOf(rows, m)) /\ Len(LastOf(rows, m)) = LastLen(rows, m)
      /\ \A i \in 1..LastLen(rows, m) : LastOf(rows, m)[i] = rows[Len(rows) - LastLen(rows, m) + i]
  BY LastOfIs
<1>4. /\ LastLen(inner, n) = LastLen(rows, m) /\ LastLen(rows, m) \in Nat
      /\ LastLen(rows, k) \in Nat /\ LastLen(rows, m) <= LastLen(rows, k)
  BY <1>1 DEF LastLen
<1>5. ASSUME NEW i \in 1..LastLen(rows, m)
      PROVE  LastOf(inner, n)[i] = LastOf(rows, m)[i]
  <2> DEFINE j == Len(inner) - LastLen(inner, n) + i
  <2>1. /\ j \in 1..LastLen(rows, k)
        /\ Len(rows) - LastLen(rows, k) + j = Len(rows) - LastLen(rows, m) + i
    BY <1>1, <1>4
  <2>2. LastOf(inner, n)[i] = inner[j]
    BY <1>2, <1>4
  <2> HIDE DEF j
  <2>3. QED
    BY <1>1, <1>3, <2>1, <2>2
<1>6. QED
  BY <1>2, <1>3, <1>4, <1>5, SameSequence DEF inner

\* The last rows after one more has been added.
LEMMA LastOfMore ==
  ASSUME NEW rows, Sequence(rows), NEW n \in Nat, NEW x
  PROVE  Append(LastOf(rows, n), x) = LastOf(Append(rows, x), n + 1)
<1> DEFINE more == Append(rows, x)
           last == LastOf(rows, n)
<1>1. /\ Len(rows) \in Nat /\ Sequence(last) /\ Len(last) = LastLen(rows, n)
      /\ \A i \in 1..LastLen(rows, n) : last[i] = rows[Len(rows) - LastLen(rows, n) + i]
  BY LastOfIs, SequenceHas
<1>2. /\ Sequence(more) /\ Len(more) = Len(rows) + 1
      /\ \A i \in 1..Len(rows) : more[i] = rows[i]
      /\ more[Len(rows) + 1] = x
  BY AppendIs
<1> HIDE DEF more, last
<1>3. /\ Sequence(Append(last, x)) /\ Len(Append(last, x)) = LastLen(rows, n) + 1
      /\ \A i \in 1..Len(last) : Append(last, x)[i] = last[i]
      /\ Append(last, x)[Len(last) + 1] = x
  BY <1>1, AppendIs
<1>4. LastLen(more, n + 1) = LastLen(rows, n) + 1 /\ LastLen(rows, n) \in Nat
      /\ LastLen(rows, n) <= Len(rows)
  BY <1>1, <1>2 DEF LastLen
<1>5. /\ Sequence(LastOf(more, n + 1)) /\ Len(LastOf(more, n + 1)) = LastLen(rows, n) + 1
      /\ \A i \in 1..(LastLen(rows, n) + 1) :
           LastOf(more, n + 1)[i] = more[Len(rows) - LastLen(rows, n) + i]
  <2> n + 1 \in Nat
    OBVIOUS
  <2>1. /\ Sequence(LastOf(more, n + 1)) /\ Len(LastOf(more, n + 1)) = LastLen(more, n + 1)
        /\ \A i \in 1..LastLen(more, n + 1) :
             LastOf(more, n + 1)[i] = more[Len(more) - LastLen(more, n + 1) + i]
    BY <1>2, LastOfIs
  <2>2. \A i \in 1..(LastLen(rows, n) + 1) :
          Len(more) - (LastLen(rows, n) + 1) + i = Len(rows) - LastLen(rows, n) + i
    BY <1>1, <1>2, <1>4
  <2>3. QED
    BY <1>4, <2>1, <2>2
<1>6. ASSUME NEW i \in 1..(LastLen(rows, n) + 1)
      PROVE  Append(last, x)[i] = LastOf(more, n + 1)[i]
  <2>1. CASE i = LastLen(rows, n) + 1
    <3>1. Len(rows) - LastLen(rows, n) + i = Len(rows) + 1
      BY <1>1, <1>4, <2>1
    <3>2. QED
      BY <1>1, <1>2, <1>3, <1>5, <2>1, <3>1
  <2>2. CASE i # LastLen(rows, n) + 1
    <3>1. i \in 1..LastLen(rows, n)
      BY <1>4, <2>2
    <3>2. Len(rows) - LastLen(rows, n) + i \in 1..Len(rows)
      BY <1>1, <1>4, <3>1
    <3>3. Append(last, x)[i] = last[i]
      BY <1>1, <1>3, <3>1
    <3>4. last[i] = rows[Len(rows) - LastLen(rows, n) + i]
      BY <1>1, <3>1
    <3>5. QED
      BY <1>2, <1>5, <3>2, <3>3, <3>4
  <2>3. QED
    BY <2>1, <2>2
<1>7. QED
  BY <1>3, <1>5, <1>6, SameSequence DEF more, last

LEMMA ConcatIs ==
  ASSUME NEW s, Sequence(s), NEW t, Sequence(t)
  PROVE  Sequence(s \o t) /\ Len(s \o t) = Len(s) + Len(t)
<1> DEFINE T == {s[i] : i \in DOMAIN s} \cup {t[i] : i \in DOMAIN t}
<1>1. s \in Seq(T) /\ t \in Seq(T)
  <2>1. /\ Len(s) \in Nat /\ s \in [1..Len(s) -> {s[i] : i \in DOMAIN s}]
        /\ Len(t) \in Nat /\ t \in [1..Len(t) -> {t[i] : i \in DOMAIN t}]
    BY DEF Sequence
  <2>2. s \in [1..Len(s) -> T] /\ t \in [1..Len(t) -> T]
    BY <2>1
  <2> HIDE DEF T
  <2>3. QED
    BY <2>1, <2>2
<1> HIDE DEF T
<1>2. s \o t \in Seq(T) /\ Len(s \o t) = Len(s) + Len(t)
  BY <1>1
<1>3. QED
  BY <1>2, SequenceOf

\* A file is as long as the longer of what it had and what is written over it.
LEMMA OverwrittenIs ==
  ASSUME NEW old, Sequence(old), NEW new, Sequence(new), NEW lines \in Overwritten(old, new)
  PROVE  /\ Sequence(lines)
         /\ Len(lines) = IF Len(old) <= Len(new) THEN Len(new) ELSE Len(old)
<1>1. Len(old) \in Nat /\ Len(new) \in Nat
  BY SequenceHas
<1>2. CASE Len(old) <= Len(new)
  BY <1>2 DEF Overwritten
<1>3. CASE Len(new) < Len(old) /\ lines = new \o SubSeq(old, Len(new) + 1, Len(old))
  <2>1. /\ Sequence(SubSeq(old, Len(new) + 1, Len(old)))
        /\ Len(SubSeq(old, Len(new) + 1, Len(old))) = Len(old) - (Len(new) + 1) + 1
    BY <1>1, <1>3, SubSeqIs
  <2>2. QED
    BY <1>1, <1>3, <2>1, ConcatIs
<1>4. CASE Len(new) < Len(old) /\ lines = new \o <<Torn>> \o SubSeq(old, Len(new) + 2, Len(old))
  <2>1. /\ Sequence(SubSeq(old, Len(new) + 2, Len(old)))
        /\ Len(SubSeq(old, Len(new) + 2, Len(old))) = Len(old) - (Len(new) + 2) + 1
    BY <1>1, <1>4, SubSeqIs
  <2>2. Sequence(<<Torn>>) /\ Len(<<Torn>>) = 1
    <3>1. <<Torn>> \in Seq({Torn})
      OBVIOUS
    <3>2. QED
      BY <3>1, SequenceOf
  <2>3. Sequence(new \o <<Torn>>) /\ Len(new \o <<Torn>>) = Len(new) + 1
    BY <2>2, ConcatIs
  <2> DEFINE head == new \o <<Torn>>
             tail == SubSeq(old, Len(new) + 2, Len(old))
  <2>4. lines = head \o tail
    BY <1>4
  <2>5. Sequence(tail) /\ Len(tail) = Len(old) - (Len(new) + 2) + 1
    BY <2>1
  <2>6. Sequence(head) /\ Len(head) = Len(new) + 1
    BY <2>3
  <2> HIDE DEF head, tail
  <2>7. Sequence(lines) /\ Len(lines) = Len(head) + Len(tail)
    BY <2>4, <2>5, <2>6, ConcatIs
  <2>8. Len(new) < Len(old)
    BY <1>4
  <2>9. Len(lines) = Len(old) /\ ~(Len(old) <= Len(new))
    BY <1>1, <2>5, <2>6, <2>7, <2>8
  <2>10. QED
    BY <2>7, <2>9
<1>5. Len(old) <= Len(new) \/ Len(new) < Len(old)
  BY <1>1
<1>6. CASE Len(new) < Len(old)
  <2>1. ~(Len(old) <= Len(new))
    BY <1>1, <1>6
  <2>2. QED
    BY <1>3, <1>4, <1>6, <2>1 DEF Overwritten
<1>7. QED
  BY <1>2, <1>5, <1>6

----------------------------------------------------------------------------
(* Files *)

\* There is always a file that has no name and that no process has open: each
\* process has one open at most.
LEMMA NewFileIsNew ==
  ASSUME HistoryInv, disk.live = NoFile \/ disk.tmp = NoFile
  PROVE  NewFile \in DOMAIN disk.data /\ NewFile \notin UsedFiles
<1> DEFINE X == {b \in Actors : "file" \in DOMAIN caller[b]}
           F == {caller[b].file : b \in X}
           x == IF disk.live = NoFile THEN disk.tmp ELSE disk.live
           N == Cardinality(Actors)
<1>1. IsFiniteSet(X) /\ Cardinality(X) <= N /\ N \in Nat /\ Cardinality(X) \in Nat
  BY QueryHistoryAssumption, FS_Subset, FS_CardinalityType
<1>2. IsFiniteSet(F) /\ Cardinality(F) <= Cardinality(X) /\ Cardinality(F) \in Nat
  <2>1. [b \in X |-> caller[b].file] \in Surjection(X, F)
    BY DEF Surjection
  <2>2. QED
    BY <1>1, <2>1, FS_Surjection, FS_CardinalityType
<1> HIDE DEF F, x
<1>3. IsFiniteSet(F \cup {x}) /\ Cardinality(F \cup {x}) <= N + 1 /\ Cardinality(F \cup {x}) \in Nat
  <2>1. /\ IsFiniteSet(F \cup {x})
        /\ Cardinality(F \cup {x}) = IF x \in F THEN Cardinality(F) ELSE Cardinality(F) + 1
    BY <1>2, FS_AddElement
  <2> HIDE DEF N, X
  <2>2. QED
    BY <1>1, <1>2, <2>1
<1>4. DOMAIN disk.data = 1..(N + 2) /\ Cardinality(DOMAIN disk.data) = N + 2
  <2>1. DOMAIN disk.data = 1..(N + 2)
    BY DEF HistoryInv, FilesInv
  <2> HIDE DEF N
  <2>2. Cardinality(1..(N + 2)) = N + 2
    <3>1. 1 \in Int /\ N + 2 \in Int /\ ~(1 > N + 2) /\ (N + 2) - 1 + 1 = N + 2
      BY <1>1
    <3>2. Cardinality(1..(N + 2)) = IF 1 > N + 2 THEN 0 ELSE (N + 2) - 1 + 1
      BY <3>1, FS_Interval
    <3>3. QED
      BY <3>1, <3>2
  <2>3. QED
    BY <2>1, <2>2
<1>5. ~(DOMAIN disk.data \subseteq F \cup {x})
  <2>1. DOMAIN disk.data \subseteq F \cup {x} => Cardinality(DOMAIN disk.data) <= Cardinality(F \cup {x})
    BY <1>3, FS_Subset
  <2> HIDE DEF N
  <2>2. QED
    BY <1>1, <1>3, <1>4, <2>1
<1>6. PICK file \in DOMAIN disk.data : file \notin F \cup {x}
  BY <1>5
<1>7. UsedFiles \subseteq F \cup {x, NoFile}
  BY DEF UsedFiles, F, x
<1>8. file \notin UsedFiles
  BY <1>1, <1>4, <1>6, <1>7 DEF NoFile
<1>9. QED
  BY <1>8 DEF NewFile

\* What every step needs of the state.
LEMMA Basics ==
  ASSUME HistoryInv
  PROVE  /\ Sequence(Log) /\ Len(Log) \in Nat
         /\ IsFiniteSet(Cutting) /\ Cardinality(Cutting) \in Nat
         /\ faults \in Nat /\ Kept \in Nat \ {0}
         /\ Sequence(appended) /\ Len(appended) \in Nat /\ rotated \in Nat /\ rotated <= Len(appended)
         /\ NoFile \notin DOMAIN disk.data
<1>1. Sequence(Log)
  BY NoRows DEF HistoryInv, TypeOK, FilesInv, Log
<1>2. IsFiniteSet(Cutting) /\ Cardinality(Cutting) \in Nat
  BY QueryHistoryAssumption, FS_Subset, FS_CardinalityType DEF Cutting
<1>3. Sequence(appended)
  BY DEF HistoryInv, FilesInv
<1>4. Len(Log) \in Nat /\ Len(appended) \in Nat
  BY <1>1, <1>3, SequenceHas
<1>5. faults \in Nat /\ rotated \in Nat /\ rotated <= Len(appended)
  BY <1>4, QueryHistoryAssumption DEF HistoryInv, TypeOK
<1>6. NoFile \notin DOMAIN disk.data
  BY DEF HistoryInv, FilesInv, NoFile
<1>7. QED
  BY <1>1, <1>2, <1>3, <1>4, <1>5, <1>6, KeptType

LogStages == {"append", "read", "open tmp", "write tmp", "replace"}

\* A process that has no file open and is not at the log.
OffLog(call) == "at" \in DOMAIN call /\ "file" \notin DOMAIN call /\ call.at \notin LogStages

\* A step of a process that leaves the log or was not there.
LEMMA LeavesLog ==
  ASSUME HistoryInv, NEW a \in Actors, NEW call, caller' = [caller EXCEPT ![a] = call],
         OffLog(call), UNCHANGED <<disk, appended, rotated, overlap>>,
         \/ faults' = faults /\ a \notin Cutting
         \/ faults' = faults + 1 /\ faults < MaxFaults
  PROVE  HistoryInv' /\ (NewestInv => NewestInv')
<1>1. DOMAIN caller' = Actors /\ caller'[a] = call /\ \A b \in Actors \ {a} : caller'[b] = caller[b]
  BY DEF HistoryInv
<1>2. TypeOK' /\ FilesInv'
  <2>1. faults' \in 0..MaxFaults
    BY QueryHistoryAssumption DEF HistoryInv, TypeOK
  <2>2. TypeOK'
    BY <2>1 DEF HistoryInv, TypeOK
  <2>3. FilesInv'
    BY DEF HistoryInv, FilesInv
  <2>4. QED
    BY <2>2, <2>3
<1>3. ASSUME NEW b \in Actors
      PROVE  CallInv(b)'
  <2>1. CASE b = a
    BY <1>1, <2>1 DEF CallInv, OffLog, LogStages, AtLog
  <2>2. CASE b # a
    BY <1>1, <2>2 DEF HistoryInv, CallInv, AtLog
  <2>3. QED
    BY <2>1, <2>2
<1>4. Cutting' = Cutting \ {a}
  BY <1>1 DEF Cutting, OffLog, LogStages
<1>5. Cardinality(Cutting') = IF a \in Cutting THEN Cardinality(Cutting) - 1 ELSE Cardinality(Cutting)
  BY <1>4, Basics, FS_RemoveElement
<1>6. Log' = Log /\ NewestKept' = NewestKept
  BY DEF Log, NewestKept
<1>7. RowsInv'
  BY <1>5, <1>6, Basics DEF HistoryInv, RowsInv
<1>8. ASSUME NewestInv
      PROVE  NewestInv'
  <2>1. \A b \in Actors : AtLog(b)' => AtLog(b) /\ b # a
    BY <1>1 DEF AtLog, OffLog, LogStages
  <2>2. ASSUME ~overlap, NEW b \in Actors
        PROVE  AloneAtLog(b)'
    <3>1. CASE b = a
      BY <1>1, <3>1 DEF AloneAtLog, OffLog, LogStages
    <3>2. CASE b # a
      BY <1>1, <1>6, <1>8, <2>2, <3>2 DEF AloneAtLog, NewestInv
    <3>3. QED
      BY <3>1, <3>2
  <2>3. QED
    BY <1>6, <1>8, <2>1, <2>2 DEF NewestInv
<1>9. QED
  BY <1>1, <1>2, <1>3, <1>7, <1>8 DEF HistoryInv

\* A step that neither the callers nor the files take part in.
LEMMA LeavesAll ==
  ASSUME HistoryInv, UNCHANGED <<caller, disk, faults, appended, rotated, overlap>>
  PROVE  HistoryInv' /\ (NewestInv => NewestInv')
<1>1. HistoryInv'
  BY DEF HistoryInv, TypeOK, FilesInv, CallInv, AtLog, RowsInv, Log, Cutting
<1>2. NewestInv => NewestInv'
  BY DEF NewestInv, AtLog, AloneAtLog, NewestKept, Log
<1>3. QED
  BY <1>1, <1>2

----------------------------------------------------------------------------
(* The steps at the log *)

\* What a step at the log leaves of the calls of the other processes.
LEMMA OthersKept ==
  ASSUME HistoryInv, NEW a \in Actors, NEW b \in Actors \ {a}, caller'[b] = caller[b],
         DOMAIN disk'.data = DOMAIN disk.data, disk.live # NoFile => disk'.live # NoFile,
         disk'.tmp \in {disk.tmp, NoFile} \/ disk'.tmp \notin UsedFiles
  PROVE  CallInv(b)'
<1>1. CallInv(b)
  BY DEF HistoryInv
<1>2. caller[b].at = "append" => caller[b].file # disk'.tmp
  <2> SUFFICES ASSUME caller[b].at = "append"
               PROVE  caller[b].file # disk'.tmp
    OBVIOUS
  <2>1. caller[b].file \in UsedFiles /\ caller[b].file # disk.tmp /\ caller[b].file \in DOMAIN disk.data
    BY <1>1 DEF CallInv, AtLog, UsedFiles
  <2>2. QED
    BY <2>1, Basics
<1>3. QED
  BY <1>1, <1>2 DEF CallInv, AtLog

\* A step of a process at its call.
LEMMA CallMoved ==
  ASSUME HistoryInv, NEW a \in Actors, NEW call, caller' = [caller EXCEPT ![a] = call]
  PROVE  DOMAIN caller' = Actors /\ caller'[a] = call /\ \A b \in Actors \ {a} : caller'[b] = caller[b]
BY DEF HistoryInv

LEMMA OpenLogKeeps ==
  ASSUME HistoryInv, NEW a \in Actors, OpenLog(a)
  PROVE  HistoryInv' /\ (NewestInv => NewestInv')
<1> DEFINE file == IF disk.live = NoFile THEN NewFile ELSE disk.live
           call == Moved(caller[a], "append", [file |-> file])
<1>1. file \in DOMAIN disk.data /\ file # disk.tmp /\ file # NoFile
  BY NewFileIsNew, Basics DEF HistoryInv, TypeOK, UsedFiles
<1>2. /\ disk'.live = file /\ disk'.tmp = disk.tmp
      /\ disk'.data = IF disk.live = NoFile THEN [disk.data EXCEPT ![file] = << >>] ELSE disk.data
      /\ disk' = [live |-> disk'.live, tmp |-> disk'.tmp, data |-> disk'.data]
  <2>1. disk = [live |-> disk.live, tmp |-> disk.tmp, data |-> disk.data]
    BY DEF HistoryInv, FilesInv
  <2>2. CASE disk.live = NoFile
    <3>1. disk' = [live |-> file, tmp |-> disk.tmp, data |-> [disk.data EXCEPT ![file] = << >>]]
      BY <2>1, <2>2 DEF OpenLog
    <3>2. QED
      BY <2>2, <3>1
  <2>3. CASE disk.live # NoFile
    BY <2>1, <2>3 DEF OpenLog
  <2>4. QED
    BY <2>2, <2>3
<1>3. caller' = [caller EXCEPT ![a] = call] /\ UNCHANGED <<faults, appended, rotated>>
  BY DEF OpenLog
<1>4. /\ "at" \in DOMAIN call /\ call.at = "append" /\ "file" \in DOMAIN call /\ call.file = file
  <2>1. "at" \in DOMAIN caller[a]
    BY DEF HistoryInv, CallInv
  <2>2. QED
    BY <2>1 DEF Moved
<1> HIDE DEF file, call
<1>5. DOMAIN caller' = Actors /\ caller'[a] = call /\ \A b \in Actors \ {a} : caller'[b] = caller[b]
  BY <1>3, CallMoved
<1>6. /\ DOMAIN disk'.data = DOMAIN disk.data
      /\ \A f \in DOMAIN disk.data : disk'.data[f] = IF disk.live = NoFile /\ f = file THEN << >> ELSE disk.data[f]
  BY <1>1, <1>2
<1>7. TypeOK'
  <2>1. overlap' \in BOOLEAN
    BY DEF OpenLog
  <2>2. QED
    BY <1>1, <1>2, <1>3, <1>6, <2>1 DEF HistoryInv, TypeOK
<1>8. FilesInv'
  <2>1. \A f \in DOMAIN disk'.data : Sequence(disk'.data[f])
    BY <1>6, NoRows DEF HistoryInv, FilesInv
  <2>2. disk'.tmp # NoFile => Len(disk'.data[disk'.tmp]) <= Kept
    BY <1>1, <1>2, <1>6 DEF HistoryInv, TypeOK, FilesInv
  <2>3. DOMAIN disk'.data = 1..(Cardinality(Actors) + 2)
    BY <1>6 DEF HistoryInv, FilesInv
  <2>4. Sequence(appended')
    BY <1>3 DEF HistoryInv, FilesInv
  <2>5. QED
    BY <1>2, <2>1, <2>2, <2>3, <2>4 DEF FilesInv
<1>9. CallInv(a)'
  BY <1>1, <1>2, <1>4, <1>5, <1>6 DEF CallInv, AtLog
<1>10. \A b \in Actors \ {a} : CallInv(b)'
  BY <1>1, <1>2, <1>5, <1>6, OthersKept
<1>11. Cutting' = Cutting
  BY <1>2, <1>4, <1>5 DEF OpenLog, Cutting, In
<1>12. Log' = Log
  <2>1. CASE disk.live = NoFile
    <3>1. Log = << >> /\ Log' = disk'.data[file]
      BY <1>1, <1>2, <2>1 DEF Log
    <3>2. QED
      BY <1>1, <1>6, <2>1, <3>1
  <2>2. CASE disk.live # NoFile
    BY <1>2, <2>2 DEF Log, file
  <2>3. QED
    BY <2>1, <2>2
<1>13. RowsInv'
  BY <1>3, <1>11, <1>12 DEF HistoryInv, RowsInv
<1>14. ASSUME NewestInv, ~overlap'
       PROVE  /\ \A b, c \in Actors : AtLog(b)' /\ AtLog(c)' => b = c
              /\ \A b \in Actors : AloneAtLog(b)'
              /\ NewestKept'
  <2>1. ~overlap /\ \A b \in Actors \ {a} : ~AtLog(b)
    BY <1>14 DEF OpenLog
  <2>2. \A b \in Actors \ {a} : ~AtLog(b)' /\ AloneAtLog(b)'
    BY <1>5, <2>1 DEF AtLog, AloneAtLog
  <2>3. AloneAtLog(a)'
    BY <1>2, <1>4, <1>5 DEF AloneAtLog
  <2>4. NewestKept'
    BY <1>3, <1>12, <1>14, <2>1 DEF NewestInv, NewestKept
  <2>5. QED
    BY <2>2, <2>3, <2>4
<1>15. QED
  BY <1>5, <1>7, <1>8, <1>9, <1>10, <1>13, <1>14 DEF HistoryInv, NewestInv

LEMMA AppendRowKeeps ==
  ASSUME HistoryInv, NEW a \in Actors, AppendRow(a)
  PROVE  HistoryInv' /\ (NewestInv => NewestInv')
<1> DEFINE row == caller[a].row
           file == caller[a].file
           call == [caller[a] EXCEPT !.at = "read", !.statuses = Append(@, row.status)]
<1>1. /\ In(a, "append") /\ AtLog(a) /\ file \in DOMAIN disk.data /\ disk.live # NoFile /\ file # disk.tmp
      /\ "at" \in DOMAIN caller[a] /\ "file" \in DOMAIN caller[a]
  BY DEF HistoryInv, CallInv, AppendRow, In, AtLog
<1>2. /\ disk'.live = disk.live /\ disk'.tmp = disk.tmp
      /\ disk'.data = [disk.data EXCEPT ![file] = Append(@, row)]
      /\ disk' = [live |-> disk'.live, tmp |-> disk'.tmp, data |-> disk'.data]
  <2>1. disk = [live |-> disk.live, tmp |-> disk.tmp, data |-> disk.data]
    BY DEF HistoryInv, FilesInv
  <2>2. disk' = [live |-> disk.live, tmp |-> disk.tmp, data |-> [disk.data EXCEPT ![file] = Append(@, row)]]
    BY <2>1 DEF AppendRow
  <2>3. QED
    BY <2>2
<1>3. /\ caller' = [caller EXCEPT ![a] = call] /\ appended' = Append(appended, row)
      /\ UNCHANGED <<faults, rotated, overlap>>
  BY DEF AppendRow
<1>4. "at" \in DOMAIN call /\ call.at = "read" /\ "file" \in DOMAIN call /\ call.file = file
  BY <1>1
<1> HIDE DEF file, call, row
<1>5. DOMAIN caller' = Actors /\ caller'[a] = call /\ \A b \in Actors \ {a} : caller'[b] = caller[b]
  BY <1>3, CallMoved
<1>6. /\ DOMAIN disk'.data = DOMAIN disk.data /\ disk'.data[file] = Append(disk.data[file], row)
      /\ \A f \in DOMAIN disk.data \ {file} : disk'.data[f] = disk.data[f]
  BY <1>1, <1>2
<1>7. /\ Sequence(disk.data[file]) /\ Sequence(disk'.data[file])
      /\ Sequence(appended') /\ Len(appended') = Len(appended) + 1
  BY <1>1, <1>3, <1>6, AppendIs DEF HistoryInv, FilesInv
<1>8. TypeOK'
  <2>1. rotated' \in 0..Len(appended')
    BY <1>3, <1>7, Basics
  <2>2. QED
    BY <1>2, <1>3, <1>6, <2>1 DEF HistoryInv, TypeOK
<1>9. FilesInv'
  <2>1. \A f \in DOMAIN disk'.data : Sequence(disk'.data[f])
    BY <1>6, <1>7 DEF HistoryInv, FilesInv
  <2>2. disk'.tmp # NoFile => Len(disk'.data[disk'.tmp]) <= Kept
    BY <1>1, <1>2, <1>6 DEF HistoryInv, TypeOK, FilesInv
  <2>3. DOMAIN disk'.data = 1..(Cardinality(Actors) + 2)
    BY <1>6 DEF HistoryInv, FilesInv
  <2>4. QED
    BY <1>2, <1>7, <2>1, <2>2, <2>3 DEF FilesInv
<1>10. CallInv(a)'
  BY <1>1, <1>2, <1>4, <1>5, <1>6 DEF CallInv, AtLog
<1>11. \A b \in Actors \ {a} : CallInv(b)'
  BY <1>1, <1>2, <1>5, <1>6, OthersKept
<1>12. Log' = IF file = disk.live THEN Append(Log, row) ELSE Log
  BY <1>1, <1>2, <1>6 DEF Log, HistoryInv, TypeOK
<1>13. RowsInv'
  <2>1. a \notin Cutting /\ Cutting' = Cutting \cup {a}
    BY <1>1, <1>2, <1>4, <1>5 DEF Cutting, In
  <2>2. Cardinality(Cutting') = Cardinality(Cutting) + 1
    BY <2>1, Basics, FS_AddElement
  <2>3. Len(Log') <= Len(Log) + 1 /\ Len(Log') \in Nat
    BY <1>12, Basics, AppendIs
  <2>4. QED
    BY <1>3, <2>2, <2>3, Basics DEF HistoryInv, RowsInv
<1>14. ASSUME NewestInv, ~overlap'
       PROVE  /\ \A b, c \in Actors : AtLog(b)' /\ AtLog(c)' => b = c
              /\ \A b \in Actors : AloneAtLog(b)'
              /\ NewestKept'
  <2>1. file = disk.live /\ \A b \in Actors \ {a} : ~AtLog(b)
    BY <1>1, <1>3, <1>14 DEF NewestInv, AloneAtLog, In, file
  <2>2. \A b \in Actors \ {a} : ~AtLog(b)' /\ AloneAtLog(b)'
    BY <1>5, <2>1 DEF AtLog, AloneAtLog
  <2>3. AloneAtLog(a)'
    BY <1>2, <1>4, <1>5, <2>1 DEF AloneAtLog
  <2>4. NewestKept'
    <3> DEFINE k == Min({Kept, rotated}) + Len(appended) - rotated
    <3>1. Log = LastOf(appended, k)
      BY <1>3, <1>14 DEF NewestInv, NewestKept
    <3>2. k \in Nat
      BY Basics, MinKept
    <3>3. Min({Kept, rotated'}) + Len(appended') - rotated' = k + 1
      BY <1>3, <1>7, Basics, MinKept
    <3> HIDE DEF k
    <3>4. Log' = LastOf(appended', k + 1)
      BY <1>3, <1>12, <2>1, <3>1, <3>2, Basics, LastOfMore
    <3>5. QED
      BY <3>3, <3>4 DEF NewestKept
  <2>5. QED
    BY <2>2, <2>3, <2>4
<1>15. QED
  BY <1>5, <1>8, <1>9, <1>10, <1>11, <1>13, <1>14 DEF HistoryInv, NewestInv

LEMMA ReadRowsKeeps ==
  ASSUME HistoryInv, NEW a \in Actors, ReadRows(a)
  PROVE  HistoryInv' /\ (NewestInv => NewestInv')
<1> DEFINE newest == LastOf(disk.data[disk.live], Kept)
           call == Moved(caller[a], "open tmp", [newest |-> newest])
<1>1. /\ In(a, "read") /\ AtLog(a) /\ disk.live # NoFile /\ caller[a].file \in DOMAIN disk.data
      /\ "at" \in DOMAIN caller[a] /\ "file" \in DOMAIN caller[a]
  BY DEF HistoryInv, CallInv, ReadRows, In, AtLog
<1>2. /\ caller' = [caller EXCEPT ![a] = call]
      /\ UNCHANGED <<disk, faults, appended, rotated, overlap>>
  BY DEF ReadRows
<1>3. /\ "at" \in DOMAIN call /\ call.at = "open tmp" /\ "file" \in DOMAIN call
      /\ call.file = caller[a].file /\ "newest" \in DOMAIN call /\ call.newest = newest
  BY <1>1 DEF Moved
<1>4. newest = LastOf(Log, Kept) /\ Sequence(newest) /\ Len(newest) <= Kept
  <2>1. newest = LastOf(Log, Kept)
    BY <1>1 DEF Log
  <2> HIDE DEF newest
  <2>2. Sequence(newest) /\ Len(newest) = LastLen(Log, Kept)
    BY <2>1, Basics, LastOfIs
  <2>3. LastLen(Log, Kept) <= Kept
    BY Basics, LastLenIs
  <2>4. QED
    BY <2>1, <2>2, <2>3
<1> HIDE DEF newest, call
<1>5. DOMAIN caller' = Actors /\ caller'[a] = call /\ \A b \in Actors \ {a} : caller'[b] = caller[b]
  BY <1>2, CallMoved
<1>6. TypeOK' /\ FilesInv' /\ Log' = Log
  BY <1>2 DEF HistoryInv, TypeOK, FilesInv, Log
<1>7. CallInv(a)'
  BY <1>1, <1>2, <1>3, <1>4, <1>5 DEF CallInv, AtLog
<1>8. \A b \in Actors \ {a} : CallInv(b)'
  BY <1>2, <1>5, OthersKept
<1>9. Cutting' = Cutting
  BY <1>1, <1>2, <1>3, <1>5 DEF Cutting, In
<1>10. RowsInv'
  BY <1>2, <1>6, <1>9 DEF HistoryInv, RowsInv
<1>11. ASSUME NewestInv, ~overlap'
       PROVE  /\ \A b, c \in Actors : AtLog(b)' /\ AtLog(c)' => b = c
              /\ \A b \in Actors : AloneAtLog(b)'
              /\ NewestKept'
  <2>1. caller[a].file = disk.live /\ \A b \in Actors \ {a} : ~AtLog(b)
    BY <1>1, <1>2, <1>11 DEF NewestInv, AloneAtLog, In
  <2>2. \A b \in Actors \ {a} : ~AtLog(b)' /\ AloneAtLog(b)'
    BY <1>5, <2>1 DEF AtLog, AloneAtLog
  <2>3. AloneAtLog(a)'
    BY <1>2, <1>3, <1>4, <1>5, <1>6, <2>1 DEF AloneAtLog
  <2>4. NewestKept'
    BY <1>2, <1>6, <1>11 DEF NewestInv, NewestKept
  <2>5. QED
    BY <2>2, <2>3, <2>4
<1>12. QED
  BY <1>5, <1>6, <1>7, <1>8, <1>10, <1>11 DEF HistoryInv, NewestInv

LEMMA OpenTmpKeeps ==
  ASSUME HistoryInv, NEW a \in Actors, OpenTmp(a)
  PROVE  HistoryInv' /\ (NewestInv => NewestInv')
<1> DEFINE file == IF disk.tmp = NoFile THEN NewFile ELSE disk.tmp
           call == [caller[a] EXCEPT !.at = "write tmp", !.file = file]
<1>1. /\ In(a, "open tmp") /\ AtLog(a) /\ disk.live # NoFile
      /\ "at" \in DOMAIN caller[a] /\ "file" \in DOMAIN caller[a] /\ "newest" \in DOMAIN caller[a]
      /\ Sequence(caller[a].newest) /\ Len(caller[a].newest) <= Kept
  BY DEF HistoryInv, CallInv, OpenTmp, In, AtLog
<1>2. file \in DOMAIN disk.data /\ file # disk.live /\ file # NoFile /\ (file = disk.tmp \/ file \notin UsedFiles)
  BY <1>1, NewFileIsNew, Basics DEF HistoryInv, TypeOK, UsedFiles
<1>3. /\ disk'.live = disk.live /\ disk'.tmp = file
      /\ disk'.data = [disk.data EXCEPT ![file] = << >>]
      /\ disk' = [live |-> disk'.live, tmp |-> disk'.tmp, data |-> disk'.data]
  <2>1. disk = [live |-> disk.live, tmp |-> disk.tmp, data |-> disk.data]
    BY DEF HistoryInv, FilesInv
  <2>2. disk' = [live |-> disk.live, tmp |-> file, data |-> [disk.data EXCEPT ![file] = << >>]]
    BY <2>1 DEF OpenTmp
  <2>3. QED
    BY <2>2
<1>4. caller' = [caller EXCEPT ![a] = call] /\ UNCHANGED <<faults, appended, rotated, overlap>>
  BY DEF OpenTmp
<1>5. /\ "at" \in DOMAIN call /\ call.at = "write tmp" /\ "file" \in DOMAIN call /\ call.file = file
      /\ "newest" \in DOMAIN call /\ call.newest = caller[a].newest
  BY <1>1
<1> HIDE DEF file, call
<1>6. DOMAIN caller' = Actors /\ caller'[a] = call /\ \A b \in Actors \ {a} : caller'[b] = caller[b]
  BY <1>4, CallMoved
<1>7. /\ DOMAIN disk'.data = DOMAIN disk.data /\ disk'.data[file] = << >>
      /\ \A f \in DOMAIN disk.data \ {file} : disk'.data[f] = disk.data[f]
  BY <1>2, <1>3
<1>8. Log' = Log
  BY <1>1, <1>2, <1>3, <1>7 DEF Log, HistoryInv, TypeOK
<1>9. TypeOK'
  BY <1>2, <1>3, <1>4, <1>7 DEF HistoryInv, TypeOK
<1>10. FilesInv'
  <2>1. \A f \in DOMAIN disk'.data : Sequence(disk'.data[f])
    BY <1>7, NoRows DEF HistoryInv, FilesInv
  <2>2. Len(disk'.data[disk'.tmp]) <= Kept
    BY <1>3, <1>7, NoRows, KeptType
  <2>3. DOMAIN disk'.data = 1..(Cardinality(Actors) + 2) /\ Sequence(appended')
    BY <1>4, <1>7 DEF HistoryInv, FilesInv
  <2>4. QED
    BY <1>3, <2>1, <2>2, <2>3 DEF FilesInv
<1>11. CallInv(a)'
  BY <1>1, <1>2, <1>3, <1>5, <1>6, <1>7 DEF CallInv, AtLog
<1>12. \A b \in Actors \ {a} : CallInv(b)'
  BY <1>1, <1>2, <1>3, <1>6, <1>7, OthersKept
<1>13. RowsInv'
  <2>1. Cutting \subseteq Cutting'
    BY <1>2, <1>3, <1>5, <1>6 DEF Cutting
  <2>2. IsFiniteSet(Cutting') /\ Cardinality(Cutting') \in Nat
    BY QueryHistoryAssumption, FS_Subset, FS_CardinalityType DEF Cutting
  <2>3. Cardinality(Cutting) <= Cardinality(Cutting')
    BY <2>1, <2>2, FS_Subset
  <2>4. QED
    BY <1>4, <1>8, <2>2, <2>3, Basics DEF HistoryInv, RowsInv
<1>14. ASSUME NewestInv, ~overlap'
       PROVE  /\ \A b, c \in Actors : AtLog(b)' /\ AtLog(c)' => b = c
              /\ \A b \in Actors : AloneAtLog(b)'
              /\ NewestKept'
  <2>1. caller[a].newest = LastOf(Log, Kept) /\ \A b \in Actors \ {a} : ~AtLog(b)
    BY <1>1, <1>4, <1>14 DEF NewestInv, AloneAtLog, In
  <2>2. \A b \in Actors \ {a} : ~AtLog(b)' /\ AloneAtLog(b)'
    BY <1>6, <2>1 DEF AtLog, AloneAtLog
  <2>3. AloneAtLog(a)'
    BY <1>3, <1>5, <1>6, <1>7, <1>8, <2>1 DEF AloneAtLog
  <2>4. NewestKept'
    BY <1>4, <1>8, <1>14 DEF NewestInv, NewestKept
  <2>5. QED
    BY <2>2, <2>3, <2>4
<1>15. QED
  BY <1>6, <1>9, <1>10, <1>11, <1>12, <1>13, <1>14 DEF HistoryInv, NewestInv

LEMMA WriteTmpKeeps ==
  ASSUME HistoryInv, NEW a \in Actors, WriteTmp(a)
  PROVE  HistoryInv' /\ (NewestInv => NewestInv')
<1> DEFINE file == caller[a].file
           newest == caller[a].newest
           call == [caller[a] EXCEPT !.at = "replace"]
<1>1. /\ In(a, "write tmp") /\ AtLog(a) /\ disk.live # NoFile /\ file \in DOMAIN disk.data
      /\ "at" \in DOMAIN caller[a] /\ "file" \in DOMAIN caller[a] /\ "newest" \in DOMAIN caller[a]
      /\ Sequence(newest) /\ Len(newest) <= Kept
  BY DEF HistoryInv, CallInv, WriteTmp, In, AtLog
<1>2. PICK lines \in Overwritten(disk.data[file], newest) : disk' = [disk EXCEPT !.data[file] = lines]
  BY DEF WriteTmp
<1>3. /\ disk'.live = disk.live /\ disk'.tmp = disk.tmp
      /\ disk'.data = [disk.data EXCEPT ![file] = lines]
      /\ disk' = [live |-> disk'.live, tmp |-> disk'.tmp, data |-> disk'.data]
  <2>1. disk = [live |-> disk.live, tmp |-> disk.tmp, data |-> disk.data]
    BY DEF HistoryInv, FilesInv
  <2> HIDE DEF file
  <2>2. disk' = [live |-> disk.live, tmp |-> disk.tmp, data |-> [disk.data EXCEPT ![file] = lines]]
    BY <1>2, <2>1
  <2>3. QED
    BY <2>2
<1>4. caller' = [caller EXCEPT ![a] = call] /\ UNCHANGED <<faults, appended, rotated, overlap>>
  BY DEF WriteTmp
<1>5. /\ "at" \in DOMAIN call /\ call.at = "replace" /\ "file" \in DOMAIN call /\ call.file = file
      /\ "newest" \in DOMAIN call /\ call.newest = newest
  BY <1>1
<1>6. Sequence(disk.data[file])
  BY <1>1 DEF HistoryInv, FilesInv
<1> HIDE DEF file, newest, call
<1>7. /\ Sequence(lines) /\ Len(lines) \in Nat /\ Len(disk.data[file]) \in Nat
      /\ Len(lines) <= Len(disk.data[file]) \/ Len(lines) <= Kept
  <2>1. /\ Sequence(lines)
        /\ Len(lines) = IF Len(disk.data[file]) <= Len(newest) THEN Len(newest) ELSE Len(disk.data[file])
    BY <1>1, <1>6, OverwrittenIs
  <2>2. Len(lines) \in Nat /\ Len(disk.data[file]) \in Nat /\ Len(newest) \in Nat
    BY <1>1, <1>6, <2>1, SequenceHas
  <2>3. Len(lines) = Len(newest) \/ Len(lines) = Len(disk.data[file])
    BY <2>1
  <2>4. Len(newest) <= Kept
    BY <1>1
  <2>5. QED
    BY <2>1, <2>2, <2>3, <2>4
<1>8. DOMAIN caller' = Actors /\ caller'[a] = call /\ \A b \in Actors \ {a} : caller'[b] = caller[b]
  BY <1>4, CallMoved
<1>9. /\ DOMAIN disk'.data = DOMAIN disk.data /\ disk'.data[file] = lines
      /\ \A f \in DOMAIN disk.data \ {file} : disk'.data[f] = disk.data[f]
  BY <1>1, <1>3
<1>10. Log = disk.data[disk.live] /\ Log' = disk'.data[disk.live] /\ disk.live \in DOMAIN disk.data
  BY <1>1, <1>3 DEF Log, HistoryInv, TypeOK
<1>11. TypeOK'
  BY <1>3, <1>4, <1>9 DEF HistoryInv, TypeOK
<1>12. FilesInv'
  <2>1. \A f \in DOMAIN disk'.data : Sequence(disk'.data[f])
    BY <1>7, <1>9 DEF HistoryInv, FilesInv
  <2>2. ASSUME disk'.tmp # NoFile
        PROVE  Len(disk'.data[disk'.tmp]) <= Kept
    <3>1. disk.tmp \in DOMAIN disk.data /\ Len(disk.data[disk.tmp]) <= Kept
      BY <1>3, <2>2 DEF HistoryInv, TypeOK, FilesInv
    <3>2. CASE disk.tmp = file
      BY <1>3, <1>7, <1>9, <3>1, <3>2, KeptType
    <3>3. CASE disk.tmp # file
      BY <1>3, <1>9, <3>1, <3>3
    <3>4. QED
      BY <3>2, <3>3
  <2>3. DOMAIN disk'.data = 1..(Cardinality(Actors) + 2) /\ Sequence(appended')
    BY <1>4, <1>9 DEF HistoryInv, FilesInv
  <2>4. QED
    BY <1>3, <2>1, <2>2, <2>3 DEF FilesInv
<1>13. CallInv(a)'
  BY <1>1, <1>3, <1>5, <1>8, <1>9 DEF CallInv, AtLog
<1>14. \A b \in Actors \ {a} : CallInv(b)'
  BY <1>1, <1>3, <1>8, <1>9, OthersKept
<1>15. RowsInv'
  <2>1. Cutting' = Cutting
    BY <1>1, <1>3, <1>5, <1>8 DEF Cutting, In
  <2>2. CASE disk.live = file
    BY <1>4, <1>7, <1>9, <1>10, <2>1, <2>2, Basics DEF HistoryInv, RowsInv
  <2>3. CASE disk.live # file
    BY <1>4, <1>9, <1>10, <2>1, <2>3 DEF HistoryInv, RowsInv
  <2>4. QED
    BY <2>2, <2>3
<1>16. ASSUME NewestInv, ~overlap'
       PROVE  /\ \A b, c \in Actors : AtLog(b)' /\ AtLog(c)' => b = c
              /\ \A b \in Actors : AloneAtLog(b)'
              /\ NewestKept'
  <2>1. /\ newest = LastOf(Log, Kept) /\ file = disk.tmp /\ disk.data[file] = << >>
        /\ \A b \in Actors \ {a} : ~AtLog(b)
    BY <1>1, <1>4, <1>16 DEF NewestInv, AloneAtLog, In, file, newest
  <2>2. \A b \in Actors \ {a} : ~AtLog(b)' /\ AloneAtLog(b)'
    BY <1>8, <2>1 DEF AtLog, AloneAtLog
  <2>3. lines = newest
    <3>1. Len(disk.data[file]) = 0 /\ Len(newest) \in Nat
      BY <1>1, <2>1, NoRows, SequenceHas
    <3>2. Len(disk.data[file]) <= Len(newest)
      BY <3>1
    <3>3. Overwritten(disk.data[file], newest) = {newest}
      BY <3>2 DEF Overwritten
    <3>4. QED
      BY <1>2, <3>3
  <2>4. Log' = Log
    BY <1>1, <1>9, <1>10, <2>1 DEF HistoryInv, TypeOK
  <2>5. AloneAtLog(a)'
    BY <1>3, <1>5, <1>8, <1>9, <2>1, <2>3, <2>4 DEF AloneAtLog
  <2>6. NewestKept'
    BY <1>4, <1>16, <2>4 DEF NewestInv, NewestKept
  <2>7. QED
    BY <2>2, <2>5, <2>6
<1>17. QED
  BY <1>8, <1>11, <1>12, <1>13, <1>14, <1>15, <1>16 DEF HistoryInv, NewestInv

\* A call that is over, or whose files are closed, is off the log.
LEMMA EndedIsOff ==
  ASSUME NEW call, NEW stage \in Finished
  PROVE  OffLog(Ended(call, stage))
BY DEF OffLog, Ended, Finished, LogStages

LEMMA ClosedIsOff ==
  ASSUME NEW call, "at" \in DOMAIN call, call.at \notin LogStages
  PROVE  OffLog(Closed(call))
BY DEF OffLog, Closed

LEMMA ReplaceLogKeeps ==
  ASSUME HistoryInv, NEW a \in Actors, ReplaceLog(a)
  PROVE  HistoryInv' /\ (NewestInv => NewestInv')
<1> DEFINE call == IF caller[a].how = "history" THEN Closed([caller[a] EXCEPT !.at = "open trace"])
                   ELSE Ended(caller[a], "returned")
<1>1. /\ In(a, "replace") /\ AtLog(a) /\ disk.tmp # NoFile /\ disk.tmp \in DOMAIN disk.data
      /\ "at" \in DOMAIN caller[a]
  BY DEF HistoryInv, TypeOK, CallInv, ReplaceLog, In, AtLog
<1>2. /\ disk'.live = disk.tmp /\ disk'.tmp = NoFile /\ disk'.data = disk.data
      /\ disk' = [live |-> disk'.live, tmp |-> disk'.tmp, data |-> disk'.data]
  <2>1. disk = [live |-> disk.live, tmp |-> disk.tmp, data |-> disk.data]
    BY DEF HistoryInv, FilesInv
  <2>2. disk' = [live |-> disk.tmp, tmp |-> NoFile, data |-> disk.data]
    BY <2>1 DEF ReplaceLog
  <2>3. QED
    BY <2>2
<1>3. /\ caller' = [caller EXCEPT ![a] = call] /\ rotated' = Len(appended)
      /\ UNCHANGED <<faults, appended, overlap>>
  BY DEF ReplaceLog
<1>4. OffLog(call)
  <2>1. OffLog(Ended(caller[a], "returned"))
    BY EndedIsOff DEF Finished
  <2> DEFINE moved == [caller[a] EXCEPT !.at = "open trace"]
  <2>2. "at" \in DOMAIN moved /\ moved.at \notin LogStages
    BY <1>1 DEF LogStages
  <2> HIDE DEF moved
  <2>3. OffLog(Closed(moved))
    BY <2>2, ClosedIsOff
  <2>4. QED
    BY <2>1, <2>3 DEF moved
<1> HIDE DEF call
<1>5. DOMAIN caller' = Actors /\ caller'[a] = call /\ \A b \in Actors \ {a} : caller'[b] = caller[b]
  BY <1>3, CallMoved
<1>6. Log' = disk.data[disk.tmp] /\ Sequence(Log') /\ Len(Log') \in Nat /\ Len(Log') <= Kept
  <2>1. Log' = disk.data[disk.tmp]
    BY <1>1, <1>2 DEF Log
  <2>2. Sequence(disk.data[disk.tmp]) /\ Len(disk.data[disk.tmp]) <= Kept
    BY <1>1 DEF HistoryInv, FilesInv
  <2>3. QED
    BY <2>1, <2>2, SequenceHas
<1>7. TypeOK'
  <2>1. rotated' \in 0..Len(appended')
    BY <1>3, Basics
  <2>2. QED
    BY <1>1, <1>2, <1>3, <2>1, Basics DEF HistoryInv, TypeOK
<1>8. FilesInv'
  BY <1>2, <1>3 DEF HistoryInv, FilesInv
<1>9. CallInv(a)'
  BY <1>4, <1>5 DEF CallInv, AtLog, OffLog, LogStages
<1>10. \A b \in Actors \ {a} : CallInv(b)'
  BY <1>1, <1>2, <1>5, OthersKept
<1>11. RowsInv'
  <2>1. Cardinality(Cutting') \in Nat
    BY QueryHistoryAssumption, FS_Subset, FS_CardinalityType DEF Cutting
  <2>2. QED
    BY <1>3, <1>6, <2>1, Basics DEF RowsInv
<1>12. ASSUME NewestInv, ~overlap'
       PROVE  /\ \A b, c \in Actors : AtLog(b)' /\ AtLog(c)' => b = c
              /\ \A b \in Actors : AloneAtLog(b)'
              /\ NewestKept'
  <2>1. /\ disk.data[disk.tmp] = LastOf(Log, Kept)
        /\ \A b \in Actors \ {a} : ~AtLog(b)
    BY <1>1, <1>3, <1>12 DEF NewestInv, AloneAtLog, In
  <2>2. \A b \in Actors : ~AtLog(b)' /\ AloneAtLog(b)'
    BY <1>4, <1>5, <2>1 DEF AtLog, AloneAtLog, OffLog, LogStages
  <2>3. NewestKept'
    <3> DEFINE n == Len(appended)
               k == Min({Kept, rotated}) + n - rotated
               m == Min({Kept, n}) + n - n
    <3>1. Log = LastOf(appended, k)
      BY <1>3, <1>12 DEF NewestInv, NewestKept
    <3>2. /\ n \in Nat /\ k \in Nat /\ m \in Nat /\ m <= k /\ k <= n /\ m <= n
          /\ Kept \in Nat
          /\ m = IF Kept <= k THEN Kept ELSE k
      <4>1. /\ n \in Nat /\ rotated \in Nat /\ rotated <= n /\ Kept \in Nat
        BY Basics
      <4>2. /\ Min({Kept, n}) = IF Kept <= n THEN Kept ELSE n
            /\ Min({Kept, rotated}) = IF Kept <= rotated THEN Kept ELSE rotated
        BY <4>1, MinOfTwo
      <4>3. CASE Kept <= rotated
        BY <4>1, <4>2, <4>3
      <4>4. CASE ~(Kept <= rotated) /\ Kept <= n
        BY <4>1, <4>2, <4>4
      <4>5. CASE ~(Kept <= rotated) /\ ~(Kept <= n)
        BY <4>1, <4>2, <4>5
      <4>6. QED
        BY <4>3, <4>4, <4>5
    <3>3. Min({Kept, rotated'}) + Len(appended') - rotated' = m
      BY <1>3
    <3> HIDE DEF k, m
    <3>4. LastLen(appended, m) = m /\ LastLen(appended, k) = k
      BY <3>2, LastLenIs
    <3>5. LastOf(LastOf(appended, k), Kept) = LastOf(appended, m)
      BY <3>2, <3>4, Basics, LastOfLast
    <3>6. Log' = LastOf(appended', m)
      BY <1>3, <1>6, <2>1, <3>1, <3>5
    <3>7. QED
      BY <3>3, <3>6 DEF NewestKept
  <2>4. QED
    BY <2>2, <2>3
<1>13. QED
  BY <1>5, <1>7, <1>8, <1>9, <1>10, <1>11, <1>12 DEF HistoryInv, NewestInv

----------------------------------------------------------------------------
(* The other steps, and the theorems about the log *)

LEMMA MovedIsOff ==
  ASSUME NEW call, "at" \in DOMAIN call, "file" \notin DOMAIN call,
         NEW stage, stage \notin LogStages, NEW more, "file" \notin DOMAIN more
  PROVE  OffLog(Moved(call, stage, more))
BY DEF OffLog, Moved

LEMMA RecordingIsOff ==
  ASSUME NEW call, "at" \in DOMAIN call, "file" \notin DOMAIN call, NEW status, NEW count, NEW elapsed
  PROVE  OffLog(Recording(call, status, count, elapsed))
<1> DEFINE more == [row |-> Row(call.hash, status, count, Diagnostic), elapsed |-> Max({0, elapsed})]
<1>1. "file" \notin DOMAIN more /\ "open" \notin LogStages
  BY DEF LogStages
<1>2. Recording(call, status, count, elapsed) = Moved(call, "open", more)
  BY DEF Recording
<1> HIDE DEF more
<1>3. QED
  BY <1>1, <1>2, MovedIsOff

LEMMA HandlingIsOff ==
  ASSUME NEW call, NEW error
  PROVE  OffLog(Handling(call, error))
<1> DEFINE handled == [k \in {"at", "how", "hash", "start", "statuses", "raise"} |->
                         IF k = "raise" THEN error.class ELSE call[k]]
<1>1. "at" \in DOMAIN handled /\ "file" \notin DOMAIN handled
  OBVIOUS
<1>2. Handling(call, error) = Recording(handled, StatusOf(error), 0, clock - call.start)
  BY DEF Handling
<1> HIDE DEF handled
<1>3. QED
  BY <1>1, <1>2, RecordingIsOff

LEMMA InterruptedIsOff ==
  ASSUME NEW call, NEW error
  PROVE  OffLog(Interrupted(call, error))
<1>1. OffLog(Handling(call, error))
  BY HandlingIsOff
<1>2. OffLog(Ended([call EXCEPT !.raise = error.class], "raised"))
  BY EndedIsOff DEF Finished
<1>3. QED
  BY <1>1, <1>2 DEF Interrupted

\* The steps of the query, the trace and the end of a process.
LEMMA OtherStepsKeep ==
  ASSUME HistoryInv, NEW a \in Actors,
         \/ Calling(a) \/ ExecuteReturned(a) \/ ExecuteRaised(a) \/ ReplaceRaises(a)
         \/ OpenTrace(a) \/ WriteTrace(a) \/ TraceRaises(a)
         \/ CliReturns(a) \/ CliRaises(a) \/ Crash(a)
  PROVE  HistoryInv' /\ (NewestInv => NewestInv')
<1>1. "at" \in DOMAIN caller[a] /\ (caller[a].at \notin LogStages => "file" \notin DOMAIN caller[a])
  BY DEF HistoryInv, CallInv, AtLog, LogStages
<1> SUFFICES \E call : /\ caller' = [caller EXCEPT ![a] = call] /\ OffLog(call)
                       /\ UNCHANGED <<disk, appended, rotated, overlap>>
                       /\ \/ faults' = faults /\ a \notin Cutting
                          \/ faults' = faults + 1 /\ faults < MaxFaults
  BY LeavesLog
<1>2. ASSUME NEW request \in Requests[a], CallExecute(a, request) \/ CallRecord(a, request) \/ CallTrace(a, request)
      PROVE  \E call : caller' = [caller EXCEPT ![a] = call] /\ OffLog(call)
  <2> DEFINE execute == [at |-> "execute", how |-> request.how, hash |-> request.text, start |-> clock,
                         statuses |-> << >>, raise |-> ""]
             record == [at |-> "open", how |-> "record", hash |-> request.text, start |-> clock,
                        statuses |-> << >>, raise |-> "", elapsed |-> 0,
                        row |-> Row(request.text, request.status, request.count, request.extras)]
             traced == [at |-> "open trace", how |-> "trace", hash |-> request.text, start |-> clock,
                        statuses |-> <<request.status>>, raise |-> "", stages |-> request.stages]
  <2>1. OffLog(execute) /\ OffLog(record) /\ OffLog(traced)
    BY DEF OffLog, LogStages
  <2>2. \/ caller' = [caller EXCEPT ![a] = execute]
        \/ caller' = [caller EXCEPT ![a] = record]
        \/ caller' = [caller EXCEPT ![a] = traced]
    BY <1>2 DEF CallExecute, CallRecord, CallTrace
  <2> HIDE DEF execute, record, traced
  <2>3. QED
    BY <2>1, <2>2
<1>3. ASSUME Calling(a)
      PROVE  a \notin Cutting /\ faults' = faults /\ UNCHANGED <<disk, appended, rotated, overlap>>
  BY <1>3 DEF Calling, CallExecute, CallRecord, CallTrace, In, Cutting
<1>4. CASE Calling(a)
  BY <1>2, <1>3, <1>4 DEF Calling
<1>5. CASE ExecuteReturned(a)
  <2>1. OffLog(Recording(caller[a], "ok", Len(job[a].results), clock - caller[a].start))
    BY <1>1, <1>5, RecordingIsOff DEF ExecuteReturned, In, LogStages
  <2>2. QED
    BY <1>5, <2>1 DEF ExecuteReturned, In, Cutting
<1>6. CASE ExecuteRaised(a)
  <2>1. OffLog(Handling(caller[a], job[a].error))
    BY HandlingIsOff
  <2>2. QED
    BY <1>6, <2>1 DEF ExecuteRaised, In, Cutting
<1>7. CASE ReplaceRaises(a)
  <2>1. OffLog(Interrupted(Closed(caller[a]), Error("FileNotFoundError", {})))
    BY InterruptedIsOff
  <2>2. QED
    BY <1>7, <2>1 DEF ReplaceRaises, In, Cutting
<1>8. CASE OpenTrace(a)
  <2>1. OffLog([caller[a] EXCEPT !.at = "write trace"])
    BY <1>1, <1>8 DEF OpenTrace, In, OffLog, LogStages
  <2>2. QED
    BY <1>8, <2>1 DEF OpenTrace, In, Cutting
<1>9. CASE WriteTrace(a)
  <2>1. OffLog(Ended(caller[a], IF caller[a].raise = "" THEN "returned" ELSE "raised"))
    BY EndedIsOff DEF Finished
  <2>2. QED
    BY <1>9, <2>1 DEF WriteTrace, In, Cutting
<1>10. CASE TraceRaises(a)
  <2>1. OffLog(Interrupted(caller[a], Error("OSError", {})))
    BY InterruptedIsOff
  <2>2. QED
    BY <1>10, <2>1 DEF TraceRaises
<1>11. ASSUME NEW call, NEW stage \in Finished, NEW exit
       PROVE  OffLog(Moved(Ended(call, stage), stage, [exit |-> exit]))
  <2>1. OffLog(Ended(call, stage)) /\ stage \notin LogStages
    BY EndedIsOff DEF Finished, LogStages
  <2>2. QED
    BY <2>1, MovedIsOff DEF OffLog
<1>12. CASE CliReturns(a)
  BY <1>11, <1>12 DEF CliReturns, In, Cutting, Finished
<1>13. CASE CliRaises(a)
  BY <1>11, <1>13 DEF CliRaises, In, Cutting, Finished
<1>14. CASE Crash(a)
  <2>1. OffLog([at |-> "crashed", hash |-> caller[a].hash])
    BY DEF OffLog, LogStages
  <2>2. QED
    BY <1>14, <2>1 DEF Crash
<1>15. QED
  BY <1>4, <1>5, <1>6, <1>7, <1>8, <1>9, <1>10, <1>12, <1>13, <1>14

LEMMA HistoryNext ==
  ASSUME HistoryInv, [Next]_vars
  PROVE  HistoryInv' /\ (NewestInv => NewestInv')
<1>1. CASE Environment \/ UNCHANGED vars
  BY <1>1, LeavesAll DEF Environment, vars
<1>2. ASSUME NEW a \in Actors, Calling(a) \/ Step(a) \/ Crash(a)
      PROVE  HistoryInv' /\ (NewestInv => NewestInv')
  <2>1. CASE Executing(a)
    BY <2>1, LeavesAll DEF Executing
  <2>2. CASE OpenLog(a)
    BY <2>2, OpenLogKeeps
  <2>3. CASE AppendRow(a)
    BY <2>3, AppendRowKeeps
  <2>4. CASE ReadRows(a)
    BY <2>4, ReadRowsKeeps
  <2>5. CASE OpenTmp(a)
    BY <2>5, OpenTmpKeeps
  <2>6. CASE WriteTmp(a)
    BY <2>6, WriteTmpKeeps
  <2>7. CASE ReplaceLog(a)
    BY <2>7, ReplaceLogKeeps
  <2>8. CASE \/ Calling(a) \/ ExecuteReturned(a) \/ ExecuteRaised(a) \/ ReplaceRaises(a)
             \/ OpenTrace(a) \/ WriteTrace(a) \/ TraceRaises(a)
             \/ CliReturns(a) \/ CliRaises(a) \/ Crash(a)
    BY <2>8, OtherStepsKeep
  <2>9. QED
    BY <1>2, <2>1, <2>2, <2>3, <2>4, <2>5, <2>6, <2>7, <2>8 DEF Step
<1>3. QED
  BY <1>1, <1>2 DEF Next

LEMMA HistoryInit == Init => HistoryInv /\ NewestInv
<1> SUFFICES ASSUME Init
             PROVE  HistoryInv /\ NewestInv
  OBVIOUS
<1>1. /\ disk.live = NoFile /\ disk.tmp = NoFile /\ appended = << >> /\ rotated = 0 /\ faults = 0
      /\ disk.data = [i \in 1..(Cardinality(Actors) + 2) |-> << >>] /\ overlap = FALSE
      /\ disk = [live |-> disk.live, tmp |-> disk.tmp, data |-> disk.data]
      /\ caller = [a \in Actors |-> Idle]
  BY DEF Init
<1>2. Log = << >> /\ Sequence(Log) /\ Len(Log) = 0 /\ Sequence(appended) /\ Len(appended) = 0
  BY <1>1, NoRows DEF Log
<1>3. TypeOK
  <2>1. faults \in 0..MaxFaults /\ rotated \in 0..Len(appended)
    BY <1>1, <1>2, QueryHistoryAssumption
  <2>2. QED
    BY <1>1, <2>1 DEF TypeOK
<1>4. FilesInv
  <2>1. DOMAIN disk.data = 1..(Cardinality(Actors) + 2) /\ \A f \in DOMAIN disk.data : Sequence(disk.data[f])
    BY <1>1, NoRows
  <2>2. QED
    BY <1>1, <1>2, <2>1 DEF FilesInv
<1>5. DOMAIN caller = Actors /\ \A a \in Actors : ~AtLog(a) /\ CallInv(a) /\ AloneAtLog(a)
  BY <1>1 DEF CallInv, AtLog, AloneAtLog, Idle
<1>6. RowsInv
  <2>1. Cutting = {}
    BY <1>1 DEF Cutting, Idle
  <2>2. Cardinality(Cutting) = 0
    BY <2>1, FS_EmptySet
  <2>3. QED
    BY <1>1, <1>2, <2>2, KeptType DEF RowsInv
<1>7. NewestKept
  <2> DEFINE k == Min({Kept, rotated}) + Len(appended) - rotated
  <2>1. k \in Nat
    <3>1. 0 \in Nat /\ Min({Kept, 0}) \in Nat
      BY MinKept
    <3>2. QED
      BY <1>1, <1>2, <3>1
  <2> HIDE DEF k
  <2>2. Sequence(LastOf(appended, k)) /\ Len(LastOf(appended, k)) = LastLen(appended, k)
    BY <1>2, <2>1, LastOfIs
  <2>3. LastLen(appended, k) = 0
    BY <1>2, <2>1, LastLenIs
  <2>4. LastOf(appended, k) = Log
    BY <1>2, <2>2, <2>3, SameSequence
  <2>5. QED
    BY <2>4 DEF NewestKept, k
<1>8. QED
  BY <1>3, <1>5, <1>6, <1>7, <1>4 DEF HistoryInv, NewestInv

LEMMA HistoryInvariant == Spec => [](HistoryInv /\ NewestInv)
<1>1. Init => HistoryInv /\ NewestInv
  BY HistoryInit
<1>2. (HistoryInv /\ NewestInv) /\ [Next]_vars => (HistoryInv /\ NewestInv)'
  BY HistoryNext
<1>3. QED
  BY <1>1, <1>2, PTL DEF Spec

(* The log and its .tmp are never one file, whatever processes rotate it at
   once, and there is always a file for a name that has none. *)
THEOREM TypeCorrect == Spec => []TypeOK
<1>1. HistoryInv => TypeOK
  BY DEF HistoryInv
<1>2. QED
  BY <1>1, HistoryInvariant, PTL

(* As long as processes are at the log one after the other, it has the newest
   rows up to the last rotation and all since: none is lost that the bound
   does not drop, whatever crashes and writes that fail. *)
THEOREM NewestAreKept == Spec => []NewestKept
<1>1. HistoryInv /\ NewestInv => NewestKept
  BY DEF NewestInv, NewestKept
<1>2. QED
  BY <1>1, HistoryInvariant, PTL

(* In every interleaving of any number of processes, each row above
   max_entries is of a call that is still at the log or that has failed. *)
THEOREM HistoryIsBounded == Spec => []HistoryBounded
<1>1. HistoryInv => HistoryBounded
  <2> SUFFICES ASSUME HistoryInv
               PROVE  HistoryBounded
    OBVIOUS
  <2> DEFINE atLog == {a \in Actors : AtLog(a)}
  <2>1. IsFiniteSet(atLog) /\ Cardinality(atLog) \in Nat
    BY QueryHistoryAssumption, FS_Subset, FS_CardinalityType
  <2>2. Cutting \subseteq atLog
    BY DEF Cutting, AtLog
  <2>3. Cardinality(Cutting) <= Cardinality(atLog)
    BY <2>1, <2>2, FS_Subset
  <2>4. QED
    BY <2>1, <2>3, Basics DEF HistoryInv, RowsInv, HistoryBounded
<1>2. QED
  BY <1>1, HistoryInvariant, PTL

----------------------------------------------------------------------------
(* How a call is recorded: the invariant *)

BeforeRow == {"open", "append"}
AfterRow == {"read", "open tmp", "write tmp", "replace", "open trace", "write trace"}
Underway == {"execute"} \cup BeforeRow \cup AfterRow

GivenStages == Seq([name : STRING, from : Int, to : Int])

\* A process or a write has failed, or another process was at the log.
Disturbed == overlap \/ faults > 0

\* What a call has at each of its stages.
CallShape(call) ==
  /\ "at" \in DOMAIN call /\ call.at \in {"idle", "crashed"} \cup Finished \cup Underway
  /\ call.at # "idle" => "hash" \in DOMAIN call /\ call.hash \in DOMAIN Queries
  /\ call.at \in Underway =>
       /\ {"how", "start", "statuses", "raise"} \subseteq DOMAIN call /\ call.start \in Int
       /\ call.how = "trace" =>
            /\ call.at \in {"open trace", "write trace"} /\ call.raise = ""
            /\ "stages" \in DOMAIN call /\ call.stages \in GivenStages
  /\ call.at \in BeforeRow \cup AfterRow /\ call.how = "history" =>
       "elapsed" \in DOMAIN call /\ call.elapsed \in Nat

\* The exceptions of a load.
LoadClasses == {"UnicodeDecodeError", "FileNotFoundError", "IsADirectoryError", "PermissionError", "OSError"}

\* The exception a call ends with agrees with what it has recorded.
Outcome(call, statuses, disturbed) ==
  LET accepted == Accepted(Queries[call.hash])
  IN  \/ call.raise = "" /\ accepted /\ statuses = <<"ok">>
      \/ call.raise = "ParseError" /\ ~accepted /\ statuses = <<"rejected">>
      \/ call.raise \in LoadClasses /\ accepted /\ statuses = <<"error">>
      \/ /\ call.raise \in {"FileNotFoundError", "OSError"} /\ accepted
         /\ statuses = <<"ok", "error">> /\ disturbed

\* OutcomeRecorded, of one call.
EndTells(call, disturbed) ==
  LET accepted == Accepted(Queries[call.hash])
  IN  /\ call.how = "history" =>
           /\ call.at = "returned" => call.statuses = <<"ok">> /\ accepted
           /\ call.at = "raised" => call.statuses \in {<<"rejected">>, <<"error">>, <<"ok", "error">>}
           /\ ~accepted <=> "rejected" \in {call.statuses[i] : i \in DOMAIN call.statuses}
           /\ ~disturbed /\ call.at = "raised" =>
                Len(call.statuses) = 1 /\ call.raise \in {"ParseError", "UnicodeDecodeError"} \cup OsClasses
      /\ "exit" \in DOMAIN call =>
           /\ call.exit = 0 <=> call.at = "returned"
           /\ call.exit = 2 <=> ~accepted

CallTells(call, disturbed) ==
  /\ call.at = "execute" => call.statuses = << >> /\ call.raise = ""
  /\ call.at \in BeforeRow /\ call.how = "history" =>
       "row" \in DOMAIN call /\ Outcome(call, Append(call.statuses, call.row.status), disturbed)
  /\ call.at \in AfterRow /\ call.how = "history" => Outcome(call, call.statuses, disturbed)
  /\ call.at \in Finished => EndTells(call, disturbed)

\* A call of execute knows what became of the text and of the load.
JobTells(call, run) ==
  call.at = "execute" =>
    /\ {"at", "query"} \subseteq DOMAIN run /\ run.query = Queries[call.hash]
    /\ run.at \in {"load", "read", "lookup", "filter", "done"} => Accepted(run.query)
    /\ run.at = "failed" =>
         \/ ~Accepted(run.query) /\ run.error = ParseErrorOf(run.query)
         \/ Accepted(run.query) /\ run.error \in LoadErrors

OutcomeInv ==
  /\ DOMAIN job = Actors /\ clock \in Int
  /\ \A a \in Actors : CallShape(caller[a]) /\ CallTells(caller[a], Disturbed) /\ JobTells(caller[a], job[a])

----------------------------------------------------------------------------
(* The fields of a call after a step *)

LEMMA RecordingIs ==
  ASSUME NEW call, {"at", "how", "hash", "start", "statuses", "raise"} \subseteq DOMAIN call,
         NEW status, NEW count, NEW elapsed \in Int
  PROVE  LET next == Recording(call, status, count, elapsed)
         IN  /\ {"at", "how", "hash", "start", "statuses", "raise", "row", "elapsed"} \subseteq DOMAIN next
             /\ next.at = "open" /\ next.how = call.how /\ next.hash = call.hash
             /\ next.start = call.start /\ next.statuses = call.statuses /\ next.raise = call.raise
             /\ next.row.status = status /\ next.elapsed \in Nat
<1> DEFINE row == Row(call.hash, status, count, Diagnostic)
           more == [row |-> row, elapsed |-> Max({0, elapsed})]
           next == Moved(call, "open", more)
<1>1. DOMAIN more = {"row", "elapsed"} /\ more.row = row /\ more.elapsed = Max({0, elapsed})
  OBVIOUS
<1>2. row.status = status
  BY DEF Row
<1>3. Max({0, elapsed}) \in Nat
  <2>1. Max({0, elapsed}) = IF 0 <= elapsed THEN elapsed ELSE 0
    BY MaxOfTwo
  <2>2. QED
    BY <2>1
<1>4. next = Recording(call, status, count, elapsed)
  BY DEF Recording
<1> HIDE DEF more, row
<1>5. /\ DOMAIN next = DOMAIN call \cup {"row", "elapsed"} /\ next.at = "open"
      /\ next.row = row /\ next.elapsed = Max({0, elapsed})
      /\ \A f \in DOMAIN call \ {"row", "elapsed", "at"} : next[f] = call[f]
  <2>1. "at" \in DOMAIN call
    OBVIOUS
  <2>2. /\ DOMAIN next = DOMAIN call \cup DOMAIN more /\ next.at = "open"
        /\ \A f \in DOMAIN more \ {"at"} : next[f] = more[f]
        /\ \A f \in DOMAIN call \ (DOMAIN more \cup {"at"}) : next[f] = call[f]
    <3> HIDE DEF more
    <3>1. DOMAIN next = DOMAIN call \cup DOMAIN more /\ next.at = "open"
      BY <2>1 DEF Moved
    <3>2. ASSUME NEW f \in DOMAIN more \ {"at"}
          PROVE  next[f] = more[f]
      BY <2>1 DEF Moved
    <3>3. ASSUME NEW f \in DOMAIN call \ (DOMAIN more \cup {"at"})
          PROVE  next[f] = call[f]
      BY <2>1 DEF Moved
    <3>4. QED
      BY <3>1, <3>2, <3>3
  <2> HIDE DEF next
  <2>3. next.row = row /\ next.elapsed = Max({0, elapsed})
    BY <1>1, <2>2
  <2>4. QED
    BY <1>1, <2>2, <2>3
<1> HIDE DEF next
<1>6. QED
  BY <1>2, <1>3, <1>4, <1>5

LEMMA HandlingIs ==
  ASSUME NEW call, call.start \in Int, clock \in Int, NEW error
  PROVE  LET next == Handling(call, error)
         IN  /\ {"at", "how", "hash", "start", "statuses", "raise", "row", "elapsed"} \subseteq DOMAIN next
             /\ next.at = "open" /\ next.how = call.how /\ next.hash = call.hash
             /\ next.start = call.start /\ next.statuses = call.statuses /\ next.raise = error.class
             /\ next.row.status = StatusOf(error) /\ next.elapsed \in Nat
<1> DEFINE handled == [k \in {"at", "how", "hash", "start", "statuses", "raise"} |->
                         IF k = "raise" THEN error.class ELSE call[k]]
<1>1. /\ DOMAIN handled = {"at", "how", "hash", "start", "statuses", "raise"}
      /\ handled.how = call.how /\ handled.hash = call.hash /\ handled.start = call.start
      /\ handled.statuses = call.statuses /\ handled.raise = error.class
  OBVIOUS
<1>2. Handling(call, error) = Recording(handled, StatusOf(error), 0, clock - call.start)
  BY DEF Handling
<1>3. clock - call.start \in Int
  OBVIOUS
<1> HIDE DEF handled
<1>4. QED
  BY <1>1, <1>2, <1>3, RecordingIs

LEMMA EndedIs ==
  ASSUME NEW call, NEW stage
  PROVE  LET next == Ended(call, stage)
         IN  /\ DOMAIN next = {"at", "how", "hash", "statuses", "raise"}
             /\ next.at = stage /\ next.how = call.how /\ next.hash = call.hash
             /\ next.statuses = call.statuses /\ next.raise = call.raise
BY DEF Ended

\* The statuses there are, one or two of them.
LEMMA FewStatuses ==
  /\ \A s : Append(<< >>, s) = <<s>>
  /\ \A s, t : Append(<<s>>, t) = <<s, t>>
  /\ \A s : {<<s>>[i] : i \in DOMAIN <<s>>} = {s} /\ Len(<<s>>) = 1 /\ <<s>>[Len(<<s>>)] = s
  /\ \A s, t : {<<s, t>>[i] : i \in DOMAIN <<s, t>>} = {s, t} /\ Len(<<s, t>>) = 2
               /\ <<s, t>>[Len(<<s, t>>)] = t
<1>1. \A s : Append(<< >>, s) = <<s>>
  OBVIOUS
<1>2. ASSUME NEW s, NEW t
      PROVE  Append(<<s>>, t) = <<s, t>>
  <2>1. <<s>> \in Seq({s, t}) /\ <<s, t>> \in Seq({s, t})
    OBVIOUS
  <2>2. /\ Sequence(<<s>>) /\ Sequence(<<s, t>>) /\ Len(<<s>>) = 1 /\ Len(<<s, t>>) = 2
        /\ <<s>>[1] = s /\ <<s, t>>[1] = s /\ <<s, t>>[2] = t
    BY <2>1, SequenceOf
  <2>3. /\ Sequence(Append(<<s>>, t)) /\ Len(Append(<<s>>, t)) = 2
        /\ Append(<<s>>, t)[1] = s /\ Append(<<s>>, t)[2] = t
    BY <2>2, AppendIs
  <2> DEFINE one == <<s>>
             two == <<s, t>>
  <2>4. \A i \in 1..2 : Append(one, t)[i] = two[i]
    <3>1. one = <<s>> /\ two[1] = s /\ two[2] = t
      BY <2>2
    <3> HIDE DEF one, two
    <3>2. Append(one, t)[1] = two[1] /\ Append(one, t)[2] = two[2]
      BY <2>3, <3>1
    <3>3. ASSUME NEW i \in 1..2
          PROVE  Append(one, t)[i] = two[i]
      <4>1. i = 1 \/ i = 2
        OBVIOUS
      <4>2. QED
        BY <3>2, <4>1
    <3>4. QED
      BY <3>3
  <2>5. /\ Sequence(Append(one, t)) /\ Sequence(two)
        /\ Len(Append(one, t)) = 2 /\ Len(two) = 2
    BY <2>2, <2>3
  <2> HIDE DEF one, two
  <2>6. Append(one, t) = two
    BY <2>4, <2>5, SameSequence
  <2>7. QED
    BY <2>6 DEF one, two
<1>3. \A s : DOMAIN <<s>> = {1} /\ <<s>>[1] = s /\ Len(<<s>>) = 1
  OBVIOUS
<1>4. \A s, t : DOMAIN <<s, t>> = {1, 2} /\ <<s, t>>[1] = s /\ <<s, t>>[2] = t /\ Len(<<s, t>>) = 2
  OBVIOUS
<1>5. QED
  BY <1>1, <1>2, <1>3, <1>4

----------------------------------------------------------------------------
(* What a step leaves *)

\* What is said of a call stays true of it.
LEMMA TellsStays ==
  ASSUME NEW call, NEW before \in BOOLEAN, NEW after \in BOOLEAN, CallTells(call, before), before => after
  PROVE  CallTells(call, after)
<1>1. \A statuses : Outcome(call, statuses, before) => Outcome(call, statuses, after)
  BY DEF Outcome
<1>2. EndTells(call, before) => EndTells(call, after)
  BY DEF EndTells
<1>3. QED
  BY <1>1, <1>2 DEF CallTells

LEMMA DisturbedGrows ==
  ASSUME HistoryInv, overlap => overlap', overlap' \in BOOLEAN, faults' \in {faults, faults + 1}
  PROVE  Disturbed \in BOOLEAN /\ Disturbed' \in BOOLEAN /\ (Disturbed => Disturbed')
<1>1. faults \in Nat
  BY Basics
<1>2. faults > 0 => faults' > 0
  BY <1>1
<1>3. QED
  BY <1>2 DEF Disturbed

\* A step of one process, and a step of the others.
LEMMA OneMoves ==
  ASSUME OutcomeInv, HistoryInv, NEW a \in Actors, NEW call, caller' = [caller EXCEPT ![a] = call],
         DOMAIN job' = Actors, \A b \in Actors \ {a} : job'[b] = job[b], clock' \in Int,
         overlap => overlap', overlap' \in BOOLEAN, faults' \in {faults, faults + 1},
         CallShape(call), CallTells(call, Disturbed'), JobTells(call, job'[a])
  PROVE  OutcomeInv'
<1>1. caller'[a] = call /\ \A b \in Actors \ {a} : caller'[b] = caller[b]
  BY CallMoved
<1>2. Disturbed \in BOOLEAN /\ Disturbed' \in BOOLEAN /\ (Disturbed => Disturbed')
  BY DisturbedGrows
<1>3. ASSUME NEW b \in Actors
      PROVE  CallShape(caller'[b]) /\ CallTells(caller'[b], Disturbed') /\ JobTells(caller'[b], job'[b])
  <2>1. CASE b = a
    BY <1>1, <2>1
  <2>2. CASE b # a
    <3>1. caller'[b] = caller[b] /\ job'[b] = job[b]
      BY <1>1, <2>2
    <3>2. CallShape(caller[b]) /\ CallTells(caller[b], Disturbed) /\ JobTells(caller[b], job[b])
      BY DEF OutcomeInv
    <3>3. CallTells(caller[b], Disturbed')
      BY <1>2, <3>2, TellsStays
    <3>4. QED
      BY <3>1, <3>2, <3>3
  <2>3. QED
    BY <2>1, <2>2
<1>4. QED
  BY <1>3 DEF OutcomeInv

LEMMA NoneMoves ==
  ASSUME OutcomeInv, UNCHANGED <<caller, faults, overlap>>, DOMAIN job' = Actors, clock' \in Int,
         \A a \in Actors : JobTells(caller[a], job'[a])
  PROVE  OutcomeInv'
<1>1. Disturbed' = Disturbed
  BY DEF Disturbed
<1>2. QED
  BY <1>1 DEF OutcomeInv

\* The steps of a call of execute.
LEMMA RunTells ==
  ASSUME OutcomeInv, NEW a \in Actors, ExecStep(a) \/ LoadMemory(a)
  PROVE  /\ clock' = clock /\ DOMAIN job' = Actors /\ \A b \in Actors \ {a} : job'[b] = job[b]
         /\ JobTells(caller[a], job'[a])
<1> USE DEF At
<1>1. DOMAIN job = Actors /\ JobTells(caller[a], job[a])
  BY DEF OutcomeInv
<1>2. CASE ParseQuery(a)
  BY <1>1, <1>2 DEF ParseQuery, JobTells
<1>3. CASE RejectQuery(a)
  BY <1>1, <1>3 DEF RejectQuery, Fail, JobTells
<1>4. CASE LoadFile(a)
  <2>1. /\ UNCHANGED clock /\ DOMAIN job' = Actors /\ \A b \in Actors \ {a} : job'[b] = job[b]
    BY <1>1, <1>4 DEF LoadFile
  <2>2. job'[a] = [job[a] EXCEPT !.file = @ + 1, !.records = @ \o RecordsOf(NextFile(a))]
    BY <1>1, <1>4 DEF LoadFile
  <2>3. {"at", "query"} \subseteq DOMAIN job[a] =>
          {"at", "query"} \subseteq DOMAIN job'[a] /\ job'[a].at = job[a].at /\ job'[a].query = job[a].query
    BY <2>2
  <2>4. QED
    BY <1>1, <1>4, <2>1, <2>3 DEF LoadFile, JobTells
<1>5. CASE Lookup(a)
  BY <1>1, <1>5 DEF Lookup, Filtering, JobTells
<1>6. CASE LookupRaises(a)
  BY <1>1, <1>6 DEF LookupRaises, Filtering, JobTells
<1>7. CASE FilterRow(a)
  <2>1. /\ UNCHANGED clock /\ DOMAIN job' = Actors /\ \A b \in Actors \ {a} : job'[b] = job[b]
    BY <1>1, <1>7 DEF FilterRow
  <2>2. \E todo, passed : job'[a] = [job[a] EXCEPT !.todo = todo, !.passed = passed]
    BY <1>1, <1>7 DEF FilterRow
  <2>3. {"at", "query"} \subseteq DOMAIN job[a] =>
          {"at", "query"} \subseteq DOMAIN job'[a] /\ job'[a].at = job[a].at /\ job'[a].query = job[a].query
    BY <2>2
  <2>4. QED
    BY <1>1, <1>7, <2>1, <2>3 DEF FilterRow, JobTells
<1>8. CASE Answer(a)
  BY <1>1, <1>8 DEF Answer, JobTells
<1>9. CASE LoadMemory(a)
  <2>1. CASE BeginLoad(a)
    BY <1>1, <1>9, <2>1 DEF LoadMemory, BeginLoad, JobTells
  <2>2. CASE \E error \in LoadErrors : LoadRaises(a, error)
    BY <1>1, <1>9, <2>2 DEF LoadRaises, Fail, JobTells
  <2>3. CASE LoadEnds(a) /\ Loaded(a, job[a].records)
    BY <1>1, <1>9, <2>3 DEF LoadMemory, LoadEnds, Loaded, Filtering, JobTells
  <2>4. QED
    BY <1>9, <2>1, <2>2, <2>3 DEF LoadMemory
<1>10. QED
  BY <1>2, <1>3, <1>4, <1>5, <1>6, <1>7, <1>8, <1>9 DEF ExecStep

LEMMA ExecutingTells ==
  ASSUME OutcomeInv, NEW a \in Actors, Executing(a)
  PROVE  OutcomeInv'
<1>1. /\ clock' = clock /\ DOMAIN job' = Actors /\ \A b \in Actors \ {a} : job'[b] = job[b]
      /\ JobTells(caller[a], job'[a]) /\ UNCHANGED <<caller, faults, overlap>>
  BY RunTells DEF Executing
<1>2. \A b \in Actors : JobTells(caller[b], job'[b])
  BY <1>1 DEF OutcomeInv
<1>3. QED
  BY <1>1, <1>2, NoneMoves DEF OutcomeInv

LEMMA EnvironmentTells ==
  ASSUME OutcomeInv, Environment \/ UNCHANGED vars
  PROVE  OutcomeInv'
<1>1. UNCHANGED <<job, caller, faults, overlap>>
  BY DEF Environment, ExecEnvironment, CreateRoot, AppendLine, Tick, vars, exec
<1>2. clock' \in Int
  BY BqlExecutorAssumption DEF OutcomeInv, Environment, ExecEnvironment, CreateRoot, AppendLine, Tick, vars, exec
<1>3. QED
  BY <1>1, <1>2, NoneMoves DEF OutcomeInv

\* A call begins.
LEMMA CallingTells ==
  ASSUME HistoryInv, OutcomeInv, NEW a \in Actors, Calling(a)
  PROVE  OutcomeInv'
<1> PICK request \in Requests[a] : CallExecute(a, request) \/ CallRecord(a, request) \/ CallTrace(a, request)
  BY DEF Calling
<1>1. /\ request.text \in DOMAIN Queries
      /\ request.how = "trace" => request.stages \in GivenStages
  BY RequestsAssumption DEF GivenStages
<1>2. DOMAIN job = Actors /\ clock \in Int /\ faults' = faults /\ overlap' = overlap /\ overlap \in BOOLEAN
  BY DEF OutcomeInv, HistoryInv, TypeOK, CallExecute, CallRecord, CallTrace
<1> USE DEF CallShape, CallTells, JobTells, Underway, BeforeRow, AfterRow, Finished
<1>3. CASE CallExecute(a, request)
  <2> DEFINE call == [at |-> "execute", how |-> request.how, hash |-> request.text, start |-> clock,
                      statuses |-> << >>, raise |-> ""]
  <2>1. caller' = [caller EXCEPT ![a] = call] /\ clock' = clock /\ request.how # "trace"
    BY <1>3 DEF CallExecute
  <2>2. DOMAIN job' = Actors /\ \A b \in Actors \ {a} : job'[b] = job[b]
    BY <1>2, <1>3 DEF CallExecute, Start
  <2>3. JobTells(call, job'[a])
    BY <1>2, <1>3 DEF CallExecute, Start
  <2>4. CallShape(call) /\ CallTells(call, Disturbed')
    BY <1>1, <1>2, <2>1
  <2> HIDE DEF call
  <2>5. QED
    BY <1>2, <2>1, <2>2, <2>3, <2>4, OneMoves
<1>4. CASE CallRecord(a, request)
  <2> DEFINE call == [at |-> "open", how |-> "record", hash |-> request.text, start |-> clock,
                      statuses |-> << >>, raise |-> "", elapsed |-> 0,
                      row |-> Row(request.text, request.status, request.count, request.extras)]
  <2>1. caller' = [caller EXCEPT ![a] = call] /\ UNCHANGED <<clock, job>>
    BY <1>4 DEF CallRecord, exec
  <2>2. CallShape(call) /\ CallTells(call, Disturbed') /\ JobTells(call, job'[a])
    BY <1>1, <1>2
  <2> HIDE DEF call
  <2>3. QED
    BY <1>2, <2>1, <2>2, OneMoves
<1>5. CASE CallTrace(a, request)
  <2> DEFINE call == [at |-> "open trace", how |-> "trace", hash |-> request.text, start |-> clock,
                      statuses |-> <<request.status>>, raise |-> "", stages |-> request.stages]
  <2>1. /\ caller' = [caller EXCEPT ![a] = call] /\ UNCHANGED <<clock, job>> /\ request.how = "trace"
    BY <1>5 DEF CallTrace, exec
  <2>2. CallShape(call) /\ CallTells(call, Disturbed') /\ JobTells(call, job'[a])
    BY <1>1, <1>2, <2>1
  <2> HIDE DEF call
  <2>3. QED
    BY <1>2, <2>1, <2>2, OneMoves
<1>6. QED
  BY <1>3, <1>4, <1>5

\* The executor answers, or raises.
LEMMA StatusOfErrors ==
  /\ \A q : StatusOf(ParseErrorOf(q)) = "rejected" /\ ParseErrorOf(q).class = "ParseError"
  /\ \A error \in LoadErrors : StatusOf(error) = "error" /\ error.class \in LoadClasses
  /\ \A class \in {"FileNotFoundError", "OSError"} :
       StatusOf(Error(class, {})) = "error" /\ Error(class, {}).class = class
<1>1. \A q : StatusOf(ParseErrorOf(q)) = "rejected" /\ ParseErrorOf(q).class = "ParseError"
  BY DEF StatusOf, ParseErrorOf, Error
<1>2. ASSUME NEW error \in LoadErrors
      PROVE  StatusOf(error) = "error" /\ error.class \in LoadClasses
  <2>1. error.class \in LoadClasses /\ "unsafe token rejected" \notin error.says
    <3>1. CASE error \in OsErrors
      <4>1. error \in [class : OsClasses, says : SUBSET {"timestamp"}]
        BY <3>1, OsErrorsAssumption
      <4>2. error.class \in OsClasses /\ error.says \subseteq {"timestamp"}
        BY <4>1
      <4>3. QED
        BY <4>2 DEF LoadClasses, OsClasses
    <3>2. CASE error = NotUtf8
      BY <3>2 DEF NotUtf8, Error, LoadClasses
    <3>3. QED
      BY <3>1, <3>2 DEF LoadErrors
  <2>2. QED
    BY <2>1 DEF StatusOf, LoadClasses
<1>3. \A class \in {"FileNotFoundError", "OSError"} :
        StatusOf(Error(class, {})) = "error" /\ Error(class, {}).class = class
  BY DEF StatusOf, Error
<1>4. QED
  BY <1>1, <1>2, <1>3

LEMMA ExecutedTells ==
  ASSUME HistoryInv, OutcomeInv, NEW a \in Actors, ExecuteReturned(a) \/ ExecuteRaised(a)
  PROVE  OutcomeInv'
<1> DEFINE call == caller[a]
           next == IF ExecuteReturned(a) THEN Recording(call, "ok", Len(job[a].results), clock - call.start)
                   ELSE Handling(call, job[a].error)
<1>1. /\ DOMAIN job = Actors /\ clock \in Int /\ overlap \in BOOLEAN
      /\ UNCHANGED <<clock, faults, overlap>>
      /\ DOMAIN job' = Actors /\ \A b \in Actors \ {a} : job'[b] = job[b]
  BY DEF OutcomeInv, HistoryInv, TypeOK, ExecuteReturned, ExecuteRaised
<1>2. /\ call.at = "execute" /\ call.how = "history" /\ job[a].at \in {"done", "failed"}
      /\ ExecuteReturned(a) <=> job[a].at = "done"
      /\ caller' = [caller EXCEPT ![a] = next]
  BY DEF ExecuteReturned, ExecuteRaised, In, At
<1>3. /\ {"at", "how", "hash", "start", "statuses", "raise"} \subseteq DOMAIN call /\ call.start \in Int
      /\ call.hash \in DOMAIN Queries /\ call.statuses = << >> /\ call.raise = ""
      /\ job[a].at = "done" => Accepted(Queries[call.hash])
      /\ job[a].at = "failed" =>
           \/ ~Accepted(Queries[call.hash]) /\ job[a].error = ParseErrorOf(Queries[call.hash])
           \/ Accepted(Queries[call.hash]) /\ job[a].error \in LoadErrors
  <2>1. CallShape(call) /\ CallTells(call, Disturbed) /\ JobTells(call, job[a])
    BY DEF OutcomeInv
  <2>2. QED
    BY <1>2, <2>1 DEF CallShape, CallTells, JobTells, Underway
<1>4. /\ {"at", "how", "hash", "start", "statuses", "raise", "row", "elapsed"} \subseteq DOMAIN next
      /\ next.at = "open" /\ next.how = "history" /\ next.hash = call.hash /\ next.start \in Int
      /\ next.statuses = << >> /\ next.elapsed \in Nat
      /\ IF job[a].at = "done" THEN next.raise = "" /\ next.row.status = "ok"
         ELSE next.raise = job[a].error.class /\ next.row.status = StatusOf(job[a].error)
  <2>1. clock - call.start \in Int
    <3>1. clock \in Int /\ call.start \in Int
      BY <1>1, <1>3
    <3> HIDE DEF call, next
    <3>2. QED
      BY <3>1
  <2>2. CASE job[a].at = "done"
    <3> DEFINE count == Len(job[a].results)
               elapsed == clock - call.start
    <3>1. next = Recording(call, "ok", count, elapsed)
      BY <1>2, <2>2
    <3>2. elapsed \in Int
      BY <2>1
    <3>3. {"at", "how", "hash", "start", "statuses", "raise"} \subseteq DOMAIN call
      BY <1>3
    <3> HIDE DEF call, next, count, elapsed
    <3>4. /\ {"at", "how", "hash", "start", "statuses", "raise", "row", "elapsed"} \subseteq DOMAIN next
          /\ next.at = "open" /\ next.how = call.how /\ next.hash = call.hash
          /\ next.start = call.start /\ next.statuses = call.statuses /\ next.raise = call.raise
          /\ next.row.status = "ok" /\ next.elapsed \in Nat
      BY <3>1, <3>2, <3>3, RecordingIs
    <3>5. QED
      BY <1>2, <1>3, <2>2, <3>4
  <2>3. CASE job[a].at # "done"
    <3>1. next = Handling(call, job[a].error)
      BY <1>2, <2>3
    <3> HIDE DEF call, next
    <3>2. QED
      BY <1>1, <1>2, <1>3, <2>3, <3>1, HandlingIs
  <2>4. QED
    BY <2>2, <2>3
<1> HIDE DEF call, next
<1>5. CallShape(next) /\ JobTells(next, job'[a])
  BY <1>3, <1>4 DEF CallShape, JobTells, Underway, BeforeRow
<1>6. Outcome(next, <<next.row.status>>, Disturbed')
  BY <1>2, <1>3, <1>4, StatusOfErrors DEF Outcome
<1>7. CallTells(next, Disturbed')
  BY <1>4, <1>6, FewStatuses DEF CallTells, BeforeRow, AfterRow, Finished
<1>8. QED
  BY <1>1, <1>2, <1>5, <1>7, OneMoves

\* What is known of a call that is under way.
LEMMA CallAt ==
  ASSUME OutcomeInv, HistoryInv, NEW a \in Actors, NEW stage \in Underway, In(a, stage)
  PROVE  /\ CallShape(caller[a]) /\ CallTells(caller[a], Disturbed) /\ caller[a].at = stage
         /\ {"at", "how", "hash", "start", "statuses", "raise"} \subseteq DOMAIN caller[a]
         /\ caller[a].start \in Int /\ caller[a].hash \in DOMAIN Queries
         /\ DOMAIN job = Actors /\ clock \in Int /\ overlap \in BOOLEAN
BY DEF OutcomeInv, HistoryInv, TypeOK, CallShape, In, Underway, BeforeRow, AfterRow

\* A call goes from stage to stage and keeps what it has to record.
LEMMA AlongTells ==
  ASSUME OutcomeInv, HistoryInv, NEW a \in Actors, NEW stage \in BeforeRow \cup AfterRow, In(a, stage),
         NEW next, caller' = [caller EXCEPT ![a] = next],
         UNCHANGED <<clock, job, faults>>, overlap => overlap', overlap' \in BOOLEAN,
         "at" \in DOMAIN next,
         \A f \in {"how", "hash", "start", "statuses", "raise", "row", "elapsed", "stages"} \cap DOMAIN caller[a] :
           f \in DOMAIN next /\ next[f] = caller[a][f],
         (stage \in BeforeRow /\ next.at \in BeforeRow) \/ (stage \in AfterRow /\ next.at \in AfterRow),
         stage \in {"open trace", "write trace"} => next.at = "write trace"
  PROVE  OutcomeInv'
<1> DEFINE call == caller[a]
<1> stage \in Underway
  BY DEF Underway
<1>1. /\ CallShape(call) /\ CallTells(call, Disturbed) /\ call.at = stage
      /\ {"at", "how", "hash", "start", "statuses", "raise"} \subseteq DOMAIN call
      /\ call.start \in Int /\ call.hash \in DOMAIN Queries
      /\ DOMAIN job = Actors /\ clock \in Int /\ overlap \in BOOLEAN
  BY CallAt
<1>2. /\ next.how = call.how /\ next.hash = call.hash /\ next.start = call.start
      /\ next.statuses = call.statuses /\ next.raise = call.raise
      /\ {"at", "how", "hash", "start", "statuses", "raise"} \subseteq DOMAIN next
      /\ \A f \in {"row", "elapsed", "stages"} \cap DOMAIN call : f \in DOMAIN next /\ next[f] = call[f]
  BY <1>1
<1>3. Disturbed \in BOOLEAN /\ Disturbed' \in BOOLEAN /\ (Disturbed => Disturbed')
  BY DisturbedGrows
<1> HIDE DEF call
<1>4. CallTells(call, Disturbed')
  BY <1>1, <1>3, TellsStays
<1>5. CallShape(next)
  BY <1>1, <1>2 DEF CallShape, Underway, BeforeRow, AfterRow
<1>6. CallTells(next, Disturbed')
  <2>1. CASE stage \in BeforeRow
    <3>1. /\ next.at \in BeforeRow
          /\ next.how = "history" => "row" \in DOMAIN call
               /\ Outcome(call, Append(call.statuses, call.row.status), Disturbed')
      BY <1>1, <1>2, <1>4, <2>1 DEF CallTells, BeforeRow, AfterRow
    <3>2. "row" \in DOMAIN call => "row" \in DOMAIN next /\ next.row = call.row
      BY <1>2
    <3>3. QED
      BY <1>2, <3>1, <3>2 DEF CallTells, Outcome, BeforeRow, AfterRow, Finished
  <2>2. CASE stage \in AfterRow
    <3>1. /\ next.at \in AfterRow
          /\ next.how = "history" => Outcome(call, call.statuses, Disturbed')
      BY <1>1, <1>2, <1>4, <2>2 DEF CallTells, BeforeRow, AfterRow
    <3>2. QED
      BY <1>2, <3>1 DEF CallTells, Outcome, BeforeRow, AfterRow, Finished
  <2>3. QED
    BY <2>1, <2>2
<1>7. JobTells(next, job'[a])
  BY DEF JobTells, BeforeRow, AfterRow
<1>8. QED
  BY <1>1, <1>5, <1>6, <1>7, OneMoves

LEMMA LogStepTells ==
  ASSUME OutcomeInv, HistoryInv, HistoryInv', NEW a \in Actors,
         OpenLog(a) \/ ReadRows(a) \/ OpenTmp(a) \/ WriteTmp(a) \/ OpenTrace(a)
  PROVE  OutcomeInv'
<1> DEFINE call == caller[a]
<1>1. "at" \in DOMAIN call /\ overlap' \in BOOLEAN
  BY DEF HistoryInv, CallInv, TypeOK
<1> USE DEF BeforeRow, AfterRow
<1>2. CASE OpenLog(a)
  <2> DEFINE stage == "open"
             file == IF disk.live = NoFile THEN NewFile ELSE disk.live
             next == Moved(call, "append", [file |-> file])
  <2>1. /\ caller' = [caller EXCEPT ![a] = next] /\ In(a, stage)
        /\ UNCHANGED <<clock, job, faults>> /\ (overlap => overlap')
    BY <1>2 DEF OpenLog, exec
  <2>2. stage \in BeforeRow /\ stage \notin {"open trace", "write trace"}
    OBVIOUS
  <2> HIDE DEF stage, file
  <2>3. /\ "at" \in DOMAIN next /\ next.at = "append"
        /\ \A f \in DOMAIN call \ {"at", "file"} : f \in DOMAIN next /\ next[f] = call[f]
    BY <1>1 DEF Moved
  <2> HIDE DEF next
  <2>4. QED
    BY <1>1, <2>1, <2>2, <2>3, AlongTells
<1>3. CASE ReadRows(a)
  <2> DEFINE stage == "read"
             rows == LastOf(disk.data[disk.live], Kept)
             next == Moved(call, "open tmp", [newest |-> rows])
  <2>1. /\ caller' = [caller EXCEPT ![a] = next] /\ In(a, stage)
        /\ UNCHANGED <<clock, job, faults, overlap>>
    BY <1>3 DEF ReadRows, exec
  <2>2. stage \in AfterRow /\ stage \notin {"open trace", "write trace"}
    OBVIOUS
  <2> HIDE DEF stage, rows
  <2>3. /\ "at" \in DOMAIN next /\ next.at = "open tmp"
        /\ \A f \in DOMAIN call \ {"at", "newest"} : f \in DOMAIN next /\ next[f] = call[f]
    BY <1>1 DEF Moved
  <2> HIDE DEF next
  <2>4. QED
    BY <1>1, <2>1, <2>2, <2>3, AlongTells
<1>4. CASE OpenTmp(a)
  <2> DEFINE stage == "open tmp"
             file == IF disk.tmp = NoFile THEN NewFile ELSE disk.tmp
             next == [call EXCEPT !.at = "write tmp", !.file = file]
  <2>1. /\ caller' = [caller EXCEPT ![a] = next] /\ In(a, stage)
        /\ UNCHANGED <<clock, job, faults, overlap>>
    BY <1>4 DEF OpenTmp, exec
  <2>2. stage \in AfterRow /\ stage \notin {"open trace", "write trace"}
    OBVIOUS
  <2> HIDE DEF stage, file
  <2>3. /\ "at" \in DOMAIN next /\ next.at = "write tmp"
        /\ \A f \in DOMAIN call \ {"at", "file"} : f \in DOMAIN next /\ next[f] = call[f]
    BY <1>1
  <2> HIDE DEF next
  <2>4. QED
    BY <1>1, <2>1, <2>2, <2>3, AlongTells
<1>5. CASE WriteTmp(a) \/ OpenTrace(a)
  <2> DEFINE stage == IF WriteTmp(a) THEN "write tmp" ELSE "open trace"
             after == IF WriteTmp(a) THEN "replace" ELSE "write trace"
             next == [call EXCEPT !.at = after]
  <2>1. /\ caller' = [caller EXCEPT ![a] = next] /\ In(a, stage)
        /\ UNCHANGED <<clock, job, faults, overlap>>
    BY <1>5 DEF WriteTmp, OpenTrace, exec
  <2>2. stage \in AfterRow /\ after \in AfterRow /\ (stage = "open trace" => after = "write trace")
        /\ stage # "write trace"
    OBVIOUS
  <2> HIDE DEF stage, after
  <2>3. /\ "at" \in DOMAIN next /\ next.at = after
        /\ \A f \in DOMAIN call \ {"at"} : f \in DOMAIN next /\ next[f] = call[f]
    BY <1>1
  <2> HIDE DEF next
  <2>4. QED
    BY <1>1, <2>1, <2>2, <2>3, AlongTells
<1>6. QED
  BY <1>2, <1>3, <1>4, <1>5

LEMMA AppendRowTells ==
  ASSUME OutcomeInv, HistoryInv, NEW a \in Actors, AppendRow(a)
  PROVE  OutcomeInv'
<1> DEFINE call == caller[a]
           next == [call EXCEPT !.at = "read", !.statuses = Append(@, call.row.status)]
<1>1. /\ CallShape(call) /\ CallTells(call, Disturbed) /\ call.at = "append"
      /\ {"at", "how", "hash", "start", "statuses", "raise"} \subseteq DOMAIN call
      /\ call.start \in Int /\ call.hash \in DOMAIN Queries
      /\ DOMAIN job = Actors /\ clock \in Int /\ overlap \in BOOLEAN
  BY CallAt DEF AppendRow, Underway, BeforeRow
<1>2. caller' = [caller EXCEPT ![a] = next] /\ UNCHANGED <<clock, job, faults, overlap>>
  BY DEF AppendRow, exec
<1>3. /\ DOMAIN next = DOMAIN call /\ next.at = "read" /\ next.statuses = Append(call.statuses, call.row.status)
      /\ \A f \in DOMAIN call \ {"at", "statuses"} : next[f] = call[f]
  BY <1>1
<1> HIDE DEF call, next
<1>4. next.how = call.how /\ next.hash = call.hash /\ next.raise = call.raise /\ next.start = call.start
  BY <1>1, <1>3
<1>5. CallShape(next)
  BY <1>1, <1>3, <1>4 DEF CallShape, Underway, BeforeRow, AfterRow
<1>6. next.how = "history" => Outcome(next, next.statuses, Disturbed)
  BY <1>1, <1>3, <1>4 DEF CallTells, BeforeRow, Outcome
<1>7. CallTells(next, Disturbed') /\ JobTells(next, job'[a])
  BY <1>2, <1>3, <1>6 DEF CallTells, JobTells, BeforeRow, AfterRow, Finished, Disturbed
<1>8. QED
  BY <1>1, <1>2, <1>5, <1>7, OneMoves

\* An exception in the recording: of a query that was answered, it is
\* recorded as an error; of another one, it ends the call.
LEMMA WhatStatusesSay ==
  /\ <<"rejected">> \notin {<<"ok">>, <<"error">>, <<"ok", "error">>}
  /\ \A statuses \in {<<"ok">>, <<"rejected">>, <<"error">>, <<"ok", "error">>} :
       "rejected" \in {statuses[i] : i \in DOMAIN statuses} <=> statuses = <<"rejected">>
<1>1. /\ {<<"ok">>[i] : i \in DOMAIN <<"ok">>} = {"ok"}
      /\ {<<"rejected">>[i] : i \in DOMAIN <<"rejected">>} = {"rejected"}
      /\ {<<"error">>[i] : i \in DOMAIN <<"error">>} = {"error"}
      /\ {<<"ok", "error">>[i] : i \in DOMAIN <<"ok", "error">>} = {"ok", "error"}
  BY FewStatuses
<1>2. <<"ok">> # <<"rejected">> /\ <<"error">> # <<"rejected">> /\ <<"ok", "error">> # <<"rejected">>
  BY FewStatuses
<1>3. QED
  BY <1>1, <1>2

LEMMA InterruptedTells ==
  ASSUME clock \in Int, NEW call,
         {"at", "how", "hash", "start", "statuses", "raise"} \subseteq DOMAIN call, call.start \in Int,
         call.hash \in DOMAIN Queries, call.how = "history" => Outcome(call, call.statuses, TRUE),
         NEW class \in {"FileNotFoundError", "OSError"}
  PROVE  LET next == Interrupted(call, Error(class, {}))
         IN  CallShape(next) /\ CallTells(next, TRUE) /\ next.at # "execute"
<1> DEFINE error == Error(class, {})
           next == Interrupted(call, error)
<1>1. StatusOf(error) = "error" /\ error.class = class
  BY StatusOfErrors
<1> HIDE DEF error
<1>2. CASE call.how = "history" /\ call.raise = ""
  <2>1. next = Handling(call, error)
    BY <1>2 DEF Interrupted
  <2> HIDE DEF next
  <2>2. /\ {"at", "how", "hash", "start", "statuses", "raise", "row", "elapsed"} \subseteq DOMAIN next
        /\ next.at = "open" /\ next.how = call.how /\ next.hash = call.hash
        /\ next.start = call.start /\ next.statuses = call.statuses /\ next.raise = error.class
        /\ next.row.status = StatusOf(error) /\ next.elapsed \in Nat
    BY <2>1, HandlingIs
  <2>3. Accepted(Queries[call.hash]) /\ call.statuses = <<"ok">>
    BY <1>2 DEF Outcome, LoadClasses
  <2>4. Append(next.statuses, next.row.status) = <<"ok", "error">>
    BY <1>1, <2>2, <2>3, FewStatuses
  <2>5. Outcome(next, Append(next.statuses, next.row.status), TRUE)
    BY <1>1, <2>2, <2>3, <2>4 DEF Outcome
  <2>6. CallShape(next)
    BY <1>2, <2>2 DEF CallShape, Underway, BeforeRow, AfterRow
  <2>7. CallTells(next, TRUE) /\ next.at # "execute"
    BY <2>2, <2>5 DEF CallTells, BeforeRow, AfterRow, Finished
  <2>8. QED
    BY <2>6, <2>7 DEF next, error
<1>3. CASE ~(call.how = "history" /\ call.raise = "")
  <2> DEFINE raising == [call EXCEPT !.raise = error.class]
  <2>1. next = Ended(raising, "raised")
    BY <1>3 DEF Interrupted
  <2>2. raising.how = call.how /\ raising.hash = call.hash /\ raising.statuses = call.statuses
    OBVIOUS
  <2> HIDE DEF next, raising
  <2>3. /\ DOMAIN next = {"at", "how", "hash", "statuses", "raise"} /\ next.at = "raised"
        /\ next.how = call.how /\ next.hash = call.hash /\ next.statuses = call.statuses
    BY <2>1, <2>2 DEF Ended
  <2>4. CallShape(next)
    BY <2>3 DEF CallShape, Underway, BeforeRow, AfterRow, Finished
  <2>5. next.how = "history" =>
          /\ next.statuses \in {<<"rejected">>, <<"error">>, <<"ok", "error">>}
          /\ ~Accepted(Queries[next.hash]) <=> next.statuses = <<"rejected">>
    BY <1>3, <2>3, WhatStatusesSay DEF Outcome
  <2>6. EndTells(next, TRUE)
    BY <2>3, <2>5, WhatStatusesSay DEF EndTells
  <2>7. CallTells(next, TRUE) /\ next.at # "execute"
    BY <2>3, <2>6 DEF CallTells, BeforeRow, AfterRow
  <2>8. QED
    BY <2>4, <2>7 DEF next, error
<1>4. QED
  BY <1>2, <1>3 DEF error

LEMMA ReplaceTells ==
  ASSUME OutcomeInv, HistoryInv, NewestInv, NEW a \in Actors,
         ReplaceLog(a) \/ ReplaceRaises(a) \/ TraceRaises(a)
  PROVE  OutcomeInv'
<1> DEFINE call == caller[a]
<1>1. /\ CallShape(call) /\ CallTells(call, Disturbed) /\ call.at \in {"replace", "open trace"}
      /\ {"at", "how", "hash", "start", "statuses", "raise"} \subseteq DOMAIN call
      /\ call.start \in Int /\ call.hash \in DOMAIN Queries
      /\ DOMAIN job = Actors /\ clock \in Int /\ overlap \in BOOLEAN
  BY CallAt DEF ReplaceLog, ReplaceRaises, TraceRaises, Underway, AfterRow
<1>2. UNCHANGED <<clock, job, overlap>> /\ faults' \in {faults, faults + 1}
  BY DEF ReplaceLog, ReplaceRaises, TraceRaises, exec
<1>3. call.how = "history" => Outcome(call, call.statuses, Disturbed)
  BY <1>1 DEF CallTells, AfterRow
<1>4. CASE ReplaceLog(a) /\ call.how = "history"
  <2> DEFINE stage == "replace"
             moved == [call EXCEPT !.at = "open trace"]
             next == Closed(moved)
  <2>1. /\ caller' = [caller EXCEPT ![a] = next] /\ In(a, stage) /\ faults' = faults
    BY <1>4 DEF ReplaceLog
  <2>2. stage \in AfterRow /\ stage \notin {"open trace", "write trace"}
    BY DEF AfterRow
  <2>3. /\ "at" \in DOMAIN next /\ next.at = "open trace"
        /\ \A f \in DOMAIN call \ {"at", "file", "newest"} : f \in DOMAIN next /\ next[f] = call[f]
    BY <1>1 DEF Closed
  <2> HIDE DEF stage, moved, next
  <2>4. next.at \in AfterRow
    BY <2>3 DEF AfterRow
  <2>5. QED
    BY <1>1, <1>2, <2>1, <2>2, <2>3, <2>4, AlongTells
<1>5. CASE ReplaceLog(a) /\ call.how # "history"
  <2> DEFINE next == Ended(call, "returned")
  <2>1. caller' = [caller EXCEPT ![a] = next]
    BY <1>5 DEF ReplaceLog
  <2>2. /\ DOMAIN next = {"at", "how", "hash", "statuses", "raise"} /\ next.at = "returned"
        /\ next.how = call.how /\ next.hash = call.hash
    BY DEF Ended
  <2> HIDE DEF next, call
  <2>3. CallShape(next) /\ JobTells(next, job'[a])
    BY <1>1, <2>2 DEF CallShape, JobTells, Underway, BeforeRow, AfterRow, Finished
  <2>4. CallTells(next, Disturbed')
    BY <1>5, <2>2 DEF CallTells, EndTells, BeforeRow, AfterRow
  <2>5. QED
    BY <1>1, <1>2, <2>1, <2>3, <2>4, OneMoves
<1>6. CASE ReplaceRaises(a)
  <2> DEFINE closed == Closed(call)
             class == "FileNotFoundError"
             next == Interrupted(closed, Error(class, {}))
  <2>1. caller' = [caller EXCEPT ![a] = next] /\ In(a, "replace") /\ disk.tmp = NoFile
    BY <1>6 DEF ReplaceRaises
  <2>2. overlap
    <3>1. AtLog(a) /\ call.file \in DOMAIN disk.data
      BY <2>1 DEF HistoryInv, CallInv, In, AtLog
    <3>2. ~overlap => call.file = disk.tmp
      BY <2>1 DEF NewestInv, AloneAtLog, In
    <3>3. QED
      BY <2>1, <3>1, <3>2, Basics DEF HistoryInv, TypeOK
  <2>3. Disturbed = TRUE /\ Disturbed' = TRUE
    BY <1>2, <2>2 DEF Disturbed
  <2>4. /\ {"at", "how", "hash", "start", "statuses", "raise"} \subseteq DOMAIN closed
        /\ closed.how = call.how /\ closed.hash = call.hash /\ closed.start = call.start
        /\ closed.statuses = call.statuses /\ closed.raise = call.raise
    BY <1>1 DEF Closed
  <2>5. closed.how = "history" => Outcome(closed, closed.statuses, TRUE)
    BY <1>3, <2>3, <2>4 DEF Outcome
  <2>6. class \in {"FileNotFoundError", "OSError"}
    OBVIOUS
  <2> HIDE DEF closed, class
  <2>7. CallShape(next) /\ CallTells(next, TRUE) /\ next.at # "execute"
    BY <1>1, <2>4, <2>5, <2>6, InterruptedTells
  <2> HIDE DEF next
  <2>8. CallTells(next, Disturbed') /\ JobTells(next, job'[a])
    BY <2>3, <2>7 DEF JobTells
  <2>9. QED
    BY <1>1, <1>2, <2>1, <2>7, <2>8, OneMoves
<1>7. CASE TraceRaises(a)
  <2> DEFINE class == "OSError"
             next == Interrupted(call, Error(class, {}))
  <2>1. caller' = [caller EXCEPT ![a] = next] /\ faults' = faults + 1
    BY <1>7 DEF TraceRaises
  <2>2. Disturbed' = TRUE
    BY <2>1, Basics DEF Disturbed
  <2>3. call.how = "history" => Outcome(call, call.statuses, TRUE)
    BY <1>3 DEF Outcome
  <2>4. class \in {"FileNotFoundError", "OSError"}
    OBVIOUS
  <2> HIDE DEF class, call
  <2>5. CallShape(next) /\ CallTells(next, TRUE) /\ next.at # "execute"
    BY <1>1, <2>3, <2>4, InterruptedTells
  <2> HIDE DEF next
  <2>6. CallTells(next, Disturbed') /\ JobTells(next, job'[a])
    BY <2>2, <2>5 DEF JobTells
  <2>7. QED
    BY <1>1, <1>2, <2>1, <2>5, <2>6, OneMoves
<1>8. QED
  BY <1>4, <1>5, <1>6, <1>7

\* The ends of a call.
LEMMA EndsTell ==
  ASSUME OutcomeInv, HistoryInv, NEW a \in Actors, WriteTrace(a) \/ CliReturns(a) \/ CliRaises(a) \/ Crash(a)
  PROVE  OutcomeInv'
<1> DEFINE call == caller[a]
<1>1. /\ CallShape(call) /\ CallTells(call, Disturbed) /\ JobTells(call, job[a])
      /\ DOMAIN job = Actors /\ clock \in Int /\ overlap \in BOOLEAN
  BY DEF OutcomeInv, HistoryInv, TypeOK
<1>2. /\ UNCHANGED <<clock, overlap>> /\ faults' \in {faults, faults + 1}
      /\ DOMAIN job' = Actors /\ \A b \in Actors \ {a} : job'[b] = job[b]
  BY <1>1 DEF WriteTrace, CliReturns, CliRaises, Crash, exec
<1>3. CASE WriteTrace(a)
  <2> DEFINE end == IF call.raise = "" THEN "returned" ELSE "raised"
             next == Ended(call, end)
  <2>1. caller' = [caller EXCEPT ![a] = next] /\ call.at = "write trace" /\ faults' = faults
    BY <1>3 DEF WriteTrace, In
  <2>2. end \in Finished /\ (end = "returned" <=> call.raise = "") /\ (end = "raised" <=> call.raise # "")
    BY DEF Finished
  <2> HIDE DEF end
  <2>3. /\ DOMAIN next = {"at", "how", "hash", "statuses", "raise"} /\ next.at = end
        /\ next.how = call.how /\ next.hash = call.hash
        /\ next.statuses = call.statuses /\ next.raise = call.raise
    BY DEF Ended
  <2>4. call.how = "history" => Outcome(call, call.statuses, Disturbed)
    BY <1>1, <2>1 DEF CallTells, AfterRow
  <2>5. Disturbed' = Disturbed
    BY <1>2, <2>1 DEF Disturbed
  <2> HIDE DEF next, call
  <2>6. EndTells(next, Disturbed')
    <3> DEFINE accepted == Accepted(Queries[next.hash])
               rejects == "rejected" \in {next.statuses[i] : i \in DOMAIN next.statuses}
    <3>1. CASE next.how # "history"
      BY <2>3, <3>1 DEF EndTells
    <3>2. ASSUME next.how = "history"
          PROVE  /\ next.at = "returned" => next.statuses = <<"ok">> /\ accepted
                 /\ next.at = "raised" => next.statuses \in {<<"rejected">>, <<"error">>, <<"ok", "error">>}
                 /\ ~accepted <=> next.statuses = <<"rejected">>
                 /\ ~Disturbed /\ next.at = "raised" =>
                      /\ next.statuses \in {<<"rejected">>, <<"error">>}
                      /\ next.raise \in {"ParseError", "UnicodeDecodeError"} \cup OsClasses
                 /\ next.statuses \in {<<"ok">>, <<"rejected">>, <<"error">>, <<"ok", "error">>}
      BY <2>2, <2>3, <2>4, <3>2, WhatStatusesSay DEF Outcome, LoadClasses, OsClasses
    <3>3. next.how = "history" => (rejects <=> next.statuses = <<"rejected">>)
      BY <3>2, WhatStatusesSay
    <3>4. Len(<<"rejected">>) = 1 /\ Len(<<"error">>) = 1
      OBVIOUS
    <3> HIDE DEF rejects
    <3>5. CASE next.how = "history"
      <4>1. ~Disturbed' /\ next.at = "raised" =>
              Len(next.statuses) = 1 /\ next.raise \in {"ParseError", "UnicodeDecodeError"} \cup OsClasses
        BY <2>5, <3>2, <3>4, <3>5
      <4>2. ~accepted <=> rejects
        BY <3>2, <3>3, <3>5
      <4>3. QED
        BY <2>3, <3>2, <3>5, <4>1, <4>2 DEF EndTells, rejects
    <3>6. QED
      BY <3>1, <3>5
  <2>7. CallTells(next, Disturbed') /\ CallShape(next) /\ JobTells(next, job'[a])
    BY <1>1, <2>1, <2>2, <2>3, <2>6
    DEF CallTells, CallShape, JobTells, Underway, BeforeRow, AfterRow, Finished
  <2>8. QED
    BY <1>1, <1>2, <2>1, <2>7, OneMoves
<1>4. CASE CliReturns(a)
  <2> DEFINE end == "returned"
             ended == Ended(call, end)
             next == Moved(ended, end, [exit |-> 0])
  <2>1. /\ caller' = [caller EXCEPT ![a] = next] /\ call.at = "execute" /\ call.how = "query"
        /\ Accepted(Queries[call.hash])
    BY <1>1, <1>4 DEF CliReturns, In, At, JobTells
  <2>2. /\ DOMAIN next = {"at", "how", "hash", "statuses", "raise", "exit"} /\ next.at = end
        /\ next.how = call.how /\ next.hash = call.hash /\ next.exit = 0
    BY DEF Ended, Moved
  <2> HIDE DEF next, ended, call
  <2>3. EndTells(next, Disturbed')
    BY <2>1, <2>2 DEF EndTells
  <2>4. CallTells(next, Disturbed') /\ CallShape(next) /\ JobTells(next, job'[a])
    BY <1>1, <2>1, <2>2, <2>3
    DEF CallTells, CallShape, JobTells, Underway, BeforeRow, AfterRow, Finished
  <2>5. QED
    BY <1>1, <1>2, <2>1, <2>4, OneMoves
<1>5. CASE CliRaises(a)
  <2> DEFINE end == "raised"
             class == job[a].error.class
             raising == [call EXCEPT !.raise = class]
             ended == Ended(raising, end)
             exit == ExitOf(class)
             next == Moved(ended, end, [exit |-> exit])
  <2>1. /\ caller' = [caller EXCEPT ![a] = next] /\ call.at = "execute" /\ call.how = "query"
        /\ exit \in {1, 2} /\ (exit = 2 <=> ~Accepted(Queries[call.hash]))
    <3>1. caller' = [caller EXCEPT ![a] = next] /\ call.at = "execute" /\ call.how = "query" /\ job[a].at = "failed"
      BY <1>5 DEF CliRaises, In, At
    <3>2. \/ ~Accepted(Queries[call.hash]) /\ class = "ParseError"
          \/ Accepted(Queries[call.hash]) /\ class \in LoadClasses
      BY <1>1, <3>1, StatusOfErrors DEF JobTells
    <3>3. exit \in {1, 2} /\ (exit = 2 <=> class = "ParseError")
      BY DEF ExitOf
    <3>4. QED
      BY <3>1, <3>2, <3>3 DEF LoadClasses
  <2> HIDE DEF exit, class
  <2>2. /\ DOMAIN next = {"at", "how", "hash", "statuses", "raise", "exit"} /\ next.at = end
        /\ next.how = call.how /\ next.hash = call.hash /\ next.exit = exit
    <3>1. raising.how = call.how /\ raising.hash = call.hash
      BY <1>1, <2>1 DEF CallShape, Underway
    <3> HIDE DEF raising
    <3>2. QED
      BY <3>1 DEF Ended, Moved
  <2> HIDE DEF next, ended, raising, call
  <2>3. EndTells(next, Disturbed')
    BY <2>1, <2>2 DEF EndTells
  <2>4. CallTells(next, Disturbed') /\ CallShape(next) /\ JobTells(next, job'[a])
    BY <1>1, <2>1, <2>2, <2>3
    DEF CallTells, CallShape, JobTells, Underway, BeforeRow, AfterRow, Finished
  <2>5. QED
    BY <1>1, <1>2, <2>1, <2>4, OneMoves
<1>6. CASE Crash(a)
  <2> DEFINE next == [at |-> "crashed", hash |-> call.hash]
  <2>1. caller' = [caller EXCEPT ![a] = next] /\ call.hash \in DOMAIN Queries
    BY <1>1, <1>6 DEF Crash, CallShape
  <2>2. CallTells(next, Disturbed') /\ CallShape(next) /\ JobTells(next, job'[a])
    BY <2>1 DEF CallTells, CallShape, JobTells, Underway, BeforeRow, AfterRow, Finished
  <2> HIDE DEF next
  <2>3. QED
    BY <1>1, <1>2, <2>1, <2>2, OneMoves
<1>7. QED
  BY <1>3, <1>4, <1>5, <1>6

LEMMA OutcomeNext ==
  ASSUME HistoryInv, NewestInv, OutcomeInv, [Next]_vars
  PROVE  OutcomeInv'
<1>1. HistoryInv'
  BY HistoryNext
<1>2. CASE Environment \/ UNCHANGED vars
  BY <1>2, EnvironmentTells
<1>3. ASSUME NEW a \in Actors, Calling(a) \/ Step(a) \/ Crash(a)
      PROVE  OutcomeInv'
  <2>1. CASE Calling(a)
    BY <2>1, CallingTells
  <2>2. CASE Executing(a)
    BY <2>2, ExecutingTells
  <2>3. CASE ExecuteReturned(a) \/ ExecuteRaised(a)
    BY <2>3, ExecutedTells
  <2>4. CASE OpenLog(a) \/ ReadRows(a) \/ OpenTmp(a) \/ WriteTmp(a) \/ OpenTrace(a)
    BY <1>1, <2>4, LogStepTells
  <2>5. CASE AppendRow(a)
    BY <2>5, AppendRowTells
  <2>6. CASE ReplaceLog(a) \/ ReplaceRaises(a) \/ TraceRaises(a)
    BY <2>6, ReplaceTells
  <2>7. CASE WriteTrace(a) \/ CliReturns(a) \/ CliRaises(a) \/ Crash(a)
    BY <2>7, EndsTell
  <2>8. QED
    BY <1>3, <2>1, <2>2, <2>3, <2>4, <2>5, <2>6, <2>7 DEF Step
<1>4. QED
  BY <1>2, <1>3 DEF Next

LEMMA OutcomeInit == Init => OutcomeInv
<1>1. /\ CallShape(Idle) /\ \A disturbed : CallTells(Idle, disturbed)
      /\ \A run : JobTells(Idle, run)
  BY DEF Idle, CallShape, CallTells, JobTells, Underway, BeforeRow, AfterRow, Finished
<1>2. ASSUME Init
      PROVE  DOMAIN job = Actors /\ clock \in Int /\ \A a \in Actors : caller[a] = Idle
  BY <1>2, BqlExecutorAssumption DEF Init, ExecInit
<1>3. QED
  BY <1>1, <1>2 DEF OutcomeInv

LEMMA OutcomeInvariant == Spec => [](HistoryInv /\ NewestInv /\ OutcomeInv)
<1>1. Init => HistoryInv /\ NewestInv /\ OutcomeInv
  BY HistoryInit, OutcomeInit
<1>2. (HistoryInv /\ NewestInv /\ OutcomeInv) /\ [Next]_vars => (HistoryInv /\ NewestInv /\ OutcomeInv)'
  BY HistoryNext, OutcomeNext
<1>3. QED
  BY <1>1, <1>2, PTL DEF Spec

(* What a call leaves in the log agrees with how it ends, and so does the exit
   code of the command line: an "ok" is followed by an exception only after a
   crash, a failed write or a meeting of two processes at the log. *)
THEOREM OutcomeIsRecorded == Spec => []OutcomeRecorded
<1>1. HistoryInv /\ OutcomeInv => OutcomeRecorded
  <2> SUFFICES ASSUME HistoryInv, OutcomeInv, NEW a \in Actors, caller[a].at \in Finished
               PROVE  LET call == caller[a]
                          accepted == Accepted(Queries[call.hash])
                      IN  /\ call.how = "history" =>
                               /\ call.at = "returned" => call.statuses = <<"ok">> /\ accepted
                               /\ call.at = "raised" =>
                                    call.statuses \in {<<"rejected">>, <<"error">>, <<"ok", "error">>}
                               /\ ~accepted <=> "rejected" \in {call.statuses[i] : i \in DOMAIN call.statuses}
                               /\ ~overlap /\ faults = 0 /\ call.at = "raised" =>
                                    Len(call.statuses) = 1 /\ call.raise \in {"ParseError", "UnicodeDecodeError"} \cup OsClasses
                          /\ "exit" \in DOMAIN call =>
                               /\ call.exit = 0 <=> call.at = "returned"
                               /\ call.exit = 2 <=> ~accepted
    BY DEF OutcomeRecorded
  <2>1. EndTells(caller[a], Disturbed)
    BY DEF OutcomeInv, CallTells
  <2>2. ~overlap /\ faults = 0 => ~Disturbed
    BY DEF Disturbed
  <2>3. QED
    BY <2>1, <2>2 DEF EndTells
<1>2. QED
  BY <1>1, OutcomeInvariant, PTL

----------------------------------------------------------------------------
(* The stages of a trace *)

\* A set of positions has a last one.
LEMMA LastPosition ==
  ASSUME NEW n \in Nat, NEW S \in SUBSET (1..n), S # {}
  PROVE  Max(S) \in S
<1> DEFINE R == {ss \in Nat \X Nat : ss[1] < ss[2]}
           T == {n - x : x \in S}
<1>1. IsWellFoundedOn(R, Nat)
  BY NatLessThanWellFounded, Zenon DEF OpToRel
<1>2. \A x, y \in Nat : y < x => <<y, x>> \in R
  OBVIOUS
<1>3. T \in SUBSET Nat /\ T # {}
  <2>1. \A x \in S : n - x \in Nat
    OBVIOUS
  <2>2. QED
    BY <2>1
<1> HIDE DEF R
<1>4. PICK d \in T : \A e \in T : ~(<<e, d>> \in R)
  BY <1>1, <1>3, WFMin
<1>5. PICK x \in S : d = n - x
  BY DEF T
<1>6. ASSUME NEW y \in S
      PROVE  x >= y
  <2>1. n - y \in T /\ n - y \in Nat /\ d \in Nat
    BY <1>3, <1>5
  <2> HIDE DEF T
  <2>2. ~(n - y < d)
    BY <1>2, <1>4, <2>1
  <2>3. QED
    BY <1>5, <2>2
<1>7. \E m \in S : \A y \in S : m >= y
  BY <1>6
<1>8. QED
  BY <1>7 DEF Max

LEMMA Names ==
  /\ DOMAIN StageNames = 1..5 /\ Len(StageNames) = 5
  /\ \A i, j \in 1..5 : StageNames[i] = StageNames[j] => i = j
BY DEF StageNames

LEMMA StageIs ==
  ASSUME NEW name, NEW started \in Int, NEW finished \in Int
  PROVE  LET stage == Stage(name, started, finished)
         IN  /\ stage.name = name /\ stage.from = started /\ stage.from <= stage.to
             /\ started <= finished => stage.to = finished
             /\ stage.to \in Int
<1>1. Max({started, finished}) = IF started <= finished THEN finished ELSE started
  BY MaxOfTwo
<1> DEFINE to == Max({started, finished})
<1>2. to \in Int /\ started <= to /\ (started <= finished => to = finished)
  BY <1>1
<1> HIDE DEF to
<1>3. Stage(name, started, finished) = [name |-> name, from |-> started, to |-> to]
  BY DEF Stage, to
<1>4. QED
  BY <1>2, <1>3

\* The stages of a trace are the five, and none ends before it begins.
LEMMA OrderedIs ==
  ASSUME NEW stages, NEW n \in Nat, DOMAIN stages = 1..n, NEW now \in Int,
         \A i \in 1..n : stages[i].from \in Int /\ stages[i].to \in Int
  PROVE  /\ DOMAIN Ordered(stages, now) = 1..5
         /\ \A i \in 1..5 : /\ Ordered(stages, now)[i].name = StageNames[i]
                            /\ Ordered(stages, now)[i].from <= Ordered(stages, now)[i].to
<1> DEFINE given(name) == {i \in DOMAIN stages : stages[i].name = name}
           last(name) == stages[Max(given(name))]
           stage(i) == IF given(StageNames[i]) = {} THEN Stage(StageNames[i], now, now)
                       ELSE Stage(last(StageNames[i]).name, last(StageNames[i]).from, last(StageNames[i]).to)
<1>1. Ordered(stages, now) = [i \in 1..5 |-> stage(i)]
  BY Names DEF Ordered
<1>2. ASSUME NEW i \in 1..5
      PROVE  stage(i).name = StageNames[i] /\ stage(i).from <= stage(i).to
  <2>1. CASE given(StageNames[i]) = {}
    <3>1. stage(i) = Stage(StageNames[i], now, now)
      BY <2>1
    <3> HIDE DEF stage, given, last
    <3>2. QED
      BY <3>1, StageIs
  <2>2. CASE given(StageNames[i]) # {}
    <3> DEFINE m == Max(given(StageNames[i]))
    <3>1. m \in given(StageNames[i])
      <4>1. given(StageNames[i]) \in SUBSET (1..n)
        OBVIOUS
      <4> HIDE DEF given
      <4>2. QED
        BY <2>2, <4>1, LastPosition
    <3>2. stage(i) = Stage(stages[m].name, stages[m].from, stages[m].to)
      BY <2>2
    <3> HIDE DEF m, stage, last
    <3>3. stages[m].name = StageNames[i] /\ stages[m].from \in Int /\ stages[m].to \in Int
      BY <3>1
    <3> HIDE DEF given
    <3>4. QED
      BY <3>2, <3>3, StageIs
  <2>3. QED
    BY <2>1, <2>2
<1> HIDE DEF stage
<1>3. QED
  BY <1>1, <1>2

\* Those of a query's trace follow each other without a gap.
LEMMA BasicIs ==
  ASSUME NEW elapsed \in Nat, NEW now \in Int
  PROVE  LET stages == BasicStages(elapsed, now)
         IN  /\ DOMAIN stages = 1..5
             /\ \A i \in 1..5 : /\ stages[i].name = StageNames[i] /\ stages[i].from \in Int
                                /\ stages[i].to \in Int /\ stages[i].from <= stages[i].to
             /\ \A i \in 1..4 : stages[i + 1].from = stages[i].to
<1> DEFINE base == now - elapsed
           slice == elapsed \div 5
           start(i) == base + (i - 1) * slice
           end(i) == IF i = 5 THEN now ELSE base + i * slice
           stages == BasicStages(elapsed, now)
<1>1. stages = [i \in 1..5 |-> Stage(StageNames[i], start(i), end(i))]
  BY Names DEF BasicStages
<1>2. slice \in Nat /\ 5 * slice <= elapsed /\ base \in Int
  OBVIOUS
<1>3. \A i \in 1..5 : start(i) \in Int /\ end(i) \in Int /\ start(i) <= end(i)
  <2>1. /\ start(1) = base /\ start(2) = base + slice /\ start(3) = base + 2 * slice
        /\ start(4) = base + 3 * slice /\ start(5) = base + 4 * slice
        /\ end(1) = base + slice /\ end(2) = base + 2 * slice /\ end(3) = base + 3 * slice
        /\ end(4) = base + 4 * slice /\ end(5) = now
    <3> HIDE DEF slice, base
    <3>1. QED
      BY <1>2
  <2>2. base + 4 * slice <= now
    BY <1>2
  <2> HIDE DEF slice, base, start, end
  <2>3. \A i \in 1..5 : i = 1 \/ i = 2 \/ i = 3 \/ i = 4 \/ i = 5
    OBVIOUS
  <2>4. /\ start(1) \in Int /\ end(1) \in Int /\ start(1) <= end(1)
        /\ start(2) \in Int /\ end(2) \in Int /\ start(2) <= end(2)
        /\ start(3) \in Int /\ end(3) \in Int /\ start(3) <= end(3)
        /\ start(4) \in Int /\ end(4) \in Int /\ start(4) <= end(4)
        /\ start(5) \in Int /\ end(5) \in Int /\ start(5) <= end(5)
    BY <1>2, <2>1, <2>2
  <2>5. QED
    BY <2>3, <2>4
<1>4. \A i \in 1..4 : start(i + 1) = end(i)
  <2> HIDE DEF slice, base
  <2>1. \A i \in 1..4 : (i + 1) - 1 = i /\ i # 5
    OBVIOUS
  <2>2. QED
    BY <2>1
<1> HIDE DEF slice, base, start, end, stages
<1>5. ASSUME NEW i \in 1..5
      PROVE  /\ stages[i].name = StageNames[i] /\ stages[i].from = start(i) /\ stages[i].to = end(i)
             /\ stages[i].from \in Int /\ stages[i].to \in Int /\ stages[i].from <= stages[i].to
  <2>1. stages[i] = Stage(StageNames[i], start(i), end(i))
    BY <1>1
  <2>2. QED
    BY <1>3, <2>1, StageIs
<1>6. \A i \in 1..4 : i + 1 \in 1..5 /\ i \in 1..5
  OBVIOUS
<1>7. DOMAIN stages = 1..5
  BY <1>1
<1>8. QED
  BY <1>4, <1>5, <1>6, <1>7 DEF stages

\* Ordering them leaves them as they are.
LEMMA BasicOrdered ==
  ASSUME NEW elapsed \in Nat, NEW now \in Int
  PROVE  LET stages == Ordered(BasicStages(elapsed, now), now)
         IN  /\ DOMAIN stages = 1..5
             /\ \A i \in 1..5 : stages[i].name = StageNames[i] /\ stages[i].from <= stages[i].to
             /\ \A i \in 1..4 : stages[i + 1].from = stages[i].to
<1> DEFINE basic == BasicStages(elapsed, now)
           stages == Ordered(basic, now)
<1>1. /\ DOMAIN basic = 1..5
      /\ \A i \in 1..5 : /\ basic[i].name = StageNames[i] /\ basic[i].from \in Int
                         /\ basic[i].to \in Int /\ basic[i].from <= basic[i].to
      /\ \A i \in 1..4 : basic[i + 1].from = basic[i].to
  BY BasicIs
<1> HIDE DEF basic
<1>2. ASSUME NEW i \in 1..5
      PROVE  stages[i].from = basic[i].from /\ stages[i].to = basic[i].to
  <2> DEFINE given == {j \in DOMAIN basic : basic[j].name = StageNames[i]}
  <2>1. given = {i}
    BY <1>1, Names
  <2>2. Max(given) = i
    BY <2>1 DEF Max
  <2>3. stages[i] = Stage(basic[i].name, basic[i].from, basic[i].to)
    <3>1. stages[i] = IF given = {} THEN Stage(StageNames[i], now, now)
                      ELSE LET last == basic[Max(given)] IN Stage(last.name, last.from, last.to)
      BY Names DEF Ordered
    <3> HIDE DEF given, stages
    <3>2. QED
      BY <2>1, <2>2, <3>1
  <2> HIDE DEF stages
  <2>4. QED
    BY <1>1, <2>3, StageIs
<1>3. 5 \in Nat
  OBVIOUS
<1>4. /\ DOMAIN stages = 1..5
      /\ \A i \in 1..5 : stages[i].name = StageNames[i] /\ stages[i].from <= stages[i].to
  BY <1>1, <1>3, OrderedIs
<1> HIDE DEF stages
<1>5. \A i \in 1..4 : i + 1 \in 1..5 /\ i \in 1..5
  OBVIOUS
<1>6. QED
  BY <1>1, <1>2, <1>4, <1>5 DEF stages, basic

----------------------------------------------------------------------------
(* The trace of a query that no other process has run: the invariant *)

\* No other call is, or was, of that text.
Alone(a, hash) == \A b \in Actors \ {a} : caller[b].at = "idle" \/ caller[b].hash # hash

\* TraceTellsOutcome, of one call and what its trace file holds.
TraceTells(call, docs) ==
  /\ call.at = "returned" => Cardinality(docs) = 1
  /\ \A doc \in docs :
       /\ doc.status = call.statuses[Len(call.statuses)]
       /\ call.how = "history" => (doc.status = "ok" <=> call.at = "returned")
       /\ [i \in DOMAIN doc.stages |-> doc.stages[i].name] = StageNames
       /\ \A i \in DOMAIN doc.stages :
            /\ doc.stages[i].from <= doc.stages[i].to
            /\ call.how = "history" /\ i > 1 => doc.stages[i].from = doc.stages[i - 1].to

\* What the file holds while a call that is alone is under way, and after it.
TraceOf(call, docs) ==
  /\ call.at \in Underway => docs = {}
  /\ call.at \in Finished /\ call.how \in {"history", "trace"} => TraceTells(call, docs)

TraceInv ==
  /\ DOMAIN trace = DOMAIN Queries
  /\ \A hash \in DOMAIN Queries :
       trace[hash] # {} => \E b \in Actors : caller[b].at # "idle" /\ caller[b].hash = hash
  /\ \A a \in Actors : caller[a].at # "idle" /\ Alone(a, caller[a].hash) =>
       TraceOf(caller[a], trace[caller[a].hash])

----------------------------------------------------------------------------
(* The invariant is preserved *)

\* A call that is alone finds no trace until it writes one.
LEMMA NothingYet ==
  ASSUME TraceInv, NEW a \in Actors, NEW hash \in DOMAIN Queries, Alone(a, hash),
         caller[a].at \in Underway => caller[a].hash = hash, caller[a].at \in Underway \cup {"idle"}
  PROVE  trace[hash] = {}
<1>1. CASE caller[a].at \in Underway
  <2>1. caller[a].at # "idle"
    BY <1>1 DEF Underway, BeforeRow, AfterRow
  <2>2. QED
    BY <1>1, <2>1 DEF TraceInv, TraceOf
<1>2. CASE caller[a].at = "idle"
  BY <1>2 DEF TraceInv, Alone
<1>3. QED
  BY <1>1, <1>2

\* A step of one process that leaves the other hashes' traces alone.
LEMMA TraceMoves ==
  ASSUME TraceInv, HistoryInv, OutcomeInv, NEW a \in Actors, NEW call, caller' = [caller EXCEPT ![a] = call],
         call.at # "idle", call.hash \in DOMAIN Queries,
         caller[a].at # "idle" => caller[a].hash = call.hash,
         DOMAIN trace' = DOMAIN Queries,
         \A hash \in DOMAIN Queries \ {call.hash} : trace'[hash] = trace[hash],
         Alone(a, call.hash) => TraceOf(call, trace'[call.hash])
  PROVE  TraceInv'
<1>1. caller'[a] = call /\ \A b \in Actors \ {a} : caller'[b] = caller[b]
  BY CallMoved
<1>2. ASSUME NEW hash \in DOMAIN Queries, trace'[hash] # {}
      PROVE  \E b \in Actors : caller'[b].at # "idle" /\ caller'[b].hash = hash
  <2>1. CASE hash = call.hash
    BY <1>1, <2>1
  <2>2. CASE hash # call.hash
    <3>1. PICK b \in Actors : caller[b].at # "idle" /\ caller[b].hash = hash
      BY <1>2, <2>2 DEF TraceInv
    <3>2. b # a
      BY <2>2, <3>1
    <3>3. QED
      BY <1>1, <3>1, <3>2
  <2>3. QED
    BY <2>1, <2>2
<1>3. ASSUME NEW b \in Actors, caller'[b].at # "idle",
             \A c \in Actors \ {b} : caller'[c].at = "idle" \/ caller'[c].hash # caller'[b].hash
      PROVE  TraceOf(caller'[b], trace'[caller'[b].hash])
  <2>1. CASE b = a
    <3>1. Alone(a, call.hash)
      BY <1>1, <1>3, <2>1 DEF Alone
    <3>2. QED
      BY <1>1, <2>1, <3>1
  <2>2. CASE b # a
    <3>1. caller'[b] = caller[b] /\ call.hash # caller[b].hash
      BY <1>1, <1>3, <2>2
    <3>2. ASSUME NEW c \in Actors \ {b}
          PROVE  caller[c].at = "idle" \/ caller[c].hash # caller[b].hash
      BY <1>1, <1>3, <2>2, <3>1
    <3>3. TraceOf(caller[b], trace[caller[b].hash])
      BY <1>3, <3>1, <3>2 DEF TraceInv, Alone
    <3>4. caller[b].hash \in DOMAIN Queries
      BY <1>3, <3>1 DEF OutcomeInv, CallShape
    <3>5. QED
      BY <3>1, <3>3, <3>4
  <2>3. QED
    BY <2>1, <2>2
<1>4. QED
  BY <1>2, <1>3 DEF TraceInv, Alone

\* Every step but the opening and the writing of a trace leaves the traces
\* alone; of the calls that have one, it ends only those that raise.
LEMMA InterruptedIs ==
  ASSUME clock \in Int, NEW call, call.start \in Int, NEW error
  PROVE  LET next == Interrupted(call, error)
         IN  next.hash = call.hash /\ next.at \in {"open", "raised"}
<1> DEFINE next == Interrupted(call, error)
<1>1. CASE call.how = "history" /\ call.raise = ""
  <2>1. next = Handling(call, error)
    BY <1>1 DEF Interrupted
  <2> HIDE DEF next
  <2>2. QED
    BY <2>1, HandlingIs DEF next
<1>2. CASE ~(call.how = "history" /\ call.raise = "")
  <2> DEFINE raising == [call EXCEPT !.raise = error.class]
  <2>1. next = Ended(raising, "raised")
    BY <1>2 DEF Interrupted
  <2>2. raising.hash = call.hash
    OBVIOUS
  <2> HIDE DEF next, raising
  <2>3. QED
    BY <2>1, <2>2 DEF Ended, next
<1>3. QED
  BY <1>1, <1>2

\* The state of a call before the step.
LEMMA CallBefore ==
  ASSUME OutcomeInv, HistoryInv, NEW a \in Actors, caller[a].at \in Underway
  PROVE  /\ {"at", "how", "hash", "start", "statuses", "raise"} \subseteq DOMAIN caller[a]
         /\ caller[a].start \in Int /\ caller[a].hash \in DOMAIN Queries /\ clock \in Int
         /\ caller[a].at # "idle"
         /\ caller[a].how = "trace" => caller[a].at \in {"open trace", "write trace"}
BY DEF OutcomeInv, CallShape, Underway, BeforeRow, AfterRow

\* A call goes on, and the traces stay.
LEMMA GoesOn ==
  ASSUME TraceInv, HistoryInv, OutcomeInv, NEW a \in Actors, NEW call, caller' = [caller EXCEPT ![a] = call],
         caller[a].at \in Underway \cup {"idle"}, trace' = trace, call.hash \in DOMAIN Queries, call.at # "idle",
         caller[a].at \in Underway => caller[a].hash = call.hash,
         call.at \in Finished /\ call.how \in {"history", "trace"} => call.at = "raised"
  PROVE  TraceInv'
<1>1. caller[a].at # "idle" => caller[a].hash = call.hash
  OBVIOUS
<1>2. DOMAIN trace' = DOMAIN Queries /\ \A hash \in DOMAIN Queries \ {call.hash} : trace'[hash] = trace[hash]
  BY DEF TraceInv
<1>3. ASSUME Alone(a, call.hash)
      PROVE  TraceOf(call, trace'[call.hash])
  <2> DEFINE hash == call.hash
  <2>1. hash \in DOMAIN Queries /\ Alone(a, hash) /\ (caller[a].at \in Underway => caller[a].hash = hash)
    BY <1>3
  <2> HIDE DEF hash
  <2>2. trace[hash] = {}
    BY <2>1, NothingYet
  <2>3. trace'[call.hash] = {}
    BY <2>2 DEF hash
  <2>4. QED
    BY <2>3 DEF TraceOf, TraceTells
<1>4. QED
  BY <1>1, <1>2, <1>3, TraceMoves

LEMMA CallingTraces ==
  ASSUME TraceInv, HistoryInv, OutcomeInv, NEW a \in Actors, Calling(a)
  PROVE  TraceInv'
<1> PICK request \in Requests[a] : CallExecute(a, request) \/ CallRecord(a, request) \/ CallTrace(a, request)
  BY DEF Calling
<1>1. request.text \in DOMAIN Queries
  BY RequestsAssumption
<1>2. \E call : /\ caller' = [caller EXCEPT ![a] = call] /\ call.hash = request.text
                /\ call.at \in {"execute", "open", "open trace"}
  <2>1. CASE CallExecute(a, request)
    <3> DEFINE call == [at |-> "execute", how |-> request.how, hash |-> request.text, start |-> clock,
                        statuses |-> << >>, raise |-> ""]
    <3>1. caller' = [caller EXCEPT ![a] = call]
      BY <2>1 DEF CallExecute
    <3>2. call.hash = request.text /\ call.at = "execute"
      OBVIOUS
    <3> HIDE DEF call
    <3>3. QED
      BY <3>1, <3>2
  <2>2. CASE CallRecord(a, request)
    <3> DEFINE row == Row(request.text, request.status, request.count, request.extras)
               call == [at |-> "open", how |-> "record", hash |-> request.text, start |-> clock,
                        statuses |-> << >>, raise |-> "", elapsed |-> 0, row |-> row]
    <3>1. caller' = [caller EXCEPT ![a] = call]
      BY <2>2 DEF CallRecord
    <3>2. call.hash = request.text /\ call.at = "open"
      OBVIOUS
    <3> HIDE DEF call
    <3>3. QED
      BY <3>1, <3>2
  <2>3. CASE CallTrace(a, request)
    <3> DEFINE call == [at |-> "open trace", how |-> "trace", hash |-> request.text, start |-> clock,
                        statuses |-> <<request.status>>, raise |-> "", stages |-> request.stages]
    <3>1. caller' = [caller EXCEPT ![a] = call]
      BY <2>3 DEF CallTrace
    <3>2. call.hash = request.text /\ call.at = "open trace"
      OBVIOUS
    <3> HIDE DEF call
    <3>3. QED
      BY <3>1, <3>2
  <2>4. QED
    BY <2>1, <2>2, <2>3
<1>3. PICK call : /\ caller' = [caller EXCEPT ![a] = call] /\ call.hash = request.text
                  /\ call.at \in {"execute", "open", "open trace"}
  BY <1>2
<1>4. trace' = trace /\ caller[a].at = "idle"
  BY DEF CallExecute, CallRecord, CallTrace, In
<1>5. call.at # "idle" /\ call.at \notin Finished /\ caller[a].at \notin Underway
  BY <1>3, <1>4 DEF Finished, Underway, BeforeRow, AfterRow
<1>6. QED
  BY <1>1, <1>3, <1>4, <1>5, GoesOn

\* The steps of a call under way, but those of its trace.
LEMMA UnderwayTraces ==
  ASSUME TraceInv, HistoryInv, OutcomeInv, NEW a \in Actors,
         \/ ExecuteReturned(a) \/ ExecuteRaised(a)
         \/ OpenLog(a) \/ AppendRow(a) \/ ReadRows(a) \/ OpenTmp(a) \/ WriteTmp(a)
         \/ ReplaceLog(a) \/ ReplaceRaises(a) \/ TraceRaises(a)
         \/ CliReturns(a) \/ CliRaises(a) \/ Crash(a)
  PROVE  TraceInv'
<1> DEFINE call == caller[a]
<1>1. call.at \in Underway
  <2>1. CASE Crash(a)
    BY <2>1 DEF Crash, OutcomeInv, CallShape
  <2>2. CASE ~Crash(a)
    BY <2>2 DEF ExecuteReturned, ExecuteRaised, OpenLog, AppendRow, ReadRows, OpenTmp, WriteTmp,
                ReplaceLog, ReplaceRaises, TraceRaises, CliReturns, CliRaises, In, Underway, BeforeRow, AfterRow
  <2>3. QED
    BY <2>1, <2>2
<1>2. /\ {"at", "how", "hash", "start", "statuses", "raise"} \subseteq DOMAIN call
      /\ call.start \in Int /\ call.hash \in DOMAIN Queries /\ clock \in Int /\ call.at # "idle"
      /\ call.how = "trace" => call.at \in {"open trace", "write trace"}
  BY <1>1, CallBefore
<1>3. trace' = trace
  BY DEF ExecuteReturned, ExecuteRaised, OpenLog, AppendRow, ReadRows, OpenTmp, WriteTmp,
         ReplaceLog, ReplaceRaises, TraceRaises, CliReturns, CliRaises, Crash
<1>4. \E next : /\ caller' = [caller EXCEPT ![a] = next] /\ next.hash = call.hash /\ next.at # "idle"
                /\ next.at \in Finished /\ next.how \in {"history", "trace"} => next.at = "raised"
  <2> USE DEF Finished
  <2>1. CASE ExecuteReturned(a)
    <3> DEFINE count == Len(job[a].results)
               elapsed == clock - call.start
               ok == "ok"
               next == Recording(call, ok, count, elapsed)
    <3>1. caller' = [caller EXCEPT ![a] = next] /\ elapsed \in Int
      BY <1>2, <2>1 DEF ExecuteReturned
    <3>2. {"at", "how", "hash", "start", "statuses", "raise"} \subseteq DOMAIN call
      BY <1>2
    <3> HIDE DEF ok, elapsed, count, call
    <3>3. next.hash = call.hash /\ next.at = "open"
      BY <3>1, <3>2, RecordingIs
    <3> HIDE DEF next
    <3>4. QED
      BY <3>1, <3>3
  <2>2. CASE ExecuteRaised(a)
    <3> DEFINE error == job[a].error
               next == Handling(call, error)
    <3>1. caller' = [caller EXCEPT ![a] = next]
      BY <2>2 DEF ExecuteRaised
    <3> HIDE DEF error
    <3>2. next.hash = call.hash /\ next.at = "open"
      BY <1>2, HandlingIs
    <3> HIDE DEF next, call
    <3>3. QED
      BY <3>1, <3>2
  <2>3. CASE OpenLog(a) \/ ReadRows(a)
    <3>1. \E stage, more :
            /\ caller' = [caller EXCEPT ![a] = Moved(call, stage, more)]
            /\ stage \in {"append", "open tmp"} /\ "hash" \notin DOMAIN more
      <4>1. CASE OpenLog(a)
        <5> DEFINE file == IF disk.live = NoFile THEN NewFile ELSE disk.live
                   more == [file |-> file]
        <5>1. caller' = [caller EXCEPT ![a] = Moved(call, "append", more)] /\ "hash" \notin DOMAIN more
          BY <4>1 DEF OpenLog
        <5> HIDE DEF more
        <5>2. QED
          BY <5>1
      <4>2. CASE ReadRows(a)
        <5> DEFINE more == [newest |-> LastOf(disk.data[disk.live], Kept)]
        <5>1. caller' = [caller EXCEPT ![a] = Moved(call, "open tmp", more)] /\ "hash" \notin DOMAIN more
          BY <4>2 DEF ReadRows
        <5> HIDE DEF more
        <5>2. QED
          BY <5>1
      <4>3. QED
        BY <2>3, <4>1, <4>2
    <3>2. PICK stage, more :
            /\ caller' = [caller EXCEPT ![a] = Moved(call, stage, more)]
            /\ stage \in {"append", "open tmp"} /\ "hash" \notin DOMAIN more
      BY <3>1
    <3> DEFINE next == Moved(call, stage, more)
    <3>3. next.hash = call.hash /\ next.at = stage
      BY <1>2, <3>2 DEF Moved
    <3> HIDE DEF next, call
    <3>4. QED
      BY <3>2, <3>3 DEF next
  <2>4. CASE AppendRow(a) \/ OpenTmp(a) \/ WriteTmp(a)
    <3>1. PICK next : /\ caller' = [caller EXCEPT ![a] = next] /\ next.hash = call.hash
                      /\ next.at \in {"read", "write tmp", "replace"}
      <4>1. CASE AppendRow(a)
        <5> DEFINE next == [call EXCEPT !.at = "read", !.statuses = Append(@, call.row.status)]
        <5>1. caller' = [caller EXCEPT ![a] = next]
          BY <4>1 DEF AppendRow
        <5>2. next.hash = call.hash /\ next.at = "read"
          BY <1>2
        <5> HIDE DEF next, call
        <5>3. QED
          BY <5>1, <5>2
      <4>2. CASE OpenTmp(a)
        <5> DEFINE file == IF disk.tmp = NoFile THEN NewFile ELSE disk.tmp
                   next == [call EXCEPT !.at = "write tmp", !.file = file]
        <5>1. caller' = [caller EXCEPT ![a] = next]
          BY <4>2 DEF OpenTmp
        <5>2. next.hash = call.hash /\ next.at = "write tmp"
          BY <1>2
        <5> HIDE DEF next, call
        <5>3. QED
          BY <5>1, <5>2
      <4>3. CASE WriteTmp(a)
        <5> DEFINE next == [call EXCEPT !.at = "replace"]
        <5>1. caller' = [caller EXCEPT ![a] = next]
          BY <4>3 DEF WriteTmp
        <5>2. next.hash = call.hash /\ next.at = "replace"
          BY <1>2
        <5> HIDE DEF next, call
        <5>3. QED
          BY <5>1, <5>2
      <4>4. QED
        BY <2>4, <4>1, <4>2, <4>3
    <3>2. QED
      BY <3>1
  <2>5. CASE ReplaceLog(a)
    <3>1. CASE call.how = "history"
      <4> DEFINE next == Closed([call EXCEPT !.at = "open trace"])
      <4>1. caller' = [caller EXCEPT ![a] = next]
        BY <2>5, <3>1 DEF ReplaceLog
      <4>2. next.hash = call.hash /\ next.at = "open trace"
        BY <1>2 DEF Closed
      <4> HIDE DEF next, call
      <4>3. QED
        BY <4>1, <4>2
    <3>2. CASE call.how # "history"
      <4> DEFINE next == Ended(call, "returned")
      <4>1. caller' = [caller EXCEPT ![a] = next] /\ call.how # "trace"
        BY <1>2, <2>5, <3>2 DEF ReplaceLog, In
      <4>2. next.hash = call.hash /\ next.at = "returned" /\ next.how = call.how
        BY DEF Ended
      <4> HIDE DEF next, call
      <4>3. QED
        BY <3>2, <4>1, <4>2
    <3>3. QED
      BY <3>1, <3>2
  <2>6. CASE ReplaceRaises(a)
    <3> DEFINE closed == Closed(call)
               error == Error("FileNotFoundError", {})
               next == Interrupted(closed, error)
    <3>1. caller' = [caller EXCEPT ![a] = next]
      BY <2>6 DEF ReplaceRaises
    <3>2. closed.hash = call.hash /\ closed.start \in Int
      BY <1>2 DEF Closed
    <3> HIDE DEF closed, error
    <3>3. next.hash = call.hash /\ next.at \in {"open", "raised"}
      BY <1>2, <3>2, InterruptedIs
    <3> HIDE DEF next, call
    <3>4. QED
      BY <3>1, <3>3
  <2>7. CASE TraceRaises(a)
    <3> DEFINE error == Error("OSError", {})
               next == Interrupted(call, error)
    <3>1. caller' = [caller EXCEPT ![a] = next]
      BY <2>7 DEF TraceRaises
    <3> HIDE DEF error
    <3>2. next.hash = call.hash /\ next.at \in {"open", "raised"}
      BY <1>2, InterruptedIs
    <3> HIDE DEF next, call
    <3>3. QED
      BY <3>1, <3>2
  <2>8. CASE CliReturns(a)
    <3> DEFINE next == Moved(Ended(call, "returned"), "returned", [exit |-> 0])
    <3>1. caller' = [caller EXCEPT ![a] = next] /\ call.how = "query"
      BY <2>8 DEF CliReturns
    <3>2. next.hash = call.hash /\ next.how = call.how /\ next.at = "returned"
      BY DEF Moved, Ended
    <3> HIDE DEF next, call
    <3>3. QED
      BY <3>1, <3>2
  <2>9. CASE CliRaises(a)
    <3> DEFINE class == job[a].error.class
               raising == [call EXCEPT !.raise = class]
               exit == ExitOf(class)
               next == Moved(Ended(raising, "raised"), "raised", [exit |-> exit])
    <3>1. caller' = [caller EXCEPT ![a] = next]
      BY <2>9 DEF CliRaises
    <3>2. raising.hash = call.hash
      BY <1>2
    <3> HIDE DEF raising, exit, class
    <3>3. next.hash = call.hash /\ next.at = "raised"
      BY <3>2 DEF Moved, Ended
    <3> HIDE DEF next, call
    <3>4. QED
      BY <3>1, <3>3
  <2>10. CASE Crash(a)
    <3> DEFINE next == [at |-> "crashed", hash |-> call.hash]
    <3>1. caller' = [caller EXCEPT ![a] = next]
      BY <2>10 DEF Crash
    <3>2. next.hash = call.hash /\ next.at = "crashed"
      OBVIOUS
    <3> HIDE DEF next, call
    <3>3. QED
      BY <3>1, <3>2
  <2>11. QED
    BY <2>1, <2>2, <2>3, <2>4, <2>5, <2>6, <2>7, <2>8, <2>9, <2>10
<1>5. PICK next : /\ caller' = [caller EXCEPT ![a] = next] /\ next.hash = call.hash /\ next.at # "idle"
                  /\ next.at \in Finished /\ next.how \in {"history", "trace"} => next.at = "raised"
  BY <1>4
<1>6. QED
  BY <1>1, <1>2, <1>3, <1>5, GoesOn

LEMMA OpenTraceTraces ==
  ASSUME TraceInv, HistoryInv, OutcomeInv, NEW a \in Actors, OpenTrace(a)
  PROVE  TraceInv'
<1> DEFINE next == [caller[a] EXCEPT !.at = "write trace"]
<1>1. caller[a].at = "open trace" /\ caller[a].at \in Underway
  BY DEF OpenTrace, In, Underway, AfterRow
<1>2. /\ {"at", "how", "hash", "start", "statuses", "raise"} \subseteq DOMAIN caller[a]
      /\ caller[a].hash \in DOMAIN Queries
  BY <1>1, CallBefore
<1>3. caller' = [caller EXCEPT ![a] = next] /\ trace' = [trace EXCEPT ![caller[a].hash] = {}]
  BY DEF OpenTrace
<1>4. next.at = "write trace" /\ next.hash = caller[a].hash
  BY <1>2
<1> HIDE DEF next
<1>5. /\ DOMAIN trace' = DOMAIN Queries /\ trace'[next.hash] = {}
      /\ \A hash \in DOMAIN Queries \ {next.hash} : trace'[hash] = trace[hash]
  BY <1>2, <1>3, <1>4 DEF TraceInv
<1>6. TraceOf(next, trace'[next.hash])
  BY <1>4, <1>5 DEF TraceOf, Finished
<1>7. QED
  BY <1>2, <1>3, <1>4, <1>5, <1>6, TraceMoves

\* What a call of a query that is over has recorded last.
LEMMA LastStatus ==
  ASSUME NEW call, NEW disturbed, Outcome(call, call.statuses, disturbed)
  PROVE  call.statuses[Len(call.statuses)] = "ok" <=> call.raise = ""
<1>1. /\ <<"ok">>[Len(<<"ok">>)] = "ok" /\ <<"rejected">>[Len(<<"rejected">>)] = "rejected"
      /\ <<"error">>[Len(<<"error">>)] = "error" /\ <<"ok", "error">>[Len(<<"ok", "error">>)] = "error"
  BY FewStatuses
<1>2. QED
  BY <1>1 DEF Outcome, LoadClasses

LEMMA ElementsOf ==
  ASSUME NEW S, NEW s \in Seq(S)
  PROVE  \A i \in 1..Len(s) : s[i] \in S
OBVIOUS

\* The stages that are written.
LEMMA StagesAreWritten ==
  ASSUME NEW call, CallShape(call), call.at = "write trace", call.how \in {"history", "trace"}, NEW now \in Int
  PROVE  LET given == IF call.how = "trace" THEN call.stages ELSE BasicStages(call.elapsed, now)
             stages == Ordered(given, now)
         IN  /\ DOMAIN stages = 1..5
             /\ \A i \in 1..5 : stages[i].name = StageNames[i] /\ stages[i].from <= stages[i].to
             /\ call.how = "history" => \A i \in 1..4 : stages[i + 1].from = stages[i].to
<1> DEFINE given == IF call.how = "trace" THEN call.stages ELSE BasicStages(call.elapsed, now)
           stages == Ordered(given, now)
<1>1. CASE call.how = "trace"
  <2> DEFINE n == Len(call.stages)
  <2>1. call.stages \in GivenStages
    BY <1>1 DEF CallShape, Underway, AfterRow
  <2>2. /\ n \in Nat /\ DOMAIN call.stages = 1..n
        /\ \A i \in 1..n : call.stages[i].from \in Int /\ call.stages[i].to \in Int
    <3> DEFINE S == [name : STRING, from : Int, to : Int]
               seq == call.stages
    <3>1. seq \in Seq(S)
      BY <2>1 DEF GivenStages
    <3>2. \A s \in S : s.from \in Int /\ s.to \in Int
      OBVIOUS
    <3> HIDE DEF S, seq
    <3>3. Len(seq) \in Nat /\ DOMAIN seq = 1..Len(seq) /\ \A i \in 1..Len(seq) : seq[i] \in S
      BY <3>1, SequenceOf, ElementsOf
    <3>4. QED
      BY <3>2, <3>3 DEF seq
  <2>3. given = call.stages
    BY <1>1
  <2> HIDE DEF n, given
  <2>4. /\ DOMAIN stages = 1..5
        /\ \A i \in 1..5 : stages[i].name = StageNames[i] /\ stages[i].from <= stages[i].to
    BY <2>2, <2>3, OrderedIs
  <2> HIDE DEF stages
  <2>5. QED
    BY <1>1, <2>4 DEF stages, given
<1>2. CASE call.how = "history"
  <2>1. call.elapsed \in Nat
    BY <1>2 DEF CallShape, AfterRow
  <2> DEFINE elapsed == call.elapsed
  <2>2. given = BasicStages(elapsed, now) /\ elapsed \in Nat
    BY <1>2, <2>1
  <2> HIDE DEF elapsed, given
  <2>3. /\ DOMAIN stages = 1..5
        /\ \A i \in 1..5 : stages[i].name = StageNames[i] /\ stages[i].from <= stages[i].to
        /\ \A i \in 1..4 : stages[i + 1].from = stages[i].to
    BY <2>2, BasicOrdered
  <2> HIDE DEF stages
  <2>4. QED
    BY <2>3 DEF stages, given
<1>3. QED
  BY <1>1, <1>2

LEMMA WriteTraceTraces ==
  ASSUME TraceInv, HistoryInv, OutcomeInv, NEW a \in Actors, WriteTrace(a)
  PROVE  TraceInv'
<1> DEFINE call == caller[a]
           given == IF call.how = "trace" THEN call.stages ELSE BasicStages(call.elapsed, clock)
           stages == Ordered(given, clock)
           status == call.statuses[Len(call.statuses)]
           doc == [hash |-> call.hash, status |-> status, stages |-> stages]
           end == IF call.raise = "" THEN "returned" ELSE "raised"
           next == Ended(call, end)
<1>1. call.at = "write trace" /\ call.at \in Underway
  BY DEF WriteTrace, In, Underway, AfterRow
<1>2. call.hash \in DOMAIN Queries /\ clock \in Int
  BY <1>1, CallBefore
<1>3. CallShape(call) /\ (call.how = "history" => Outcome(call, call.statuses, Disturbed))
  BY <1>1 DEF OutcomeInv, CallTells, AfterRow
<1>4. /\ caller' = [caller EXCEPT ![a] = next]
      /\ \E docs \in {{doc}, {doc} \cup trace[call.hash]} : trace' = [trace EXCEPT ![call.hash] = docs]
  BY DEF WriteTrace, Doc
<1>5. /\ next.at = end /\ next.hash = call.hash /\ next.how = call.how /\ next.statuses = call.statuses
      /\ end \in Finished /\ (end = "returned" <=> call.raise = "")
  BY DEF Ended, Finished
<1>6. call.how \in {"history", "trace"} =>
        /\ DOMAIN stages = 1..5
        /\ \A i \in 1..5 : stages[i].name = StageNames[i] /\ stages[i].from <= stages[i].to
        /\ call.how = "history" => \A i \in 1..4 : stages[i + 1].from = stages[i].to
  BY <1>1, <1>2, <1>3, StagesAreWritten
<1>7. call.how = "history" => (status = "ok" <=> call.raise = "")
  BY <1>3, LastStatus
<1>8. doc.status = status /\ doc.stages = stages
  OBVIOUS
<1> HIDE DEF stages, doc, end, next
<1>9. call.how \in {"history", "trace"} => TraceTells(next, {doc})
  <2> SUFFICES ASSUME call.how \in {"history", "trace"}
               PROVE  TraceTells(next, {doc})
    OBVIOUS
  <2>1. Cardinality({doc}) = 1
    BY FS_Singleton
  <2>2. [i \in DOMAIN doc.stages |-> doc.stages[i].name] = StageNames
    <3>1. StageNames = [i \in 1..5 |-> StageNames[i]]
      BY DEF StageNames
    <3>2. [i \in 1..5 |-> stages[i].name] = [i \in 1..5 |-> StageNames[i]]
      BY <1>6
    <3>3. QED
      BY <1>6, <1>8, <3>1, <3>2
  <2>3. ASSUME NEW i \in 1..5, call.how = "history", i > 1
        PROVE  stages[i].from = stages[i - 1].to
    <3>1. i - 1 \in 1..4 /\ (i - 1) + 1 = i
      BY <2>3
    <3>2. QED
      BY <1>6, <2>3, <3>1
  <2>4. doc.status = next.statuses[Len(next.statuses)]
    BY <1>5, <1>8
  <2>5. next.how = "history" => (doc.status = "ok" <=> next.at = "returned")
    BY <1>5, <1>7, <1>8
  <2> HIDE DEF call, status
  <2>6. \A i \in DOMAIN doc.stages :
          /\ doc.stages[i].from <= doc.stages[i].to
          /\ next.how = "history" /\ i > 1 => doc.stages[i].from = doc.stages[i - 1].to
    BY <1>5, <1>6, <1>8, <2>3
  <2>7. QED
    BY <2>1, <2>2, <2>4, <2>5, <2>6 DEF TraceTells
<1>10. PICK docs \in {{doc}, {doc} \cup trace[call.hash]} : trace' = [trace EXCEPT ![call.hash] = docs]
  BY <1>4
<1>11. /\ DOMAIN trace' = DOMAIN Queries /\ trace'[next.hash] = docs
       /\ \A hash \in DOMAIN Queries \ {next.hash} : trace'[hash] = trace[hash]
  BY <1>2, <1>5, <1>10 DEF TraceInv
<1>12. ASSUME Alone(a, next.hash)
       PROVE  TraceOf(next, trace'[next.hash])
  <2>1. trace[call.hash] = {}
    <3> DEFINE hash == call.hash
    <3>1. /\ hash \in DOMAIN Queries /\ Alone(a, hash) /\ caller[a].hash = hash
          /\ caller[a].at \in Underway
      BY <1>1, <1>2, <1>5, <1>12
    <3> HIDE DEF hash
    <3>2. trace[hash] = {}
      BY <3>1, NothingYet
    <3>3. QED
      BY <3>2 DEF hash
  <2>2. docs = {doc}
    BY <1>10, <2>1
  <2>3. next.at \notin Underway
    BY <1>5 DEF Finished, Underway, BeforeRow, AfterRow
  <2>4. QED
    BY <1>5, <1>9, <1>11, <2>2, <2>3 DEF TraceOf
<1>13. next.at # "idle" /\ next.hash \in DOMAIN Queries /\ caller[a].hash = next.hash
  BY <1>2, <1>5 DEF Finished
<1>14. QED
  BY <1>4, <1>11, <1>12, <1>13, TraceMoves

LEMMA TraceNext ==
  ASSUME HistoryInv, OutcomeInv, TraceInv, [Next]_vars
  PROVE  TraceInv'
<1>1. CASE UNCHANGED <<caller, trace>>
  BY <1>1 DEF TraceInv, Alone
<1>2. ASSUME NEW a \in Actors, Calling(a) \/ Step(a) \/ Crash(a)
      PROVE  TraceInv'
  <2>1. CASE Executing(a)
    BY <1>1, <2>1 DEF Executing
  <2>2. CASE Calling(a)
    BY <2>2, CallingTraces
  <2>3. CASE OpenTrace(a)
    BY <2>3, OpenTraceTraces
  <2>4. CASE WriteTrace(a)
    BY <2>4, WriteTraceTraces
  <2>5. QED
    BY <1>2, <2>1, <2>2, <2>3, <2>4, UnderwayTraces DEF Step
<1>3. CASE Environment \/ UNCHANGED vars
  BY <1>1, <1>3 DEF Environment, vars
<1>4. QED
  BY <1>2, <1>3 DEF Next

LEMMA TraceInit == Init => TraceInv
BY DEF Init, Idle, TraceInv

LEMMA TraceInvariant == Spec => [](HistoryInv /\ NewestInv /\ OutcomeInv /\ TraceInv)
<1>1. Init => HistoryInv /\ NewestInv /\ OutcomeInv /\ TraceInv
  BY HistoryInit, OutcomeInit, TraceInit
<1>2. (HistoryInv /\ NewestInv /\ OutcomeInv /\ TraceInv) /\ [Next]_vars =>
        (HistoryInv /\ NewestInv /\ OutcomeInv /\ TraceInv)'
  BY HistoryNext, OutcomeNext, TraceNext
<1>3. QED
  BY <1>1, <1>2, PTL DEF Spec

(* The trace of a call that is over, of a text no other process has run, is
   there if the call returned, never says "ok" of a query that raised, and has
   the five stages in order, each from the end of the one before. *)
THEOREM TraceIsOfOutcome == Spec => []TraceTellsOutcome
<1>1. OutcomeInv /\ TraceInv => TraceTellsOutcome
  <2> SUFFICES ASSUME TraceInv, NEW a \in Actors,
                      caller[a].at \in Finished, caller[a].how \in {"history", "trace"},
                      \A b \in Actors \ {a} : caller[b].at = "idle" \/ caller[b].hash # caller[a].hash
               PROVE  TraceTells(caller[a], trace[caller[a].hash])
    BY DEF TraceTellsOutcome, TraceTells
  <2>1. caller[a].at # "idle"
    BY DEF Finished
  <2>2. QED
    BY <2>1 DEF TraceInv, Alone, TraceOf
<1>2. QED
  BY <1>1, TraceInvariant, PTL

----------------------------------------------------------------------------
(* Timestamps, and what a filter says of one *)

\* A raw timestamp is that of a number or of none.
LEMMA ParsedIs ==
  ASSUME NEW raw \in RawTs
  PROVE  ParseTs(raw) = {} \/ \E t \in Int : ParseTs(raw) = {t}
<1>1. raw.v \in Int
  BY DEF RawTs
<1>2. Truncated(raw.v) \in Int
  BY <1>1 DEF Truncated
<1>3. CASE raw.is \in {"int", "digits", "iso"}
  BY <1>1, <1>3 DEF ParseTs
<1>4. CASE raw.is \in {"float", "number"}
  BY <1>2, <1>4 DEF ParseTs
<1>5. CASE raw.is \notin {"int", "digits", "iso"} \cup {"float", "number"}
  BY <1>5 DEF ParseTs
<1>6. QED
  BY <1>3, <1>4, <1>5

\* The filters that the parser makes compare with a number.
Comparable(f) == f.field = "ts" /\ f.op \in {">", "<"} => \E x \in Int : ParseTs(f.at) = {x}

\* Rows have timestamps as JSON gives them.
Dated(rows) == \A i \in DOMAIN rows : RawTsOf(rows[i]) \in RawTs

\* What passes at a time passed at every time before.
LEMMA PassesBefore ==
  ASSUME NEW row, RawTsOf(row) \in RawTs, NEW f, NEW now \in Int, NEW later \in Int, now <= later,
         Matches(row, f, later)
  PROVE  Matches(row, f, now)
<1>1. CASE f.field # "ts"
  BY <1>1 DEF Matches
<1>2. CASE f.field = "ts"
  <2>1. MatchesTime(row, f, later)
    BY <1>2 DEF Matches
  <2>2. PICK t \in ParseTs(RawTsOf(row)) :
          \/ f.op = ">" /\ \E x \in ParseTs(f.at) : t > x
          \/ f.op = "<" /\ \E x \in ParseTs(f.at) : t < x
          \/ f.op = "in_window" /\ f.window = "last_hour" /\ t > later - LastHour
    BY <2>1 DEF MatchesTime
  <2>3. t \in Int
    BY <2>2, ParsedIs
  <2>4. t > later - LastHour => t > now - LastHour
    BY <2>3, TsIndexAssumption
  <2>5. MatchesTime(row, f, now)
    BY <2>2, <2>4, Zenon DEF MatchesTime
  <2>6. QED
    BY <1>2, <2>5 DEF Matches
<1>3. QED
  BY <1>1, <1>2

\* The defaults of a row do not give it a timestamp.
LEMMA DefaultsAre ==
  ASSUME NEW rec, NEW id, NEW depth, NEW rank
  PROVE  RawTsOf(WithDefaults(rec, [record_id |-> id, depth |-> depth, rank |-> rank])) = RawTsOf(rec)
BY DEF WithDefaults, RawTsOf

----------------------------------------------------------------------------
(* The order of an index *)

\* Entries of an index are pairs of a timestamp and a position.
Entries == Int \X Nat

\* They are in a strict total order.
LEMMA BeforeOrders ==
  /\ \A p \in Entries : ~Before(p, p)
  /\ \A p, q \in Entries : p # q => Before(p, q) \/ Before(q, p)
  /\ \A p, q, r \in Entries : Before(p, q) /\ Before(q, r) => Before(p, r)
  /\ \A p, q \in Entries : Before(p, q) => p[1] <= q[1]
<1> DEFINE lead(n) == IF n > 9 THEN n \div 10 ELSE n
<1>1. \A n \in Nat : lead(n) \in Nat
  OBVIOUS
<1>2. \A a, b \in Nat : ReprBefore(a, b) <=> lead(a) < lead(b) \/ (lead(a) = lead(b) /\ a < b)
  BY DEF ReprBefore
<1> HIDE DEF lead
<1>3. /\ \A a \in Nat : ~ReprBefore(a, a)
      /\ \A a, b \in Nat : a # b => ReprBefore(a, b) \/ ReprBefore(b, a)
      /\ \A a, b, c \in Nat : ReprBefore(a, b) /\ ReprBefore(b, c) => ReprBefore(a, c)
  <2>1. \A a \in Nat : ~ReprBefore(a, a)
    BY <1>1, <1>2
  <2>2. \A a, b \in Nat : a # b => ReprBefore(a, b) \/ ReprBefore(b, a)
    BY <1>1, <1>2
  <2>3. \A a, b, c \in Nat : ReprBefore(a, b) /\ ReprBefore(b, c) => ReprBefore(a, c)
    BY <1>1, <1>2
  <2>4. QED
    BY <2>1, <2>2, <2>3
<1>4. \A p \in Entries : p[1] \in Int /\ p[2] \in Nat /\ p = <<p[1], p[2]>>
  BY DEF Entries
<1>5. \A p, q : Before(p, q) <=> p[1] < q[1] \/ (p[1] = q[1] /\ ReprBefore(p[2], q[2]))
  BY DEF Before
<1>6. \A p \in Entries : ~Before(p, p)
  BY <1>3, <1>4, <1>5
<1>7. \A p, q \in Entries : p # q => Before(p, q) \/ Before(q, p)
  <2>1. TAKE p, q \in Entries
  <2>2. HAVE p # q
  <2>3. p[1] # q[1] \/ p[2] # q[2]
    BY <1>4, <2>2, Zenon
  <2>4. QED
    BY <1>3, <1>4, <1>5, <2>3
<1>8. \A p, q, r \in Entries : Before(p, q) /\ Before(q, r) => Before(p, r)
  BY <1>3, <1>4, <1>5
<1>9. \A p, q \in Entries : Before(p, q) => p[1] <= q[1]
  BY <1>4, <1>5
<1>10. QED
  BY <1>6, <1>7, <1>8, <1>9

\* How many are before one in a set.
Lower(S, x) == {y \in S : Before(y, x)}
Rank(S, x) == Cardinality(Lower(S, x))

\* One that is before another has fewer before it, and no two have as many.
LEMMA RanksAre ==
  ASSUME NEW S \in SUBSET Entries, IsFiniteSet(S)
  PROVE  /\ \A x \in S : Rank(S, x) \in 0..(Cardinality(S) - 1)
         /\ \A x, y \in S : Before(x, y) => Rank(S, x) < Rank(S, y)
         /\ \A x, y \in S : Rank(S, x) = Rank(S, y) => x = y
<1>1. \A x \in S : IsFiniteSet(Lower(S, x)) /\ Cardinality(Lower(S, x)) <= Cardinality(S)
  BY FS_Subset DEF Lower
<1>2. Cardinality(S) \in Nat /\ \A x \in S : Rank(S, x) \in Nat
  BY <1>1, FS_CardinalityType DEF Rank
<1>3. ASSUME NEW x \in S
      PROVE  Rank(S, x) < Cardinality(S)
  <2>1. Lower(S, x) \subseteq S /\ x \notin Lower(S, x)
    BY BeforeOrders DEF Lower
  <2>2. Lower(S, x) # S
    BY <2>1
  <2>3. Cardinality(Lower(S, x)) # Cardinality(S)
    BY <2>1, <2>2, FS_Subset
  <2>4. QED
    BY <1>1, <1>2, <2>3 DEF Rank
<1>4. ASSUME NEW x \in S, NEW y \in S, Before(x, y)
      PROVE  Rank(S, x) < Rank(S, y)
  <2>1. Lower(S, x) \subseteq Lower(S, y)
    BY <1>4, BeforeOrders DEF Lower
  <2>2. x \in Lower(S, y) /\ x \notin Lower(S, x)
    BY <1>4, BeforeOrders DEF Lower
  <2>3. Cardinality(Lower(S, x)) <= Cardinality(Lower(S, y)) /\ Cardinality(Lower(S, x)) # Cardinality(Lower(S, y))
    BY <1>1, <2>1, <2>2, FS_Subset
  <2>4. QED
    BY <1>2, <2>3 DEF Rank
<1>5. ASSUME NEW x \in S, NEW y \in S, Rank(S, x) = Rank(S, y)
      PROVE  x = y
  <2>1. ~(Rank(S, x) < Rank(S, y)) /\ ~(Rank(S, y) < Rank(S, x))
    BY <1>2, <1>5
  <2>2. QED
    BY <1>4, <2>1, BeforeOrders
<1>6. QED
  BY <1>2, <1>3, <1>4, <1>5

\* The list of them in order has each of them, where its rank says.
LEMMA InOrderIs ==
  ASSUME NEW S \in SUBSET Entries, IsFiniteSet(S)
  PROVE  /\ Cardinality(S) \in Nat /\ InOrder(S, Before) \in [1..Cardinality(S) -> S]
         /\ \A x \in S : Rank(S, x) + 1 \in 1..Cardinality(S) /\ InOrder(S, Before)[Rank(S, x) + 1] = x
         /\ \A k \in 1..Cardinality(S) : Rank(S, InOrder(S, Before)[k]) = k - 1
<1>1. PICK n \in Nat : n = Cardinality(S)
  BY FS_CardinalityType
<1> DEFINE rank == [x \in S |-> Rank(S, x)]
<1>2. rank \in Injection(S, 0..(n - 1))
  BY <1>1, RanksAre DEF Injection, IsInjective
<1>3. IsFiniteSet(0..(n - 1)) /\ Cardinality(0..(n - 1)) = n
  BY FS_Interval
<1>4. rank \in Surjection(S, 0..(n - 1))
  BY <1>1, <1>2, <1>3, FS_Injection
<1>5. \A k \in 0..(n - 1) : \E x \in S : Rank(S, x) = k
  BY <1>4 DEF Surjection
<1>6. PICK o : o = InOrder(S, Before)
  OBVIOUS
<1>7. o = [k \in 1..n |-> CHOOSE x \in S : Rank(S, x) = k - 1]
  BY <1>1, <1>6 DEF InOrder, Rank, Lower
<1>8. ASSUME NEW k \in 1..n
      PROVE  o[k] \in S /\ Rank(S, o[k]) = k - 1
  <2>1. k - 1 \in 0..(n - 1)
    OBVIOUS
  <2>2. \E x \in S : Rank(S, x) = k - 1
    BY <1>5, <2>1
  <2>3. o[k] = CHOOSE x \in S : Rank(S, x) = k - 1
    BY <1>7
  <2>4. QED
    BY <2>2, <2>3
<1>9. o \in [1..n -> S]
  BY <1>7, <1>8
<1>10. ASSUME NEW x \in S
       PROVE  Rank(S, x) + 1 \in 1..n /\ o[Rank(S, x) + 1] = x
  <2>1. PICK r \in 0..(n - 1) : r = Rank(S, x)
    BY <1>1, RanksAre
  <2>2. r + 1 \in 1..n /\ (r + 1) - 1 = r
    OBVIOUS
  <2>3. o[r + 1] \in S /\ Rank(S, o[r + 1]) = Rank(S, x)
    BY <1>8, <2>1, <2>2
  <2>4. o[r + 1] = x
    BY <2>3, RanksAre
  <2>5. QED
    BY <2>1, <2>2, <2>4
<1>11. QED
  BY <1>1, <1>6, <1>8, <1>9, <1>10

\* The timestamps of an index, in their order.
Sorted(ts, n) == ts \in [1..n -> Int] /\ \A i, j \in 1..n : i <= j => ts[i] <= ts[j]

\* An index of n entries: its timestamps are sorted, and each of the entries
\* is in it.
Indexes(index, S, n) ==
  /\ Sorted(index.ts, n) /\ DOMAIN index.refs = 1..n
  /\ \A x \in S : \E k \in 1..n : index.ts[k] = x[1] /\ index.refs[k] = x[2]

LEMMA SortedIndexIs ==
  ASSUME NEW S \in SUBSET Entries, IsFiniteSet(S)
  PROVE  \E n \in Nat : Indexes(SortedIndex(S), S, n)
<1>1. PICK n \in Nat : n = Cardinality(S)
  BY InOrderIs
<1>2. PICK o \in [1..n -> S] :
        /\ o = InOrder(S, Before)
        /\ \A x \in S : Rank(S, x) + 1 \in 1..n /\ o[Rank(S, x) + 1] = x
        /\ \A k \in 1..n : Rank(S, o[k]) = k - 1
  BY <1>1, InOrderIs
<1>3. PICK ts, refs : /\ ts = [i \in 1..n |-> o[i][1]] /\ refs = [i \in 1..n |-> o[i][2]]
                      /\ SortedIndex(S).ts = ts /\ SortedIndex(S).refs = refs
  BY <1>2 DEF SortedIndex
<1>4. \A k \in 1..n : o[k] \in Entries /\ o[k][1] \in Int /\ ts[k] = o[k][1] /\ refs[k] = o[k][2]
  BY <1>2, <1>3 DEF Entries
<1>5. ASSUME NEW i \in 1..n, NEW j \in 1..n, i <= j
      PROVE  ts[i] <= ts[j]
  <2>1. CASE i = j
    BY <1>4, <2>1
  <2>2. CASE i # j
    <3>1. o[i] \in S /\ o[j] \in S /\ Rank(S, o[i]) = i - 1 /\ Rank(S, o[j]) = j - 1
      BY <1>2
    <3>2. ~Before(o[j], o[i])
      BY <1>5, <2>2, <3>1, RanksAre
    <3>3. o[i] # o[j]
      BY <2>2, <3>1
    <3>4. Before(o[i], o[j])
      BY <1>4, <3>2, <3>3, BeforeOrders
    <3>5. QED
      BY <1>4, <3>4, BeforeOrders
  <2>3. QED
    BY <2>1, <2>2
<1>6. Sorted(ts, n)
  BY <1>3, <1>4, <1>5 DEF Sorted
<1>7. \A x \in S : \E k \in 1..n : ts[k] = x[1] /\ refs[k] = x[2]
  <2>1. TAKE x \in S
  <2>2. PICK k \in 1..n : o[k] = x
    BY <1>2
  <2>3. QED
    BY <1>4, <2>2
<1>8. DOMAIN refs = 1..n
  BY <1>3
<1>9. Indexes(SortedIndex(S), S, n)
  BY <1>3, <1>6, <1>7, <1>8, Zenon DEF Indexes
<1>10. QED
  BY <1>9

\* A bisection finds where the timestamps up to a bound end.
LEMMA BisectIs ==
  ASSUME NEW n \in Nat, NEW ts, Sorted(ts, n), NEW x \in Int
  PROVE  /\ BisectRight(ts, x) \in 0..n /\ \A k \in 1..n : ts[k] > x => k > BisectRight(ts, x)
         /\ BisectLeft(ts, x) \in 0..n /\ \A k \in 1..n : ts[k] < x => k <= BisectLeft(ts, x)
<1>1. ts \in [1..n -> Int] /\ Len(ts) = n /\ \A i, j \in 1..n : i <= j => ts[i] <= ts[j]
  BY DEF Sorted
<1>2. \E k \in 0..n : (\A i \in 1..k : ts[i] <= x) /\ (\A i \in (k + 1)..n : ts[i] > x)
  <2> DEFINE T == {i \in 1..(n + 1) : i = n + 1 \/ ts[i] > x}
  <2>1. T \in SUBSET Nat /\ n + 1 \in T
    OBVIOUS
  <2>2. PICK m \in T : \A i \in T : m <= i
    BY <2>1, LeastNatural
  <2>3. m - 1 \in 0..n
    BY <2>2
  <2>4. \A i \in 1..(m - 1) : ts[i] <= x
    <3>1. TAKE i \in 1..(m - 1)
    <3>2. i \in 1..n /\ i \notin T
      BY <2>2
    <3>3. QED
      BY <1>1, <3>2
  <2>5. \A i \in ((m - 1) + 1)..n : ts[i] > x
    <3>1. TAKE i \in ((m - 1) + 1)..n
    <3>2. m \in 1..n /\ i \in 1..n /\ m <= i /\ ts[m] > x
      BY <2>2
    <3>3. QED
      BY <1>1, <3>2
  <2>6. QED
    BY <2>3, <2>4, <2>5
<1>3. \E k \in 0..n : (\A i \in 1..k : ts[i] < x) /\ (\A i \in (k + 1)..n : ts[i] >= x)
  <2> DEFINE T == {i \in 1..(n + 1) : i = n + 1 \/ ts[i] >= x}
  <2>1. T \in SUBSET Nat /\ n + 1 \in T
    OBVIOUS
  <2>2. PICK m \in T : \A i \in T : m <= i
    BY <2>1, LeastNatural
  <2>3. m - 1 \in 0..n
    BY <2>2
  <2>4. \A i \in 1..(m - 1) : ts[i] < x
    <3>1. TAKE i \in 1..(m - 1)
    <3>2. i \in 1..n /\ i \notin T
      BY <2>2
    <3>3. QED
      BY <1>1, <3>2
  <2>5. \A i \in ((m - 1) + 1)..n : ts[i] >= x
    <3>1. TAKE i \in ((m - 1) + 1)..n
    <3>2. m \in 1..n /\ i \in 1..n /\ m <= i /\ ts[m] >= x
      BY <2>2
    <3>3. QED
      BY <1>1, <3>2
  <2>6. QED
    BY <2>3, <2>4, <2>5
<1>4. PICK right \in 0..n : right = BisectRight(ts, x) /\ \A i \in 1..right : ts[i] <= x
  <2>1. BisectRight(ts, x) = CHOOSE k \in 0..n : (\A i \in 1..k : ts[i] <= x) /\ (\A i \in (k + 1)..n : ts[i] > x)
    BY <1>1 DEF BisectRight
  <2>2. QED
    BY <1>2, <2>1
<1>5. PICK left \in 0..n : left = BisectLeft(ts, x) /\ \A i \in (left + 1)..n : ts[i] >= x
  <2>1. BisectLeft(ts, x) = CHOOSE k \in 0..n : (\A i \in 1..k : ts[i] < x) /\ (\A i \in (k + 1)..n : ts[i] >= x)
    BY <1>1 DEF BisectLeft
  <2>2. QED
    BY <1>3, <2>1
<1>6. \A k \in 1..n : ts[k] > x => k > right
  BY <1>1, <1>4
<1>7. \A k \in 1..n : ts[k] < x => k <= left
  BY <1>1, <1>5
<1>8. QED
  BY <1>4, <1>5, <1>6, <1>7

----------------------------------------------------------------------------
(* The candidates of a query *)

\* The entries of an index of rows: those that have a timestamp.
EntriesOf(rows) == {<<p[2], p[1] - 1>> : p \in Stamped([i \in DOMAIN rows |-> RawTsOf(rows[i])])}

LEMMA EntriesAre ==
  ASSUME NEW n \in Nat, NEW rows, DOMAIN rows = 1..n, Dated(rows)
  PROVE  /\ EntriesOf(rows) \in SUBSET Entries /\ IsFiniteSet(EntriesOf(rows))
         /\ \A i \in 1..n : \A t : ParseTs(RawTsOf(rows[i])) = {t} => <<t, i - 1>> \in EntriesOf(rows)
<1> DEFINE raws == [i \in DOMAIN rows |-> RawTsOf(rows[i])]
<1>1. DOMAIN raws = 1..n /\ \A i \in 1..n : raws[i] = RawTsOf(rows[i]) /\ raws[i] \in RawTs
  BY DEF Dated
<1>2. EntriesOf(rows) = {<<p[2], p[1] - 1>> : p \in Stamped(raws)}
  BY DEF EntriesOf
<1> HIDE DEF raws
<1>3. \A p : p \in Stamped(raws) <=> \E i \in 1..n : \E t \in ParseTs(raws[i]) : p = <<i, t>>
  BY <1>1 DEF Stamped
<1>4. \A e : e \in EntriesOf(rows) <=> \E i \in 1..n : \E t \in ParseTs(raws[i]) : e = <<t, i - 1>>
  <2>1. ASSUME NEW e, e \in EntriesOf(rows)
        PROVE  \E i \in 1..n : \E t \in ParseTs(raws[i]) : e = <<t, i - 1>>
    <3>1. PICK p \in Stamped(raws) : e = <<p[2], p[1] - 1>>
      BY <1>2, <2>1
    <3>2. PICK i \in 1..n : \E t \in ParseTs(raws[i]) : p = <<i, t>>
      BY <1>3
    <3>3. PICK t \in ParseTs(raws[i]) : p = <<i, t>>
      BY <3>2
    <3>4. p[1] = i /\ p[2] = t
      BY <3>3
    <3>5. QED
      BY <3>1, <3>4
  <2>2. ASSUME NEW e, NEW i \in 1..n, NEW t, t \in ParseTs(raws[i]), e = <<t, i - 1>>
        PROVE  e \in EntriesOf(rows)
    <3>1. PICK p : p = <<i, t>>
      OBVIOUS
    <3>2. p \in Stamped(raws)
      BY <1>3, <2>2, <3>1, Zenon
    <3>3. p[1] = i /\ p[2] = t
      BY <3>1
    <3>4. QED
      BY <1>2, <2>2, <3>2, <3>3
  <2>3. QED
    BY <2>1, <2>2
<1>5. \A i \in 1..n : \A t \in ParseTs(raws[i]) : t \in Int /\ \A u \in ParseTs(raws[i]) : u = t
  BY <1>1, ParsedIs
<1>6. EntriesOf(rows) \in SUBSET Entries
  BY <1>4, <1>5 DEF Entries
<1>7. IsFiniteSet(EntriesOf(rows))
  <2> DEFINE I == {i \in 1..n : ParseTs(raws[i]) # {}}
             f == [i \in I |-> <<CHOOSE t \in ParseTs(raws[i]) : TRUE, i - 1>>]
  <2>1. IsFiniteSet(I)
    <3>1. IsFiniteSet(1..n) /\ I \subseteq 1..n
      BY FS_Interval
    <3>2. QED
      BY <3>1, FS_Subset
  <2>2. \A i \in I : f[i] \in EntriesOf(rows)
    BY <1>4
  <2>3. \A e \in EntriesOf(rows) : \E i \in I : f[i] = e
    BY <1>4, <1>5
  <2> HIDE DEF I
  <2>4. f \in Surjection(I, EntriesOf(rows))
    <3>1. f \in [I -> EntriesOf(rows)]
      BY <2>2
    <3> HIDE DEF f
    <3>2. QED
      BY <2>3, <3>1 DEF Surjection
  <2> HIDE DEF f
  <2>5. QED
    BY <2>1, <2>4, FS_Surjection
<1>8. \A i \in 1..n : \A t : ParseTs(RawTsOf(rows[i])) = {t} => <<t, i - 1>> \in EntriesOf(rows)
  BY <1>1, <1>4
<1>9. QED
  BY <1>6, <1>7, <1>8

\* What a range lookup in an index gives has a position.
Finds(index, f, now, ref) ==
  ref \in RangeLookup(index, f, now) /\ ref \in {index.refs[j] : j \in DOMAIN index.refs}

(* range_lookup, with its two bisections of the sorted timestamps, finds the
   position of every row that the filter itself would pass: the index never
   hides a row, wherever the bound lies and however many rows share a time. *)
THEOREM LookupFinds ==
  ASSUME NEW n \in Nat, NEW rows, DOMAIN rows = 1..n, Dated(rows), NEW now \in Int,
         NEW f, Comparable(f), IsSupported(f), NEW i \in 1..n, Matches(rows[i], f, now)
  PROVE  Finds(BuildIndex([j \in DOMAIN rows |-> RawTsOf(rows[j])]), f, now, i - 1)
<1>1. PICK index : index = BuildIndex([j \in DOMAIN rows |-> RawTsOf(rows[j])])
  OBVIOUS
<1>2. index = SortedIndex(EntriesOf(rows))
  BY <1>1, Zenon DEF BuildIndex, EntriesOf
<1>3. PICK m \in Nat :
        /\ Sorted(index.ts, m) /\ DOMAIN index.refs = 1..m
        /\ \A x \in EntriesOf(rows) : \E k \in 1..m : index.ts[k] = x[1] /\ index.refs[k] = x[2]
  <2>1. PICK m \in Nat : Indexes(index, EntriesOf(rows), m)
    BY <1>2, EntriesAre, SortedIndexIs
  <2>2. QED
    BY <2>1 DEF Indexes
<1>4. PICK ts, refs : ts = index.ts /\ refs = index.refs
  OBVIOUS
<1>5. MatchesTime(rows[i], f, now)
  BY DEF Matches, IsSupported
<1>6. PICK t \in Int : ParseTs(RawTsOf(rows[i])) = {t}
  <2>1. ParseTs(RawTsOf(rows[i])) # {}
    BY <1>5 DEF MatchesTime
  <2>2. QED
    BY <2>1, ParsedIs DEF Dated
<1>7. /\ f.op = ">" => \E x \in ParseTs(f.at) : t > x
      /\ f.op = "<" => \E x \in ParseTs(f.at) : t < x
      /\ f.op = "in_window" => t > now - LastHour
  BY <1>5, <1>6 DEF MatchesTime
<1>8. PICK k \in 1..m : ts[k] = t /\ refs[k] = i - 1
  <2>1. <<t, i - 1>> \in EntriesOf(rows)
    BY <1>6, EntriesAre
  <2>2. QED
    BY <1>3, <1>4, <2>1
<1>9. i - 1 \in {refs[j] : j \in DOMAIN refs}
  BY <1>3, <1>4, <1>8
<1>10. Sorted(ts, m) /\ Len(ts) = m
  <2>1. Sorted(ts, m)
    BY <1>3, <1>4
  <2>2. QED
    BY <2>1 DEF Sorted
<1>11. f.op \in {">", "<", "in_window"}
  BY DEF IsSupported
<1>12. i - 1 \in RangeLookup(index, f, now)
  <2>1. CASE f.op = ">"
    <3>1. PICK x \in Int : ParseTs(f.at) = {x} /\ t > x
      BY <1>7, <2>1 DEF Comparable, IsSupported
    <3>2. BisectRight(ts, x) \in 0..m /\ k > BisectRight(ts, x)
      BY <1>8, <1>10, <3>1, BisectIs
    <3>3. k \in (BisectRight(ts, x) + 1)..m
      BY <3>2
    <3>4. i - 1 \in Slice(index, {x}, {})
      BY <1>4, <1>8, <1>10, <3>3 DEF Slice
    <3>5. QED
      BY <2>1, <3>1, <3>4, Zenon DEF RangeLookup
  <2>2. CASE f.op = "<"
    <3>1. PICK x \in Int : ParseTs(f.at) = {x} /\ t < x
      BY <1>7, <2>2 DEF Comparable, IsSupported
    <3>2. BisectLeft(ts, x) \in 0..m /\ k <= BisectLeft(ts, x)
      BY <1>8, <1>10, <3>1, BisectIs
    <3>3. k \in (0 + 1)..BisectLeft(ts, x)
      BY <3>2
    <3>4. i - 1 \in Slice(index, {}, {x})
      BY <1>4, <1>8, <1>10, <3>3 DEF Slice
    <3>5. QED
      BY <2>2, <3>1, <3>4 DEF RangeLookup
  <2>3. CASE f.op = "in_window"
    <3>1. PICK x \in Int : x = now - LastHour
      BY TsIndexAssumption
    <3>2. BisectRight(ts, x) \in 0..m /\ k > BisectRight(ts, x)
      BY <1>7, <1>8, <1>10, <2>3, <3>1, BisectIs
    <3>3. k \in (BisectRight(ts, x) + 1)..m
      BY <3>2
    <3>4. i - 1 \in Slice(index, {x}, {})
      BY <1>4, <1>8, <1>10, <3>3 DEF Slice
    <3>5. QED
      BY <2>3, <3>1, <3>4 DEF RangeLookup
  <2>4. QED
    BY <1>11, <2>1, <2>2, <2>3
<1>13. QED
  BY <1>1, <1>4, <1>9, <1>12, Zenon DEF Finds

\* The candidates are those at some positions, and the rows that pass all
\* filters are among them.
LEMMA CandidatesAre ==
  ASSUME NEW n \in Nat, NEW rows, DOMAIN rows = 1..n, Dated(rows), NEW now \in Int,
         NEW filters, \A f \in filters : Comparable(f), \E f \in filters : IsSupported(f)
  PROVE  \E positions \in SUBSET (1..n) :
           /\ Candidates(rows, filters, now) = Sublist(rows, positions)
           /\ \A i \in 1..n : (\A f \in filters : Matches(rows[i], f, now)) => i \in positions
<1>1. PICK index : index = BuildIndex([j \in DOMAIN rows |-> RawTsOf(rows[j])])
  OBVIOUS
<1>2. PICK refs : refs = RefsForFilters(index, filters, now)
  OBVIOUS
<1>3. PICK positions : positions = {i \in DOMAIN rows : i - 1 \in refs}
  OBVIOUS
<1>4. Candidates(rows, filters, now) = Sublist(rows, positions)
  BY <1>1, <1>2, <1>3, Zenon DEF Candidates
<1>5. ASSUME NEW i \in 1..n, \A f \in filters : Matches(rows[i], f, now)
      PROVE  i \in positions
  <2>1. \A f \in filters : IsSupported(f) => Finds(index, f, now, i - 1)
    BY <1>1, <1>5, LookupFinds, Zenon
  <2>2. \A f \in filters : IsSupported(f) => i - 1 \in RangeLookup(index, f, now)
    BY <2>1, Zenon DEF Finds
  <2>3. i - 1 \in {index.refs[j] : j \in DOMAIN index.refs}
    BY <2>1, Zenon DEF Finds
  <2>3a. i - 1 \in refs
    BY <1>2, <2>2, <2>3, Zenon DEF RefsForFilters
  <2>4. QED
    BY <1>3, <2>3a
<1>6. positions \in SUBSET (1..n)
  BY <1>3
<1>7. QED
  BY <1>4, <1>5, <1>6

----------------------------------------------------------------------------
(* What a query asks for *)

\* Two sequences, one after the other.
Joined(c, S, a, b) ==
  /\ c \in Seq(S) /\ Len(c) = Len(a) + Len(b)
  /\ \A i \in 1..(Len(a) + Len(b)) : c[i] = IF i <= Len(a) THEN a[i] ELSE b[i - Len(a)]

LEMMA JoinIs ==
  ASSUME NEW S, NEW a \in Seq(S), NEW b \in Seq(S)
  PROVE  Joined(a \o b, S, a, b)
BY ConcatProperties, Zenon DEF Joined

\* The pair after the first seven.
Eighth(all, y) == 8 \in DOMAIN all /\ all[8] = y

LEMMA EighthOf ==
  ASSUME NEW x1, NEW x2, NEW x3, NEW x4, NEW x5, NEW x6, NEW x7, NEW y, NEW u, NEW v
  PROVE  Eighth(<<x1, x2, x3, x4, x5, x6, x7>> \o << y >> \o << u, v >>, y)
<1>1. PICK S : S = {x1, x2, x3, x4, x5, x6, x7, y, u, v}
  OBVIOUS
<1>2. PICK a, b, c : a = <<x1, x2, x3, x4, x5, x6, x7>> /\ b = << y >> /\ c = << u, v >>
  OBVIOUS
<1>3. a \in Seq(S) /\ b \in Seq(S) /\ c \in Seq(S)
  BY <1>1, <1>2
<1>3a. Len(a) = 7 /\ Len(b) = 1 /\ Len(c) = 2 /\ b[1] = y
  BY <1>2
<1>4. PICK d : d = a \o b /\ Joined(d, S, a, b)
  BY <1>3, JoinIs, Zenon
<1>5. d \in Seq(S) /\ Len(d) = 8 /\ \A i \in 1..8 : d[i] = IF i <= 7 THEN a[i] ELSE b[i - 7]
  BY <1>3a, <1>4 DEF Joined
<1>5a. d[8] = y
  BY <1>3a, <1>5
<1>6. PICK e : e = d \o c /\ Joined(e, S, d, c)
  BY <1>3, <1>5, JoinIs, Zenon
<1>6a. e \in Seq(S) /\ Len(e) = 10 /\ \A i \in 1..10 : e[i] = IF i <= 8 THEN d[i] ELSE c[i - 8]
  BY <1>3a, <1>5, <1>6 DEF Joined
<1>7. 8 \in DOMAIN e /\ e[8] = y
  BY <1>5a, <1>6a
<1>8. QED
  BY <1>2, <1>4, <1>6, <1>7, Zenon DEF Eighth

\* A text with a filter of no known form is not accepted.
LEMMA FilterIsKnown ==
  ASSUME NEW q, Accepted(q), q.clause = "filter"
  PROVE  q.filter.is # "other"
<1> SUFFICES ASSUME q.filter.is = "other"
             PROVE  FALSE
  OBVIOUS
<1>1. FilterFaults(q.filter) = << <<TRUE, {"timestamp"}>> >>
  BY DEF FilterFaults
<1>2. Eighth(Faults(q), <<TRUE, {"timestamp"}>>)
  <2>1. \E x1, x2, x3, x4, x5, x6, x7, u, v :
          Faults(q) = <<x1, x2, x3, x4, x5, x6, x7>> \o FilterFaults(q.filter) \o << u, v >>
    <3>1a. PICK x1 : x1 = <<q.blank, {}>>
      BY Zenon
    <3>1b. PICK x2 : x2 = <<q.unsafe, {"unsafe token rejected"}>>
      BY Zenon
    <3>1c. PICK x3 : x3 = <<q.form = "select", {"select syntax not enabled"}>>
      BY Zenon
    <3>1d. PICK x4 : x4 = <<q.form # "from", {"unsupported bql syntax"}>>
      BY Zenon
    <3>1e. PICK x5 : x5 = <<q.radius \notin 1..MaxRadius, {"radius out of bounds"}>>
      BY Zenon
    <3>1f. PICK x6 : x6 = <<q.direction \notin Directions, {}>>
      BY Zenon
    <3>1g. PICK x7 : x7 = <<q.clause = "none", {}>>
      BY Zenon
    <3>1h. PICK u : u = <<q.top # NoTop /\ q.top \notin 1..MaxTop, {"top out of bounds"}>>
      BY Zenon
    <3>1i. PICK v : v = <<q.fields = << >>, {}>>
      BY Zenon
    <3>2. (IF q.clause = "filter" THEN FilterFaults(q.filter) ELSE << >>) = FilterFaults(q.filter)
      OBVIOUS
    <3>3. Faults(q) = <<x1, x2, x3, x4, x5, x6, x7>> \o FilterFaults(q.filter) \o << u, v >>
      BY <3>1a, <3>1b, <3>1c, <3>1d, <3>1e, <3>1f, <3>1g, <3>1h, <3>1i, <3>2, Zenon DEF Faults
    <3>4. QED
      BY <3>3, Zenon
  <2>2. QED
    BY <1>1, <2>1, EighthOf, Zenon
<1>3. ~Faults(q)[8][1]
  BY <1>2, Zenon DEF Eighth, Accepted
<1>4. Faults(q)[8][1] = TRUE
  BY <1>2 DEF Eighth
<1>5. QED
  BY <1>3, <1>4

Texts == {Queries[text] : text \in DOMAIN Queries}

\* The limit is a number, and the filters compare with a number.
Plain(ast) == ast.top \in Int /\ \A f \in ast.filters : Comparable(f)

LEMMA AstIs ==
  ASSUME NEW q \in Texts, Accepted(q)
  PROVE  Plain(Ast(q))
<1>1. q.top \in Int /\ q.filter.is \in {"compare", "in", "equal", "other"} /\ (q.filter.is = "compare" => q.filter.arg \in RawTs)
  BY QueriesAssumption DEF Texts
<1>2. Ast(q).top \in Int
  BY <1>1 DEF Ast
<1>3. ASSUME NEW f \in Ast(q).filters
      PROVE  Comparable(f)
  <2>1. q.clause = "filter" /\ f = ParsedFilter(q.filter)
    BY <1>3 DEF Ast
  <2>2. q.filter.is # "other"
    BY <2>1, FilterIsKnown
  <2>3. CASE q.filter.is = "compare"
    <3>1. f = [field |-> "ts", op |-> q.filter.op, at |-> [is |-> "int", v |-> q.filter.arg.v]]
      BY <2>1, <2>3 DEF ParsedFilter
    <3>2. q.filter.arg.v \in Int
      BY <1>1, <2>3 DEF RawTs
    <3>3. ParseTs(f.at) = {q.filter.arg.v}
      BY <3>1 DEF ParseTs
    <3>4. QED
      BY <3>2, <3>3 DEF Comparable
  <2>4. CASE q.filter.is = "in"
    <3>1. f.op = "in_window"
      BY <2>1, <2>4 DEF ParsedFilter
    <3>2. QED
      BY <3>1 DEF Comparable
  <2>5. CASE q.filter.is = "equal"
    <3>1. f.op = "="
      BY <2>1, <2>5 DEF ParsedFilter
    <3>2. QED
      BY <3>1 DEF Comparable
  <2>6. QED
    BY <1>1, <2>2, <2>3, <2>4, <2>5
<1>4. QED
  BY <1>2, <1>3 DEF Plain

LEMMA LimitIs ==
  ASSUME NEW ast, ast.top \in Int, NEW max \in Int
  PROVE  LimitOf(ast, max) \in 1..MaxTop
<1> DEFINE wanted == IF ast.top # NoTop THEN ast.top ELSE IF max # 0 THEN max ELSE MaxTop
           given == IF max # 0 THEN max ELSE wanted
           least == Min({wanted, given, MaxTop})
<1>1. wanted \in Int /\ given \in Int /\ MaxTop \in Int /\ MaxTop >= 1
  BY BqlParserAssumption
<1>2. LimitOf(ast, max) = Max({1, least})
  BY DEF LimitOf
<1> HIDE DEF wanted, given
<1>3. least \in Int /\ least <= MaxTop
  <2>1. \E m \in {wanted, given, MaxTop} : \A n \in {wanted, given, MaxTop} : m <= n
    BY <1>1
  <2>2. least \in {wanted, given, MaxTop} /\ \A n \in {wanted, given, MaxTop} : least <= n
    BY <2>1 DEF Min
  <2>3. QED
    BY <1>1, <2>2
<1> HIDE DEF least
<1>4. Max({1, least}) = IF 1 <= least THEN least ELSE 1
  BY <1>3, MaxOfTwo
<1>5. QED
  BY <1>1, <1>2, <1>3, <1>4

LEMMA ProjectIs ==
  ASSUME NEW rows, Len(rows) \in Nat, NEW fields, NEW limit \in 1..MaxTop
  PROVE  /\ Len(Project(rows, fields, limit)) \in Nat /\ Len(Project(rows, fields, limit)) <= MaxTop
         /\ Len(rows) > 0 => Len(Project(rows, fields, limit)) > 0
<1>1. limit \in Int /\ limit >= 1 /\ limit <= MaxTop /\ MaxTop \in Nat
  BY BqlParserAssumption
<1>2. PICK m : m = Min({Len(rows), limit})
  OBVIOUS
<1>3. m = IF Len(rows) <= limit THEN Len(rows) ELSE limit
  BY <1>1, <1>2, MinOfTwo
<1>4. m \in Nat /\ m <= MaxTop /\ (Len(rows) > 0 => m > 0)
  BY <1>1, <1>3
<1>5. Len(Project(rows, fields, limit)) = m
  BY <1>2, <1>4 DEF Project
<1>6. QED
  BY <1>4, <1>5

----------------------------------------------------------------------------
(* Records, and the rows of them *)

\* The records that a file may ever have.
Recs == {line.rec : line \in {l \in LinesThere : l.is = "record"}}

LEMMA RecsAreDated == \A rec \in Recs : RawTsOf(rec) \in RawTs
BY MemoriesAssumption DEF Recs

LEMMA RecordsOfIs ==
  ASSUME NEW file \in File
  PROVE  RecordsOf(file) \in Seq(Recs)
<1> DEFINE P == {i \in DOMAIN file.lines : file.lines[i].is = "record"}
           good == Sublist(file.lines, P)
<1>1. PICK lines \in Seq(LinesThere) : lines = file.lines
  BY DEF File
<1> HIDE DEF P
<1>2. good \in Seq(LinesThere) /\ \A k \in 1..Len(good) : \E i \in P : i \in 1..Len(lines) /\ good[k] = lines[i]
  BY <1>1, SublistHas
<1>3. \A k \in 1..Len(good) : good[k] \in LinesThere /\ good[k].is = "record"
  BY <1>1, <1>2 DEF P
<1>4. RecordsOf(file) = IF file.kind = "json" /\ Len(good) < Len(file.lines) THEN << >>
                        ELSE [i \in DOMAIN good |-> good[i].rec]
  BY DEF RecordsOf, P
<1> HIDE DEF good
<1>5. \A k \in 1..Len(good) : good[k].rec \in Recs
  BY <1>3 DEF Recs
<1>6. Len(good) \in Nat /\ DOMAIN good = 1..Len(good)
  BY <1>2
<1>7. [i \in DOMAIN good |-> good[i].rec] \in Seq(Recs)
  BY <1>5, <1>6
<1>8. QED
  BY <1>4, <1>7

LEMMA ExpandIs ==
  ASSUME NEW records \in Seq(Recs), NEW ast
  PROVE  Sequence(Expand(records, ast)) /\ Dated(Expand(records, ast))
<1> DEFINE pairs == [i \in DOMAIN records |-> <<i - 1, records[i]>>]
           hits == Sublist(pairs, {i \in DOMAIN records : MatchesSource(records[i], ast)})
           id(hit) == IF "id" \in DOMAIN hit[2] THEN hit[2].id ELSE ToString(hit[1])
           row(n) == WithDefaults(hits[n][2], [record_id |-> id(hits[n]), depth |-> "0", rank |-> ToString(n)])
<1>1. pairs \in Seq(Int \X Recs)
  OBVIOUS
<1>2. hits \in Seq(Int \X Recs)
  BY <1>1, SublistHas
<1>3. Expand(records, ast) = [n \in DOMAIN hits |-> row(n)]
  BY DEF Expand
<1> HIDE DEF hits
<1>4. Len(hits) \in Nat /\ DOMAIN hits = 1..Len(hits) /\ \A n \in 1..Len(hits) : hits[n][2] \in Recs
  BY <1>2
<1>5. \A n \in 1..Len(hits) : RawTsOf(row(n)) \in RawTs
  BY <1>4, DefaultsAre, RecsAreDated
<1> HIDE DEF row
<1>6. PICK rows : rows = [n \in 1..Len(hits) |-> row(n)]
  OBVIOUS
<1>7. Len(rows) = Len(hits) /\ DOMAIN rows = 1..Len(hits) /\ rows \in [1..Len(hits) -> {rows[i] : i \in DOMAIN rows}]
  BY <1>4, <1>6
<1>8. Sequence(rows)
  BY <1>4, <1>7 DEF Sequence
<1>9. Dated(rows)
  BY <1>5, <1>6 DEF Dated
<1>10. QED
  BY <1>3, <1>4, <1>6, <1>8, <1>9

----------------------------------------------------------------------------
(* The files that a query loads *)

\* Lists of one length, at the same positions, have as many elements.
LEMMA AsMany ==
  ASSUME NEW S, NEW list \in Seq(S), NEW other \in Seq(S), Len(other) = Len(list), NEW positions
  PROVE  Len(Sublist(other, positions)) = Len(Sublist(list, positions))
<1> DEFINE R == S \X S
<1>1. \A i \in 1..Len(list) : i \in positions => <<list[i], other[i]>> \in R
  OBVIOUS
<1> HIDE DEF R
<1>2. /\ Len(Sublist(other, positions)) = Len(Sublist(list, positions))
      /\ \A k \in 1..Len(Sublist(list, positions)) :
           <<Sublist(list, positions)[k], Sublist(other, positions)[k]>> \in R
  BY <1>1, SublistsCorrespond, Zenon
<1>3. QED
  BY <1>2

\* What the roots hold.
Held == [Roots -> [exists : BOOLEAN, files : Seq(File)]]

LEMMA LoadableIs ==
  ASSUME memory \in Held, NEW root \in Roots
  PROVE  Loadable(root) \in Seq(File)
<1>1. PICK files \in Seq(File) : files = memory[root].files
  BY DEF Held
<1>2. Sublist(files, {i \in DOMAIN files : ~files[i].tsindex}) \in Seq(File)
  BY SublistHas
<1>3. QED
  BY <1>1, <1>2 DEF Loadable

\* The files of a root do not get fewer.
LEMMA MemoryGrows ==
  ASSUME memory \in Held, ExecEnvironment
  PROVE  memory' \in Held /\ \A root \in Roots : Len(Loadable(root)) <= Len(Loadable(root)')
<1>1. ASSUME NEW root \in Roots, memory'[root] = memory[root]
      PROVE  Len(Loadable(root)) <= Len(Loadable(root)')
  <2>1. Loadable(root)' = Loadable(root)
    BY <1>1 DEF Loadable
  <2>2. Len(Loadable(root)) \in Nat
    BY LoadableIs
  <2>3. QED
    BY <2>1, <2>2
<1>2. CASE Tick
  <2>1. memory' = memory
    BY <1>2 DEF Tick
  <2>2. QED
    BY <1>1, <2>1
<1>3. ASSUME NEW root \in Roots, CreateRoot(root)
      PROVE  memory' \in Held /\ \A r \in Roots : Len(Loadable(r)) <= Len(Loadable(r)')
  <2>1. ~memory[root].exists /\ memory' = [memory EXCEPT ![root].exists = TRUE]
    BY <1>3 DEF CreateRoot
  <2>2. memory' \in Held
    BY <2>1 DEF Held
  <2>3. Loadable(root) = << >> /\ Loadable(root)' \in Seq(File)
    <3>1. Loadable(root)' \in Seq(File)
      <4>1. PICK files \in Seq(File) : files = memory'[root].files
        BY <2>2 DEF Held
      <4>2. Sublist(files, {i \in DOMAIN files : ~files[i].tsindex}) \in Seq(File)
        BY SublistHas
      <4>3. QED
        BY <4>1, <4>2 DEF Loadable
    <3>2. QED
      BY <2>1, <3>1 DEF Loadable
  <2>4. Len(Loadable(root)) <= Len(Loadable(root)')
    BY <2>3
  <2>5. \A r \in Roots : r # root => memory'[r] = memory[r]
    BY <2>1 DEF Held
  <2>6. QED
    BY <1>1, <2>2, <2>4, <2>5
<1>4. ASSUME NEW root \in Roots, NEW i \in DOMAIN memory[root].files, NEW line \in Lines, AppendLine(root, i, line)
      PROVE  memory' \in Held /\ \A r \in Roots : Len(Loadable(r)) <= Len(Loadable(r)')
  <2>1. memory[root].exists /\ memory' = [memory EXCEPT ![root].files[i].lines = Append(@, line)]
    BY <1>4 DEF AppendLine
  <2>2. PICK files \in Seq(File) : files = memory[root].files
    BY DEF Held
  <2>3. PICK more : more = [files EXCEPT ![i].lines = Append(@, line)]
    OBVIOUS
  <2>4. files[i] \in File /\ i \in 1..Len(files) /\ Len(files) \in Nat
    BY <2>2
  <2>5. Append(files[i].lines, line) \in Seq(LinesThere)
    BY <2>4 DEF File, LinesThere
  <2>6. [files[i] EXCEPT !.lines = Append(@, line)] \in File
    BY <2>4, <2>5 DEF File
  <2>7. more \in Seq(File) /\ Len(more) = Len(files) /\ DOMAIN more = DOMAIN files
    BY <2>3, <2>4, <2>6
  <2>8. \A j \in DOMAIN files : more[j].tsindex = files[j].tsindex
    BY <2>3, <2>4 DEF File
  <2>9. memory' = [memory EXCEPT ![root].files = more]
    BY <2>1, <2>2, <2>3 DEF Held
  <2>10. memory' \in Held /\ memory'[root].files = more /\ memory'[root].exists
    <3>1. PICK held \in [exists : BOOLEAN, files : Seq(File)] : held = memory[root]
      BY DEF Held
    <3>2. PICK next \in [exists : BOOLEAN, files : Seq(File)] : next = [held EXCEPT !.files = more]
      BY <2>7
    <3>3. next.files = more /\ next.exists = held.exists
      BY <3>2
    <3>4. memory' = [memory EXCEPT ![root] = next]
      BY <2>9, <3>1, <3>2
    <3>5. memory' \in Held /\ memory'[root] = next
      BY <3>4 DEF Held
    <3>6. QED
      BY <2>1, <3>1, <3>3, <3>5
  <2>11. PICK positions : positions = {j \in DOMAIN files : ~files[j].tsindex}
    OBVIOUS
  <2>12. {j \in DOMAIN more : ~more[j].tsindex} = positions
    BY <2>7, <2>8, <2>11
  <2>13. Len(Sublist(more, positions)) = Len(Sublist(files, positions))
    BY <2>7, AsMany
  <2>14. Loadable(root) = Sublist(files, positions)
    BY <2>1, <2>2, <2>11 DEF Loadable
  <2>15. Loadable(root)' = Sublist(more, positions)
    BY <2>10, <2>12 DEF Loadable
  <2>16. Len(Loadable(root)) <= Len(Loadable(root)')
    <3>1. Len(Loadable(root)) \in Nat
      BY LoadableIs
    <3>2. QED
      BY <2>13, <2>14, <2>15, <3>1
  <2>17. \A r \in Roots : r # root => memory'[r] = memory[r]
    BY <2>9 DEF Held
  <2>18. QED
    BY <1>1, <2>10, <2>16, <2>17
<1>5. QED
  BY <1>2, <1>3, <1>4 DEF ExecEnvironment

----------------------------------------------------------------------------
(* What a call of execute keeps: the invariant *)

Passes(row, filters, now) == \A f \in filters : Matches(row, f, now)

\* A filter has passed the rows at some positions, and is to look at those at
\* later ones; a row at any other position does not pass any more.
Selects(run, kept, left, now) ==
  /\ kept \subseteq 1..Len(run.rows) /\ left \subseteq 1..Len(run.rows)
  /\ run.passed = Sublist(run.rows, kept)
  /\ \A i \in kept : \A j \in left : i < j
  /\ \A i \in kept : Passes(run.rows[i], run.ast.filters, run.since)
  /\ \A i \in 1..Len(run.rows) :
       Passes(run.rows[i], run.ast.filters, now) => i \in kept \/ i \in left

Looks(run, now) ==
  \E kept, left : Selects(run, kept, left, now) /\ run.todo = Sublist(run.rows, left)

Looked(run, now) == \E kept : Selects(run, kept, {}, now)

RunInv(run, now) ==
  /\ run.at = "parse" => run.query \in Texts
  /\ run.at \in {"parse", "load", "read"} => run.root \in Roots
  /\ run.at \in {"parse", "load", "read", "lookup", "filter", "done"} => run.max \in Int
  /\ run.at \in {"load", "read", "lookup", "filter", "done"} => Plain(run.ast)
  /\ run.at = "read" =>
       {"file", "records"} \subseteq DOMAIN run /\ run.file \in Nat \ {0} /\ run.files \in Nat /\ run.records \in Seq(Recs)
  /\ run.at \in {"lookup", "filter", "done"} => Sequence(run.rows) /\ Dated(run.rows)
  /\ run.at = "lookup" => Candidate(run.ast)
  /\ run.at \in {"filter", "done"} => run.since \in Int /\ run.since <= now
  /\ run.at = "filter" => {"todo", "passed"} \subseteq DOMAIN run /\ Looks(run, now)
  /\ run.at = "done" =>
       Looked(run, now) /\ run.results = Project(run.passed, run.ast.fields, LimitOf(run.ast, run.max))

\* The files that were listed are there.
LoadInv(run) == run.at = "read" => run.files <= Len(Loadable(run.root))

QueryInv ==
  /\ memory \in Held /\ clock \in Int /\ DOMAIN job = Actors
  /\ \A a \in Actors : RunInv(job[a], clock) /\ LoadInv(job[a])

\* Positions in rows.
LEMMA RowsAre ==
  ASSUME NEW rows, Sequence(rows), Dated(rows)
  PROVE  /\ Len(rows) \in Nat /\ DOMAIN rows = 1..Len(rows)
         /\ \A i \in 1..Len(rows) : RawTsOf(rows[i]) \in RawTs
<1>1. Len(rows) \in Nat /\ DOMAIN rows = 1..Len(rows)
  BY DEF Sequence
<1>2. QED
  BY <1>1 DEF Dated

----------------------------------------------------------------------------
(* Time passes *)

LEMMA SelectsLater ==
  ASSUME NEW run, Sequence(run.rows), Dated(run.rows), NEW kept, NEW left,
         NEW now \in Int, NEW later \in Int, now <= later, Selects(run, kept, left, now)
  PROVE  Selects(run, kept, left, later)
<1>1. ASSUME NEW i \in 1..Len(run.rows), Passes(run.rows[i], run.ast.filters, later)
      PROVE  Passes(run.rows[i], run.ast.filters, now)
  <2>1. RawTsOf(run.rows[i]) \in RawTs
    BY RowsAre
  <2>2. QED
    BY <1>1, <2>1, PassesBefore, Zenon DEF Passes
<1>2. QED
  BY <1>1, Zenon DEF Selects

LEMMA RunLater ==
  ASSUME NEW run, NEW now \in Int, NEW later \in Int, now <= later, RunInv(run, now)
  PROVE  RunInv(run, later)
<1>1. run.at = "filter" => Looks(run, later)
  BY SelectsLater, Zenon DEF RunInv, Looks
<1>2. run.at = "done" => Looked(run, later)
  BY SelectsLater, Zenon DEF RunInv, Looked
<1>3. run.at \in {"filter", "done"} => run.since \in Int /\ run.since <= later
  BY DEF RunInv
<1>4. QED
  BY <1>1, <1>2, <1>3, Zenon DEF RunInv

----------------------------------------------------------------------------
(* The filter *)

LEMMA NoRowsOf ==
  ASSUME NEW S, NEW rows \in Seq(S)
  PROVE  Sublist(rows, {}) = << >>
<1>1. PICK part : part = Sublist(rows, {})
  OBVIOUS
<1>2. part \in Seq(S) /\ \A k \in 1..Len(part) : \E i \in {} : i \in 1..Len(rows) /\ part[k] = rows[i]
  BY <1>1, SublistHas
<1>3. Len(part) = 0
  <2>1. Len(part) \in Nat /\ 1 \notin 1..Len(part)
    BY <1>2
  <2>2. QED
    BY <2>1
<1>4. QED
  BY <1>1, <1>2, <1>3

\* It begins with rows of which those that pass are all.
LEMMA FilterBegins ==
  ASSUME NEW call, NEW rows, Sequence(rows), Dated(rows), NEW todo, NEW indexed, clock \in Int,
         call.max \in Int, Plain(call.ast),
         NEW left, left \subseteq 1..Len(rows), todo = Sublist(rows, left),
         \A i \in 1..Len(rows) : Passes(rows[i], call.ast.filters, clock) => i \in left
  PROVE  RunInv(Filtering(call, rows, todo, indexed), clock)
<1>1. PICK run : run = Filtering(call, rows, todo, indexed)
  OBVIOUS
<1>2. /\ run.at = "filter" /\ run.ast = call.ast /\ run.max = call.max /\ run.rows = rows
      /\ run.todo = todo /\ run.passed = << >> /\ run.since = clock
      /\ {"todo", "passed"} \subseteq DOMAIN run
  BY <1>1 DEF Filtering
<1>3. Sublist(rows, {}) = << >>
  BY NoRowsOf DEF Sequence
<1>4. Selects(run, {}, left, clock)
  BY <1>2, <1>3 DEF Selects
<1>5. Looks(run, clock)
  BY <1>2, <1>4, Zenon DEF Looks
<1>6. RunInv(run, clock)
  BY <1>2, <1>5 DEF RunInv
<1>7. QED
  BY <1>1, <1>6

\* All rows are at all positions.
LEMMA AllRows ==
  ASSUME NEW rows, Sequence(rows)
  PROVE  rows = Sublist(rows, 1..Len(rows))
BY SublistAll DEF Sequence

\* The next row is the first of those to look at.
LEMMA RowFiltered ==
  ASSUME NEW run, RunInv(run, clock), clock \in Int, run.at = "filter", run.todo # << >>,
         NEW todo, todo = Tail(run.todo),
         NEW passed, passed = IF Passes(Head(run.todo), run.ast.filters, clock)
                              THEN Append(run.passed, Head(run.todo)) ELSE run.passed,
         NEW next, next = [run EXCEPT !.todo = todo, !.passed = passed]
  PROVE  RunInv(next, clock)
<1> DEFINE passes == Passes(Head(run.todo), run.ast.filters, clock)
<1>1. /\ Sequence(run.rows) /\ Dated(run.rows) /\ Looks(run, clock) /\ {"todo", "passed"} \subseteq DOMAIN run
      /\ run.max \in Int /\ Plain(run.ast) /\ run.since \in Int /\ run.since <= clock
  BY DEF RunInv
<1>2. PICK kept, left : Selects(run, kept, left, clock) /\ run.todo = Sublist(run.rows, left)
  BY <1>1 DEF Looks
<1>3. PICK rows, S : rows = run.rows /\ rows \in Seq(S)
  BY <1>1 DEF Sequence
<1>4. /\ kept \subseteq 1..Len(rows) /\ left \subseteq 1..Len(rows) /\ \A i \in kept : \A j \in left : i < j
      /\ run.passed = Sublist(rows, kept)
  BY <1>2, <1>3 DEF Selects
<1>5. left # {}
  <2>1. SUFFICES ASSUME left = {} PROVE FALSE
    OBVIOUS
  <2>2. Sublist(rows, {}) = << >>
    BY <1>3, NoRowsOf
  <2>3. QED
    BY <1>2, <1>3, <2>1, <2>2
<1>6. PICK m \in left : \A i \in left : m <= i
  <2>1. left \in SUBSET Nat
    BY <1>3, <1>4
  <2>2. QED
    BY <1>5, <2>1, LeastNatural
<1>7. m \in 1..Len(rows)
  BY <1>4, <1>6
<1>8. /\ Head(run.todo) = rows[m] /\ Tail(run.todo) = Sublist(rows, left \ {m})
  <2>1. \A i \in left \cap (1..Len(rows)) : m <= i
    BY <1>6
  <2>2. Opens(Sublist(rows, left), rows, m, Sublist(rows, left \ {m}))
    BY <1>3, <1>7, <2>1, SublistFirst, Zenon
  <2>3. QED
    BY <1>2, <1>3, <2>2, Zenon DEF Opens
<1>9. /\ next.at = "filter" /\ next.ast = run.ast /\ next.max = run.max /\ next.rows = rows /\ next.since = run.since
      /\ next.todo = Sublist(rows, left \ {m}) /\ {"todo", "passed"} \subseteq DOMAIN next
      /\ next.passed = IF passes THEN Append(run.passed, rows[m]) ELSE run.passed
  <2>1. /\ next.at = "filter" /\ next.ast = run.ast /\ next.max = run.max /\ next.rows = run.rows
        /\ next.since = run.since /\ DOMAIN next = DOMAIN run
    OBVIOUS
  <2>2. next.todo = todo /\ next.passed = passed
    BY <1>1
  <2>3. passed = IF passes THEN Append(run.passed, rows[m]) ELSE run.passed
    BY <1>8
  <2>4. QED
    BY <1>1, <1>3, <1>8, <2>1, <2>2, <2>3
<1>10. passes => Passes(rows[m], run.ast.filters, clock)
  BY <1>8
<1>11. Looks(next, clock)
  <2>1. CASE passes
    <3>1. Passes(rows[m], run.ast.filters, run.since)
      <4>1. RawTsOf(rows[m]) \in RawTs
        BY <1>1, <1>3, <1>7, RowsAre
      <4>2. QED
        BY <1>1, <1>10, <2>1, <4>1, PassesBefore, Zenon DEF Passes
    <3>2. Sublist(rows, kept \cup {m}) = Append(Sublist(rows, kept), rows[m])
      <4>1. \A i \in kept \cap (1..Len(rows)) : i < m
        BY <1>4, <1>6
      <4>2. QED
        BY <1>3, <1>7, <4>1, SublistMore
    <3>3. next.passed = Sublist(rows, kept \cup {m})
      BY <1>4, <1>9, <2>1, <3>2
    <3>4. \A i \in kept \cup {m} : \A j \in left \ {m} : i < j
      BY <1>3, <1>4, <1>6
    <3>5. Selects(next, kept \cup {m}, left \ {m}, clock)
      BY <1>2, <1>3, <1>4, <1>7, <1>9, <3>1, <3>3, <3>4 DEF Selects
    <3>6. QED
      BY <1>9, <3>5, Zenon DEF Looks
  <2>2. CASE ~passes
    <3>1. ~Passes(rows[m], run.ast.filters, clock)
      BY <1>8, <2>2
    <3>2. Selects(next, kept, left \ {m}, clock)
      BY <1>2, <1>3, <1>4, <1>9, <2>2, <3>1 DEF Selects
    <3>3. QED
      BY <1>9, <3>2, Zenon DEF Looks
  <2>3. QED
    BY <2>1, <2>2
<1>12. QED
  BY <1>1, <1>3, <1>9, <1>11 DEF RunInv

----------------------------------------------------------------------------
(* The steps of a call *)

\* The rows are expanded, and looked up or filtered.
LEMMA LoadedKeeps ==
  ASSUME QueryInv, NEW a \in Actors, At(a, "read"), Loaded(a, job[a].records)
  PROVE  RunInv(job'[a], clock) /\ LoadInv(job'[a])
<1>1. PICK call, records : call = job[a] /\ records = job[a].records
  OBVIOUS
<1>2. records \in Seq(Recs) /\ call.max \in Int /\ Plain(call.ast) /\ clock \in Int /\ DOMAIN job = Actors
  BY <1>1 DEF QueryInv, RunInv, At
<1>3. PICK rows : rows = Expand(records, call.ast)
  OBVIOUS
<1>4. Sequence(rows) /\ Dated(rows)
  BY <1>2, <1>3, ExpandIs
<1>5. CASE Candidate(call.ast)
  <2>1. job'[a] = [at |-> "lookup", query |-> call.query, ast |-> call.ast, max |-> call.max, rows |-> rows]
    BY <1>1, <1>2, <1>3, <1>5 DEF Loaded
  <2>2. QED
    BY <1>2, <1>4, <1>5, <2>1 DEF RunInv, LoadInv
<1>6. CASE ~Candidate(call.ast)
  <2>1. job'[a] = Filtering(call, rows, rows, FALSE)
    BY <1>1, <1>2, <1>3, <1>6 DEF Loaded
  <2>2. rows = Sublist(rows, 1..Len(rows))
    BY <1>4, AllRows
  <2>3. RunInv(Filtering(call, rows, rows, FALSE), clock)
    BY <1>2, <1>4, <2>2, FilterBegins
  <2>4. job'[a].at = "filter"
    BY <2>1 DEF Filtering
  <2>5. QED
    BY <2>1, <2>3, <2>4 DEF LoadInv
<1>7. QED
  BY <1>5, <1>6

\* The lookup gives the rows at some positions, or raises.
LEMMA LookupKeeps ==
  ASSUME QueryInv, NEW a \in Actors, Lookup(a) \/ LookupRaises(a)
  PROVE  RunInv(job'[a], clock) /\ LoadInv(job'[a])
<1>1. PICK call, rows : call = job[a] /\ rows = job[a].rows
  OBVIOUS
<1>2. /\ call.max \in Int /\ Plain(call.ast) /\ clock \in Int /\ DOMAIN job = Actors
      /\ Sequence(rows) /\ Dated(rows) /\ Candidate(call.ast)
  BY <1>1 DEF QueryInv, RunInv, Lookup, LookupRaises, At
<1>3. CASE LookupRaises(a)
  <2>1. job'[a] = Filtering(call, rows, rows, FALSE)
    BY <1>1, <1>2, <1>3 DEF LookupRaises
  <2>2. rows = Sublist(rows, 1..Len(rows))
    BY <1>2, AllRows
  <2>3. RunInv(Filtering(call, rows, rows, FALSE), clock)
    BY <1>2, <2>2, FilterBegins
  <2>4. job'[a].at = "filter"
    BY <2>1 DEF Filtering
  <2>5. QED
    BY <2>1, <2>3, <2>4 DEF LoadInv
<1>4. CASE Lookup(a)
  <2>1. PICK todo : todo = Candidates(rows, call.ast.filters, clock)
    OBVIOUS
  <2>2. job'[a] = Filtering(call, rows, todo, TRUE)
    BY <1>1, <1>2, <1>4, <2>1 DEF Lookup
  <2>3. PICK n \in Nat : n = Len(rows) /\ DOMAIN rows = 1..n
    BY <1>2, RowsAre
  <2>4. PICK filters : filters = call.ast.filters
    OBVIOUS
  <2>5. (\A f \in filters : Comparable(f)) /\ \E f \in filters : IsSupported(f)
    BY <1>2, <2>4 DEF Plain, Candidate
  <2>6. \E positions \in SUBSET (1..n) :
           /\ Candidates(rows, filters, clock) = Sublist(rows, positions)
           /\ \A i \in 1..n : (\A f \in filters : Matches(rows[i], f, clock)) => i \in positions
    BY <1>2, <2>3, <2>5, CandidatesAre
  <2>7. PICK left : /\ left \subseteq 1..n /\ todo = Sublist(rows, left)
                    /\ \A i \in 1..n : (\A f \in filters : Matches(rows[i], f, clock)) => i \in left
    BY <2>1, <2>4, <2>6
  <2>8. \A i \in 1..Len(rows) : Passes(rows[i], call.ast.filters, clock) => i \in left
    BY <2>3, <2>4, <2>7, Zenon DEF Passes
  <2>9. RunInv(Filtering(call, rows, todo, TRUE), clock)
    BY <1>2, <2>3, <2>7, <2>8, FilterBegins
  <2>10. job'[a].at = "filter"
    BY <2>2 DEF Filtering
  <2>11. QED
    BY <2>2, <2>9, <2>10 DEF LoadInv
<1>5. QED
  BY <1>3, <1>4

LEMMA LoadFileKeeps ==
  ASSUME QueryInv, NEW a \in Actors, LoadFile(a)
  PROVE  RunInv(job'[a], clock) /\ LoadInv(job'[a])
<1>1. PICK run : run = job[a]
  OBVIOUS
<1>2. /\ run.at = "read" /\ run.root \in Roots /\ run.max \in Int /\ Plain(run.ast)
      /\ {"file", "records"} \subseteq DOMAIN run /\ run.file \in Nat \ {0} /\ run.files \in Nat /\ run.records \in Seq(Recs)
      /\ run.files <= Len(Loadable(run.root)) /\ run.file <= run.files
      /\ memory \in Held /\ DOMAIN job = Actors
  BY <1>1 DEF QueryInv, RunInv, LoadInv, LoadFile, At
<1>3. PICK files \in Seq(File) : files = Loadable(run.root)
  BY <1>2, LoadableIs
<1>4. NextFile(a) \in File
  BY <1>1, <1>2, <1>3 DEF NextFile
<1>5. PICK more \in Seq(Recs) : more = run.records \o RecordsOf(NextFile(a))
  <2>1. PICK other \in Seq(Recs) : other = RecordsOf(NextFile(a))
    BY <1>4, RecordsOfIs
  <2>2. run.records \o other \in Seq(Recs)
    BY <1>2, ConcatProperties
  <2>3. QED
    BY <2>1, <2>2
<1>6. job'[a] = [run EXCEPT !.file = @ + 1, !.records = more]
  BY <1>1, <1>2, <1>5 DEF LoadFile
<1>7. PICK next : next = [run EXCEPT !.file = @ + 1, !.records = more]
  OBVIOUS
<1>8. /\ next.at = "read" /\ next.root = run.root /\ next.max = run.max /\ next.ast = run.ast
      /\ next.files = run.files /\ DOMAIN next = DOMAIN run
  BY <1>2, <1>7
<1>9. next.file = run.file + 1 /\ next.records = more
  BY <1>2, <1>7
<1>10. RunInv(next, clock) /\ LoadInv(next)
  BY <1>2, <1>8, <1>9 DEF RunInv, LoadInv
<1>11. QED
  BY <1>6, <1>7, <1>10

LEMMA FilterRowKeeps ==
  ASSUME QueryInv, NEW a \in Actors, FilterRow(a)
  PROVE  RunInv(job'[a], clock) /\ LoadInv(job'[a])
<1>1. PICK run : run = job[a]
  OBVIOUS
<1>2. RunInv(run, clock) /\ clock \in Int /\ run.at = "filter" /\ run.todo # << >> /\ DOMAIN job = Actors
      /\ {"todo", "passed"} \subseteq DOMAIN run
  BY <1>1 DEF QueryInv, FilterRow, At, RunInv
<1>3. PICK todo, passed :
        /\ todo = Tail(run.todo)
        /\ passed = IF Passes(Head(run.todo), run.ast.filters, clock)
                    THEN Append(run.passed, Head(run.todo)) ELSE run.passed
  OBVIOUS
<1>4. PICK next : next = [run EXCEPT !.todo = todo, !.passed = passed]
  OBVIOUS
<1>5. job'[a] = next
  BY <1>1, <1>2, <1>3, <1>4 DEF FilterRow, Passes
<1>6. RunInv(next, clock)
  BY <1>2, <1>3, <1>4, RowFiltered
<1>7. next.at = "filter"
  BY <1>2, <1>4
<1>8. QED
  BY <1>5, <1>6, <1>7 DEF LoadInv

\* The rows that passed are projected.
LEMMA AnswerKeeps ==
  ASSUME QueryInv, NEW a \in Actors, Answer(a)
  PROVE  RunInv(job'[a], clock) /\ LoadInv(job'[a])
<1>1. PICK run : run = job[a]
  OBVIOUS
<1>2. /\ RunInv(run, clock) /\ run.at = "filter" /\ run.todo = << >> /\ DOMAIN job = Actors
      /\ run.max \in Int /\ Plain(run.ast) /\ Sequence(run.rows) /\ Dated(run.rows)
      /\ run.since \in Int /\ run.since <= clock /\ Looks(run, clock)
  BY <1>1 DEF QueryInv, Answer, At, RunInv
<1>3. PICK next : next = job'[a]
  OBVIOUS
<1>4. /\ next.at = "done" /\ next.ast = run.ast /\ next.rows = run.rows /\ next.passed = run.passed
      /\ next.since = run.since /\ next.max = run.max
      /\ next.results = Project(run.passed, run.ast.fields, LimitOf(run.ast, run.max))
  BY <1>1, <1>2, <1>3 DEF Answer
<1>5. PICK kept, left : Selects(run, kept, left, clock) /\ run.todo = Sublist(run.rows, left)
  BY <1>2 DEF Looks
<1>6. left = {}
  <2>1. SUFFICES ASSUME NEW m \in left PROVE FALSE
    OBVIOUS
  <2>2. PICK rows, S : rows = run.rows /\ rows \in Seq(S)
    BY <1>2 DEF Sequence
  <2>3. left \subseteq 1..Len(rows) /\ left \in SUBSET Nat
    BY <1>5, <2>2 DEF Selects
  <2>4. PICK first \in left : \A i \in left : first <= i
    BY <2>3, LeastNatural
  <2>5. first \in 1..Len(rows) /\ \A i \in left \cap (1..Len(rows)) : first <= i
    BY <2>3, <2>4
  <2>6. Opens(Sublist(rows, left), rows, first, Sublist(rows, left \ {first}))
    BY <2>2, <2>5, SublistFirst, Zenon
  <2>7. Sublist(rows, left) # << >>
    BY <2>6, Zenon DEF Opens
  <2>8. QED
    BY <1>2, <1>5, <2>2, <2>7
<1>7. Looked(next, clock)
  <2>1. Selects(next, kept, {}, clock)
    BY <1>4, <1>5, <1>6 DEF Selects
  <2>2. QED
    BY <2>1, Zenon DEF Looked
<1>8. RunInv(next, clock) /\ LoadInv(next)
  BY <1>2, <1>4, <1>7 DEF RunInv, LoadInv
<1>9. QED
  BY <1>3, <1>8

LEMMA ParseKeeps ==
  ASSUME QueryInv, NEW a \in Actors, ParseQuery(a) \/ RejectQuery(a) \/ BeginLoad(a) \/ \E error \in LoadErrors : LoadRaises(a, error)
  PROVE  RunInv(job'[a], clock) /\ LoadInv(job'[a])
<1>1. PICK run : run = job[a]
  OBVIOUS
<1>2. RunInv(run, clock) /\ DOMAIN job = Actors /\ memory \in Held
  BY <1>1 DEF QueryInv
<1>3. CASE ParseQuery(a)
  <2>1. job'[a] = [at |-> "load", query |-> run.query, root |-> run.root, max |-> run.max, ast |-> Ast(run.query)]
    BY <1>1, <1>2, <1>3 DEF ParseQuery
  <2>2. run.query \in Texts /\ Accepted(run.query) /\ run.root \in Roots /\ run.max \in Int
    BY <1>1, <1>2, <1>3 DEF ParseQuery, At, RunInv
  <2>3. Plain(Ast(run.query))
    BY <2>2, AstIs
  <2>4. QED
    BY <2>1, <2>2, <2>3 DEF RunInv, LoadInv
<1>4. CASE RejectQuery(a) \/ \E error \in LoadErrors : LoadRaises(a, error)
  <2>1. job'[a].at = "failed"
    BY <1>2, <1>4 DEF RejectQuery, LoadRaises, Fail
  <2>2. QED
    BY <2>1 DEF RunInv, LoadInv
<1>5. CASE BeginLoad(a)
  <2>1. run.at = "load" /\ run.root \in Roots /\ run.max \in Int /\ Plain(run.ast)
    BY <1>1, <1>2, <1>5 DEF BeginLoad, At, RunInv
  <2>2. Len(Loadable(run.root)) \in Nat
    BY <1>2, <2>1, LoadableIs
  <2>3. PICK next : next = [at |-> "read", query |-> run.query, root |-> run.root, max |-> run.max, ast |-> run.ast,
                            file |-> 1, files |-> Len(Loadable(run.root)), records |-> << >>]
    OBVIOUS
  <2>4. job'[a] = next
    BY <1>1, <1>2, <1>5, <2>3 DEF BeginLoad
  <2>5. RunInv(next, clock) /\ LoadInv(next)
    BY <2>1, <2>2, <2>3 DEF RunInv, LoadInv
  <2>6. QED
    BY <2>4, <2>5
<1>6. QED
  BY <1>3, <1>4, <1>5

\* The calls go on at the same time.
LEMMA AllRun ==
  ASSUME QueryInv, UNCHANGED <<memory, clock>>, DOMAIN job' = Actors,
         \A b \in Actors : RunInv(job'[b], clock) /\ LoadInv(job'[b])
  PROVE  QueryInv'
<1>1. \A b \in Actors : RunInv(job'[b], clock') /\ LoadInv(job[b])'
  BY DEF LoadInv, Loadable
<1>2. QED
  BY <1>1 DEF QueryInv

LEMMA OneRuns ==
  ASSUME QueryInv, NEW a \in Actors, UNCHANGED <<memory, clock>>, NEW run, job' = [job EXCEPT ![a] = run],
         RunInv(run, clock), LoadInv(run)
  PROVE  QueryInv'
<1>1. DOMAIN job' = Actors /\ \A b \in Actors : job'[b] = IF b = a THEN run ELSE job[b]
  BY DEF QueryInv
<1>2. \A b \in Actors : RunInv(job'[b], clock) /\ LoadInv(job'[b])
  BY <1>1, Zenon DEF QueryInv
<1>3. QED
  BY <1>1, <1>2, AllRun

LEMMA ExecutingKeeps ==
  ASSUME QueryInv, NEW a \in Actors, ExecStep(a) \/ LoadMemory(a)
  PROVE  QueryInv'
<1>1. RunInv(job'[a], clock) /\ LoadInv(job'[a])
  BY LoadedKeeps, LookupKeeps, LoadFileKeeps, FilterRowKeeps, AnswerKeeps, ParseKeeps
     DEF ExecStep, LoadMemory, LoadEnds
<1>2. UNCHANGED <<memory, clock>>
  BY DEF ExecStep, LoadMemory, ParseQuery, RejectQuery, LoadFile, Lookup, LookupRaises, FilterRow, Answer
<1>3. DOMAIN job = Actors
  BY DEF QueryInv
<1>4. DOMAIN job' = Actors /\ \A b \in Actors \ {a} : job'[b] = job[b]
  BY <1>3 DEF ExecStep, LoadMemory, ParseQuery, RejectQuery, LoadFile, Lookup, LookupRaises, FilterRow, Answer,
              BeginLoad, LoadRaises, LoadEnds, Loaded, Fail
<1>5. \A b \in Actors : RunInv(job'[b], clock) /\ LoadInv(job'[b])
  BY <1>1, <1>4, Zenon DEF QueryInv
<1>6. QED
  BY <1>2, <1>4, <1>5, AllRun

----------------------------------------------------------------------------
(* The other steps *)

\* Files grow, and time passes.
LEMMA EnvironmentKeeps ==
  ASSUME QueryInv, ExecEnvironment
  PROVE  QueryInv'
<1>1. memory' \in Held /\ \A root \in Roots : Len(Loadable(root)) <= Len(Loadable(root)')
  BY MemoryGrows DEF QueryInv
<1>2. job' = job /\ clock' \in Int /\ clock <= clock' /\ clock \in Int
  BY BqlExecutorAssumption DEF QueryInv, ExecEnvironment, CreateRoot, AppendLine, Tick
<1>3. ASSUME NEW b \in Actors
      PROVE  RunInv(job'[b], clock') /\ LoadInv(job[b])'
  <2>1. PICK run : run = job[b]
    OBVIOUS
  <2>2. RunInv(run, clock) /\ LoadInv(run)
    BY <2>1 DEF QueryInv
  <2>3. RunInv(run, clock')
    BY <1>2, <2>2, RunLater
  <2>4. run.at = "read" => run.files <= Len(Loadable(run.root)')
    <3>1. SUFFICES ASSUME run.at = "read"
                   PROVE  run.files <= Len(Loadable(run.root)')
      OBVIOUS
    <3>2. PICK root \in Roots : root = run.root
      BY <2>2, <3>1 DEF RunInv
    <3>3. Loadable(root) \in Seq(File) /\ Loadable(root)' \in Seq(File)
      <4>1. Loadable(root) \in Seq(File)
        BY LoadableIs DEF QueryInv
      <4>2. PICK files \in Seq(File) : files = memory'[root].files
        BY <1>1 DEF Held
      <4>3. Sublist(files, {i \in DOMAIN files : ~files[i].tsindex}) \in Seq(File)
        BY SublistHas
      <4>4. Loadable(root)' \in Seq(File)
        BY <4>2, <4>3 DEF Loadable
      <4>5. QED
        BY <4>1, <4>4
    <3>4. Len(Loadable(root)) <= Len(Loadable(root)')
      BY <1>1
    <3>5. run.files \in Nat /\ run.files <= Len(Loadable(root))
      BY <2>2, <3>1, <3>2 DEF RunInv, LoadInv
    <3>6. run.files <= Len(Loadable(root)')
      <4>1. PICK x, y : x = Len(Loadable(root)) /\ y = Len(Loadable(root)')
        OBVIOUS
      <4>2. x \in Nat /\ y \in Nat /\ x <= y /\ run.files <= x
        BY <3>3, <3>4, <3>5, <4>1
      <4>3. QED
        BY <3>5, <4>1, <4>2
    <3>7. QED
      BY <3>2, <3>6
  <2>5. LoadInv(run)'
    BY <2>4 DEF LoadInv
  <2>6. QED
    BY <1>2, <2>1, <2>3, <2>5
<1>4. QED
  BY <1>1, <1>2, <1>3 DEF QueryInv

LEMMA NoJobIs == RunInv(NoJob, clock) /\ LoadInv(NoJob)
BY DEF RunInv, LoadInv, NoJob

LEMMA QueryNext ==
  ASSUME QueryInv, [Next]_vars
  PROVE  QueryInv'
<1>1. CASE UNCHANGED exec
  BY <1>1 DEF exec, QueryInv, LoadInv, Loadable
<1>2. CASE Environment
  BY <1>2, EnvironmentKeeps DEF Environment
<1>3. ASSUME NEW a \in Actors, Executing(a)
      PROVE  QueryInv'
  BY <1>3, ExecutingKeeps DEF Executing
<1>4. ASSUME NEW a \in Actors, ExecuteReturned(a) \/ ExecuteRaised(a) \/ CliReturns(a) \/ CliRaises(a) \/ Crash(a)
      PROVE  QueryInv'
  <2>1. job' = [job EXCEPT ![a] = NoJob] /\ UNCHANGED <<memory, clock>>
    BY <1>4 DEF ExecuteReturned, ExecuteRaised, CliReturns, CliRaises, Crash
  <2>2. QED
    BY <2>1, NoJobIs, OneRuns
<1>5. ASSUME NEW a \in Actors, NEW request \in Requests[a], CallExecute(a, request)
      PROVE  QueryInv'
  <2>1. PICK run : run = [at |-> "parse", query |-> Queries[request.text], root |-> request.root, max |-> request.max]
    OBVIOUS
  <2>2. job' = [job EXCEPT ![a] = run] /\ UNCHANGED <<memory, clock>>
    BY <1>5, <2>1 DEF CallExecute, Start
  <2>3. request.text \in DOMAIN Queries /\ request.root \in Roots /\ request.max \in Int
    BY <1>5, RequestsAssumption DEF CallExecute
  <2>4. RunInv(run, clock) /\ LoadInv(run)
    BY <2>1, <2>3 DEF RunInv, LoadInv, Texts
  <2>5. QED
    BY <2>2, <2>4, OneRuns
<1>6. ASSUME NEW a \in Actors, NEW request \in Requests[a], CallRecord(a, request) \/ CallTrace(a, request)
      PROVE  QueryInv'
  BY <1>1, <1>6 DEF CallRecord, CallTrace
<1>7. ASSUME NEW a \in Actors,
             \/ OpenLog(a) \/ AppendRow(a) \/ ReadRows(a) \/ OpenTmp(a) \/ WriteTmp(a)
             \/ ReplaceLog(a) \/ ReplaceRaises(a) \/ OpenTrace(a) \/ WriteTrace(a) \/ TraceRaises(a)
      PROVE  QueryInv'
  BY <1>1, <1>7 DEF OpenLog, AppendRow, ReadRows, OpenTmp, WriteTmp, ReplaceLog, ReplaceRaises, OpenTrace,
                    WriteTrace, TraceRaises
<1>8. QED
  BY <1>1, <1>2, <1>3, <1>4, <1>5, <1>6, <1>7 DEF Next, Calling, Step, vars

LEMMA QueryInit == Init => QueryInv
<1> SUFFICES ASSUME Init PROVE QueryInv
  OBVIOUS
<1>1. memory \in Held /\ clock \in Int /\ job = [a \in Actors |-> NoJob]
  BY MemoriesAssumption, BqlExecutorAssumption DEF Init, ExecInit, Held
<1>2. QED
  BY <1>1, NoJobIs DEF QueryInv

\* The rows of a sublist are those at the positions.
HasRows(part, list, positions) == RowsOf(part) = {list[i] : i \in positions}

LEMMA SublistRows ==
  ASSUME NEW S, NEW list \in Seq(S), NEW positions, positions \subseteq 1..Len(list)
  PROVE  HasRows(Sublist(list, positions), list, positions)
<1>1. PICK part : part = Sublist(list, positions)
  OBVIOUS
<1>2. /\ part \in Seq(S)
      /\ \A k \in 1..Len(part) : \E i \in positions : i \in 1..Len(list) /\ part[k] = list[i]
  BY <1>1, SublistHas
<1>3. \A i \in positions : i \in 1..Len(list) => \E k \in 1..Len(Sublist(list, positions)) : Sublist(list, positions)[k] = list[i]
  BY SublistHas
<1>4. DOMAIN part = 1..Len(part)
  BY <1>2
<1>5. \A i \in positions : \E k \in 1..Len(part) : part[k] = list[i]
  BY <1>1, <1>3
<1>6. RowsOf(part) = {list[i] : i \in positions}
  BY <1>2, <1>4, <1>5 DEF RowsOf
<1>7. QED
  BY <1>1, <1>6 DEF HasRows

\* A call that is done agrees with a full scan.
LEMMA DoneAgrees ==
  ASSUME QueryInv, NEW a \in Actors, At(a, "done"), NEW call, call = job[a]
  PROVE  /\ RowsOf(ScanAt(call, clock)) \subseteq RowsOf(call.passed)
         /\ RowsOf(call.passed) \subseteq RowsOf(ScanAt(call, call.since))
         /\ \E positions \in SUBSET DOMAIN call.rows : call.passed = Sublist(call.rows, positions)
         /\ Len(call.results) <= MaxTop
         /\ Len(call.passed) > 0 => Len(call.results) > 0
<1>1. /\ RunInv(call, clock) /\ call.at = "done" /\ call.max \in Int /\ Plain(call.ast)
      /\ Sequence(call.rows) /\ Dated(call.rows) /\ Looked(call, clock)
      /\ call.results = Project(call.passed, call.ast.fields, LimitOf(call.ast, call.max))
  BY DEF QueryInv, At, RunInv
<1>2. PICK rows, S, passed, filters :
        rows = call.rows /\ rows \in Seq(S) /\ passed = call.passed /\ filters = call.ast.filters
  BY <1>1 DEF Sequence
<1>3. PICK kept : Selects(call, kept, {}, clock)
  BY <1>1 DEF Looked
<1>4. /\ kept \subseteq 1..Len(rows) /\ passed = Sublist(rows, kept)
      /\ \A i \in kept : Passes(rows[i], filters, call.since)
      /\ \A i \in 1..Len(rows) : Passes(rows[i], filters, clock) => i \in kept
  BY <1>2, <1>3 DEF Selects
<1>5. Len(rows) \in Nat /\ DOMAIN rows = 1..Len(rows)
  BY <1>2
<1>6. \A now : ScanAt(call, now) = Sublist(rows, {i \in 1..Len(rows) : Passes(rows[i], filters, now)})
  BY <1>2, <1>5, Zenon DEF ScanAt, ApplyFilters, Passes
<1>7. ASSUME NEW positions, positions \subseteq 1..Len(rows)
      PROVE  RowsOf(Sublist(rows, positions)) = {rows[i] : i \in positions}
  <2>1. HasRows(Sublist(rows, positions), rows, positions)
    BY <1>2, <1>7, SublistRows, Zenon
  <2>2. QED
    BY <2>1 DEF HasRows
<1>8. RowsOf(passed) = {rows[i] : i \in kept}
  BY <1>4, <1>7
<1>9. \A now : RowsOf(ScanAt(call, now)) = {rows[i] : i \in {j \in 1..Len(rows) : Passes(rows[j], filters, now)}}
  <2>1. TAKE now
  <2>2. PICK positions : positions = {j \in 1..Len(rows) : Passes(rows[j], filters, now)}
    OBVIOUS
  <2>3. ScanAt(call, now) = Sublist(rows, positions) /\ positions \subseteq 1..Len(rows)
    BY <1>6, <2>2
  <2>4. RowsOf(ScanAt(call, now)) = {rows[i] : i \in positions}
    BY <1>7, <2>3
  <2>5. QED
    BY <2>2, <2>4
<1>10. RowsOf(ScanAt(call, clock)) \subseteq RowsOf(passed)
  BY <1>4, <1>8, <1>9
<1>11. RowsOf(passed) \subseteq RowsOf(ScanAt(call, call.since))
  <2>1. \A i \in kept : i \in {j \in 1..Len(rows) : Passes(rows[j], filters, call.since)}
    BY <1>4
  <2>2. QED
    BY <1>8, <1>9, <2>1
<1>12. \E positions \in SUBSET DOMAIN rows : passed = Sublist(rows, positions)
  BY <1>4, <1>5
<1>13. passed \in Seq(S)
  BY <1>2, <1>4, SublistHas
<1>14. LimitOf(call.ast, call.max) \in 1..MaxTop
  BY <1>1, LimitIs DEF Plain
<1>15. Len(call.results) <= MaxTop /\ (Len(passed) > 0 => Len(call.results) > 0)
  BY <1>1, <1>2, <1>13, <1>14, ProjectIs
<1>16. QED
  BY <1>2, <1>10, <1>11, <1>12, <1>15

(* What execute answers through the timestamp index is what a scan of all rows
   would answer: every row that a scan at the end would pass is among those it
   passed, each of which a scan at the time of the lookup would have passed,
   and they are in the order of the file (lines 176 to 191 of
   bql_executor.py). *)
THEOREM IndexAgrees == Spec => []IndexAgreesWithScan
<1>1. QueryInv => IndexAgreesWithScan
  BY DoneAgrees DEF IndexAgreesWithScan
<1>2. QueryInv /\ [Next]_vars => QueryInv'
  BY QueryNext
<1>3. QED
  BY <1>1, <1>2, QueryInit, PTL DEF Spec

----------------------------------------------------------------------------
(* What is kept of a caller's extras *)

\* The two recursions of LogSanitizer: what they begin with and how they go on.
TextOnly == [value \in Extras |-> [is |-> "text"]]
Deeper(sanitized) == [value \in Extras |-> Sanitize(value, sanitized)]
Sanitizes(f, n) == f = [i \in 0..n |-> f[i]] /\ f[0] = TextOnly /\ \A i \in 1..n : f[i] = Deeper(f[i - 1])
Wraps(f, n) == f = [i \in 0..n |-> f[i]] /\ f[0] = Leaves /\ \A i \in 1..n : f[i] = Wrapped(f[i - 1])

LEMMA SanitizerExists ==
  ASSUME NEW n \in Nat
  PROVE  \E f : Sanitizes(f, n)
<1> DEFINE T == {m \in 0..n : \E f : Sanitizes(f, m)}
<1>1. 0 \in T
  <2>1. PICK f : f = [i \in 0..0 |-> TextOnly]
    OBVIOUS
  <2>2. f = [i \in 0..0 |-> f[i]] /\ f[0] = TextOnly /\ 1..0 = {}
    BY <2>1
  <2>3. Sanitizes(f, 0)
    BY <2>2 DEF Sanitizes
  <2>4. QED
    BY <2>3
<1>2. ASSUME NEW m \in 0..(n - 1), m \in T
      PROVE  m + 1 \in T
  <2>1. PICK f : Sanitizes(f, m)
    BY <1>2
  <2>2. PICK next : next = Deeper(f[m])
    OBVIOUS
  <2>3. PICK g : g = [i \in 0..(m + 1) |-> IF i = m + 1 THEN next ELSE f[i]]
    OBVIOUS
  <2>4. g[0] = TextOnly
    BY <2>1, <2>3 DEF Sanitizes
  <2>5. ASSUME NEW i \in 1..(m + 1)
        PROVE  g[i] = Deeper(g[i - 1])
    <3>1. CASE i = m + 1
      BY <2>2, <2>3, <3>1
    <3>2. CASE i # m + 1
      <4>1. i \in 1..m /\ g[i] = f[i] /\ g[i - 1] = f[i - 1]
        BY <2>3, <3>2
      <4>2. QED
        BY <2>1, <4>1 DEF Sanitizes
    <3>3. QED
      BY <3>1, <3>2
  <2>6. g = [i \in 0..(m + 1) |-> g[i]]
    BY <2>3
  <2>7. Sanitizes(g, m + 1)
    BY <2>4, <2>5, <2>6 DEF Sanitizes
  <2>8. m + 1 \in 0..n
    OBVIOUS
  <2>9. QED
    BY <2>7, <2>8
<1>3. \A m \in 0..n : m \in T
  <2> HIDE DEF T
  <2>1. QED
    BY <1>1, <1>2, Induction
<1>4. n \in 0..n
  OBVIOUS
<1>5. QED
  BY <1>3, <1>4

LEMMA WrappingExists ==
  ASSUME NEW n \in Nat
  PROVE  \E f : Wraps(f, n)
<1> DEFINE T == {m \in 0..n : \E f : Wraps(f, m)}
<1>1. 0 \in T
  <2>1. PICK f : f = [i \in 0..0 |-> Leaves]
    OBVIOUS
  <2>2. f = [i \in 0..0 |-> f[i]] /\ f[0] = Leaves /\ 1..0 = {}
    BY <2>1
  <2>3. Wraps(f, 0)
    BY <2>2 DEF Wraps
  <2>4. QED
    BY <2>3
<1>2. ASSUME NEW m \in 0..(n - 1), m \in T
      PROVE  m + 1 \in T
  <2>1. PICK f : Wraps(f, m)
    BY <1>2
  <2>2. PICK next : next = Wrapped(f[m])
    OBVIOUS
  <2>3. PICK g : g = [i \in 0..(m + 1) |-> IF i = m + 1 THEN next ELSE f[i]]
    OBVIOUS
  <2>4. g[0] = Leaves
    BY <2>1, <2>3 DEF Wraps
  <2>5. ASSUME NEW i \in 1..(m + 1)
        PROVE  g[i] = Wrapped(g[i - 1])
    <3>1. CASE i = m + 1
      BY <2>2, <2>3, <3>1
    <3>2. CASE i # m + 1
      <4>1. i \in 1..m /\ g[i] = f[i] /\ g[i - 1] = f[i - 1]
        BY <2>3, <3>2
      <4>2. QED
        BY <2>1, <4>1 DEF Wraps
    <3>3. QED
      BY <3>1, <3>2
  <2>6. g = [i \in 0..(m + 1) |-> g[i]]
    BY <2>3
  <2>7. Wraps(g, m + 1)
    BY <2>4, <2>5, <2>6 DEF Wraps
  <2>8. m + 1 \in 0..n
    OBVIOUS
  <2>9. QED
    BY <2>7, <2>8
<1>3. \A m \in 0..n : m \in T
  <2> HIDE DEF T
  <2>1. QED
    BY <1>1, <1>2, Induction
<1>4. n \in 0..n
  OBVIOUS
<1>5. QED
  BY <1>3, <1>4

LEMMA SanitizingIs == Sanitizes(Sanitizing, MaxDepth + 1)
<1> DEFINE n == MaxDepth + 1
           Is(f) == f = [left \in 0..n |->
                      [value \in Extras |-> IF left = 0 THEN [is |-> "text"] ELSE Sanitize(value, f[left - 1])]]
<1>1. n \in Nat
  BY LogSanitizerAssumption
<1>2. Sanitizing = CHOOSE f : Is(f)
  BY Zenon DEF Sanitizing
<1> HIDE DEF n
<1>3. PICK f : Sanitizes(f, n)
  BY <1>1, SanitizerExists
<1>4. Is(f)
  <2>1. ASSUME NEW left \in 0..n
        PROVE  f[left] = [value \in Extras |-> IF left = 0 THEN [is |-> "text"] ELSE Sanitize(value, f[left - 1])]
    <3>1. CASE left = 0
      <4>1. f[left] = TextOnly
        BY <1>3, <3>1 DEF Sanitizes
      <4>2. QED
        BY <3>1, <4>1 DEF TextOnly
    <3>2. CASE left # 0
      <4>1. f[left] = Deeper(f[left - 1])
        <5>1. left \in 1..n
          BY <1>1, <3>2
        <5>2. QED
          BY <1>3, <5>1 DEF Sanitizes
      <4>2. QED
        BY <3>2, <4>1 DEF Deeper
    <3>3. QED
      BY <3>1, <3>2
  <2>2. f = [left \in 0..n |-> f[left]]
    BY <1>3 DEF Sanitizes
  <2>3. QED
    BY <2>1, <2>2
<1>5. Is(Sanitizing)
  <2> HIDE DEF Is
  <2>1. QED
    BY <1>2, <1>4
<1>6. PICK g : g = Sanitizing
  OBVIOUS
<1>7. Is(g)
  BY <1>5, <1>6
<1>8. g = [left \in 0..n |-> g[left]]
  BY <1>7
<1>9. \A left \in 0..n :
        g[left] = [value \in Extras |-> IF left = 0 THEN [is |-> "text"] ELSE Sanitize(value, g[left - 1])]
  BY <1>7
<1> HIDE DEF Is
<1>10. g[0] = TextOnly
  <2>1. 0 \in 0..n
    BY <1>1
  <2>2. QED
    BY <1>9, <2>1 DEF TextOnly
<1>11. ASSUME NEW i \in 1..n
       PROVE  g[i] = Deeper(g[i - 1])
  <2>1. i \in 0..n /\ i # 0
    BY <1>1
  <2>2. g[i] = [value \in Extras |-> IF i = 0 THEN [is |-> "text"] ELSE Sanitize(value, g[i - 1])]
    BY <1>9, <2>1
  <2>3. QED
    BY <2>1, <2>2 DEF Deeper
<1>12. QED
  BY <1>6, <1>8, <1>10, <1>11 DEF Sanitizes, n

LEMMA SmallIs == Wraps(Small, MaxDepth + 2)
<1> DEFINE n == MaxDepth + 2
           Is(f) == f = [levels \in 0..n |-> IF levels = 0 THEN Leaves ELSE Wrapped(f[levels - 1])]
<1>1. n \in Nat
  BY LogSanitizerAssumption
<1>2. Small = CHOOSE f : Is(f)
  BY Zenon DEF Small
<1> HIDE DEF n
<1>3. PICK f : Wraps(f, n)
  BY <1>1, WrappingExists
<1>4. Is(f)
  <2>1. ASSUME NEW left \in 0..n
        PROVE  f[left] = IF left = 0 THEN Leaves ELSE Wrapped(f[left - 1])
    <3>1. left = 0 \/ left \in 1..n
      BY <1>1
    <3>2. QED
      BY <1>3, <3>1 DEF Wraps
  <2>2. f = [left \in 0..n |-> f[left]]
    BY <1>3 DEF Wraps
  <2>3. QED
    BY <2>1, <2>2
<1>5. Is(Small)
  <2> HIDE DEF Is
  <2>1. QED
    BY <1>2, <1>4
<1>6. PICK g : g = Small
  OBVIOUS
<1>7. Is(g)
  BY <1>5, <1>6
<1>8. g = [left \in 0..n |-> g[left]]
  BY <1>7
<1>9. \A left \in 0..n : g[left] = IF left = 0 THEN Leaves ELSE Wrapped(g[left - 1])
  BY <1>7
<1> HIDE DEF Is
<1>10. 0 \in 0..n /\ \A i \in 1..n : i \in 0..n /\ i # 0
  BY <1>1
<1>11. g[0] = Leaves /\ \A i \in 1..n : g[i] = Wrapped(g[i - 1])
  BY <1>9, <1>10
<1>12. QED
  BY <1>6, <1>8, <1>11 DEF Wraps, n

\* The mark at the end of a list.
MarkOfList == [is |-> "dict", items |-> << Mark >>]

LEMMA Singleton ==
  ASSUME NEW S, NEW x \in S
  PROVE  << x >> \in Seq(S) /\ Len(<< x >>) = 1 /\ << >> \in Seq(S) /\ Len(<< >>) = 0
OBVIOUS

(* What is shown of the items, and the mark. *)
LEMMA CutIs ==
  ASSUME NEW values, NEW n \in Nat, NEW shown \in [1..Min({n, MaxItems}) -> values],
         NEW items, Len(items) = n, NEW mark \in values
  PROVE  shown \o MarkIfCut(items, mark) \in Short(values)
<1>1. MaxItems \in Nat
  BY LogSanitizerAssumption
<1>2. PICK m : m = Min({n, MaxItems})
  OBVIOUS
<1>3. m = IF n <= MaxItems THEN n ELSE MaxItems
  BY <1>1, <1>2, MinOfTwo
<1>4. m \in Nat /\ m <= MaxItems
  BY <1>1, <1>3
<1>5. shown \in Seq(values) /\ Len(shown) = m
  <2>1. shown \in [1..m -> values]
    BY <1>2
  <2>2. QED
    BY <1>4, <2>1
<1>6. PICK rest : rest = MarkIfCut(items, mark)
  OBVIOUS
<1>7. rest \in Seq(values) /\ Len(rest) \in 0..1
  BY <1>6, Singleton DEF MarkIfCut
<1>8. Joined(shown \o rest, values, shown, rest)
  BY <1>5, <1>7, JoinIs, Zenon
<1>9. shown \o rest \in Seq(values) /\ Len(shown \o rest) = Len(shown) + Len(rest)
  BY <1>8, Zenon DEF Joined
<1>10. Len(shown) + Len(rest) <= MaxItems + 1
  <2>1. PICK x, y : x = Len(shown) /\ y = Len(rest)
    OBVIOUS
  <2>2. x \in Nat /\ x <= MaxItems /\ y <= 1 /\ y \in Nat
    BY <1>4, <1>5, <1>7, <2>1
  <2>3. QED
    BY <1>1, <2>1, <2>2
<1>11. QED
  BY <1>6, <1>9, <1>10 DEF Short

(* One level. *)
LEMMA SanitizeIs ==
  ASSUME NEW values, Leaves \subseteq values, MarkOfList \in values,
         NEW sanitized, \A v \in Extras : sanitized[v] \in values, NEW value \in Extras
  PROVE  Sanitize(value, sanitized) \in Wrapped(values)
<1>1. /\ value.is \in {"text", "bytes", "number", "other", "dict", "list"}
      /\ value.is = "dict" => value.items \in Seq({"plain", "secret"} \X Extras)
      /\ value.is = "list" => value.items \in Seq(Extras)
  BY LogSanitizerAssumption
<1>2. [is |-> "text"] \in Leaves /\ [is |-> "number"] \in Leaves /\ [is |-> "redacted"] \in Leaves
  BY DEF Leaves
<1>3. MaxItems \in Nat
  BY LogSanitizerAssumption
<1>4. CASE value.is = "dict"
  <2>1. PICK items : items = value.items /\ items \in Seq({"plain", "secret"} \X Extras)
    BY <1>1, <1>4
  <2>2. PICK shown : shown = [i \in Shown(items) |->
             <<items[i][1],
               IF items[i][1] = "secret" THEN [is |-> "redacted"] ELSE sanitized[items[i][2]]>>]
    OBVIOUS
  <2>3. Sanitize(value, sanitized) = [is |-> "dict", items |-> shown \o MarkIfCut(items, Mark)]
    BY <1>4, <2>1, <2>2, Zenon DEF Sanitize
  <2>4. Len(items) \in Nat
    BY <2>1
  <2>5. ASSUME NEW i \in Shown(items)
        PROVE  shown[i] \in Pairs(values)
    <3>1. i \in 1..Len(items)
      <4>1. PICK m : m = Min({Len(items), MaxItems})
        OBVIOUS
      <4>2. m = IF Len(items) <= MaxItems THEN Len(items) ELSE MaxItems
        BY <1>3, <2>4, <4>1, MinOfTwo
      <4>3. i \in 1..m
        BY <4>1 DEF Shown
      <4>4. QED
        BY <1>3, <2>4, <4>2, <4>3
    <3>2. items[i] \in {"plain", "secret"} \X Extras
      BY <2>1, <3>1
    <3>3. PICK key, v : key = items[i][1] /\ v = items[i][2] /\ key \in {"plain", "secret"} /\ v \in Extras
      BY <3>2
    <3>4. shown[i] = <<key, IF key = "secret" THEN [is |-> "redacted"] ELSE sanitized[v]>>
      BY <2>2, <3>3
    <3>5. sanitized[v] \in values
      BY <3>3
    <3>6. CASE key = "secret"
      <4>1. shown[i] = <<"secret", [is |-> "redacted"]>>
        BY <3>4, <3>6
      <4>2. QED
        BY <4>1 DEF Pairs
    <3>7. CASE key = "plain"
      <4>1. shown[i] = <<"plain", sanitized[v]>>
        BY <3>4, <3>7
      <4>2. QED
        BY <3>5, <4>1 DEF Pairs
    <3>8. QED
      BY <3>3, <3>6, <3>7
  <2>6. Mark \in Pairs(values)
    BY <1>2 DEF Mark, Pairs
  <2>7. shown \in [1..Min({Len(items), MaxItems}) -> Pairs(values)]
    BY <2>2, <2>5 DEF Shown
  <2>8. shown \o MarkIfCut(items, Mark) \in Short(Pairs(values))
    BY <2>4, <2>6, <2>7, CutIs, Zenon
  <2>9. QED
    BY <2>3, <2>8 DEF Wrapped
<1>5. CASE value.is = "list"
  <2>1. PICK items : items = value.items /\ items \in Seq(Extras)
    BY <1>1, <1>5
  <2>2. PICK shown : shown = [i \in Shown(items) |-> sanitized[items[i]]]
    OBVIOUS
  <2>3. Sanitize(value, sanitized) = [is |-> "list", items |-> shown \o MarkIfCut(items, MarkOfList)]
    <3>1. value.is # "dict"
      BY <1>5
    <3>2. QED
      BY <1>5, <2>1, <2>2, <3>1 DEF Sanitize, MarkOfList
  <2>4. Len(items) \in Nat
    BY <2>1
  <2>5. ASSUME NEW i \in Shown(items)
        PROVE  shown[i] \in values
    <3>1. i \in 1..Len(items)
      <4>1. PICK m : m = Min({Len(items), MaxItems})
        OBVIOUS
      <4>2. m = IF Len(items) <= MaxItems THEN Len(items) ELSE MaxItems
        BY <1>3, <2>4, <4>1, MinOfTwo
      <4>3. i \in 1..m
        BY <4>1 DEF Shown
      <4>4. QED
        BY <1>3, <2>4, <4>2, <4>3
    <3>2. items[i] \in Extras
      BY <2>1, <3>1
    <3>3. QED
      BY <2>2, <3>2
  <2>6. shown \in [1..Min({Len(items), MaxItems}) -> values]
    BY <2>2, <2>5 DEF Shown
  <2>7. shown \o MarkIfCut(items, MarkOfList) \in Short(values)
    BY <2>4, <2>6, CutIs, Zenon
  <2>8. QED
    BY <2>3, <2>7 DEF Wrapped
<1>6. CASE value.is \notin {"dict", "list"}
  <2>1. Sanitize(value, sanitized) = Leaf(value)
    BY <1>6 DEF Sanitize
  <2>2. Leaf(value) \in Leaves
    BY <1>1, <1>6 DEF Leaf, Leaves
  <2>3. QED
    BY <2>1, <2>2 DEF Wrapped
<1>7. QED
  BY <1>4, <1>5, <1>6

(* Leaves are small, and so is the mark of a list above them. *)
LEMMA SmallHas ==
  ASSUME NEW n \in 0..(MaxDepth + 2)
  PROVE  Leaves \subseteq Small[n] /\ (n > 0 => MarkOfList \in Small[n])
<1>0. MaxDepth \in Nat /\ MaxItems \in Nat
  BY LogSanitizerAssumption
<1>1. [is |-> "number"] \in Leaves
  BY DEF Leaves
<1>2. CASE n = 0
  BY <1>2, SmallIs DEF Wraps
<1>3. CASE n > 0
  <2>1. n \in 1..(MaxDepth + 2) /\ n - 1 \in 0..(MaxDepth + 2)
    BY <1>0, <1>3
  <2>2. PICK values : values = Small[n - 1]
    OBVIOUS
  <2>3. Small[n] = Wrapped(values)
    BY <2>1, <2>2, SmallIs DEF Wraps
  <2>4. [is |-> "number"] \in values
    <3>1. CASE n = 1
      BY <1>1, <2>2, <3>1, SmallIs DEF Wraps
    <3>2. CASE n # 1
      <4>1. n - 1 \in 1..(MaxDepth + 2)
        BY <2>1, <3>2
      <4>2. values = Wrapped(Small[(n - 1) - 1])
        BY <2>2, <4>1, SmallIs DEF Wraps
      <4>3. QED
        BY <1>1, <4>2 DEF Wrapped
    <3>3. QED
      BY <3>1, <3>2
  <2>5. Mark \in Pairs(values)
    BY <2>4 DEF Mark, Pairs
  <2>6. << Mark >> \in Short(Pairs(values))
    <3>1. << Mark >> \in Seq(Pairs(values)) /\ Len(<< Mark >>) = 1
      BY <2>5, Singleton
    <3>2. QED
      BY <1>0, <3>1 DEF Short
  <2>7. MarkOfList \in Wrapped(values)
    BY <2>6 DEF MarkOfList, Wrapped
  <2>8. Leaves \subseteq Wrapped(values)
    BY DEF Wrapped
  <2>9. QED
    BY <2>3, <2>7, <2>8
<1>4. QED
  BY <1>2, <1>3

(* Whatever a caller gives as extras, and however deep and long it is, what
   sanitize_for_log keeps of it is of a bounded depth and width, with no secret
   in clear: the recursion of the code, level by level. *)
THEOREM SanitizedIsSmall ==
  ASSUME NEW value \in Extras
  PROVE  SanitizeForLog(value) \in Small[MaxDepth + 2]
<1> DEFINE n == MaxDepth + 1
           T == {left \in 0..n : \A v \in Extras : Sanitizing[left][v] \in Small[left + 1]}
<1>1. n \in Nat /\ MaxDepth + 2 = n + 1
  BY LogSanitizerAssumption
<1> HIDE DEF n
<1>2. 0 \in T
  <2>1. Sanitizing[0] = TextOnly
    BY SanitizingIs DEF Sanitizes
  <2>2. [is |-> "text"] \in Leaves
    BY DEF Leaves
  <2>3. Leaves \subseteq Small[1]
    BY <1>1, SmallHas
  <2>4. QED
    BY <1>1, <2>1, <2>2, <2>3 DEF TextOnly
<1>3. ASSUME NEW left \in 0..(n - 1), left \in T
      PROVE  left + 1 \in T
  <2>1. /\ left + 1 \in 1..n /\ left + 1 \in 0..n /\ (left + 1) - 1 = left /\ left + 1 > 0
        /\ left + 1 \in 0..(MaxDepth + 2) /\ left + 2 \in 1..(MaxDepth + 2) /\ (left + 2) - 1 = left + 1
        /\ (left + 1) + 1 = left + 2
    BY <1>1
  <2>2. PICK values : values = Small[left + 1]
    OBVIOUS
  <2>3. PICK sanitized : sanitized = Sanitizing[left]
    OBVIOUS
  <2>4. Leaves \subseteq values /\ MarkOfList \in values
    BY <2>1, <2>2, SmallHas
  <2>5. \A v \in Extras : sanitized[v] \in values
    BY <1>3, <2>2, <2>3
  <2>6. Small[left + 2] = Wrapped(values)
    BY <2>1, <2>2, SmallIs DEF Wraps
  <2>7. Sanitizing[left + 1] = Deeper(sanitized)
    BY <2>1, <2>3, SanitizingIs DEF Sanitizes, n
  <2>8. ASSUME NEW v \in Extras
        PROVE  Sanitizing[left + 1][v] \in Small[left + 2]
    <3>1. Sanitizing[left + 1][v] = Sanitize(v, sanitized)
      BY <2>7 DEF Deeper
    <3>2. Sanitize(v, sanitized) \in Wrapped(values)
      BY <2>4, <2>5, SanitizeIs, Zenon
    <3>3. QED
      BY <2>6, <3>1, <3>2
  <2>9. QED
    BY <2>1, <2>8
<1>4. \A left \in 0..n : left \in T
  <2> HIDE DEF T
  <2>1. QED
    BY <1>1, <1>2, <1>3, Induction
<1>5. n \in 0..n
  BY <1>1
<1>6. Sanitizing[n][value] \in Small[n + 1]
  BY <1>4, <1>5
<1>7. QED
  BY <1>1, <1>6 DEF SanitizeForLog, n

----------------------------------------------------------------------------
(* The rows that are appended *)

Metadata(row) == row.extras \in Small[MaxDepth + 2] /\ row.count \in Nat

\* A call that has a row to append has one that is bounded.
HasRow(call) == call.at \in BeforeRow => "row" \in DOMAIN call /\ Metadata(call.row)

MetadataInv ==
  /\ \A a \in Actors : HasRow(caller[a])
  /\ \A i \in DOMAIN appended : Metadata(appended[i])

LEMMA RowIsMetadata ==
  ASSUME NEW hash, NEW status, NEW count \in Int, NEW extras \in Extras
  PROVE  Metadata(Row(hash, status, count, extras))
<1>1. Max({0, count}) \in Nat
  BY MaxOfTwo
<1>2. SanitizeForLog(extras) \in Small[MaxDepth + 2]
  BY SanitizedIsSmall
<1>3. PICK clean, n : clean = SanitizeForLog(extras) /\ n = Max({0, count})
  OBVIOUS
<1>4. Row(hash, status, count, extras) = [hash |-> hash, status |-> status, count |-> n, extras |-> clean]
  BY <1>3 DEF Row
<1>5. QED
  BY <1>1, <1>2, <1>3, <1>4 DEF Metadata

LEMMA RecordingHasRow ==
  ASSUME NEW call, NEW status, NEW count \in Int, NEW elapsed
  PROVE  HasRow(Recording(call, status, count, elapsed))
<1>1. PICK row, x : row = Row(call.hash, status, count, Diagnostic) /\ x = Max({0, elapsed})
  OBVIOUS
<1>2. Metadata(row)
  BY <1>1, RowIsMetadata, DiagnosticAssumption
<1>3. PICK more : more = [row |-> row, elapsed |-> x]
  OBVIOUS
<1>4. "row" \in DOMAIN more /\ more.row = row
  BY <1>3
<1>5. Recording(call, status, count, elapsed) = Moved(call, "open", more)
  BY <1>1, <1>3 DEF Recording
<1>6. "row" \in DOMAIN Moved(call, "open", more) /\ Moved(call, "open", more).row = row
  BY <1>4 DEF Moved
<1>7. QED
  BY <1>2, <1>5, <1>6 DEF HasRow

LEMMA HandlingHasRow ==
  ASSUME NEW call, NEW error
  PROVE  HasRow(Handling(call, error)) /\ HasRow(Interrupted(call, error))
<1>1. HasRow(Handling(call, error))
  BY RecordingHasRow DEF Handling
<1>2. HasRow(Ended([call EXCEPT !.raise = error.class], "raised"))
  BY DEF HasRow, Ended, BeforeRow
<1>3. QED
  BY <1>1, <1>2 DEF Interrupted

LEMMA EndedHasRow ==
  ASSUME NEW call, NEW stage \in Finished
  PROVE  HasRow(Ended(call, stage)) /\ \A exit : HasRow(Moved(Ended(call, stage), stage, [exit |-> exit]))
<1>1. Ended(call, stage).at = stage /\ "at" \in DOMAIN Ended(call, stage) /\ stage \notin BeforeRow
  BY DEF Ended, Finished, BeforeRow
<1>2. \A exit : Moved(Ended(call, stage), stage, [exit |-> exit]).at = stage
  BY <1>1 DEF Moved
<1>3. QED
  BY <1>1, <1>2 DEF HasRow

LEMMA OneHasRow ==
  ASSUME HistoryInv, MetadataInv, NEW a \in Actors, NEW call, caller' = [caller EXCEPT ![a] = call],
         HasRow(call), UNCHANGED appended
  PROVE  MetadataInv'
<1>1. \A b \in Actors : caller'[b] = IF b = a THEN call ELSE caller[b]
  BY CallMoved
<1>2. QED
  BY <1>1 DEF MetadataInv

\* A call begins.
LEMMA CallingHasRow ==
  ASSUME HistoryInv, MetadataInv, NEW a \in Actors, Calling(a)
  PROVE  MetadataInv'
<1>1. PICK request \in Requests[a] : CallExecute(a, request) \/ CallRecord(a, request) \/ CallTrace(a, request)
  BY DEF Calling
<1>2. CASE CallExecute(a, request)
  <2>1. PICK call : call = [at |-> "execute", how |-> request.how, hash |-> request.text, start |-> clock,
                            statuses |-> << >>, raise |-> ""]
    OBVIOUS
  <2>2. HasRow(call)
    BY <2>1 DEF HasRow, BeforeRow
  <2>3. QED
    BY <1>2, <2>1, <2>2, OneHasRow DEF CallExecute
<1>3. CASE CallRecord(a, request)
  <2>1. request.count \in Int /\ request.extras \in Extras
    BY <1>3, RequestsAssumption DEF CallRecord
  <2>2. PICK row : row = Row(request.text, request.status, request.count, request.extras) /\ Metadata(row)
    BY <2>1, RowIsMetadata
  <2>3. PICK call : call = [at |-> "open", how |-> "record", hash |-> request.text, start |-> clock,
                            statuses |-> << >>, raise |-> "", elapsed |-> 0, row |-> row]
    OBVIOUS
  <2>4. HasRow(call)
    BY <2>2, <2>3 DEF HasRow
  <2>5. caller' = [caller EXCEPT ![a] = call] /\ appended' = appended
    BY <1>3, <2>2, <2>3 DEF CallRecord
  <2>6. QED
    BY <2>4, <2>5, OneHasRow
<1>4. CASE CallTrace(a, request)
  <2>1. PICK call : call = [at |-> "open trace", how |-> "trace", hash |-> request.text, start |-> clock,
                            statuses |-> <<request.status>>, raise |-> "", stages |-> request.stages]
    OBVIOUS
  <2>2. HasRow(call)
    BY <2>1 DEF HasRow, BeforeRow
  <2>3. QED
    BY <1>4, <2>1, <2>2, OneHasRow DEF CallTrace
<1>5. QED
  BY <1>1, <1>2, <1>3, <1>4

\* What a call has found is counted.
LEMMA ResultsAreCounted ==
  ASSUME QueryInv, NEW a \in Actors, At(a, "done")
  PROVE  Len(job[a].results) \in Int
<1>1. PICK call : call = job[a]
  OBVIOUS
<1>2. /\ call.at = "done" /\ call.max \in Int /\ Plain(call.ast)
      /\ Sequence(call.rows) /\ Looked(call, clock)
      /\ call.results = Project(call.passed, call.ast.fields, LimitOf(call.ast, call.max))
  BY <1>1 DEF QueryInv, At, RunInv
<1>3. PICK rows, S : rows = call.rows /\ rows \in Seq(S)
  BY <1>2 DEF Sequence
<1>4. PICK kept : Selects(call, kept, {}, clock)
  BY <1>2 DEF Looked
<1>5. Sublist(rows, kept) \in Seq(S) /\ call.passed = Sublist(rows, kept)
  BY <1>3, <1>4, SublistHas DEF Selects
<1>6. Len(call.passed) \in Nat
  BY <1>5
<1>7. LimitOf(call.ast, call.max) \in 1..MaxTop
  BY <1>2, LimitIs DEF Plain
<1>8. QED
  BY <1>1, <1>2, <1>6, <1>7, ProjectIs

\* The steps of a call that change what it has.
LEMMA StepHasRow ==
  ASSUME HistoryInv, QueryInv, MetadataInv, NEW a \in Actors,
         \/ ExecuteReturned(a) \/ ExecuteRaised(a) \/ OpenLog(a) \/ ReadRows(a) \/ OpenTmp(a) \/ WriteTmp(a)
         \/ ReplaceLog(a) \/ ReplaceRaises(a) \/ OpenTrace(a) \/ WriteTrace(a) \/ TraceRaises(a)
         \/ CliReturns(a) \/ CliRaises(a) \/ Crash(a)
  PROVE  MetadataInv'
<1>1. PICK call : call = caller[a]
  OBVIOUS
<1>2. "at" \in DOMAIN call /\ HasRow(call)
  BY <1>1 DEF HistoryInv, CallInv, MetadataInv
<1>3. UNCHANGED appended
  BY DEF ExecuteReturned, ExecuteRaised, OpenLog, ReadRows, OpenTmp, WriteTmp, ReplaceLog, ReplaceRaises,
         OpenTrace, WriteTrace, TraceRaises, CliReturns, CliRaises, Crash
<1> SUFFICES \E next : caller' = [caller EXCEPT ![a] = next] /\ HasRow(next)
  BY <1>3, OneHasRow
<1>4. CASE ExecuteReturned(a)
  <2>1. HasRow(Recording(call, "ok", Len(job[a].results), clock - call.start))
    BY <1>4, ResultsAreCounted, RecordingHasRow DEF ExecuteReturned
  <2>2. QED
    BY <1>1, <1>4, <2>1 DEF ExecuteReturned
<1>5. CASE ExecuteRaised(a) \/ ReplaceRaises(a) \/ TraceRaises(a)
  BY <1>5, HandlingHasRow DEF ExecuteRaised, ReplaceRaises, TraceRaises
<1>6. CASE OpenLog(a)
  <2>1. PICK file : caller' = [caller EXCEPT ![a] = Moved(call, "append", [file |-> file])] /\ call.at = "open"
    BY <1>1, <1>6 DEF OpenLog, In
  <2>2. PICK more, next : more = [file |-> file] /\ next = Moved(call, "append", more)
    OBVIOUS
  <2>3. "row" \in DOMAIN call /\ Metadata(call.row)
    BY <1>2, <2>1 DEF HasRow, BeforeRow
  <2>4. "row" \in DOMAIN next /\ next.row = call.row
    BY <2>2, <2>3 DEF Moved
  <2>5. HasRow(next)
    BY <2>3, <2>4 DEF HasRow
  <2>6. QED
    BY <2>1, <2>2, <2>5
<1>7. CASE ReadRows(a)
  <2>1. PICK rows : caller' = [caller EXCEPT ![a] = Moved(call, "open tmp", [newest |-> rows])]
    BY <1>1, <1>7 DEF ReadRows
  <2>2. Moved(call, "open tmp", [newest |-> rows]).at = "open tmp"
    BY <1>2 DEF Moved
  <2>3. QED
    BY <2>1, <2>2 DEF HasRow, BeforeRow
<1>8. CASE OpenTmp(a) \/ WriteTmp(a) \/ OpenTrace(a)
  <2>1. \/ \E file : caller' = [caller EXCEPT ![a] = [call EXCEPT !.at = "write tmp", !.file = file]]
        \/ \E stage \in {"replace", "write trace"} : caller' = [caller EXCEPT ![a] = [call EXCEPT !.at = stage]]
    <3>1. CASE OpenTmp(a)
      <4>1. PICK file : caller' = [caller EXCEPT ![a].at = "write tmp", ![a].file = file]
        BY <3>1 DEF OpenTmp
      <4>2. caller' = [caller EXCEPT ![a] = [call EXCEPT !.at = "write tmp", !.file = file]]
        BY <1>1, <4>1 DEF HistoryInv
      <4>3. QED
        BY <4>2
    <3>2. CASE WriteTmp(a) \/ OpenTrace(a)
      BY <1>1, <3>2 DEF WriteTmp, OpenTrace
    <3>3. QED
      BY <1>8, <3>1, <3>2
  <2>2. ASSUME NEW file, NEW stage \in {"replace", "write trace"}
        PROVE  /\ HasRow([call EXCEPT !.at = "write tmp", !.file = file])
               /\ HasRow([call EXCEPT !.at = stage])
    BY <1>2 DEF HasRow, BeforeRow
  <2>3. QED
    BY <2>1, <2>2
<1>9. CASE ReplaceLog(a)
  <2>1. HasRow(Closed([call EXCEPT !.at = "open trace"]))
    BY <1>2 DEF HasRow, Closed, BeforeRow
  <2>2. HasRow(Ended(call, "returned"))
    BY EndedHasRow DEF Finished
  <2>3. QED
    BY <1>1, <1>9, <2>1, <2>2 DEF ReplaceLog
<1>10. CASE WriteTrace(a)
  <2>1. PICK stage \in Finished : caller' = [caller EXCEPT ![a] = Ended(call, stage)]
    BY <1>1, <1>10 DEF WriteTrace, Finished
  <2>2. QED
    BY <2>1, EndedHasRow
<1>11. CASE CliReturns(a)
  <2>1. HasRow(Moved(Ended(call, "returned"), "returned", [exit |-> 0]))
    BY EndedHasRow DEF Finished
  <2>2. QED
    BY <1>1, <1>11, <2>1 DEF CliReturns
<1>12. CASE CliRaises(a)
  <2>1. PICK class, exit :
          caller' = [caller EXCEPT ![a] = Moved(Ended([call EXCEPT !.raise = class], "raised"), "raised", [exit |-> exit])]
    BY <1>1, <1>12 DEF CliRaises
  <2>2. HasRow(Moved(Ended([call EXCEPT !.raise = class], "raised"), "raised", [exit |-> exit]))
    BY EndedHasRow DEF Finished
  <2>3. QED
    BY <2>1, <2>2
<1>13. CASE Crash(a)
  <2>1. HasRow([at |-> "crashed", hash |-> call.hash])
    BY DEF HasRow, BeforeRow
  <2>2. QED
    BY <1>1, <1>13, <2>1 DEF Crash
<1>14. QED
  BY <1>4, <1>5, <1>6, <1>7, <1>8, <1>9, <1>10, <1>11, <1>12, <1>13

\* The row goes to the log.
LEMMA AppendedIsMetadata ==
  ASSUME HistoryInv, MetadataInv, NEW a \in Actors, AppendRow(a)
  PROVE  MetadataInv'
<1>1. PICK call, row : call = caller[a] /\ row = call.row
  OBVIOUS
<1>2. "at" \in DOMAIN call /\ call.at = "append" /\ Metadata(row)
  BY <1>1 DEF HistoryInv, CallInv, MetadataInv, HasRow, AppendRow, In, BeforeRow
<1>3. PICK next : next = [call EXCEPT !.at = "read", !.statuses = Append(@, row.status)]
  OBVIOUS
<1>4. caller' = [caller EXCEPT ![a] = next] /\ appended' = Append(appended, row)
  BY <1>1, <1>3 DEF AppendRow, HistoryInv
<1>5. HasRow(next)
  BY <1>2, <1>3 DEF HasRow, BeforeRow
<1>6. \A b \in Actors : caller'[b] = IF b = a THEN next ELSE caller[b]
  BY <1>4, CallMoved
<1>7. Sequence(appended) /\ Sequence(appended') /\ Len(appended') = Len(appended) + 1
      /\ (\A i \in 1..Len(appended) : appended'[i] = appended[i]) /\ appended'[Len(appended) + 1] = row
  BY <1>4, AppendIs DEF HistoryInv, FilesInv
<1>8. Len(appended) \in Nat /\ DOMAIN appended = 1..Len(appended) /\ DOMAIN appended' = 1..Len(appended')
  BY <1>7, SequenceHas
<1>9. \A i \in DOMAIN appended' : Metadata(appended'[i])
  <2>1. TAKE i \in DOMAIN appended'
  <2>2. CASE i = Len(appended) + 1
    BY <1>2, <1>7, <2>2
  <2>3. CASE i # Len(appended) + 1
    <3>1. i \in 1..Len(appended)
      BY <1>7, <1>8, <2>3
    <3>2. QED
      BY <1>7, <1>8, <3>1 DEF MetadataInv
  <2>4. QED
    BY <2>2, <2>3
<1>10. QED
  BY <1>5, <1>6, <1>9 DEF MetadataInv

LEMMA MetadataNext ==
  ASSUME HistoryInv, QueryInv, MetadataInv, [Next]_vars
  PROVE  MetadataInv'
<1>1. CASE UNCHANGED <<caller, appended>>
  BY <1>1 DEF MetadataInv
<1>2. CASE Environment \/ UNCHANGED vars
  BY <1>1, <1>2 DEF Environment, vars
<1>3. ASSUME NEW a \in Actors, Calling(a) \/ Step(a) \/ Crash(a)
      PROVE  MetadataInv'
  BY <1>1, <1>3, CallingHasRow, StepHasRow, AppendedIsMetadata DEF Step, Executing
<1>4. QED
  BY <1>2, <1>3 DEF Next

LEMMA MetadataInit == Init => MetadataInv
BY DEF Init, Idle, MetadataInv, HasRow, BeforeRow

(* Every row that is ever appended to the log is metadata of a bounded size:
   whatever a caller of record_query_history gives as extras, sanitize_for_log
   leaves dicts and lists down to MAX_SANITIZE_DEPTH only, one item more than
   MAX_DICT_ITEMS and MAX_LIST_ITEMS for the mark of what was cut, and no secret
   in clear, and record_query_history makes the count a natural number. *)
THEOREM RowsBounded == Spec => []RowsAreBounded
<1>1. MetadataInv => RowsAreBounded
  BY DEF MetadataInv, Metadata, RowsAreBounded
<1>2. Init => HistoryInv /\ NewestInv /\ QueryInv /\ MetadataInv
  BY HistoryInit, QueryInit, MetadataInit
<1>3. (HistoryInv /\ NewestInv /\ QueryInv /\ MetadataInv) /\ [Next]_vars
        => (HistoryInv /\ NewestInv /\ QueryInv /\ MetadataInv)'
  BY HistoryNext, QueryNext, MetadataNext
<1>4. QED
  BY <1>1, <1>2, <1>3, PTL DEF Spec

=============================================================================
