----------------------------- MODULE WalProofs -----------------------------
(***************************************************************************)
(* Facts about framed logs: what a reader sees of any log, and what an     *)
(* append leaves as it was.  Induction over the length of a log goes       *)
(* through the least element of a set of naturals.  Then the facts about   *)
(* the write-ahead log: the numbers next_seq gives out, what               *)
(* recover_transactions returns, and that a commitment is never undone by  *)
(* an append.                                                              *)
(***************************************************************************)
EXTENDS Wal, FiniteSetTheorems, WellFoundedInduction, TLAPS

----------------------------------------------------------------------------
(* Framed logs *)

(* Every nonempty set of naturals has a least element. *)
LEMMA LeastNatural ==
  ASSUME NEW S \in SUBSET Nat, S # {}
  PROVE  \E x \in S : \A y \in S : x <= y
<1> DEFINE R == {ss \in Nat \X Nat : ss[1] < ss[2]}
<1>1. IsWellFoundedOn(R, Nat)
  BY NatLessThanWellFounded, Zenon DEF OpToRel
<1>2. \A x, y \in Nat : y < x => <<y, x>> \in R
  OBVIOUS
<1> HIDE DEF R
<1>3. PICK x \in S : \A y \in S : ~(<<y, x>> \in R)
  BY <1>1, WFMin
<1>4. ASSUME NEW y \in S
      PROVE  x <= y
  <2>1. x \in Nat /\ y \in Nat /\ ~(y < x)
    BY <1>2, <1>3
  <2>2. QED
    BY <2>1
<1>5. QED
  BY <1>4

(* Every nonempty set of naturals with an upper bound has a greatest element. *)
LEMMA GreatestNatural ==
  ASSUME NEW S \in SUBSET Nat, S # {}, NEW n \in Nat, \A x \in S : x <= n
  PROVE  \E x \in S : \A y \in S : x >= y
<1> DEFINE T == {n - x : x \in S}
<1>1. T \in SUBSET Nat /\ T # {}
  <2>1. \A x \in S : n - x \in Nat
    OBVIOUS
  <2>2. QED
    BY <2>1
<1>2. PICK d \in T : \A e \in T : d <= e
  BY <1>1, LeastNatural
<1>3. PICK x \in S : d = n - x
  BY DEF T
<1>4. ASSUME NEW y \in S
      PROVE  x >= y
  <2>1. n - x <= n - y
    BY <1>2, <1>3
  <2>2. QED
    BY <2>1
<1>5. QED
  BY <1>4

(* Finitely many naturals have an upper bound: the least m whose first m
   values have none is not 0, and the bound of the first m - 1 and the m-th
   value give one. *)
LEMMA BoundedValues ==
  ASSUME NEW n \in Nat, NEW f, \A i \in 1..n : f[i] \in Nat
  PROVE  \E b \in Nat : \A i \in 1..n : f[i] <= b
<1> DEFINE Bounded(m) == \E b \in Nat : \A i \in 1..m : f[i] <= b
           Bad == {m \in 0..n : ~Bounded(m)}
<1>1. SUFFICES ASSUME Bad # {}
               PROVE  FALSE
  <2>1. n \in 0..n
    OBVIOUS
  <2>2. Bad = {} => Bounded(n)
    <3> HIDE DEF Bounded
    <3>1. QED
      BY <2>1
  <2> HIDE DEF Bad
  <2>3. QED
    BY <2>2
<1>2. PICK m \in Bad : \A k \in Bad : m <= k
  <2>1. Bad \in SUBSET Nat
    OBVIOUS
  <2> HIDE DEF Bad
  <2>2. QED
    BY <1>1, <2>1, LeastNatural
<1>3. m # 0
  <2>1. Bounded(0)
    BY 0 \in Nat
  <2>2. QED
    BY <2>1
<1>4. PICK b \in Nat : \A i \in 1..(m - 1) : f[i] <= b
  <2>1. m - 1 \in 0..n
    BY <1>3
  <2>2. m - 1 \notin Bad
    <3>1. m \in Nat
      OBVIOUS
    <3> HIDE DEF Bad
    <3>2. QED
      BY <1>2, <3>1
  <2>3. Bounded(m - 1)
    <3> HIDE DEF Bounded
    <3>1. QED
      BY <2>1, <2>2
  <2>4. QED
    BY <2>3
<1>5. PICK c \in Nat : b <= c /\ f[m] <= c
  <2>1. f[m] \in Nat
    BY <1>3
  <2>2. (f[m] <= b /\ b <= b) \/ (b <= f[m] /\ f[m] <= f[m])
    BY <2>1
  <2>3. QED
    BY <2>1, <2>2
<1>6. ASSUME NEW i \in 1..m
      PROVE  f[i] <= c
  <2>1. CASE i = m
    BY <2>1, <1>5
  <2>2. CASE i # m
    <3>1. i \in 1..(m - 1) /\ f[i] \in Nat
      BY <2>2
    <3>2. f[i] <= b
      BY <3>1, <1>4
    <3>3. QED
      BY <3>1, <3>2, <1>5
  <2>3. QED
    BY <2>1, <2>2
<1>7. QED
  BY <1>6

(* The reader yields the whole frames before the first torn one, if any. *)
LEMMA VisibleDef ==
  ASSUME NEW V, NEW log \in Seq(Frames(V))
  PROVE  /\ Visible(log) \in 0..Len(log)
         /\ WholeUpTo(log, Visible(log))
         /\ Visible(log) < Len(log) => ~IsWhole(log[Visible(log) + 1])
<1> DEFINE Torns == {i \in 1..Len(log) : ~IsWhole(log[i])}
<1> SUFFICES \E n \in 0..Len(log) :
               /\ WholeUpTo(log, n)
               /\ n < Len(log) => ~IsWhole(log[n + 1])
  BY DEF Visible
<1>1. CASE Torns = {}
  BY <1>1 DEF WholeUpTo
<1>2. CASE Torns # {}
  <2>1. PICK t \in Torns : \A u \in Torns : t <= u
    <3>1. Torns \in SUBSET Nat
      OBVIOUS
    <3>2. QED
      BY <3>1, <1>2, LeastNatural
  <2>2. t - 1 \in 0..Len(log) /\ WholeUpTo(log, t - 1) /\ ~IsWhole(log[(t - 1) + 1])
    BY <2>1 DEF WholeUpTo
  <2>3. QED
    BY <2>2
<1>3. QED
  BY <1>1, <1>2

(* There is one number of frames that the reader can yield. *)
LEMMA VisibleUnique ==
  ASSUME NEW V, NEW log \in Seq(Frames(V)), NEW n \in 0..Len(log),
         WholeUpTo(log, n), n < Len(log) => ~IsWhole(log[n + 1])
  PROVE  Visible(log) = n
<1> DEFINE m == Visible(log)
<1>1. m \in 0..Len(log) /\ WholeUpTo(log, m) /\ (m < Len(log) => ~IsWhole(log[m + 1]))
  BY VisibleDef
<1>2. ~(m < n)
  BY <1>1 DEF WholeUpTo
<1>3. ~(n < m)
  BY <1>1 DEF WholeUpTo
<1>4. m = n
  <2> HIDE DEF m
  <2>1. QED
    BY <1>1, <1>2, <1>3
<1>5. QED
  BY <1>4

(* A reader sees an appended frame when it is whole and all those before it
   are; otherwise it sees what it saw. *)
LEMMA VisibleAppend ==
  ASSUME NEW V, NEW log \in Seq(Frames(V)), NEW f \in Frames(V)
  PROVE  Visible(Append(log, f)) =
           IF Visible(log) = Len(log) /\ IsWhole(f) THEN Len(log) + 1 ELSE Visible(log)
<1> DEFINE more == Append(log, f)
           n == Visible(log)
<1>1. /\ more \in Seq(Frames(V))
      /\ Len(more) = Len(log) + 1
      /\ more[Len(log) + 1] = f
      /\ \A i \in 1..Len(log) : more[i] = log[i]
  OBVIOUS
<1>2. n \in 0..Len(log) /\ WholeUpTo(log, n) /\ (n < Len(log) => ~IsWhole(log[n + 1]))
  BY VisibleDef
<1> HIDE DEF more, n
<1>3. WholeUpTo(more, n)
  BY <1>1, <1>2 DEF WholeUpTo
<1>4. CASE n = Len(log) /\ IsWhole(f)
  <2>1. WholeUpTo(more, Len(log) + 1)
    BY <1>1, <1>3, <1>4 DEF WholeUpTo
  <2>2. Visible(more) = Len(log) + 1
    BY <1>1, <2>1, VisibleUnique
  <2>3. QED
    BY <1>4, <2>2 DEF more, n
<1>5. CASE ~(n = Len(log) /\ IsWhole(f))
  <2>1. n \in 0..Len(more) /\ ~IsWhole(more[n + 1])
    BY <1>1, <1>2, <1>5
  <2>2. Visible(more) = n
    BY <1>1, <1>3, <2>1, VisibleUnique
  <2>3. QED
    BY <1>5, <2>2 DEF more, n
<1>6. QED
  BY <1>4, <1>5

(* An append adds one to the number of frames of a set that a log holds, or
   none, and that number is a natural one. *)
LEMMA CountAppend ==
  ASSUME NEW V, NEW log \in Seq(V), NEW f \in V, NEW S
  PROVE  LET held == {i \in 1..Len(log) : log[i] \in S}
             more == {i \in 1..Len(Append(log, f)) : Append(log, f)[i] \in S}
         IN  /\ Cardinality(held) \in Nat
             /\ Cardinality(more) = Cardinality(held) + IF f \in S THEN 1 ELSE 0
<1> DEFINE held == {i \in 1..Len(log) : log[i] \in S}
           more == {i \in 1..Len(Append(log, f)) : Append(log, f)[i] \in S}
           last == Len(log) + 1
<1>1. IsFiniteSet(held) /\ Cardinality(held) \in Nat /\ last \notin held
  <2>1. Len(log) \in Nat
    OBVIOUS
  <2>2. IsFiniteSet(1..Len(log))
    BY <2>1, FS_Interval
  <2>3. held \in SUBSET (1..Len(log))
    OBVIOUS
  <2>4. last \notin held
    BY <2>1
  <2> HIDE DEF held, last
  <2>5. IsFiniteSet(held)
    BY <2>2, <2>3, FS_Subset
  <2>6. QED
    BY <2>4, <2>5, FS_CardinalityType
<1>2. more = IF f \in S THEN held \cup {last} ELSE held
  <2>1. /\ Len(Append(log, f)) = last
        /\ Append(log, f)[last] = f
        /\ \A i \in 1..Len(log) : Append(log, f)[i] = log[i]
    OBVIOUS
  <2>2. 1..last = (1..Len(log)) \cup {last}
    OBVIOUS
  <2>3. QED
    BY <2>1, <2>2
<1>3. Cardinality(more) = Cardinality(held) + IF f \in S THEN 1 ELSE 0
  <2> HIDE DEF held, more, last
  <2>1. CASE f \in S
    BY <1>1, <1>2, <2>1, FS_AddElement
  <2>2. CASE f \notin S
    BY <1>1, <1>2, <2>2
  <2>3. QED
    BY <2>1, <2>2
<1>4. QED
  BY <1>1, <1>3

(* What a reader returns are values of the log's type. *)
LEMMA RecordsType ==
  ASSUME NEW V, NEW log \in Seq(Frames(V))
  PROVE  /\ DOMAIN Records(log) = 1..Visible(log)
         /\ Visible(log) \in Nat
         /\ \A i \in 1..Visible(log) : Records(log)[i] \in V
<1>1. Visible(log) \in 0..Len(log) /\ WholeUpTo(log, Visible(log))
  BY VisibleDef
<1>2. ASSUME NEW i \in 1..Visible(log)
      PROVE  Records(log)[i] \in V
  <2>1. log[i] \in Frames(V) /\ IsWhole(log[i])
    BY <1>1 DEF WholeUpTo
  <2>2. QED
    BY <2>1 DEF Frames, IsWhole, Records
<1>3. QED
  BY <1>1, <1>2 DEF Records

(* A torn and a whole frame are frames. *)
LEMMA FrameTypes ==
  ASSUME NEW V
  PROVE  /\ \A v \in V : Whole(v) \in Frames(V) /\ IsWhole(Whole(v)) /\ Whole(v).val = v
         /\ \A g \in Gaps : Torn(g) \in Frames(V) /\ ~IsWhole(Torn(g))
BY DEF Whole, Torn, Frames, IsWhole

(* An append adds its value to what is written, if it writes it in full, and
   takes nothing away. *)
LEMMA WrittenAppend ==
  ASSUME NEW V, NEW log \in Seq(Frames(V)), NEW f \in Frames(V)
  PROVE  /\ Written(log) \subseteq Written(Append(log, f))
         /\ IsWhole(f) => Written(Append(log, f)) = Written(log) \cup {f.val}
         /\ ~IsWhole(f) => Written(Append(log, f)) = Written(log)
<1>1. /\ Len(Append(log, f)) = Len(log) + 1
      /\ Append(log, f)[Len(log) + 1] = f
      /\ \A i \in 1..Len(log) : Append(log, f)[i] = log[i]
  OBVIOUS
<1>2. QED
  BY <1>1 DEF Written

(* What has been written is of the log's type. *)
LEMMA WrittenType ==
  ASSUME NEW V, NEW log \in Seq(Frames(V))
  PROVE  Written(log) \subseteq V
<1>1. \A i \in 1..Len(log) : log[i] \in Frames(V)
  OBVIOUS
<1>2. QED
  BY <1>1 DEF Written, Frames, IsWhole

(* An append leaves every prefix as it was. *)
LEMMA PrefixAppend ==
  ASSUME NEW V, NEW log \in Seq(Frames(V)), NEW f \in Frames(V), NEW n \in 0..Len(log)
  PROVE  Prefix(Append(log, f), n) = Prefix(log, n)
BY DEF Prefix

(* The whole log is its longest prefix. *)
LEMMA PrefixWhole ==
  ASSUME NEW V, NEW log \in Seq(Frames(V))
  PROVE  Prefix(log, Len(log)) = log
BY DEF Prefix

----------------------------------------------------------------------------
(* The write-ahead log *)

(* next_seq returns a number above every number a reader sees. *)
LEMMA NextSeqIsNew ==
  ASSUME NEW log \in Seq(Frames(WalRecords))
  PROVE  /\ NextSeq(log) \in Nat
         /\ \A i \in 1..Visible(log) : Records(log)[i].seq < NextSeq(log)
<1> DEFINE n == Visible(log)
           f == [i \in 1..n |-> Records(log)[i].seq]
           S == {Records(log)[i].seq : i \in 1..n} \cup {0}
<1>1. n \in Nat /\ \A i \in 1..n : Records(log)[i] \in WalRecords
  BY RecordsType
<1>2. \A i \in 1..n : Records(log)[i].seq \in Nat
  BY <1>1 DEF WalRecords
<1>3. PICK b \in Nat : \A i \in 1..n : f[i] <= b
  <2>1. \A i \in 1..n : f[i] \in Nat
    BY <1>2
  <2> HIDE DEF f
  <2>2. QED
    BY <1>1, <2>1, BoundedValues
<1>4. S \in SUBSET Nat /\ S # {} /\ \A x \in S : x <= b
  BY <1>2, <1>3
<1>5. Max(S) \in S /\ \A x \in S : Max(S) >= x
  <2> HIDE DEF S
  <2>1. \E x \in S : \A y \in S : x >= y
    BY <1>4, GreatestNatural
  <2>2. QED
    BY <2>1 DEF Max
<1>6. NextSeq(log) = Max(S) + 1
  BY DEF NextSeq
<1>7. QED
  <2>1. \A i \in 1..n : Records(log)[i].seq \in S
    OBVIOUS
  <2>2. Max(S) \in Nat
    BY <1>4, <1>5
  <2>3. \A i \in 1..n : Max(S) >= Records(log)[i].seq
    BY <1>5, <2>1
  <2> HIDE DEF S
  <2>4. QED
    BY <1>2, <1>6, <2>2, <2>3

(* When the numbers a reader sees are 1, 2, 3..., next_seq goes on with them. *)
LEMMA NextSeqIsNext ==
  ASSUME NEW log \in Seq(Frames(WalRecords)),
         \A i \in 1..Visible(log) : Records(log)[i].seq = i
  PROVE  NextSeq(log) = Visible(log) + 1
<1> DEFINE n == Visible(log)
           S == {Records(log)[i].seq : i \in 1..n} \cup {0}
<1>1. n \in Nat
  BY RecordsType
<1>2. S = 0..n
  BY <1>1
<1>3. Max(S) = n
  <2>1. n \in S /\ \A x \in S : n >= x /\ (x >= n => x = n)
    BY <1>1, <1>2
  <2> HIDE DEF S, n
  <2>2. QED
    BY <2>1 DEF Max
<1>4. NextSeq(log) = Max(S) + 1
  BY DEF NextSeq
<1>5. QED
  <2> HIDE DEF S
  <2>1. QED
    BY <1>3, <1>4

(* Every entry recover_transactions returns is well-formed, and its
   transaction is committed, with the intent of the entry, in what it read. *)
LEMMA CommittedSound ==
  ASSUME NEW n \in Nat, NEW recs, DOMAIN recs = 1..n,
         \A k \in 1..n : recs[k] \in WalRecords,
         NEW e \in Committed(recs)
  PROVE  e \in Intents /\ CommittedIn(recs, e.tx, e.body)
<1>1. PICK t : /\ t \in TxWith(recs, "INTENT")
               /\ t \in TxWith(recs, "COMMIT")
               /\ t \notin TxWith(recs, "ABORT")
               /\ e = IntentOf(recs, t)
  BY DEF Committed
<1> DEFINE at == IntentsOf(recs, t)
<1>2. at \in SUBSET (1..n) /\ at # {}
  BY <1>1 DEF TxWith, IntentsOf
<1>3. Max(at) \in at /\ \A k \in at : Max(at) >= k
  <2>1. at \in SUBSET Nat /\ \A x \in at : x <= n
    BY <1>2
  <2> HIDE DEF at
  <2>2. \E x \in at : \A y \in at : x >= y
    BY <1>2, <2>1, GreatestNatural
  <2>3. QED
    BY <2>2 DEF Max
<1>4. Min(at) \in at
  <2> HIDE DEF at
  <2>1. \E x \in at : \A y \in at : x <= y
    BY <1>2, LeastNatural
  <2>2. QED
    BY <2>1 DEF Min
<1>5. /\ recs[Max(at)] \in WalRecords
      /\ recs[Max(at)].op = "INTENT"
      /\ recs[Max(at)].tx = t
  BY <1>2, <1>3 DEF IntentsOf
<1>6. e = [tx |-> t, body |-> recs[Max(at)].body,
           seq |-> recs[Max(at)].seq, place |-> Min(at)]
  BY <1>1 DEF IntentOf
<1>7. e \in Intents
  <2>1. t \in Tx /\ recs[Max(at)].body \in Bodies /\ recs[Max(at)].seq \in Nat
    BY <1>5 DEF WalRecords
  <2>2. Min(at) \in Nat
    BY <1>2, <1>4
  <2> HIDE DEF at
  <2>3. QED
    BY <1>6, <2>1, <2>2 DEF Intents
<1>8. CommittedIn(recs, e.tx, e.body)
  <2>1. e.tx = t /\ e.body = recs[Max(at)].body
    BY <1>6
  <2>2. \E i \in DOMAIN recs :
          /\ recs[i].op = "INTENT" /\ recs[i].tx = t /\ recs[i].body = recs[Max(at)].body
          /\ \A j \in DOMAIN recs : recs[j].op = "INTENT" /\ recs[j].tx = t => j <= i
    <3>1. Max(at) \in DOMAIN recs /\ Max(at) \in Nat
      BY <1>2, <1>3
    <3>2. ASSUME NEW j \in DOMAIN recs, recs[j].op = "INTENT", recs[j].tx = t
          PROVE  j <= Max(at)
      <4>1. j \in at /\ j \in Nat
        BY <3>2 DEF IntentsOf
      <4>2. Max(at) >= j
        BY <4>1, <1>3
      <4> HIDE DEF at
      <4>3. QED
        BY <4>1, <4>2, <3>1
    <3> HIDE DEF at
    <3>3. QED
      BY <1>5, <3>1, <3>2
  <2>3. \E i \in DOMAIN recs : recs[i].op = "COMMIT" /\ recs[i].tx = t
    BY <1>1 DEF TxWith
  <2>4. \A i \in DOMAIN recs : recs[i].tx = t => recs[i].op # "ABORT"
    BY <1>1 DEF TxWith
  <2> HIDE DEF at
  <2>5. QED
    BY <2>1, <2>2, <2>3, <2>4 DEF CommittedIn
<1>9. QED
  BY <1>7, <1>8

(* What recover_transactions returns for the log as it stands was committed
   at some moment of its life: now. *)
LEMMA ScanIsCommitted ==
  ASSUME wal \in Seq(Frames(WalRecords)), NEW e \in Committed(Records(wal))
  PROVE  e \in Intents /\ OnceCommitted(e.tx, e.body)
<1>1. /\ DOMAIN Records(wal) = 1..Visible(wal)
      /\ Visible(wal) \in Nat
      /\ \A k \in 1..Visible(wal) : Records(wal)[k] \in WalRecords
  BY RecordsType
<1>2. e \in Intents /\ CommittedIn(Records(wal), e.tx, e.body)
  BY <1>1, CommittedSound
<1>3. Prefix(wal, Len(wal)) = wal /\ Len(wal) \in 0..Len(wal)
  BY PrefixWhole
<1>4. QED
  BY <1>2, <1>3 DEF OnceCommitted

(* The log only grows, so what was once committed remains so. *)
LEMMA OnceCommittedStable ==
  ASSUME wal \in Seq(Frames(WalRecords)), NEW f \in Frames(WalRecords),
         wal' = wal \/ wal' = Append(wal, f),
         NEW t, NEW b, OnceCommitted(t, b)
  PROVE  OnceCommitted(t, b)'
<1>1. CASE wal' = wal
  BY <1>1 DEF OnceCommitted
<1>2. CASE wal' = Append(wal, f)
  <2>1. PICK n \in 0..Len(wal) : CommittedIn(Records(Prefix(wal, n)), t, b)
    BY DEF OnceCommitted
  <2>2. n \in 0..Len(wal')
    BY <1>2
  <2>3. Prefix(wal', n) = Prefix(wal, n)
    BY <1>2, PrefixAppend
  <2>4. QED
    BY <2>1, <2>2, <2>3 DEF OnceCommitted
<1>3. QED
  BY <1>1, <1>2
=============================================================================
