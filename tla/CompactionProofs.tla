-------------------------- MODULE CompactionProofs --------------------------
(***************************************************************************)
(* A compaction that dies anywhere leaves a complete snapshot behind, and  *)
(* what a snapshot holds is what its base and its delta log say, for any   *)
(* payloads, names, delta logs and number of compactions.                  *)
(***************************************************************************)
EXTENDS Compaction, TLAPS, FiniteSetTheorems, SequenceTheorems, WellFoundedInduction

LEMMA DirsInit == Init => DirsInv
BY DEF Init, DirsInv, SnapshotKept

LEMMA DirsNext == DirsInv /\ [Next]_vars => DirsInv'
<1> SUFFICES ASSUME DirsInv, [Next]_vars
             PROVE  DirsInv'
  OBVIOUS
<1> USE DEF DirsInv, SnapshotKept
<1>1. CASE UNCHANGED <<final, prev, published>> /\ pc' # "publish"
  BY <1>1
<1>2. CASE UNCHANGED <<final, prev, published, pc>>
  BY <1>2
<1>3. CASE RemovePrev
  BY <1>3 DEF RemovePrev
<1>4. CASE RetireFinal
  BY <1>4 DEF RetireFinal
<1>5. CASE PublishStaging
  <2>1. Complete(final')
    BY <1>5 DEF PublishStaging, Snapshot, Complete
  <2>2. pc' # "publish"
    BY <1>5 DEF PublishStaging, Stop
  <2>3. QED
    BY <2>1, <2>2
<1>6. QED
  BY <1>1, <1>2, <1>3, <1>4, <1>5
     DEF Next, BeginCompaction, LoadInputs, LoadRaises, BuildFiles, Crash, Stop, ExtendLog,
         TearLog, Rebase, dirs, vars

(* From the first snapshot on there is a complete one, wherever compactions die. *)
THEOREM SnapshotIsKept == Spec => []SnapshotKept
<1>1. DirsInv => SnapshotKept
  BY DEF DirsInv
<1>2. QED
  BY <1>1, DirsInit, DirsNext, PTL DEF Spec

----------------------------------------------------------------------------
(* The maps that a replay goes through *)

\* A non-empty set of natural numbers has a least one.
LEMMA LeastNumber ==
  ASSUME NEW T \in SUBSET Nat, T # {}
  PROVE  \E x \in T : \A y \in T : x <= y
<1> DEFINE R == {ss \in Nat \X Nat : ss[1] < ss[2]}
<1>1. IsWellFoundedOn(R, Nat)
  BY NatLessThanWellFounded, Zenon DEF OpToRel
<1>2. \A x, y \in Nat : y < x => <<y, x>> \in R
  OBVIOUS
<1> HIDE DEF R
<1>3. PICK x \in T : \A y \in T : ~(<<y, x>> \in R)
  BY <1>1, WFMin
<1>4. ASSUME NEW y \in T
      PROVE  x <= y
  <2>1. x \in Nat /\ y \in Nat /\ ~(y < x)
    BY <1>2, <1>3
  <2>2. QED
    BY <2>1
<1>5. QED
  BY <1>4

\* What a replay makes of a map at place i: a record of the base, or an entry.
Turn(m, records, log, i) ==
  IF i <= Len(records) THEN Put(m, RecordKey(records[i]), records[i])
  ELSE Apply(m, log, i - Len(records))

\* f has the maps of a replay of the first n places.
Passes(f, records, log, n) ==
  f = [i \in 0..n |-> IF i = 0 THEN Empty ELSE Turn(f[i - 1], records, log, i)]

LEMMA PassesOn ==
  ASSUME NEW records, NEW log, NEW n \in Nat, NEW f, Passes(f, records, log, n)
  PROVE  \E g : Passes(g, records, log, n + 1)
<1> DEFINE g == [i \in 0..(n + 1) |-> IF i = n + 1 THEN Turn(f[n], records, log, n + 1) ELSE f[i]]
<1>1. ASSUME NEW i \in 0..(n + 1)
      PROVE  g[i] = IF i = 0 THEN Empty ELSE Turn(g[i - 1], records, log, i)
  <2>1. CASE i = n + 1
    <3>1. i # 0 /\ i - 1 = n /\ n \in 0..(n + 1) /\ n # n + 1
      BY <2>1
    <3>2. g[i - 1] = f[n] /\ g[i] = Turn(f[n], records, log, n + 1)
      BY <2>1, <3>1
    <3> HIDE DEF g
    <3>3. QED
      BY <2>1, <3>1, <3>2
  <2>2. CASE i # n + 1
    <3>1. i \in 0..n /\ g[i] = f[i]
      BY <2>2
    <3>2. f[i] = IF i = 0 THEN Empty ELSE Turn(f[i - 1], records, log, i)
      BY <3>1 DEF Passes
    <3>3. i # 0 => i - 1 \in 0..(n + 1) /\ i - 1 # n + 1
      BY <3>1
    <3>4. i # 0 => g[i - 1] = f[i - 1]
      BY <3>3
    <3> HIDE DEF g
    <3>5. QED
      BY <3>1, <3>2, <3>4
  <2>3. QED
    BY <2>1, <2>2
<1>2. g = [i \in 0..(n + 1) |-> g[i]]
  OBVIOUS
<1> HIDE DEF g
<1>3. g = [i \in 0..(n + 1) |-> IF i = 0 THEN Empty ELSE Turn(g[i - 1], records, log, i)]
  BY <1>1, <1>2
<1>4. QED
  BY <1>3 DEF Passes

LEMMA ReplayPasses ==
  ASSUME NEW records, NEW log, NEW n \in Nat
  PROVE  \E f : Passes(f, records, log, n)
<1> DEFINE T == {i \in Nat : ~\E f : Passes(f, records, log, i)}
<1>1. 0 \notin T
  <2> DEFINE f == [i \in 0..0 |-> Empty]
  <2>1. f = [i \in 0..0 |-> IF i = 0 THEN Empty ELSE Turn(f[i - 1], records, log, i)]
    OBVIOUS
  <2> HIDE DEF f
  <2>2. Passes(f, records, log, 0)
    BY <2>1 DEF Passes
  <2>3. QED
    BY <2>2
<1>2. ASSUME NEW i \in Nat, i \notin T
      PROVE  i + 1 \notin T
  BY <1>2, PassesOn
<1>3. T = {}
  <2>1. SUFFICES ASSUME T # {}
                 PROVE  FALSE
    OBVIOUS
  <2>2. T \in SUBSET Nat
    OBVIOUS
  <2> HIDE DEF T
  <2>3. PICK x \in T : \A y \in T : x <= y
    BY <2>1, <2>2, LeastNumber
  <2>4. x \in Nat /\ x # 0
    BY <1>1, <2>2
  <2>5. x - 1 \in Nat /\ (x - 1) + 1 = x /\ ~(x <= x - 1)
    BY <2>4
  <2>6. x - 1 \notin T
    BY <2>3, <2>5
  <2>7. QED
    BY <1>2, <2>5, <2>6
<1>4. QED
  BY <1>3

LEMMA ReplayIs ==
  ASSUME NEW records, NEW log, Len(records) \in Nat, Len(log) \in Nat
  PROVE  \E f : /\ Passes(f, records, log, Len(records) + Len(log))
               /\ Replay(records, log) = f[Len(records) + Len(log)]
<1> DEFINE n == Len(records) + Len(log)
           after == CHOOSE f : f = [i \in 0..n |->
             IF i = 0 THEN Empty
             ELSE IF i <= Len(records) THEN Put(f[i - 1], RecordKey(records[i]), records[i])
             ELSE Apply(f[i - 1], log, i - Len(records))]
<1>1. \E f : f = [i \in 0..n |->
        IF i = 0 THEN Empty
        ELSE IF i <= Len(records) THEN Put(f[i - 1], RecordKey(records[i]), records[i])
        ELSE Apply(f[i - 1], log, i - Len(records))]
  <2>1. n \in Nat
    OBVIOUS
  <2> HIDE DEF n
  <2>2. \E f : Passes(f, records, log, n)
    BY <2>1, ReplayPasses
  <2>3. QED
    BY <2>2 DEF Passes, Turn
<1>2. after = [i \in 0..n |->
        IF i = 0 THEN Empty
        ELSE IF i <= Len(records) THEN Put(after[i - 1], RecordKey(records[i]), records[i])
        ELSE Apply(after[i - 1], log, i - Len(records))]
  BY <1>1, Zenon
<1>3. Replay(records, log) = after[n]
  BY Zenon DEF Replay
<1> HIDE DEF after, n
<1>4. Passes(after, records, log, n)
  BY <1>2 DEF Passes, Turn
<1>5. QED
  BY <1>3, <1>4 DEF n

----------------------------------------------------------------------------
(* A whole story *)

IsStory(story) == story.base \in Seq(Payloads) /\ story.log \in Seq(Entries)

LEMMA StoryIs ==
  ASSUME NEW story, IsStory(story)
  PROVE  /\ Len(story.base) \in Nat /\ Len(story.log) \in Nat
         /\ Len(story.base) + Len(story.log) \in Nat
         /\ Places(story) = 1..(Len(story.base) + Len(story.log))
         /\ Places(story) \subseteq Int
         /\ \A j \in 1..Len(story.base) : story.base[j] \in Payloads
         /\ \A j \in 1..Len(story.log) : story.log[j] \in Entries
<1> DEFINE records == story.base
           log == story.log
           b == Len(records)
           l == Len(log)
<1>1. records \in Seq(Payloads) /\ log \in Seq(Entries)
  BY DEF IsStory
<1>2. Places(story) = 1..(b + l)
  BY Zenon DEF Places
<1> HIDE DEF records, log
<1>3. /\ b \in Nat /\ l \in Nat
      /\ \A j \in 1..b : records[j] \in Payloads
      /\ \A j \in 1..l : log[j] \in Entries
  BY <1>1, ElementOfSeq, LenProperties
<1> HIDE DEF b, l
<1>4. b + l \in Nat /\ 1..(b + l) \subseteq Int
  BY <1>3
<1> DEFINE P == Places(story)
<1>5. P = 1..(b + l) /\ P \subseteq Int
  <2> HIDE DEF P
  <2>1. P = 1..(b + l)
    BY <1>2 DEF P
  <2>2. QED
    BY <1>4, <2>1
<1>6. QED
  BY <1>3, <1>4, <1>5 DEF b, l, records, log

\* The places up to i that store a payload under a key not mentioned again up to i.
LastUpTo(story, i) ==
  {n \in Stores(story) : /\ n <= i
                         /\ \A m \in Mentions(story) :
                              m > n /\ m <= i => KeyAt(story, m) # KeyAt(story, n)}

\* What SnapshotIsReplay says of a map, of the first i places.
Tells(m, story, i) ==
  /\ m = [k \in DOMAIN m |-> m[k]]
  /\ DOMAIN m = {KeyAt(story, n) : n \in LastUpTo(story, i)}
  /\ \A n \in LastUpTo(story, i) : m[KeyAt(story, n)] = PayloadAt(story, n)

\* A replay does at a place what the place says.
LEMMA TurnIs ==
  ASSUME NEW story, IsStory(story), NEW m, NEW i \in Places(story)
  PROVE  LET next == Turn(m, story.base, story.log, i)
         IN  /\ i \in Stores(story) => next = Put(m, KeyAt(story, i), PayloadAt(story, i))
             /\ i \in Mentions(story) \ Stores(story) => next = Drop(m, KeyAt(story, i))
             /\ i \notin Mentions(story) => next = m
             /\ i \in Stores(story) => i \in Mentions(story) /\ PayloadAt(story, i) \in Payloads
<1> DEFINE next == Turn(m, story.base, story.log, i)
           l == Len(story.base)
           e == EntryAt(story, i)
           k == Len(story.log)
<1>1. /\ l \in Nat /\ k \in Nat /\ i \in 1..(l + k)
      /\ \A j \in 1..l : story.base[j] \in Payloads
      /\ \A j \in 1..k : story.log[j] \in Entries
  BY StoryIs
<1>2. CASE i <= l
  <2>1. InBase(story, i) /\ i \in Stores(story) /\ i \in Mentions(story)
    BY <1>2 DEF InBase, Stores, Mentions
  <2>2. KeyAt(story, i) = RecordKey(story.base[i]) /\ PayloadAt(story, i) = story.base[i]
    BY <2>1 DEF KeyAt, PayloadAt
  <2>3. story.base[i] \in Payloads
    BY <1>1, <1>2
  <2>4. QED
    BY <1>2, <2>1, <2>2, <2>3 DEF Turn
<1>3. CASE ~(i <= l)
  <2>1. ~InBase(story, i) /\ i - l \in 1..k /\ e = story.log[i - l]
    <3>1. ~InBase(story, i) /\ e = story.log[i - l]
      BY <1>3 DEF InBase, EntryAt
    <3>2. i - l \in 1..k
      <4> HIDE DEF l, k
      <4>1. QED
        BY <1>1, <1>3
    <3>3. QED
      BY <3>1, <3>2
  <2>2. e \in Entries /\ e.op \in {"UPSERT", "DELETE", "OTHER"}
    BY <1>1, <2>1 DEF Entries
  <2>3. /\ i \in Stores(story) <=> e.op = "UPSERT"
        /\ i \in Mentions(story) <=> e.op # "OTHER"
    BY <2>1 DEF Stores, Mentions
  <2>4. KeyAt(story, i) = EntryKey(story.log, i - l) /\ PayloadAt(story, i) = e.val
    BY <2>1 DEF KeyAt, PayloadAt
  <2>5. next = Apply(m, story.log, i - l)
    BY <1>3 DEF Turn
  <2>6. e.op = "UPSERT" => e.val \in Payloads
    BY <2>2 DEF Entries
  <2> HIDE DEF next, e
  <2>7. /\ e.op = "UPSERT" => next = Put(m, EntryKey(story.log, i - l), e.val)
        /\ e.op = "DELETE" => next = Drop(m, EntryKey(story.log, i - l))
        /\ e.op = "OTHER" => next = m
    BY <2>1, <2>5 DEF Apply
  <2>8. QED
    BY <2>2, <2>3, <2>4, <2>6, <2>7 DEF next
<1>4. QED
  BY <1>2, <1>3

LEMMA TellsOn ==
  ASSUME NEW story, IsStory(story), NEW m, NEW i \in Places(story), Tells(m, story, i - 1)
  PROVE  Tells(Turn(m, story.base, story.log, i), story, i)
<1> DEFINE next == Turn(m, story.base, story.log, i)
           key == KeyAt(story, i)
           old == LastUpTo(story, i - 1)
           new == LastUpTo(story, i)
<1>1. /\ i \in Stores(story) => next = Put(m, key, PayloadAt(story, i)) /\ i \in Mentions(story)
      /\ i \in Mentions(story) \ Stores(story) => next = Drop(m, key)
      /\ i \notin Mentions(story) => next = m
  BY TurnIs
<1>2. /\ Mentions(story) \subseteq Int /\ Stores(story) \subseteq Int /\ i \in Int
      /\ Stores(story) \subseteq Mentions(story)
  <2>1. Places(story) \subseteq Int
    BY StoryIs
  <2>2. Stores(story) \subseteq Mentions(story)
    BY DEF Stores, Mentions
  <2>3. QED
    BY <2>1, <2>2 DEF Stores, Mentions
<1>3. ASSUME NEW n \in Stores(story)
      PROVE  n \in new <=> \/ n = i
                           \/ n \in old /\ (i \in Mentions(story) => key # KeyAt(story, n))
  <2>1. \A p \in Int : (p <= i <=> p <= i - 1 \/ p = i) /\ (p > i => ~(p <= i)) /\ ~(i <= i - 1)
    BY <1>2
  <2>2. CASE n = i
    BY <1>2, <2>1, <2>2 DEF LastUpTo
  <2>3. CASE n # i
    <3>1. n <= i - 1 => i > n
      BY <1>2
    <3>2. QED
      BY <1>2, <2>1, <2>3, <3>1 DEF LastUpTo
  <2>4. QED
    BY <2>2, <2>3
<1>4. old \subseteq Stores(story) /\ new \subseteq Stores(story) /\ i \notin old
  <2>1. ~(i <= i - 1)
    BY <1>2
  <2>2. QED
    BY <2>1 DEF LastUpTo
<1>5. /\ m = [k \in DOMAIN m |-> m[k]]
      /\ DOMAIN m = {KeyAt(story, n) : n \in old}
      /\ \A n \in old : m[KeyAt(story, n)] = PayloadAt(story, n)
  BY DEF Tells
<1> HIDE DEF next, key, old, new
<1>6. CASE i \in Stores(story)
  <2>1. next = Put(m, key, PayloadAt(story, i)) /\ i \in new /\ i \in Mentions(story)
    BY <1>1, <1>3, <1>6
  <2>2. /\ next = [k \in DOMAIN next |-> next[k]] /\ DOMAIN next = DOMAIN m \cup {key}
        /\ next[key] = PayloadAt(story, i) /\ \A k \in DOMAIN m \ {key} : next[k] = m[k]
    BY <2>1 DEF Put
  <2>3. new = {n \in old : key # KeyAt(story, n)} \cup {i}
    BY <1>3, <1>4, <1>6, <2>1
  <2>4. DOMAIN next = {KeyAt(story, n) : n \in new}
    BY <1>5, <2>2, <2>3 DEF key
  <2>5. \A n \in new : next[KeyAt(story, n)] = PayloadAt(story, n)
    BY <1>5, <2>2, <2>3 DEF key
  <2>6. QED
    BY <2>2, <2>4, <2>5 DEF Tells, next, new
<1>7. CASE i \in Mentions(story) \ Stores(story)
  <2>1. next = Drop(m, key)
    BY <1>1, <1>7
  <2>2. /\ next = [k \in DOMAIN next |-> next[k]] /\ DOMAIN next = DOMAIN m \ {key}
        /\ \A k \in DOMAIN m \ {key} : next[k] = m[k]
    BY <2>1 DEF Drop
  <2>3. new = {n \in old : key # KeyAt(story, n)}
    BY <1>3, <1>4, <1>7
  <2>4. DOMAIN next = {KeyAt(story, n) : n \in new}
    BY <1>5, <2>2, <2>3
  <2>5. \A n \in new : next[KeyAt(story, n)] = PayloadAt(story, n)
    BY <1>5, <2>2, <2>3
  <2>6. QED
    BY <2>2, <2>4, <2>5 DEF Tells, next, new
<1>8. CASE i \notin Mentions(story)
  <2>1. next = m /\ new = old
    BY <1>1, <1>2, <1>3, <1>4, <1>8
  <2>2. QED
    BY <1>5, <2>1 DEF Tells, next, new
<1>9. QED
  BY <1>6, <1>7, <1>8

\* A map that is the replay of what it comes from.
Replayed(m, story) ==
  /\ IsStory(story) /\ IsMap(m)
  /\ DOMAIN m = {KeyAt(story, n) : n \in LastStores(story)}
  /\ \A n \in LastStores(story) : m[KeyAt(story, n)] = PayloadAt(story, n)

LEMMA ReplayTells ==
  ASSUME NEW story, IsStory(story)
  PROVE  Replayed(Replay(story.base, story.log), story)
<1> DEFINE L == Len(story.base) + Len(story.log)
<1>1. Len(story.base) \in Nat /\ Len(story.log) \in Nat /\ L \in Nat /\ Places(story) = 1..L
  BY StoryIs
<1>2. PICK f : Passes(f, story.base, story.log, L) /\ Replay(story.base, story.log) = f[L]
  BY <1>1, ReplayIs
<1> HIDE DEF L
<1>3. \A i \in 0..L : f[i] = IF i = 0 THEN Empty ELSE Turn(f[i - 1], story.base, story.log, i)
  BY <1>2 DEF Passes
<1> DEFINE good(i) == Tells(f[i], story, i)
           T == {i \in 0..L : ~good(i)}
<1>4. good(0)
  <2>1. f[0] = Empty
    BY <1>1, <1>3
  <2>2. LastUpTo(story, 0) = {}
    BY <1>1 DEF LastUpTo, Stores
  <2>3. DOMAIN Empty = {} /\ Empty = [k \in DOMAIN Empty |-> Empty[k]]
    BY DEF Empty
  <2>4. QED
    BY <2>1, <2>2, <2>3 DEF Tells
<1>5. ASSUME NEW i \in 0..L, i # 0, good(i - 1)
      PROVE  good(i)
  <2>1. i \in Places(story)
    BY <1>1, <1>5
  <2>2. f[i] = Turn(f[i - 1], story.base, story.log, i)
    BY <1>3, <1>5
  <2>3. QED
    BY <1>5, <2>1, <2>2, TellsOn
<1> HIDE DEF good
<1>6. T = {}
  <2>1. SUFFICES ASSUME T # {}
                 PROVE  FALSE
    OBVIOUS
  <2>2. T \in SUBSET Nat
    OBVIOUS
  <2>3. PICK x \in T : \A y \in T : x <= y
    BY <2>1, <2>2, LeastNumber
  <2>4. x \in 0..L /\ x # 0
    BY <1>4, <2>3
  <2>5. x - 1 \in 0..L /\ ~(x <= x - 1)
    BY <1>1, <2>4
  <2>6. good(x - 1)
    BY <2>3, <2>5
  <2>7. QED
    BY <1>5, <2>3, <2>4, <2>6
<1>7. Tells(f[L], story, L)
  BY <1>1, <1>6 DEF good
<1>8. LastUpTo(story, L) = LastStores(story)
  <2>1. \A n \in Places(story) : n <= L
    BY <1>1
  <2>2. Stores(story) \subseteq Places(story) /\ Mentions(story) \subseteq Places(story)
    BY DEF Stores, Mentions
  <2>3. QED
    BY <2>1, <2>2 DEF LastUpTo, LastStores
<1>9. \A n \in LastStores(story) : PayloadAt(story, n) \in Payloads
  BY TurnIs DEF LastStores, Stores
<1>10. IsMap(f[L])
  BY <1>7, <1>8, <1>9 DEF Tells, IsMap, Values
<1>11. QED
  BY <1>2, <1>7, <1>8, <1>10 DEF Tells, Replayed

----------------------------------------------------------------------------
(* Fallbacks *)

\* The number of upserts of a kind before an upsert of it is less than after it.
LEMMA UpsertsGrow ==
  ASSUME NEW log, NEW i \in Nat \ {0}, NEW j \in Nat \ {0}, i < j,
         NEW kind, log[i].op = "UPSERT", log[i].val.kind = kind
  PROVE  Upserts(log, i, kind) # Upserts(log, j, kind)
<1> DEFINE before == {n \in 1..(i - 1) : log[n].op = "UPSERT" /\ log[n].val.kind = kind}
           after == {n \in 1..(j - 1) : log[n].op = "UPSERT" /\ log[n].val.kind = kind}
<1>1. IsFiniteSet(before) /\ IsFiniteSet(after)
  <2>1. IsFiniteSet(1..(i - 1)) /\ IsFiniteSet(1..(j - 1))
    <3>1. 1 \in Int /\ i - 1 \in Int /\ j - 1 \in Int
      OBVIOUS
    <3>2. QED
      BY <3>1, FS_Interval
  <2>2. before \in SUBSET (1..(i - 1)) /\ after \in SUBSET (1..(j - 1))
    OBVIOUS
  <2> HIDE DEF before, after
  <2>3. QED
    BY <2>1, <2>2, FS_Subset
<1>2. before \cup {i} \in SUBSET after /\ i \notin before
  OBVIOUS
<1>3. Upserts(log, i, kind) = Cardinality(before) /\ Upserts(log, j, kind) = Cardinality(after)
  BY DEF Upserts
<1> HIDE DEF before, after
<1>4. Cardinality(before) \in Nat /\ Cardinality(after) \in Nat
  BY <1>1, FS_CardinalityType
<1>5. Cardinality(before \cup {i}) = Cardinality(before) + 1 /\ IsFiniteSet(before \cup {i})
  BY <1>1, <1>2, FS_AddElement
<1>6. Cardinality(before \cup {i}) <= Cardinality(after)
  BY <1>1, <1>2, <1>5, FS_Subset
<1>7. QED
  BY <1>3, <1>4, <1>5, <1>6

\* The key of a payload without an id.
LEMMA UnnamedKey ==
  ASSUME NEW story, IsStory(story), NEW n, Unnamed(story, n)
  PROVE  LET p == PayloadAt(story, n)
             e == n - Len(story.base)
         IN  /\ p \in Payloads /\ p.id = NoId
             /\ InBase(story, n) => KeyAt(story, n) = <<p.kind, <<"rid", p.text>>>>
             /\ ~InBase(story, n) =>
                  /\ e \in Nat \ {0} /\ story.log[e].op = "UPSERT" /\ story.log[e].val = p
                  /\ KeyAt(story, n) = <<p.kind, <<"wal", p.kind, Upserts(story.log, e, p.kind)>>>>
<1> DEFINE p == PayloadAt(story, n)
           e == n - Len(story.base)
<1>1. n \in Stores(story) /\ n \in Places(story) /\ p.id = NoId
  BY DEF Unnamed, Stores
<1>2. p \in Payloads
  BY <1>1, TurnIs
<1>3. Len(story.base) \in Nat /\ n \in Int
  BY <1>1, StoryIs
<1>4. CASE InBase(story, n)
  BY <1>1, <1>2, <1>4 DEF KeyAt, PayloadAt, RecordKey, KeyOf, Rid
<1>5. CASE ~InBase(story, n)
  <2>1. e \in Nat \ {0}
    BY <1>3, <1>5 DEF InBase
  <2>2. story.log[e].op = "UPSERT" /\ story.log[e].val = p
    BY <1>1, <1>5 DEF Stores, EntryAt, PayloadAt
  <2>3. KeyAt(story, n) = EntryKey(story.log, e)
    BY <1>5 DEF KeyAt
  <2> HIDE DEF p, e
  <2>4. EntryKey(story.log, e) = KeyOf(p, WalName(p.kind, Upserts(story.log, e, p.kind)))
    BY <2>2 DEF EntryKey
  <2>5. QED
    BY <1>1, <1>2, <1>5, <2>1, <2>2, <2>3, <2>4 DEF KeyOf, WalName, p, e
<1>6. QED
  BY <1>4, <1>5

LEMMA PairsAre ==
  /\ \A s, t, u, v : <<s, t>> = <<u, v>> => s = u /\ t = v
  /\ \A s, t, u, v, w, x : <<s, t, u>> = <<v, w, x>> => s = v /\ t = w /\ u = x
OBVIOUS

\* Two payloads without an id go by one key only in the base, and are the same.
LEMMA UnnamedApart ==
  ASSUME NEW story, IsStory(story), NEW n, NEW m, Unnamed(story, n), Unnamed(story, m), m > n,
         KeyAt(story, n) = KeyAt(story, m)
  PROVE  PayloadAt(story, n) = PayloadAt(story, m)
<1> DEFINE p == PayloadAt(story, n)
           q == PayloadAt(story, m)
           e == n - Len(story.base)
           g == m - Len(story.base)
<1>1. /\ p \in Payloads /\ p.id = NoId /\ q \in Payloads /\ q.id = NoId
      /\ n \in Int /\ m \in Int /\ Len(story.base) \in Nat
  <2>1. n \in Places(story) /\ m \in Places(story)
    BY DEF Unnamed, Stores
  <2>2. QED
    BY <2>1, StoryIs, UnnamedKey
<1>2. /\ InBase(story, n) => KeyAt(story, n) = <<p.kind, <<"rid", p.text>>>>
      /\ InBase(story, m) => KeyAt(story, m) = <<q.kind, <<"rid", q.text>>>>
      /\ ~InBase(story, n) =>
           /\ e \in Nat \ {0} /\ story.log[e].op = "UPSERT" /\ story.log[e].val = p
           /\ KeyAt(story, n) = <<p.kind, <<"wal", p.kind, Upserts(story.log, e, p.kind)>>>>
      /\ ~InBase(story, m) =>
           /\ g \in Nat \ {0} /\ story.log[g].op = "UPSERT" /\ story.log[g].val = q
           /\ KeyAt(story, m) = <<q.kind, <<"wal", q.kind, Upserts(story.log, g, q.kind)>>>>
  BY UnnamedKey
<1>3. e < g
  BY <1>1
<1>4. InBase(story, m) => InBase(story, n)
  BY <1>1 DEF InBase
<1> HIDE DEF p, q, e, g
<1>5. CASE InBase(story, m)
  <2>1. p.kind = q.kind /\ p.text = q.text
    BY <1>2, <1>4, <1>5
  <2>2. \A r \in Payloads : r = [kind |-> r.kind, id |-> r.id, text |-> r.text]
    BY CompactionAssumption
  <2>3. QED
    BY <1>1, <2>1, <2>2 DEF p, q
<1>6. CASE InBase(story, n) /\ ~InBase(story, m)
  <2> DEFINE rid == <<"rid", p.text>>
             wal == <<"wal", q.kind, Upserts(story.log, g, q.kind)>>
  <2>1. rid[1] = "rid" /\ wal[1] = "wal"
    OBVIOUS
  <2>2. KeyAt(story, n) = <<p.kind, rid>> /\ KeyAt(story, m) = <<q.kind, wal>>
    BY <1>2, <1>6
  <2> HIDE DEF rid, wal
  <2>3. rid = wal
    <3> HIDE DEF KeyAt
    <3>1. <<p.kind, rid>> = <<q.kind, wal>>
      BY <2>2
    <3>2. QED
      BY <3>1, PairsAre
  <2>4. QED
    BY <2>1, <2>3
<1>7. CASE ~InBase(story, n)
  <2>1. ~InBase(story, m)
    BY <1>4, <1>7
  <2>2. /\ KeyAt(story, n) = <<p.kind, <<"wal", p.kind, Upserts(story.log, e, p.kind)>>>>
        /\ KeyAt(story, m) = <<q.kind, <<"wal", q.kind, Upserts(story.log, g, q.kind)>>>>
        /\ e \in Nat \ {0} /\ g \in Nat \ {0}
        /\ story.log[e].op = "UPSERT" /\ story.log[e].val = p
    BY <1>2, <1>7, <2>1
  <2> DEFINE c == Upserts(story.log, e, p.kind)
             d == Upserts(story.log, g, q.kind)
  <2>3. KeyAt(story, n) = <<p.kind, <<"wal", p.kind, c>>>> /\ KeyAt(story, m) = <<q.kind, <<"wal", q.kind, d>>>>
    BY <2>2
  <2> HIDE DEF c, d
  <2>4. p.kind = q.kind /\ c = d
    <3> DEFINE mine == <<"wal", p.kind, c>>
               other == <<"wal", q.kind, d>>
    <3>1. <<p.kind, mine>> = <<q.kind, other>>
      BY <2>3
    <3>2. mine = other
      <4> HIDE DEF mine, other
      <4>1. QED
        BY <3>1, PairsAre
    <3>3. QED
      BY <3>2, PairsAre
  <2>5. Upserts(story.log, e, p.kind) # Upserts(story.log, g, p.kind)
    BY <1>3, <2>2, UpsertsGrow
  <2>6. QED
    BY <2>4, <2>5 DEF c, d
<1>8. QED
  BY <1>5, <1>6, <1>7

\* A payload without an id stays under its key, as long as no id is the key.
LEMMA UnnamedStays ==
  ASSUME NEW map, NEW story, Replayed(map, story), NEW n \in Places(story), Unnamed(story, n),
         \A m \in Mentions(story) :
           m > n /\ KeyAt(story, m) = KeyAt(story, n) => Unnamed(story, m)
  PROVE  PayloadAt(story, n) \in Values(map)
<1> DEFINE L == Len(story.base) + Len(story.log)
           At == {m \in Mentions(story) : m >= n /\ KeyAt(story, m) = KeyAt(story, n)}
           T == {k \in Nat : \E m \in At : k = L - m}
<1>1. IsStory(story) /\ L \in Nat /\ Places(story) = 1..L
  BY StoryIs DEF Replayed
<1>2. n \in At /\ n \in 1..L /\ At \subseteq 1..L
  <2>1. n \in Mentions(story)
    BY <1>1, TurnIs DEF Unnamed
  <2>2. Mentions(story) \subseteq 1..L
    BY <1>1 DEF Mentions
  <2>3. At \subseteq Mentions(story)
    OBVIOUS
  <2>4. n \in 1..L
    BY <1>1
  <2>5. n >= n
    <3> HIDE DEF L, At
    <3>1. QED
      BY <1>1, <2>4
  <2>6. QED
    BY <2>1, <2>2, <2>3, <2>4, <2>5
<1> HIDE DEF L, At
<1>3. T \in SUBSET Nat /\ L - n \in T
  BY <1>1, <1>2
<1>4. PICK x \in T : \A y \in T : x <= y
  BY <1>3, LeastNumber
<1>5. PICK m \in At : x = L - m
  OBVIOUS
<1>6. \A k \in At : k <= m
  <2>1. ASSUME NEW k \in At
        PROVE  k <= m
    <3>1. L - k \in T /\ k \in 1..L /\ m \in 1..L
      BY <1>1, <1>2
    <3>2. L - m <= L - k
      BY <1>4, <1>5, <3>1
    <3>3. QED
      BY <1>1, <3>1, <3>2
  <2>2. QED
    BY <2>1
<1>7. Unnamed(story, m) /\ KeyAt(story, m) = KeyAt(story, n) /\ m >= n
  <2>1. m \in Mentions(story) /\ KeyAt(story, m) = KeyAt(story, n) /\ m >= n
    BY DEF At
  <2>2. m > n \/ m = n
    BY <1>2, <2>1
  <2>3. QED
    BY <2>1, <2>2
<1>8. m \in LastStores(story)
  <2>1. m \in Stores(story)
    BY <1>7 DEF Unnamed
  <2>2. ASSUME NEW k \in Mentions(story), k > m, KeyAt(story, k) = KeyAt(story, m)
        PROVE  FALSE
    <3>1. k \in 1..L /\ m \in 1..L
      BY <1>1, <1>2 DEF Mentions
    <3>2. k >= n
      BY <1>2, <1>7, <2>2, <3>1
    <3>3. k \in At
      BY <1>7, <2>2, <3>2 DEF At
    <3>4. QED
      BY <1>6, <2>2, <3>1, <3>3
  <2>3. QED
    BY <2>1, <2>2 DEF LastStores
<1>9. PayloadAt(story, m) \in Values(map)
  <2>1. KeyAt(story, m) \in DOMAIN map /\ map[KeyAt(story, m)] = PayloadAt(story, m)
    BY <1>8 DEF Replayed
  <2>2. QED
    BY <2>1 DEF Values
<1>10. PayloadAt(story, n) = PayloadAt(story, m)
  <2>1. CASE m = n
    BY <2>1
  <2>2. CASE m # n
    <3>1. m > n
      BY <1>2, <1>7, <2>2
    <3>2. QED
      BY <1>1, <1>7, <3>1, UnnamedApart
  <2>3. QED
    BY <2>1, <2>2
<1>11. QED
  BY <1>9, <1>10

----------------------------------------------------------------------------
(* The compaction *)

ReplayInv ==
  /\ base \in Seq(Payloads)
  /\ bwal = Unreadable \/ bwal \in Seq(Entries)
  /\ pc \in {"idle", "load", "build", "remove", "publish"} /\ published \in BOOLEAN
  /\ IsMap(replayed)
  /\ pc \in {"build", "remove", "publish"} => Replayed(replayed, source)
  /\ \A d \in {final, prev} : d \in {Absent, Torn} \/ (Complete(d) /\ Replayed(d.map, d.from))

LEMMA EmptyIs == IsMap(Empty)
BY DEF IsMap, Empty, Values

\* The files of a snapshot, in any order of its keys, are records.
LEMMA RecordsAre ==
  ASSUME NEW m, NEW story, Replayed(m, story), NEW keys \in Sorted(m)
  PROVE  [n \in DOMAIN keys |-> m[keys[n]]] \in Seq(Payloads)
<1> DEFINE c == Cardinality(DOMAIN m)
<1>1. c \in Nat
  <2> DEFINE S == LastStores(story)
  <2>1. Len(story.base) \in Nat /\ Len(story.log) \in Nat
    BY DEF Replayed, IsStory
  <2>2. IsFiniteSet(1..(Len(story.base) + Len(story.log)))
    <3>1. 1 \in Int /\ Len(story.base) + Len(story.log) \in Int
      BY <2>1
    <3>2. QED
      BY <3>1, FS_Interval
  <2>3. IsFiniteSet(S)
    <3>1. S \in SUBSET (1..(Len(story.base) + Len(story.log)))
      BY DEF LastStores, Stores, Places
    <3>2. QED
      BY <2>2, <3>1, FS_Subset
  <2> DEFINE f == [n \in S |-> KeyAt(story, n)]
  <2>4. f \in Surjection(S, DOMAIN m)
    <3>1. DOMAIN m = {KeyAt(story, n) : n \in S}
      BY DEF Replayed
    <3>2. f \in [S -> DOMAIN m] /\ \A k \in DOMAIN m : \E n \in S : f[n] = k
      BY <3>1
    <3>3. QED
      BY <3>2 DEF Surjection
  <2> HIDE DEF f, S
  <2>5. IsFiniteSet(DOMAIN m)
    BY <2>3, <2>4, FS_Surjection
  <2>6. QED
    BY <2>5, FS_CardinalityType
<1> HIDE DEF c
<1>2. keys \in [1..c -> DOMAIN m]
  BY DEF Sorted, c
<1>3. \A k \in DOMAIN m : m[k] \in Payloads
  BY DEF Replayed, IsMap, Values
<1>4. [n \in DOMAIN keys |-> m[keys[n]]] \in [1..c -> Payloads]
  BY <1>2, <1>3
<1>5. QED
  BY <1>1, <1>4

LEMMA ReplayInit == Init => ReplayInv
<1> SUFFICES ASSUME Init
             PROVE  ReplayInv
  OBVIOUS
<1>1. PICK n \in 0..MaxBase : base \in [1..n -> Payloads]
  BY DEF Init
<1>2. n \in Nat
  BY CompactionAssumption
<1>3. base \in Seq(Payloads)
  BY <1>1, <1>2
<1>4. bwal \in Seq(Entries)
  BY DEF Init
<1>5. QED
  BY <1>3, <1>4, EmptyIs DEF Init, ReplayInv

LEMMA ReplayNext == DirsInv /\ ReplayInv /\ [Next]_vars => ReplayInv'
<1> SUFFICES ASSUME DirsInv, ReplayInv, [Next]_vars
             PROVE  ReplayInv'
  OBVIOUS
<1> USE DEF ReplayInv
<1>1. CASE UNCHANGED vars
  BY <1>1 DEF vars
<1>2. CASE BeginCompaction
  BY <1>2 DEF BeginCompaction
<1>3. CASE LoadInputs
  <2> DEFINE from == [base |-> base, log |-> bwal]
             m == Replay(base, bwal)
  <2>1. /\ bwal \in Seq(Entries) /\ replayed' = m /\ source' = from /\ pc' = "build"
        /\ UNCHANGED <<base, bwal, final, prev, published>>
    BY <1>3 DEF LoadInputs, dirs
  <2>2. from.base = base /\ from.log = bwal
    OBVIOUS
  <2> HIDE DEF from, m
  <2>3. IsStory(from)
    BY <2>1, <2>2 DEF IsStory
  <2>4. Replayed(m, from)
    BY <2>2, <2>3, ReplayTells DEF m
  <2>5. IsMap(m)
    BY <2>4 DEF Replayed
  <2>6. QED
    BY <2>1, <2>4, <2>5
<1>4. CASE LoadRaises
  BY <1>4, EmptyIs DEF LoadRaises, Stop, dirs
<1>5. CASE BuildFiles
  BY <1>5 DEF BuildFiles, dirs
<1>6. CASE RemovePrev
  BY <1>6 DEF RemovePrev
<1>7. CASE RetireFinal
  BY <1>7 DEF RetireFinal
<1>8. CASE PublishStaging
  <2> DEFINE d == Snapshot(replayed, source)
  <2>1. /\ final' = d /\ published' = TRUE /\ pc' = "idle" /\ replayed' = Empty
        /\ UNCHANGED <<base, bwal, prev>> /\ Replayed(replayed, source)
    BY <1>8 DEF PublishStaging, Stop
  <2>2. Complete(d) /\ d.map = replayed /\ d.from = source
    BY DEF Snapshot, Complete
  <2> HIDE DEF d
  <2>3. QED
    BY <2>1, <2>2, EmptyIs
<1>9. CASE Crash
  BY <1>9, EmptyIs DEF Crash, Stop, dirs
<1>10. CASE ExtendLog
  <2>1. PICK e \in Entries : bwal' = Append(bwal, e)
    BY <1>10 DEF ExtendLog
  <2>2. bwal \in Seq(Entries)
    BY <1>10 DEF ExtendLog
  <2>3. bwal' \in Seq(Entries)
    <3> HIDE DEF ReplayInv
    <3>1. QED
      BY <2>1, <2>2, AppendProperties
  <2>4. QED
    BY <1>10, <2>3 DEF ExtendLog, dirs
<1>11. CASE TearLog
  BY <1>11 DEF TearLog, dirs
<1>12. CASE Rebase
  <2>1. final \notin {Absent, Torn}
    BY <1>12 DEF Rebase, Complete, Absent, Torn
  <2>2. Replayed(final.map, final.from)
    BY <2>1
  <2>3. PICK keys \in Sorted(final.map) : base' = [n \in DOMAIN keys |-> final.map[keys[n]]]
    BY <1>12 DEF Rebase
  <2>4. base' \in Seq(Payloads)
    BY <2>2, <2>3, RecordsAre
  <2>5. QED
    BY <1>12, <2>4 DEF Rebase, dirs
<1>13. QED
  BY <1>1, <1>2, <1>3, <1>4, <1>5, <1>6, <1>7, <1>8, <1>9, <1>10, <1>11, <1>12 DEF Next

LEMMA ReplayInvariant == Spec => [](DirsInv /\ ReplayInv)
<1>1. Init => DirsInv /\ ReplayInv
  BY DirsInit, ReplayInit
<1>2. (DirsInv /\ ReplayInv) /\ [Next]_vars => (DirsInv /\ ReplayInv)'
  BY DirsNext, ReplayNext
<1>3. QED
  BY <1>1, <1>2, PTL DEF Spec

(* Base files, the maps of a replay and the snapshots hold payloads, and the
   delta log entries, unless its writer died while it rewrote it. *)
THEOREM TypeCorrect == Spec => []TypeOK
<1>1. ReplayInv => TypeOK
  <2> SUFFICES ASSUME ReplayInv
               PROVE  TypeOK
    OBVIOUS
  <2>1. bwal = Unreadable \/ \A n \in DOMAIN bwal : bwal[n] \in Entries
    BY DEF ReplayInv
  <2>2. QED
    BY <2>1 DEF ReplayInv, TypeOK, Replayed
<1>2. QED
  BY <1>1, ReplayInvariant, PTL

(* A snapshot has one payload for each key whose last mention is not a DELETE,
   that of the mention, for names, bases and logs of any kind and length: the
   replay of record after record and entry after entry amounts to that. *)
THEOREM SnapshotsAreReplays == Spec => []SnapshotIsReplay
<1>1. ReplayInv => SnapshotIsReplay
  <2> SUFFICES ASSUME ReplayInv, NEW d \in Snapshots
               PROVE  /\ DOMAIN d.map = {KeyAt(d.from, n) : n \in LastStores(d.from)}
                      /\ \A n \in LastStores(d.from) : d.map[KeyAt(d.from, n)] = PayloadAt(d.from, n)
    BY DEF SnapshotIsReplay
  <2>1. Replayed(d.map, d.from)
    BY DEF ReplayInv, Snapshots, Complete, Absent, Torn
  <2>2. QED
    BY <2>1 DEF Replayed
<1>2. QED
  BY <1>1, ReplayInvariant, PTL

(* A payload without an id that was in the base, or upserted, is in the
   snapshot, unless a later record or entry has its fallback for an id. *)
THEOREM UnnamedKept == Spec => []UnnamedAreKept
<1>1. ReplayInv => UnnamedAreKept
  <2> SUFFICES ASSUME ReplayInv, NEW d \in Snapshots, NEW n \in Places(d.from), Unnamed(d.from, n),
                      \A m \in Mentions(d.from) :
                        m > n /\ KeyAt(d.from, m) = KeyAt(d.from, n) => Unnamed(d.from, m)
               PROVE  PayloadAt(d.from, n) \in Values(d.map)
    BY DEF UnnamedAreKept
  <2>1. Replayed(d.map, d.from)
    BY DEF ReplayInv, Snapshots, Complete, Absent, Torn
  <2>2. QED
    BY <2>1, UnnamedStays
<1>2. QED
  BY <1>1, ReplayInvariant, PTL

=============================================================================
