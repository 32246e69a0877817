----------------------------- MODULE Compaction -----------------------------
(***************************************************************************)
(* V00L: compact_wal_to_snapshot replays a delta log (.bwal) over the base *)
(* files and publishes the outcome as a snapshot directory.  It builds the *)
(* files in a .staging directory, one by one; then it removes the .prev    *)
(* directory, renames the snapshot to .prev, and renames .staging to the   *)
(* snapshot.  The process may die between any two of these steps.  Nothing *)
(* truncates the delta log, so a caller that takes the snapshot for its    *)
(* next base replays the entries that are in it already.                   *)
(*                                                                         *)
(* One compaction runs at a time.  A payload is its kind, its logical id,  *)
(* if it has one, and the rest of it.  Its name is its id, or else a       *)
(* fallback.  Names are strings: an id may well be the fallback of another *)
(* payload, and the index of V00K shows people such a fallback as the id.  *)
(***************************************************************************)
EXTENDS Integers, Sequences, FiniteSets

CONSTANTS
  Kinds,           \* seed, bridge
  Ids,             \* logical ids: seed_id or bridge_id, id, key
  NoId,            \* the id of a payload without any of them
  Texts,           \* the rest of a payload
  Payloads,        \* the payloads there are
  Precedes(_, _),  \* the order of strings, between names, and of the two files, between kinds
  MaxBase,         \* bound: records of the first base files
  MaxEntries,      \* bound: entries of the delta log
  MaxRuns,         \* bound: compactions
  MaxCrashes       \* bound: crashes of a compaction, and of a writer of the log

\* The fallback of _load_seed_map has the record id, a digest of the payload.
Rid(payload) == <<"rid", payload.text>>

\* The fallback of _apply_wal has the number of upserts of the kind before.
WalName(kind, upserts) == <<"wal", kind, upserts>>

Names ==
  Ids \cup {Rid(p) : p \in Payloads} \cup {WalName(k, n) : k \in Kinds, n \in 0..MaxEntries}

ASSUME CompactionAssumption ==
  /\ NoId \notin Ids
  /\ Payloads \subseteq [kind : Kinds, id : Ids \cup {NoId}, text : Texts]
  /\ \A s, t \in Names : s # t => (Precedes(s, t) <=> ~Precedes(t, s))
  /\ \A k, l \in Kinds : k # l => (Precedes(k, l) <=> ~Precedes(l, k))
  /\ MaxBase \in Nat /\ MaxEntries \in Nat /\ MaxRuns \in Nat /\ MaxCrashes \in Nat

\* OTHER: an op the replay does not know, an upsert with an empty payload, or
\* a DELETE without an id.
Entries ==
  [op : {"UPSERT"}, val : Payloads]
    \cup [op : {"DELETE"}, kind : Kinds, id : Ids]
    \cup {[op |-> "OTHER"]}

VARIABLES
  base,      \* the records of the base files
  bwal,      \* the entries of the delta log, or Unreadable
  pc,        \* where the compaction is
  replayed,  \* its maps
  source,    \* history: the base and the delta log they come from
  final,     \* the snapshot directory: Absent or what it holds
  prev,      \* the .prev directory: Absent, Torn, or what it holds
  published, \* history: whether there has ever been a snapshot
  runs, crashes

vars == <<base, bwal, pc, replayed, source, final, prev, published, runs, crashes>>
dirs == <<final, prev, published>>

Empty == [k \in {} |-> NoId]

Unreadable == << [op |-> "UNREADABLE"] >>
Absent == [is |-> "absent"]
Torn == [is |-> "torn"]
Snapshot(m, src) == [is |-> "snapshot", map |-> m, from |-> src]
NoSource == [base |-> << >>, log |-> << >>]
Complete(d) == d.is = "snapshot"

----------------------------------------------------------------------------
(* The replay *)

\* logical_seed_id, logical_bridge_id: a map of each kind, so keys have the kind.
KeyOf(payload, fallback) ==
  <<payload.kind, IF payload.id # NoId THEN payload.id ELSE fallback>>

RecordKey(p) == KeyOf(p, Rid(p))

\* Mutant: an upsert without an id is not counted.
NamedUpserts(log, n, kind) ==
  Cardinality({i \in 1..(n - 1) :
    log[i].op = "UPSERT" /\ log[i].val.kind = kind /\ log[i].val.id # NoId})

Upserts(log, n, kind) ==
  Cardinality({i \in 1..(n - 1) : log[i].op = "UPSERT" /\ log[i].val.kind = kind})

EntryKey(log, n) ==
  LET e == log[n]
  IN  CASE e.op = "UPSERT" -> KeyOf(e.val, WalName(e.val.kind, Upserts(log, n, e.val.kind)))
        [] e.op = "DELETE" -> <<e.kind, e.id>>

Put(m, key, p) == [k \in DOMAIN m \cup {key} |-> IF k = key THEN p ELSE m[k]]
Drop(m, key) == [k \in DOMAIN m \ {key} |-> m[k]]

\* Mutant: an upsert does not replace what the key has.
ApplyFirstWins(m, log, n) ==
  CASE log[n].op = "UPSERT" /\ EntryKey(log, n) \notin DOMAIN m ->
         Put(m, EntryKey(log, n), log[n].val)
    [] log[n].op = "DELETE" -> Drop(m, EntryKey(log, n))
    [] OTHER -> m

\* Mutant: the entry is stored, not its payload.
ApplyWholeEntry(m, log, n) ==
  CASE log[n].op = "UPSERT" -> Put(m, EntryKey(log, n), log[n])
    [] log[n].op = "DELETE" -> Drop(m, EntryKey(log, n))
    [] OTHER -> m

\* _apply_wal, entry n.
Apply(m, log, n) ==
  CASE log[n].op = "UPSERT" -> Put(m, EntryKey(log, n), log[n].val)
    [] log[n].op = "DELETE" -> Drop(m, EntryKey(log, n))
    [] OTHER -> m

\* _load_seed_map and _load_bridge_map, record after record, then _apply_wal.
Replay(records, log) ==
  LET loaded == Len(records)
      after[n \in 0..(loaded + Len(log))] ==
        IF n = 0 THEN Empty
        ELSE IF n <= loaded THEN Put(after[n - 1], RecordKey(records[n]), records[n])
        ELSE Apply(after[n - 1], log, n - loaded)
  IN  after[loaded + Len(log)]

Before(k, l) == IF k[1] = l[1] THEN Precedes(k[2], l[2]) ELSE Precedes(k[1], l[1])

\* The keys of a map as sorted has them: at each place one with so many before it.
Sorted(m) ==
  LET before == [k \in DOMAIN m |-> Cardinality({l \in DOMAIN m : Before(l, k)})]
  IN  {keys \in [1..Cardinality(DOMAIN m) -> DOMAIN m] : \A i \in DOMAIN keys : before[keys[i]] = i - 1}

----------------------------------------------------------------------------
(* The compaction *)

Init ==
  /\ base \in UNION {[1..n -> Payloads] : n \in 0..MaxBase}
  /\ bwal = << >>
  /\ pc = "idle"
  /\ replayed = Empty /\ source = NoSource
  /\ final = Absent /\ prev = Absent
  /\ published = FALSE
  /\ runs = 0 /\ crashes = 0

\* What a call that died has left in .staging is removed, and .staging is made.
BeginCompaction ==
  /\ pc = "idle"
  /\ runs < MaxRuns
  /\ runs' = runs + 1
  /\ pc' = "load"
  /\ UNCHANGED <<base, bwal, replayed, source, final, prev, published, crashes>>

Stop == pc' = "idle" /\ replayed' = Empty /\ source' = NoSource

LoadInputs ==
  /\ pc = "load"
  /\ bwal # Unreadable
  /\ replayed' = Replay(base, bwal)
  /\ source' = [base |-> base, log |-> bwal]
  /\ pc' = "build"
  /\ UNCHANGED <<base, bwal, dirs, runs, crashes>>

LoadRaises ==
  /\ pc = "load"
  /\ bwal = Unreadable
  /\ Stop
  /\ UNCHANGED <<base, bwal, dirs, runs, crashes>>

\* Records, index, manifest and marker, in this order, into .staging.
BuildFiles ==
  /\ pc = "build"
  /\ pc' = "remove"
  /\ UNCHANGED <<base, bwal, replayed, source, dirs, runs, crashes>>

\* Mutant: .prev is removed whether or not a snapshot will take its place.
RemovePrevAlways ==
  /\ pc = "remove"
  /\ prev # Absent
  /\ prev' \in {Torn, Absent}
  /\ UNCHANGED <<base, bwal, pc, replayed, source, final, published, runs, crashes>>

\* _atomic_replace_dir: rmtree takes .prev away file by file.
RemovePrev ==
  /\ pc = "remove"
  /\ final # Absent /\ prev # Absent
  /\ prev' \in {Torn, Absent}
  /\ UNCHANGED <<base, bwal, pc, replayed, source, final, published, runs, crashes>>

RetireFinal ==
  /\ pc = "remove"
  /\ final # Absent /\ prev = Absent
  /\ prev' = final
  /\ final' = Absent
  /\ pc' = "publish"
  /\ UNCHANGED <<base, bwal, replayed, source, published, runs, crashes>>

PublishStaging ==
  /\ \/ pc = "publish"
     \/ pc = "remove" /\ final = Absent
  /\ final' = Snapshot(replayed, source)
  /\ published' = TRUE
  /\ Stop
  /\ UNCHANGED <<base, bwal, prev, runs, crashes>>

\* What is left in .staging is never looked at again: the next call removes it.
Crash ==
  /\ pc # "idle"
  /\ crashes < MaxCrashes
  /\ crashes' = crashes + 1
  /\ Stop
  /\ UNCHANGED <<base, bwal, dirs, runs>>

----------------------------------------------------------------------------
(* The callers *)

\* write_bwal rewrites the whole file in place, here with one entry more.
ExtendLog ==
  /\ bwal # Unreadable
  /\ Len(bwal) < MaxEntries
  /\ \E e \in Entries : bwal' = Append(bwal, e)
  /\ UNCHANGED <<base, pc, replayed, source, dirs, runs, crashes>>

\* It dies in between, and its header counts more records than there are.
TearLog ==
  /\ bwal # Unreadable
  /\ crashes < MaxCrashes
  /\ bwal' = Unreadable
  /\ crashes' = crashes + 1
  /\ UNCHANGED <<base, pc, replayed, source, dirs, runs>>

\* The next compaction starts from the files of the snapshot.
Rebase ==
  /\ pc = "idle"
  /\ Complete(final)
  /\ \E keys \in Sorted(final.map) : base' = [n \in DOMAIN keys |-> final.map[keys[n]]]
  /\ UNCHANGED <<bwal, pc, replayed, source, dirs, runs, crashes>>

Next ==
  \/ BeginCompaction
  \/ LoadInputs
  \/ LoadRaises
  \/ BuildFiles
  \/ RemovePrev
  \/ RetireFinal
  \/ PublishStaging
  \/ Crash
  \/ ExtendLog
  \/ TearLog
  \/ Rebase

Spec == Init /\ [][Next]_vars

----------------------------------------------------------------------------
(* What a compaction promises *)

\* What replayed and the snapshots hold is payloads by key.
Values(m) == {m[k] : k \in DOMAIN m}
IsMap(m) == Values(m) \subseteq Payloads

TypeOK ==
  /\ \A n \in DOMAIN base : base[n] \in Payloads
  /\ IsMap(replayed)
  /\ bwal = Unreadable \/ \A n \in DOMAIN bwal : bwal[n] \in Entries
  /\ pc \in {"idle", "load", "build", "remove", "publish"}
  /\ published \in BOOLEAN
  /\ \A d \in {final, prev} : d \in {Absent, Torn} \/ (Complete(d) /\ IsMap(d.map))

Snapshots == {d \in {final, prev} : Complete(d)}

\* A story is the records of a base, then the entries of a log.  At some of
\* its places a key is mentioned, at some of those a payload is stored.
Places(story) == 1..(Len(story.base) + Len(story.log))
InBase(story, n) == n <= Len(story.base)
EntryAt(story, n) == story.log[n - Len(story.base)]
Mentions(story) == {n \in Places(story) : InBase(story, n) \/ EntryAt(story, n).op # "OTHER"}
Stores(story) == {n \in Places(story) : InBase(story, n) \/ EntryAt(story, n).op = "UPSERT"}

KeyAt(story, n) ==
  IF InBase(story, n) THEN RecordKey(story.base[n]) ELSE EntryKey(story.log, n - Len(story.base))
PayloadAt(story, n) == IF InBase(story, n) THEN story.base[n] ELSE EntryAt(story, n).val

\* The places that store a payload under a key that is mentioned no more.
LastStores(story) ==
  {n \in Stores(story) : \A m \in Mentions(story) : m > n => KeyAt(story, m) # KeyAt(story, n)}

(* A snapshot has one payload for each key whose last mention, in its base or
   its delta log, is not a DELETE, and it is the payload of that mention: said of
   the whole story at once, against the replay of record after record and entry
   after entry (binary_snapshot_v00l.py:46-104).  An entry that names a fallback
   (rid:<n>, wal_seed_<n>) mentions the payload that goes by it; a payload
   without an id that is in the base and in the log is there twice. *)
SnapshotIsReplay ==
  \A d \in Snapshots :
    /\ DOMAIN d.map = {KeyAt(d.from, n) : n \in LastStores(d.from)}
    /\ \A n \in LastStores(d.from) : d.map[KeyAt(d.from, n)] = PayloadAt(d.from, n)

Unnamed(story, n) == n \in Stores(story) /\ PayloadAt(story, n).id = NoId

(* Payloads without an id do not take each other's place: one that was in the
   base or upserted is in the snapshot, unless a later record or entry has the
   payload's fallback for an id.  It rests on the count of upserts, which makes
   each fallback of a log a new one (binary_snapshot_v00l.py:81-83, 89-91). *)
UnnamedAreKept ==
  \A d \in Snapshots : \A n \in Places(d.from) :
    /\ Unnamed(d.from, n)
    /\ \A m \in Mentions(d.from) :
         m > n /\ KeyAt(d.from, m) = KeyAt(d.from, n) => Unnamed(d.from, m)
    => PayloadAt(d.from, n) \in Values(d.map)

(* From the first snapshot on, there is a complete one under one of the two
   names, wherever compactions die: .prev is removed only while the snapshot
   itself is in place (binary_snapshot_v00l.py:107-113). *)
SnapshotKept == published => Complete(final) \/ Complete(prev)

(* Why it is kept: the snapshot directory is never torn, and it is out of the
   way before the new one takes its place. *)
DirsInv ==
  /\ final = Absent \/ Complete(final)
  /\ pc = "publish" => final = Absent
  /\ SnapshotKept

(* The last complete snapshot can be recovered
   (BINARY_COMPACTION_SNAPSHOT_V00L.md, "recover from last complete
   snapshot").  It does not hold when a compaction dies between its two
   renames: recover_snapshot looks for the snapshot under its own name only. *)
SnapshotRecovers == published => Complete(final)
=============================================================================
