--------------------------- MODULE CrashRecovery ---------------------------
(***************************************************************************)
(* V03H3: recover_database replays the committed intents of the log into   *)
(* the record store and remembers the applied transactions in a state      *)
(* file.  The log is read once, the records are appended one by one, and   *)
(* the state file is replaced once, after the last of them: a crash may    *)
(* fall between any two of these steps.  Nothing keeps two recoveries, or  *)
(* a recovery and the clients of the log, apart.                           *)
(*                                                                         *)
(* Local variables of a call of recover_database live in functions over    *)
(* Recoverers.  A missing state file reads as an empty set.  dry_run reads *)
(* only, and is left out.                                                  *)
(***************************************************************************)
EXTENDS Wal

CONSTANTS
  Recoverers,   \* processes that run recover_database
  MaxCrashes    \* bound: crashes of a recovery and power losses

\* A file is a set of ids, or one of these, which no set of ids is: there is
\* no file, it was truncated, it is a text that json cannot read.
NoFile == {Nothing}
Emptied == {<< >>}
Unreadable == {<<Nothing>>}
Unusable == {NoFile, Emptied, Unreadable}

ASSUME RecoveryAssumption ==
  /\ MaxCrashes \in Nat
  /\ \A file \in Unusable : file \notin SUBSET Tx

VARIABLES
  store,     \* the record store, a log of [tx, body]
  state,     \* the state file: applied_tx_ids
  synced,    \* what of the state file has reached the disk
  tmp,       \* the .tmp file next to the state file, or NoFile
  opened,    \* for each call: the name that the file it has open goes by now
  pc,        \* where each call is
  known,     \* applied_tx_ids in memory
  scan,      \* scan["committed"]
  todo,      \* the intents the loop has not come to
  errors,    \* whether the call has recorded an error
  crashes    \* history: crashes and power losses

locals == <<pc, known, scan, todo, errors>>
disk == <<store, state, synced, tmp, opened>>
vars == <<walVars, faults, disk, locals, crashes>>

StoreRecords == [tx : Tx, body : Bodies]

Labels == {"idle", "scan", "loop", "save", "write", "replace", "check"}

TypeOK ==
  /\ wal \in Seq(Frames(WalRecords))
  /\ call \in [Clients -> WalRecords \cup {Nothing}]
  /\ faults \in Nat
  /\ store \in Seq(Frames(StoreRecords))
  /\ state \in (SUBSET Tx) \cup {Emptied, Unreadable}
  /\ synced \in (SUBSET Tx) \cup {Emptied, Unreadable}
  /\ tmp \in (SUBSET Tx) \cup Unusable
  /\ opened \in [Recoverers -> {"none", "tmp", "state", "gone"}]
  /\ pc \in [Recoverers -> Labels]
  /\ known \in [Recoverers -> SUBSET Tx]
  /\ scan \in [Recoverers -> SUBSET Intents]
  /\ todo \in [Recoverers -> SUBSET Intents]
  /\ errors \in [Recoverers -> BOOLEAN]
  /\ crashes \in Nat

Init ==
  /\ WalInit
  /\ store = << >>
  /\ state = {}
  /\ synced = {}
  /\ tmp = NoFile
  /\ opened = [r \in Recoverers |-> "none"]
  /\ pc = [r \in Recoverers |-> "idle"]
  /\ known = [r \in Recoverers |-> {}]
  /\ scan = [r \in Recoverers |-> {}]
  /\ todo = [r \in Recoverers |-> {}]
  /\ errors = [r \in Recoverers |-> FALSE]
  /\ crashes = 0

Goto(r, label) == pc' = [pc EXCEPT ![r] = label]

----------------------------------------------------------------------------
(* One call of recover_database *)

\* Mutant: the ids of the state file are not loaded.
LoadStateFresh(r) ==
  /\ pc[r] = "idle"
  /\ state \notin Unusable
  /\ Goto(r, "scan")
  /\ UNCHANGED <<walVars, faults, disk, known, scan, todo, errors, crashes>>

\* A state file that json cannot read raises: the call ends where it began.
LoadState(r) ==
  /\ pc[r] = "idle"
  /\ state \notin Unusable
  /\ known' = [known EXCEPT ![r] = state]
  /\ Goto(r, "scan")
  /\ UNCHANGED <<walVars, faults, disk, scan, todo, errors, crashes>>

\* The call returns or raises, and its locals are gone.
Leave(r) ==
  /\ Goto(r, "idle")
  /\ known' = [known EXCEPT ![r] = {}]
  /\ scan' = [scan EXCEPT ![r] = {}]
  /\ todo' = [todo EXCEPT ![r] = {}]
  /\ errors' = [errors EXCEPT ![r] = FALSE]

\* Mutant: the ids are remembered when they are scanned.
ScanWalAndRemember(r) ==
  /\ pc[r] = "scan"
  /\ Readable(wal)
  /\ scan' = [scan EXCEPT ![r] = Committed(Records(wal))]
  /\ todo' = [todo EXCEPT ![r] = Committed(Records(wal))]
  /\ known' = [known EXCEPT ![r] = @ \cup {i.tx : i \in Committed(Records(wal))}]
  /\ Goto(r, "loop")
  /\ UNCHANGED <<walVars, faults, disk, errors, crashes>>

ScanWal(r) ==
  /\ pc[r] = "scan"
  /\ Readable(wal)
  /\ scan' = [scan EXCEPT ![r] = Committed(Records(wal))]
  /\ todo' = [todo EXCEPT ![r] = Committed(Records(wal))]
  /\ Goto(r, "loop")
  /\ UNCHANGED <<walVars, faults, disk, known, errors, crashes>>

ScanRaises(r) ==
  /\ pc[r] = "scan"
  /\ ~Readable(wal)
  /\ Leave(r)
  /\ UNCHANGED <<walVars, faults, disk, crashes>>

\* The loop comes to intent i, the first in seq order it has not seen.
Reach(r, i) ==
  /\ pc[r] = "loop"
  /\ i \in todo[r]
  /\ \A j \in todo[r] : SortedBefore(i, j)
  /\ todo' = [todo EXCEPT ![r] = @ \ {i}]
  /\ UNCHANGED <<walVars, state, synced, tmp, opened, pc, scan, crashes>>

SkipIntent(r) ==
  \E i \in todo[r] :
    /\ Reach(r, i)
    /\ i.tx \in known[r] \/ i.body \in Unsupported
    /\ UNCHANGED <<store, known, errors, faults>>

\* Mutant: a malformed intent breaks the loop.
RejectIntentAndBreak(r) ==
  \E i \in todo[r] :
    /\ pc[r] = "loop"
    /\ \A j \in todo[r] : SortedBefore(i, j)
    /\ i.tx \notin known[r]
    /\ i.body \in Malformed
    /\ todo' = [todo EXCEPT ![r] = {}]
    /\ errors' = [errors EXCEPT ![r] = TRUE]
    /\ UNCHANGED <<walVars, faults, disk, pc, known, scan, crashes>>

RejectIntent(r) ==
  \E i \in todo[r] :
    /\ Reach(r, i)
    /\ i.tx \notin known[r]
    /\ i.body \in Malformed
    /\ errors' = [errors EXCEPT ![r] = TRUE]
    /\ UNCHANGED <<store, known, faults>>

ReachAppend(r, i) ==
  /\ Reach(r, i)
  /\ i.tx \notin known[r]
  /\ i.body \in Appendable

ApplyRecord(r) ==
  \E i \in todo[r] :
    /\ ReachAppend(r, i)
    /\ store' = Append(store, Whole([tx |-> i.tx, body |-> i.body]))
    /\ known' = [known EXCEPT ![r] = @ \cup {i.tx}]
    /\ UNCHANGED <<errors, faults>>

\* Mutant: an id joins applied_tx_ids although its append raised.
FailRecordButRemember(r) ==
  \E i \in todo[r] :
    /\ ReachAppend(r, i)
    /\ faults < MaxFaults
    /\ \E g \in Gaps : store' = Append(store, Torn(g))
    /\ known' = [known EXCEPT ![r] = @ \cup {i.tx}]
    /\ faults' = faults + 1
    /\ errors' = [errors EXCEPT ![r] = TRUE]

\* append_record raises half way through its writes, or in its fsync: the loop
\* records an error and goes on to the next intent.
FailRecord(r) ==
  \E i \in todo[r] :
    /\ ReachAppend(r, i)
    /\ faults < MaxFaults
    /\ \/ \E g \in Gaps : store' = Append(store, Torn(g))
       \/ store' = Append(store, Whole([tx |-> i.tx, body |-> i.body]))
    /\ faults' = faults + 1
    /\ errors' = [errors EXCEPT ![r] = TRUE]
    /\ UNCHANGED known

\* Mutant: the loop stops one intent early.
EndLoopEarly(r) ==
  /\ pc[r] = "loop"
  /\ Cardinality(todo[r]) <= 1
  /\ Goto(r, "save")
  /\ UNCHANGED <<walVars, faults, disk, known, scan, todo, errors, crashes>>

EndLoop(r) ==
  /\ pc[r] = "loop"
  /\ todo[r] = {}
  /\ Goto(r, "save")
  /\ UNCHANGED <<walVars, faults, disk, known, scan, todo, errors, crashes>>

\* atomic_write_json: the .tmp file has one name for every process, and
\* opening it for writing truncates it.
OpenTmp(r) ==
  /\ pc[r] = "save"
  /\ tmp' = Emptied
  /\ opened' = [opened EXCEPT ![r] = "tmp"]
  /\ Goto(r, "write")
  /\ UNCHANGED <<walVars, faults, store, state, synced, known, scan, todo, errors, crashes>>

\* A text is written over what another process has put there since: the end of
\* a longer one stays behind it.
Overwritten(file, text) == IF file = Emptied THEN {text} ELSE {text, Unreadable}

\* The text goes to the file that was opened, which may be the state file by now.
PutText(r, text) ==
  /\ tmp' \in IF opened[r] = "tmp" THEN Overwritten(tmp, text) ELSE {tmp}
  /\ state' \in IF opened[r] = "state" THEN Overwritten(state, text) ELSE {state}
  /\ opened' = [opened EXCEPT ![r] = "none"]

\* Mutant: the state is written back as it was loaded.
WriteTmpStale(r) ==
  /\ pc[r] = "write"
  /\ PutText(r, state)
  /\ Goto(r, "replace")
  /\ UNCHANGED <<walVars, faults, store, synced, known, scan, todo, errors, crashes>>

WriteTmp(r) ==
  /\ pc[r] = "write"
  /\ PutText(r, known[r])
  /\ Goto(r, "replace")
  /\ UNCHANGED <<walVars, faults, store, synced, known, scan, todo, errors, crashes>>

\* The write raises half way through, and the call with it.
WriteRaises(r) ==
  /\ pc[r] = "write"
  /\ faults < MaxFaults
  /\ faults' = faults + 1
  /\ PutText(r, Unreadable)
  /\ Leave(r)
  /\ UNCHANGED <<walVars, store, synced, crashes>>

\* Whoever has the .tmp file open goes on writing to it under its new name.
Renamed(name) ==
  CASE name = "tmp" -> "state"
    [] name = "state" -> "gone"
    [] OTHER -> name

ReplaceState(r) ==
  /\ pc[r] = "replace"
  /\ tmp # NoFile
  /\ state' = tmp
  /\ tmp' = NoFile
  /\ opened' = [q \in Recoverers |-> Renamed(opened[q])]
  /\ Goto(r, "check")
  /\ UNCHANGED <<walVars, faults, store, synced, known, scan, todo, errors, crashes>>

\* Another recovery has renamed the .tmp file away: os.replace raises.
ReplaceRaises(r) ==
  /\ pc[r] = "replace"
  /\ tmp = NoFile
  /\ Leave(r)
  /\ UNCHANGED <<walVars, faults, disk, crashes>>

\* read_all_records raises when the store is not Readable; otherwise the call
\* returns PASS when it has no errors, and NO_GO when it has some.
CheckStore(r) ==
  /\ pc[r] = "check"
  /\ Leave(r)
  /\ UNCHANGED <<walVars, faults, disk, crashes>>

----------------------------------------------------------------------------
(* The machine under it *)

Crash(r) ==
  /\ pc[r] # "idle"
  /\ crashes < MaxCrashes
  /\ crashes' = crashes + 1
  /\ Leave(r)
  /\ opened' = [opened EXCEPT ![r] = "none"]
  /\ UNCHANGED <<walVars, faults, store, state, synced, tmp>>

\* The system writes the state file back to the disk when it pleases.
FlushState ==
  /\ synced # state
  /\ synced' = state
  /\ UNCHANGED <<walVars, faults, store, state, tmp, opened, locals, crashes>>

\* Neither the .tmp file nor its rename is synced: after a power loss the state
\* file is the new one, the old one, or of the new size without its content.
PowerLoss ==
  /\ crashes < MaxCrashes
  /\ synced # state
  /\ state' \in {state, synced, Unreadable}
  /\ synced' = state'
  /\ tmp' = NoFile
  /\ opened' = [r \in Recoverers |-> "none"]
  /\ crashes' = crashes + 1
  /\ pc' = [r \in Recoverers |-> "idle"]
  /\ known' = [r \in Recoverers |-> {}]
  /\ scan' = [r \in Recoverers |-> {}]
  /\ todo' = [r \in Recoverers |-> {}]
  /\ errors' = [r \in Recoverers |-> FALSE]
  /\ call' = [c \in Clients |-> Nothing]
  /\ UNCHANGED <<wal, faults, store>>

RecoveryStep(r) ==
  \/ LoadState(r)
  \/ ScanWal(r)
  \/ ScanRaises(r)
  \/ SkipIntent(r)
  \/ RejectIntent(r)
  \/ ApplyRecord(r)
  \/ FailRecord(r)
  \/ EndLoop(r)
  \/ OpenTmp(r)
  \/ WriteTmp(r)
  \/ WriteRaises(r)
  \/ ReplaceState(r)
  \/ ReplaceRaises(r)
  \/ CheckStore(r)

Next ==
  \/ \E c \in Clients : WalStep(c) /\ UNCHANGED <<disk, locals, crashes>>
  \/ \E r \in Recoverers : RecoveryStep(r) \/ Crash(r)
  \/ FlushState
  \/ PowerLoss

Spec == Init /\ [][Next]_vars

----------------------------------------------------------------------------
(* What recovery promises *)

StoredTx == {v.tx : v \in Written(store)}

(* Every id that recovery holds as applied, in memory or in any of the files
   it may read it back from, has its record in the store.  An id recorded
   before its append (crash_recovery_v03h3.py:94-95 swapped) would make every
   later recovery skip a transaction that was never applied. *)
RememberedIsStored ==
  /\ \A r \in Recoverers : known[r] \subseteq StoredTx
  /\ \A file \in {state, synced, tmp} \ Unusable : file \subseteq StoredTx

(* Whatever is in the store was, at some moment of the log's life, the last
   intent of a transaction with a COMMIT and no ABORT: pending transactions,
   superseded intents and transactions aborted before the scan never get
   there, whatever crashes, torn frames and late records come in between
   (run_selftest_v03h3.py:72-76, checks pending_absent and aborted_absent). *)
StoreJustified == \A v \in Written(store) : OnceCommitted(v.tx, v.body)

(* A call that comes to its end without an error leaves no appendable intent
   of its scan without a record written in full, and a call with errors does
   so too when no write failed: a malformed intent must not keep the others
   from being applied (crash_recovery_v03h3.py:85-87, 97-98, 119). *)
PassMeansApplied ==
  \A r \in Recoverers :
    pc[r] = "check" /\ (~errors[r] \/ faults = 0) =>
      \A i \in scan[r] : i.body \in Appendable => i.tx \in StoredTx

OneClient == \A c, d \in Clients : c = d
OneRecovery == \A q, r \in Recoverers : q = r

Copies(t) ==
  Cardinality({i \in 1..Len(store) : IsWhole(store[i]) /\ store[i].val.tx = t})

(* With one recovery at a time, a transaction is applied again only because a
   crash, a power loss or a failed fsync came between its append and the
   replacement of the state file: one more copy for each of them at most. *)
CopiesBounded ==
  OneRecovery => \A t \in Tx : Copies(t) <= 1 + crashes + faults

(* With one recovery at a time, the state file can always be read and never
   loses an id it has, unless the power fails: a recovery that dies between
   the truncation, the write and the rename, or whose write fails, leaves the
   old file (crash_recovery_v03h3.py:43-44). *)
NeverForgets ==
  [][ OneRecovery /\ state \notin Unusable /\ ~PowerLoss
        => state' \notin Unusable /\ state \subseteq state' ]_vars

(* Recovery implements at-least-once application: the refinement mapping reads
   the decided entries off the log, the copies off the store, and what is
   remembered off the state file. *)
DecidedEntries == {e \in StoreRecords : OnceCommitted(e.tx, e.body)}

CopiesOf(e) == Cardinality({i \in 1..Len(store) : store[i] = Whole(e)})

Ledger == INSTANCE AtLeastOnce WITH
  Ids <- Tx,
  Values <- Bodies,
  decided <- DecidedEntries,
  copies <- [e \in StoreRecords |-> CopiesOf(e)],
  remembered <- IF state \in Unusable THEN {} ELSE state

ImplementsAtLeastOnce == Ledger!LedgerSpec

(* With one client, the records a reader sees are numbered 1, 2, 3...: torn
   frames and failed syncs leave no gap and no number twice
   (run_selftest_v03h2.py, check seq_monotonic). *)
SeqIsPlace ==
  OneClient => \A i \in 1..Visible(wal) : wal[i].val.seq = i

(* A record whose application returned PASS is found by a reader of the store
   (run_selftest_v03h3.py:96 committed_seed_present, :97).  It does not hold:
   a frame torn by an earlier failed append hides what is appended behind it,
   and the final read_all_records takes the torn frame for the end. *)
PassMeansVisible ==
  \A r \in Recoverers :
    pc[r] = "check" /\ ~errors[r] /\ Readable(store) =>
      \A i \in scan[r] :
        i.body \in Appendable => \E n \in 1..Visible(store) : store[n].val.tx = i.tx

(* A second recovery applies nothing again (run_selftest_v03h3.py:94
   second_idempotent_zero_applied, :95 store_total_two).  It does not hold
   across a crash between an append and the replacement of the state file. *)
AppliedOnce == \A t \in Tx : Copies(t) <= 1

----------------------------------------------------------------------------
(* Why it keeps them: the invariant that every step preserves *)

TodoJustified == \A r \in Recoverers : \A i \in todo[r] : OnceCommitted(i.tx, i.body)

TodoDone == \A r \in Recoverers : pc[r] \in {"save", "write", "replace", "check"} => todo[r] = {}

AppliedSoFar ==
  \A r \in Recoverers :
    pc[r] \in {"loop", "save", "write", "replace", "check"} /\ (~errors[r] \/ faults = 0) =>
      \A i \in scan[r] \ todo[r] : i.body \in Appendable => i.tx \in StoredTx

(* The strengthening that carries PassMeansApplied through the loop, together
   with what it needs of the store and of the loop's intents. *)
SafetyInv ==
  /\ RememberedIsStored
  /\ StoreJustified
  /\ TodoJustified
  /\ TodoDone
  /\ AppliedSoFar

(* The number that the one client has taken is still the next one: the log
   has not changed since, so that SeqIsPlace outlives the append. *)
SeqInv ==
  /\ SeqIsPlace
  /\ OneClient => \A c \in Clients : call[c] # Nothing => call[c].seq = Visible(wal) + 1

(* The one recovery and its files: what it knows against the state file, at
   each place of the call, and the .tmp file that nobody else has open. *)
AloneAt(r) ==
  /\ opened[r] = IF pc[r] = "write" THEN "tmp" ELSE "none"
  /\ pc[r] = "idle" => known[r] = {}
  /\ pc[r] # "idle" => state \notin Unusable /\ state \subseteq known[r]
  /\ pc[r] \in {"scan", "check"} => state = known[r]
  /\ pc[r] = "write" => tmp = Emptied
  /\ pc[r] = "replace" => tmp = known[r]

AloneInv == OneRecovery => \A r \in Recoverers : AloneAt(r)

\* An id that the state file or the call holds is not applied again.
Settled(t) ==
  \/ state \notin Unusable /\ t \in state
  \/ \E r \in Recoverers : t \in known[r]

(* Which failure pays for which copy: the last copy is free while its id is
   settled, and every failure that unsettles ids pays for one copy of each. *)
CopiesInv ==
  OneRecovery =>
    \A t \in Tx : Copies(t) <= crashes + faults + IF Settled(t) THEN 1 ELSE 0

----------------------------------------------------------------------------
(* Progress.  Recovery is run again and again, and a running call is given
   the processor: crashes and faults are bounded. *)

FairSpec == Spec /\ \A r \in Recoverers : WF_vars(RecoveryStep(r))

CommittedNow(t) == \E b \in Appendable : CommittedIn(Records(wal), t, b)

(* A committed transaction reaches the store although recoveries crash and
   appends fail, unless a later record of its own takes the commit back or one
   of the files can no longer be read: what failed is tried again by the next
   recovery (crash_recovery_v03h3.py:94-98). *)
CommittedIsApplied ==
  \A t \in Tx :
    CommittedNow(t) ~>
      (t \in StoredTx \/ ~CommittedNow(t) \/ ~Readable(wal) \/ state \in Unusable)
=============================================================================
