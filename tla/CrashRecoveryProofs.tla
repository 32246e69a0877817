------------------------ MODULE CrashRecoveryProofs ------------------------
(***************************************************************************)
(* Recovery, for any clients, recoverers, transactions and bounds: its     *)
(* safety (what it remembers is stored, what it stores was committed, and  *)
(* a call that ends well has applied what it scanned), where an entry is   *)
(* in the log and how many copies of it there are, and that recovery does  *)
(* what an at-least-once ledger promises.                                  *)
(***************************************************************************)
EXTENDS CrashRecovery, WalProofs

----------------------------------------------------------------------------
(* Type correctness *)

LEMMA TypeInit == Init => TypeOK
<1> SUFFICES ASSUME Init
             PROVE  TypeOK
  OBVIOUS
<1>1. << >> \in Seq(Frames(WalRecords)) /\ << >> \in Seq(Frames(StoreRecords))
  OBVIOUS
<1>2. call \in [Clients -> WalRecords \cup {Nothing}]
  BY DEF Init, WalInit
<1>3. QED
  BY <1>1, <1>2 DEF Init, WalInit, TypeOK, Unusable, Labels

(* A step of a client keeps the types of the log and of the calls. *)
LEMMA TypeWalStep ==
  ASSUME TypeOK, NEW c \in Clients, WalStep(c)
  PROVE  /\ wal' = wal \/ \E f \in Frames(WalRecords) : wal' = Append(wal, f)
         /\ wal' \in Seq(Frames(WalRecords))
         /\ call' \in [Clients -> WalRecords \cup {Nothing}]
         /\ faults' \in Nat
         /\ faults' = 0 => faults = 0
<1>1. /\ wal \in Seq(Frames(WalRecords))
      /\ call \in [Clients -> WalRecords \cup {Nothing}]
      /\ faults \in Nat
  BY DEF TypeOK
<1>2. ASSUME NEW op, NEW t, NEW b, StartAppend(c, op, t, b),
             \A n \in Nat : [op |-> op, tx |-> t, body |-> b, seq |-> n] \in WalRecords
      PROVE  wal' = wal /\ faults' = faults /\ call' \in [Clients -> WalRecords \cup {Nothing}]
  <2>1. NextSeq(wal) \in Nat
    BY <1>1, NextSeqIsNew
  <2>2. [op |-> op, tx |-> t, body |-> b, seq |-> NextSeq(wal)] \in WalRecords
    BY <1>2, <2>1
  <2>3. QED
    BY <1>1, <1>2, <2>2 DEF StartAppend
<1>3. ASSUME Return(c)
      PROVE  call' \in [Clients -> WalRecords \cup {Nothing}]
  BY <1>1, <1>3 DEF Return
<1>4. CASE BeginTransaction(c)
  <2>1. PICK t \in Tx, b \in Bodies : StartAppend(c, "INTENT", t, b)
    BY <1>4 DEF BeginTransaction
  <2>2. \A n \in Nat : [op |-> "INTENT", tx |-> t, body |-> b, seq |-> n] \in WalRecords
    BY DEF WalRecords
  <2>3. QED
    BY <1>1, <1>2, <2>1, <2>2
<1>5. CASE CommitTransaction(c)
  <2>1. PICK t \in Tx : StartAppend(c, "COMMIT", t, Nothing)
    BY <1>5 DEF CommitTransaction
  <2>2. \A n \in Nat : [op |-> "COMMIT", tx |-> t, body |-> Nothing, seq |-> n] \in WalRecords
    BY DEF WalRecords
  <2>3. QED
    BY <1>1, <1>2, <2>1, <2>2
<1>6. CASE AbortTransaction(c)
  <2>1. PICK t \in Tx : StartAppend(c, "ABORT", t, Nothing)
    BY <1>6 DEF AbortTransaction
  <2>2. \A n \in Nat : [op |-> "ABORT", tx |-> t, body |-> Nothing, seq |-> n] \in WalRecords
    BY DEF WalRecords
  <2>3. QED
    BY <1>1, <1>2, <2>1, <2>2
<1>7. CASE Checkpoint(c)
  <2>1. StartAppend(c, "CHECKPOINT", Nothing, Nothing)
    BY <1>7 DEF Checkpoint
  <2>2. \A n \in Nat : [op |-> "CHECKPOINT", tx |-> Nothing, body |-> Nothing, seq |-> n]
                          \in WalRecords
    BY DEF WalRecords
  <2>3. QED
    BY <1>1, <1>2, <2>1, <2>2
<1>8. CASE FinishAppend(c)
  <2>1. call[c] \in WalRecords
    BY <1>1, <1>8 DEF FinishAppend
  <2>2. Whole(call[c]) \in Frames(WalRecords)
    BY <2>1, FrameTypes
  <2>3. wal' = Append(wal, Whole(call[c])) /\ faults' = faults
    BY <1>8 DEF FinishAppend
  <2>4. QED
    BY <1>1, <1>3, <1>8, <2>2, <2>3 DEF FinishAppend
<1>9. CASE TearAppend(c)
  <2>1. PICK g \in Gaps : wal' = Append(wal, Torn(g))
    BY <1>9 DEF TearAppend
  <2>2. Torn(g) \in Frames(WalRecords)
    BY FrameTypes
  <2>3. faults' = faults + 1
    BY <1>9 DEF TearAppend
  <2>4. QED
    BY <1>1, <1>3, <1>9, <2>1, <2>2, <2>3 DEF TearAppend
<1>10. CASE LoseCall(c)
  BY <1>1, <1>3, <1>10 DEF LoseCall
<1>11. QED
  BY <1>4, <1>5, <1>6, <1>7, <1>8, <1>9, <1>10 DEF WalStep

(* What the loop appends is of the store's type. *)
LEMMA TypeReach ==
  ASSUME TypeOK, NEW r \in Recoverers, NEW i \in todo[r]
  PROVE  /\ i \in Intents
         /\ [tx |-> i.tx, body |-> i.body] \in StoreRecords
         /\ Whole([tx |-> i.tx, body |-> i.body]) \in Frames(StoreRecords)
<1>1. i \in Intents
  BY DEF TypeOK
<1>2. [tx |-> i.tx, body |-> i.body] \in StoreRecords
  BY <1>1 DEF Intents, StoreRecords
<1>3. QED
  BY <1>1, <1>2, FrameTypes

(* Every step of the loop keeps the types of what Reach changes. *)
LEMMA TypeNext == TypeOK /\ [Next]_vars => TypeOK'
<1> SUFFICES ASSUME TypeOK, [Next]_vars
             PROVE  TypeOK'
  OBVIOUS
<1> USE DEF TypeOK
<1>1. ASSUME NEW c \in Clients, WalStep(c), UNCHANGED <<disk, locals, crashes>>
      PROVE  TypeOK'
  BY <1>1, TypeWalStep DEF disk, locals
<1>2. ASSUME NEW r \in Recoverers, LoadState(r)
      PROVE  TypeOK'
  BY <1>2 DEF LoadState, Goto, walVars, disk, Labels, Unusable
<1>3. ASSUME NEW r \in Recoverers, ScanWal(r)
      PROVE  TypeOK'
  <2>1. Committed(Records(wal)) \subseteq Intents
    BY ScanIsCommitted
  <2>2. QED
    BY <1>3, <2>1 DEF ScanWal, Goto, walVars, disk, Labels
<1>4. ASSUME NEW r \in Recoverers, Leave(r), UNCHANGED <<walVars, faults, disk>>,
             crashes' \in Nat
      PROVE  TypeOK'
  BY <1>4 DEF Leave, Goto, walVars, disk, Labels
<1>5. ASSUME NEW r \in Recoverers, SkipIntent(r)
      PROVE  TypeOK'
  BY <1>5 DEF SkipIntent, Reach, walVars
<1>6. ASSUME NEW r \in Recoverers, RejectIntent(r)
      PROVE  TypeOK'
  BY <1>6 DEF RejectIntent, Reach, walVars
<1>7. ASSUME NEW r \in Recoverers, ApplyRecord(r)
      PROVE  TypeOK'
  <2>1. PICK i \in todo[r] :
          /\ ReachAppend(r, i)
          /\ store' = Append(store, Whole([tx |-> i.tx, body |-> i.body]))
          /\ known' = [known EXCEPT ![r] = @ \cup {i.tx}]
          /\ UNCHANGED <<errors, faults>>
    BY <1>7 DEF ApplyRecord
  <2>2. store' \in Seq(Frames(StoreRecords))
    BY <2>1, TypeReach
  <2>3. i.tx \in Tx
    BY TypeReach DEF Intents
  <2>4. known' \in [Recoverers -> SUBSET Tx]
    BY <2>1, <2>3
  <2>5. QED
    BY <2>1, <2>2, <2>4 DEF ReachAppend, Reach, walVars
<1>8. ASSUME NEW r \in Recoverers, FailRecord(r)
      PROVE  TypeOK'
  <2>1. PICK i \in todo[r] :
          /\ ReachAppend(r, i)
          /\ \/ \E g \in Gaps : store' = Append(store, Torn(g))
             \/ store' = Append(store, Whole([tx |-> i.tx, body |-> i.body]))
          /\ faults' = faults + 1
          /\ errors' = [errors EXCEPT ![r] = TRUE]
          /\ UNCHANGED known
    BY <1>8 DEF FailRecord
  <2>2. store' \in Seq(Frames(StoreRecords))
    <3>1. CASE \E g \in Gaps : store' = Append(store, Torn(g))
      <4>1. PICK g \in Gaps : store' = Append(store, Torn(g))
        BY <3>1
      <4>2. Torn(g) \in Frames(StoreRecords)
        BY FrameTypes
      <4>3. QED
        BY <4>1, <4>2
    <3>2. CASE store' = Append(store, Whole([tx |-> i.tx, body |-> i.body]))
      BY <3>2, TypeReach
    <3>3. QED
      BY <2>1, <3>1, <3>2
  <2>3. errors' \in [Recoverers -> BOOLEAN]
    BY <2>1
  <2>4. todo' \in [Recoverers -> SUBSET Intents]
    BY <2>1 DEF ReachAppend, Reach
  <2>5. faults' \in Nat
    BY <2>1
  <2>6. UNCHANGED <<walVars, state, synced, tmp, opened, pc, known, scan, crashes>>
    BY <2>1 DEF ReachAppend, Reach
  <2>7. QED
    BY <2>2, <2>3, <2>4, <2>5, <2>6 DEF walVars
<1>9. ASSUME NEW r \in Recoverers, EndLoop(r)
      PROVE  TypeOK'
  BY <1>9 DEF EndLoop, Goto, walVars, disk, Labels
<1>10. ASSUME NEW r \in Recoverers, OpenTmp(r) \/ WriteTmp(r) \/ WriteRaises(r)
       PROVE  TypeOK'
  <2>1. ASSUME NEW text \in (SUBSET Tx) \cup {Unreadable}, PutText(r, text)
        PROVE  /\ tmp' \in (SUBSET Tx) \cup Unusable
               /\ state' \in (SUBSET Tx) \cup {Emptied, Unreadable}
               /\ opened' \in [Recoverers -> {"none", "tmp", "state", "gone"}]
    BY <2>1 DEF PutText, Overwritten, Unusable
  <2>2. CASE OpenTmp(r)
    BY <2>2 DEF OpenTmp, Goto, walVars, Labels, Unusable
  <2>3. CASE WriteTmp(r)
    BY <2>1, <2>3 DEF WriteTmp, Goto, walVars, Labels
  <2>4. CASE WriteRaises(r)
    BY <2>1, <2>4 DEF WriteRaises, Leave, Goto, walVars, Labels
  <2>5. QED
    BY <1>10, <2>2, <2>3, <2>4
<1>11. ASSUME NEW r \in Recoverers, ReplaceState(r)
       PROVE  TypeOK'
  <2>1. opened' \in [Recoverers -> {"none", "tmp", "state", "gone"}]
    BY <1>11 DEF ReplaceState, Renamed
  <2>2. QED
    BY <1>11, <2>1 DEF ReplaceState, Goto, walVars, Labels, Unusable
<1>12. CASE FlushState
  BY <1>12 DEF FlushState, walVars, locals
<1>13. CASE PowerLoss
  BY <1>13 DEF PowerLoss, Labels, Unusable
<1>14. CASE UNCHANGED vars
  BY <1>14 DEF vars, walVars, disk, locals
<1>15. ASSUME NEW r \in Recoverers, RecoveryStep(r) \/ Crash(r)
       PROVE  TypeOK'
  <2>1. CASE ScanRaises(r) \/ ReplaceRaises(r) \/ CheckStore(r)
    BY <2>1, <1>4 DEF ScanRaises, ReplaceRaises, CheckStore
  <2>2. CASE Crash(r)
    BY <2>2 DEF Crash, Leave, Goto, walVars, Labels
  <2>3. QED
    BY <1>2, <1>3, <1>5, <1>6, <1>7, <1>8, <1>9, <1>10, <1>11, <1>15, <2>1, <2>2
       DEF RecoveryStep
<1>16. QED
  BY <1>1, <1>12, <1>13, <1>14, <1>15 DEF Next

(* Every variable keeps its type. *)
THEOREM TypeCorrect == Spec => []TypeOK
<1>1. QED
  BY TypeInit, TypeNext, PTL DEF Spec

----------------------------------------------------------------------------
(* What grows *)

(* A step leaves the log as it is, or appends one frame to it. *)
LEMMA LogGrows ==
  ASSUME TypeOK, [Next]_vars
  PROVE  \/ wal' = wal
         \/ \E f \in Frames(WalRecords) : wal' = Append(wal, f)
<1>1. ASSUME NEW c \in Clients, WalStep(c)
      PROVE  wal' = wal \/ \E f \in Frames(WalRecords) : wal' = Append(wal, f)
  BY <1>1, TypeWalStep
<1>2. ASSUME NEW r \in Recoverers, RecoveryStep(r) \/ Crash(r)
      PROVE  wal' = wal
  BY <1>2 DEF RecoveryStep, Crash, LoadState, ScanWal, ScanRaises, SkipIntent, RejectIntent,
              ApplyRecord, FailRecord, ReachAppend, Reach, EndLoop, OpenTmp, WriteTmp, WriteRaises,
              ReplaceState, ReplaceRaises, CheckStore, walVars
<1>3. QED
  BY <1>1, <1>2 DEF Next, FlushState, PowerLoss, walVars, vars

(* What was once committed remains so. *)
LEMMA CommitmentKept ==
  ASSUME TypeOK, [Next]_vars, NEW t, NEW b, OnceCommitted(t, b)
  PROVE  OnceCommitted(t, b)'
<1>1. wal \in Seq(Frames(WalRecords))
  BY DEF TypeOK
<1>2. CASE wal' = wal
  BY <1>2 DEF OnceCommitted
<1>3. CASE \E f \in Frames(WalRecords) : wal' = Append(wal, f)
  BY <1>1, <1>3, OnceCommittedStable
<1>4. QED
  BY <1>2, <1>3, LogGrows

(* The store after a step, and why it grew. *)
LEMMA StoreGrows ==
  ASSUME TypeOK, [Next]_vars
  PROVE  \/ Written(store') = Written(store)
         \/ \E r \in Recoverers : \E i \in todo[r] :
              Written(store') = Written(store) \cup {[tx |-> i.tx, body |-> i.body]}
<1> DEFINE Same == Written(store') = Written(store)
           Grown == \E r \in Recoverers : \E i \in todo[r] :
                      Written(store') = Written(store) \cup {[tx |-> i.tx, body |-> i.body]}
<1>1. store \in Seq(Frames(StoreRecords))
  BY DEF TypeOK
<1>2. ASSUME NEW r \in Recoverers, NEW i \in todo[r],
             store' = Append(store, Whole([tx |-> i.tx, body |-> i.body]))
      PROVE  Grown
  <2>1. /\ Whole([tx |-> i.tx, body |-> i.body]) \in Frames(StoreRecords)
        /\ IsWhole(Whole([tx |-> i.tx, body |-> i.body]))
        /\ Whole([tx |-> i.tx, body |-> i.body]).val = [tx |-> i.tx, body |-> i.body]
    BY TypeReach, FrameTypes
  <2>2. Written(store') = Written(store) \cup {[tx |-> i.tx, body |-> i.body]}
    BY <1>1, <1>2, <2>1, WrittenAppend
  <2>3. QED
    BY <2>2
<1>3. ASSUME NEW g \in Gaps, store' = Append(store, Torn(g))
      PROVE  Same
  <2>1. Torn(g) \in Frames(StoreRecords) /\ ~IsWhole(Torn(g))
    BY FrameTypes
  <2>2. QED
    BY <1>1, <1>3, <2>1, WrittenAppend
<1>4. CASE store' = store
  BY <1>4
<1>5. ASSUME NEW r \in Recoverers, ApplyRecord(r)
      PROVE  Grown
  BY <1>2, <1>5 DEF ApplyRecord
<1>6. ASSUME NEW r \in Recoverers, FailRecord(r)
      PROVE  Same \/ Grown
  BY <1>2, <1>3, <1>6 DEF FailRecord
<1>7. ASSUME NEW r \in Recoverers, RecoveryStep(r) \/ Crash(r), store' # store
      PROVE  ApplyRecord(r) \/ FailRecord(r)
  BY <1>7 DEF RecoveryStep, Crash, LoadState, ScanWal, ScanRaises, SkipIntent, RejectIntent,
              EndLoop, OpenTmp, WriteTmp, WriteRaises, ReplaceState, ReplaceRaises, CheckStore,
              disk
<1>8. CASE store' # store
  <2>1. PICK r \in Recoverers : RecoveryStep(r) \/ Crash(r)
    BY <1>8 DEF Next, FlushState, PowerLoss, disk, vars
  <2>2. QED
    BY <1>5, <1>6, <1>7, <1>8, <2>1
<1>9. QED
  BY <1>4, <1>8

(* A transaction with a record in the store keeps it. *)
LEMMA StoredKept ==
  ASSUME TypeOK, [Next]_vars
  PROVE  StoredTx \subseteq StoredTx'
<1>1. Written(store) \subseteq Written(store')
  BY StoreGrows
<1>2. QED
  BY <1>1 DEF StoredTx

(* An append of the loop that succeeds puts its transaction into the store. *)
LEMMA ApplyStores ==
  ASSUME TypeOK, NEW r \in Recoverers, NEW i \in todo[r],
         store' = Append(store, Whole([tx |-> i.tx, body |-> i.body]))
  PROVE  i.tx \in StoredTx'
<1>1. store \in Seq(Frames(StoreRecords))
  BY DEF TypeOK
<1>2. /\ Whole([tx |-> i.tx, body |-> i.body]) \in Frames(StoreRecords)
      /\ IsWhole(Whole([tx |-> i.tx, body |-> i.body]))
      /\ Whole([tx |-> i.tx, body |-> i.body]).val = [tx |-> i.tx, body |-> i.body]
  BY TypeReach, FrameTypes
<1>3. [tx |-> i.tx, body |-> i.body] \in Written(store')
  BY <1>1, <1>2, WrittenAppend
<1>4. QED
  BY <1>3 DEF StoredTx

----------------------------------------------------------------------------
(* The parts of the invariant *)

LEMMA SafetyInit == Init => SafetyInv
<1> SUFFICES ASSUME Init
             PROVE  SafetyInv
  OBVIOUS
<1>1. Written(store) = {}
  BY DEF Init, Written
<1>2. RememberedIsStored
  BY DEF Init, RememberedIsStored, Unusable
<1>3. QED
  BY <1>1, <1>2 DEF Init, SafetyInv, StoreJustified, TodoJustified, TodoDone, AppliedSoFar

(* The loop holds committed intents only. *)
LEMMA KeepTodoJustified ==
  ASSUME TypeOK, TodoJustified, [Next]_vars
  PROVE  TodoJustified'
<1> SUFFICES ASSUME NEW r \in Recoverers, NEW i \in todo'[r]
             PROVE  OnceCommitted(i.tx, i.body)'
  BY DEF TodoJustified
<1>1. wal \in Seq(Frames(WalRecords)) /\ todo \in [Recoverers -> SUBSET Intents]
  BY DEF TypeOK
<1>2. CASE i \in todo[r]
  BY <1>2, CommitmentKept DEF TodoJustified
<1>3. CASE i \notin todo[r]
  <2>1. ASSUME NEW q \in Recoverers, RecoveryStep(q) \/ Crash(q)
        PROVE  i \in Committed(Records(wal))
    <3>1. CASE ScanWal(q)
      BY <1>1, <1>3, <3>1 DEF ScanWal
    <3>2. CASE ScanRaises(q) \/ WriteRaises(q) \/ ReplaceRaises(q) \/ CheckStore(q) \/ Crash(q)
      BY <1>1, <1>3, <3>2 DEF ScanRaises, WriteRaises, ReplaceRaises, CheckStore, Crash, Leave
    <3>3. CASE SkipIntent(q) \/ RejectIntent(q) \/ ApplyRecord(q) \/ FailRecord(q)
      BY <1>1, <1>3, <3>3 DEF SkipIntent, RejectIntent, ApplyRecord, FailRecord,
                              ReachAppend, Reach
    <3>4. CASE LoadState(q) \/ EndLoop(q) \/ OpenTmp(q) \/ WriteTmp(q) \/ ReplaceState(q)
      BY <1>3, <3>4 DEF LoadState, EndLoop, OpenTmp, WriteTmp, ReplaceState
    <3>5. QED
      BY <2>1, <3>1, <3>2, <3>3, <3>4 DEF RecoveryStep
  <2>2. i \in Committed(Records(wal))
    BY <1>3, <2>1 DEF Next, FlushState, PowerLoss, locals, vars
  <2>3. OnceCommitted(i.tx, i.body)
    BY <1>1, <2>2, ScanIsCommitted
  <2>4. QED
    BY <2>3, CommitmentKept
<1>4. QED
  BY <1>2, <1>3

(* What the store holds was committed. *)
LEMMA KeepStoreJustified ==
  ASSUME TypeOK, StoreJustified, TodoJustified, [Next]_vars
  PROVE  StoreJustified'
<1> SUFFICES ASSUME NEW v \in Written(store')
             PROVE  OnceCommitted(v.tx, v.body)'
  BY DEF StoreJustified
<1>1. OnceCommitted(v.tx, v.body)
  BY StoreGrows DEF StoreJustified, TodoJustified
<1>2. QED
  BY <1>1, CommitmentKept

(* After the loop nothing is left to do. *)
LEMMA KeepTodoDone ==
  ASSUME TypeOK, TodoDone, [Next]_vars
  PROVE  TodoDone'
<1> SUFFICES ASSUME NEW r \in Recoverers, pc'[r] \in {"save", "write", "replace", "check"}
             PROVE  todo'[r] = {}
  BY DEF TodoDone
<1>1. /\ pc \in [Recoverers -> Labels]
      /\ todo \in [Recoverers -> SUBSET Intents]
  BY DEF TypeOK
<1>2. ASSUME NEW q \in Recoverers, RecoveryStep(q) \/ Crash(q)
      PROVE  todo'[r] = {}
  <2>1. CASE ScanWal(q)
    BY <1>1, <2>1 DEF ScanWal, Goto, TodoDone
  <2>2. CASE ScanRaises(q) \/ WriteRaises(q) \/ ReplaceRaises(q) \/ CheckStore(q) \/ Crash(q)
    BY <1>1, <2>2 DEF ScanRaises, WriteRaises, ReplaceRaises, CheckStore, Crash, Leave, Goto,
                      TodoDone
  <2>3. CASE SkipIntent(q) \/ RejectIntent(q) \/ ApplyRecord(q) \/ FailRecord(q)
    BY <1>1, <2>3 DEF SkipIntent, RejectIntent, ApplyRecord, FailRecord, ReachAppend, Reach,
                      TodoDone
  <2>4. CASE LoadState(q) \/ EndLoop(q) \/ OpenTmp(q) \/ WriteTmp(q) \/ ReplaceState(q)
    BY <1>1, <2>4 DEF LoadState, EndLoop, OpenTmp, WriteTmp, ReplaceState, Goto, TodoDone
  <2>5. QED
    BY <1>2, <2>1, <2>2, <2>3, <2>4 DEF RecoveryStep
<1>3. CASE pc' = pc /\ todo' = todo
  BY <1>3 DEF TodoDone
<1>4. CASE PowerLoss
  BY <1>4 DEF PowerLoss
<1>5. QED
  BY <1>2, <1>3, <1>4 DEF Next, FlushState, locals, vars
(* What is remembered stays stored: an id joins known with its record, the
   files take their content from known or from one another. *)
LEMMA KeepRemembered ==
  ASSUME TypeOK, RememberedIsStored, [Next]_vars
  PROVE  RememberedIsStored'
<1> DEFINE Safe(file) == file \notin Unusable => file \subseteq StoredTx
<1>1. known \in [Recoverers -> SUBSET Tx]
  BY DEF TypeOK
<1>2. StoredTx \subseteq StoredTx'
  BY StoredKept
<1>3. /\ \A r \in Recoverers : known[r] \subseteq StoredTx
      /\ Safe(state) /\ Safe(synced) /\ Safe(tmp)
  BY DEF RememberedIsStored
<1>4. SUFFICES /\ \A r \in Recoverers : known'[r] \subseteq StoredTx'
               /\ Safe(state)' /\ Safe(synced)' /\ Safe(tmp)'
  BY DEF RememberedIsStored, Unusable, NoFile, Emptied, Unreadable
<1>5. ASSUME UNCHANGED <<state, synced, tmp>>
      PROVE  Safe(state)' /\ Safe(synced)' /\ Safe(tmp)'
  BY <1>2, <1>3, <1>5 DEF Unusable, NoFile, Emptied, Unreadable
<1>6. ASSUME UNCHANGED known
      PROVE  \A r \in Recoverers : known'[r] \subseteq StoredTx'
  BY <1>2, <1>3, <1>6
<1>7. ASSUME NEW q \in Recoverers, Leave(q)
      PROVE  \A r \in Recoverers : known'[r] \subseteq StoredTx'
  BY <1>1, <1>2, <1>3, <1>7 DEF Leave
<1>8. ASSUME NEW q \in Recoverers, RecoveryStep(q) \/ Crash(q)
      PROVE  \A r \in Recoverers : known'[r] \subseteq StoredTx'
  <2>1. CASE LoadState(q)
    <3>1. state \subseteq StoredTx
      BY <1>3, <2>1 DEF LoadState
    <3>2. QED
      BY <1>1, <1>2, <1>3, <2>1, <3>1 DEF LoadState
  <2>2. CASE ApplyRecord(q)
    <3>1. PICK i \in todo[q] :
            /\ store' = Append(store, Whole([tx |-> i.tx, body |-> i.body]))
            /\ known' = [known EXCEPT ![q] = @ \cup {i.tx}]
      BY <2>2 DEF ApplyRecord
    <3>2. i.tx \in StoredTx'
      BY <3>1, ApplyStores
    <3>3. QED
      BY <1>1, <1>2, <1>3, <3>1, <3>2
  <2>3. CASE ScanRaises(q) \/ WriteRaises(q) \/ ReplaceRaises(q) \/ CheckStore(q) \/ Crash(q)
    BY <1>7, <2>3 DEF ScanRaises, WriteRaises, ReplaceRaises, CheckStore, Crash
  <2>4. CASE ScanWal(q) \/ SkipIntent(q) \/ RejectIntent(q) \/ FailRecord(q) \/ EndLoop(q)
               \/ OpenTmp(q) \/ WriteTmp(q) \/ ReplaceState(q)
    BY <1>6, <2>4 DEF ScanWal, SkipIntent, RejectIntent, FailRecord, EndLoop, OpenTmp, WriteTmp,
                      ReplaceState
  <2>5. QED
    BY <1>8, <2>1, <2>2, <2>3, <2>4 DEF RecoveryStep
<1>9. ASSUME NEW q \in Recoverers, RecoveryStep(q) \/ Crash(q)
      PROVE  Safe(state)' /\ Safe(synced)' /\ Safe(tmp)'
  <2>1. CASE OpenTmp(q) \/ WriteTmp(q) \/ WriteRaises(q)
    <3>1. ASSUME NEW text, Safe(text), PutText(q, text), UNCHANGED synced
          PROVE  Safe(state)' /\ Safe(synced)' /\ Safe(tmp)'
      <4>1. /\ tmp' \in {tmp, text, Unreadable}
            /\ state' \in {state, text, Unreadable}
        BY <3>1 DEF PutText, Overwritten
      <4>2. QED
        BY <1>2, <1>3, <3>1, <4>1 DEF Unusable, NoFile, Emptied, Unreadable
    <3>2. Safe(known[q]) /\ Safe(Unreadable)
      BY <1>3 DEF Unusable
    <3>3. CASE OpenTmp(q)
      BY <1>2, <1>3, <3>3 DEF OpenTmp, Unusable, NoFile, Emptied, Unreadable
    <3>4. CASE WriteTmp(q)
      BY <3>1, <3>2, <3>4 DEF WriteTmp
    <3>5. CASE WriteRaises(q)
      BY <3>1, <3>2, <3>5 DEF WriteRaises
    <3>6. QED
      BY <2>1, <3>3, <3>4, <3>5
  <2>2. CASE ReplaceState(q)
    BY <1>2, <1>3, <2>2 DEF ReplaceState, Unusable, NoFile, Emptied, Unreadable
  <2>3. CASE LoadState(q) \/ ScanWal(q) \/ ScanRaises(q) \/ EndLoop(q) \/ ReplaceRaises(q)
               \/ CheckStore(q) \/ Crash(q)
    BY <1>5, <2>3 DEF LoadState, ScanWal, ScanRaises, EndLoop, ReplaceRaises, CheckStore,
                      Crash, disk
  <2>4. CASE SkipIntent(q) \/ RejectIntent(q) \/ ApplyRecord(q) \/ FailRecord(q)
    BY <1>5, <2>4 DEF SkipIntent, RejectIntent, ApplyRecord, FailRecord, ReachAppend, Reach
  <2>5. QED
    BY <1>9, <2>1, <2>2, <2>3, <2>4 DEF RecoveryStep
<1>10. CASE FlushState
  BY <1>2, <1>3, <1>6, <1>10 DEF FlushState, locals, Unusable, NoFile, Emptied, Unreadable
<1>11. CASE PowerLoss
  <2>1. \A r \in Recoverers : known'[r] = {}
    BY <1>11 DEF PowerLoss
  <2>2. Safe(tmp)'
    BY <1>11 DEF PowerLoss, Unusable, NoFile, Emptied, Unreadable
  <2>3. Safe(state)' /\ Safe(synced)'
    BY <1>2, <1>3, <1>11 DEF PowerLoss, Unusable, NoFile, Emptied, Unreadable
  <2>4. QED
    BY <2>1, <2>2, <2>3
<1>12. QED
  BY <1>5, <1>6, <1>8, <1>9, <1>10, <1>11 DEF Next, disk, locals, vars

(* No fault is ever forgotten. *)
LEMMA FaultsKept ==
  ASSUME TypeOK, [Next]_vars, faults' = 0
  PROVE  faults = 0
<1>1. faults \in Nat
  BY DEF TypeOK
<1>2. ASSUME NEW c \in Clients, WalStep(c)
      PROVE  faults = 0
  BY <1>2, TypeWalStep
<1>3. ASSUME NEW r \in Recoverers, RecoveryStep(r) \/ Crash(r)
      PROVE  faults = 0
  <2>1. CASE FailRecord(r) \/ WriteRaises(r)
    <3>1. faults' = faults + 1
      BY <2>1 DEF FailRecord, WriteRaises
    <3>2. QED
      BY <1>1, <3>1
  <2>2. CASE SkipIntent(r) \/ RejectIntent(r) \/ ApplyRecord(r)
    BY <2>2 DEF SkipIntent, RejectIntent, ApplyRecord
  <2>3. CASE LoadState(r) \/ ScanWal(r) \/ ScanRaises(r) \/ EndLoop(r) \/ OpenTmp(r)
               \/ WriteTmp(r) \/ ReplaceState(r) \/ ReplaceRaises(r) \/ CheckStore(r) \/ Crash(r)
    BY <2>3 DEF LoadState, ScanWal, ScanRaises, EndLoop, OpenTmp, WriteTmp, ReplaceState,
                ReplaceRaises, CheckStore, Crash
  <2>4. QED
    BY <1>3, <2>1, <2>2, <2>3 DEF RecoveryStep
<1>4. QED
  BY <1>2, <1>3 DEF Next, FlushState, PowerLoss, vars
(* A step of one recovery leaves the locals of the others alone. *)
LEMMA OthersKept ==
  ASSUME TypeOK, NEW q \in Recoverers, RecoveryStep(q) \/ Crash(q), NEW r \in Recoverers, q # r
  PROVE  pc'[r] = pc[r] /\ scan'[r] = scan[r] /\ todo'[r] = todo[r] /\ errors'[r] = errors[r]
<1>1. /\ pc \in [Recoverers -> Labels]
      /\ scan \in [Recoverers -> SUBSET Intents]
      /\ todo \in [Recoverers -> SUBSET Intents]
      /\ errors \in [Recoverers -> BOOLEAN]
  BY DEF TypeOK
<1>2. CASE LoadState(q) \/ ScanWal(q) \/ EndLoop(q) \/ OpenTmp(q) \/ WriteTmp(q)
             \/ ReplaceState(q)
  BY <1>1, <1>2 DEF LoadState, ScanWal, EndLoop, OpenTmp, WriteTmp, ReplaceState, Goto
<1>3. CASE ScanRaises(q) \/ WriteRaises(q) \/ ReplaceRaises(q) \/ CheckStore(q) \/ Crash(q)
  BY <1>1, <1>3 DEF ScanRaises, WriteRaises, ReplaceRaises, CheckStore, Crash, Leave, Goto
<1>4. CASE SkipIntent(q) \/ RejectIntent(q) \/ ApplyRecord(q) \/ FailRecord(q)
  BY <1>1, <1>4 DEF SkipIntent, RejectIntent, ApplyRecord, FailRecord, ReachAppend, Reach
<1>5. QED
  BY <1>2, <1>3, <1>4 DEF RecoveryStep

(* What the loop has left behind without an error is in the store. *)
LEMMA KeepAppliedSoFar ==
  ASSUME TypeOK, RememberedIsStored, AppliedSoFar, [Next]_vars
  PROVE  AppliedSoFar'
<1> SUFFICES ASSUME NEW r \in Recoverers,
                    pc'[r] \in {"loop", "save", "write", "replace", "check"},
                    ~errors'[r] \/ faults' = 0,
                    NEW i \in scan'[r] \ todo'[r],
                    i.body \in Appendable
             PROVE  i.tx \in StoredTx'
  BY DEF AppliedSoFar
<1>1. /\ pc \in [Recoverers -> Labels]
      /\ scan \in [Recoverers -> SUBSET Intents]
      /\ todo \in [Recoverers -> SUBSET Intents]
      /\ errors \in [Recoverers -> BOOLEAN]
  BY DEF TypeOK
<1>2. ASSUME pc[r] \in {"loop", "save", "write", "replace", "check"},
             i \in scan[r] \ todo[r],
             errors'[r] = errors[r]
      PROVE  i.tx \in StoredTx'
  <2>1. ~errors[r] \/ faults = 0
    BY <1>2, FaultsKept
  <2>2. i.tx \in StoredTx
    BY <1>2, <2>1 DEF AppliedSoFar
  <2>3. QED
    BY <2>2, StoredKept
<1>3. CASE UNCHANGED <<pc, scan, todo, errors>>
  BY <1>2, <1>3
<1>4. CASE PowerLoss
  BY <1>4 DEF PowerLoss
<1>5. ASSUME NEW q \in Recoverers, RecoveryStep(q) \/ Crash(q), q # r
      PROVE  i.tx \in StoredTx'
  BY <1>2, <1>5, OthersKept
<1>6. ASSUME RecoveryStep(r) \/ Crash(r)
      PROVE  i.tx \in StoredTx'
  <2>1. CASE LoadState(r) \/ ScanWal(r)
    BY <1>1, <2>1 DEF LoadState, ScanWal, Goto
  <2>2. CASE ScanRaises(r) \/ WriteRaises(r) \/ ReplaceRaises(r) \/ CheckStore(r) \/ Crash(r)
    BY <1>1, <2>2 DEF ScanRaises, WriteRaises, ReplaceRaises, CheckStore, Crash, Leave, Goto
  <2>3. CASE EndLoop(r) \/ OpenTmp(r) \/ WriteTmp(r) \/ ReplaceState(r)
    BY <1>2, <2>3 DEF EndLoop, OpenTmp, WriteTmp, ReplaceState
  <2>4. ASSUME NEW j \in todo[r], Reach(r, j), errors'[r] = errors[r], i # j
        PROVE  i.tx \in StoredTx'
    BY <1>1, <1>2, <2>4 DEF Reach
  <2>5. CASE SkipIntent(r)
    <3>1. PICK j \in todo[r] : /\ Reach(r, j)
                               /\ j.tx \in known[r] \/ j.body \in Unsupported
                               /\ UNCHANGED errors
      BY <2>5 DEF SkipIntent
    <3>2. CASE i = j
      <4>1. i.tx \in known[r]
        BY <3>1, <3>2, WalAssumption
      <4>2. QED
        BY <4>1, StoredKept DEF RememberedIsStored
    <3>3. QED
      BY <2>4, <3>1, <3>2
  <2>6. CASE RejectIntent(r)
    <3>1. PICK j \in todo[r] : /\ Reach(r, j)
                               /\ j.body \in Malformed
                               /\ errors' = [errors EXCEPT ![r] = TRUE]
                               /\ UNCHANGED faults
      BY <2>6 DEF RejectIntent
    <3>2. faults = 0 /\ i # j
      BY <1>1, <3>1, WalAssumption
    <3>3. pc[r] = "loop" /\ i \in scan[r] \ todo[r]
      BY <1>1, <3>1, <3>2 DEF Reach
    <3>4. i.tx \in StoredTx
      BY <3>2, <3>3 DEF AppliedSoFar
    <3>5. QED
      BY <3>4, StoredKept
  <2>7. CASE ApplyRecord(r)
    <3>1. PICK j \in todo[r] :
            /\ Reach(r, j)
            /\ store' = Append(store, Whole([tx |-> j.tx, body |-> j.body]))
            /\ UNCHANGED errors
      BY <2>7 DEF ApplyRecord, ReachAppend
    <3>2. CASE i = j
      BY <3>1, <3>2, ApplyStores
    <3>3. QED
      BY <2>4, <3>1, <3>2
  <2>8. CASE FailRecord(r)
    <3>1. faults' = faults + 1 /\ errors' = [errors EXCEPT ![r] = TRUE]
      BY <2>8 DEF FailRecord
    <3>2. faults \in Nat
      BY DEF TypeOK
    <3>3. faults' # 0 /\ errors'[r] = TRUE
      BY <1>1, <3>1, <3>2
    <3>4. QED
      BY <3>3
  <2>9. QED
    BY <1>6, <2>1, <2>2, <2>3, <2>5, <2>6, <2>7, <2>8 DEF RecoveryStep
<1>7. QED
  BY <1>3, <1>4, <1>5, <1>6 DEF Next, FlushState, locals, vars

----------------------------------------------------------------------------
(* The theorems *)

(* The strengthening holds of every state. *)
THEOREM Safety == Spec => []SafetyInv
<1>1. SafetyInv /\ TypeOK /\ [Next]_vars => SafetyInv'
  BY KeepRemembered, KeepStoreJustified, KeepTodoJustified, KeepTodoDone, KeepAppliedSoFar
     DEF SafetyInv
<1>2. QED
  BY <1>1, SafetyInit, TypeCorrect, PTL DEF Spec

(* Every id recovery remembers, in memory or in a file, has its record. *)
THEOREM RememberedCorrect == Spec => []RememberedIsStored
<1>1. SafetyInv => RememberedIsStored
  BY DEF SafetyInv
<1>2. QED
  BY <1>1, Safety, PTL

(* Only what was committed reaches the store. *)
THEOREM StoreCorrect == Spec => []StoreJustified
<1>1. SafetyInv => StoreJustified
  BY DEF SafetyInv
<1>2. QED
  BY <1>1, Safety, PTL

(* A call that ends well has applied everything it scanned. *)
THEOREM PassCorrect == Spec => []PassMeansApplied
<1>1. SafetyInv => PassMeansApplied
  BY DEF SafetyInv, TodoDone, AppliedSoFar, PassMeansApplied
<1>2. QED
  BY <1>1, Safety, PTL

----------------------------------------------------------------------------
(* The numbers of the log *)

LEMMA SeqInit == Init => SeqInv
<1> SUFFICES ASSUME Init
             PROVE  SeqInv
  OBVIOUS
<1>1. << >> \in Seq(Frames(WalRecords))
  OBVIOUS
<1>2. Visible(wal) \in 0..Len(wal)
  BY <1>1, VisibleDef DEF Init, WalInit
<1>3. 1..Visible(wal) = {}
  BY <1>2 DEF Init, WalInit
<1>4. QED
  BY <1>3 DEF Init, WalInit, SeqInv, SeqIsPlace

(* The only client writes its record at the place it is numbered for. *)
LEMMA SeqNext ==
  ASSUME TypeOK, SeqInv, [Next]_vars
  PROVE  SeqInv'
<1> SUFFICES ASSUME OneClient
             PROVE  /\ \A i \in 1..Visible(wal') : wal'[i].val.seq = i
                    /\ \A c \in Clients : call'[c] # Nothing => call'[c].seq = Visible(wal') + 1
  BY DEF SeqInv, SeqIsPlace
<1>1. /\ wal \in Seq(Frames(WalRecords))
      /\ call \in [Clients -> WalRecords \cup {Nothing}]
  BY DEF TypeOK
<1>2. /\ \A i \in 1..Visible(wal) : wal[i].val.seq = i
      /\ \A c \in Clients : call[c] # Nothing => call[c].seq = Visible(wal) + 1
  BY DEF SeqInv, SeqIsPlace
<1>3. NextSeq(wal) = Visible(wal) + 1
  <2>1. \A i \in 1..Visible(wal) : Records(wal)[i].seq = i
    BY <1>2 DEF Records
  <2>2. QED
    BY <1>1, <2>1, NextSeqIsNext
<1>4. CASE wal' = wal /\ call' = call
  BY <1>2, <1>4
<1>5. ASSUME NEW c \in Clients, WalStep(c)
      PROVE  /\ \A i \in 1..Visible(wal') : wal'[i].val.seq = i
             /\ \A d \in Clients : call'[d] # Nothing => call'[d].seq = Visible(wal') + 1
  <2>1. \A d \in Clients : d = c
    BY DEF OneClient
  <2>2. ASSUME NEW op, NEW t, NEW b, StartAppend(c, op, t, b)
        PROVE  wal' = wal /\ call'[c].seq = NextSeq(wal)
    BY <1>1, <2>2 DEF StartAppend
  <2>3. CASE BeginTransaction(c) \/ CommitTransaction(c) \/ AbortTransaction(c) \/ Checkpoint(c)
    <3>1. wal' = wal /\ call'[c].seq = NextSeq(wal)
      BY <2>2, <2>3 DEF BeginTransaction, CommitTransaction, AbortTransaction, Checkpoint
    <3>2. QED
      BY <1>2, <1>3, <2>1, <3>1
  <2>4. CASE FinishAppend(c)
    <3>1. /\ call[c] \in WalRecords
          /\ call[c].seq = Visible(wal) + 1
          /\ wal' = Append(wal, Whole(call[c]))
          /\ call'[c] = Nothing
      BY <1>1, <1>2, <2>4 DEF FinishAppend, Return
    <3>2. /\ Whole(call[c]) \in Frames(WalRecords)
          /\ IsWhole(Whole(call[c]))
          /\ Whole(call[c]).val = call[c]
      BY <3>1, FrameTypes
    <3>3. Visible(wal') = IF Visible(wal) = Len(wal) THEN Len(wal) + 1 ELSE Visible(wal)
      BY <1>1, <3>1, <3>2, VisibleAppend
    <3>4. Visible(wal) \in 0..Len(wal)
      BY <1>1, VisibleDef
    <3>5. ASSUME NEW i \in 1..Visible(wal')
          PROVE  wal'[i].val.seq = i
      <4>1. CASE i \in 1..Len(wal)
        <5>1. wal'[i] = wal[i] /\ i \in 1..Visible(wal)
          BY <1>1, <3>1, <3>2, <3>3, <3>4, <4>1
        <5>2. QED
          BY <1>2, <5>1
      <4>2. CASE i = Len(wal) + 1
        <5>1. Visible(wal) = Len(wal) /\ wal'[i] = Whole(call[c])
          BY <1>1, <3>1, <3>2, <3>3, <3>4, <4>2
        <5>2. QED
          BY <3>1, <3>2, <4>2, <5>1
      <4>3. QED
        BY <1>1, <3>3, <3>4, <4>1, <4>2
    <3>6. QED
      BY <2>1, <3>1, <3>5
  <2>5. CASE TearAppend(c)
    <3>1. PICK g \in Gaps : wal' = Append(wal, Torn(g))
      BY <2>5 DEF TearAppend
    <3>2. Torn(g) \in Frames(WalRecords) /\ ~IsWhole(Torn(g))
      BY FrameTypes
    <3>3. Visible(wal') = Visible(wal)
      BY <1>1, <3>1, <3>2, VisibleAppend
    <3>4. Visible(wal) \in 0..Len(wal)
      BY <1>1, VisibleDef
    <3>5. \A i \in 1..Visible(wal') : wal'[i] = wal[i]
      BY <1>1, <3>1, <3>2, <3>3, <3>4
    <3>6. call'[c] = Nothing
      BY <1>1, <2>5 DEF TearAppend, Return
    <3>7. QED
      BY <1>2, <2>1, <3>3, <3>5, <3>6
  <2>6. CASE LoseCall(c)
    BY <1>1, <1>2, <2>1, <2>6 DEF LoseCall, Return
  <2>7. QED
    BY <1>5, <2>3, <2>4, <2>5, <2>6 DEF WalStep
<1>6. ASSUME NEW r \in Recoverers, RecoveryStep(r) \/ Crash(r)
      PROVE  wal' = wal /\ call' = call
  BY <1>6 DEF RecoveryStep, Crash, LoadState, ScanWal, ScanRaises, SkipIntent, RejectIntent,
              ApplyRecord, FailRecord, ReachAppend, Reach, EndLoop, OpenTmp, WriteTmp, WriteRaises,
              ReplaceState, ReplaceRaises, CheckStore, walVars
<1>7. CASE PowerLoss
  BY <1>2, <1>7 DEF PowerLoss
<1>8. QED
  BY <1>4, <1>5, <1>6, <1>7 DEF Next, FlushState, walVars, vars

(* With one client, the numbers a reader of the log sees have no gap and no
   repetition, whatever frames were torn and calls lost. *)
THEOREM SeqCorrect == Spec => []SeqIsPlace
<1>1. SeqInv => SeqIsPlace
  BY DEF SeqInv
<1>2. SeqInv /\ TypeOK /\ [Next]_vars => SeqInv'
  BY SeqNext
<1>3. QED
  BY <1>1, <1>2, SeqInit, TypeCorrect, PTL DEF Spec

----------------------------------------------------------------------------
(* The state file, when there is one recovery at a time *)

LEMMA AloneInit == Init => AloneInv
BY DEF Init, AloneInv, AloneAt

(* Every step of the one recovery keeps what it knows and its files together. *)
LEMMA AloneNext ==
  ASSUME TypeOK, AloneInv, [Next]_vars
  PROVE  AloneInv'
<1> SUFFICES ASSUME OneRecovery, NEW r \in Recoverers
             PROVE  AloneAt(r)'
  BY DEF AloneInv
<1>1. AloneAt(r) /\ \A q \in Recoverers : q = r
  BY DEF AloneInv, OneRecovery
<1>2. /\ pc \in [Recoverers -> Labels]
      /\ known \in [Recoverers -> SUBSET Tx]
      /\ opened \in [Recoverers -> {"none", "tmp", "state", "gone"}]
      /\ todo \in [Recoverers -> SUBSET Intents]
  BY DEF TypeOK
<1>3. known[r] \notin Unusable
  BY <1>2, RecoveryAssumption
<1>4. CASE UNCHANGED <<pc, known, opened, state, tmp>>
  BY <1>1, <1>4 DEF AloneAt
<1>5. CASE LoadState(r)
  BY <1>1, <1>2, <1>5 DEF LoadState, Goto, disk, AloneAt
<1>6. CASE ScanWal(r) \/ EndLoop(r)
  BY <1>1, <1>2, <1>6 DEF ScanWal, EndLoop, Goto, disk, AloneAt
<1>7. CASE ScanRaises(r) \/ CheckStore(r) \/ ReplaceRaises(r)
  BY <1>1, <1>2, <1>7 DEF ScanRaises, CheckStore, ReplaceRaises, Leave, Goto, disk, AloneAt
<1>8. CASE SkipIntent(r) \/ RejectIntent(r) \/ FailRecord(r)
  BY <1>4, <1>8 DEF SkipIntent, RejectIntent, FailRecord, ReachAppend, Reach
<1>9. CASE ApplyRecord(r)
  <2>1. PICK i \in todo[r] : Reach(r, i) /\ known' = [known EXCEPT ![r] = @ \cup {i.tx}]
    BY <1>9 DEF ApplyRecord, ReachAppend
  <2>2. pc[r] = "loop" /\ UNCHANGED <<pc, opened, state, tmp>> /\ known[r] \subseteq known'[r]
    BY <1>2, <2>1 DEF Reach
  <2>3. QED
    BY <1>1, <2>2 DEF AloneAt
<1>10. CASE OpenTmp(r)
  BY <1>1, <1>2, <1>10 DEF OpenTmp, Goto, AloneAt
<1>11. CASE WriteTmp(r)
  <2>1. opened[r] = "tmp" /\ tmp = Emptied
    BY <1>1, <1>11 DEF WriteTmp, AloneAt
  <2>2. tmp' = known[r] /\ state' = state /\ opened'[r] = "none"
    BY <1>2, <1>11, <2>1 DEF WriteTmp, PutText, Overwritten
  <2>3. QED
    BY <1>1, <1>2, <1>11, <2>2 DEF WriteTmp, Goto, AloneAt
<1>12. CASE WriteRaises(r)
  <2>1. opened[r] = "tmp"
    BY <1>1, <1>12 DEF WriteRaises, AloneAt
  <2>2. opened'[r] = "none"
    BY <1>2, <1>12, <2>1 DEF WriteRaises, PutText
  <2>3. pc'[r] = "idle" /\ known'[r] = {}
    BY <1>2, <1>12 DEF WriteRaises, Leave, Goto
  <2>4. QED
    BY <2>2, <2>3 DEF AloneAt
<1>13. CASE ReplaceState(r)
  <2>1. pc[r] = "replace" /\ opened[r] = "none" /\ tmp = known[r]
    BY <1>1, <1>13 DEF ReplaceState, AloneAt
  <2>2. opened'[r] = "none"
    BY <1>2, <1>13, <2>1 DEF ReplaceState, Renamed
  <2>3. QED
    BY <1>2, <1>3, <1>13, <2>1, <2>2 DEF ReplaceState, Goto, AloneAt
<1>14. CASE Crash(r)
  BY <1>1, <1>2, <1>14 DEF Crash, Leave, Goto, AloneAt
<1>15. CASE PowerLoss
  BY <1>15 DEF PowerLoss, AloneAt
<1>16. ASSUME NEW c \in Clients, WalStep(c), UNCHANGED <<disk, locals>>
       PROVE  AloneAt(r)'
  BY <1>4, <1>16 DEF disk, locals
<1>17. CASE \E q \in Recoverers : RecoveryStep(q) \/ Crash(q)
  BY <1>1, <1>5, <1>6, <1>7, <1>8, <1>9, <1>10, <1>11, <1>12, <1>13, <1>14, <1>17
     DEF RecoveryStep
<1>18. QED
  BY <1>4, <1>15, <1>16, <1>17 DEF Next, FlushState, disk, locals, vars

(* The inductive invariant of a single recovery and its files. *)
THEOREM AloneCorrect == Spec => []AloneInv
<1>1. AloneInv /\ TypeOK /\ [Next]_vars => AloneInv'
  BY AloneNext
<1>2. QED
  BY <1>1, AloneInit, TypeCorrect, PTL DEF Spec

(* Of all the steps of one recovery, only the rename touches the state file. *)
LEMMA StateKept ==
  ASSUME TypeOK, AloneInv, [Next]_vars, OneRecovery, ~PowerLoss
  PROVE  \/ state' = state
         \/ \E r \in Recoverers :
              ReplaceState(r) /\ state' = known[r] /\ state' \notin Unusable /\ state \subseteq state'
<1>1. /\ known \in [Recoverers -> SUBSET Tx]
      /\ todo \in [Recoverers -> SUBSET Intents]
  BY DEF TypeOK
<1>2. ASSUME NEW r \in Recoverers, ReplaceState(r)
      PROVE  state' = known[r] /\ state' \notin Unusable /\ state \subseteq state'
  <2>1. AloneAt(r)
    BY DEF AloneInv
  <2>2. tmp = known[r] /\ state \subseteq known[r]
    BY <1>2, <2>1 DEF ReplaceState, AloneAt
  <2>3. known[r] \notin Unusable
    BY <1>1, RecoveryAssumption
  <2>4. QED
    BY <1>2, <2>2, <2>3 DEF ReplaceState
<1>3. ASSUME NEW r \in Recoverers, WriteTmp(r) \/ WriteRaises(r)
      PROVE  state' = state
  <2>1. opened[r] = "tmp"
    BY <1>3 DEF AloneInv, AloneAt, WriteTmp, WriteRaises
  <2>2. QED
    BY <1>3, <2>1 DEF WriteTmp, WriteRaises, PutText
<1>4. ASSUME NEW r \in Recoverers, RecoveryStep(r) \/ Crash(r), ~ReplaceState(r)
      PROVE  state' = state
  BY <1>3, <1>4 DEF RecoveryStep, Crash, LoadState, ScanWal, ScanRaises, SkipIntent, RejectIntent,
                    ApplyRecord, FailRecord, ReachAppend, Reach, EndLoop, OpenTmp,
                    ReplaceRaises, CheckStore, disk
<1>5. QED
  BY <1>2, <1>4 DEF Next, FlushState, disk, vars

(* With one recovery at a time, the state file stays readable and keeps its
   ids through every crash and failed write, unless the power fails. *)
THEOREM StateFileGrows == Spec => NeverForgets
<1>1. TypeOK /\ AloneInv /\ [Next]_vars
        => [ OneRecovery /\ state \notin Unusable /\ ~PowerLoss
               => state' \notin Unusable /\ state \subseteq state' ]_vars
  BY StateKept DEF Unusable, NoFile, Emptied, Unreadable
<1>2. QED
  BY <1>1, TypeCorrect, AloneCorrect, PTL DEF Spec, NeverForgets

----------------------------------------------------------------------------
(* The copies of a transaction *)

\* The frames that are a copy of t's record.
CopyFrames(t) == {f \in Frames(StoreRecords) : IsWhole(f) /\ f.val.tx = t}

(* An append of a frame adds one to the copies of its transaction. *)
LEMMA CopiesAppend ==
  ASSUME TypeOK, NEW f \in Frames(StoreRecords), store' = Append(store, f), NEW t
  PROVE  Copies(t)' = Copies(t) + IF f \in CopyFrames(t) THEN 1 ELSE 0
<1>1. store \in Seq(Frames(StoreRecords)) /\ store' \in Seq(Frames(StoreRecords))
  BY DEF TypeOK
<1>2. Copies(t) = Cardinality({i \in 1..Len(store) : store[i] \in CopyFrames(t)})
  <2>1. {i \in 1..Len(store) : IsWhole(store[i]) /\ store[i].val.tx = t}
          = {i \in 1..Len(store) : store[i] \in CopyFrames(t)}
    BY <1>1 DEF CopyFrames
  <2>2. QED
    BY <2>1 DEF Copies
<1>3. Copies(t)' = Cardinality({i \in 1..Len(store') : store'[i] \in CopyFrames(t)})
  <2>1. {i \in 1..Len(store') : IsWhole(store'[i]) /\ store'[i].val.tx = t}
          = {i \in 1..Len(store') : store'[i] \in CopyFrames(t)}
    BY <1>1 DEF CopyFrames
  <2>2. QED
    BY <2>1 DEF Copies
<1>4. QED
  BY <1>1, <1>2, <1>3, CountAppend

(* The number of copies is a natural number. *)
LEMMA CopiesType ==
  ASSUME TypeOK, NEW t
  PROVE  Copies(t) \in Nat
<1>1. Len(store) \in Nat
  BY DEF TypeOK
<1>2. IsFiniteSet(1..Len(store))
  BY <1>1, FS_Interval
<1>3. {i \in 1..Len(store) : IsWhole(store[i]) /\ store[i].val.tx = t} \in SUBSET (1..Len(store))
  OBVIOUS
<1>4. QED
  BY <1>2, <1>3, FS_Subset, FS_CardinalityType DEF Copies

(* Appending what the loop has reached adds a copy of its transaction alone. *)
LEMMA CopiesReach ==
  ASSUME TypeOK, NEW r \in Recoverers, NEW i \in todo[r],
         store' = Append(store, Whole([tx |-> i.tx, body |-> i.body])), NEW t
  PROVE  Copies(t)' = Copies(t) + IF t = i.tx THEN 1 ELSE 0
<1> DEFINE v == [tx |-> i.tx, body |-> i.body]
<1>1. v \in StoreRecords /\ Whole(v) \in Frames(StoreRecords) /\ v.tx = i.tx
  BY TypeReach
<1>2. IsWhole(Whole(v)) /\ Whole(v).val = v
  BY <1>1, FrameTypes
<1> HIDE DEF v
<1>3. Whole(v) \in CopyFrames(t) <=> t = i.tx
  BY <1>1, <1>2 DEF CopyFrames
<1>4. QED
  BY <1>1, <1>3, CopiesAppend DEF v

(* A torn frame is no copy. *)
LEMMA CopiesTorn ==
  ASSUME TypeOK, NEW g \in Gaps, store' = Append(store, Torn(g)), NEW t
  PROVE  Copies(t)' = Copies(t)
<1>1. Torn(g) \in Frames(StoreRecords) /\ Torn(g) \notin CopyFrames(t)
  BY FrameTypes DEF CopyFrames
<1>2. QED
  BY <1>1, CopiesAppend, CopiesType

LEMMA CopiesInit == Init => CopiesInv
<1> SUFFICES ASSUME Init, NEW t \in Tx
             PROVE  Copies(t) <= crashes + faults + IF Settled(t) THEN 1 ELSE 0
  BY DEF CopiesInv
<1>1. {i \in 1..Len(store) : IsWhole(store[i]) /\ store[i].val.tx = t} = {}
  BY DEF Init
<1>2. Copies(t) = 0
  BY <1>1, FS_EmptySet DEF Copies
<1>3. QED
  BY <1>2 DEF Init, WalInit

(* A step that adds a copy settles its id or is a failure, and a step that
   unsettles ids is one. *)
LEMMA CopiesNext ==
  ASSUME TypeOK, AloneInv, CopiesInv, [Next]_vars
  PROVE  CopiesInv'
<1> SUFFICES ASSUME OneRecovery, NEW t \in Tx
             PROVE  Copies(t)' <= crashes' + faults' + IF Settled(t)' THEN 1 ELSE 0
  BY DEF CopiesInv
<1> DEFINE n == crashes + faults
           m == crashes' + faults'
<1>1. /\ faults \in Nat /\ crashes \in Nat
      /\ pc \in [Recoverers -> Labels]
      /\ known \in [Recoverers -> SUBSET Tx]
      /\ Copies(t) \in Nat
  BY CopiesType DEF TypeOK
<1>2. Copies(t) <= n + IF Settled(t) THEN 1 ELSE 0
  BY DEF CopiesInv
<1>3. ASSUME store' = store, m >= n, m \in Nat, Settled(t) => Settled(t)' \/ m >= n + 1
      PROVE  Copies(t)' <= m + IF Settled(t)' THEN 1 ELSE 0
  <2>1. Copies(t)' = Copies(t)
    BY <1>3 DEF Copies
  <2>2. QED
    BY <1>1, <1>2, <1>3, <2>1
<1>4. ASSUME UNCHANGED <<store, state, known, crashes>>, faults' \in {faults, faults + 1}
      PROVE  Copies(t)' <= m + IF Settled(t)' THEN 1 ELSE 0
  <2>1. Settled(t)' <=> Settled(t)
    BY <1>4 DEF Settled, Unusable, NoFile, Emptied, Unreadable
  <2>2. store' = store /\ crashes' = crashes
    BY <1>4
  <2>3. crashes \in Nat /\ faults \in Nat
    BY <1>1
  <2>4. m = n \/ m = n + 1
    <3>1. faults' = faults \/ faults' = faults + 1
      BY <1>4
    <3>2. QED
      BY <2>2, <2>3, <3>1
  <2>5. n \in Nat
    BY <2>3
  <2> HIDE DEF n, m
  <2>6. QED
    BY <1>3, <2>1, <2>2, <2>4, <2>5
<1>5. ASSUME NEW c \in Clients, WalStep(c), UNCHANGED <<disk, locals, crashes>>
      PROVE  Copies(t)' <= m + IF Settled(t)' THEN 1 ELSE 0
  <2>1. faults' = faults \/ faults' = faults + 1
    BY <1>5 DEF WalStep, BeginTransaction, CommitTransaction, AbortTransaction, Checkpoint,
                StartAppend, FinishAppend, TearAppend, LoseCall
  <2>2. QED
    BY <1>1, <1>4, <1>5, <2>1 DEF disk, locals
<1>6. ASSUME NEW r \in Recoverers, RecoveryStep(r) \/ Crash(r)
      PROVE  Copies(t)' <= m + IF Settled(t)' THEN 1 ELSE 0
  <2>1. AloneAt(r) /\ \A q \in Recoverers : q = r
    BY DEF AloneInv, OneRecovery
  <2>2. Settled(t) <=> (state \notin Unusable /\ t \in state) \/ t \in known[r]
    BY <2>1 DEF Settled
  <2>3. Settled(t)' <=> (state' \notin Unusable /\ t \in state') \/ t \in known'[r]
    BY <2>1 DEF Settled, Unusable, NoFile, Emptied, Unreadable
  <2>4. CASE LoadState(r)
    <3>1. known'[r] = state /\ state \notin Unusable /\ pc[r] = "idle"
      BY <1>1, <2>4 DEF LoadState
    <3>2. known[r] = {}
      BY <2>1, <3>1 DEF AloneAt
    <3>3. UNCHANGED <<store, state, crashes, faults>>
      BY <2>4 DEF LoadState, disk
    <3>4. QED
      BY <1>1, <1>3, <2>2, <2>3, <3>1, <3>2, <3>3
  <2>5. CASE ScanWal(r) \/ SkipIntent(r) \/ RejectIntent(r) \/ EndLoop(r) \/ OpenTmp(r)
    BY <1>1, <1>4, <2>5 DEF ScanWal, SkipIntent, RejectIntent, Reach, EndLoop, OpenTmp, disk
  <2>6. CASE ScanRaises(r) \/ CheckStore(r)
    <3>1. pc[r] \in {"scan", "check"}
      BY <2>6 DEF ScanRaises, CheckStore
    <3>2. state = known[r] /\ state \notin Unusable
      BY <2>1, <3>1 DEF AloneAt
    <3>3. UNCHANGED <<store, state, crashes, faults>>
      BY <2>6 DEF ScanRaises, CheckStore, disk
    <3>4. QED
      BY <1>1, <1>3, <2>2, <2>3, <3>2, <3>3
  <2>7. CASE ApplyRecord(r)
    <3>1. PICK i \in todo[r] :
            /\ ReachAppend(r, i)
            /\ store' = Append(store, Whole([tx |-> i.tx, body |-> i.body]))
            /\ known' = [known EXCEPT ![r] = @ \cup {i.tx}]
            /\ UNCHANGED faults
      BY <2>7 DEF ApplyRecord
    <3>2. /\ i.tx \notin known[r] /\ pc[r] = "loop"
          /\ UNCHANGED <<state, crashes>>
          /\ known'[r] = known[r] \cup {i.tx}
      BY <1>1, <3>1 DEF ReachAppend, Reach
    <3>3. state \notin Unusable /\ state \subseteq known[r]
      BY <2>1, <3>2 DEF AloneAt
    <3>4. Copies(t)' = Copies(t) + IF t = i.tx THEN 1 ELSE 0
      BY <3>1, CopiesReach
    <3>5. CASE t = i.tx
      BY <1>1, <1>2, <2>2, <2>3, <3>1, <3>2, <3>3, <3>4, <3>5
    <3>6. CASE t # i.tx
      <4>1. Settled(t) <=> Settled(t)'
        BY <2>2, <2>3, <3>2, <3>6
      <4>2. QED
        BY <1>1, <1>2, <3>1, <3>2, <3>4, <3>6, <4>1
    <3>7. QED
      BY <3>5, <3>6
  <2>8. CASE FailRecord(r)
    <3>1. PICK i \in todo[r] :
            /\ ReachAppend(r, i)
            /\ \/ \E g \in Gaps : store' = Append(store, Torn(g))
               \/ store' = Append(store, Whole([tx |-> i.tx, body |-> i.body]))
            /\ faults' = faults + 1
            /\ UNCHANGED known
      BY <2>8 DEF FailRecord
    <3>2. UNCHANGED <<state, crashes>>
      BY <3>1 DEF ReachAppend, Reach
    <3>3. Copies(t)' = Copies(t) \/ Copies(t)' = Copies(t) + 1
      <4>1. CASE \E g \in Gaps : store' = Append(store, Torn(g))
        BY <4>1, CopiesTorn
      <4>2. CASE store' = Append(store, Whole([tx |-> i.tx, body |-> i.body]))
        <5>1. Copies(t)' = Copies(t) + IF t = i.tx THEN 1 ELSE 0
          BY <4>2, CopiesReach
        <5>2. QED
          BY <1>1, <5>1
      <4>3. QED
        BY <3>1, <4>1, <4>2
    <3>4. Settled(t) <=> Settled(t)'
      BY <2>2, <2>3, <3>1, <3>2
    <3>5. QED
      BY <1>1, <1>2, <3>1, <3>2, <3>3, <3>4
  <2>9. CASE WriteTmp(r)
    <3>1. opened[r] = "tmp"
      BY <2>1, <2>9 DEF WriteTmp, AloneAt
    <3>2. UNCHANGED <<store, state, known, crashes, faults>>
      BY <2>9, <3>1 DEF WriteTmp, PutText
    <3>3. QED
      BY <1>1, <1>4, <3>2
  <2>10. CASE WriteRaises(r)
    <3>1. store' = store /\ crashes' = crashes /\ faults' = faults + 1
      BY <2>10 DEF WriteRaises
    <3>2. QED
      BY <1>1, <1>3, <3>1
  <2>11. CASE ReplaceState(r)
    <3>1. /\ tmp = known[r] /\ state \subseteq known[r]
          /\ UNCHANGED <<store, known, crashes, faults>>
      BY <2>1, <2>11 DEF ReplaceState, AloneAt
    <3>2. Settled(t) => Settled(t)'
      BY <2>2, <2>3, <3>1
    <3>3. QED
      BY <1>1, <1>3, <3>1, <3>2
  <2>12. CASE ReplaceRaises(r)
    <3>1. tmp = known[r] /\ tmp \in Unusable
      BY <2>1, <2>12 DEF ReplaceRaises, AloneAt, Unusable
    <3>2. QED
      BY <1>1, <3>1, RecoveryAssumption
  <2>13. CASE Crash(r)
    <3>1. store' = store /\ crashes' = crashes + 1 /\ faults' = faults
      BY <2>13 DEF Crash
    <3>2. QED
      BY <1>1, <1>3, <3>1
  <2>14. QED
    BY <1>6, <2>4, <2>5, <2>6, <2>7, <2>8, <2>9, <2>10, <2>11, <2>12, <2>13 DEF RecoveryStep
<1>7. CASE PowerLoss
  <2>1. store' = store /\ crashes' = crashes + 1 /\ faults' = faults
    BY <1>7 DEF PowerLoss
  <2>2. QED
    BY <1>1, <1>3, <2>1
<1>8. CASE FlushState \/ UNCHANGED vars
  BY <1>1, <1>4, <1>8 DEF FlushState, disk, locals, vars
<1>9. QED
  BY <1>5, <1>6, <1>7, <1>8 DEF Next

(* With one recovery at a time, a transaction has one copy in the store, and
   one more for each crash, power loss or failed write at most. *)
THEOREM CopiesCorrect == Spec => []CopiesBounded
<1>1. CopiesInv /\ TypeOK => CopiesBounded
  <2> SUFFICES ASSUME CopiesInv, TypeOK, OneRecovery, NEW t \in Tx
               PROVE  Copies(t) <= 1 + crashes + faults
    BY DEF CopiesBounded
  <2>1. Copies(t) <= crashes + faults + IF Settled(t) THEN 1 ELSE 0
    BY DEF CopiesInv
  <2>2. Copies(t) \in Nat /\ crashes \in Nat /\ faults \in Nat
    BY CopiesType DEF TypeOK
  <2>3. QED
    BY <2>1, <2>2
<1>2. CopiesInv /\ AloneInv /\ TypeOK /\ [Next]_vars => CopiesInv'
  BY CopiesNext
<1>3. QED
  BY <1>1, <1>2, CopiesInit, AloneCorrect, TypeCorrect, PTL DEF Spec

----------------------------------------------------------------------------
(* Recovery implements at-least-once application *)

(* The number of copies of an entry is a natural number, and not 0 when the
   entry has been written. *)
LEMMA CopiesOfType ==
  ASSUME TypeOK, NEW e
  PROVE  /\ CopiesOf(e) \in Nat
         /\ e \in Written(store) => CopiesOf(e) > 0
<1> DEFINE held == {i \in 1..Len(store) : store[i] = Whole(e)}
<1>1. Len(store) \in Nat /\ \A i \in 1..Len(store) : store[i] \in Frames(StoreRecords)
  BY DEF TypeOK
<1>2. IsFiniteSet(1..Len(store))
  BY <1>1, FS_Interval
<1>3. held \in SUBSET (1..Len(store))
  OBVIOUS
<1>4. IsFiniteSet(held)
  <2> HIDE DEF held
  <2>1. QED
    BY <1>2, <1>3, FS_Subset
<1>5. ASSUME e \in Written(store)
      PROVE  held # {}
  <2>1. PICK i \in 1..Len(store) : IsWhole(store[i]) /\ store[i].val = e
    BY <1>5 DEF Written
  <2>2. store[i] = Whole(e)
    BY <1>1, <2>1 DEF Frames, IsWhole, Whole
  <2>3. QED
    BY <2>2
<1>6. CopiesOf(e) = Cardinality(held)
  BY DEF CopiesOf
<1>7. QED
  <2> HIDE DEF held
  <2>1. Cardinality(held) \in Nat /\ (Cardinality(held) = 0 <=> held = {})
    BY <1>4, FS_CardinalityType, FS_EmptySet
  <2>2. QED
    BY <1>5, <1>6, <2>1

(* An append of a frame adds a copy of the entry in it, and of no other. *)
LEMMA CopiesOfAppend ==
  ASSUME TypeOK, NEW f \in Frames(StoreRecords), store' = Append(store, f), NEW e
  PROVE  CopiesOf(e)' = CopiesOf(e) + IF f = Whole(e) THEN 1 ELSE 0
<1>1. store \in Seq(Frames(StoreRecords))
  BY DEF TypeOK
<1> DEFINE S == {Whole(e)}
<1>2. CopiesOf(e) = Cardinality({i \in 1..Len(store) : store[i] \in S})
  <2>1. {i \in 1..Len(store) : store[i] = Whole(e)} = {i \in 1..Len(store) : store[i] \in S}
    OBVIOUS
  <2>2. QED
    BY <2>1 DEF CopiesOf
<1>3. CopiesOf(e)' = Cardinality({i \in 1..Len(store') : store'[i] \in S})
  <2>1. {i \in 1..Len(store') : store'[i] = Whole(e)} = {i \in 1..Len(store') : store'[i] \in S}
    OBVIOUS
  <2>2. QED
    BY <2>1 DEF CopiesOf
<1>4. f \in S <=> f = Whole(e)
  OBVIOUS
<1> HIDE DEF S
<1>5. CopiesOf(e)' = CopiesOf(e) + IF f \in S THEN 1 ELSE 0
  BY <1>1, <1>2, <1>3, CountAppend
<1>6. QED
  BY <1>4, <1>5

(* What a step appends to the store: nothing, a torn frame, or the record of
   an intent that the loop has reached. *)
LEMMA StoreAppends ==
  ASSUME TypeOK, [Next]_vars
  PROVE  \/ store' = store
         \/ wal' = wal /\ state' = state /\ \E g \in Gaps : store' = Append(store, Torn(g))
         \/ wal' = wal /\ state' = state /\ \E r \in Recoverers : \E i \in todo[r] :
              store' = Append(store, Whole([tx |-> i.tx, body |-> i.body]))
<1>1. ASSUME NEW r \in Recoverers, ApplyRecord(r) \/ FailRecord(r)
      PROVE  /\ wal' = wal /\ state' = state
             /\ \/ \E g \in Gaps : store' = Append(store, Torn(g))
                \/ \E i \in todo[r] : store' = Append(store, Whole([tx |-> i.tx, body |-> i.body]))
  BY <1>1 DEF ApplyRecord, FailRecord, ReachAppend, Reach, walVars
<1>2. ASSUME NEW r \in Recoverers, RecoveryStep(r) \/ Crash(r), store' # store
      PROVE  ApplyRecord(r) \/ FailRecord(r)
  BY <1>2 DEF RecoveryStep, Crash, LoadState, ScanWal, ScanRaises, SkipIntent, RejectIntent,
              EndLoop, OpenTmp, WriteTmp, WriteRaises, ReplaceState, ReplaceRaises, CheckStore,
              disk
<1>3. QED
  BY <1>1, <1>2 DEF Next, FlushState, PowerLoss, disk, vars

(* A step that appends to the log touches neither the store nor the state file. *)
LEMMA LogAlone ==
  ASSUME TypeOK, [Next]_vars, wal' # wal
  PROVE  store' = store /\ state' = state
<1>1. ASSUME NEW r \in Recoverers, RecoveryStep(r) \/ Crash(r)
      PROVE  wal' = wal
  BY <1>1 DEF RecoveryStep, Crash, LoadState, ScanWal, ScanRaises, SkipIntent, RejectIntent,
              ApplyRecord, FailRecord, ReachAppend, Reach, EndLoop, OpenTmp, WriteTmp, WriteRaises,
              ReplaceState, ReplaceRaises, CheckStore, walVars
<1>2. QED
  BY <1>1 DEF Next, FlushState, PowerLoss, disk, walVars, vars

(* The initial states map to the initial state of the ledger. *)
LEMMA LedgerInitMaps == Init => Ledger!LedgerInit
<1> SUFFICES ASSUME Init
             PROVE  Ledger!LedgerInit
  OBVIOUS
<1>1. wal = << >> /\ store = << >> /\ state = {}
  BY DEF Init, WalInit
<1>2. ASSUME NEW t, NEW b
      PROVE  ~OnceCommitted(t, b)
  <2>1. SUFFICES ASSUME NEW n \in 0..Len(wal), CommittedIn(Records(Prefix(wal, n)), t, b)
                 PROVE  FALSE
    BY DEF OnceCommitted
  <2>2. << >> \in Seq(Frames(WalRecords)) /\ Prefix(wal, n) = << >>
    BY <1>1 DEF Prefix
  <2>3. DOMAIN Records(<< >>) = {}
    <3>1. Visible(<< >>) \in 0..Len(<< >>)
      BY <2>2, VisibleDef
    <3>2. 1..Visible(<< >>) = {}
      BY <3>1
    <3>3. QED
      BY <3>2 DEF Records
  <2>4. QED
    BY <2>1, <2>2, <2>3 DEF CommittedIn
<1>3. DecidedEntries = {}
  BY <1>2 DEF DecidedEntries
<1>4. ASSUME NEW e
      PROVE  CopiesOf(e) = 0
  <2>1. {i \in 1..Len(store) : store[i] = Whole(e)} = {}
    BY <1>1
  <2>2. QED
    BY <2>1, FS_EmptySet DEF CopiesOf
<1>5. (IF state \in Unusable THEN {} ELSE state) = {}
  BY <1>1
<1>6. [e \in StoreRecords |-> CopiesOf(e)] = [e \in StoreRecords |-> 0]
  BY <1>4
<1>7. QED
  BY <1>3, <1>5, <1>6 DEF Ledger!LedgerInit, Ledger!Entries, StoreRecords

(* Every step maps to a step of the ledger, or to none: the log decides, the
   loop applies, and what touches the state file remembers. *)
LEMMA LedgerNextMaps ==
  ASSUME TypeOK, SafetyInv, RememberedIsStored', [Next]_vars
  PROVE  [Ledger!Decide \/ Ledger!Apply \/ Ledger!Remember]_(Ledger!ledgerVars)
<1> DEFINE copies == [e \in StoreRecords |-> CopiesOf(e)]
           remembered == IF state \in Unusable THEN {} ELSE state
<1>1. \A e \in StoreRecords : CopiesOf(e) \in Nat /\ (e \in Written(store) => CopiesOf(e) > 0)
  BY CopiesOfType
<1>2. ASSUME store' = store
      PROVE  copies' = copies
  BY <1>2 DEF CopiesOf
<1>3. ASSUME state' = state
      PROVE  remembered' = remembered
  BY <1>3 DEF Unusable, NoFile, Emptied, Unreadable
<1>4. ASSUME wal' = wal
      PROVE  DecidedEntries' = DecidedEntries
  BY <1>4 DEF DecidedEntries, OnceCommitted
<1>5. CASE wal' # wal
  <2>1. store' = store /\ state' = state
    BY <1>5, LogAlone
  <2>2. DecidedEntries' \in SUBSET StoreRecords /\ DecidedEntries \subseteq DecidedEntries'
    BY CommitmentKept DEF DecidedEntries
  <2>3. Ledger!Decide
    BY <1>2, <1>3, <2>1, <2>2 DEF Ledger!Decide, Ledger!Entries, StoreRecords
  <2>4. QED
    BY <2>3
<1>6. CASE wal' = wal /\ state' = state /\ \E g \in Gaps : store' = Append(store, Torn(g))
  <2>1. PICK g \in Gaps : store' = Append(store, Torn(g))
    BY <1>6
  <2>2. ASSUME NEW e \in StoreRecords
        PROVE  CopiesOf(e)' = CopiesOf(e)
    <3>1. Torn(g) \in Frames(StoreRecords) /\ Torn(g) # Whole(e)
      BY FrameTypes
    <3>2. QED
      BY <1>1, <2>1, <3>1, CopiesOfAppend
  <2>3. copies' = copies
    BY <2>2
  <2>4. QED
    BY <1>3, <1>4, <1>6, <2>3 DEF Ledger!ledgerVars
<1>7. CASE wal' = wal /\ state' = state /\ \E r \in Recoverers : \E i \in todo[r] :
             store' = Append(store, Whole([tx |-> i.tx, body |-> i.body]))
  <2>8. PICK r \in Recoverers : \E i \in todo[r] :
          store' = Append(store, Whole([tx |-> i.tx, body |-> i.body]))
    BY <1>7
  <2>1. PICK i \in todo[r] : store' = Append(store, Whole([tx |-> i.tx, body |-> i.body]))
    BY <2>8
  <2> DEFINE v == [tx |-> i.tx, body |-> i.body]
  <2>2. v \in StoreRecords /\ Whole(v) \in Frames(StoreRecords)
    BY TypeReach
  <2>3. v \in DecidedEntries
    BY <2>2 DEF SafetyInv, TodoJustified, DecidedEntries
  <2> HIDE DEF v
  <2>4. ASSUME NEW e \in StoreRecords
        PROVE  CopiesOf(e)' = IF e = v THEN CopiesOf(e) + 1 ELSE CopiesOf(e)
    <3>1. CopiesOf(e)' = CopiesOf(e) + IF Whole(v) = Whole(e) THEN 1 ELSE 0
      BY <2>1, <2>2, CopiesOfAppend DEF v
    <3>2. Whole(v) = Whole(e) <=> v = e
      BY DEF Whole
    <3>3. QED
      BY <1>1, <3>1, <3>2
  <2>5. copies' = [copies EXCEPT ![v] = @ + 1]
    BY <2>2, <2>4
  <2>6. Ledger!Apply
    BY <1>3, <1>4, <1>7, <2>3, <2>5 DEF Ledger!Apply
  <2>7. QED
    BY <2>6
<1>8. CASE wal' = wal /\ store' = store
  <2>1. remembered' \subseteq StoredTx
    BY <1>8 DEF RememberedIsStored, StoredTx, Unusable, NoFile, Emptied, Unreadable
  <2>2. StoredTx \subseteq Ledger!AppliedIds
    <3>1. Written(store) \subseteq StoreRecords
      BY WrittenType DEF TypeOK
    <3>2. ASSUME NEW e \in Written(store)
          PROVE  e.tx \in Ledger!AppliedIds
      <4>1. e \in Ledger!Entries /\ copies[e] > 0
        BY <1>1, <3>1 DEF Ledger!Entries, StoreRecords
      <4>2. QED
        BY <4>1 DEF Ledger!AppliedIds
    <3>3. QED
      BY <3>2 DEF StoredTx
  <2>3. Ledger!Remember
    BY <1>2, <1>4, <1>8, <2>1, <2>2 DEF Ledger!Remember
  <2>4. QED
    BY <2>3
<1>9. QED
  BY <1>5, <1>6, <1>7, <1>8, StoreAppends

(* Recovery implements at-least-once application: an entry is applied only
   after it was decided, any number of times, and an id is remembered only
   once an entry of it has been applied. *)
THEOREM RecoveryRefinesLedger == Spec => ImplementsAtLeastOnce
<1>1. SafetyInv' => RememberedIsStored'
  BY DEF SafetyInv
<1>2. TypeOK /\ SafetyInv /\ SafetyInv' /\ [Next]_vars
        => [Ledger!Decide \/ Ledger!Apply \/ Ledger!Remember]_(Ledger!ledgerVars)
  BY <1>1, LedgerNextMaps
<1>3. QED
  BY <1>2, LedgerInitMaps, TypeCorrect, Safety, PTL
     DEF Spec, ImplementsAtLeastOnce, Ledger!LedgerSpec
=============================================================================
