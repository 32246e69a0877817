-------------------------------- MODULE Wal --------------------------------
(***************************************************************************)
(* The V03H2 write-ahead log: clients append INTENT, COMMIT, ABORT and     *)
(* CHECKPOINT records, and recover_transactions classifies what it reads.  *)
(*                                                                         *)
(* append_wal_record numbers a record from a scan of the whole file        *)
(* (next_seq) and only then opens the file to append: two steps, with no   *)
(* lock around them, so another client may append in between.              *)
(***************************************************************************)
EXTENDS FramedLog, FiniteSetsExt

CONSTANTS
  Clients,       \* processes that call the transaction functions
  Tx,            \* transaction identifiers
  Appendable,    \* intents whose action and payload append_record accepts
  Unsupported,   \* intents with another action than append_record
  Malformed,     \* append_record intents without a record, or with one it rejects
  Nothing,       \* no transaction, no intent, no call: a value of its own
  MaxWal,        \* bound: appends start only while the log is shorter
  MaxFaults      \* bound: writes that fail part way or before their fsync

Bodies == Appendable \cup Unsupported \cup Malformed

ASSUME WalAssumption ==
  /\ Nothing \notin Tx \cup Bodies
  /\ Appendable \cap Unsupported = {}
  /\ Appendable \cap Malformed = {}
  /\ Unsupported \cap Malformed = {}
  /\ MaxWal \in Nat
  /\ MaxFaults \in Nat

VARIABLES
  wal,     \* the log file
  call,    \* the record each client has numbered and not yet written
  faults   \* history: the number of writes that failed, in any file

walVars == <<wal, call>>

\* What validate_payload lets through: an INTENT has an action, all but the
\* CHECKPOINT have a transaction.
WalRecords ==
  [op : {"INTENT"}, tx : Tx, body : Bodies, seq : Nat]
    \cup [op : {"COMMIT", "ABORT"}, tx : Tx, body : {Nothing}, seq : Nat]
    \cup [op : {"CHECKPOINT"}, tx : {Nothing}, body : {Nothing}, seq : Nat]

\* An entry of the scan: its intent, its number, and its place in the dict.
Intents == [tx : Tx, body : Bodies, seq : Nat, place : Nat]

----------------------------------------------------------------------------
(* Mutants, here and below: the same code with a plausible mistake in it.   *)
(* No action of the model uses them.                                        *)

\* The maximum itself instead of its successor.
NextSeqRepeats(log) ==
  Max({Records(log)[i].seq : i \in 1..Visible(log)} \cup {0})

\* Every record of a transaction overwrites its entry, not only an INTENT.
IntentOfAnyOp(recs, t) ==
  LET at == {i \in DOMAIN recs : recs[i].tx = t}
      last == recs[Max(at)]
  IN  [tx |-> t, body |-> last.body, seq |-> last.seq, place |-> Min(at)]

----------------------------------------------------------------------------
(* Reading the log *)

\* next_seq: it swallows the reader's error and keeps the maximum seen so far.
NextSeq(log) ==
  Max({Records(log)[i].seq : i \in 1..Visible(log)} \cup {0}) + 1

TxWith(recs, op) == {recs[i].tx : i \in {j \in DOMAIN recs : recs[j].op = op}}

IntentsOf(recs, t) == {i \in DOMAIN recs : recs[i].op = "INTENT" /\ recs[i].tx = t}

\* One entry of the dict of intents: the last INTENT wins, while the key keeps
\* the place of the first.
IntentOf(recs, t) ==
  LET at == IntentsOf(recs, t)
      last == recs[Max(at)]
  IN  [tx |-> t, body |-> last.body, seq |-> last.seq, place |-> Min(at)]

\* Mutant: the aborts are collected and never looked at.
CommittedDespiteAbort(recs) ==
  {IntentOf(recs, t) : t \in TxWith(recs, "INTENT") \cap TxWith(recs, "COMMIT")}

\* Mutant: pending intents fall through to the committed ones.
CommittedOrPending(recs) ==
  {IntentOf(recs, t) : t \in TxWith(recs, "INTENT") \ TxWith(recs, "ABORT")}

\* recover_transactions: an ABORT beats a COMMIT wherever the two stand.
Committed(recs) ==
  {IntentOf(recs, t) :
     t \in (TxWith(recs, "INTENT") \cap TxWith(recs, "COMMIT")) \ TxWith(recs, "ABORT")}

\* committed.sort(key=seq), which is stable on the order of the dict.
SortedBefore(i, j) == i.seq < j.seq \/ (i.seq = j.seq /\ i.place <= j.place)

----------------------------------------------------------------------------
(* What commitment means, said without the way recover_transactions finds it *)

\* Transaction t with intent b is committed, and not aborted, in these records.
CommittedIn(recs, t, b) ==
  /\ \E i \in DOMAIN recs :
       /\ recs[i].op = "INTENT" /\ recs[i].tx = t /\ recs[i].body = b
       /\ \A j \in DOMAIN recs : recs[j].op = "INTENT" /\ recs[j].tx = t => j <= i
  /\ \E i \in DOMAIN recs : recs[i].op = "COMMIT" /\ recs[i].tx = t
  /\ \A i \in DOMAIN recs : recs[i].tx = t => recs[i].op # "ABORT"

\* It was so at some moment of the log's life.
OnceCommitted(t, b) ==
  \E n \in 0..Len(wal) : CommittedIn(Records(Prefix(wal, n)), t, b)

----------------------------------------------------------------------------
(* The clients *)

WalInit ==
  /\ wal = << >>
  /\ call = [c \in Clients |-> Nothing]
  /\ faults = 0

StartAppend(c, op, t, b) ==
  /\ call[c] = Nothing
  /\ Len(wal) < MaxWal
  /\ call' = [call EXCEPT ![c] = [op |-> op, tx |-> t, body |-> b, seq |-> NextSeq(wal)]]
  /\ UNCHANGED <<wal, faults>>

BeginTransaction(c) == \E t \in Tx, b \in Bodies : StartAppend(c, "INTENT", t, b)
CommitTransaction(c) == \E t \in Tx : StartAppend(c, "COMMIT", t, Nothing)
AbortTransaction(c) == \E t \in Tx : StartAppend(c, "ABORT", t, Nothing)
Checkpoint(c) == StartAppend(c, "CHECKPOINT", Nothing, Nothing)

Return(c) == call' = [call EXCEPT ![c] = Nothing]

\* The frame is in the file, whether or not the fsync that follows succeeds.
FinishAppend(c) ==
  /\ call[c] # Nothing
  /\ wal' = Append(wal, Whole(call[c]))
  /\ Return(c)
  /\ UNCHANGED faults

\* The disk is full, or the process dies in the write: part of the frame stays.
TearAppend(c) ==
  /\ call[c] # Nothing
  /\ faults < MaxFaults
  /\ \E g \in Gaps : wal' = Append(wal, Torn(g))
  /\ faults' = faults + 1
  /\ Return(c)

\* The client dies, or open() fails, before anything is written.
LoseCall(c) ==
  /\ call[c] # Nothing
  /\ Return(c)
  /\ UNCHANGED <<wal, faults>>

WalStep(c) ==
  \/ BeginTransaction(c)
  \/ CommitTransaction(c)
  \/ AbortTransaction(c)
  \/ Checkpoint(c)
  \/ FinishAppend(c)
  \/ TearAppend(c)
  \/ LoseCall(c)
=============================================================================
