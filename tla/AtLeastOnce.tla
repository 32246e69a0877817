---------------------------- MODULE AtLeastOnce ----------------------------
(***************************************************************************)
(* What transactional recovery promises to the reader of the store, with   *)
(* no log, no state file and no call in sight: an entry is decided, then   *)
(* applied, perhaps more than once; what is remembered as applied has been *)
(* applied.  Whatever was decided stays decided.                           *)
(***************************************************************************)
EXTENDS Integers

CONSTANTS Ids, Values

Entries == [tx : Ids, body : Values]

VARIABLES
  decided,      \* the entries committed at some moment
  copies,       \* how often each entry has been applied
  remembered    \* the ids held as applied

ledgerVars == <<decided, copies, remembered>>

AppliedIds == {e.tx : e \in {d \in Entries : copies[d] > 0}}

LedgerInit ==
  /\ decided = {}
  /\ copies = [e \in Entries |-> 0]
  /\ remembered = {}

Decide ==
  /\ decided' \in SUBSET Entries
  /\ decided \subseteq decided'
  /\ UNCHANGED <<copies, remembered>>

Apply ==
  /\ \E e \in decided : copies' = [copies EXCEPT ![e] = @ + 1]
  /\ UNCHANGED <<decided, remembered>>

\* A crash may take the memory back to any earlier state of it.
Remember ==
  /\ remembered' \in SUBSET AppliedIds
  /\ UNCHANGED <<decided, copies>>

LedgerSpec == LedgerInit /\ [][Decide \/ Apply \/ Remember]_ledgerVars
=============================================================================
