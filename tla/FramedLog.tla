----------------------------- MODULE FramedLog -----------------------------
(***************************************************************************)
(* The append-only file that both the write-ahead log (wal_v03h2.py) and   *)
(* the record store (storage_format_v03h1.py) are: frames of a fixed       *)
(* header (magic, version, type, length, SHA-256) and a payload, written   *)
(* at the end of the file and never rewritten.                             *)
(*                                                                         *)
(* A frame whose write was cut short stays in the file: nothing truncates  *)
(* it, and the next append lands right behind it.  The reader then takes   *)
(* the missing bytes of the torn frame from the frames that follow.  How   *)
(* many of them it swallows before it finds the checksum wrong depends on  *)
(* the sizes; a torn frame carries that number as its gap.                 *)
(***************************************************************************)
EXTENDS Integers, Sequences, FiniteSets

CONSTANT Gaps   \* the gaps a torn frame may have

ASSUME GapsAssumption == Gaps \subseteq Nat \ {0}

Whole(v) == [kind |-> "whole", val |-> v]
Torn(g)  == [kind |-> "torn", gap |-> g]

Frames(V) == [kind : {"whole"}, val : V] \cup [kind : {"torn"}, gap : Gaps]

IsWhole(frame) == frame.kind = "whole"

WholeUpTo(log, n) == \A i \in 1..n : IsWhole(log[i])

(***************************************************************************)
(* The loop of iter_records and iter_wal_records, as the number of frames  *)
(* it yields: all those before the first torn one.                         *)
(***************************************************************************)
Visible(log) ==
  CHOOSE n \in 0..Len(log) :
    /\ WholeUpTo(log, n)
    /\ n < Len(log) => ~IsWhole(log[n + 1])

Records(log) == [i \in 1..Visible(log) |-> log[i].val]

(***************************************************************************)
(* Whether that loop ends by reaching the end of the file (a clean end, or *)
(* a partial tail, where stop_on_partial breaks) and not by raising on the *)
(* frame it pieced together from the torn one and its successors.          *)
(***************************************************************************)
Readable(log) ==
  LET torn == Visible(log) + 1
      successors == {i \in (torn + 1)..Len(log) : IsWhole(log[i])}
  IN  torn <= Len(log) => Cardinality(successors) < log[torn].gap

\* Every value written in full, seen by a reader or not.
Written(log) == {log[i].val : i \in {j \in 1..Len(log) : IsWhole(log[j])}}

Prefix(log, n) == SubSeq(log, 1, n)
=============================================================================
