---------------------------- MODULE MCCompaction ----------------------------
(***************************************************************************)
(* The payloads of the model-checking runs of Compaction.  One seed has    *)
(* the fallback of another for its id, and one the fallback of the first   *)
(* upsert.                                                                 *)
(***************************************************************************)
EXTENDS Compaction, TLC

CONSTANTS seed, bridge, i, x, y

MCIds == {i, <<"rid", x>>, <<"wal", seed, 0>>}

MCPayloads ==
  {[kind |-> seed, id |-> i, text |-> x], [kind |-> seed, id |-> i, text |-> y],
   [kind |-> seed, id |-> NoId, text |-> x], [kind |-> seed, id |-> NoId, text |-> y],
   [kind |-> seed, id |-> <<"rid", x>>, text |-> y],
   [kind |-> seed, id |-> <<"wal", seed, 0>>, text |-> y],
   [kind |-> bridge, id |-> NoId, text |-> x]}

\* "i" comes before "rid:...", and that before "wal_..."; seeds before bridges.
Rank(name) ==
  IF name \in {i, seed} THEN <<0, 0>>
  ELSE IF name = bridge THEN <<0, 1>>
  ELSE IF name[1] = "rid" THEN <<1, IF name[2] = x THEN 0 ELSE 1>>
  ELSE <<IF name[2] = bridge THEN 2 ELSE 3, name[3]>>

MCPrecedes(s, t) ==
  Rank(s)[1] < Rank(t)[1] \/ (Rank(s)[1] = Rank(t)[1] /\ Rank(s)[2] < Rank(t)[2])
=============================================================================
