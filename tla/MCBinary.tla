------------------------------ MODULE MCBinary ------------------------------
(* Small constants for BinaryStore. *)
EXTENDS BinaryStore

MCRows == <<[type |-> "note", id |-> "a", trust_state |-> "RAW"],
            [relation |-> "near", bridge_id |-> "b", trust_state |-> "TRUSTED"],
            [kind |-> "note", relation |-> "near", key |-> "a"]>>

\* The payloads of the first two rows are equally long, so the seeds of one
\* write may go on with those of the other.
MCSizes == <<1, 1, 2>>
MCWrites == {<<1, <<1, 2>>>>, <<1, <<2, 1>>>>, <<2, << >>>>, <<2, <<1, 3>>>>}
=============================================================================
