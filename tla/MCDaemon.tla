------------------------------ MODULE MCDaemon ------------------------------
(* A client that queries one root twice, as a bench does, and one that does *)
(* any one of a dozen things. *)
EXTENDS BqlDaemon

line(id, ts) == [is |-> "record", rec |-> [concept |-> "c1", id |-> id, ts |-> ts]]
int(v) == [is |-> "int", v |-> v]

MCNamedWindows == [last_hour |-> 20, last_day |-> 480]
MCLines == {[is |-> "undecodable"]}
MCMemories ==
  {[m |-> [exists |-> FALSE, files |-> << [kind |-> "jsonl", tsindex |-> FALSE, lines |-> <<line("r1", int(30))>>] >>]]}
MCOsErrors == {[class |-> "PermissionError", says |-> {}]}

MCQuery == [PlainQuery EXCEPT !.kind = "concept", !.value = "c1"]
MCRecent == [MCQuery EXCEPT !.clause = "filter", !.filter = [is |-> "in", field |-> "ts", window |-> "last_hour"]]
MCBad == {[PlainQuery EXCEPT !.top = 0],
          [PlainQuery EXCEPT !.clause = "filter", !.filter = [is |-> "in", field |-> "ts", window |-> "last_year"]]}

Query(query, max) == [local |-> TRUE, cmd |-> "query", query |-> query, root |-> "m", max |-> max, limit |-> 2]

MCRequests ==
  [c1 |-> {Query(MCRecent, "number")},
   c2 |-> {[local |-> TRUE, cmd |-> c] : c \in {"stats", "shutdown", "drop", "malformed"}}
          \cup {[local |-> FALSE, cmd |-> "query", query |-> MCQuery], Query(MCQuery, "text")}
          \cup {Query(q, "number") : q \in MCBad \cup {MCQuery}}]
MCCalls == [c1 |-> 2, c2 |-> 1]
=============================================================================
