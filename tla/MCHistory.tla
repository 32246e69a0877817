------------------------------ MODULE MCHistory ------------------------------
(* Two processes; the first one makes any one of a dozen calls. *)
EXTENDS QueryHistory

rec(id, ts) == [seed |-> "s1", id |-> id, ts |-> ts]
line(id, ts) == [is |-> "record", rec |-> rec(id, ts)]
int(v) == [is |-> "int", v |-> v]

MCNamedWindows == [last_hour |-> 20, last_day |-> 480]
MCLines == {line("r3", [is |-> "number", v |-> 305]), [is |-> "undecodable"]}
MCFiles ==
  << [kind |-> "jsonl", tsindex |-> FALSE, lines |-> <<line("r1", int(30))>>],
     [kind |-> "json", tsindex |-> TRUE, lines |-> <<line("r9", int(35)), line("r9", int(35))>>],
     [kind |-> "json", tsindex |-> FALSE, lines |-> <<line("r5", int(35)), [is |-> "junk"]>>],
     [kind |-> "json", tsindex |-> FALSE, lines |-> <<line("r2", int(22)), line("r4", [is |-> "float", v |-> 205])>>] >>
MCOsErrors == {[class |-> "FileNotFoundError", says |-> {}]}
MCMemories == {[m |-> [exists |-> FALSE, files |-> MCFiles]]}

MCQueries ==
  [plain |-> [PlainQuery EXCEPT !.top = 1],
   recent |-> [PlainQuery EXCEPT !.clause = "filter", !.filter = [is |-> "in", field |-> "ts", window |-> "last_hour"]],
   before |-> [PlainQuery EXCEPT !.clause = "filter",
                 !.filter = [is |-> "compare", field |-> "ts", op |-> "<", arg |-> [is |-> "digits", v |-> 30]]],
   unsafe |-> [PlainQuery EXCEPT !.unsafe = TRUE],
   toomany |-> [PlainQuery EXCEPT !.top = 9]]

text == [is |-> "text"]
number == [is |-> "number"]
list(items) == [is |-> "list", items |-> items]
dict(items) == [is |-> "dict", items |-> items]
inner == list(<< [is |-> "other"] >>)
deep == list(<< list(<< list(<< inner >>) >>), [is |-> "bytes"], number >>)
nested == dict(<< <<"secret", text>>, <<"plain", deep>>, <<"plain", number>> >>)
MCExtras ==
  {text, number, [is |-> "other"], [is |-> "bytes"], inner, list(<< inner >>), list(<< list(<< inner >>) >>),
   deep, nested, Diagnostic}

MCRequests ==
  [p1 |-> {[how |-> "history", text |-> q, root |-> "m", max |-> 0] : q \in {"plain", "recent", "before", "unsafe"}}
          \cup {[how |-> "query", text |-> q, root |-> "m", max |-> 1] : q \in {"before", "toomany"}}
          \cup {[how |-> "record", text |-> "plain", status |-> "custom", count |-> -1, extras |-> nested]}
          \cup {[how |-> "trace", text |-> "plain", status |-> "custom",
                 stages |-> <<[name |-> "plan", from |-> 9, to |-> 4], [name |-> "other", from |-> 1, to |-> 2],
                              [name |-> "plan", from |-> 3, to |-> 2]>>]},
   p2 |-> {[how |-> "history", text |-> q, root |-> "m", max |-> 2] : q \in {"unsafe"}}]
=============================================================================
