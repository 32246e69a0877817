----------------------------- MODULE BqlParser ------------------------------
(***************************************************************************)
(* What is pure in the path of a query: bql_parser.py with the filters of  *)
(* bql_time_filter.py, bql_planner.py and bql_error_contract.py.  A query  *)
(* text is the record of what the patterns of the parser tell apart in it; *)
(* an error is its class and the phrases its message has, of those that    *)
(* classify_error looks for.                                               *)
(***************************************************************************)
EXTENDS TsIndex

CONSTANTS
  NamedWindows,   \* NAMED_WINDOWS_MS: a function from the names
  MaxRadius,      \* MAX_RADIUS
  MaxTop          \* MAX_TOP, and the executor's limit

ASSUME BqlParserAssumption ==
  /\ MaxRadius \in Nat \ {0} /\ MaxTop \in Nat \ {0}
  /\ "last_hour" \in DOMAIN NamedWindows /\ NamedWindows["last_hour"] = LastHour

NoTop == -1

\* A text that is accepted; other texts differ from it in some fields.
PlainQuery ==
  [blank |-> FALSE, unsafe |-> FALSE, explain |-> FALSE, form |-> "from",
   kind |-> "seed", value |-> "s1", radius |-> 1, direction |-> "up_down",
   clause |-> "return", filter |-> [is |-> "other"], fields |-> <<"ts">>, top |-> NoTop]

Error(class, says) == [class |-> class, says |-> says]

\* The second component of the first pair whose first component is TRUE.
First(cases) ==
  cases[CHOOSE i \in DOMAIN cases : cases[i][1] /\ \A j \in 1..(i - 1) : ~cases[j][1]][2]

----------------------------------------------------------------------------
(* Parsing *)

\* parse_ts_filter: what is wrong with a comparison or a window.
TsFilterFaults(f) ==
  << <<f.field # "ts", {"timestamp"}>>,
     <<f.is = "compare" /\ f.arg.is # "digits", {"timestamp"}>>,
     <<f.is = "in" /\ f.window \notin DOMAIN NamedWindows, {"timestamp", "named window"}>> >>

\* _parse_filter.
FilterFaults(f) ==
  CASE f.is \in {"compare", "in"} -> TsFilterFaults(f)
    [] f.is = "equal" -> << <<f.field = "depth" /\ ~f.integer, {}>> >>
    [] f.is = "other" -> << <<TRUE, {"timestamp"}>> >>

ParsedFilter(f) ==
  CASE f.is = "compare" -> [field |-> "ts", op |-> f.op, at |-> [is |-> "int", v |-> f.arg.v]]
    [] f.is = "in" -> [field |-> "ts", op |-> "in_window", window |-> f.window]
    [] f.is = "equal" -> [field |-> f.field, op |-> "=", value |-> f.value]

Directions == {"up", "down", "up_down", "lateral"}

\* parse: its checks in order, each with the phrases of its message.
Faults(q) ==
  << <<q.blank, {}>>,
     <<q.unsafe, {"unsafe token rejected"}>>,
     <<q.form = "select", {"select syntax not enabled"}>>,
     <<q.form # "from", {"unsupported bql syntax"}>>,
     <<q.radius \notin 1..MaxRadius, {"radius out of bounds"}>>,
     <<q.direction \notin Directions, {}>>,
     <<q.clause = "none", {}>> >>
  \o (IF q.clause = "filter" THEN FilterFaults(q.filter) ELSE << >>)
  \o << <<q.top # NoTop /\ q.top \notin 1..MaxTop, {"top out of bounds"}>>,
        <<q.fields = << >>, {}>> >>

Accepted(q) == \A i \in DOMAIN Faults(q) : ~Faults(q)[i][1]

ParseErrorOf(q) == Error("ParseError", First(Faults(q)))

\* make_ast of an accepted text.
Ast(q) ==
  [explain |-> q.explain, kind |-> q.kind, value |-> q.value, radius |-> q.radius,
   direction |-> q.direction, fields |-> q.fields, top |-> q.top,
   filters |-> IF q.clause = "filter" THEN {ParsedFilter(q.filter)} ELSE {}]

----------------------------------------------------------------------------
(* Planning *)

Candidate(ast) == \E f \in ast.filters : IsSupported(f)

\* explain.
Explain(ast, available) ==
  LET used == Candidate(ast) /\ available
  IN  [candidate |-> Candidate(ast), used |-> used,
       stages |-> <<"seed_lookup", "balloon_expand">>
                  \o (IF used THEN <<"ts_index_range_lookup">> ELSE << >>)
                  \o (IF ast.filters # {} THEN <<"filter">> ELSE << >>)
                  \o <<"return">>]

----------------------------------------------------------------------------
(* The envelope of an answer *)

ValueErrors == {"ParseError", "ValueError", "UnicodeDecodeError"}

\* classify_error.
Classify(error) ==
  First(<< <<error.says \cap {"time filter", "named window", "timestamp"} # {}, "BQL_TIME_FILTER_PARSE_ERROR">>,
           <<"unsafe token rejected" \in error.says, "BQL_UNSAFE_TOKEN">>,
           <<"radius out of bounds" \in error.says, "BQL_RADIUS_OUT_OF_BOUNDS">>,
           <<"top out of bounds" \in error.says, "BQL_TOP_OUT_OF_BOUNDS">>,
           <<error.says \cap {"select syntax not enabled", "unsupported bql syntax"} # {}, "BQL_UNSUPPORTED_SYNTAX">>,
           <<error.class = "PermissionError", "BQL_READONLY_SAFETY_ERROR">>,
           <<error.class = "ParseError", "BQL_PARSE_ERROR">>,
           <<error.class \in ValueErrors, "BQL_EXECUTION_ERROR">>,
           <<TRUE, "BQL_INTERNAL_ERROR">> >>)

OkEnvelope(result) == [ok |-> TRUE, status |-> "PASS_V03G2_BQL_QUERY_EXECUTED", result |-> result]

\* Mutant: the class of the error is lost.
ErrorEnvelopeInternal(error) == [ok |-> FALSE, status |-> "BQL_INTERNAL_ERROR"]

ErrorEnvelope(error) == [ok |-> FALSE, status |-> Classify(error)]
=============================================================================
