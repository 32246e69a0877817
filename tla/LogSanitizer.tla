---------------------------- MODULE LogSanitizer ----------------------------
(***************************************************************************)
(* What bql_query_history.py keeps of the extras of a row:                 *)
(* sanitize_for_log, and what is promised of its result.  A value is a     *)
(* record: what it is, and for a dict or a list its items.  A dict is a    *)
(* sequence of pairs of a key and a value; a key is "plain" or one of      *)
(* REDACT_KEYS, "secret".                                                  *)
(***************************************************************************)
EXTENDS Integers, Sequences, FiniteSetsExt

CONSTANTS
  MaxDepth,   \* MAX_SANITIZE_DEPTH
  MaxItems,   \* MAX_DICT_ITEMS and MAX_LIST_ITEMS
  Extras      \* what callers may give, and the items of it

ASSUME LogSanitizerAssumption ==
  /\ MaxDepth \in Nat /\ MaxItems \in Nat
  /\ \A value \in Extras :
       /\ value.is \in {"text", "bytes", "number", "other", "dict", "list"}
       /\ value.is = "dict" => value.items \in Seq({"plain", "secret"} \X Extras)
       /\ value.is = "list" => value.items \in Seq(Extras)

\* A leaf that is kept as it is, cut, or named by its type.
Leaf(value) == [is |-> IF value.is \in {"other", "bytes"} THEN "text" ELSE value.is]

\* The mark of what was cut off a dict or a list.
Mark == <<"truncated", [is |-> "number"]>>

Shown(items) == 1..Min({Len(items), MaxItems})

MarkIfCut(items, mark) == IF Len(items) > MaxItems THEN << mark >> ELSE << >>

\* sanitize_for_log above the greatest depth, of a value whose items it has
\* sanitized.
Sanitize(value, sanitized) ==
  CASE value.is = "dict" ->
         [is |-> "dict",
          items |-> [i \in Shown(value.items) |->
             <<value.items[i][1],
               IF value.items[i][1] = "secret" THEN [is |-> "redacted"] ELSE sanitized[value.items[i][2]]>>]
            \o MarkIfCut(value.items, Mark)]
    [] value.is = "list" ->
         [is |-> "list",
          items |-> [i \in Shown(value.items) |-> sanitized[value.items[i]]]
            \o MarkIfCut(value.items, [is |-> "dict", items |-> << Mark >>])]
    [] OTHER -> Leaf(value)

\* The recursion, by the levels that are left to go down; below them it says
\* that the greatest depth was reached.
Sanitizing[left \in 0..(MaxDepth + 1)] ==
  [value \in Extras |->
     IF left = 0 THEN [is |-> "text"] ELSE Sanitize(value, Sanitizing[left - 1])]

SanitizeForLog(value) == Sanitizing[MaxDepth + 1][value]

----------------------------------------------------------------------------
(* What is promised: a bound on the depth and the width *)

Leaves == [is : {"text", "number", "redacted"}]

\* The items of a dict: no secret is in clear, and the mark counts as one.
Pairs(values) == ({"plain", "truncated"} \X values) \cup {<<"secret", [is |-> "redacted"]>>}

Short(values) == {s \in Seq(values) : Len(s) <= MaxItems + 1}

\* Leaves, and dicts and lists of such values.
Wrapped(values) ==
  Leaves \cup [is : {"dict"}, items : Short(Pairs(values))] \cup [is : {"list"}, items : Short(values)]

\* Values of at most a number of levels, but for the mark of what was cut,
\* which is a dict of a number.
Small[levels \in 0..(MaxDepth + 2)] == IF levels = 0 THEN Leaves ELSE Wrapped(Small[levels - 1])
=============================================================================
