------------------------------ MODULE TsIndex -------------------------------
(***************************************************************************)
(* bql_ts_index.py: the timestamp index that a query builds in memory over *)
(* the rows it has expanded, and the range lookups in it.  A value that    *)
(* may be None is a set of at most one element.                            *)
(***************************************************************************)
EXTENDS Lists, SequencesExt

CONSTANT LastHour   \* LAST_HOUR_MS

ASSUME TsIndexAssumption == LastHour \in Nat

\* A raw ts as JSON or a query gives it.  "float" and "number", a text that
\* float() reads, are in tenths of a millisecond; "iso" is a date that
\* fromisoformat reads; the other kinds are no timestamp.
RawTs == [is : {"int", "digits", "iso", "float", "number", "bool", "null", "text", "inf"}, v : Int]

\* int() of a number of tenths: towards zero.
Truncated(tenths) == IF tenths >= 0 THEN tenths \div 10 ELSE -((-tenths) \div 10)

\* parse_ts_ms.
ParseTs(raw) ==
  CASE raw.is \in {"int", "digits", "iso"} -> {raw.v}
    [] raw.is \in {"float", "number"} -> {Truncated(raw.v)}
    [] OTHER -> {}

----------------------------------------------------------------------------
(* The index: ts and refs are parallel *)

\* The order of repr(): of decimal texts, for positions below 100.
ReprBefore(a, b) ==
  LET lead(n) == IF n > 9 THEN n \div 10 ELSE n
  IN  lead(a) < lead(b) \/ (lead(a) = lead(b) /\ a < b)

Before(p, q) == p[1] < q[1] \/ (p[1] = q[1] /\ ReprBefore(p[2], q[2]))

\* _sorted_index of a set of pairs <<ts, ref>>.
SortedIndex(pairs) ==
  LET ordered == InOrder(pairs, Before)
  IN  [ts |-> [i \in DOMAIN ordered |-> ordered[i][1]],
       refs |-> [i \in DOMAIN ordered |-> ordered[i][2]]]

\* The pairs of a position, from 1, and the timestamp of the row there.
Stamped(raws) == UNION {{i} \X ParseTs(raws[i]) : i \in DOMAIN raws}

\* Mutant: the positions are counted from 1.
BuildIndexFromOne(raws) == SortedIndex({<<p[2], p[1]>> : p \in Stamped(raws)})

\* build_index_from_records; raws are the raw timestamps of the rows, and a
\* ref is the position of a row, from 0.
BuildIndex(raws) == SortedIndex({<<p[2], p[1] - 1>> : p \in Stamped(raws)})

\* bisect: how many of the sorted ts are at most x, and how many are below x.
BisectRight(ts, x) ==
  CHOOSE k \in 0..Len(ts) : /\ \A i \in 1..k : ts[i] <= x
                            /\ \A i \in (k + 1)..Len(ts) : ts[i] > x

BisectLeft(ts, x) ==
  CHOOSE k \in 0..Len(ts) : /\ \A i \in 1..k : ts[i] < x
                            /\ \A i \in (k + 1)..Len(ts) : ts[i] >= x

\* The refs between the two bounds, both exclusive.
Slice(index, lower, upper) ==
  LET left == IF lower = {} THEN 0 ELSE BisectRight(index.ts, CHOOSE x \in lower : TRUE)
      right == IF upper = {} THEN Len(index.ts) ELSE BisectLeft(index.ts, CHOOSE x \in upper : TRUE)
  IN  {index.refs[i] : i \in (left + 1)..right}

\* range_lookup, as refs_for_filters calls it: with one bound.
RangeLookup(index, filter, now) ==
  CASE filter.op = ">" -> Slice(index, ParseTs(filter.at), {})
    [] filter.op = "<" -> Slice(index, {}, ParseTs(filter.at))
    [] filter.op = "in_window" -> Slice(index, {now - LastHour}, {})

----------------------------------------------------------------------------
(* Filters, as the parser gives them *)

\* is_supported_ts_filter.
IsSupported(filter) ==
  /\ filter.field = "ts"
  /\ \/ filter.op \in {">", "<"}
     \/ filter.op = "in_window" /\ filter.window = "last_hour"

\* refs_for_filters.
RefsForFilters(index, filters, now) ==
  {r \in {index.refs[i] : i \in DOMAIN index.refs} :
     \A f \in filters : IsSupported(f) => r \in RangeLookup(index, f, now)}
=============================================================================
