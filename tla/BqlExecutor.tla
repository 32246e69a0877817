---------------------------- MODULE BqlExecutor -----------------------------
(***************************************************************************)
(* bql_executor.py: execute, called by several actors at once.  A call     *)
(* parses the query, loads the files of the memory root one by one, looks  *)
(* the candidates up in a timestamp index and filters them; meanwhile the  *)
(* files grow and time passes.  What a call is for, and what becomes of    *)
(* its result or its exception, is in the modules that extend this one.    *)
(*                                                                         *)
(* A record is a function from its fields: ts to a raw timestamp, every    *)
(* other one to the text that str() gives.                                 *)
(***************************************************************************)
EXTENDS BqlParser

CONSTANTS
  Actors,      \* threads or processes that call execute
  Roots,       \* memory roots
  Lines,       \* lines a writer may add: [is |-> "record", rec |-> ...], junk, undecodable
  Memories,    \* what the roots may hold at first
  OsErrors,    \* what the system may answer to a listing or an open
  MaxLines,    \* bound: the lines of a file
  FirstClock, LastClock,   \* bound: the readings of the clock
  TickBy       \* what it goes on by in a step

ASSUME BqlExecutorAssumption ==
  MaxLines \in Nat /\ FirstClock \in Nat /\ LastClock \in Nat /\ TickBy \in Nat

OsClasses == {"FileNotFoundError", "IsADirectoryError", "PermissionError", "OSError"}

\* The message of an OSError has the path in it, so it may have a phrase that
\* classify_error looks for; "timestamp" is the one that names are taken to have.
ASSUME OsErrorsAssumption == OsErrors \subseteq [class : OsClasses, says : SUBSET {"timestamp"}]

VARIABLES
  memory,   \* for a root: whether it exists, and its files, the .jsonl ones first
  clock,    \* time.time(), in the unit of the timestamps
  job       \* for an actor: its call of execute

exec == <<memory, clock, job>>

NoJob == [at |-> "none"]

----------------------------------------------------------------------------
(* Loading *)

\* _load_json_file 17 raises: text that is not UTF-8 in a .jsonl; in a .json
\* the try covers the decoding.
Undecodable(file) ==
  file.kind = "jsonl" /\ \E i \in DOMAIN file.lines : file.lines[i].is = "undecodable"

\* _load_json_file: of a .jsonl the lines that are objects, of a .json the
\* objects of the document, and none if it is malformed.
RecordsOf(file) ==
  LET good == Sublist(file.lines, {i \in DOMAIN file.lines : file.lines[i].is = "record"})
  IN  IF file.kind = "json" /\ Len(good) < Len(file.lines) THEN << >>
      ELSE [i \in DOMAIN good |-> good[i].rec]

\* _load_memory_records: the files it reads.
Loadable(root) ==
  IF ~memory[root].exists THEN << >>
  ELSE LET files == memory[root].files
       IN  Sublist(files, {i \in DOMAIN files : ~files[i].tsindex})

----------------------------------------------------------------------------
(* Rows *)

SourceKeys(kind) ==
  (IF kind = "seed" THEN {"seed", "seed_id", "source", "source_value"}
   ELSE {"concept", "concept_id", "concept_name"})
  \cup {"pattern_id", "record_id", "id"}

\* _matches_source.
MatchesSource(rec, ast) == \E key \in SourceKeys(ast.kind) \cap DOMAIN rec : rec[key] = ast.value

\* str(record.get(field)).
TextOf(rec, field) == IF field \in DOMAIN rec THEN rec[field] ELSE "None"

RawTsOf(rec) == IF "ts" \in DOMAIN rec THEN rec.ts ELSE [is |-> "null", v |-> 0]

\* The lines that a file may ever have, and a file of them.
LinesThere ==
  Lines \cup UNION {UNION {Range(m[root].files[i].lines) : i \in DOMAIN m[root].files} : m \in Memories, root \in Roots}

File == [kind : {"jsonl", "json"}, tsindex : BOOLEAN, lines : Seq(LinesThere)]

\* A ts in a record is what JSON can give.
ASSUME MemoriesAssumption ==
  /\ Memories \subseteq [Roots -> [exists : BOOLEAN, files : Seq(File)]]
  /\ \A line \in LinesThere : line.is = "record" => RawTsOf(line.rec) \in RawTs

\* dict, and setdefault: the record's own fields come first.
WithDefaults(rec, defaults) ==
  [f \in DOMAIN rec \cup DOMAIN defaults |-> IF f \in DOMAIN rec THEN rec[f] ELSE defaults[f]]

\* _expand_balloon.
Expand(records, ast) ==
  LET hits == Sublist([i \in DOMAIN records |-> <<i - 1, records[i]>>],
                      {i \in DOMAIN records : MatchesSource(records[i], ast)})
      id(hit) == IF "id" \in DOMAIN hit[2] THEN hit[2].id ELSE ToString(hit[1])
  IN  [n \in DOMAIN hits |->
         WithDefaults(hits[n][2], [record_id |-> id(hits[n]), depth |-> "0", rank |-> ToString(n)])]

\* _match_time_filter.
MatchesTime(row, f, now) ==
  \E t \in ParseTs(RawTsOf(row)) :
     \/ f.op = ">" /\ \E x \in ParseTs(f.at) : t > x
     \/ f.op = "<" /\ \E x \in ParseTs(f.at) : t < x
     \/ f.op = "in_window" /\ f.window = "last_hour" /\ t > now - LastHour

\* _match_filter, of the filters that the parser makes.
Matches(row, f, now) ==
  IF f.field = "ts" THEN MatchesTime(row, f, now)
  ELSE f.op = "=" /\ TextOf(row, f.field) = f.value

\* _apply_filters.
ApplyFilters(rows, filters, now) ==
  Sublist(rows, {i \in DOMAIN rows : \A f \in filters : Matches(rows[i], f, now)})

\* execute: the limit; a max_results of 0 is no max_results.
LimitOf(ast, max) ==
  LET wanted == IF ast.top # NoTop THEN ast.top ELSE IF max # 0 THEN max ELSE MaxTop
      given == IF max # 0 THEN max ELSE wanted
  IN  Max({1, Min({wanted, given, MaxTop})})

\* _project.
Project(rows, fields, limit) ==
  LET cell(row, f) == IF f = "ts" THEN RawTsOf(row) ELSE TextOf(row, f)
      names(row) == {fields[i] : i \in DOMAIN fields}
                      \cup ({"rank", "depth", "record_id"} \cap DOMAIN row)
  IN  [i \in 1..Min({Len(rows), limit}) |->
         [f \in names(rows[i]) |-> cell(rows[i], f)]]

\* Rows at the positions that the index gives.
Candidates(rows, filters, now) ==
  LET refs == RefsForFilters(BuildIndex([i \in DOMAIN rows |-> RawTsOf(rows[i])]), filters, now)
  IN  Sublist(rows, {i \in DOMAIN rows : i - 1 \in refs})

----------------------------------------------------------------------------
(* A call, step by step *)

At(a, stage) == job[a].at = stage

\* A caller of execute starts it, and takes its answer or its exception.
Start(a, query, root, max) ==
  job' = [job EXCEPT ![a] = [at |-> "parse", query |-> query, root |-> root, max |-> max]]

Fail(a, error) == job' = [job EXCEPT ![a] = [at |-> "failed", query |-> @.query, error |-> error]]

\* execute 165-166, a text that the parser accepts.
ParseQuery(a) ==
  /\ At(a, "parse")
  /\ Accepted(job[a].query)
  /\ job' = [job EXCEPT ![a] =
       [at |-> "load", query |-> @.query, root |-> @.root, max |-> @.max, ast |-> Ast(@.query)]]
  /\ UNCHANGED <<memory, clock>>

RejectQuery(a) ==
  /\ At(a, "parse")
  /\ ~Accepted(job[a].query)
  /\ Fail(a, ParseErrorOf(job[a].query))
  /\ UNCHANGED <<memory, clock>>

\* _load_memory_records: it lists the files, then reads one after the other.
BeginLoad(a) ==
  /\ At(a, "load")
  /\ job' = [job EXCEPT ![a] =
       [at |-> "read", query |-> @.query, root |-> @.root, max |-> @.max, ast |-> @.ast,
        file |-> 1, files |-> Len(Loadable(@.root)), records |-> << >>]]

NextFile(a) == Loadable(job[a].root)[job[a].file]

LoadFile(a) ==
  /\ At(a, "read") /\ job[a].file <= job[a].files
  /\ ~Undecodable(NextFile(a))
  /\ job' = [job EXCEPT ![a].file = @ + 1, ![a].records = @ \o RecordsOf(NextFile(a))]
  /\ UNCHANGED <<memory, clock>>

NotUtf8 == Error("UnicodeDecodeError", {})

LoadErrors == OsErrors \cup {NotUtf8}

\* The load raises: a file is not UTF-8, or a listing (48-54) or an open (16,
\* 29) fails, of a directory that is named like a file, a file without
\* permission or one that was removed after it was listed.
LoadRaises(a, error) ==
  /\ At(a, "read")
  /\ \/ error \in OsErrors
     \/ error = NotUtf8 /\ job[a].file <= job[a].files /\ Undecodable(NextFile(a))
  /\ Fail(a, error)
  /\ UNCHANGED <<memory, clock>>

LoadEnds(a) == At(a, "read") /\ job[a].file > job[a].files

\* The rows that a filter has yet to look at; since is when it began.
Filtering(call, rows, todo, indexed) ==
  [at |-> "filter", query |-> call.query, ast |-> call.ast, max |-> call.max, rows |-> rows,
   todo |-> todo, passed |-> << >>, indexed |-> indexed, since |-> clock]

\* execute 167-170: load_memory returned the records.
Loaded(a, records) ==
  LET call == job[a]
      rows == Expand(records, call.ast)
  IN  job' = [job EXCEPT ![a] =
        IF Candidate(call.ast)
        THEN [at |-> "lookup", query |-> call.query, ast |-> call.ast, max |-> call.max, rows |-> rows]
        ELSE Filtering(call, rows, rows, FALSE)]

\* execute 176-184.
Lookup(a) ==
  /\ At(a, "lookup")
  /\ LET rows == job[a].rows
     IN  job' = [job EXCEPT ![a] =
                   Filtering(@, rows, Candidates(rows, @.ast.filters, clock), TRUE)]
  /\ UNCHANGED <<memory, clock>>

\* execute 185-191: the lookup raised (memory runs out, say), and all rows are looked at.
LookupRaises(a) ==
  /\ At(a, "lookup")
  /\ job' = [job EXCEPT ![a] = Filtering(@, @.rows, @.rows, FALSE)]
  /\ UNCHANGED <<memory, clock>>

\* _apply_filters: a row at a time, each with its own reading of the clock.
FilterRow(a) ==
  /\ At(a, "filter") /\ job[a].todo # << >>
  /\ LET row == Head(job[a].todo)
         passes == \A f \in job[a].ast.filters : Matches(row, f, clock)
     IN  job' = [job EXCEPT ![a].todo = Tail(@),
                            ![a].passed = IF passes THEN Append(@, row) ELSE @]
  /\ UNCHANGED <<memory, clock>>

\* execute 193-221.
Answer(a) ==
  /\ At(a, "filter") /\ job[a].todo = << >>
  /\ LET call == job[a]
         results == Project(call.passed, call.ast.fields, LimitOf(call.ast, call.max))
     IN  job' = [job EXCEPT ![a] =
           [at |-> "done", query |-> call.query, ast |-> call.ast, rows |-> call.rows,
            passed |-> call.passed, since |-> call.since, plan |-> Explain(call.ast, call.indexed),
            max |-> call.max, results |-> results]]
  /\ UNCHANGED <<memory, clock>>

----------------------------------------------------------------------------
(* What goes on around the calls *)

\* A writer adds a line to a file that queries read.
AppendLine(root, i, line) ==
  /\ memory[root].exists
  /\ Len(memory[root].files[i].lines) < MaxLines
  /\ memory' = [memory EXCEPT ![root].files[i].lines = Append(@, line)]
  /\ UNCHANGED <<clock, job>>

CreateRoot(root) ==
  /\ ~memory[root].exists
  /\ memory' = [memory EXCEPT ![root].exists = TRUE]
  /\ UNCHANGED <<clock, job>>

\* time.time() goes on.  It is taken not to be set back.
Tick ==
  /\ clock < LastClock
  /\ clock' = clock + TickBy
  /\ UNCHANGED <<memory, job>>

ExecInit ==
  /\ memory \in Memories
  /\ clock = FirstClock
  /\ job = [a \in Actors |-> NoJob]

\* A step of execute that is the same whoever calls it.
ExecStep(a) ==
  \/ ParseQuery(a) \/ RejectQuery(a) \/ LoadFile(a)
  \/ Lookup(a) \/ LookupRaises(a) \/ FilterRow(a) \/ Answer(a)

ExecEnvironment ==
  \/ \E root \in Roots : CreateRoot(root)
  \/ \E root \in Roots : \E i \in DOMAIN memory[root].files, line \in Lines : AppendLine(root, i, line)
  \/ Tick

----------------------------------------------------------------------------
(* Properties *)

RowsOf(rows) == {rows[i] : i \in DOMAIN rows}

\* What a full scan of the rows passes, at one moment.
ScanAt(call, now) == ApplyFilters(call.rows, call.ast.filters, now)

\* The lookup in the index, the filters and the clock that they read one
\* after the other agree with a full scan (execute 176-191): a row that still
\* passes is in the result, one that is in it passed when the lookup was
\* made, in the order of the rows and within the limit.
IndexAgreesWithScan ==
  \A a \in Actors : At(a, "done") =>
    LET call == job[a]
    IN  /\ RowsOf(ScanAt(call, clock)) \subseteq RowsOf(call.passed)
        /\ RowsOf(call.passed) \subseteq RowsOf(ScanAt(call, call.since))
        /\ \E positions \in SUBSET DOMAIN call.rows : call.passed = Sublist(call.rows, positions)
        /\ Len(call.results) <= MaxTop
        /\ Len(call.passed) > 0 => Len(call.results) > 0
=============================================================================
