---------------------------- MODULE QueryHistory ----------------------------
(***************************************************************************)
(* bql_query_history.py over the executor: processes that run queries and  *)
(* record each of them in query_history.jsonl, which they rotate through   *)
(* query_history.jsonl.tmp, and in a trace file named after the query's    *)
(* hash.  Other callers record a row or a trace of their own, or run a     *)
(* query from the command line (cli.py).  Processes crash, and writes fail.*)
(*                                                                         *)
(* A file is what a name stands for: a process that has opened one goes on *)
(* with it when the name is given to another.                              *)
(***************************************************************************)
EXTENDS BqlExecutor, LogSanitizer

CONSTANTS
  Queries,      \* the texts, by name; the name is the hash
  Requests,     \* for a process: the calls it may make
  MaxEntries,   \* max_entries
  DefaultMax,   \* DEFAULT_MAX_HISTORY_ENTRIES
  MaxFaults     \* bound: crashes and failed writes

ASSUME QueryHistoryAssumption ==
  /\ IsFiniteSet(Actors) /\ MaxEntries \in Int
  /\ DefaultMax \in Nat \ {0} /\ MaxFaults \in Nat

\* A top is a number or none, and a comparison is with what may be a timestamp.
ASSUME QueriesAssumption ==
  \A text \in DOMAIN Queries :
    LET filter == Queries[text].filter
    IN  /\ Queries[text].top \in Int
        /\ filter.is \in {"compare", "in", "equal", "other"}
        /\ filter.is = "compare" => filter.arg \in RawTs

\* Texts have names, a call of execute has a root and a number as its limit,
\* a row of a caller's own has a number as its count, and stages have a
\* beginning and an end.
ASSUME RequestsAssumption ==
  \A a \in Actors : \A request \in Requests[a] :
    /\ request.text \in DOMAIN Queries
    /\ request.how \in {"history", "query"} => request.root \in Roots /\ request.max \in Int
    /\ request.how = "record" => request.count \in Int /\ request.extras \in Extras
    /\ request.how = "trace" => request.stages \in Seq([name : STRING, from : Int, to : Int])

VARIABLES
  caller,     \* for a process: its call, from its request to its end
  disk,       \* the files: which one is live, which one is .tmp, the lines of each
  trace,      \* for a hash: its trace file
  faults,     \* crashes and failed writes so far
  appended,   \* history: every row appended
  rotated,    \* history: how many of them when the log was last replaced
  overlap     \* history: two processes have been at the log at once

vars == <<exec, caller, disk, trace, faults, appended, rotated, overlap>>

NoFile == 0
Torn == [status |-> "torn"]   \* a line that is the end of another

----------------------------------------------------------------------------
(* What is written: a row *)

\* Mutant: the row has what the caller gave.
RowAsGiven(hash, status, count, extras) ==
  [hash |-> hash, status |-> status, count |-> count, extras |-> extras]

\* record_query_history: the row.
Row(hash, status, count, extras) ==
  [hash |-> hash, status |-> status, count |-> Max({0, count}), extras |-> SanitizeForLog(extras)]

\* What the callers in this module say of a result or an exception.
Diagnostic == [is |-> "dict", items |-> << <<"plain", [is |-> "text"]>> >>]

ASSUME DiagnosticAssumption == Diagnostic \in Extras

----------------------------------------------------------------------------
(* What is written: the stages of a trace *)

StageNames == <<"parse", "plan", "filter", "execute", "return">>

\* Mutant: a stage may end before it begins.
StageAsGiven(name, started, finished) == [name |-> name, from |-> started, to |-> finished]

\* _stage_record.
Stage(name, started, finished) ==
  [name |-> name, from |-> started, to |-> Max({started, finished})]

\* build_basic_stages: equal slices, of which the last one has the rest.
BasicStages(elapsed, now) ==
  LET base == now - elapsed
      slice == elapsed \div Len(StageNames)
  IN  [i \in DOMAIN StageNames |->
         Stage(StageNames[i], base + (i - 1) * slice,
               IF i = Len(StageNames) THEN now ELSE base + i * slice)]

\* create_explain_trace: the last stage given under each of the names.
Ordered(stages, now) ==
  LET given(name) == {i \in DOMAIN stages : stages[i].name = name}
  IN  [i \in DOMAIN StageNames |->
         IF given(StageNames[i]) = {} THEN Stage(StageNames[i], now, now)
         ELSE LET last == stages[Max(given(StageNames[i]))]
              IN  Stage(last.name, last.from, last.to)]

Doc(hash, status, stages, now) ==
  [hash |-> hash, status |-> status, stages |-> Ordered(stages, now)]

----------------------------------------------------------------------------
(* A call *)

Idle == [at |-> "idle"]

In(a, stage) == caller[a].at = stage

Finished == {"returned", "raised"}

\* From the open of the log to its replacement.
AtLog(a) == caller[a].at \in {"append", "read", "open tmp", "write tmp", "replace"}

\* A call at its next stage, with what it has then.
Moved(call, stage, more) ==
  [f \in DOMAIN call \cup DOMAIN more |->
     IF f = "at" THEN stage ELSE IF f \in DOMAIN more THEN more[f] ELSE call[f]]

\* run_query_with_history 249-255, and the command line's call of execute.
CallExecute(a, request) ==
  /\ In(a, "idle") /\ request.how \in {"history", "query"}
  /\ Start(a, Queries[request.text], request.root, request.max)
  /\ caller' = [caller EXCEPT ![a] =
       [at |-> "execute", how |-> request.how, hash |-> request.text, start |-> clock,
        statuses |-> << >>, raise |-> ""]]
  /\ UNCHANGED <<memory, clock, disk, trace, faults, appended, rotated, overlap>>

\* The call of record_query_history comes next; elapsed is for the trace.
Recording(call, status, count, elapsed) ==
  Moved(call, "open", [row |-> Row(call.hash, status, count, Diagnostic), elapsed |-> Max({0, elapsed})])

\* The status that the handler gives an exception.
StatusOf(error) ==
  IF error.class \in {"ParseError", "ValueError"} \/ "unsafe token rejected" \in error.says
  THEN "rejected" ELSE "error"

\* run_query_with_history 269-273.
Handling(call, error) ==
  Recording([k \in {"at", "how", "hash", "start", "statuses", "raise"} |->
               IF k = "raise" THEN error.class ELSE call[k]],
            StatusOf(error), 0, clock - call.start)

\* What is left of a call that is over.
Ended(call, at) ==
  [at |-> at, how |-> call.how, hash |-> call.hash, statuses |-> call.statuses, raise |-> call.raise]

\* Mutant: an exception in the recording is not recorded.
NotHandled(call, error) == Ended([call EXCEPT !.raise = error.class], "raised")

\* An exception in the recording: of a query that was answered it is handled
\* as the query's, and anywhere else it ends the call.
Interrupted(call, error) ==
  IF call.how = "history" /\ call.raise = "" THEN Handling(call, error)
  ELSE Ended([call EXCEPT !.raise = error.class], "raised")

\* run_query_with_history 256-259.
ExecuteReturned(a) ==
  /\ In(a, "execute") /\ caller[a].how = "history" /\ At(a, "done")
  /\ caller' = [caller EXCEPT ![a] = Recording(@, "ok", Len(job[a].results), clock - @.start)]
  /\ job' = [job EXCEPT ![a] = NoJob]
  /\ UNCHANGED <<memory, clock, disk, trace, faults, appended, rotated, overlap>>

ExecuteRaised(a) ==
  /\ In(a, "execute") /\ caller[a].how = "history" /\ At(a, "failed")
  /\ caller' = [caller EXCEPT ![a] = Handling(@, job[a].error)]
  /\ job' = [job EXCEPT ![a] = NoJob]
  /\ UNCHANGED <<memory, clock, disk, trace, faults, appended, rotated, overlap>>

\* A caller of its own of record_query_history, with extras as it likes.
CallRecord(a, request) ==
  /\ In(a, "idle") /\ request.how = "record"
  /\ caller' = [caller EXCEPT ![a] =
       [at |-> "open", how |-> "record", hash |-> request.text, start |-> clock, statuses |-> << >>,
        raise |-> "", elapsed |-> 0, row |-> Row(request.text, request.status, request.count, request.extras)]]
  /\ UNCHANGED <<exec, disk, trace, faults, appended, rotated, overlap>>

\* And of create_explain_trace, with stages as it likes.
CallTrace(a, request) ==
  /\ In(a, "idle") /\ request.how = "trace"
  /\ caller' = [caller EXCEPT ![a] =
       [at |-> "open trace", how |-> "trace", hash |-> request.text, start |-> clock,
        statuses |-> <<request.status>>, raise |-> "", stages |-> request.stages]]
  /\ UNCHANGED <<exec, disk, trace, faults, appended, rotated, overlap>>

----------------------------------------------------------------------------
(* The log *)

UsedFiles == {disk.live, disk.tmp} \cup {caller[b].file : b \in {x \in Actors : "file" \in DOMAIN caller[x]}}

NewFile == CHOOSE file \in DOMAIN disk.data : file \notin UsedFiles

LastOf(rows, n) == SubSeq(rows, Max({1, Len(rows) - n + 1}), Len(rows))

\* _enforce_bounded_history 101-103.
Kept == IF MaxEntries = 0 THEN DefaultMax ELSE Max({1, MaxEntries})

\* record_query_history 135: the log is opened, and created if there is none.
OpenLog(a) ==
  /\ In(a, "open")
  /\ LET file == IF disk.live = NoFile THEN NewFile ELSE disk.live
     IN  /\ disk' = IF disk.live = NoFile THEN [disk EXCEPT !.live = file, !.data[file] = << >>] ELSE disk
         /\ caller' = [caller EXCEPT ![a] = Moved(@, "append", [file |-> file])]
  /\ overlap' = (overlap \/ \E b \in Actors \ {a} : AtLog(b))
  /\ UNCHANGED <<exec, trace, faults, appended, rotated>>

\* record_query_history 136: the row goes to the end of the file that was opened.
AppendRow(a) ==
  /\ In(a, "append")
  /\ LET row == caller[a].row
     IN  /\ disk' = [disk EXCEPT !.data[caller[a].file] = Append(@, row)]
         /\ appended' = Append(appended, row)
         /\ caller' = [caller EXCEPT ![a].at = "read", ![a].statuses = Append(@, row.status)]
  /\ UNCHANGED <<exec, trace, faults, rotated, overlap>>

\* Mutants: the oldest lines are read, and all of them are.
ReadOldest(a) ==
  /\ In(a, "read")
  /\ LET lines == disk.data[disk.live]
     IN  caller' = [caller EXCEPT ![a] =
           Moved(@, "open tmp", [newest |-> SubSeq(lines, 1, Min({Kept, Len(lines)}))])]
  /\ UNCHANGED <<exec, disk, trace, faults, appended, rotated, overlap>>

ReadAll(a) ==
  /\ In(a, "read")
  /\ caller' = [caller EXCEPT ![a] = Moved(@, "open tmp", [newest |-> disk.data[disk.live]])]
  /\ UNCHANGED <<exec, disk, trace, faults, appended, rotated, overlap>>

\* _enforce_bounded_history 107-111: the newest lines of the live file.
ReadRows(a) ==
  /\ In(a, "read")
  /\ caller' = [caller EXCEPT ![a] =
       Moved(@, "open tmp", [newest |-> LastOf(disk.data[disk.live], Kept)])]
  /\ UNCHANGED <<exec, disk, trace, faults, appended, rotated, overlap>>

\* _enforce_bounded_history 112-113: a .tmp that is there is emptied.
OpenTmp(a) ==
  /\ In(a, "open tmp")
  /\ LET file == IF disk.tmp = NoFile THEN NewFile ELSE disk.tmp
     IN  /\ disk' = [disk EXCEPT !.tmp = file, !.data[file] = << >>]
         /\ caller' = [caller EXCEPT ![a].at = "write tmp", ![a].file = file]
  /\ UNCHANGED <<exec, trace, faults, appended, rotated, overlap>>

\* What is in a file of old lines after new ones are written over its
\* beginning: lines differ in length, so the new text may end within a line.
Overwritten(old, new) ==
  IF Len(old) <= Len(new) THEN {new}
  ELSE {new \o SubSeq(old, Len(new) + 1, Len(old)),
        new \o <<Torn>> \o SubSeq(old, Len(new) + 2, Len(old))}

\* _enforce_bounded_history 114-115, and the end of the with.
WriteTmp(a) ==
  /\ In(a, "write tmp")
  /\ \E lines \in Overwritten(disk.data[caller[a].file], caller[a].newest) :
       disk' = [disk EXCEPT !.data[caller[a].file] = lines]
  /\ caller' = [caller EXCEPT ![a].at = "replace"]
  /\ UNCHANGED <<exec, trace, faults, appended, rotated, overlap>>

\* The process closes the file.
Closed(call) == [k \in DOMAIN call \ {"file", "newest"} |-> call[k]]

\* Mutant: the .tmp is linked to the log's name and stays.
LinkLog(a) ==
  /\ In(a, "replace") /\ disk.tmp # NoFile
  /\ disk' = [disk EXCEPT !.live = disk.tmp]
  /\ rotated' = Len(appended)
  /\ caller' = [caller EXCEPT ![a] = Ended(@, "returned")]
  /\ UNCHANGED <<exec, trace, faults, appended, overlap>>

\* _enforce_bounded_history 116; run_query_with_history goes on with the trace.
ReplaceLog(a) ==
  /\ In(a, "replace") /\ disk.tmp # NoFile
  /\ disk' = [disk EXCEPT !.live = disk.tmp, !.tmp = NoFile]
  /\ rotated' = Len(appended)
  /\ caller' = [caller EXCEPT ![a] =
       IF @.how = "history" THEN Closed([@ EXCEPT !.at = "open trace"]) ELSE Ended(@, "returned")]
  /\ UNCHANGED <<exec, trace, faults, appended, overlap>>

\* Another process has replaced the log by the .tmp that both wrote.
ReplaceRaises(a) ==
  /\ In(a, "replace") /\ disk.tmp = NoFile
  /\ caller' = [caller EXCEPT ![a] =
       Interrupted(Closed(@), Error("FileNotFoundError", {}))]
  /\ UNCHANGED <<exec, disk, trace, faults, appended, rotated, overlap>>

----------------------------------------------------------------------------
(* The trace *)

\* create_explain_trace 216: the file is opened and emptied.
OpenTrace(a) ==
  /\ In(a, "open trace")
  /\ trace' = [trace EXCEPT ![caller[a].hash] = {}]
  /\ caller' = [caller EXCEPT ![a].at = "write trace"]
  /\ UNCHANGED <<exec, disk, faults, appended, rotated, overlap>>

\* The text is written over what the file has got meanwhile; of two texts the
\* file may have parts of both.
WriteTrace(a) ==
  /\ In(a, "write trace")
  /\ LET call == caller[a]
         stages == IF call.how = "trace" THEN call.stages ELSE BasicStages(call.elapsed, clock)
         doc == Doc(call.hash, call.statuses[Len(call.statuses)], stages, clock)
     IN  /\ \E docs \in {{doc}, {doc} \cup trace[call.hash]} : trace' = [trace EXCEPT ![call.hash] = docs]
         /\ caller' = [caller EXCEPT ![a] = Ended(call, IF call.raise = "" THEN "returned" ELSE "raised")]
  /\ UNCHANGED <<exec, disk, faults, appended, rotated, overlap>>

TraceRaises(a) ==
  /\ In(a, "open trace") /\ faults < MaxFaults
  /\ faults' = faults + 1
  /\ caller' = [caller EXCEPT ![a] = Interrupted(@, Error("OSError", {}))]
  /\ UNCHANGED <<exec, disk, trace, appended, rotated, overlap>>

----------------------------------------------------------------------------
(* The command line, and the end of a process *)

\* cli.py, cmd_query 68-71: the result is written out.
CliReturns(a) ==
  /\ In(a, "execute") /\ caller[a].how = "query" /\ At(a, "done")
  /\ caller' = [caller EXCEPT ![a] = Moved(Ended(@, "returned"), "returned", [exit |-> 0])]
  /\ job' = [job EXCEPT ![a] = NoJob]
  /\ UNCHANGED <<memory, clock, disk, trace, faults, appended, rotated, overlap>>

\* cli.py, main: a ParseError is caught, other exceptions end the process.
ExitOf(class) == IF class = "ParseError" THEN 2 ELSE 1

CliRaises(a) ==
  /\ In(a, "execute") /\ caller[a].how = "query" /\ At(a, "failed")
  /\ LET class == job[a].error.class
     IN  caller' = [caller EXCEPT ![a] =
           Moved(Ended([@ EXCEPT !.raise = class], "raised"), "raised", [exit |-> ExitOf(class)])]
  /\ job' = [job EXCEPT ![a] = NoJob]
  /\ UNCHANGED <<memory, clock, disk, trace, faults, appended, rotated, overlap>>

Crash(a) ==
  /\ caller[a].at \notin Finished \cup {"idle", "crashed"} /\ faults < MaxFaults
  /\ faults' = faults + 1
  /\ caller' = [caller EXCEPT ![a] = [at |-> "crashed", hash |-> @.hash]]
  /\ job' = [job EXCEPT ![a] = NoJob]
  /\ UNCHANGED <<memory, clock, disk, trace, appended, rotated, overlap>>

----------------------------------------------------------------------------

Init ==
  /\ ExecInit
  /\ caller = [a \in Actors |-> Idle]
  /\ disk = [live |-> NoFile, tmp |-> NoFile, data |-> [i \in 1..(Cardinality(Actors) + 2) |-> << >>]]
  /\ trace = [hash \in DOMAIN Queries |-> {}]
  /\ faults = 0 /\ appended = << >> /\ rotated = 0 /\ overlap = FALSE

\* load_memory, as this process has it.
LoadMemory(a) ==
  /\ \/ BeginLoad(a)
     \/ \E error \in LoadErrors : LoadRaises(a, error)
     \/ LoadEnds(a) /\ Loaded(a, job[a].records)
  /\ UNCHANGED <<memory, clock>>

Executing(a) ==
  /\ ExecStep(a) \/ LoadMemory(a)
  /\ UNCHANGED <<caller, disk, trace, faults, appended, rotated, overlap>>

Environment == ExecEnvironment /\ UNCHANGED <<caller, disk, trace, faults, appended, rotated, overlap>>

Calling(a) ==
  \E request \in Requests[a] : CallExecute(a, request) \/ CallRecord(a, request) \/ CallTrace(a, request)

Step(a) ==
  \/ Executing(a) \/ ExecuteReturned(a) \/ ExecuteRaised(a)
  \/ OpenLog(a) \/ AppendRow(a) \/ ReadRows(a) \/ OpenTmp(a) \/ WriteTmp(a)
  \/ ReplaceLog(a) \/ ReplaceRaises(a) \/ OpenTrace(a) \/ WriteTrace(a) \/ TraceRaises(a)
  \/ CliReturns(a) \/ CliRaises(a)

Next == Environment \/ \E a \in Actors : Calling(a) \/ Step(a) \/ Crash(a)

Spec == Init /\ [][Next]_vars

----------------------------------------------------------------------------
(* Properties *)

Log == IF disk.live = NoFile THEN << >> ELSE disk.data[disk.live]

\* The state of the files, of the calls and of the history variables; the
\* log and its .tmp are never one file.
TypeOK ==
  /\ disk.live \in {NoFile} \cup DOMAIN disk.data /\ disk.tmp \in {NoFile} \cup DOMAIN disk.data
  /\ disk.live = disk.tmp => disk.live = NoFile
  /\ faults \in 0..MaxFaults /\ rotated \in 0..Len(appended) /\ overlap \in BOOLEAN

\* As long as no two processes are at the log at once, whatever crashes and
\* fails, the log is what a bounded log is: the newest rows up to the last
\* rotation, and all of the rows since (_enforce_bounded_history).
NewestKept ==
  ~overlap => Log = LastOf(appended, Min({Kept, rotated}) + Len(appended) - rotated)

\* In every interleaving the log holds max_entries rows, and those of calls
\* that have not rotated it yet or never will.
HistoryBounded ==
  Len(Log) <= Kept + faults + Cardinality({a \in Actors : AtLog(a)})

\* What a call of run_query_with_history leaves in the log agrees with how it
\* ends: one "ok" if it returns, "rejected" exactly for a text the parser does
\* not accept (never for a load that raised), and an "ok" that is followed by
\* an exception only where another process or a failed write broke the
\* recording.  The exit code of the
\* command line agrees with the exception.
OutcomeRecorded ==
  \A a \in Actors : caller[a].at \in Finished =>
    LET call == caller[a]
        accepted == Accepted(Queries[call.hash])
    IN  /\ call.how = "history" =>
             /\ call.at = "returned" => call.statuses = <<"ok">> /\ accepted
             /\ call.at = "raised" => call.statuses \in {<<"rejected">>, <<"error">>, <<"ok", "error">>}
             /\ ~accepted <=> "rejected" \in {call.statuses[i] : i \in DOMAIN call.statuses}
             /\ ~overlap /\ faults = 0 /\ call.at = "raised" =>
                  Len(call.statuses) = 1 /\ call.raise \in {"ParseError", "UnicodeDecodeError"} \cup OsClasses
        /\ "exit" \in DOMAIN call =>
             /\ call.exit = 0 <=> call.at = "returned"
             /\ call.exit = 2 <=> ~accepted

\* The trace of a call that is over, of a query no other process runs: it is
\* there if the call returned, it never says "ok" of a query that raised, and
\* its five stages are in order, each from the end of the one before (that is
\* for callers who give stages like that) and none ends before it begins.
TraceTellsOutcome ==
  \A a \in Actors :
    caller[a].at \in Finished /\ caller[a].how \in {"history", "trace"}
      /\ (\A b \in Actors \ {a} : caller[b].at = "idle" \/ caller[b].hash # caller[a].hash) =>
    LET call == caller[a]
    IN  /\ call.at = "returned" => Cardinality(trace[call.hash]) = 1
        /\ \A doc \in trace[call.hash] :
             /\ doc.status = call.statuses[Len(call.statuses)]
             /\ call.how = "history" => (doc.status = "ok" <=> call.at = "returned")
             /\ [i \in DOMAIN doc.stages |-> doc.stages[i].name] = StageNames
             /\ \A i \in DOMAIN doc.stages :
                  /\ doc.stages[i].from <= doc.stages[i].to
                  /\ call.how = "history" /\ i > 1 => doc.stages[i].from = doc.stages[i - 1].to

\* Every row that is ever appended is bounded metadata, whatever its caller
\* gave as extras (sanitize_for_log, and the count of record_query_history).
RowsAreBounded ==
  \A i \in DOMAIN appended : appended[i].extras \in Small[MaxDepth + 2] /\ appended[i].count >= 0
=============================================================================
