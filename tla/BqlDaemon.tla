----------------------------- MODULE BqlDaemon ------------------------------
(***************************************************************************)
(* bql_daemon.py and bql_daemon_client.py: a server that answers each      *)
(* connection in a thread of its own.  An actor is a client with the       *)
(* thread that answers its connection.  The executor's load_memory is      *)
(* replaced by cached_load_memory, which holds the lock while it loads;    *)
(* the counters are counted under the lock and read without it.            *)
(***************************************************************************)
EXTENDS BqlExecutor

CONSTANTS
  Requests,    \* for a client: the connections it may make
  MaxCalls     \* bound: for a client, how many it makes

ASSUME BqlDaemonAssumption ==
  /\ MaxCalls \in [Actors -> Nat]
  /\ IsFiniteSet(Actors) /\ IsFiniteSet(Roots)
  /\ \A a \in Actors : \A request \in Requests[a] :
       request.local /\ request.cmd = "query" => request.root \in Roots

VARIABLES
  server,     \* "serving", "stopping" after a shutdown request, "exited"
  lock,       \* _LOCK: the actors that hold it
  cache,      \* _CACHE: for a root the snapshots kept, at most one
  stats,      \* _STATS
  handler,    \* for an actor: its thread
  client,     \* for an actor: its client
  raised      \* history: the loads that raised, each with its thread

daemon == <<server, lock, cache, stats, handler, client, raised>>

vars == <<exec, daemon>>

NoThread == [at |-> "none"]

Cached == {root \in Roots : cache[root] # {}}

InThread(a, stage) == handler[a].at = stage

----------------------------------------------------------------------------
(* bql_daemon_client.py *)

\* send_request: it connects and sends; with no server that raises.
Send(a, request) ==
  /\ client[a].at \in {"idle", "answered"} /\ client[a].calls < MaxCalls[a]
  /\ client' = [client EXCEPT ![a] =
       [at |-> IF server = "exited" THEN "failed" ELSE "waiting", calls |-> @.calls + 1, request |-> request]]
  /\ UNCHANGED <<exec, server, lock, cache, stats, handler, raised>>

\* main: the exit code.
ExitCode(answer) == IF answer.ok THEN 0 ELSE 3

\* The client has timeout; its connection is closed.
TimeOut(a) ==
  /\ client[a].at = "waiting"
  /\ client' = [client EXCEPT ![a].at = "failed"]
  /\ UNCHANGED <<exec, server, lock, cache, stats, handler, raised>>

\* The process on the other side is gone; json.loads of nothing raises.
SeeClosed(a) ==
  /\ client[a].at = "waiting" /\ server = "exited"
  /\ client' = [client EXCEPT ![a].at = "failed"]
  /\ UNCHANGED <<exec, server, lock, cache, stats, handler, raised>>

----------------------------------------------------------------------------
(* BQLDaemonHandler.handle *)

\* process_request of the server: a thread for the connection.
Accept(a) ==
  /\ server # "exited" /\ client[a].at = "waiting" /\ InThread(a, "none")
  /\ handler' = [handler EXCEPT ![a] = [at |-> "handle", request |-> client[a].request]]
  /\ UNCHANGED <<exec, server, lock, cache, stats, client, raised>>

\* handle 61-71, 95-108: the thread has what it answers.
Answering(a, answer) ==
  handler' = [handler EXCEPT ![a] = [at |-> "answer", answer |-> answer]]

Refusal(status) == [ok |-> FALSE, status |-> status]

\* handle 53-59, 63 and 76 that raise, and 96.
Refuse(a) ==
  /\ InThread(a, "handle")
  /\ LET request == handler[a].request
     IN  \/ /\ ~request.local
            /\ Answering(a, Refusal("BQL_DAEMON_REJECT_NON_LOCALHOST"))
         \/ /\ request.local
            /\ \/ request.cmd = "malformed"
               \/ request.cmd = "query" /\ request.max = "text"
            /\ Answering(a, Refusal("BQL_DAEMON_ERROR"))
         \/ /\ request.local /\ request.cmd \notin {"stats", "shutdown", "query", "malformed"}
            /\ Answering(a, Refusal("BQL_DAEMON_UNKNOWN_COMMAND"))
  /\ UNCHANGED <<exec, server, lock, cache, stats, client, raised>>

\* daemon_stats, under the lock.
Stats(a) ==
  /\ InThread(a, "handle") /\ handler[a].request.local /\ handler[a].request.cmd = "stats"
  /\ lock = {}
  /\ Answering(a, [ok |-> TRUE, status |-> "PASS_V03G4_DAEMON_STATS", keys |-> Cached, hits |-> stats.hits,
                   misses |-> stats.misses, queries |-> stats.queries])
  /\ UNCHANGED <<exec, server, lock, cache, stats, client, raised>>

\* handle 69-71: another thread stops the server.
Shutdown(a) ==
  /\ InThread(a, "handle") /\ handler[a].request.local /\ handler[a].request.cmd = "shutdown"
  /\ Answering(a, [ok |-> TRUE, status |-> "PASS_V03G4_DAEMON_SHUTDOWN_REQUESTED"])
  /\ server' = "stopping"
  /\ UNCHANGED <<exec, lock, cache, stats, client, raised>>

\* handle 74-82: the query is counted, and run_query_contract called.
CountQuery(a) ==
  /\ InThread(a, "handle")
  /\ LET request == handler[a].request
     IN  /\ request.local /\ request.cmd = "query" /\ request.max # "text"
         /\ lock = {}
         /\ stats' = [stats EXCEPT !.queries = @ + 1]
         /\ handler' = [handler EXCEPT ![a] = [at |-> "query", request |-> request]]
         /\ Start(a, request.query, request.root, request.limit)
  /\ UNCHANGED <<memory, clock, server, lock, cache, client, raised>>

\* A call of execute that is at the load of the memory: cached_load_memory.
CacheHit(a) ==
  /\ At(a, "load") /\ lock = {} /\ cache[job[a].root] # {}
  /\ stats' = [stats EXCEPT !.hits = @ + 1]
  /\ \E snap \in cache[job[a].root] : Loaded(a, snap)
  /\ UNCHANGED <<memory, clock, server, lock, cache, handler, client, raised>>

\* Mutant: the key is looked up before the lock is taken, so that the other
\* thread that missed it loads once more.
MissAnyway(a) ==
  /\ At(a, "load") /\ lock = {}
  /\ stats' = [stats EXCEPT !.misses = @ + 1]
  /\ lock' = {a}
  /\ BeginLoad(a)
  /\ UNCHANGED <<memory, clock, server, cache, handler, client, raised>>

\* cached_load_memory 27: the lock is held from here to the end of the load.
CacheMiss(a) ==
  /\ At(a, "load") /\ lock = {} /\ cache[job[a].root] = {}
  /\ stats' = [stats EXCEPT !.misses = @ + 1]
  /\ lock' = {a}
  /\ BeginLoad(a)
  /\ UNCHANGED <<memory, clock, server, cache, handler, client, raised>>

\* cached_load_memory 29-30.
KeepSnapshot(a) ==
  /\ LoadEnds(a)
  /\ cache' = [cache EXCEPT ![job[a].root] = {job[a].records}]
  /\ lock' = {}
  /\ Loaded(a, job[a].records)
  /\ UNCHANGED <<memory, clock, server, stats, handler, client, raised>>

\* Mutant: an exception leaves the lock locked.
RaiseLocked(a) ==
  /\ \E error \in LoadErrors :
       LoadRaises(a, error) /\ raised' = Append(raised, [by |-> a, error |-> error])
  /\ UNCHANGED <<lock, server, cache, stats, handler, client>>

\* The load raises within the with.
LoadFails(a) ==
  /\ \E error \in LoadErrors :
       LoadRaises(a, error) /\ raised' = Append(raised, [by |-> a, error |-> error])
  /\ lock' = {}
  /\ UNCHANGED <<server, cache, stats, handler, client>>

\* The other steps of execute.
Execute(a) == ExecStep(a) /\ UNCHANGED daemon

\* run_query_contract: the envelope.
Contract(a) ==
  /\ job[a].at \in {"done", "failed"}
  /\ handler' = [handler EXCEPT ![a] =
       [at |-> "counters", query |-> job[a].query, root |-> @.request.root,
        answer |-> IF At(a, "done") THEN OkEnvelope(job[a].results) ELSE ErrorEnvelope(job[a].error)]]
  /\ job' = [job EXCEPT ![a] = NoJob]
  /\ UNCHANGED <<memory, clock, server, lock, cache, stats, client, raised>>

\* Mutant: query_count is read first.
CountFirst == <<"queries", "keys", "hits", "misses">>

\* handle 84-92: the order in which the values of the answer are read.
CounterOrder == <<"keys", "hits", "misses", "queries">>

\* One of them, without the lock.
ReadCounter(a) ==
  /\ InThread(a, "counters")
  /\ LET answer == handler[a].answer
         name == CHOOSE n \in 1..4 : /\ CounterOrder[n] \notin DOMAIN answer
                                     /\ \A m \in 1..(n - 1) : CounterOrder[m] \in DOMAIN answer
         value == IF CounterOrder[name] = "keys" THEN Cached ELSE stats[CounterOrder[name]]
         now == [x \in DOMAIN answer \cup {CounterOrder[name]} |->
                   IF x = CounterOrder[name] THEN value ELSE answer[x]]
     IN  handler' = [handler EXCEPT ![a] =
                       [@ EXCEPT !.answer = now, !.at = IF name = 4 THEN "answer" ELSE "counters"]]
  /\ UNCHANGED <<exec, server, lock, cache, stats, client, raised>>

\* handle 108: the answer is written, to a client that waits for it or to no
\* one, and the thread ends.
Reply(a) ==
  /\ InThread(a, "answer")
  /\ client' = IF client[a].at # "waiting" THEN client
               ELSE [client EXCEPT ![a] = [at |-> "answered", calls |-> @.calls, request |-> @.request,
                                           answer |-> handler[a].answer, exit |-> ExitCode(handler[a].answer)]]
  /\ handler' = [handler EXCEPT ![a] = NoThread]
  /\ UNCHANGED <<exec, server, lock, cache, stats, raised>>

\* serve_forever returns, main ends, and the threads with it: they are daemons.
Exit ==
  /\ server = "stopping"
  /\ server' = "exited"
  /\ handler' = [a \in Actors |-> NoThread]
  /\ job' = [a \in Actors |-> NoJob]
  /\ lock' = {}
  /\ UNCHANGED <<memory, clock, cache, stats, client, raised>>

----------------------------------------------------------------------------

Init ==
  /\ ExecInit
  /\ server = "serving" /\ lock = {} /\ cache = [root \in Roots |-> {}]
  /\ stats = [hits |-> 0, misses |-> 0, queries |-> 0]
  /\ handler = [a \in Actors |-> NoThread]
  /\ client = [a \in Actors |-> [at |-> "idle", calls |-> 0]]
  /\ raised = << >>

Handle(a) ==
  \/ Refuse(a) \/ Stats(a) \/ Shutdown(a) \/ CountQuery(a)
  \/ CacheHit(a) \/ CacheMiss(a) \/ KeepSnapshot(a) \/ LoadFails(a)
  \/ Execute(a) \/ Contract(a) \/ ReadCounter(a) \/ Reply(a)

Client(a) == (\E request \in Requests[a] : Send(a, request)) \/ TimeOut(a)

Serve(a) == Accept(a) \/ Handle(a) \/ SeeClosed(a)

Environment == ExecEnvironment /\ UNCHANGED daemon

Next == Environment \/ Exit \/ \E a \in Actors : Client(a) \/ Serve(a)

Spec == Init /\ [][Next]_vars

\* The server accepts, threads are scheduled, a server that was stopped exits,
\* and a closed connection is seen to be.  Nobody has to time out.
Fairness ==
  /\ WF_vars(Exit)
  /\ \A a \in Actors : WF_vars(Serve(a))

FairSpec == Spec /\ Fairness

----------------------------------------------------------------------------
(* Properties *)

Answered(a) == client[a].at = "answered"

\* The lock is held by the one thread that loads, and by no thread otherwise;
\* a snapshot is kept once; a thread has a call of execute just while it is at
\* its query.
TypeOK ==
  /\ server \in {"serving", "stopping", "exited"}
  /\ lock = {a \in Actors : At(a, "read")}
  /\ Cardinality(lock) <= 1
  /\ \A root \in Roots : Cardinality(cache[root]) <= 1
  /\ \A a \in Actors : InThread(a, "query") <=> job[a] # NoJob

\* A root is loaded once, but for loads that raise and the one under way
\* (cached_load_memory, whatever the threads do at once).
LoadedOnce ==
  server # "exited" => stats.misses = Cardinality(Cached) + Len(raised) + Cardinality(lock)

\* The counters of an answer, read one after the other while other threads
\* count, can be told to be of one history: no more roots than misses, and
\* no more hits and misses than queries.
CountersConsistent ==
  \A a \in Actors : Answered(a) /\ "queries" \in DOMAIN client[a].answer =>
    LET answer == client[a].answer
    IN  /\ Cardinality(answer.keys) <= answer.misses
        /\ answer.hits + answer.misses <= answer.queries
        /\ answer.queries <= stats.queries

\* What the daemon keeps of a root never changes while it runs, though the
\* root does, and is never dropped: clients that ask the same get the same.
OneSnapshotPerRoot ==
  [][\A root \in Roots : cache[root] # {} => cache'[root] = cache[root]]_vars

\* What is said of a load that raised: a file that is not UTF-8 is an error of
\* execution, one without permission is reported as a breach of read-only
\* safety, one whose path speaks of timestamps as a faulty time filter.
LoadStatus(error) ==
  CASE "timestamp" \in error.says -> "BQL_TIME_FILTER_PARSE_ERROR"
    [] "timestamp" \notin error.says /\ error.class = "PermissionError" -> "BQL_READONLY_SAFETY_ERROR"
    [] "timestamp" \notin error.says /\ error.class = "UnicodeDecodeError" -> "BQL_EXECUTION_ERROR"
    [] OTHER -> "BQL_INTERNAL_ERROR"

\* The answer says what became of the query, and the exit code says it too: an
\* answer is ok exactly if the text is one that the parser accepts, unless a
\* load of the client's own thread raised, and then the status is that of what
\* it raised (cached_load_memory lets it through to run_query_contract); a
\* refused request names why.
AnswerTellsOutcome ==
  \A a \in Actors : Answered(a) /\ client[a].request.cmd = "query" =>
    LET request == client[a].request
        answer == client[a].answer
    IN  /\ client[a].exit = 0 <=> answer.ok
        /\ ~request.local => answer.status = "BQL_DAEMON_REJECT_NON_LOCALHOST"
        /\ request.local /\ request.max = "text" => answer.status = "BQL_DAEMON_ERROR"
        /\ request.local /\ request.max # "text" =>
             /\ answer.ok => Accepted(request.query) /\ answer.keys # {}
             /\ ~answer.ok /\ Accepted(request.query) =>
                  \E i \in DOMAIN raised : raised[i].by = a /\ answer.status = LoadStatus(raised[i].error)
             /\ ~Accepted(request.query) =>
                  answer.status \in {"BQL_PARSE_ERROR", "BQL_UNSAFE_TOKEN", "BQL_TOP_OUT_OF_BOUNDS",
                                     "BQL_RADIUS_OUT_OF_BOUNDS", "BQL_TIME_FILTER_PARSE_ERROR", "BQL_UNSUPPORTED_SYNTAX"}

\* Every client that waits gets an answer or sees its connection closed, even
\* if it never times out: no thread keeps the lock, whatever the load does.
EveryRequestEnds == \A a \in Actors : client[a].at = "waiting" ~> client[a].at # "waiting"
=============================================================================
