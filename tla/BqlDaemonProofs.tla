-------------------------- MODULE BqlDaemonProofs ---------------------------
(***************************************************************************)
(* The daemon keeps one snapshot of a root, loads it once, and gives       *)
(* counters that fit together, for any clients, roots, files and queries.  *)
(*                                                                         *)
(* The argument: a thread that loads holds the lock, no other thread loads *)
(* meanwhile, and its root is not in the cache.                            *)
(***************************************************************************)
EXTENDS BqlDaemon, TLAPS, FiniteSetTheorems

\* Stages of execute that come before the end of the load.
Early == {"parse", "load", "read"}

\* What the variables are, as far as the argument needs it.
ShapeOK ==
  /\ server \in {"serving", "stopping", "exited"}
  /\ DOMAIN job = Actors /\ DOMAIN handler = Actors /\ DOMAIN client = Actors
  /\ DOMAIN cache = Roots
  /\ stats \in [hits : Nat, misses : Nat, queries : Nat]
  /\ \A a \in Actors : "at" \in DOMAIN job[a] /\ "at" \in DOMAIN handler[a] /\ "at" \in DOMAIN client[a]

\* The root of a call is that of a request, which a client made.
RequestOK ==
  /\ \A a \in Actors : job[a].at \in Early => "root" \in DOMAIN job[a] /\ job[a].root \in Roots
  /\ \A a \in Actors : handler[a].at = "handle" => handler[a].request \in Requests[a]
  /\ \A a \in Actors : client[a].at = "waiting" => client[a].request \in Requests[a]

\* A thread has a call of execute just while it is at its query, and none is
\* left when the server has exited.
ThreadOK ==
  /\ \A a \in Actors : InThread(a, "query") <=> job[a] # NoJob
  /\ server = "exited" => \A a \in Actors : InThread(a, "none")

\* A thread that loads holds the lock, alone, and its root is not in the cache.
LockOK ==
  /\ lock = {a \in Actors : At(a, "read")}
  /\ \A a, b \in lock : a = b
  /\ \A a \in lock : cache[job[a].root] = {}
  /\ \A root \in Roots : cache[root] = {} \/ \E snap : cache[root] = {snap}

RaisedOK == raised \in Seq([by : Actors, error : LoadErrors])

DaemonInv == ShapeOK /\ RequestOK /\ ThreadOK /\ LockOK /\ RaisedOK

----------------------------------------------------------------------------

LEMMA DaemonInit == Init => DaemonInv
BY DEF Init, ExecInit, DaemonInv, ShapeOK, RequestOK, ThreadOK, LockOK, RaisedOK, NoJob, NoThread, Early,
       InThread, At

\* The steps of execute that do not touch the lock: what a call does to its
\* stage and its root.
LEMMA ExecStepJob ==
  ASSUME DaemonInv, NEW a \in Actors, ExecStep(a)
  PROVE  /\ DOMAIN job' = Actors
         /\ \A b \in Actors \ {a} : job'[b] = job[b]
         /\ "at" \in DOMAIN job'[a] /\ job[a].at # "none" /\ job'[a].at # "none"
         /\ job'[a].at = "read" <=> job[a].at = "read"
         /\ job'[a].at \in Early => job[a].at \in Early /\ "root" \in DOMAIN job'[a] /\ job'[a].root = job[a].root
         /\ job'[a].at \in {"parse", "load"} => job[a].at \in {"parse", "load"}
<1> USE DEF DaemonInv, ShapeOK, RequestOK, Early, At
<1>1. CASE ParseQuery(a)
  BY <1>1 DEF ParseQuery
<1>2. CASE RejectQuery(a)
  BY <1>2 DEF RejectQuery, Fail
<1>3. CASE LoadFile(a)
  BY <1>3 DEF LoadFile
<1>4. CASE Lookup(a)
  BY <1>4 DEF Lookup, Filtering
<1>5. CASE LookupRaises(a)
  BY <1>5 DEF LookupRaises, Filtering
<1>6. CASE FilterRow(a)
  BY <1>6 DEF FilterRow
<1>7. CASE Answer(a)
  BY <1>7 DEF Answer
<1>8. QED
  BY <1>1, <1>2, <1>3, <1>4, <1>5, <1>6, <1>7 DEF ExecStep

\* A load that raises is added to those that have.
LEMMA RaisedNext ==
  ASSUME DaemonInv, [Next]_vars
  PROVE  RaisedOK'
<1>1. CASE raised' = raised
  BY <1>1 DEF DaemonInv, RaisedOK
<1>2. ASSUME NEW a \in Actors, LoadFails(a)
      PROVE  RaisedOK'
  <2>1. PICK error \in LoadErrors : raised' = Append(raised, [by |-> a, error |-> error])
    BY <1>2 DEF LoadFails
  <2>2. [by |-> a, error |-> error] \in [by : Actors, error : LoadErrors]
    OBVIOUS
  <2>3. QED
    BY <2>1, <2>2 DEF DaemonInv, RaisedOK
<1>3. raised' = raised \/ \E a \in Actors : LoadFails(a)
  BY DEF Next, vars, Environment, Exit, Client, Send, TimeOut, Serve, Accept, SeeClosed, Handle,
     Refuse, Stats, Shutdown, CountQuery, CacheHit, CacheMiss, KeepSnapshot, Execute, Contract,
     ReadCounter, Reply, daemon
<1>4. QED
  BY <1>1, <1>2, <1>3

LEMMA DaemonNext == DaemonInv /\ [Next]_vars => DaemonInv'
<1> SUFFICES ASSUME DaemonInv, [Next]_vars
             PROVE  DaemonInv'
  OBVIOUS
<1>r. RaisedOK'
  BY RaisedNext
<1> USE DEF DaemonInv, ShapeOK, RequestOK, ThreadOK, LockOK, Early, At, InThread, NoJob, NoThread
<1>1. CASE Environment
  BY <1>1, <1>r DEF Environment, ExecEnvironment, CreateRoot, AppendLine, Tick, daemon
<1>2. CASE UNCHANGED vars
  BY <1>2, <1>r DEF vars, exec, daemon
<1>3. CASE Exit
  BY <1>3, <1>r DEF Exit
<1>4. ASSUME NEW a \in Actors, Client(a)
      PROVE  DaemonInv'
  <2>1. CASE \E request \in Requests[a] : Send(a, request)
    <3>1. ShapeOK'
      BY <2>1 DEF Send, exec
    <3>2. RequestOK'
      BY <2>1 DEF Send, exec
    <3>3. ThreadOK'
      BY <2>1 DEF Send, exec
    <3>4. LockOK'
      <4>1. UNCHANGED <<lock, cache, job>>
        BY <2>1 DEF Send, exec
      <4>2. QED
        BY <4>1
    <3>5. QED
      BY <1>r, <3>1, <3>2, <3>3, <3>4 DEF DaemonInv
  <2>2. CASE TimeOut(a)
    <3>1. ShapeOK'
      BY <2>2 DEF TimeOut, exec
    <3>2. RequestOK'
      BY <2>2 DEF TimeOut, exec
    <3>3. ThreadOK'
      BY <2>2 DEF TimeOut, exec
    <3>4. LockOK'
      BY <2>2 DEF TimeOut, exec
    <3>5. QED
      BY <1>r, <3>1, <3>2, <3>3, <3>4 DEF DaemonInv
  <2>3. QED
    BY <1>4, <2>1, <2>2 DEF Client
<1>5. ASSUME NEW a \in Actors, Serve(a)
      PROVE  DaemonInv'
  <2>1. CASE Accept(a)
    <3>1. ShapeOK'
      BY <2>1 DEF Accept, exec
    <3>2. RequestOK'
      BY <2>1 DEF Accept, exec
    <3>3. ThreadOK'
      BY <2>1 DEF Accept, exec
    <3>4. LockOK'
      BY <2>1 DEF Accept, exec
    <3>5. QED
      BY <1>r, <3>1, <3>2, <3>3, <3>4 DEF DaemonInv
  <2>2. CASE SeeClosed(a)
    <3>1. ShapeOK'
      BY <2>2 DEF SeeClosed, exec
    <3>2. RequestOK'
      BY <2>2 DEF SeeClosed, exec
    <3>3. ThreadOK'
      BY <2>2 DEF SeeClosed, exec
    <3>4. LockOK'
      BY <2>2 DEF SeeClosed, exec
    <3>5. QED
      BY <1>r, <3>1, <3>2, <3>3, <3>4 DEF DaemonInv
  <2>3. CASE Refuse(a)
    <3>1. ShapeOK'
      BY <2>3 DEF Refuse, Answering, Refusal, exec
    <3>2. RequestOK'
      BY <2>3 DEF Refuse, Answering, Refusal, exec
    <3>3. ThreadOK'
      BY <2>3 DEF Refuse, Answering, Refusal, exec
    <3>4. LockOK'
      BY <2>3 DEF Refuse, Answering, Refusal, exec
    <3>5. QED
      BY <1>r, <3>1, <3>2, <3>3, <3>4 DEF DaemonInv
  <2>4. CASE Stats(a)
    <3>1. ShapeOK'
      BY <2>4 DEF Stats, Answering, exec
    <3>2. RequestOK'
      BY <2>4 DEF Stats, Answering, exec
    <3>3. ThreadOK'
      BY <2>4 DEF Stats, Answering, exec
    <3>4. LockOK'
      BY <2>4 DEF Stats, Answering, exec
    <3>5. QED
      BY <1>r, <3>1, <3>2, <3>3, <3>4 DEF DaemonInv
  <2>5. CASE Shutdown(a)
    <3>1. ShapeOK'
      BY <2>5 DEF Shutdown, Answering, exec
    <3>2. RequestOK'
      BY <2>5 DEF Shutdown, Answering, exec
    <3>3. ThreadOK'
      BY <2>5 DEF Shutdown, Answering, exec
    <3>4. LockOK'
      BY <2>5 DEF Shutdown, Answering, exec
    <3>5. QED
      BY <1>r, <3>1, <3>2, <3>3, <3>4 DEF DaemonInv
  <2>6. CASE CountQuery(a)
    <3>1. ShapeOK'
      BY <2>6, BqlDaemonAssumption DEF CountQuery, Start
    <3>2. RequestOK'
      BY <2>6, BqlDaemonAssumption DEF CountQuery, Start
    <3>3. ThreadOK'
      BY <2>6, BqlDaemonAssumption DEF CountQuery, Start
    <3>4. LockOK'
      BY <2>6, BqlDaemonAssumption DEF CountQuery, Start
    <3>5. QED
      BY <1>r, <3>1, <3>2, <3>3, <3>4 DEF DaemonInv
  <2>7. CASE CacheHit(a)
    <3>1. ShapeOK'
      BY <2>7 DEF CacheHit, Loaded, Filtering
    <3>2. RequestOK'
      BY <2>7 DEF CacheHit, Loaded, Filtering
    <3>3. ThreadOK'
      BY <2>7 DEF CacheHit, Loaded, Filtering
    <3>4. LockOK'
      <4>1. \A b \in Actors : job'[b].at # "read"
        BY <2>7 DEF CacheHit, Loaded, Filtering
      <4>2. lock' = {} /\ \A root \in Roots : cache'[root] = {} \/ \E snap : cache'[root] = {snap}
        BY <2>7 DEF CacheHit
      <4>3. QED
        BY <4>1, <4>2
    <3>5. QED
      BY <1>r, <3>1, <3>2, <3>3, <3>4 DEF DaemonInv
  <2>8. CASE CacheMiss(a)
    <3>1. ShapeOK'
      BY <2>8 DEF CacheMiss, BeginLoad
    <3>2. RequestOK'
      BY <2>8 DEF CacheMiss, BeginLoad
    <3>3. ThreadOK'
      BY <2>8 DEF CacheMiss, BeginLoad
    <3>4. LockOK'
      <4>1. \A b \in Actors : job'[b].at = "read" <=> b = a
        BY <2>8 DEF CacheMiss, BeginLoad
      <4>2. lock' = {a} /\ cache' = cache /\ cache[job'[a].root] = {}
        BY <2>8 DEF CacheMiss, BeginLoad
      <4>3. lock' = {b \in Actors : job'[b].at = "read"}
        BY <4>1, <4>2
      <4>4. \A b, c \in lock' : b = c
        BY <4>1, <4>2, <4>3
      <4>5. \A b \in lock' : cache'[job'[b].root] = {}
        BY <4>1, <4>2, <4>3
      <4>6. \A root \in Roots : cache'[root] = {} \/ \E snap : cache'[root] = {snap}
        BY <4>1, <4>2
      <4>7. QED
        BY <4>3, <4>4, <4>5, <4>6
    <3>5. QED
      BY <1>r, <3>1, <3>2, <3>3, <3>4 DEF DaemonInv
  <2>9. CASE KeepSnapshot(a)
    <3>1. ShapeOK'
      BY <2>9 DEF KeepSnapshot, LoadEnds, Loaded, Filtering
    <3>2. RequestOK'
      BY <2>9 DEF KeepSnapshot, LoadEnds, Loaded, Filtering
    <3>3. ThreadOK'
      BY <2>9 DEF KeepSnapshot, LoadEnds, Loaded, Filtering
    <3>4. LockOK'
      <4>1. \A b \in Actors : job'[b].at # "read"
        BY <2>9 DEF KeepSnapshot, LoadEnds, Loaded, Filtering
      <4>2. lock' = {} /\ \A root \in Roots : cache'[root] = {} \/ \E snap : cache'[root] = {snap}
        BY <2>9 DEF KeepSnapshot
      <4>3. QED
        BY <4>1, <4>2
    <3>5. QED
      BY <1>r, <3>1, <3>2, <3>3, <3>4 DEF DaemonInv
  <2>10. CASE LoadFails(a)
    <3>1. ShapeOK'
      BY <2>10 DEF LoadFails, LoadRaises, Fail
    <3>2. RequestOK'
      BY <2>10 DEF LoadFails, LoadRaises, Fail
    <3>3. ThreadOK'
      BY <2>10 DEF LoadFails, LoadRaises, Fail
    <3>4. LockOK'
      <4>1. \A b \in Actors : job'[b].at # "read"
        BY <2>10 DEF LoadFails, LoadRaises, Fail
      <4>2. lock' = {} /\ \A root \in Roots : cache'[root] = {} \/ \E snap : cache'[root] = {snap}
        BY <2>10 DEF LoadFails
      <4>3. QED
        BY <4>1, <4>2
    <3>5. QED
      BY <1>r, <3>1, <3>2, <3>3, <3>4 DEF DaemonInv
  <2>11. CASE Execute(a)
    <3>1. ShapeOK'
      BY <2>11, ExecStepJob DEF Execute, daemon
    <3>2. RequestOK'
      BY <2>11, ExecStepJob DEF Execute, daemon
    <3>3. ThreadOK'
      <4>1. UNCHANGED <<handler, server>>
        BY <2>11 DEF Execute, daemon
      <4>2. /\ \A b \in Actors \ {a} : job'[b] = job[b]
            /\ job[a].at # "none" /\ job'[a].at # "none"
        BY <2>11, ExecStepJob DEF Execute
      <4>3. \A b \in Actors : job'[b] = NoJob <=> job[b] = NoJob
        BY <4>2
      <4>4. QED
        BY <4>1, <4>3
    <3>4. LockOK'
      <4>1. UNCHANGED <<lock, cache>>
        BY <2>11 DEF Execute, daemon
      <4>2. \A b \in Actors : /\ job'[b].at = "read" <=> job[b].at = "read"
                              /\ job'[b].at = "read" => job'[b].root = job[b].root
        BY <2>11, ExecStepJob DEF Execute
      <4>3. lock' = {b \in Actors : job'[b].at = "read"}
        BY <4>1, <4>2
      <4>4. \A b, c \in lock' : b = c
        BY <4>1, <4>2, <4>3
      <4>5. \A b \in lock' : cache'[job'[b].root] = {}
        BY <4>1, <4>2, <4>3
      <4>6. \A root \in Roots : cache'[root] = {} \/ \E snap : cache'[root] = {snap}
        BY <4>1, <4>2
      <4>7. QED
        BY <4>3, <4>4, <4>5, <4>6
    <3>5. QED
      BY <1>r, <3>1, <3>2, <3>3, <3>4 DEF DaemonInv
  <2>12. CASE Contract(a)
    <3>1. ShapeOK'
      BY <2>12 DEF Contract
    <3>2. RequestOK'
      BY <2>12 DEF Contract
    <3>3. ThreadOK'
      BY <2>12 DEF Contract
    <3>4. LockOK'
      BY <2>12 DEF Contract
    <3>5. QED
      BY <1>r, <3>1, <3>2, <3>3, <3>4 DEF DaemonInv
  <2>13. CASE ReadCounter(a)
    <3>1. ShapeOK'
      BY <2>13 DEF ReadCounter, exec
    <3>2. RequestOK'
      BY <2>13 DEF ReadCounter, exec
    <3>3. ThreadOK'
      BY <2>13 DEF ReadCounter, exec
    <3>4. LockOK'
      BY <2>13 DEF ReadCounter, exec
    <3>5. QED
      BY <1>r, <3>1, <3>2, <3>3, <3>4 DEF DaemonInv
  <2>14. CASE Reply(a)
    <3>1. ShapeOK'
      BY <2>14 DEF Reply, exec
    <3>2. RequestOK'
      BY <2>14 DEF Reply, exec
    <3>3. ThreadOK'
      BY <2>14 DEF Reply, exec
    <3>4. LockOK'
      BY <2>14 DEF Reply, exec
    <3>5. QED
      BY <1>r, <3>1, <3>2, <3>3, <3>4 DEF DaemonInv
  <2>15. QED
    BY <1>5, <2>1, <2>2, <2>3, <2>4, <2>5, <2>6, <2>7, <2>8, <2>9, <2>10, <2>11, <2>12, <2>13, <2>14 DEF Serve, Handle
<1>6. QED
  BY <1>1, <1>2, <1>3, <1>4, <1>5 DEF Next

LEMMA DaemonInvariant == Spec => []DaemonInv
BY DaemonInit, DaemonNext, PTL DEF Spec

----------------------------------------------------------------------------

\* A set without two different elements.
LEMMA AtMostOne ==
  ASSUME NEW S, S = {} \/ \E x : S = {x}
  PROVE  IsFiniteSet(S) /\ Cardinality(S) \in Nat /\ Cardinality(S) <= 1
<1>1. CASE S = {}
  BY <1>1, FS_EmptySet
<1>2. CASE \E x : S = {x}
  <2>1. PICK x : S = {x}
    BY <1>2
  <2>2. IsFiniteSet({x}) /\ Cardinality({x}) = 1
    BY FS_Singleton
  <2>3. QED
    BY ONLY <2>1, <2>2
<1>3. QED
  BY <1>1, <1>2

(* The lock is held by the one thread that loads, and a snapshot is kept once,
   for any number of threads and roots. *)
THEOREM DaemonTypeOK == Spec => []TypeOK
<1>1. DaemonInv => TypeOK
  <2> SUFFICES ASSUME DaemonInv
               PROVE  TypeOK
    OBVIOUS
  <2> USE DEF DaemonInv, ShapeOK, ThreadOK, LockOK
  <2>1. Cardinality(lock) <= 1
    <3>1. lock = {} \/ \E x : lock = {x}
      BY DEF LockOK
    <3>2. QED
      BY ONLY <3>1, AtMostOne
  <2>2. ASSUME NEW root \in Roots
        PROVE  Cardinality(cache[root]) <= 1
    <3>1. cache[root] = {} \/ \E x : cache[root] = {x}
      OBVIOUS
    <3>2. QED
      BY ONLY <3>1, AtMostOne
  <2>3. QED
    BY <2>1, <2>2 DEF TypeOK
<1>2. QED
  BY <1>1, DaemonInvariant, PTL

(* What the daemon keeps of a root never changes, whatever the threads do at
   once: the thread that stores a snapshot is the one that found none, under
   the lock that it still holds. *)
THEOREM CacheIsStable == Spec => OneSnapshotPerRoot
<1> DEFINE Kept == \A root \in Roots : cache[root] # {} => cache'[root] = cache[root]
<1>1. DaemonInv /\ [Next]_vars => [Kept]_vars
  <2> SUFFICES ASSUME DaemonInv, Next
               PROVE  Kept
    BY DEF vars
  <2>1. CASE UNCHANGED cache
    BY <2>1
  <2>2. ASSUME NEW a \in Actors, KeepSnapshot(a)
        PROVE  Kept
    <3>1. a \in lock /\ cache[job[a].root] = {}
      BY <2>2 DEF KeepSnapshot, LoadEnds, DaemonInv, LockOK
    <3>2. cache' = [cache EXCEPT ![job[a].root] = {job[a].records}]
      BY <2>2 DEF KeepSnapshot
    <3>3. QED
      BY <3>1, <3>2 DEF DaemonInv, ShapeOK
  <2>3. QED
    BY <2>1, <2>2 DEF Next, Environment, Exit, Client, Send, TimeOut, Serve, Accept, SeeClosed, Handle,
       Refuse, Stats, Shutdown, CountQuery, CacheHit, CacheMiss, LoadFails, Execute, Contract,
       ReadCounter, Reply, daemon
<1>2. QED
  BY <1>1, DaemonInvariant, PTL DEF Spec, OneSnapshotPerRoot

----------------------------------------------------------------------------

\* The calls that have been counted as queries and not yet as hits or misses.
Pending == {a \in Actors : job[a].at \in {"parse", "load"}}

\* Each query is counted before it is counted as a hit or a miss, and each
\* root in the cache was missed.
CountsOK ==
  /\ LoadedOnce
  /\ Cardinality(Cached) <= stats.misses
  /\ stats.hits + stats.misses + Cardinality(Pending) <= stats.queries

CountsInv == DaemonInv /\ CountsOK

LEMMA FiniteSets ==
  ASSUME DaemonInv
  PROVE  /\ IsFiniteSet(Pending) /\ Cardinality(Pending) \in Nat
         /\ IsFiniteSet(Cached) /\ Cardinality(Cached) \in Nat
         /\ IsFiniteSet(lock) /\ Cardinality(lock) \in Nat
<1>1. Pending \in SUBSET Actors /\ Cached \in SUBSET Roots /\ lock \in SUBSET Actors
  BY DEF Pending, Cached, DaemonInv, LockOK
<1>2. IsFiniteSet(Pending) /\ IsFiniteSet(Cached) /\ IsFiniteSet(lock)
  BY <1>1, BqlDaemonAssumption, FS_Subset
<1>3. QED
  BY <1>2, FS_CardinalityType

LEMMA CountsInit == Init => CountsInv
<1> SUFFICES ASSUME Init
             PROVE  CountsInv
  OBVIOUS
<1>1. Cached = {} /\ Pending = {} /\ lock = {}
  BY DEF Init, ExecInit, Cached, Pending, NoJob
<1>2. Cardinality({}) = 0
  BY FS_EmptySet
<1>3. QED
  BY <1>1, <1>2, DaemonInit DEF CountsInv, CountsOK, LoadedOnce, Init

\* A step that leaves the counters and the cache, and begins no call.
LEMMA CountsKept ==
  ASSUME CountsInv, DaemonInv', UNCHANGED <<server, lock, cache, stats, raised>>, Pending' \subseteq Pending
  PROVE  CountsOK'
<1>1. Cardinality(Pending') <= Cardinality(Pending) /\ Cardinality(Pending') \in Nat
  BY FiniteSets, FS_Subset, FS_CardinalityType DEF CountsInv
<1>2. Cached' = Cached
  BY DEF Cached
<1>3. QED
  BY <1>1, <1>2, FiniteSets DEF CountsInv, CountsOK, LoadedOnce, DaemonInv, ShapeOK, RaisedOK

LEMMA CountsNext == CountsInv /\ DaemonInv' /\ [Next]_vars => CountsOK'
<1> SUFFICES ASSUME CountsInv, DaemonInv', [Next]_vars
             PROVE  CountsOK'
  OBVIOUS
<1>s. DaemonInv /\ CountsOK
  BY DEF CountsInv
<1>f. /\ IsFiniteSet(Pending) /\ Cardinality(Pending) \in Nat
      /\ IsFiniteSet(Cached) /\ Cardinality(Cached) \in Nat
      /\ IsFiniteSet(lock) /\ Cardinality(lock) \in Nat
  BY <1>s, FiniteSets
<1>e. Cardinality({}) = 0 /\ \A x : Cardinality({x}) = 1
  BY FS_EmptySet, FS_Singleton
<1>1. CASE Environment \/ UNCHANGED vars
  <2>1. UNCHANGED <<server, lock, cache, stats, raised>> /\ job' = job
    BY <1>1 DEF Environment, ExecEnvironment, CreateRoot, AppendLine, Tick, daemon, vars, exec
  <2>2. QED
    BY <2>1, CountsKept DEF Pending
<1>2. CASE Exit
  <2>1. Pending' = {} /\ Cached' = Cached /\ stats' = stats /\ server' = "exited"
    BY <1>2 DEF Exit, Pending, Cached, NoJob
  <2>2. QED
    BY ONLY <2>1, <1>s, <1>f, <1>e DEF CountsOK, LoadedOnce, DaemonInv, ShapeOK, RaisedOK
<1>3. ASSUME NEW a \in Actors, Client(a)
      PROVE  CountsOK'
  <2>1. UNCHANGED <<server, lock, cache, stats, raised>> /\ job' = job
    BY <1>3 DEF Client, Send, TimeOut, exec
  <2>2. QED
    BY <2>1, CountsKept DEF Pending
<1>4. ASSUME NEW a \in Actors, Serve(a)
      PROVE  CountsOK'
  <2>1. CASE Accept(a) \/ SeeClosed(a) \/ Refuse(a) \/ Stats(a) \/ ReadCounter(a) \/ Reply(a)
    <3>1. UNCHANGED <<server, lock, cache, stats, raised>> /\ job' = job
      BY <2>1 DEF Accept, SeeClosed, Refuse, Stats, ReadCounter, Reply, exec
    <3>2. QED
      BY <3>1, CountsKept DEF Pending
  <2>2. CASE Shutdown(a)
    <3>1. server # "exited"
      BY <1>s, <2>2 DEF Shutdown, DaemonInv, ThreadOK, InThread
    <3>2. UNCHANGED <<lock, cache, stats, raised, job>>
      BY <2>2 DEF Shutdown, exec
    <3>3. Cached' = Cached /\ Pending' = Pending
      BY <3>2 DEF Cached, Pending
    <3>4. QED
      BY <3>1, <3>2, <3>3, <1>s DEF CountsOK, LoadedOnce
  <2>3. CASE CountQuery(a)
    <3>1. /\ a \notin Pending /\ Pending' = Pending \cup {a} /\ UNCHANGED <<server, lock, cache, raised>>
          /\ stats' = [stats EXCEPT !.queries = @ + 1]
      BY <1>s, <2>3 DEF CountQuery, Start, Pending, DaemonInv, ShapeOK, RaisedOK, ThreadOK, InThread, NoJob
    <3>2. Cardinality(Pending') = Cardinality(Pending) + 1
      BY <3>1, <1>f, FS_AddElement
    <3>3. Cached' = Cached
      BY <3>1 DEF Cached
    <3>4. QED
      BY ONLY <3>1, <3>2, <3>3, <1>s, <1>f DEF CountsOK, LoadedOnce, DaemonInv, ShapeOK, RaisedOK
  <2>4. CASE CacheHit(a)
    <3>1. /\ a \in Pending /\ Pending' = Pending \ {a} /\ UNCHANGED <<server, lock, cache, raised>>
          /\ stats' = [stats EXCEPT !.hits = @ + 1]
      BY <1>s, <2>4 DEF CacheHit, Loaded, Filtering, Pending, DaemonInv, ShapeOK, RaisedOK, At
    <3>2. Cardinality(Pending') = Cardinality(Pending) - 1
      BY <3>1, <1>f, FS_RemoveElement
    <3>3. Cached' = Cached
      BY <3>1 DEF Cached
    <3>4. QED
      BY ONLY <3>1, <3>2, <3>3, <1>s, <1>f DEF CountsOK, LoadedOnce, DaemonInv, ShapeOK, RaisedOK
  <2>5. CASE CacheMiss(a)
    <3>1. /\ a \in Pending /\ Pending' = Pending \ {a} /\ UNCHANGED <<server, cache, raised>>
          /\ stats' = [stats EXCEPT !.misses = @ + 1] /\ lock = {} /\ lock' = {a}
      BY <1>s, <2>5 DEF CacheMiss, BeginLoad, Pending, DaemonInv, ShapeOK, RaisedOK, At
    <3>2. Cardinality(Pending') = Cardinality(Pending) - 1
      BY <3>1, <1>f, FS_RemoveElement
    <3>3. Cached' = Cached
      BY <3>1 DEF Cached
    <3>4. Cardinality(lock) = 0 /\ Cardinality(lock') = 1
      BY <3>1, <1>e
    <3>5. QED
      BY ONLY <3>1, <3>2, <3>3, <3>4, <1>s, <1>f DEF CountsOK, LoadedOnce, DaemonInv, ShapeOK, RaisedOK
  <2>6. CASE KeepSnapshot(a)
    <3>1. At(a, "read") /\ lock = {a} /\ job[a].root \in Roots /\ job[a].root \notin Cached
      BY <1>s, <2>6 DEF KeepSnapshot, LoadEnds, DaemonInv, LockOK, RequestOK, Early, At, Cached
    <3>2. Cached' = Cached \cup {job[a].root}
      BY <1>s, <2>6, <3>1 DEF KeepSnapshot, Cached, DaemonInv, ShapeOK, RaisedOK
    <3>3. Cardinality(Cached') = Cardinality(Cached) + 1
      BY <3>1, <3>2, <1>f, FS_AddElement
    <3>4. Pending' = Pending /\ lock' = {} /\ UNCHANGED <<server, stats, raised>>
      BY <1>s, <2>6, <3>1 DEF KeepSnapshot, Loaded, Filtering, Pending, DaemonInv, ShapeOK, RaisedOK, At
    <3>5. server # "exited"
      BY <1>s, <3>1 DEF DaemonInv, ThreadOK, InThread, At, NoJob
    <3>6. Cardinality(lock) = 1 /\ Cardinality(lock') = 0
      BY <3>1, <3>4, <1>e
    <3>7. QED
      BY ONLY <3>3, <3>4, <3>5, <3>6, <1>s, <1>f DEF CountsOK, LoadedOnce, DaemonInv, ShapeOK, RaisedOK
  <2>7. CASE LoadFails(a)
    <3>1. /\ lock = {a} /\ lock' = {} /\ UNCHANGED <<server, cache, stats>>
          /\ Len(raised') = Len(raised) + 1
      BY <1>s, <2>7 DEF LoadFails, LoadRaises, DaemonInv, ShapeOK, RaisedOK, LockOK, At
    <3>2. Pending' = Pending
      BY <1>s, <2>7 DEF LoadFails, LoadRaises, Fail, Pending, DaemonInv, ShapeOK, RaisedOK, At
    <3>3. Cached' = Cached
      BY <3>1 DEF Cached
    <3>4. Cardinality(lock) = 1 /\ Cardinality(lock') = 0
      BY <3>1, <1>e
    <3>5. QED
      BY ONLY <3>1, <3>2, <3>3, <3>4, <1>s, <1>f DEF CountsOK, LoadedOnce, DaemonInv, ShapeOK, RaisedOK
  <2>8. CASE Execute(a)
    <3>1. UNCHANGED <<server, lock, cache, stats, raised>>
      BY <2>8 DEF Execute, daemon
    <3>2. Pending' \subseteq Pending
      BY <1>s, <2>8, ExecStepJob DEF Execute, Pending
    <3>3. QED
      BY <3>1, <3>2, CountsKept
  <2>9. CASE Contract(a)
    <3>1. UNCHANGED <<server, lock, cache, stats, raised>>
      BY <2>9 DEF Contract
    <3>2. Pending' \subseteq Pending
      BY <1>s, <2>9 DEF Contract, Pending, NoJob, DaemonInv, ShapeOK, RaisedOK
    <3>3. QED
      BY <3>1, <3>2, CountsKept
  <2>10. QED
    BY <1>4, <2>1, <2>2, <2>3, <2>4, <2>5, <2>6, <2>7, <2>8, <2>9 DEF Serve, Handle
<1>5. QED
  BY <1>1, <1>2, <1>3, <1>4 DEF Next

LEMMA CountsInvariant == Spec => []CountsInv
<1>1. CountsInv /\ [Next]_vars => CountsInv'
  BY DaemonNext, CountsNext DEF CountsInv
<1>2. QED
  BY <1>1, CountsInit, PTL DEF Spec

(* A root is loaded once, but for loads that raise and the one under way. *)
THEOREM RootsLoadedOnce == Spec => []LoadedOnce
<1>1. CountsInv => LoadedOnce
  BY DEF CountsInv, CountsOK
<1>2. QED
  BY <1>1, CountsInvariant, PTL

----------------------------------------------------------------------------

\* What is known of the values read so far for an answer, when the counters
\* are at now: none is ahead of them, and the later ones fit the earlier ones.
SoFar(answer, now) ==
  /\ "queries" \in DOMAIN answer => "misses" \in DOMAIN answer
  /\ "misses" \in DOMAIN answer => "hits" \in DOMAIN answer
  /\ "hits" \in DOMAIN answer => "keys" \in DOMAIN answer
  /\ "keys" \in DOMAIN answer => /\ Cardinality(answer.keys) \in Nat
                                 /\ Cardinality(answer.keys) <= now.misses
  /\ "hits" \in DOMAIN answer => answer.hits \in Nat /\ answer.hits <= now.hits
  /\ "misses" \in DOMAIN answer => /\ answer.misses \in Nat /\ answer.misses <= now.misses
                                   /\ Cardinality(answer.keys) <= answer.misses
  /\ "queries" \in DOMAIN answer => /\ answer.queries \in Nat /\ answer.queries <= now.queries
                                    /\ answer.hits + answer.misses <= answer.queries

AnswersOK ==
  \A a \in Actors :
    /\ handler[a].at \in {"counters", "answer"} => SoFar(handler[a].answer, stats)
    /\ handler[a].at = "counters" => /\ "answer" \in DOMAIN handler[a]
                                     /\ "queries" \notin DOMAIN handler[a].answer
    /\ Answered(a) => SoFar(client[a].answer, stats)

AnswersInv == CountsInv /\ AnswersOK

\* No counter goes back.
LEMMA CountersGrow ==
  ASSUME DaemonInv, [Next]_vars
  PROVE  /\ stats \in [hits : Nat, misses : Nat, queries : Nat]
         /\ stats' \in [hits : Nat, misses : Nat, queries : Nat]
         /\ stats.hits <= stats'.hits /\ stats.misses <= stats'.misses /\ stats.queries <= stats'.queries
<1> USE DEF DaemonInv, ShapeOK
<1>1. ASSUME NEW a \in Actors, CountQuery(a) \/ CacheHit(a) \/ CacheMiss(a)
      PROVE  \/ stats' = [stats EXCEPT !.queries = @ + 1]
             \/ stats' = [stats EXCEPT !.hits = @ + 1]
             \/ stats' = [stats EXCEPT !.misses = @ + 1]
  BY <1>1 DEF CountQuery, CacheHit, CacheMiss
<1>2. \/ UNCHANGED stats
      \/ stats' = [stats EXCEPT !.queries = @ + 1]
      \/ stats' = [stats EXCEPT !.hits = @ + 1]
      \/ stats' = [stats EXCEPT !.misses = @ + 1]
  BY <1>1 DEF Next, vars, Environment, Exit, Client, Send, TimeOut, Serve, Accept, SeeClosed, Handle,
     Refuse, Stats, Shutdown, KeepSnapshot, LoadFails, Execute, Contract, ReadCounter, Reply, daemon
<1>3. QED
  BY <1>2

LEMMA SoFarGrows ==
  ASSUME DaemonInv, [Next]_vars
  PROVE  \A answer : SoFar(answer, stats) => SoFar(answer, stats')
BY CountersGrow DEF SoFar

LEMMA AnswersNext == AnswersInv /\ [Next]_vars => AnswersOK'
<1> SUFFICES ASSUME AnswersInv, [Next]_vars
             PROVE  AnswersOK'
  OBVIOUS
<1>s. DaemonInv /\ CountsOK /\ AnswersOK
  BY DEF AnswersInv, CountsInv
<1>g. \A answer : SoFar(answer, stats) => SoFar(answer, stats')
  BY <1>s, SoFarGrows
<1>k. \A answer : "keys" \notin DOMAIN answer => ("hits" \notin DOMAIN answer /\ "misses" \notin DOMAIN answer
                    /\ "queries" \notin DOMAIN answer => SoFar(answer, stats'))
  BY DEF SoFar
<1>1. CASE UNCHANGED <<handler, client>>
  BY <1>s, <1>g, <1>1 DEF AnswersOK, Answered
<1>2. CASE Exit
  BY <1>s, <1>g, <1>2 DEF Exit, AnswersOK, Answered, NoThread
<1>3. ASSUME NEW a \in Actors, Client(a) \/ SeeClosed(a)
      PROVE  AnswersOK'
  <2>1. /\ handler' = handler
        /\ \A b \in Actors : client'[b].at = "answered" => client'[b] = client[b]
    BY <1>3, <1>s DEF Client, Send, TimeOut, SeeClosed, DaemonInv, ShapeOK
  <2>2. QED
    BY <2>1, <1>s, <1>g DEF AnswersOK, Answered
<1>4. ASSUME NEW a \in Actors, Accept(a) \/ CountQuery(a)
      PROVE  AnswersOK'
  <2>1. client' = client /\ \A b \in Actors : handler'[b].at \in {"counters", "answer"} => handler'[b] = handler[b]
    BY <1>4, <1>s DEF Accept, CountQuery, DaemonInv, ShapeOK
  <2>2. QED
    BY <2>1, <1>s, <1>g DEF AnswersOK, Answered
<1>5. ASSUME NEW a \in Actors, NEW r, SoFar(r.answer, stats'), client' = client,
             handler' = [handler EXCEPT ![a] = r], "answer" \in DOMAIN r,
             "queries" \notin DOMAIN r.answer \/ r.at = "answer"
      PROVE  AnswersOK'
  <2>1. \A b \in Actors : b # a => handler'[b] = handler[b]
    BY <1>5
  <2>2. handler'[a] = r
    BY <1>5, <1>s DEF DaemonInv, ShapeOK
  <2>3. QED
    BY <1>5, <2>1, <2>2, <1>s, <1>g DEF AnswersOK, Answered
<1>6. ASSUME NEW a \in Actors, Refuse(a) \/ Shutdown(a)
      PROVE  AnswersOK'
  <2>1. PICK answer : /\ Answering(a, answer) /\ client' = client
                      /\ DOMAIN answer = {"ok", "status"}
    BY <1>6 DEF Refuse, Shutdown, Refusal
  <2> DEFINE r == [at |-> "answer", answer |-> answer]
  <2>2. SoFar(answer, stats')
    BY <2>1, <1>k
  <2>3. handler' = [handler EXCEPT ![a] = r] /\ r.at = "answer" /\ r.answer = answer /\ "answer" \in DOMAIN r
    BY <2>1 DEF Answering
  <2> HIDE DEF r
  <2>4. QED
    BY <2>1, <2>2, <2>3, <1>5
<1>7. ASSUME NEW a \in Actors, Stats(a)
      PROVE  AnswersOK'
  <2> DEFINE answer == [ok |-> TRUE, status |-> "PASS_V03G4_DAEMON_STATS", keys |-> Cached, hits |-> stats.hits,
                        misses |-> stats.misses, queries |-> stats.queries]
  <2>1. Answering(a, answer) /\ client' = client /\ stats' = stats
    BY <1>7 DEF Stats
  <2>2. SoFar(answer, stats)
    <3>1. Cardinality(Cached) \in Nat /\ Cardinality(Pending) \in Nat
      BY <1>s, FiniteSets
    <3>2. QED
      BY <3>1, <1>s DEF SoFar, CountsOK, DaemonInv, ShapeOK
  <2> HIDE DEF answer
  <2> DEFINE r == [at |-> "answer", answer |-> answer]
  <2>3. handler' = [handler EXCEPT ![a] = r] /\ r.at = "answer" /\ r.answer = answer /\ "answer" \in DOMAIN r
    BY <2>1 DEF Answering
  <2> HIDE DEF r
  <2>4. QED
    BY <2>1, <2>2, <2>3, <1>5
<1>8. ASSUME NEW a \in Actors, Contract(a)
      PROVE  AnswersOK'
  <2> DEFINE answer == IF At(a, "done") THEN OkEnvelope(job[a].results) ELSE ErrorEnvelope(job[a].error)
             r == [at |-> "counters", query |-> job[a].query, root |-> handler[a].request.root, answer |-> answer]
  <2>1. /\ handler' = [handler EXCEPT ![a] = r] /\ client' = client
        /\ r.answer = answer /\ "answer" \in DOMAIN r
    BY <1>8 DEF Contract
  <2>2. DOMAIN answer \in {{"ok", "status"}, {"ok", "status", "result"}}
    BY DEF OkEnvelope, ErrorEnvelope
  <2> HIDE DEF answer, r
  <2>3. SoFar(answer, stats') /\ "queries" \notin DOMAIN answer
    BY <2>2, <1>k
  <2>4. QED
    BY <2>1, <2>3, <1>5
<1>9. ASSUME NEW a \in Actors, ReadCounter(a)
      PROVE  AnswersOK'
  <2> DEFINE answer == handler[a].answer
             Next4(n) == /\ CounterOrder[n] \notin DOMAIN answer
                         /\ \A m \in 1..(n - 1) : CounterOrder[m] \in DOMAIN answer
             name == CHOOSE n \in 1..4 : Next4(n)
             key == CounterOrder[name]
             value == IF key = "keys" THEN Cached ELSE stats[key]
             now == [x \in DOMAIN answer \cup {key} |-> IF x = key THEN value ELSE answer[x]]
             r == [handler[a] EXCEPT !.answer = now, !.at = IF name = 4 THEN "answer" ELSE "counters"]
  <2>1. /\ handler' = [handler EXCEPT ![a] = r] /\ client' = client /\ stats' = stats
        /\ handler[a].at = "counters"
    BY <1>9 DEF ReadCounter, InThread
  <2>2. SoFar(answer, stats) /\ "queries" \notin DOMAIN answer /\ "answer" \in DOMAIN handler[a]
    BY <2>1, <1>s DEF AnswersOK
  <2>3. /\ CounterOrder[1] = "keys" /\ CounterOrder[2] = "hits"
        /\ CounterOrder[3] = "misses" /\ CounterOrder[4] = "queries"
    BY DEF CounterOrder
  <2> HIDE DEF answer
  <2>4. name \in 1..4 /\ Next4(name)
    <3>1. Next4(1) \/ Next4(2) \/ Next4(3) \/ Next4(4)
      BY <2>2, <2>3
    <3> HIDE DEF Next4
    <3>2. \E n \in 1..4 : Next4(n)
      BY <3>1
    <3>3. QED
      BY <3>2
  <2> HIDE DEF name
  <2>5. /\ Cardinality(Cached) \in Nat /\ Cardinality(Cached) <= stats.misses
        /\ stats \in [hits : Nat, misses : Nat, queries : Nat]
        /\ stats.hits + stats.misses <= stats.queries
    <3>1. Cardinality(Cached) \in Nat /\ Cardinality(Pending) \in Nat
      BY <1>s, FiniteSets
    <3>2. QED
      BY <3>1, <1>s DEF CountsOK, DaemonInv, ShapeOK
  <2>6. SoFar(now, stats)
    <3>1. CASE name = 1
      BY <3>1, <2>2, <2>3, <2>4, <2>5 DEF SoFar
    <3>2. CASE name = 2
      BY <3>2, <2>2, <2>3, <2>4, <2>5 DEF SoFar
    <3>3. CASE name = 3
      BY <3>3, <2>2, <2>3, <2>4, <2>5 DEF SoFar
    <3>4. CASE name = 4
      BY <3>4, <2>2, <2>3, <2>4, <2>5 DEF SoFar
    <3>5. QED
      BY <3>1, <3>2, <3>3, <3>4, <2>4
  <2>7. "queries" \notin DOMAIN now \/ r.at = "answer"
    <3>1. CASE name = 4
      BY <3>1, <1>s DEF DaemonInv, ShapeOK
    <3>2. CASE name # 4
      BY <3>2, <2>2, <2>3, <2>4
    <3>3. QED
      BY <3>1, <3>2
  <2>8. "answer" \in DOMAIN r /\ r.answer = now
    BY <2>2
  <2> HIDE DEF now, r
  <2>9. QED
    BY <2>1, <2>6, <2>7, <2>8, <1>5
<1>10. ASSUME NEW a \in Actors, Reply(a)
       PROVE  AnswersOK'
  <2>1. SoFar(handler[a].answer, stats')
    BY <1>10, <1>s, <1>g DEF Reply, InThread, AnswersOK
  <2>2. handler' = [handler EXCEPT ![a] = NoThread]
    BY <1>10 DEF Reply
  <2>3. \A b \in Actors : client'[b].at = "answered" =>
          client'[b] = client[b] \/ client'[b].answer = handler[a].answer
    BY <1>10, <1>s DEF Reply, DaemonInv, ShapeOK
  <2>4. QED
    BY <2>1, <2>2, <2>3, <1>s, <1>g DEF AnswersOK, Answered, NoThread, DaemonInv, ShapeOK
<1>11. QED
  BY <1>1, <1>2, <1>3, <1>4, <1>6, <1>7, <1>8, <1>9, <1>10 DEF Next, vars, Environment, Serve, Handle,
     CacheHit, CacheMiss, KeepSnapshot, LoadFails, Execute, daemon

LEMMA AnswersInvariant == Spec => []AnswersInv
<1>1. Init => AnswersInv
  BY CountsInit DEF AnswersInv, AnswersOK, Init, NoThread, Answered
<1>2. AnswersInv /\ [Next]_vars => AnswersInv'
  BY DaemonNext, CountsNext, AnswersNext DEF AnswersInv, CountsInv
<1>3. QED
  BY <1>1, <1>2, PTL DEF Spec

(* The counters of an answer fit together, though they are read one after the
   other without the lock: keys, hits, misses and queries are read in the order
   in which no later one can be too small. *)
THEOREM AnswersAreConsistent == Spec => []CountersConsistent
<1>1. AnswersInv => CountersConsistent
  BY DEF AnswersInv, AnswersOK, SoFar, CountersConsistent
<1>2. QED
  BY <1>1, AnswersInvariant, PTL

----------------------------------------------------------------------------
(* What an answer says of its query *)

ParseStatuses ==
  {"BQL_PARSE_ERROR", "BQL_UNSAFE_TOKEN", "BQL_TOP_OUT_OF_BOUNDS", "BQL_RADIUS_OUT_OF_BOUNDS",
   "BQL_TIME_FILTER_PARSE_ERROR", "BQL_UNSUPPORTED_SYNTAX"}

\* Of the first seven cases of which the seventh holds, one is the first.
LEMMA FirstOfSeven ==
  ASSUME NEW P \in [1..7 -> BOOLEAN], P[7]
  PROVE  \E i \in 1..7 : P[i] /\ \A j \in 1..(i - 1) : ~P[j]
<1>1. CASE P[1]
  BY <1>1
<1>2. CASE ~P[1] /\ P[2]
  BY <1>2
<1>3. CASE ~P[1] /\ ~P[2] /\ P[3]
  <2>1. \A j \in 1..(3 - 1) : j = 1 \/ j = 2
    OBVIOUS
  <2>2. QED
    BY <1>3, <2>1
<1>4. CASE ~P[1] /\ ~P[2] /\ ~P[3] /\ P[4]
  <2>1. \A j \in 1..(4 - 1) : j \in {1, 2, 3}
    OBVIOUS
  <2>2. QED
    BY <1>4, <2>1
<1>5. CASE ~P[1] /\ ~P[2] /\ ~P[3] /\ ~P[4] /\ P[5]
  <2>1. \A j \in 1..(5 - 1) : j \in {1, 2, 3, 4}
    OBVIOUS
  <2>2. QED
    BY <1>5, <2>1
<1>6. CASE ~P[1] /\ ~P[2] /\ ~P[3] /\ ~P[4] /\ ~P[5] /\ P[6]
  <2>1. \A j \in 1..(6 - 1) : j \in {1, 2, 3, 4, 5}
    OBVIOUS
  <2>2. QED
    BY <1>6, <2>1
<1>7. CASE ~P[1] /\ ~P[2] /\ ~P[3] /\ ~P[4] /\ ~P[5] /\ ~P[6]
  <2>1. \A j \in 1..(7 - 1) : j \in {1, 2, 3, 4, 5, 6}
    OBVIOUS
  <2>2. QED
    BY <1>7, <2>1
<1>8. QED
  BY <1>1, <1>2, <1>3, <1>4, <1>5, <1>6, <1>7

\* The first of nine cases that holds is the one that First takes.
LEMMA FirstIs ==
  ASSUME NEW cases, DOMAIN cases = 1..9, NEW k \in 1..9, cases[k][1],
         \A j \in 1..(k - 1) : ~cases[j][1]
  PROVE  First(cases) = cases[k][2]
<1> DEFINE Least(m) == cases[m][1] /\ \A j \in 1..(m - 1) : ~cases[j][1]
           n == CHOOSE m \in DOMAIN cases : Least(m)
<1>1. n \in DOMAIN cases /\ Least(n)
  <2>1. k \in DOMAIN cases /\ Least(k)
    OBVIOUS
  <2> HIDE DEF Least
  <2>2. QED
    BY <2>1
<1>2. First(cases) = cases[n][2]
  BY DEF First
<1> HIDE DEF n
<1>3. n \in 1..9
  BY <1>1
<1>4. ~(n < k) /\ ~(k < n)
  BY <1>1, <1>3
<1>5. n = k
  BY <1>3, <1>4
<1>6. QED
  BY <1>2, <1>5

\* classify_error of an exception of the parser, whatever its message says.
LEMMA ParserErrorsClassified ==
  ASSUME NEW says
  PROVE  Classify(Error("ParseError", says)) \in ParseStatuses
<1> DEFINE error == Error("ParseError", says)
           c1 == <<error.says \cap {"time filter", "named window", "timestamp"} # {}, "BQL_TIME_FILTER_PARSE_ERROR">>
           c2 == <<"unsafe token rejected" \in error.says, "BQL_UNSAFE_TOKEN">>
           c3 == <<"radius out of bounds" \in error.says, "BQL_RADIUS_OUT_OF_BOUNDS">>
           c4 == <<"top out of bounds" \in error.says, "BQL_TOP_OUT_OF_BOUNDS">>
           c5 == <<error.says \cap {"select syntax not enabled", "unsupported bql syntax"} # {}, "BQL_UNSUPPORTED_SYNTAX">>
           c6 == <<error.class = "PermissionError", "BQL_READONLY_SAFETY_ERROR">>
           c7 == <<error.class = "ParseError", "BQL_PARSE_ERROR">>
           c8 == <<error.class \in ValueErrors, "BQL_EXECUTION_ERROR">>
           c9 == <<TRUE, "BQL_INTERNAL_ERROR">>
           cases == <<c1, c2, c3, c4, c5, c6, c7, c8, c9>>
           P == [i \in 1..7 |-> IF cases[i][1] THEN TRUE ELSE FALSE]
<1>1. Classify(error) = First(cases)
  BY DEF Classify
<1>2. error.class = "ParseError"
  BY DEF Error
<1> HIDE DEF error
<1>3. ~c6[1] /\ c7[1]
  BY <1>2
<1>4. c1[2] \in ParseStatuses /\ c2[2] \in ParseStatuses /\ c3[2] \in ParseStatuses
      /\ c4[2] \in ParseStatuses /\ c5[2] \in ParseStatuses /\ c7[2] \in ParseStatuses
  BY DEF ParseStatuses
<1> HIDE DEF c1, c2, c3, c4, c5, c6, c7, c8, c9
<1>5. /\ DOMAIN cases = 1..9 /\ ~cases[6][1] /\ cases[7][1]
      /\ \A i \in {1, 2, 3, 4, 5, 7} : cases[i][2] \in ParseStatuses
  BY <1>3, <1>4
<1> HIDE DEF cases
<1>6. PICK i \in 1..7 : P[i] /\ \A j \in 1..(i - 1) : ~P[j]
  <2>1. P \in [1..7 -> BOOLEAN] /\ P[7]
    BY <1>5
  <2> HIDE DEF P
  <2>2. QED
    BY <2>1, FirstOfSeven
<1>7. cases[i][1] /\ \A j \in 1..(i - 1) : ~cases[j][1]
  BY <1>6
<1>8. First(cases) = cases[i][2]
  <2>1. i \in 1..9
    OBVIOUS
  <2>2. QED
    BY <1>5, <1>7, <2>1, FirstIs
<1>9. i \in {1, 2, 3, 4, 5, 7}
  BY <1>5, <1>7
<1>10. QED
  BY <1>1, <1>5, <1>8, <1>9 DEF error

\* And of the exceptions of a load that the executor lets through.
LEMMA LoadErrorsClassified ==
  ASSUME NEW error \in LoadErrors
  PROVE  Classify(error) = LoadStatus(error)
<1> DEFINE c1 == <<error.says \cap {"time filter", "named window", "timestamp"} # {}, "BQL_TIME_FILTER_PARSE_ERROR">>
           c2 == <<"unsafe token rejected" \in error.says, "BQL_UNSAFE_TOKEN">>
           c3 == <<"radius out of bounds" \in error.says, "BQL_RADIUS_OUT_OF_BOUNDS">>
           c4 == <<"top out of bounds" \in error.says, "BQL_TOP_OUT_OF_BOUNDS">>
           c5 == <<error.says \cap {"select syntax not enabled", "unsupported bql syntax"} # {}, "BQL_UNSUPPORTED_SYNTAX">>
           c6 == <<error.class = "PermissionError", "BQL_READONLY_SAFETY_ERROR">>
           c7 == <<error.class = "ParseError", "BQL_PARSE_ERROR">>
           c8 == <<error.class \in ValueErrors, "BQL_EXECUTION_ERROR">>
           c9 == <<TRUE, "BQL_INTERNAL_ERROR">>
           cases == <<c1, c2, c3, c4, c5, c6, c7, c8, c9>>
<1>1. Classify(error) = First(cases)
  BY DEF Classify
<1>2. /\ error.class \in OsClasses \cup {"UnicodeDecodeError"}
      /\ error.says = {} \/ error.says = {"timestamp"}
  <2>1. CASE error \in OsErrors
    <3>1. error \in [class : OsClasses, says : SUBSET {"timestamp"}]
      BY <2>1, OsErrorsAssumption
    <3>2. error.class \in OsClasses /\ error.says \subseteq {"timestamp"}
      BY <3>1
    <3>3. QED
      BY <3>2
  <2>2. CASE error = NotUtf8
    BY <2>2 DEF NotUtf8, Error
  <2>3. QED
    BY <2>1, <2>2 DEF LoadErrors
<1>3. ~c2[1] /\ ~c3[1] /\ ~c4[1] /\ ~c5[1] /\ ~c7[1] /\ c9[1]
  BY <1>2 DEF OsClasses
<1>4. c1[1] <=> "timestamp" \in error.says
  BY <1>2
<1>5. c8[1] <=> error.class = "UnicodeDecodeError"
  BY <1>2 DEF OsClasses, ValueErrors
<1>6. /\ c1[2] = "BQL_TIME_FILTER_PARSE_ERROR" /\ c6[2] = "BQL_READONLY_SAFETY_ERROR"
      /\ c8[2] = "BQL_EXECUTION_ERROR" /\ c9[2] = "BQL_INTERNAL_ERROR"
      /\ c6[1] <=> error.class = "PermissionError"
  OBVIOUS
<1> HIDE DEF c1, c2, c3, c4, c5, c6, c7, c8, c9
<1>7. /\ DOMAIN cases = 1..9 /\ cases[9][1]
      /\ ~cases[2][1] /\ ~cases[3][1] /\ ~cases[4][1] /\ ~cases[5][1] /\ ~cases[7][1]
      /\ cases[1][1] <=> "timestamp" \in error.says
      /\ cases[6][1] <=> error.class = "PermissionError"
      /\ cases[8][1] <=> error.class = "UnicodeDecodeError"
      /\ cases[1][2] = "BQL_TIME_FILTER_PARSE_ERROR" /\ cases[6][2] = "BQL_READONLY_SAFETY_ERROR"
      /\ cases[8][2] = "BQL_EXECUTION_ERROR" /\ cases[9][2] = "BQL_INTERNAL_ERROR"
  BY <1>3, <1>4, <1>5, <1>6
<1> HIDE DEF cases
<1>8. CASE "timestamp" \in error.says
  <2>1. cases[1][1] /\ \A j \in 1..(1 - 1) : ~cases[j][1]
    BY <1>7, <1>8
  <2>2. 1 \in 1..9
    OBVIOUS
  <2>3. First(cases) = cases[1][2]
    BY <1>7, <2>1, <2>2, FirstIs
  <2>4. QED
    BY <1>1, <1>7, <1>8, <2>3 DEF LoadStatus
<1>9. CASE "timestamp" \notin error.says /\ error.class = "PermissionError"
  <2>1. cases[6][1] /\ \A j \in 1..(6 - 1) : ~cases[j][1]
    <3>1. \A j \in 1..(6 - 1) : j \in {1, 2, 3, 4, 5}
      OBVIOUS
    <3>2. QED
      BY <1>7, <1>9, <3>1
  <2>2. 6 \in 1..9
    OBVIOUS
  <2>3. First(cases) = cases[6][2]
    BY <1>7, <2>1, <2>2, FirstIs
  <2>4. QED
    BY <1>1, <1>7, <1>9, <2>3 DEF LoadStatus
<1>10. CASE "timestamp" \notin error.says /\ error.class = "UnicodeDecodeError"
  <2>1. cases[8][1] /\ \A j \in 1..(8 - 1) : ~cases[j][1]
    <3>1. \A j \in 1..(8 - 1) : j \in {1, 2, 3, 4, 5, 6, 7}
      OBVIOUS
    <3>2. QED
      BY <1>7, <1>10, <3>1
  <2>2. 8 \in 1..9
    OBVIOUS
  <2>3. First(cases) = cases[8][2]
    BY <1>7, <2>1, <2>2, FirstIs
  <2>4. QED
    BY <1>1, <1>7, <1>10, <2>3 DEF LoadStatus
<1>11. CASE "timestamp" \notin error.says /\ error.class \notin {"PermissionError", "UnicodeDecodeError"}
  <2>1. cases[9][1] /\ \A j \in 1..(9 - 1) : ~cases[j][1]
    <3>1. \A j \in 1..(9 - 1) : j \in {1, 2, 3, 4, 5, 6, 7, 8}
      OBVIOUS
    <3>2. QED
      BY <1>7, <1>11, <3>1
  <2>2. 9 \in 1..9
    OBVIOUS
  <2>3. First(cases) = cases[9][2]
    BY <1>7, <2>1, <2>2, FirstIs
  <2>4. QED
    BY <1>1, <1>7, <1>11, <2>3 DEF LoadStatus
<1>12. QED
  BY <1>8, <1>9, <1>10, <1>11

Refused(answer, status) == answer.ok = FALSE /\ answer.status = status

\* A request that gets as far as a call of execute.
Runs(request) == request.local /\ request.cmd = "query" /\ request.max # "text"

\* A load of the thread raised what has the status.
RaisedBy(a, status) == \E i \in DOMAIN raised : raised[i].by = a /\ status = LoadStatus(raised[i].error)

\* What an answer of such a request says, but for the counters.
Tells(a, request, answer) ==
  /\ answer.ok \in BOOLEAN
  /\ answer.ok => Accepted(request.query) /\ Cached # {}
  /\ ~answer.ok /\ Accepted(request.query) => RaisedBy(a, answer.status)
  /\ ~answer.ok /\ ~Accepted(request.query) => answer.status \in ParseStatuses

\* The roots of an answer that has got them.
KeysTell(answer) == answer.ok => answer.keys # {}

AnswerOK(a, request, answer) ==
  request.cmd = "query" =>
    /\ ~request.local => Refused(answer, "BQL_DAEMON_REJECT_NON_LOCALHOST")
    /\ request.local /\ request.max = "text" => Refused(answer, "BQL_DAEMON_ERROR")
    /\ Runs(request) => Tells(a, request, answer) /\ KeysTell(answer)

\* A call of execute knows what became of the text and of the load.
JobOK(a) ==
  /\ "query" \in DOMAIN job[a] /\ job[a].query = client[a].request.query
  /\ job[a].at \in {"parse", "load", "read", "lookup", "filter", "done", "failed"}
  /\ job[a].at \in {"load", "read", "lookup", "filter", "done"} => Accepted(job[a].query)
  /\ job[a].at \in {"lookup", "filter", "done"} => Cached # {}
  /\ job[a].at = "failed" =>
       \/ ~Accepted(job[a].query) /\ job[a].error = ParseErrorOf(job[a].query)
       \/ /\ Accepted(job[a].query) /\ job[a].error \in LoadErrors
          /\ RaisedBy(a, LoadStatus(job[a].error))

\* A thread answers the request that its client waits for, or has given up.
ThreadTells(a) ==
  /\ handler[a].at \in {"none", "handle", "query", "counters", "answer"}
  /\ client[a].at \in {"idle", "waiting", "failed", "answered"}
  /\ client[a].at # "idle" => "request" \in DOMAIN client[a]
  /\ client[a].at \in {"idle", "answered"} => InThread(a, "none")
  /\ InThread(a, "handle") => handler[a].request = client[a].request
  /\ InThread(a, "query") => Runs(client[a].request) /\ JobOK(a)
  /\ InThread(a, "counters") =>
       /\ Runs(client[a].request) /\ Tells(a, client[a].request, handler[a].answer)
       /\ {"ok", "status"} \subseteq DOMAIN handler[a].answer
       /\ "keys" \in DOMAIN handler[a].answer => KeysTell(handler[a].answer)
  /\ InThread(a, "answer") => AnswerOK(a, client[a].request, handler[a].answer)
  /\ Answered(a) => /\ AnswerOK(a, client[a].request, client[a].answer)
                    /\ client[a].exit = ExitCode(client[a].answer)

OutcomeInv == AnswersInv /\ \A a \in Actors : ThreadTells(a)

LEMMA OutcomeInit == Init => \A a \in Actors : ThreadTells(a)
BY DEF Init, ThreadTells, InThread, NoThread, Answered

\* No root is dropped, and no load that raised is forgotten.
LEMMA CachedGrows ==
  ASSUME DaemonInv, [Next]_vars
  PROVE  /\ Cached # {} => Cached' # {}
         /\ \A i \in DOMAIN raised : i \in DOMAIN raised' /\ raised'[i] = raised[i]
<1> USE DEF DaemonInv, ShapeOK, RaisedOK, Cached
<1>1. ASSUME NEW a \in Actors, KeepSnapshot(a)
      PROVE  Cached # {} => Cached' # {}
  BY <1>1 DEF KeepSnapshot
<1>2. ASSUME NEW a \in Actors, LoadFails(a)
      PROVE  cache' = cache /\ \A i \in DOMAIN raised : i \in DOMAIN raised' /\ raised'[i] = raised[i]
  <2>1. PICK error \in LoadErrors : raised' = Append(raised, [by |-> a, error |-> error])
    BY <1>2 DEF LoadFails
  <2>2. QED
    BY <1>2, <2>1 DEF LoadFails
<1>3. cache' = cache \/ \E a \in Actors : KeepSnapshot(a)
  BY DEF Next, vars, Environment, Exit, Client, Send, TimeOut, Serve, Accept, SeeClosed, Handle,
     Refuse, Stats, Shutdown, CountQuery, CacheHit, CacheMiss, LoadFails, Execute, Contract,
     ReadCounter, Reply, daemon
<1>4. raised' = raised \/ \E a \in Actors : LoadFails(a)
  BY DEF Next, vars, Environment, Exit, Client, Send, TimeOut, Serve, Accept, SeeClosed, Handle,
     Refuse, Stats, Shutdown, CountQuery, CacheHit, CacheMiss, KeepSnapshot, Execute, Contract,
     ReadCounter, Reply, daemon
<1>5. Cached # {} => Cached' # {}
  BY <1>1, <1>3
<1>6. \A i \in DOMAIN raised : i \in DOMAIN raised' /\ raised'[i] = raised[i]
  BY <1>2, <1>4
<1>7. QED
  BY <1>5, <1>6

\* What holds of an answer still does when roots are added and loads raise.
LEMMA TellsGrows ==
  ASSUME DaemonInv, [Next]_vars
  PROVE  \A a, request, answer :
           /\ Tells(a, request, answer) => Tells(a, request, answer)'
           /\ AnswerOK(a, request, answer) => AnswerOK(a, request, answer)'
<1>1. /\ Cached # {} => Cached' # {}
      /\ \A i \in DOMAIN raised : i \in DOMAIN raised' /\ raised'[i] = raised[i]
  BY CachedGrows
<1>2. ASSUME NEW a, NEW request, NEW answer, Tells(a, request, answer)
      PROVE  Tells(a, request, answer)'
  BY <1>1, <1>2 DEF Tells, RaisedBy
<1>3. ASSUME NEW a, NEW request, NEW answer, AnswerOK(a, request, answer)
      PROVE  AnswerOK(a, request, answer)'
  BY <1>2, <1>3 DEF AnswerOK, Runs, KeysTell, Refused
<1>4. QED
  BY <1>2, <1>3

\* A thread that does nothing still knows what it knew.
LEMMA ThreadKept ==
  ASSUME DaemonInv, [Next]_vars, NEW a \in Actors, ThreadTells(a),
         client'[a] = client[a], handler'[a] = handler[a], job'[a] = job[a]
  PROVE  ThreadTells(a)'
<1>1. /\ Cached # {} => Cached' # {}
      /\ \A i \in DOMAIN raised : i \in DOMAIN raised' /\ raised'[i] = raised[i]
  BY CachedGrows
<1>2. JobOK(a) => JobOK(a)'
  BY <1>1 DEF JobOK, RaisedBy
<1>3. \A request, answer :
        /\ Tells(a, request, answer) => Tells(a, request, answer)'
        /\ AnswerOK(a, request, answer) => AnswerOK(a, request, answer)'
  BY TellsGrows
<1>4. InThread(a, "counters") => Tells(a, client[a].request, handler[a].answer)'
  BY <1>1 DEF ThreadTells, Tells, RaisedBy
<1>5. InThread(a, "answer") => AnswerOK(a, client[a].request, handler[a].answer)'
  BY <1>3 DEF ThreadTells, AnswerOK, Tells, RaisedBy, Runs, KeysTell, Refused
<1>6. Answered(a) => AnswerOK(a, client[a].request, client[a].answer)'
  BY <1>3 DEF ThreadTells, AnswerOK, Tells, RaisedBy, Runs, KeysTell, Refused
<1>7. QED
  BY <1>2, <1>4, <1>5, <1>6 DEF ThreadTells, InThread, Answered, Runs, KeysTell, ExitCode

LEMMA OthersStay ==
  ASSUME DaemonInv, NEW b \in Actors, Client(b) \/ Serve(b), NEW a \in Actors \ {b}
  PROVE  client'[a] = client[a] /\ handler'[a] = handler[a] /\ job'[a] = job[a]
<1> USE DEF DaemonInv, ShapeOK
<1>1. CASE Client(b) \/ Accept(b) \/ SeeClosed(b)
  BY <1>1 DEF Client, Send, TimeOut, Accept, SeeClosed, exec
<1>2. CASE Refuse(b) \/ Stats(b) \/ Shutdown(b)
  BY <1>2 DEF Refuse, Stats, Shutdown, Answering, exec
<1>3. CASE CountQuery(b)
  BY <1>3 DEF CountQuery, Start
<1>4. CASE CacheHit(b)
  BY <1>4 DEF CacheHit, Loaded
<1>5. CASE CacheMiss(b) \/ KeepSnapshot(b) \/ LoadFails(b)
  BY <1>5 DEF CacheMiss, BeginLoad, KeepSnapshot, Loaded, LoadFails, LoadRaises, Fail
<1>6. CASE Execute(b)
  BY <1>6, ExecStepJob DEF Execute, daemon
<1>7. CASE Contract(b) \/ ReadCounter(b) \/ Reply(b)
  BY <1>7 DEF Contract, ReadCounter, Reply, exec
<1>8. QED
  BY <1>1, <1>2, <1>3, <1>4, <1>5, <1>6, <1>7 DEF Serve, Handle

\* A thread with a call of execute is at its query.
LEMMA AtQuery ==
  ASSUME DaemonInv, NEW a \in Actors, ThreadTells(a), job[a].at # "none"
  PROVE  InThread(a, "query") /\ Runs(client[a].request) /\ JobOK(a)
BY DEF DaemonInv, ThreadOK, NoJob, ThreadTells

\* The steps of a call of execute.
LEMMA JobNext ==
  ASSUME DaemonInv, [Next]_vars, NEW a \in Actors, ThreadTells(a),
         CacheHit(a) \/ CacheMiss(a) \/ KeepSnapshot(a) \/ LoadFails(a) \/ Execute(a)
  PROVE  InThread(a, "query") /\ Runs(client[a].request) /\ JobOK(a)'
         /\ UNCHANGED <<client, handler>>
<1> USE DEF DaemonInv, ShapeOK
<1>1. job[a].at # "none" /\ UNCHANGED <<client, handler>>
  BY DEF CacheHit, CacheMiss, KeepSnapshot, LoadEnds, LoadFails, LoadRaises, Execute, ExecStep,
         ParseQuery, RejectQuery, LoadFile, Lookup, LookupRaises, FilterRow, Answer, At, daemon
<1>2. InThread(a, "query") /\ Runs(client[a].request) /\ JobOK(a)
  BY <1>1, AtQuery
<1>3. /\ Cached # {} => Cached' # {}
      /\ \A i \in DOMAIN raised : i \in DOMAIN raised' /\ raised'[i] = raised[i]
  BY CachedGrows
<1>4. CASE CacheHit(a)
  <2>1. At(a, "load") /\ Cached # {}
    BY <1>4 DEF CacheHit, Cached, At, RequestOK, Early
  <2>2. /\ job'[a].at \in {"lookup", "filter"} /\ job'[a].query = job[a].query
        /\ "query" \in DOMAIN job'[a]
    BY <1>4 DEF CacheHit, Loaded, Filtering
  <2>3. QED
    BY <1>1, <1>2, <1>3, <2>1, <2>2 DEF JobOK, RaisedBy, At
<1>5. CASE CacheMiss(a)
  <2>1. /\ job'[a].at = "read" /\ job'[a].query = job[a].query
        /\ "query" \in DOMAIN job'[a] /\ job[a].at = "load"
    BY <1>5 DEF CacheMiss, BeginLoad, At
  <2>2. QED
    BY <1>1, <1>2, <2>1 DEF JobOK, RaisedBy
<1>6. CASE KeepSnapshot(a)
  <2>1. job[a].at = "read" /\ job[a].root \in Roots
    BY <1>6 DEF KeepSnapshot, LoadEnds, At, RequestOK, Early
  <2>2. Cached' # {}
    BY <1>6, <2>1 DEF KeepSnapshot, Cached
  <2>3. /\ job'[a].at \in {"lookup", "filter"} /\ job'[a].query = job[a].query
        /\ "query" \in DOMAIN job'[a]
    BY <1>6 DEF KeepSnapshot, Loaded, Filtering
  <2>4. QED
    BY <1>1, <1>2, <2>1, <2>2, <2>3 DEF JobOK, RaisedBy
<1>7. CASE LoadFails(a)
  <2>1. job[a].at = "read"
    BY <1>7 DEF LoadFails, LoadRaises, At
  <2>2. /\ job'[a].at = "failed" /\ job'[a].query = job[a].query
        /\ "query" \in DOMAIN job'[a]
    BY <1>7 DEF LoadFails, LoadRaises, Fail
  <2>3. /\ job'[a].error \in LoadErrors
        /\ \E i \in DOMAIN raised' : raised'[i].by = a /\ LoadStatus(job'[a].error) = LoadStatus(raised'[i].error)
    <3>1. PICK error \in LoadErrors : LoadRaises(a, error) /\ raised' = Append(raised, [by |-> a, error |-> error])
      BY <1>7 DEF LoadFails
    <3>2. job'[a].error = error
      BY <3>1 DEF LoadRaises, Fail
    <3>3. Len(raised) + 1 \in DOMAIN raised' /\ raised'[Len(raised) + 1] = [by |-> a, error |-> error]
      BY <3>1 DEF RaisedOK
    <3>4. QED
      BY <3>2, <3>3
  <2>4. QED
    BY <1>1, <1>2, <2>1, <2>2, <2>3 DEF JobOK, RaisedBy
<1>8. CASE Execute(a)
  <2>1. UNCHANGED daemon /\ ExecStep(a)
    BY <1>8 DEF Execute
  <2>2. CASE ParseQuery(a)
    <3>1. /\ job'[a].at = "load" /\ job'[a].query = job[a].query
          /\ "query" \in DOMAIN job'[a] /\ Accepted(job[a].query)
      BY <2>2 DEF ParseQuery
    <3>2. QED
      BY <1>1, <1>2, <3>1 DEF JobOK, RaisedBy
  <2>3. CASE RejectQuery(a)
    <3>1. /\ job'[a].at = "failed" /\ job'[a].query = job[a].query
          /\ "query" \in DOMAIN job'[a] /\ ~Accepted(job[a].query)
          /\ job'[a].error = ParseErrorOf(job[a].query)
      BY <2>3 DEF RejectQuery, Fail
    <3>2. QED
      BY <1>1, <1>2, <3>1 DEF JobOK, RaisedBy
  <2>4. CASE LoadFile(a)
    <3>1. /\ job'[a].at = "read" /\ job[a].at = "read" /\ job'[a].query = job[a].query
          /\ "query" \in DOMAIN job'[a]
      BY <2>4, <1>2 DEF LoadFile, At, JobOK, RaisedBy
    <3>2. QED
      BY <1>1, <1>2, <3>1 DEF JobOK, RaisedBy
  <2>5. CASE Lookup(a) \/ LookupRaises(a)
    <3>1. /\ job'[a].at = "filter" /\ job[a].at = "lookup" /\ job'[a].query = job[a].query
          /\ "query" \in DOMAIN job'[a]
      BY <2>5 DEF Lookup, LookupRaises, Filtering, At
    <3>2. QED
      BY <1>1, <1>2, <1>3, <3>1 DEF JobOK, RaisedBy
  <2>6. CASE FilterRow(a)
    <3>1. /\ job'[a].at = "filter" /\ job[a].at = "filter" /\ job'[a].query = job[a].query
          /\ "query" \in DOMAIN job'[a]
      BY <2>6, <1>2 DEF FilterRow, At, JobOK, RaisedBy
    <3>2. QED
      BY <1>1, <1>2, <1>3, <3>1 DEF JobOK, RaisedBy
  <2>7. CASE Answer(a)
    <3>1. /\ job'[a].at = "done" /\ job[a].at = "filter" /\ job'[a].query = job[a].query
          /\ "query" \in DOMAIN job'[a]
      BY <2>7 DEF Answer, At
    <3>2. QED
      BY <1>1, <1>2, <1>3, <3>1 DEF JobOK, RaisedBy
  <2>8. QED
    BY <2>1, <2>2, <2>3, <2>4, <2>5, <2>6, <2>7, <1>1, <1>2 DEF ExecStep
<1>9. QED
  BY <1>1, <1>2, <1>4, <1>5, <1>6, <1>7, <1>8

\* The envelope says what became of the call.
LEMMA ContractTells ==
  ASSUME DaemonInv, [Next]_vars, NEW a \in Actors, ThreadTells(a), Contract(a)
  PROVE  ThreadTells(a)'
<1> USE DEF DaemonInv, ShapeOK
<1> DEFINE query == job[a].query
           answer == IF At(a, "done") THEN OkEnvelope(job[a].results) ELSE ErrorEnvelope(job[a].error)
           r == [at |-> "counters", query |-> query, root |-> handler[a].request.root, answer |-> answer]
<1>1. job[a].at \in {"done", "failed"} /\ UNCHANGED <<client, raised, cache>>
      /\ handler' = [handler EXCEPT ![a] = r]
  BY DEF Contract
<1>2. InThread(a, "query") /\ Runs(client[a].request) /\ JobOK(a)
  BY <1>1, AtQuery
<1>3. /\ answer.ok \in BOOLEAN /\ {"ok", "status"} \subseteq DOMAIN answer
      /\ "keys" \notin DOMAIN answer
      /\ answer.ok <=> At(a, "done")
  BY DEF OkEnvelope, ErrorEnvelope
<1>4. Tells(a, client[a].request, answer)
  <2>1. CASE At(a, "done")
    BY <1>2, <1>3, <2>1 DEF JobOK, RaisedBy, Tells, At
  <2>2. CASE ~At(a, "done")
    <3>1. job[a].at = "failed" /\ answer.status = Classify(job[a].error) /\ answer.ok = FALSE
      BY <1>1, <2>2 DEF At, ErrorEnvelope
    <3> HIDE DEF answer
    <3>2. CASE ~Accepted(query) /\ job[a].error = ParseErrorOf(query)
      <4>1. answer.status \in ParseStatuses
        BY <3>1, <3>2, ParserErrorsClassified DEF ParseErrorOf
      <4>2. QED
        BY <1>2, <3>1, <3>2, <4>1 DEF RaisedBy, Tells, JobOK
    <3>3. CASE /\ Accepted(query) /\ job[a].error \in LoadErrors
               /\ RaisedBy(a, LoadStatus(job[a].error))
      BY <1>2, <3>1, <3>3, LoadErrorsClassified DEF RaisedBy, Tells, JobOK
    <3>4. QED
      BY <1>2, <3>1, <3>2, <3>3 DEF JobOK, RaisedBy
  <2>3. QED
    BY <2>1, <2>2
<1>5. PICK given : given = answer
  OBVIOUS
<1>6. /\ handler'[a].at = "counters" /\ handler'[a].answer = given
      /\ {"ok", "status"} \subseteq DOMAIN given /\ "keys" \notin DOMAIN given
  BY <1>1, <1>3, <1>5
<1>7. Tells(a, client[a].request, given)
  BY <1>4, <1>5
<1> HIDE DEF answer, r
<1>8. Tells(a, client[a].request, given)' /\ Runs(client[a].request)'
  BY <1>1, <1>2, <1>7 DEF Tells, RaisedBy, Cached, Runs
<1>9. /\ client[a].at \in {"waiting", "failed"} /\ client'[a] = client[a]
      /\ client[a].at # "idle" => "request" \in DOMAIN client[a]
  BY <1>1, <1>2 DEF ThreadTells, InThread
<1>10. QED
  BY <1>6, <1>8, <1>9 DEF ThreadTells, InThread, Answered, Tells, RaisedBy

\* The next counter joins the answer, which says no less than it did.
LEMMA CounterTells ==
  ASSUME DaemonInv, AnswersOK, NEW a \in Actors, ThreadTells(a), ReadCounter(a)
  PROVE  ThreadTells(a)'
<1> USE DEF DaemonInv, ShapeOK
<1> DEFINE answer == handler[a].answer
           Next4(n) == /\ CounterOrder[n] \notin DOMAIN answer
                       /\ \A m \in 1..(n - 1) : CounterOrder[m] \in DOMAIN answer
           name == CHOOSE n \in 1..4 : Next4(n)
           key == CounterOrder[name]
           value == IF key = "keys" THEN Cached ELSE stats[key]
           now == [x \in DOMAIN answer \cup {key} |-> IF x = key THEN value ELSE answer[x]]
           r == [handler[a] EXCEPT !.answer = now, !.at = IF name = 4 THEN "answer" ELSE "counters"]
<1>1. /\ handler' = [handler EXCEPT ![a] = r] /\ UNCHANGED <<client, raised, cache>>
      /\ handler[a].at = "counters"
  BY DEF ReadCounter, InThread
<1>2. "queries" \notin DOMAIN answer /\ "answer" \in DOMAIN handler[a]
  BY <1>1 DEF AnswersOK
<1>3. /\ Runs(client[a].request) /\ Tells(a, client[a].request, answer)
      /\ {"ok", "status"} \subseteq DOMAIN answer
      /\ "keys" \in DOMAIN answer => KeysTell(answer)
      /\ client[a].at \in {"waiting", "failed"} /\ "request" \in DOMAIN client[a]
  BY <1>1 DEF ThreadTells, InThread
<1>4. /\ CounterOrder[1] = "keys" /\ CounterOrder[2] = "hits"
      /\ CounterOrder[3] = "misses" /\ CounterOrder[4] = "queries"
  BY DEF CounterOrder
<1> HIDE DEF answer
<1>5. name \in 1..4 /\ Next4(name)
  <2>1. Next4(1) \/ Next4(2) \/ Next4(3) \/ Next4(4)
    BY <1>2, <1>4
  <2> HIDE DEF Next4
  <2>2. \E n \in 1..4 : Next4(n)
    BY <2>1
  <2>3. QED
    BY <2>2
<1> HIDE DEF name
<1>6. key \in {"keys", "hits", "misses", "queries"} /\ (name = 4 => "keys" \in DOMAIN answer)
  BY <1>4, <1>5
<1>7. /\ now.ok = answer.ok /\ now.status = answer.status
      /\ {"ok", "status"} \subseteq DOMAIN now
  BY <1>3, <1>6
<1>8. "keys" \in DOMAIN now => KeysTell(now)
  <2>1. CASE key = "keys"
    BY <1>3, <1>7, <2>1 DEF KeysTell, Tells, RaisedBy
  <2>2. CASE key # "keys"
    BY <1>3, <1>7, <2>2 DEF KeysTell
  <2>3. QED
    BY <2>1, <2>2
<1>9. Tells(a, client[a].request, now)
  BY <1>3, <1>7 DEF Tells, RaisedBy
<1>10. name = 4 => "keys" \in DOMAIN now
  BY <1>6
<1>11. PICK given : given = now
  OBVIOUS
<1>12. handler'[a].answer = given /\ handler'[a].at = IF name = 4 THEN "answer" ELSE "counters"
  <2> HIDE DEF now
  <2>1. r.answer = now /\ r.at = IF name = 4 THEN "answer" ELSE "counters"
    BY <1>2
  <2>2. QED
    BY <1>1, <1>11, <2>1
<1> HIDE DEF now, r, Next4, key, value
<1>13. /\ {"ok", "status"} \subseteq DOMAIN given
       /\ "keys" \in DOMAIN given => KeysTell(given)
       /\ Tells(a, client[a].request, given)
       /\ name = 4 => "keys" \in DOMAIN given
  BY <1>7, <1>8, <1>9, <1>10, <1>11
<1>14. client'[a] = client[a] /\ raised' = raised /\ Cached' = Cached
  BY <1>1 DEF Cached
<1>15. CASE name = 4
  <2>1. handler'[a].at = "answer"
    BY <1>12, <1>15
  <2>2. AnswerOK(a, client[a].request, given)'
    BY <1>3, <1>13, <1>14, <1>15 DEF AnswerOK, Runs, Tells, RaisedBy, KeysTell
  <2>3. QED
    BY <1>3, <1>12, <1>14, <2>1, <2>2 DEF ThreadTells, InThread, Answered, AnswerOK, Runs, Tells, RaisedBy,
                                           KeysTell, Refused
<1>16. CASE name # 4
  <2>1. handler'[a].at = "counters"
    BY <1>12, <1>16
  <2>2. QED
    BY <1>3, <1>12, <1>13, <1>14, <2>1 DEF ThreadTells, InThread, Answered, Runs, Tells, RaisedBy, KeysTell
<1>17. QED
  BY <1>15, <1>16

LEMMA ReplyTells ==
  ASSUME DaemonInv, NEW a \in Actors, ThreadTells(a), Reply(a)
  PROVE  ThreadTells(a)'
<1> USE DEF DaemonInv, ShapeOK
<1>1. /\ handler[a].at = "answer" /\ handler'[a].at = "none" /\ Cached' = Cached /\ raised' = raised
      /\ AnswerOK(a, client[a].request, handler[a].answer)
      /\ client[a].at \in {"waiting", "failed"} /\ "request" \in DOMAIN client[a]
  BY DEF Reply, InThread, NoThread, ThreadTells, Cached
<1>2. CASE client[a].at = "waiting"
  <2>1. /\ client'[a].at = "answered" /\ client'[a].request = client[a].request
        /\ client'[a].answer = handler[a].answer /\ client'[a].exit = ExitCode(handler[a].answer)
        /\ "request" \in DOMAIN client'[a]
    BY <1>2 DEF Reply
  <2>2. PICK given : given = handler[a].answer
    OBVIOUS
  <2>3. AnswerOK(a, client[a].request, given)'
    BY <1>1, <2>1, <2>2 DEF AnswerOK, Runs, Tells, RaisedBy, KeysTell, Refused
  <2>4. QED
    BY <1>1, <2>1, <2>2, <2>3 DEF ThreadTells, InThread, Answered, AnswerOK, Runs, Tells, RaisedBy, KeysTell,
                                   Refused, ExitCode
<1>3. CASE client[a].at # "waiting"
  <2>1. client' = client
    BY <1>3 DEF Reply
  <2>2. QED
    BY <1>1, <1>3, <2>1 DEF ThreadTells, InThread, Answered
<1>4. QED
  BY <1>2, <1>3

\* The other steps of a client and its thread.
LEMMA RequestTells ==
  ASSUME DaemonInv, [Next]_vars, NEW a \in Actors, ThreadTells(a),
         \/ Client(a) \/ Accept(a) \/ SeeClosed(a)
         \/ Refuse(a) \/ Stats(a) \/ Shutdown(a) \/ CountQuery(a)
  PROVE  ThreadTells(a)'
<1> USE DEF DaemonInv, ShapeOK
<1>1. CASE \E request \in Requests[a] : Send(a, request)
  <2>1. /\ client'[a].at \in {"waiting", "failed"} /\ "request" \in DOMAIN client'[a]
        /\ handler' = handler /\ client[a].at \in {"idle", "answered"}
    BY <1>1 DEF Send
  <2>2. handler'[a].at = "none"
    BY <2>1 DEF ThreadTells, InThread
  <2>3. QED
    BY <2>1, <2>2 DEF ThreadTells, InThread, Answered
<1>2. CASE TimeOut(a) \/ SeeClosed(a)
  <2>1. /\ client[a].at = "waiting" /\ client'[a] = [client[a] EXCEPT !.at = "failed"]
        /\ UNCHANGED <<handler, job, raised, cache>>
    BY <1>2 DEF TimeOut, SeeClosed, exec
  <2>2. /\ client'[a].at = "failed" /\ client'[a].request = client[a].request
        /\ "request" \in DOMAIN client'[a]
    BY <2>1 DEF ThreadTells
  <2>3. JobOK(a) => JobOK(a)'
    BY <2>1, <2>2 DEF JobOK, RaisedBy, Cached
  <2>4. QED
    BY <2>1, <2>2, <2>3 DEF ThreadTells, InThread, Answered, Tells, RaisedBy, AnswerOK, Runs, KeysTell,
                             Refused, Cached
<1>3. CASE Accept(a)
  <2>1. /\ client' = client /\ client[a].at = "waiting"
        /\ handler'[a].at = "handle" /\ handler'[a].request = client[a].request
    BY <1>3 DEF Accept
  <2>2. QED
    BY <2>1 DEF ThreadTells, InThread, Answered
<1>4. CASE Refuse(a) \/ Stats(a) \/ Shutdown(a) \/ CountQuery(a)
  <2>1. /\ client' = client /\ client[a].at \in {"waiting", "failed"}
        /\ handler[a].at = "handle" /\ handler[a].request = client[a].request
        /\ "request" \in DOMAIN client[a]
    BY <1>4 DEF Refuse, Stats, Shutdown, CountQuery, ThreadTells, InThread
  <2>2. CASE Refuse(a)
    <3>1. handler'[a].at = "answer"
      BY <2>2 DEF Refuse, Answering
    <3>2. PICK status :
            /\ handler'[a].answer = Refusal(status)
            /\ \/ ~client[a].request.local /\ status = "BQL_DAEMON_REJECT_NON_LOCALHOST"
               \/ /\ client[a].request.local /\ status = "BQL_DAEMON_ERROR"
                  /\ client[a].request.cmd = "query" => client[a].request.max = "text"
               \/ client[a].request.cmd # "query"
      BY <2>1, <2>2 DEF Refuse, Answering
    <3>3. AnswerOK(a, client[a].request, handler[a].answer)'
      BY <2>1, <3>2 DEF AnswerOK, Refused, Refusal, Runs
    <3>4. QED
      BY <2>1, <3>1, <3>3 DEF ThreadTells, InThread, Answered
  <2>3. CASE Stats(a) \/ Shutdown(a)
    <3>1. handler'[a].at = "answer" /\ client[a].request.cmd # "query"
      BY <2>1, <2>3 DEF Stats, Shutdown, Answering
    <3>2. QED
      BY <2>1, <3>1 DEF ThreadTells, InThread, Answered, AnswerOK
  <2>4. CASE CountQuery(a)
    <3>1. /\ handler'[a].at = "query" /\ Runs(client[a].request)
          /\ job'[a].at = "parse" /\ job'[a].query = client[a].request.query
          /\ "query" \in DOMAIN job'[a]
      BY <2>1, <2>4 DEF CountQuery, Start, Runs
    <3>2. JobOK(a)'
      BY <2>1, <3>1 DEF JobOK, RaisedBy
    <3>3. QED
      BY <2>1, <3>1, <3>2 DEF ThreadTells, InThread, Answered, Runs
  <2>5. QED
    BY <1>4, <2>2, <2>3, <2>4
<1>5. QED
  BY <1>1, <1>2, <1>3, <1>4 DEF Client

LEMMA OutcomeNext ==
  ASSUME OutcomeInv, [Next]_vars, NEW a \in Actors
  PROVE  ThreadTells(a)'
<1>1. DaemonInv /\ AnswersOK /\ ThreadTells(a)
  BY DEF OutcomeInv, AnswersInv, CountsInv
<1>2. CASE Environment \/ UNCHANGED vars
  <2>1. client' = client /\ handler' = handler /\ job' = job
    BY <1>2 DEF Environment, ExecEnvironment, CreateRoot, AppendLine, Tick, daemon, vars, exec
  <2>2. QED
    BY <1>1, <2>1, ThreadKept
<1>3. CASE Exit
  <2>1. /\ client' = client /\ handler'[a].at = "none" /\ raised' = raised /\ Cached' = Cached
    BY <1>3 DEF Exit, NoThread, Cached
  <2>2. QED
    BY <1>1, <2>1 DEF ThreadTells, InThread, Answered, AnswerOK, Tells, RaisedBy, Runs, KeysTell, Refused
<1>4. ASSUME NEW b \in Actors \ {a}, Client(b) \/ Serve(b)
      PROVE  ThreadTells(a)'
  BY <1>1, <1>4, OthersStay, ThreadKept
<1>5. CASE CacheHit(a) \/ CacheMiss(a) \/ KeepSnapshot(a) \/ LoadFails(a) \/ Execute(a)
  <2>1. InThread(a, "query") /\ Runs(client[a].request) /\ JobOK(a)' /\ UNCHANGED <<client, handler>>
    BY <1>1, <1>5, JobNext
  <2>2. QED
    BY <1>1, <2>1 DEF ThreadTells, InThread, Answered, Runs
<1>6. CASE Contract(a) \/ ReadCounter(a) \/ Reply(a)
  BY <1>1, <1>6, ContractTells, CounterTells, ReplyTells
<1>7. CASE \/ Client(a) \/ Accept(a) \/ SeeClosed(a)
           \/ Refuse(a) \/ Stats(a) \/ Shutdown(a) \/ CountQuery(a)
  BY <1>1, <1>7, RequestTells
<1>8. QED
  BY <1>2, <1>3, <1>4, <1>5, <1>6, <1>7 DEF Next, Serve, Handle

(* The answer a client gets is of its own request and says what became of it,
   and so does the exit code, whatever the other clients do and whether or not
   the client that sent a request has given up. *)
THEOREM AnswersTell == Spec => []AnswerTellsOutcome
<1>1. Init => OutcomeInv
  BY CountsInit, OutcomeInit DEF OutcomeInv, AnswersInv, AnswersOK, Init, NoThread, Answered
<1>2. OutcomeInv /\ [Next]_vars => OutcomeInv'
  BY DaemonNext, CountsNext, AnswersNext, OutcomeNext DEF OutcomeInv, AnswersInv, CountsInv
<1>3. OutcomeInv => AnswerTellsOutcome
  <2> SUFFICES ASSUME OutcomeInv, NEW a \in Actors, Answered(a), client[a].request.cmd = "query",
                      NEW request, request = client[a].request,
                      NEW answer, answer = client[a].answer
               PROVE  /\ (client[a].exit = 0) <=> answer.ok
                      /\ ~request.local => answer.status = "BQL_DAEMON_REJECT_NON_LOCALHOST"
                      /\ request.local /\ request.max = "text" => answer.status = "BQL_DAEMON_ERROR"
                      /\ request.local /\ request.max # "text" =>
                           /\ answer.ok => Accepted(request.query) /\ answer.keys # {}
                           /\ ~answer.ok /\ Accepted(request.query) =>
                                \E i \in DOMAIN raised :
                                  raised[i].by = a /\ answer.status = LoadStatus(raised[i].error)
                           /\ ~Accepted(request.query) => answer.status \in ParseStatuses
    BY DEF AnswerTellsOutcome, ParseStatuses
  <2>1. AnswerOK(a, request, answer) /\ client[a].exit = ExitCode(answer)
    BY DEF OutcomeInv, ThreadTells
  <2>2. CASE ~request.local
    BY <2>1, <2>2 DEF AnswerOK, Refused, ExitCode
  <2>3. CASE request.local /\ request.max = "text"
    BY <2>1, <2>3 DEF AnswerOK, Refused, ExitCode
  <2>4. CASE request.local /\ request.max # "text"
    <3>1. Tells(a, request, answer) /\ KeysTell(answer)
      BY <2>1, <2>4 DEF AnswerOK, Runs
    <3>2. (client[a].exit = 0) <=> answer.ok
      BY <2>1, <3>1 DEF Tells, RaisedBy, ExitCode
    <3>3. QED
      BY <2>4, <3>1, <3>2 DEF Tells, KeysTell, RaisedBy
  <2>5. QED
    BY <2>2, <2>3, <2>4
<1>4. QED
  BY <1>1, <1>2, <1>3, PTL DEF Spec
=============================================================================
