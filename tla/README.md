# BalloonDB: a TLA+ model

BalloonDB (`python_ref/balloondb_core`, with a Rust core beside it) keeps seeds
and bridges (the nodes and edges of a memory graph) in append-only files and
in snapshot directories, and answers BQL queries over them. It has two storage
lines, which share no file:

* **V03H**: a record store, a write-ahead log and a recovery that replays the
  one into the other;
* **V00J to V00M**: binary record files with a delta log, an index, compaction
  into snapshots, and versioned snapshots with a `CURRENT` pointer.

A **query side** reads a third kind of directory, the *memory root*: a parser and a
planner, an executor that filters with a timestamp index, a command line that keeps a
history of its queries, and a daemon whose threads share a cache.

Nothing in the storage lines or the history takes a lock, so what they promise rests
on the order of file operations; the daemon has one lock, and what it promises rests on
what is done outside it. That is what the modules here describe. Line numbers are
those of the files in `src/python_ref/balloondb_core/`.

## Inventory

| component | state | operations | works with | hard behaviour | what makes it correct | here |
|---|---|---|---|---|---|---|
| record store, `storage_format_v03h1.py` | one file of checksummed frames | append, read all, summarise | appended to by recovery | a write cut short leaves a torn frame inside the file | a reader yields the frames before the first torn one | `FramedLog` |
| write-ahead log, `wal_v03h2.py` | one file of frames with sequence numbers | begin, commit, abort, checkpoint, scan, direct replay | clients append, recovery scans | numbering and appending are two steps; transaction ids are reused; ABORT after COMMIT | only the last intent of a committed, not aborted transaction is handed to recovery | `Wal` |
| crash recovery, `crash_recovery_v03h3.py` | state file with applied ids, its `.tmp` | `recover_database` | reads the log, appends to the store | dies between append and save, failed appends, two recoveries, power loss | nothing is forgotten for ever, nothing is remembered that is not stored, nothing uncommitted is stored | `CrashRecovery`, `AtLeastOnce` |
| transaction snapshots, `binary_transaction_v00m.py` | version directories, `CURRENT` | stage, commit, recover | readers beside a writer | a directory is rebuilt file by file under a reader; crashes; rot | recovery returns the newest version that is whole | `BinaryTransaction` |
| compaction, `binary_snapshot_v00l.py` | `.staging`, snapshot and `.prev` directories | compact, recover | delta log and base files of V00J, index of V00K | dies between two renames; the log is replayed over its own snapshot | a complete snapshot always exists, and holds what the log says | `Compaction` |
| record format, `binary_format_v00j.py` | header with a count, records with CRCs | write, read, verify, damage a copy | used by V00K and V00L | files are rewritten in place; two readers in two languages | a file cut short is rejected as a whole, by both | `BinaryFormat`, `BinaryStore` |
| binary index, `binary_index_v00k.py` | index file with digests | build, look up, mini query, verify | reads V00J files | the files are rewritten while they are indexed; positions in sorted rows | answers like a scan, of whole versions | `BinaryStore` |
| Rust core and bridges, `v00j.rs`, `lib.rs`, `batch_v00q.rs`, `rust_*_v00o/p/q.py` | none | write, read, encode, choose a backend | called from Python | two programs for one format | same bytes and same verdicts as Python | `BinaryFormat`, `BinaryStore` |
| BQL parser and planner, `bql_parser.py`, `bql_planner.py` | none | parse, validate, plan | feeds the executor | the order of the checks decides the error | rejects what is not read-only, with the right error | `BqlParser` |
| BQL executor, time filters, timestamp index | none | load, expand, look up, filter | loads a memory root | the root and the clock move on during a query; boundaries | index lookup equals filtering | `BqlExecutor`, `TsIndex` |
| daemon and client, `bql_daemon.py`, `bql_daemon_client.py` | cache of memory roots, counters, one lock | query, stats, shutdown | threads around the executor | two threads miss at once, a load that raises, counters read without the lock, a shutdown with requests in flight | counters add up, one load per root, every request ends | `BqlDaemon` |
| query history, `bql_query_history.py` | a bounded JSON-lines file, its `.tmp`, traces | record, rotate, trace | every query with history | rotation by several processes; a recording that fails after the answer | newest rows, one outcome per query | `QueryHistory` |
| command line, `cli.py` | none | query, and printing | executor and history | | the exit code tells the outcome | `cmd_query`, in `QueryHistory` |
| selftests, gates, scripts | none | | | | | not modelled: they are the tests |

`PROJECT.json` lists the hazards one by one, each at its line, with the
properties that would catch it or the reason why none does.

## Modules

### `FramedLog`: the file both logs are

A log is a sequence of frames. A frame is whole, with its value, or torn. What
follows a torn frame is still in the file, because nothing truncates it, and the
next append (open mode `ab`) goes behind it. `Visible` is the loop of
`iter_records` and `iter_wal_records`: it yields the frames before the first
torn one. The reader then takes the missing bytes of the torn frame from its
successors. When there are too few it meets the end of the file, takes the torn
frame for a partial tail and stops quietly. When there are enough, the
checksum is wrong and it raises. A torn frame carries the number of successors
it needs as its `gap`, and `Readable` tells the two outcomes apart.

### `Wal`: the clients of the log

`call[c]` is a record that `append_wal_record` has numbered (line 86) and not
written (lines 91-96). `StartAppend` is the first half and `FinishAppend`,
`TearAppend` or `LoseCall` the second; another client may act in between.
`IntentOf`, `Committed` and `SortedBefore` are `recover_transactions`: the last
INTENT wins, an ABORT beats a COMMIT wherever the two stand, and the stable sort
by number keeps the place of the first INTENT among equals. `CommittedIn` says
what commitment means over the whole log with quantifiers, without the dicts of
the code: `StoreJustified` is stated with it.

### `CrashRecovery`: `recover_database`

One action per step that another process can see: load the state file
(57-58), scan the log (60), one action for each outcome of an intent in the loop
(65-98), open and truncate the `.tmp` file (43), write it (43), rename it (44),
read the store back and return (116-144). The locals of a call are functions over `Recoverers`. A
process can die anywhere (`Crash`). `store` is synced by `append_record`; the
state file is not (`synced` is what the disk has of it), so `PowerLoss`
leaves the new state file, the old one or one that json cannot read. An append
that fails (`FailRecord`) leaves a torn frame, or a whole one when only its
`fsync` failed. The name of the `.tmp` file does not depend on the process, so
two recoveries share it: `opened` follows the file a call has open through the
renames of the others (`Renamed`), so that a late text may land in the state file
itself, or behind a shorter one (`Overwritten`). A write may also raise half way
(`WriteRaises`); the state file is then the old one.

### `AtLeastOnce`: the promise

Entries are decided; a decided entry is applied, perhaps more than once; what is
remembered as applied was applied. `CrashRecovery!Ledger` instantiates it:
`decided` is what the log ever committed, `copies` counts records in the store,
`remembered` is the state file. Forgetting is allowed, because a crash, a
power loss or a race of recoveries can take the state file back; remembering what was
not applied is not.

### `BinaryTransaction`: V00M

`dir[v]` is the function from the files that exist in version `v` to their
content. A writer's call removes the old directory file by file (in any order,
as `rmtree` may), writes the five files in the order of the code, and, when it
is a commit, replaces `CURRENT`. `_write_bytes_atomic` makes each file appear
whole, but no directory is synced: `PowerLoss` takes any of the last call's
changes back (`before` has what there was). A reader reads `CURRENT`, lists the
directories, tries the versions newest first, reads the files one by one and
their digests at the end. `completed`, `activated`, `touched` and `clean`
are history variables for the properties.

### `Compaction`: V00L

A map has its payloads by kind and name, so one function stands for the seed map and the
bridge map. The name of a payload is its id, or a fallback: `rid:` with the digest of the
record where a file is loaded (`Rid`), `wal_seed_` or `wal_bridge_` with the number of upserts
before where the log is replayed (`WalName`). Names are of one space, as the strings of the code are: an
id may be the fallback of another payload, and then an upsert or a `DELETE` with it is about that
payload. `Replay` is a recursive function over the records of the base and then the
entries of the log, with `Apply` for one entry of `_apply_wal`. `Rebase` takes the files of a
snapshot, sorted by name, the seeds before the bridges (`Sorted`), for the next base. The rename protocol of `_atomic_replace_dir` is step by
step. What `.staging` holds is never read by anyone, so only the maps it was built from are
kept. A delta log that was being rewritten in place when its writer died is
`Unreadable`.

`SnapshotIsReplay` says what the snapshot has by places of the whole story, the base and then the
log: the places that store a payload under a name not mentioned again. `UnnamedAreKept` says what this means for
payloads without an id, whose names nobody chose.

### `TsIndex`, `BqlParser`, `BqlExecutor`: a query

`TsIndex` has `parse_ts_ms` (a value that may be `None` is a set of at most one
element), the sorted parallel columns of `TSIndex`, with the order of `repr` between
equal timestamps, and `range_lookup` with its two bisections. A float is in tenths of
a millisecond, so that truncation towards zero shows.

`BqlParser` is what is pure: a query text is the record of what the regular expressions
tell apart in it. `Faults` is the list of the checks of `parse` in their order, each with
those phrases of its message that `classify_error` searches for, and `First` finds the one
that raises.

`BqlExecutor` is `execute`, step by step, for any number of `Actors` (threads or
processes): `ParseQuery` or `RejectQuery`; `BeginLoad` and `LoadFile`, file by file, because a
writer may append to the memory root (`AppendLine`) between two of them; `LoadRaises`, for a file that is
not UTF-8 (that of a `.json` is caught, as malformed JSON is), or for what the system may raise
at the listing of a directory or the opening of a file (`OsErrors`): a directory that is named like a file, a
file without permission, one that was removed after it was listed; `Lookup` in the
index with one reading of the clock; `FilterRow`, row by row, each with a later one (`Tick`);
`Answer`. Its list comprehensions are `Sublist` of the module `Lists`, which, with `InOrder`,
has two definitions in a form that proofs can use. `LookupRaises` is the fallback of line 185 for what the index code itself does not
catch. `IndexAgreesWithScan` compares the end of a run with the index to the scan at
the same readings of the clock.

### `QueryHistory`: rows, rotation, traces

It EXTENDS the executor: `CallExecute` starts a query, and what the executor returns or
raises decides what is recorded. The log and its `.tmp` are names for files (`disk.live`,
`disk.tmp`, `disk.data`): a process that has opened the log for appending, or `.tmp` for
writing, keeps its file when another process renames over the name or truncates it, which
is how rows are lost and how torn lines come about. `OpenLog`, `AppendRow`, `ReadRows`,
`OpenTmp`, `WriteTmp`, `ReplaceLog` are lines 135, 136, 108-111, 113, 114-115, 116.
`ReplaceRaises` is a `.tmp` that another process has renamed away. Every exception of the
recording goes to the handler of line 269 (`Interrupted`), which records a second row, after an
`ok`. The calls are `run_query_with_history`, the command line's `query` (with its exit
codes), `record_query_history` and `create_explain_trace` alone.

`LogSanitizer`, which it EXTENDS too, is `sanitize_for_log`, as a function of the levels that
are left to go down (`Sanitizing`). `Extras` is what callers may give, with all items of it.
`Small` says without the walk what may be left: dicts and lists of a bounded number of items
down to a bounded depth, no secret in clear. `RowsAreBounded` is about the rows made with it.

### `BqlDaemon`: threads, cache, counters

One client and one thread of the server per actor; `handler[a]` is the thread and
`client[a]` the connection. Its executor is `BqlExecutor`, with `load_memory` replaced as line 33
does: `CacheHit`, `CacheMiss` (counts, and keeps the lock during the load, file by file),
`KeepSnapshot`, `LoadFails` (the `with` releases the lock when the load raises). `raised` remembers whose load
raised what. `Contract` makes the envelope, with a status that `classify_error` takes from the
phrases of the message before it looks at the class; `ReadCounter` reads the keys and the counters one by one, in the order of
lines 87-90, without the lock. `Shutdown` stops the server from a thread of its own; `Exit` is the end
of `serve_forever`, which ends all threads, as they are daemon threads: answers that are not
yet written are lost, that of `shutdown` among them. A client waits until an answer, a closed
connection or its timeout.

### `BinaryFormat`, `BinaryStore`: V00J and V00K, in Python and Rust

`BinaryFormat` is pure. A file is a sequence of cells, and a field of the header or of a record is a
cell; a payload is a sequence of cells too. `ReadPython` counts records, `ReadRust` goes to the
end of the data and compares the count; the encoders are `PackRecord`, `PushRecord`, the two of the batch
and BRS1. CRC-32 and SHA-256 are taken to tell different payloads apart (`Crc`, `Digest`). The loops of the
readers (`PythonRecords`, `RustRecords`) and of the writer in Rust (`WriteRust`) are recursive
functions of the number of turns.

`BinaryStore` is the state: two files, written in place by one writer that may use either
language and die after any cell; an indexer that reads the seeds, then the bridges, a buffer at a time of each
(`ReadSome`: the file that is open is emptied and rewritten in place meanwhile, and the reader goes on
where it was), then writes the index, which may be cut off too; a caller beside them that encodes a record or a
batch, or damages a copy of a file or of an index. `begun` and `versions` remember what was written,
and `raced` which files were rewritten while they were read for the index there is.
An index is its rows, sorted, and for each of five fields the positions of each key.

## Runs

| run | bounds | shows |
|---|---|---|
| `RecoverySafety` | 1 client, 1 recovery, 2 transactions, one intent of each kind, 4 log records, 1 failed write, 1 crash or power loss | `TypeOK`; `RememberedIsStored`; `StoreJustified`; `PassMeansApplied`; `CopiesBounded`; `SeqIsPlace`; `NeverForgets` |
| `RecoveryConcurrent` | 2 clients, 2 recoveries, 1 transaction, 2 log records, 1 crash or power loss | the safety properties that hold for any number of processes: `RememberedIsStored`, `StoreJustified`, `PassMeansApplied` |
| `RecoveryLiveness` | 1 client, 1 recovery, 2 transactions, 3 log records, 1 failed write, 1 crash | `CommittedIsApplied` and the refinement `ImplementsAtLeastOnce` |
| `TransactionSafety` | versions 1 and 2, 2 contents, 1 reader, 2 calls of the writer, 1 crash or power loss, 1 corruption | `RecoveredIsWhole`, `RecoversBest`, `ActivatesPresent`, `TypeOK` |
| `CompactionSafety` | 2 kinds, 7 payloads: 2 of one id, 3 without any, 1 with the `rid:` of another for its id, 1 with `wal_seed_0`; bases of up to 1 record, logs of up to 2 entries, deletes of all three ids among them, 3 compactions, 1 crash | `SnapshotIsReplay`, `UnnamedAreKept`, `SnapshotKept`, `TypeOK` |
| `QueryHistory` | 2 processes, the first with any one of 8 calls, the second with a query that is rejected; 1 root of 4 files of 1 or 2 lines, the third not all records; an open that may raise `FileNotFoundError`; 2 readings of the clock, 1 crash or failed write, `MaxEntries` = 1 | `NewestKept`, `HistoryBounded`, `OutcomeRecorded`, `TraceTellsOutcome`, `RowsAreBounded`, `IndexAgreesWithScan`, `TypeOK` |
| `BqlDaemon` | 2 clients, one that queries twice, the other with one out of 9 requests (stats, shutdown, refused, malformed, unknown, a bad number, 2 bad texts, a query); a root that may get a file that cannot be decoded, and loads that may raise `PermissionError` | `LoadedOnce`, `CountersConsistent`, `AnswerTellsOutcome`, `OneSnapshotPerRoot`, `EveryRequestEnds`, `TypeOK` |
| `BinaryStore` | 3 rows, 4 different writes of up to 2 rows, 3 writes in sequence, each by either language and each cut off anywhere; a buffer of 13 cells; every change of one cell of a copy; trusts 0 and 3 | `CompleteOrRefused`, `ReadersAgree`, `EncodersAgree`, `DamageIsSeen`, `LookupIsScan`, `IndexIsOfVersions`, `TypeOK` |
| `Finding...` | as above | four claims of the repository that the code does not keep, below |

**Why these bounds are enough.** A second transaction is what makes skipping,
ordering and the errors of another intent visible; four log records are an
INTENT and a COMMIT of both, or a reused id with an ABORT. One fault of each
kind is enough to separate an append from its save, and a second recovery comes
after it, since calls of `recover_database` are not bounded. The run with two
recoveries needs one committed transaction only, because the recoveries race for
the state file and not for the log; with two log records the clients still race for
their numbers. In V00M two versions and two calls cover restaging a committed version and falling
back; in V00L the third compaction is the first that has a `.prev` to remove; two entries are an upsert
and another, or a `DELETE`, of the same name, and a base of more than one record comes from a snapshot
(`Rebase`).
In the history one entry and two rows are enough to rotate, and two processes to
rename and truncate each other's files; a third row shows that the older one goes. In
the daemon two threads miss the cache at once, and the second query of the first client comes
after a load that raised, or finds the snapshot; an actor more adds only another waiter at the
lock (the theorems below are for any number). In V00J two rows
are the least that has a record after another, the buffer ends between the two, and the third write is the one that replaces a file
that an index was built from. To keep the run small, the calls beside the writer are made one at a
time, encodings before any write (they depend on no file), damaged copies between two
writes and before there is an index.
`MaxWal`, `MaxFaults`, `MaxCrashes`, `MaxCalls`, `MaxRot`, `MaxBase`, `MaxEntries` (of
`Compaction`) and `MaxRuns`, and, for the query side and the binary files, `MaxLines`,
`FirstClock`, `LastClock`, `TickBy`, `MaxCalls` and `MaxWrites`, are bounds of the model,
not of the code. The proofs hold for every value of them. `MaxEntries` of
`QueryHistory`, `DefaultMax`, `MaxDepth`, `MaxItems`, `MaxRadius`, `MaxTop`, `LastHour` and
`NamedWindows` are the code's own limits, and `Buffer` that of the file it reads, with small values.

**Symmetry** is used in safety runs only, over sets of model values that no
operator tells apart.

**Deadlock** checking is off: with all bounds used up the system really has
nothing left to do.

**Fairness.** `FairSpec` asks that each recoverer that can take a step takes one
in the end. Inside a call this is the processor's promise. Between calls it
says that recovery is run again, which is how the module is used: nothing in
the code schedules it, so a deployment that never calls it promises nothing.
Clients, crashes, faults and power losses are not fair. `CommittedIsApplied`
excepts what the code cannot repair: a log that has become unreadable behind a
torn frame, and a state file that json rejects (every later call raises).

The `FairSpec` of `BqlDaemon` asks that a server that was told to stop exits (`Exit`) and that
each connection is served (`Serve(a)`: it is accepted, its thread is scheduled, a closed
connection is seen to be closed). These are promises of the operating system. Clients need not
send anything and need not time out, so that `EveryRequestEnds` is not true for the timeout's
sake. Python's lock is not a fair one, but weak fairness is enough here: the clients make a bounded
number of calls, so nobody can be overtaken for ever. The history and the binary files have no
liveness worth a run: their calls are sequential and wait for nobody.

## Findings

* `PassMeansVisible`: a torn frame left by an earlier failed append hides the
  records appended behind it, and recovery still returns PASS.
* `AppliedOnce`: the ids are saved after the loop, so a crash within it applies
  a transaction twice. `CopiesBounded` says how often at most.
* `StagedIsNotActive`: recovery in V00M takes the newest valid version and not
  the one `CURRENT` names.
* `SnapshotRecovers`: between the two renames of V00L no snapshot has the name
  that `recover_snapshot` looks under, although a complete one exists
  (`SnapshotKept`).

One line of a document is at odds with the code and needs no run to be seen: the specification of V00Q
(`specs/RUST_BATCH_BACKEND_BENCHMARK_V00Q.md` 5, 13, 14) says that V00Q does not change the
format of V00J, and calls a batch V00J framing. The header of a record is id, length, CRC and two zeros in
V00J (`binary_format_v00j.py` 121), and id, kind, trust, length and CRC in a batch
(`rust_batch_backend_v00q.py` 24-31, and `batch_v00q.rs`): no reader reads a batch.
`EncodersAgree` says of a batch only that both backends make the same.

The runs of the query side found nothing that a document or a test contradicts. What looks odd
there, and elsewhere, and is modelled as it is, or is outside of what any line of the repository
claims:

* Two recoveries at once can leave the state file of V03H3 empty or garbled, by truncating
  and writing the `.tmp` file the other renames. Nothing repairs it: every later recovery raises.
  `NeverForgets` is about one recovery at a time for that reason.
* The parser accepts the windows `last_day` and `last_7_days`, and `ts = 5`; the executor
  finds nothing for any of them. It reads the radius and the direction of no query.
* The executor's window is exclusive and has no upper end, while `match_ts_filter`, which only a
  selftest calls, has an inclusive one that ends now.
* A filter with bad syntax is reported as `BQL_TIME_FILTER_PARSE_ERROR`, because its message
  has the word `timestamp`.
* A query whose answer is there, but not its record, is recorded as `ok` and then as `error`
  (`OutcomeRecorded` says when that may happen).
* The command line's query without a command (`cli.py` 141-146) is never reached: argparse takes a
  lone argument for the name of a command and exits.
* A client that sends `shutdown` may see its connection closed instead of an answer.
* A file without permission is reported as `BQL_READONLY_SAFETY_ERROR`, and one that cannot be opened
  and has `timestamp` in its path as `BQL_TIME_FILTER_PARSE_ERROR`, since the message of an `OSError` has the
  path (`LoadStatus`).
* The index of V00K shows `rid:<n>` as the id of a payload without one. A delta log that takes it for an id
  deletes or replaces that payload in the base, but not a payload of the log, which has the name
  `wal_seed_<n>` until the snapshot is loaded again.
* A payload without an id that is in the base and in the log is stored twice by a compaction. Loading that
  snapshot makes them one, and replaying the log over it two again.
* An index may have the first records of one version of a file and the last ones of another, and verify: the file
  was rewritten while it was read, and is longer than the buffer. CRCs and ids are of single records,
  and nothing is of a file. `IndexIsOfVersions` excepts just such files, and says what is left for them.

## Proofs

TLAPS checks these for every value of the constants, under the named assumptions of the
modules. `GapsAssumption`, `WalAssumption`, `RecoveryAssumption`: the kinds of intents are
disjoint, gaps are positive, bounds are natural numbers, and a state file that cannot be read
is not a set of ids. The sets of processes, transactions and intents are arbitrary.
`TransactionAssumption`: versions are positive numbers, and a file that fails its checks is
neither data nor a manifest. `BqlDaemonAssumption`: clients and roots are finitely many, and
queries name one of the roots; the texts, the memories and the calls are arbitrary.
`QueryHistoryAssumption` and `RequestsAssumption`: processes are finitely many, `MaxEntries`
is any integer, and calls are of texts that have a name, with a known root and a number for
their limit or their count; stages that a caller gives of its own have integers for their ends, in
any order, and extras are of `Extras`. `QueriesAssumption`: the top of a query is a number and
it compares with what may be a timestamp. `MemoriesAssumption`: a root is a sequence of
files, and the `ts` of a record is something JSON gives. `LogSanitizerAssumption` and
`DiagnosticAssumption`: an item of a dict or list of `Extras` is in `Extras`, and so is the
executor's diagnostic; nothing bounds their depth or length.
`OsErrorsAssumption`: what the system raises is an `OSError` or of one of three subclasses, and of the
phrases that `classify_error` looks for a path may have `timestamp`.
`BinaryStoreAssumption`: trusts are natural numbers, rows are a sequence of at least one, each payload has
a positive size, the buffer is not empty, and a write is of a kind and of some of the rows.
`CompactionAssumption`: what stands for the absence of an id is not an id, and of two names, or
two kinds, one comes first. Nothing is assumed of ids: all fallbacks may be ids.

| module | result |
|---|---|
| `WalProofs` | lemmas of `FramedLog`, on `Visible`, `Records`, `Written`, prefixes, and on the greatest number of a log; a new number is larger than all visible ones; what a scan returns was committed (`CommittedSound`, `ScanIsCommitted`); what was once committed stays so when the log grows (`OnceCommittedStable`) |
| `CrashRecoveryProofs` | `TypeCorrect`: `Spec => []TypeOK`; `Safety`: `Spec => []SafetyInv`, and from it `RememberedCorrect`, `StoreCorrect`, `PassCorrect`; `SeqCorrect`: `Spec => []SeqIsPlace`; `AloneCorrect`: `Spec => []AloneInv`; `StateFileGrows`: `Spec => NeverForgets`; `CopiesCorrect`: `Spec => []CopiesBounded`; `RecoveryRefinesLedger`: `Spec => ImplementsAtLeastOnce` |
| `BinaryTransactionProofs` | `TypeCorrect`, `RecoveryReturnsWhole`: `Spec => []RecoveredIsWhole`; `RecoveryFindsBest`: `Spec => []RecoversBest`; `CurrentIsPresent`: `Spec => ActivatesPresent` |
| `CompactionProofs` | `SnapshotIsKept`: `Spec => []SnapshotKept`; `TypeCorrect`; `SnapshotsAreReplays`: `Spec => []SnapshotIsReplay`; `UnnamedKept`: `Spec => []UnnamedAreKept` |
| `BqlDaemonProofs` | `DaemonTypeOK`; `CacheIsStable`: `Spec => OneSnapshotPerRoot`; `RootsLoadedOnce`: `Spec => []LoadedOnce`; `AnswersAreConsistent`: `Spec => []CountersConsistent`; `AnswersTell`: `Spec => []AnswerTellsOutcome` |
| `QueryHistoryProofs` | `TypeCorrect`; `NewestAreKept`: `Spec => []NewestKept`; `HistoryIsBounded`: `Spec => []HistoryBounded`; `OutcomeIsRecorded`: `Spec => []OutcomeRecorded`; `TraceIsOfOutcome`: `Spec => []TraceTellsOutcome`; `LookupFinds`, what the two bisections of the timestamp index return; `IndexAgrees`: `Spec => []IndexAgreesWithScan`; `SanitizedIsSmall`, what the sanitizer leaves of any value; `RowsBounded`: `Spec => []RowsAreBounded` |
| `BinaryStoreProofs` | of the format, for any data: `SameRead`, the two readers give the same verdict; `WritersAgree`, the two writers the same file; `StartReads`, what a file cut off anywhere reads as; `DamagedReads`, what a file with one changed cell reads as. Of the store: `StoreInvariant`, and from it `TypeOKHolds`, `CompleteOrRefusedHolds`, `ReadersAgreeHolds`, `EncodersAgreeHolds`, `DamageIsSeenHolds`, `LookupIsScanHolds`, `IndexIsOfVersionsHolds` |
| `ListProofs` | lemmas for the two above: `Induction` and `Recursion`, what a sublist of a list has and in which order, and `Flattening`, where the parts of a flattened sequence lie |

**Recovery.** `SafetyInv` strengthens the three properties to an inductive invariant.
`PassMeansApplied` speaks of the end of a call: to carry it through the loop one
needs `AppliedSoFar`, the same for the part of the scan that the loop has left
behind, and `TodoDone`, that nothing is left when the loop has ended.
`StoreJustified` needs `TodoJustified`: an intent still to be applied was
committed when it was scanned, and, the log being append-only, that stays true
whatever clients append meanwhile. `RememberedIsStored` is inductive over all
files and memories together, because each is written from another of them; it
needs that the store only grows. The proof has one lemma per conjunct, with one
step per action that can disturb it.

**The ledger.** With one recovery at a time more is true, and `AloneInv` says why: at each
place of the call it compares what the call knows with the state file and with the `.tmp`
that only this call has open. `NeverForgets` is a step of `ReplaceState` under it. For
`CopiesBounded` one has to say which failure pays for which copy (`CopiesInv`): the last copy
of a transaction is free while its id is *settled*, held by the state file or by the call; an
append happens only for an id that is not settled, and a step that unsettles ids is a failure
that pays for one copy of each. The numbers of the log (`SeqInv`) are those of its places
because a client takes the number of the next visible place and, being alone, still finds it
there when it writes. The refinement to `AtLeastOnce` takes its steps from `SafetyInv`: the
entry that an append adds to the store is decided by `TodoJustified`, and an id reaches the
state file with its record stored by `RememberedIsStored`; all other steps stutter.

**V00M.** The invariant is `TypeOK` with `TransactionInv`, and the two are inductive only
together: a manifest is well typed because the three files it digests are there
(`WriterInv`). `Coherent` says of each directory, and of the one a power loss may bring back,
that its files are of one call and that a marker means the call came that far. Readers are
asynchronous and check each file twice, so everything said of a reader is relative to
`touched`: a version not in it has not changed since the reader started. `ReadsTrue` is what
the reader has of a version against what is there; `MissesNone`, that an intact version is
still a candidate, is the one being read, or has been beaten by a newer one.

**V00L.** `DirsInv` is about the names: the snapshot directory is never torn, and it is out of
the way when the new one takes its place. `SnapshotIsReplay` is about a recursive function,
over bases and logs of any length. The library's induction theorems cannot be used, since they take
an operator, but its theorem that a non-empty set of numbers has a least element can
(`LeastNumber`): the set of numbers of turns for which something fails is empty. So
`ReplayPasses` shows that the function the recursion describes exists. `TurnIs` says what a turn does,
in terms of the story's places, and `TellsOn` carries from one turn to the next that the map has what the
places up to there say (`Tells`, with `LastUpTo`); at the last place that is the property
(`ReplayTells`). The invariant `ReplayInv` keeps it for the maps of the call and for the snapshots under
both names. `UnnamedAreKept` follows for each such map: two payloads without an id that have one name are
equal, since the count of upserts grows with each (`UpsertsGrow`, `UnnamedApart`), so the last mention
of such a name has the payload (`UnnamedStays`).

**The daemon.** Its proofs rest on four invariants, each of which needs one before.
`DaemonInv` is about the lock: the thread in the middle of a load holds it, there is one
such thread at most, and the root it loads is not in the cache; so a miss never
replaces a snapshot. `CountsInv` adds the accounts: misses are cached roots, loads that
raised and the load under way; queries are hits, misses and the queries counted but neither
(`Pending`: parsing, rejected, or waiting at the lock). `AnswersInv` is about the unlocked
reads: they are made in the order keys, hits, misses, queries, all four only grow, and so what
`SoFar` has at each point of that order bounds what is read later. The order
of those lines of the code is what makes the answers consistent: with the queries read
first the run finds a counterexample. `OutcomeInv` ties a thread to its client: it answers the
request the client sent, also when the client has given up meanwhile, since a client that
gave up sends nothing more. What the parser rejects gets a status of the parser's because
of the order of the cases of `classify_error`: one lemma says that the first of the cases is
unique, and the others read off it the class and text of every error the parser raises; another does so
for every error of a load (`LoadErrorsClassified`), and `RaisedOK` says that nothing else was raised.

**The history.** `HistoryInv` says whose the rows above the bound are. Only a file that was the
log is ever appended to, so what has the name `.tmp` holds no more than one process wrote
there, which is at most `Kept` rows or torn lines (`FilesInv`); the log itself may have
more, and for each of these there is a process that has appended and not yet renamed
(`Cutting`), or a failure (`RowsInv`). That there is always a file to open is counting: there
are two more than there are processes. `NewestInv` follows one process that is alone at the
log (`AloneAtLog`): what it has read are the newest rows, what it has written to `.tmp` is
what it has read, and so the log it renames is the end of what was appended; `overlap` is what
breaks that. `OutcomeInv` is about one call at a time: the exception it carries, the statuses it
has written and the one it will write always agree (`Outcome`), and a second row is only
possible once something has gone wrong: a `.tmp` that is gone means that another
process was at the log, by `NewestInv`. `TraceInv` needs that a call never goes back to the
start, and that its text stays the same: then a call that is alone with a text found no trace, and
what is there at the end is what it wrote. The last stage given under a name exists
because a set of positions has a greatest one (`LastPosition`, by well-foundedness).

**Index and scan.** `IndexAgreesWithScan` compares a query that is done with a scan, and a
query sees two kinds of clock: one when it looks up, then one for each row. `QueryInv` says at each
point of the loop that the rows passed are a sublist of those loaded, at the positions `kept`, and
that those still to do are another, at the positions `left` behind them (`Selects`): every row that
passes now is at one of the two, and every row kept passed at the lookup. Time only makes rows of a window stop passing, so a later clock keeps this
(`SelectsLater`). The candidates of the lookup go through the
same loop, so that what is needed of the index is `LookupFinds`: the two bisections cut the sorted columns
so that no row the filter would pass is left out. The order is total because equal
timestamps are told apart by `repr`, hence the sorted list of a set has each member once, at the place that is
the number of those before it. `LoadInv` carries that the files listed at the start are still there.

**Rows.** `MetadataInv` says that a row is bounded from the point where a call makes it. The
rest is `SanitizedIsSmall`: the functions that the two recursions describe, the sanitizer's
and that of what is small, exist, by induction on the levels, and a value sanitized with so many
levels left is small with one more.

**The binary files.** Most of the work is about the format, and is pure. `PythonTurns` and
`RustTurns` are the states of the two loops over any data whatever. While the Rust loop goes on,
its state is the one the Python loop has after as many records (`Follows`), and the comparison of the
count at its end refuses what the Python loop refuses, so `SameRead` is for all data and not only for what a writer leaves. `StartReads` says where the records lie in a
file (`Lies`), so that a reader of a start of it gets all the payloads if it is the whole file, and
refuses otherwise. `DamagedReads` is by cases on the
field that holds the changed cell. `StoreInv` then is short. `Written`: a file is a start of the file of
the payloads of the last write begun, of one of the versions, or empty before the first.
`Indexed`: what the indexer has got of a file is a start of it, if no write has begun meanwhile, and then
`StartReads` makes it a version. If one has, it is cells of several files still (`Proper`), with the count of
one of them, and `RecordWasWritten` shows that whatever passes the checks for one record is a record that
was written: a cell that is a digest is the id of one that was, and what has that digest is its
payload. `MixedRead` says so of all that is returned.
`Aside`: what another caller has made of a file is made of one the invariant knows. Each of
the six properties is read off these; `LookupIsScan` needs besides that a sorted list of rows
has each of them once, so that positions in it find what a scan finds (`PositionsAre`).

Induction: the library's theorems take an operator, so `ListProofs` has its own for a set
(`Induction`, from the least number not in it), and `Recursion`, for functions on numbers. What is
proved by them is always about one function of the model at a time.

**Model-checked only** are the two liveness properties, `CommittedIsApplied` and
`EveryRequestEnds`: the prover has no rules for fairness and ENABLED. All other properties of the passing runs,
the invariants, the action properties and the refinement, are theorems.
The four findings are counterexamples and need no proof.

## What is left out

* Bytes, checksums and JSON of the V03H and V00L files: a frame or file is whole, torn or
  corrupt. In V00J a field is a cell: writes are cut between cells, changes are of a cell.
* `dry_run`, and `fsync=False` of `append_record`: the defaults are modelled.
* Power loss for the log and the store in the case where their `fsync` failed.
* Power loss when nothing of the state file is unsynced: that is a `Crash` of each
  recovery and a `LoseCall` of each client.
* In V00M, what a power loss does to calls before the latest (taken to be on the
  disk by then), and an `fsync` that fails, which `_write_bytes_atomic` ignores.
* A delta log that is read while its writer is in the middle of rewriting it: the
  rewrite is one step, unless the writer dies in it.
* More than one writer in V00M and more than one compaction in V00L.
* `apply_committed_append_records` of the V03H log, which only a selftest calls; recovery
  has its own loop.
* A read of one V00J file by anyone but the indexer is one step.
* More than one writer of a V00J file, and `write_manifest`, which writes a description for
  people that no code reads.
* The regular expressions of the parser and the texts of results: a query text is a record of what
  the patterns tell apart. `bql_memory_reader.py`, which is not called, and
  `role_map_loader.py`, which only `validate-scripts` calls; `match_ts_filter`, `build_index_from_jsonl` and `resolve_jsonl_refs`, which only
  selftests call.
* In the history: opening the log for reading and reading it are one step (no other process can
  tell, unless it appends in between, which is an append before it); the branch of lines 265-268 for
  a result that is not PASS, which `execute` never returns; a clock that goes back.
* In the daemon: a client that gave up sends nothing more; the server accepts at once as many
  connections as there are clients; the bench of the client is a number of calls.
* In a load: files are not removed from the model's root, and an `OSError` may come at any point of it, which is
  all that its callers can tell. Of the phrases of `classify_error`, `timestamp` alone is taken to occur in a path.
* The commands of `cli.py` other than `query`, which print what `parse` and `explain` return.
* Selftests, gates and scripts: they are tests of the repository, and a source of the
  claims checked here.

## Plan

Done: `FramedLog`, `Wal`, `CrashRecovery` (with `AtLeastOnce`), which hold the
promise of the database; then `BinaryTransaction` and `Compaction`; then the query side,
`TsIndex`, `BqlParser`, `BqlExecutor` under `QueryHistory` and `BqlDaemon`; and the binary
files, `BinaryFormat` and `BinaryStore`.

Every safety property of every run is a theorem. What could be added is of the system:
`apply_committed_append_records` over `Wal`, to compare with `CrashRecovery`; two writers of one
V00M version, and a rebuild between decoding and hashing. These are the hazards of
`PROJECT.json` that have no property.
