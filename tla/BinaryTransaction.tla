------------------------- MODULE BinaryTransaction -------------------------
(***************************************************************************)
(* V00M: a database is a directory of numbered snapshots and a CURRENT     *)
(* file.  stage_snapshot rebuilds the directory of a version file by file, *)
(* commit_snapshot points CURRENT at it afterwards, and                    *)
(* recover_latest_complete_snapshot returns the newest version that        *)
(* validates.  Every file is written under a temporary name, synced, and   *)
(* renamed, so it appears in one step; no directory is synced, so a power  *)
(* loss may take any of the latest renames back.                           *)
(*                                                                         *)
(* One call writes at a time, and its process may die between any two of   *)
(* its steps.  Readers run at any time, also while a version is rebuilt    *)
(* under them, and read a snapshot one file after the other.               *)
(***************************************************************************)
EXTENDS Integers, Sequences, FiniteSets

CONSTANTS
  Versions,     \* snapshot numbers that callers use
  Data,         \* pairs of a list of seeds and a list of bridges
  Readers,      \* processes that call recover_latest_complete_snapshot
  Garbled,      \* the content of a file whose CRC does not fit
  MaxCalls,     \* bound: calls of stage_snapshot and commit_snapshot
  MaxCrashes,   \* bound: crashes of the writer and power losses
  MaxRot        \* bound: corruptions of a seed file

Blobs == {"bseed", "bbridge", "bindex"}
Files == Blobs \cup {"bdbm", "COMPLETE"}
ReadOrder == <<"bseed", "bbridge", "bindex", "bdbm">>

ASSUME TransactionAssumption ==
  /\ Versions \subseteq Nat \ {0}
  /\ Garbled \notin Data
  /\ Garbled \notin [Blobs -> Data \cup {Garbled}]
  /\ MaxCalls \in Nat /\ MaxCrashes \in Nat /\ MaxRot \in Nat

\* CURRENT, and the writer, before there is one.
NoVersion == 0
NoCall == [ver |-> NoVersion]

VARIABLES
  dir,         \* the files of each version: a function on those that exist
  current,     \* the version CURRENT names
  job,         \* arguments of the writer's call
  step,        \* what it does next
  before,      \* what of the version and of CURRENT the disk had at its start
  rpc,         \* where each reader is
  candidates,  \* the versions it has not tried
  trying,      \* the version it reads or returns
  got,         \* what it has read, in ReadOrder
  calls, crashes, rot,   \* history: counters of the bounds
  completed,   \* history: the <<version, data>> given their marker
  activated,   \* history: the versions CURRENT has named
  touched,     \* history: versions changed since each reader started
  clean        \* history: its version is unchanged since its marker was seen

writer == <<job, step, before>>
reader == <<rpc, candidates, trying, got>>
marks == <<completed, activated>>
watch == <<touched, clean>>
vars == <<dir, current, writer, reader, calls, crashes, rot, marks, watch>>

Manifests == [Blobs -> Data \cup {Garbled}]

NoFiles == [f \in {} |-> Garbled]
With(files, f, c) == [g \in DOMAIN files \cup {f} |-> IF g = f THEN c ELSE files[g]]
Only(files, F) == [g \in DOMAIN files \cap F |-> files[g]]

Calls == [ver : Versions, data : Data, complete : BOOLEAN, activate : BOOLEAN]

\* What a directory may hold.
WellFormed(files) ==
  /\ DOMAIN files \subseteq Files
  /\ \A f \in DOMAIN files :
       \/ f \in Blobs /\ files[f] \in Data \cup {Garbled}
       \/ f = "bdbm" /\ files[f] \in Manifests
       \/ f = "COMPLETE" /\ files[f] = "complete"

TypeOK ==
  /\ DOMAIN dir = Versions
  /\ \A v \in Versions : WellFormed(dir[v])
  /\ current \in Versions \cup {NoVersion}
  /\ step \in {"idle", "clear", "CURRENT"} \cup Files
  /\ IF step = "idle" THEN job = NoCall ELSE job \in Calls
  /\ before.ver \in Versions \cup {NoVersion}
  /\ before.ver # NoVersion =>
       WellFormed(before.files) /\ before.current \in Versions \cup {NoVersion}
  /\ rpc \in [Readers -> {"idle", "list", "pick", "read", "done", "raised"}]
  /\ candidates \in [Readers -> SUBSET Versions]
  /\ trying \in [Readers -> Versions \cup {NoVersion}]
  /\ got \in [Readers -> Seq(Data \cup Manifests)]
  /\ \A r \in Readers : Len(got[r]) <= Len(ReadOrder)
  /\ calls \in Nat /\ crashes \in Nat /\ rot \in Nat
  /\ completed \subseteq Versions \X Data
  /\ touched \in [Readers -> SUBSET Versions]
  /\ clean \in [Readers -> BOOLEAN]

Init ==
  /\ dir = [v \in Versions |-> NoFiles]
  /\ current = NoVersion
  /\ job = NoCall
  /\ step = "idle"
  /\ before = NoCall
  /\ rpc = [r \in Readers |-> "idle"]
  /\ candidates = [r \in Readers |-> {}]
  /\ trying = [r \in Readers |-> NoVersion]
  /\ got = [r \in Readers |-> << >>]
  /\ calls = 0 /\ crashes = 0 /\ rot = 0
  /\ completed = {} /\ activated = {}
  /\ touched = [r \in Readers |-> {}]
  /\ clean = [r \in Readers |-> FALSE]

\* History: version v changes under the readers.
Touch(v) ==
  /\ touched' = [r \in Readers |-> IF rpc[r] = "idle" THEN {} ELSE touched[r] \cup {v}]
  /\ clean' = [r \in Readers |-> clean[r] /\ trying[r] # v]

----------------------------------------------------------------------------
(* The writer *)

BeginCall(v, d, complete, activate) ==
  /\ step = "idle"
  /\ calls < MaxCalls
  /\ job' = [ver |-> v, data |-> d, complete |-> complete, activate |-> activate]
  /\ before' = [ver |-> v, files |-> dir[v], current |-> current]
  /\ step' = "clear"
  /\ calls' = calls + 1
  /\ UNCHANGED <<dir, current, reader, crashes, rot, marks, watch>>

Idle == step' = "idle" /\ job' = NoCall

StageSnapshot ==
  \E v \in Versions, d \in Data, complete \in BOOLEAN : BeginCall(v, d, complete, FALSE)

CommitSnapshot == \E v \in Versions, d \in Data : BeginCall(v, d, TRUE, TRUE)

\* rmtree unlinks the files of the version in no particular order.
RemoveFile ==
  /\ step = "clear"
  /\ \E f \in DOMAIN dir[job.ver] :
       dir' = [dir EXCEPT ![job.ver] = Only(@, Files \ {f})]
  /\ Touch(job.ver)
  /\ UNCHANGED <<current, writer, reader, calls, crashes, rot, marks>>

EndClear ==
  /\ step = "clear"
  /\ DOMAIN dir[job.ver] = {}
  /\ step' = "bseed"
  /\ UNCHANGED <<dir, current, job, before, reader, calls, crashes, rot, marks, watch>>

\* Mutant: CURRENT is replaced before the marker is there.
AfterEarly(f) ==
  CASE f = "bseed" -> "bbridge"
    [] f = "bbridge" -> "bindex"
    [] f = "bindex" -> "bdbm"
    [] f = "bdbm" -> IF job.activate THEN "CURRENT" ELSE IF job.complete THEN "COMPLETE" ELSE "idle"
    [] f = "COMPLETE" -> "idle"

After(f) ==
  CASE f = "bseed" -> "bbridge"
    [] f = "bbridge" -> "bindex"
    [] f = "bindex" -> "bdbm"
    [] f = "bdbm" -> IF job.complete THEN "COMPLETE" ELSE "idle"
    [] f = "COMPLETE" -> IF job.activate THEN "CURRENT" ELSE "idle"

\* _write_bytes_atomic for file f of the version.
WriteFile(f, content) ==
  /\ step = f
  /\ dir' = [dir EXCEPT ![job.ver] = With(@, f, content)]
  /\ IF After(f) = "idle" THEN Idle ELSE step' = After(f) /\ UNCHANGED job
  /\ Touch(job.ver)
  /\ UNCHANGED <<current, before, reader, calls, crashes, rot, activated>>

WriteBlob == \E f \in Blobs : WriteFile(f, job.data) /\ UNCHANGED completed

\* Mutant: the manifest lists the data and not the digests of the files.
WriteManifestOfData == WriteFile("bdbm", job.data) /\ UNCHANGED completed

\* The digests are those of the files as they are on the disk.
WriteManifest ==
  /\ WriteFile("bdbm", [b \in Blobs |-> dir[job.ver][b]])
  /\ UNCHANGED completed

WriteMarker ==
  /\ WriteFile("COMPLETE", "complete")
  /\ completed' = completed \cup {<<job.ver, job.data>>}

WriteCurrent ==
  /\ step = "CURRENT"
  /\ current' = job.ver
  /\ activated' = activated \cup {job.ver}
  /\ Idle
  /\ UNCHANGED <<dir, before, reader, calls, crashes, rot, completed, watch>>

\* The process dies, or one of its calls of the system raises.
CrashWriter ==
  /\ step # "idle"
  /\ crashes < MaxCrashes
  /\ Idle
  /\ crashes' = crashes + 1
  /\ UNCHANGED <<dir, current, before, reader, calls, rot, marks, watch>>

\* What the latest call has done to its directory may be lost: the directory is
\* the old one with some of its files gone, or the new one with some not there.
PowerLoss ==
  /\ crashes < MaxCrashes
  /\ before.ver # NoVersion
  /\ \E F \in SUBSET Files, files \in {before.files, dir[before.ver]} :
       dir' = [dir EXCEPT ![before.ver] = Only(files, F)]
  /\ current' \in {before.current, current}
  /\ Idle
  /\ before' = NoCall
  /\ rpc' = [r \in Readers |-> "idle"]
  /\ candidates' = [r \in Readers |-> {}]
  /\ trying' = [r \in Readers |-> NoVersion]
  /\ got' = [r \in Readers |-> << >>]
  /\ touched' = [r \in Readers |-> {}]
  /\ clean' = [r \in Readers |-> FALSE]
  /\ crashes' = crashes + 1
  /\ UNCHANGED <<calls, rot, marks>>

\* corrupt_snapshot_seed_payload flips a byte behind the header.
CorruptSeeds ==
  /\ rot < MaxRot
  /\ \E v \in Versions :
       /\ "bseed" \in DOMAIN dir[v]
       /\ dir' = [dir EXCEPT ![v] = With(@, "bseed", Garbled)]
       /\ Touch(v)
  /\ rot' = rot + 1
  /\ UNCHANGED <<current, writer, reader, calls, crashes, marks>>

----------------------------------------------------------------------------
(* A reader: recover_latest_complete_snapshot *)

ReadCurrent(r) ==
  /\ rpc[r] = "idle"
  /\ candidates' = [candidates EXCEPT ![r] = {current} \ {NoVersion}]
  /\ rpc' = [rpc EXCEPT ![r] = "list"]
  /\ UNCHANGED <<dir, current, writer, trying, got, calls, crashes, rot, marks, watch>>

\* Mutant: the other versions are looked for only when there is no CURRENT.
ListUnlessCurrent(r) ==
  /\ rpc[r] = "list"
  /\ candidates' = [candidates EXCEPT ![r] =
                      IF @ # {} THEN @ ELSE {v \in Versions : DOMAIN dir[v] # {}}]
  /\ rpc' = [rpc EXCEPT ![r] = "pick"]
  /\ UNCHANGED <<dir, current, writer, trying, got, calls, crashes, rot, marks, watch>>

\* An empty directory is listed too, fails, and is left out here.
ListSnapshots(r) ==
  /\ rpc[r] = "list"
  /\ candidates' = [candidates EXCEPT ![r] = @ \cup {v \in Versions : DOMAIN dir[v] # {}}]
  /\ rpc' = [rpc EXCEPT ![r] = "pick"]
  /\ UNCHANGED <<dir, current, writer, trying, got, calls, crashes, rot, marks, watch>>

\* The newest of the versions not tried.
Pick(r, v) ==
  /\ rpc[r] = "pick"
  /\ v \in candidates[r]
  /\ \A u \in candidates[r] : u <= v
  /\ candidates' = [candidates EXCEPT ![r] = @ \ {v}]
  /\ trying' = [trying EXCEPT ![r] = v]
  /\ got' = [got EXCEPT ![r] = << >>]
  /\ UNCHANGED <<dir, current, writer, calls, crashes, rot, marks, touched>>

\* Mutant: the marker is not asked for.
OpenUnmarked(r) ==
  \E v \in candidates[r] :
    /\ Pick(r, v)
    /\ Files \ {"COMPLETE"} \subseteq DOMAIN dir[v]
    /\ rpc' = [rpc EXCEPT ![r] = "read"]
    /\ clean' = [clean EXCEPT ![r] = TRUE]

\* validate_snapshot_dir: the marker and the four files exist.
OpenVersion(r) ==
  \E v \in candidates[r] :
    /\ Pick(r, v)
    /\ Files \subseteq DOMAIN dir[v]
    /\ rpc' = [rpc EXCEPT ![r] = "read"]
    /\ clean' = [clean EXCEPT ![r] = TRUE]

SkipVersion(r) ==
  \E v \in candidates[r] :
    /\ Pick(r, v)
    /\ ~(Files \subseteq DOMAIN dir[v])
    /\ clean' = [clean EXCEPT ![r] = FALSE]
    /\ UNCHANGED rpc

Here(r) == dir[trying[r]]
NextFile(r) == ReadOrder[Len(got[r]) + 1]

Sound(files, f) == f \in DOMAIN files /\ files[f] # Garbled

ReadFile(r) ==
  /\ rpc[r] = "read"
  /\ Len(got[r]) < Len(ReadOrder)
  /\ Sound(Here(r), NextFile(r))
  /\ got' = [got EXCEPT ![r] = Append(@, Here(r)[NextFile(r)])]
  /\ UNCHANGED <<dir, current, writer, rpc, candidates, trying, calls, crashes, rot, marks, watch>>

RejectFile(r) ==
  /\ rpc[r] = "read"
  /\ Len(got[r]) < Len(ReadOrder)
  /\ ~Sound(Here(r), NextFile(r))
  /\ rpc' = [rpc EXCEPT ![r] = "pick"]
  /\ UNCHANGED <<dir, current, writer, candidates, trying, got, calls, crashes, rot, marks, watch>>

\* The files are read once more, for their digests.
DigestsFit(r) ==
  \A b \in Blobs : b \in DOMAIN Here(r) /\ Here(r)[b] = got[r][Len(ReadOrder)][b]

CheckDigests(r) ==
  /\ rpc[r] = "read"
  /\ Len(got[r]) = Len(ReadOrder)
  /\ rpc' = [rpc EXCEPT ![r] = IF DigestsFit(r) THEN "done" ELSE "pick"]
  /\ UNCHANGED <<dir, current, writer, candidates, trying, got, calls, crashes, rot, marks, watch>>

RaiseNoSnapshot(r) ==
  /\ rpc[r] = "pick"
  /\ candidates[r] = {}
  /\ rpc' = [rpc EXCEPT ![r] = "raised"]
  /\ UNCHANGED <<dir, current, writer, candidates, trying, got, calls, crashes, rot, marks, watch>>

EndRecovery(r) ==
  /\ rpc[r] \in {"done", "raised"}
  /\ rpc' = [rpc EXCEPT ![r] = "idle"]
  /\ trying' = [trying EXCEPT ![r] = NoVersion]
  /\ candidates' = [candidates EXCEPT ![r] = {}]
  /\ got' = [got EXCEPT ![r] = << >>]
  /\ touched' = [touched EXCEPT ![r] = {}]
  /\ clean' = [clean EXCEPT ![r] = FALSE]
  /\ UNCHANGED <<dir, current, writer, calls, crashes, rot, marks>>

WriterStep ==
  \/ StageSnapshot
  \/ CommitSnapshot
  \/ RemoveFile
  \/ EndClear
  \/ WriteBlob
  \/ WriteManifest
  \/ WriteMarker
  \/ WriteCurrent

ReaderStep(r) ==
  \/ ReadCurrent(r)
  \/ ListSnapshots(r)
  \/ OpenVersion(r)
  \/ SkipVersion(r)
  \/ ReadFile(r)
  \/ RejectFile(r)
  \/ CheckDigests(r)
  \/ RaiseNoSnapshot(r)
  \/ EndRecovery(r)

Next ==
  \/ WriterStep
  \/ CrashWriter
  \/ PowerLoss
  \/ CorruptSeeds
  \/ \E r \in Readers : ReaderStep(r)

Spec == Init /\ [][Next]_vars

----------------------------------------------------------------------------
(* What the snapshots promise *)

Present(files) == Files \subseteq DOMAIN files

Intact(v) ==
  /\ Present(dir[v])
  /\ \A b \in Blobs : dir[v][b] # Garbled /\ dir[v]["bdbm"][b] = dir[v][b]

(* A snapshot that recovery returns holds the seeds, bridges and index of one
   call, which came as far as its marker: a snapshot staged in part, or staged
   as incomplete, is never returned (run_binary_transaction_v00m.py,
   incomplete_staged_snapshot_not_activated).  A version rebuilt or corrupted
   while it is read is excepted: validate_snapshot_dir reads each file twice. *)
RecoveredIsWhole ==
  \A r \in Readers :
    rpc[r] = "done" /\ clean[r] =>
      \E d \in Data : got[r][1] = d /\ got[r][2] = d /\ got[r][3] = d
                        /\ <<trying[r], d>> \in completed

(* Recovery never returns a version older than one that was intact from its
   start to its end, and never raises while there is one: it falls back past
   any number of torn, corrupt or half removed versions, whatever CURRENT
   names (corrupt_current_falls_back_to_v1), also beside a running writer. *)
RecoversBest ==
  \A r \in Readers :
    rpc[r] \in {"done", "raised"} =>
      \A v \in Versions \ touched[r] :
        Intact(v) => rpc[r] = "done" /\ v <= trying[r]

(* CURRENT is moved only to a version whose files and marker are all there
   (binary_transaction_v00m.py:124, "Activate only after all files and marker
   are present"). *)
ActivatesPresent ==
  [][ current' # current /\ ~PowerLoss => Present(dir[current']) ]_vars

----------------------------------------------------------------------------
(* Why they keep it: the invariant that every step preserves *)

\* The files that a call has written when it comes to a step.
WrittenBefore(s) ==
  CASE s = "bseed" -> {}
    [] s = "bbridge" -> {"bseed"}
    [] s = "bindex" -> {"bseed", "bbridge"}
    [] s = "bdbm" -> Blobs
    [] s = "COMPLETE" -> Blobs \cup {"bdbm"}
    [] s = "CURRENT" -> Files

\* The writer's directory has what the call has written, and no more.
WriterInv ==
  step \notin {"idle", "clear"} =>
    /\ DOMAIN dir[job.ver] = WrittenBefore(step)
    /\ \A b \in Blobs \cap DOMAIN dir[job.ver] : dir[job.ver][b] \in {job.data, Garbled}

\* The files of a version are of one call, which came as far as its marker if
\* there is one.
Coherent(v, files) ==
  \E d \in Data \cup {Garbled} :
    /\ \A b \in Blobs \cap DOMAIN files : files[b] \in {d, Garbled}
    /\ "COMPLETE" \in DOMAIN files => <<v, d>> \in completed

\* What a reader has of a version that has not changed is what is there.
ReadsTrue(r) ==
  rpc[r] \in {"read", "done"} =>
    /\ trying[r] \in Versions
    /\ \A i \in 1..Len(got[r]) : got[r][i] # Garbled
    /\ trying[r] \notin touched[r] => clean[r]
    /\ clean[r] =>
         /\ Present(dir[trying[r]])
         /\ \A i \in 1..Len(got[r]) : got[r][i] = dir[trying[r]][ReadOrder[i]]
    /\ rpc[r] = "done" => Len(got[r]) = Len(ReadOrder)

\* A version that was intact all along is still to be tried, or it is the one
\* that is tried, or a newer one has been found.
MissesNone(r) ==
  /\ rpc[r] = "read" => \A u \in candidates[r] : u <= trying[r]
  /\ \A v \in Versions \ touched[r] :
       Intact(v) =>
         /\ rpc[r] = "pick" => v \in candidates[r]
         /\ rpc[r] = "read" => v \in candidates[r] \cup {trying[r]}
         /\ rpc[r] = "done" => v <= trying[r]
         /\ rpc[r] # "raised"

TransactionInv ==
  /\ WriterInv
  /\ \A v \in Versions : Coherent(v, dir[v])
  /\ before.ver # NoVersion => Coherent(before.ver, before.files)
  /\ \A r \in Readers : ReadsTrue(r) /\ MissesNone(r)

(* A snapshot is not recovered before CURRENT has named it
   (BINARY_TRANSACTION_V00M.md:8).  It does not hold: recovery takes the newest
   valid version, whether or not CURRENT was ever moved to it. *)
StagedIsNotActive ==
  \A r \in Readers : rpc[r] = "done" => trying[r] \in activated
=============================================================================
