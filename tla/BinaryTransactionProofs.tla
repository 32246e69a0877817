---------------------- MODULE BinaryTransactionProofs ----------------------
(***************************************************************************)
(* What V00M's snapshots promise, for any versions, data, readers and      *)
(* bounds.  The invariant is TypeOK with TransactionInv, and the two are   *)
(* inductive only together: the manifest a call writes has a type because  *)
(* WriterInv says that the three files it digests are there.  A version    *)
(* that a reader's history does not list as touched has not changed since  *)
(* the reader started (UntouchedIsUnchanged); all that is said of readers  *)
(* rests on that.                                                          *)
(***************************************************************************)
EXTENDS BinaryTransaction, TLAPS

Inv == TypeOK /\ TransactionInv

----------------------------------------------------------------------------
(* Files *)

\* What a file may hold.
Fits(f, c) ==
  \/ f \in Blobs /\ c \in Data \cup {Garbled}
  \/ f = "bdbm" /\ c \in Manifests
  \/ f = "COMPLETE" /\ c = "complete"

LEMMA WithWellFormed ==
  ASSUME NEW files, WellFormed(files), NEW f \in Files, NEW c, Fits(f, c)
  PROVE  WellFormed(With(files, f, c))
<1>1. \A g \in DOMAIN files : Fits(g, files[g])
  BY DEF WellFormed, Fits
<1>2. \A g \in DOMAIN With(files, f, c) : Fits(g, With(files, f, c)[g])
  BY <1>1 DEF With
<1>3. DOMAIN With(files, f, c) \subseteq Files
  BY DEF WellFormed, With
<1>4. QED
  BY <1>2, <1>3 DEF WellFormed, Fits

LEMMA OnlyWellFormed ==
  ASSUME NEW files, WellFormed(files), NEW F
  PROVE  WellFormed(Only(files, F))
<1>1. \A g \in DOMAIN files : Fits(g, files[g])
  BY DEF WellFormed, Fits
<1>2. \A g \in DOMAIN Only(files, F) : Fits(g, Only(files, F)[g])
  BY <1>1 DEF Only
<1>3. DOMAIN Only(files, F) \subseteq Files
  BY DEF WellFormed, Only
<1>4. QED
  BY <1>2, <1>3 DEF WellFormed, Fits

\* What the files of a version are in the state TypeOK describes.
LEMMA FilesFit ==
  ASSUME TypeOK, NEW v \in Versions
  PROVE  /\ WellFormed(dir[v]) /\ DOMAIN dir[v] \subseteq Files
         /\ \A f \in DOMAIN dir[v] : Fits(f, dir[v][f])
BY DEF TypeOK, WellFormed, Fits

\* The writer has a call.
LEMMA JobType ==
  ASSUME TypeOK, step # "idle"
  PROVE  /\ job \in Calls /\ job.ver \in Versions /\ job.data \in Data
         /\ job.complete \in BOOLEAN /\ job.activate \in BOOLEAN
BY DEF TypeOK, Calls

\* The manifest is written when the files it digests are there.
LEMMA DigestsAreThere ==
  ASSUME TypeOK, WriterInv, step = "bdbm"
  PROVE  [b \in Blobs |-> dir[job.ver][b]] \in Manifests
<1>1. DOMAIN dir[job.ver] = Blobs
  BY DEF WriterInv, WrittenBefore
<1>2. \A b \in Blobs : dir[job.ver][b] \in Data \cup {Garbled}
  BY <1>1, JobType, FilesFit DEF Fits, Blobs
<1>3. QED
  BY <1>2 DEF Manifests

----------------------------------------------------------------------------
(* The step of one file of the writer's version *)

\* What is written is job's data, the digests, or the marker.
Content(f) ==
  IF f \in Blobs THEN job.data
  ELSE IF f = "bdbm" THEN [b \in Blobs |-> dir[job.ver][b]]
  ELSE "complete"

WriteStep == \E f \in Files : WriteFile(f, Content(f))

LEMMA WritesAreWriteSteps ==
  ASSUME WriteBlob \/ WriteManifest \/ WriteMarker
  PROVE  /\ \E f \in Files : WriteFile(f, Content(f))
         /\ completed \subseteq completed'
         /\ step = "COMPLETE" => completed' = completed \cup {<<job.ver, job.data>>}
         /\ step # "COMPLETE" => completed' = completed
<1>1. ASSUME NEW f \in Blobs, WriteFile(f, job.data), completed' = completed
      PROVE  /\ WriteFile(f, Content(f)) /\ f \in Files /\ step # "COMPLETE"
  BY <1>1 DEF Content, Files, Blobs, WriteFile
<1>2. CASE WriteBlob
  BY <1>1, <1>2 DEF WriteBlob
<1>3. CASE WriteManifest
  <2>1. "bdbm" \in Files /\ "bdbm" \notin Blobs
    BY DEF Files, Blobs
  <2>2. step = "bdbm"
    BY <1>3 DEF WriteManifest, WriteFile
  <2>3. WriteFile("bdbm", Content("bdbm"))
    BY <1>3, <2>1 DEF WriteManifest, Content
  <2>4. QED
    BY <1>3, <2>1, <2>2, <2>3 DEF WriteManifest
<1>4. CASE WriteMarker
  <2>1. "COMPLETE" \in Files /\ "COMPLETE" \notin Blobs /\ "COMPLETE" # "bdbm"
    BY DEF Files, Blobs
  <2>2. step = "COMPLETE"
    BY <1>4 DEF WriteMarker, WriteFile
  <2>3. WriteFile("COMPLETE", Content("COMPLETE"))
    BY <1>4, <2>1 DEF WriteMarker, Content
  <2>4. QED
    BY <1>4, <2>1, <2>2, <2>3 DEF WriteMarker
<1>5. QED
  BY <1>2, <1>3, <1>4

LEMMA ContentFits ==
  ASSUME TypeOK, WriterInv, step \in Files
  PROVE  Fits(step, Content(step))
<1>1. step # "idle"
  BY DEF Files, Blobs
<1>2. CASE step \in Blobs
  BY <1>1, <1>2, JobType DEF Fits, Content
<1>3. CASE step = "bdbm"
  BY <1>3, DigestsAreThere DEF Fits, Content, Blobs
<1>4. CASE step = "COMPLETE"
  BY <1>4 DEF Fits, Content, Blobs
<1>5. QED
  BY <1>2, <1>3, <1>4 DEF Files

----------------------------------------------------------------------------
(* TypeOK *)

LEMMA TypeInit == Init => TypeOK
BY DEF Init, TypeOK, WellFormed, NoFiles, NoVersion, NoCall, ReadOrder

LEMMA ManifestsAreNew ==
  /\ Garbled \notin Manifests
  /\ \A f \in Files : \A c : Fits(f, c) /\ c # Garbled /\ f # "COMPLETE" => c \in Data \cup Manifests
BY TransactionAssumption DEF Manifests, Fits, Files, Blobs

LEMMA ReadOrderType ==
  /\ Len(ReadOrder) = 4
  /\ \A i \in 1..4 : ReadOrder[i] \in Blobs \cup {"bdbm"}
  /\ ReadOrder[1] = "bseed" /\ ReadOrder[2] = "bbridge"
  /\ ReadOrder[3] = "bindex" /\ ReadOrder[4] = "bdbm"
BY DEF ReadOrder, Blobs

\* The writer's fields of TypeOK, and the readers', apart.
WriterOK ==
  /\ DOMAIN dir = Versions
  /\ \A v \in Versions : WellFormed(dir[v])
  /\ current \in Versions \cup {NoVersion}
  /\ step \in {"idle", "clear", "CURRENT"} \cup Files
  /\ IF step = "idle" THEN job = NoCall ELSE job \in Calls
  /\ before.ver \in Versions \cup {NoVersion}
  /\ before.ver # NoVersion =>
       WellFormed(before.files) /\ before.current \in Versions \cup {NoVersion}
  /\ calls \in Nat /\ crashes \in Nat /\ rot \in Nat
  /\ completed \subseteq Versions \X Data

ReadersOK ==
  /\ rpc \in [Readers -> {"idle", "list", "pick", "read", "done", "raised"}]
  /\ candidates \in [Readers -> SUBSET Versions]
  /\ trying \in [Readers -> Versions \cup {NoVersion}]
  /\ got \in [Readers -> Seq(Data \cup Manifests)]
  /\ \A r \in Readers : Len(got[r]) <= Len(ReadOrder)

HistoryOK ==
  /\ touched \in [Readers -> SUBSET Versions]
  /\ clean \in [Readers -> BOOLEAN]

LEMMA TypeParts ==
  /\ TypeOK <=> WriterOK /\ ReadersOK /\ HistoryOK
  /\ TypeOK' <=> WriterOK' /\ ReadersOK' /\ HistoryOK'
BY DEF TypeOK, WriterOK, ReadersOK, HistoryOK

LEMMA TypeTouch ==
  ASSUME HistoryOK, NEW v \in Versions, Touch(v)
  PROVE  HistoryOK'
BY DEF HistoryOK, Touch

LEMMA TypeIdle ==
  ASSUME Idle
  PROVE  /\ step' \in {"idle", "clear", "CURRENT"} \cup Files
         /\ IF step' = "idle" THEN job' = NoCall ELSE job' \in Calls
BY DEF Idle

LEMMA TypeBeginCall ==
  ASSUME WriterOK, NEW v \in Versions, NEW d \in Data, NEW complete \in BOOLEAN,
         NEW activate \in BOOLEAN, BeginCall(v, d, complete, activate)
  PROVE  WriterOK' /\ UNCHANGED <<reader, watch>>
<1>1. job' \in Calls
  BY DEF BeginCall, Calls
<1>2. /\ before'.ver = v /\ before'.files = dir[v] /\ before'.current = current
  BY DEF BeginCall
<1>3. step' = "clear"
  BY DEF BeginCall
<1>4. calls' \in Nat
  BY DEF BeginCall, WriterOK
<1>5. UNCHANGED <<dir, current, crashes, rot, completed>> /\ UNCHANGED <<reader, watch>>
  BY DEF BeginCall, marks
<1>6. QED
  BY <1>1, <1>2, <1>3, <1>4, <1>5 DEF WriterOK

LEMMA TypeWriteFile ==
  ASSUME TypeOK, WriterInv, WriteFile(step, Content(step)), step \in Files
  PROVE  /\ DOMAIN dir' = Versions
         /\ \A v \in Versions : WellFormed(dir'[v])
         /\ step' \in {"idle", "clear", "CURRENT"} \cup Files
         /\ IF step' = "idle" THEN job' = NoCall ELSE job' \in Calls
         /\ UNCHANGED <<current, before, reader, calls, crashes, rot>>
         /\ HistoryOK'
<1>1. step # "idle" /\ job.ver \in Versions /\ job \in Calls
  BY JobType DEF Files, Blobs
<1>2. WellFormed(With(dir[job.ver], step, Content(step)))
  BY <1>1, ContentFits, FilesFit, WithWellFormed
<1>3. dir' = [dir EXCEPT ![job.ver] = With(dir[job.ver], step, Content(step))]
  BY DEF WriteFile
<1>4. After(step) \in {"idle", "CURRENT"} \cup Files
  BY DEF After, Files, Blobs
<1>5. IF After(step) = "idle" THEN Idle ELSE step' = After(step) /\ UNCHANGED job
  BY DEF WriteFile
<1>6. HistoryOK'
  BY <1>1, TypeTouch, TypeParts DEF WriteFile
<1>7. QED
  BY <1>1, <1>2, <1>3, <1>4, <1>5, <1>6, TypeIdle DEF WriteFile, TypeOK

LEMMA TypeWriter ==
  ASSUME TypeOK, WriterInv, WriterStep
  PROVE  WriterOK' /\ HistoryOK' /\ UNCHANGED reader
<1> USE TypeParts
<1>1. CASE StageSnapshot \/ CommitSnapshot
  BY <1>1, TypeBeginCall DEF StageSnapshot, CommitSnapshot, HistoryOK, watch
<1>2. CASE RemoveFile
  <2>1. job.ver \in Versions /\ step # "idle"
    BY <1>2, JobType DEF RemoveFile
  <2>2. PICK f \in DOMAIN dir[job.ver] :
          dir' = [dir EXCEPT ![job.ver] = Only(dir[job.ver], Files \ {f})]
    BY <1>2 DEF RemoveFile
  <2>3. WellFormed(Only(dir[job.ver], Files \ {f}))
    BY <2>1, FilesFit, OnlyWellFormed
  <2>4. HistoryOK'
    BY <1>2, <2>1, TypeTouch DEF RemoveFile
  <2>5. UNCHANGED <<current, job, step, before, calls, crashes, rot, completed>> /\ UNCHANGED reader
    BY <1>2 DEF RemoveFile, writer, marks
  <2>6. QED
    BY <2>1, <2>2, <2>3, <2>4, <2>5 DEF WriterOK
<1>3. CASE EndClear
  BY <1>3 DEF EndClear, WriterOK, HistoryOK, watch, marks, Files, Blobs
<1>4. CASE WriteBlob \/ WriteManifest \/ WriteMarker
  <2>1. step \in Files /\ WriteFile(step, Content(step))
    BY <1>4, WritesAreWriteSteps DEF WriteFile
  <2>2. step # "idle"
    BY <2>1 DEF Files, Blobs
  <2>3. completed' \subseteq Versions \X Data
    BY <1>4, <2>2, WritesAreWriteSteps, JobType DEF WriterOK
  <2>4. QED
    BY <2>1, <2>3, TypeWriteFile DEF WriterOK
<1>5. CASE WriteCurrent
  <2>1. job.ver \in Versions
    BY <1>5, JobType DEF WriteCurrent
  <2>2. QED
    BY <1>5, <2>1, TypeIdle DEF WriteCurrent, WriterOK, HistoryOK, watch
<1>6. QED
  BY <1>1, <1>2, <1>3, <1>4, <1>5 DEF WriterStep

LEMMA TypePowerLoss ==
  ASSUME TypeOK, PowerLoss
  PROVE  TypeOK'
<1> USE TypeParts
<1>1. before.ver \in Versions
  BY DEF PowerLoss, TypeOK
<1>2. PICK F \in SUBSET Files : \E files \in {before.files, dir[before.ver]} :
        dir' = [dir EXCEPT ![before.ver] = Only(files, F)]
  BY DEF PowerLoss
<1>3. PICK files \in {before.files, dir[before.ver]} :
        dir' = [dir EXCEPT ![before.ver] = Only(files, F)]
  BY <1>2
<1>4. WellFormed(files)
  BY <1>1, FilesFit DEF TypeOK, PowerLoss
<1>5. WellFormed(Only(files, F))
  BY <1>4, OnlyWellFormed
<1>6. DOMAIN dir' = Versions /\ \A v \in Versions : WellFormed(dir'[v])
  BY <1>3, <1>5 DEF TypeOK
<1>7. current' \in Versions \cup {NoVersion}
  BY DEF PowerLoss, TypeOK
<1>8. before'.ver = NoVersion
  BY DEF PowerLoss, NoCall
<1>9. crashes' \in Nat /\ UNCHANGED <<calls, rot, completed>>
  BY DEF PowerLoss, TypeOK, marks
<1>10. WriterOK'
  BY <1>6, <1>7, <1>8, <1>9, TypeIdle DEF PowerLoss, WriterOK
<1>11. ReadersOK' /\ HistoryOK'
  BY ReadOrderType DEF PowerLoss, ReadersOK, HistoryOK, NoVersion
<1>12. QED
  BY <1>10, <1>11

LEMMA TypeCorruptSeeds ==
  ASSUME TypeOK, CorruptSeeds
  PROVE  TypeOK'
<1> USE TypeParts
<1>1. PICK v \in Versions :
        /\ dir' = [dir EXCEPT ![v] = With(dir[v], "bseed", Garbled)]
        /\ Touch(v)
  BY DEF CorruptSeeds
<1>2. "bseed" \in Files /\ Fits("bseed", Garbled)
  BY DEF Files, Blobs, Fits
<1>3. WellFormed(With(dir[v], "bseed", Garbled))
  BY <1>2, FilesFit, WithWellFormed
<1>4. DOMAIN dir' = Versions /\ \A u \in Versions : WellFormed(dir'[u])
  BY <1>1, <1>3 DEF TypeOK
<1>5. HistoryOK'
  BY <1>1, TypeTouch
<1>6. rot' \in Nat /\ UNCHANGED <<current, job, step, before, calls, crashes, completed>>
  BY DEF CorruptSeeds, TypeOK, writer, marks
<1>7. UNCHANGED reader
  BY DEF CorruptSeeds
<1>8. QED
  BY <1>4, <1>5, <1>6, <1>7 DEF WriterOK, ReadersOK, reader

\* A reader's step is its own, and changes no file.
LEMMA ReaderStepIsItsOwn ==
  ASSUME TypeOK, NEW r \in Readers, ReaderStep(r)
  PROVE  /\ UNCHANGED <<dir, current, writer, calls, crashes, rot, marks>>
         /\ \A s \in Readers \ {r} :
              /\ rpc'[s] = rpc[s] /\ candidates'[s] = candidates[s]
              /\ trying'[s] = trying[s] /\ got'[s] = got[s]
              /\ touched'[s] = touched[s] /\ clean'[s] = clean[s]
<1> USE DEF TypeOK, watch
<1>1. CASE ReadCurrent(r) \/ ListSnapshots(r) \/ RaiseNoSnapshot(r) \/ EndRecovery(r)
  BY <1>1 DEF ReadCurrent, ListSnapshots, RaiseNoSnapshot, EndRecovery
<1>2. CASE OpenVersion(r) \/ SkipVersion(r)
  BY <1>2 DEF OpenVersion, SkipVersion, Pick
<1>3. CASE ReadFile(r) \/ RejectFile(r) \/ CheckDigests(r)
  BY <1>3 DEF ReadFile, RejectFile, CheckDigests
<1>4. QED
  BY <1>1, <1>2, <1>3 DEF ReaderStep

LEMMA TypeReader ==
  ASSUME TypeOK, NEW r \in Readers, ReadsTrue(r), ReaderStep(r)
  PROVE  TypeOK'
<1> USE TypeParts
<1>1. UNCHANGED <<dir, current, writer, calls, crashes, rot, marks>>
  BY ReaderStepIsItsOwn
<1>2. WriterOK'
  BY <1>1 DEF WriterOK, writer, marks
<1>3. CASE ReadCurrent(r)
  <2>1. {current} \ {NoVersion} \subseteq Versions
    BY DEF TypeOK
  <2>2. QED
    BY <1>2, <1>3, <2>1 DEF ReadCurrent, ReadersOK, HistoryOK, watch
<1>4. CASE ListSnapshots(r)
  BY <1>2, <1>4 DEF ListSnapshots, ReadersOK, HistoryOK, watch
<1>5. CASE EndRecovery(r)
  <2>1. ReadersOK'
    BY <1>5, ReadOrderType DEF EndRecovery, ReadersOK
  <2>2. HistoryOK'
    BY <1>5 DEF EndRecovery, HistoryOK
  <2>3. QED
    BY <1>2, <2>1, <2>2
<1>6. CASE OpenVersion(r) \/ SkipVersion(r)
  <2>1. PICK v \in candidates[r] : Pick(r, v)
    BY <1>6 DEF OpenVersion, SkipVersion
  <2>2. v \in Versions
    BY <2>1 DEF TypeOK
  <2>3. rpc' \in [Readers -> {"idle", "list", "pick", "read", "done", "raised"}]
    BY <1>6 DEF OpenVersion, SkipVersion, TypeOK
  <2>4. ReadersOK'
    <3>1. /\ candidates' \in [Readers -> SUBSET Versions]
          /\ trying' \in [Readers -> Versions \cup {NoVersion}]
      BY <2>1, <2>2 DEF Pick, ReadersOK
    <3>2. got' \in [Readers -> Seq(Data \cup Manifests)]
      BY <2>1 DEF Pick, ReadersOK
    <3>3. \A s \in Readers : Len(got'[s]) <= Len(ReadOrder)
      BY <2>1, ReadOrderType DEF Pick, ReadersOK
    <3>4. QED
      BY <2>3, <3>1, <3>2, <3>3 DEF ReadersOK
  <2>5. HistoryOK'
    BY <1>6 DEF OpenVersion, SkipVersion, Pick, HistoryOK
  <2>6. QED
    BY <1>2, <2>4, <2>5
<1>7. CASE ReadFile(r)
  <2>1. trying[r] \in Versions
    BY <1>7 DEF ReadFile, ReadsTrue
  <2>2. NextFile(r) \in Blobs \cup {"bdbm"}
    BY <1>7, ReadOrderType DEF ReadFile, NextFile, TypeOK
  <2>3. Here(r)[NextFile(r)] \in Data \cup Manifests
    <3>1. Fits(NextFile(r), Here(r)[NextFile(r)]) /\ Here(r)[NextFile(r)] # Garbled
      BY <1>7, <2>1, FilesFit DEF ReadFile, Sound, Here
    <3>2. NextFile(r) \in Files /\ NextFile(r) # "COMPLETE"
      BY <2>2 DEF Files, Blobs
    <3>3. QED
      BY <3>1, <3>2, ManifestsAreNew
  <2> DEFINE more == Append(got[r], Here(r)[NextFile(r)])
  <2>4. more \in Seq(Data \cup Manifests) /\ Len(more) = Len(got[r]) + 1
    BY <2>3 DEF TypeOK
  <2>5. Len(more) <= Len(ReadOrder)
    BY <1>7, <2>4, ReadOrderType DEF ReadFile, TypeOK
  <2>6. got' = [got EXCEPT ![r] = more]
    BY <1>7 DEF ReadFile
  <2>7. UNCHANGED <<rpc, candidates, trying, watch>>
    BY <1>7 DEF ReadFile
  <2> HIDE DEF more
  <2>8. ReadersOK'
    BY <2>4, <2>5, <2>6, <2>7 DEF ReadersOK
  <2>9. QED
    BY <1>2, <2>7, <2>8 DEF HistoryOK, watch
<1>8. CASE RejectFile(r) \/ CheckDigests(r) \/ RaiseNoSnapshot(r)
  BY <1>2, <1>8 DEF RejectFile, CheckDigests, RaiseNoSnapshot, ReadersOK, HistoryOK, watch
<1>9. QED
  BY <1>3, <1>4, <1>5, <1>6, <1>7, <1>8 DEF ReaderStep

LEMMA TypeNext ==
  ASSUME Inv, [Next]_vars
  PROVE  TypeOK'
<1> USE DEF Inv, TransactionInv
<1>1. CASE WriterStep
  BY <1>1, TypeWriter, TypeParts DEF ReadersOK, reader
<1>2. CASE CrashWriter
  BY <1>2, TypeIdle, TypeParts DEF CrashWriter, WriterOK, ReadersOK, HistoryOK,
                                   reader, marks, watch
<1>3. CASE PowerLoss
  BY <1>3, TypePowerLoss
<1>4. CASE CorruptSeeds
  BY <1>4, TypeCorruptSeeds
<1>5. CASE \E r \in Readers : ReaderStep(r)
  BY <1>5, TypeReader
<1>6. CASE UNCHANGED vars
  BY <1>6, TypeParts DEF vars, writer, reader, marks, watch, WriterOK, ReadersOK, HistoryOK
<1>7. QED
  BY <1>1, <1>2, <1>3, <1>4, <1>5, <1>6 DEF Next

----------------------------------------------------------------------------
(* How the files of a version change *)

\* They stay, some go, the seeds are corrupted, or the writer's call writes one.
LEMMA HowFilesChange ==
  ASSUME Inv, [Next]_vars, NEW v \in Versions
  PROVE  \/ dir'[v] = dir[v]
         \/ /\ PowerLoss /\ v = before.ver
            /\ \E F, files : files \in {before.files, dir[v]} /\ dir'[v] = Only(files, F)
         \/ Touch(v) /\ \E F : dir'[v] = Only(dir[v], F)
         \/ Touch(v) /\ "bseed" \in DOMAIN dir[v] /\ dir'[v] = With(dir[v], "bseed", Garbled)
         \/ /\ v = job.ver /\ step \in Files /\ WriteFile(step, Content(step))
            /\ WriteBlob \/ WriteManifest \/ WriteMarker
<1> USE DEF Inv, TypeOK
<1>1. CASE StageSnapshot \/ CommitSnapshot \/ EndClear \/ WriteCurrent \/ CrashWriter
  BY <1>1 DEF StageSnapshot, CommitSnapshot, BeginCall, EndClear, WriteCurrent, CrashWriter
<1>2. CASE RemoveFile
  <2>1. PICK f \in DOMAIN dir[job.ver] :
          dir' = [dir EXCEPT ![job.ver] = Only(dir[job.ver], Files \ {f})]
    BY <1>2 DEF RemoveFile
  <2>2. CASE v = job.ver
    BY <1>2, <2>1, <2>2 DEF RemoveFile
  <2>3. CASE v # job.ver
    BY <2>1, <2>3
  <2>4. QED
    BY <2>2, <2>3
<1>3. CASE WriteBlob \/ WriteManifest \/ WriteMarker
  <2>1. step \in Files /\ WriteFile(step, Content(step))
    BY <1>3, WritesAreWriteSteps DEF WriteFile
  <2>2. CASE v # job.ver
    BY <2>1, <2>2 DEF WriteFile
  <2>3. QED
    BY <1>3, <2>1, <2>2
<1>4. CASE PowerLoss
  <2>1. PICK F \in SUBSET Files : \E files \in {before.files, dir[before.ver]} :
          dir' = [dir EXCEPT ![before.ver] = Only(files, F)]
    BY <1>4 DEF PowerLoss
  <2>2. PICK files \in {before.files, dir[before.ver]} :
          dir' = [dir EXCEPT ![before.ver] = Only(files, F)]
    BY <2>1
  <2>3. CASE v = before.ver
    BY <1>4, <2>2, <2>3
  <2>4. CASE v # before.ver
    BY <2>2, <2>4
  <2>5. QED
    BY <2>3, <2>4
<1>5. CASE CorruptSeeds
  <2>1. PICK u \in Versions :
          /\ "bseed" \in DOMAIN dir[u]
          /\ dir' = [dir EXCEPT ![u] = With(dir[u], "bseed", Garbled)]
          /\ Touch(u)
    BY <1>5 DEF CorruptSeeds
  <2>2. CASE v = u
    BY <2>1, <2>2
  <2>3. CASE v # u
    BY <2>1, <2>3
  <2>4. QED
    BY <2>2, <2>3
<1>6. CASE \E r \in Readers : ReaderStep(r)
  BY <1>6, ReaderStepIsItsOwn
<1>7. CASE UNCHANGED vars
  BY <1>7 DEF vars
<1>8. QED
  BY <1>1, <1>2, <1>3, <1>4, <1>5, <1>6, <1>7 DEF Next, WriterStep

\* Markers are not forgotten.
LEMMA CompletedGrows ==
  ASSUME TypeOK, [Next]_vars
  PROVE  completed \subseteq completed'
<1>1. CASE WriteBlob \/ WriteManifest \/ WriteMarker
  BY <1>1, WritesAreWriteSteps
<1>2. CASE StageSnapshot \/ CommitSnapshot \/ RemoveFile \/ EndClear \/ WriteCurrent
           \/ CrashWriter \/ PowerLoss \/ CorruptSeeds
  BY <1>2 DEF StageSnapshot, CommitSnapshot, BeginCall, RemoveFile, EndClear, WriteCurrent,
              CrashWriter, PowerLoss, CorruptSeeds, marks
<1>3. CASE \E r \in Readers : ReaderStep(r)
  BY <1>3, ReaderStepIsItsOwn DEF marks
<1>4. CASE UNCHANGED vars
  BY <1>4 DEF vars, marks
<1>5. QED
  BY <1>1, <1>2, <1>3, <1>4 DEF Next, WriterStep

----------------------------------------------------------------------------
(* WriterInv *)

\* Each file is written once, after those before it.
LEMMA WrittenInOrder ==
  ASSUME NEW f \in Files, After(f) # "idle"
  PROVE  /\ After(f) # "clear" /\ f \notin WrittenBefore(f)
         /\ WrittenBefore(After(f)) = WrittenBefore(f) \cup {f}
<1>1. CASE f \in Blobs
  BY <1>1 DEF After, WrittenBefore, Blobs, Files
<1>2. CASE f = "bdbm"
  BY <1>2 DEF After, WrittenBefore, Blobs
<1>3. CASE f = "COMPLETE"
  BY <1>3 DEF After, WrittenBefore, Blobs, Files
<1>4. QED
  BY <1>1, <1>2, <1>3 DEF Files

LEMMA WriterInvNext ==
  ASSUME Inv, [Next]_vars
  PROVE  WriterInv'
<1> USE DEF Inv, TransactionInv
<1> SUFFICES ASSUME step' \notin {"idle", "clear"}
             PROVE  /\ DOMAIN dir'[job'.ver] = WrittenBefore(step')
                    /\ \A b \in Blobs \cap DOMAIN dir'[job'.ver] :
                         dir'[job'.ver][b] \in {job'.data, Garbled}
  BY DEF WriterInv
<1>1. CASE dir' = dir /\ job' = job /\ step' = step
  BY <1>1 DEF WriterInv
<1>2. CASE EndClear
  BY <1>2 DEF EndClear, WrittenBefore
<1>3. CASE WriteBlob \/ WriteManifest \/ WriteMarker
  <2>1. step \in Files /\ WriteFile(step, Content(step))
    BY <1>3, WritesAreWriteSteps DEF WriteFile
  <2>2. step \notin {"idle", "clear"} /\ job.ver \in Versions
    BY <2>1, JobType DEF Files, Blobs
  <2>3. After(step) # "idle" /\ step' = After(step) /\ job' = job
    BY <2>1 DEF WriteFile, Idle
  <2>4. dir'[job.ver] = With(dir[job.ver], step, Content(step))
    BY <2>1, <2>2 DEF WriteFile, TypeOK
  <2>5. step \in Blobs => Content(step) = job.data
    BY DEF Content
  <2>6. DOMAIN dir'[job.ver] = DOMAIN dir[job.ver] \cup {step}
    BY <2>4 DEF With
  <2>7. \A b \in Blobs \cap DOMAIN dir'[job.ver] : dir'[job.ver][b] \in {job.data, Garbled}
    BY <2>2, <2>4, <2>5 DEF With, WriterInv
  <2>8. DOMAIN dir[job.ver] = WrittenBefore(step)
    BY <2>2 DEF WriterInv
  <2>9. QED
    BY <2>1, <2>3, <2>6, <2>7, <2>8, WrittenInOrder
<1>4. CASE CorruptSeeds
  <2>1. job' = job /\ step' = step /\ step # "idle"
    BY <1>4 DEF CorruptSeeds, writer
  <2>2. job.ver \in Versions
    BY <2>1, JobType
  <2>3. \/ dir'[job.ver] = dir[job.ver]
        \/ "bseed" \in DOMAIN dir[job.ver] /\ dir'[job.ver] = With(dir[job.ver], "bseed", Garbled)
    BY <1>4, <2>2 DEF CorruptSeeds, TypeOK
  <2>4. CASE dir'[job.ver] = dir[job.ver]
    BY <2>1, <2>4 DEF WriterInv
  <2>5. CASE "bseed" \in DOMAIN dir[job.ver] /\ dir'[job.ver] = With(dir[job.ver], "bseed", Garbled)
    <3>1. DOMAIN dir'[job.ver] = DOMAIN dir[job.ver]
      BY <2>5 DEF With
    <3>2. \A b \in Blobs \cap DOMAIN dir'[job.ver] : dir'[job.ver][b] \in {job.data, Garbled}
      BY <2>1, <2>5 DEF With, WriterInv
    <3>3. QED
      BY <2>1, <3>1, <3>2 DEF WriterInv
  <2>6. QED
    BY <2>3, <2>4, <2>5
<1>5. CASE StageSnapshot \/ CommitSnapshot \/ RemoveFile
  BY <1>5 DEF StageSnapshot, CommitSnapshot, BeginCall, RemoveFile, writer
<1>6. CASE WriteCurrent \/ CrashWriter \/ PowerLoss
  BY <1>6 DEF WriteCurrent, CrashWriter, PowerLoss, Idle
<1>7. CASE \E r \in Readers : ReaderStep(r)
  BY <1>1, <1>7, ReaderStepIsItsOwn DEF writer
<1>8. CASE UNCHANGED vars
  BY <1>1, <1>8 DEF vars, writer
<1>9. QED
  BY <1>2, <1>3, <1>4, <1>5, <1>6, <1>7, <1>8 DEF Next, WriterStep

----------------------------------------------------------------------------
(* The files of a version are of one call *)

LEMMA CoherentOnly ==
  ASSUME NEW v, NEW files, NEW F, Coherent(v, files)
  PROVE  Coherent(v, Only(files, F))
BY DEF Coherent, Only

LEMMA CoherentCorrupted ==
  ASSUME NEW v, NEW files, "bseed" \in DOMAIN files, Coherent(v, files)
  PROVE  Coherent(v, With(files, "bseed", Garbled))
<1>1. "COMPLETE" # "bseed"
  OBVIOUS
<1>2. QED
  BY <1>1 DEF Coherent, With

\* The file that a call writes is of that call, and the marker comes last.
LEMMA CoherentWritten ==
  ASSUME Inv, WriteBlob \/ WriteManifest \/ WriteMarker, step \in Files
  PROVE  /\ \A b \in Blobs \cap DOMAIN dir'[job.ver] : dir'[job.ver][b] \in {job.data, Garbled}
         /\ "COMPLETE" \in DOMAIN dir'[job.ver] => <<job.ver, job.data>> \in completed'
<1>1. WriteFile(step, Content(step)) /\ step \notin {"idle", "clear"}
  BY WritesAreWriteSteps DEF WriteFile, Files, Blobs
<1>2. job.ver \in Versions
  BY <1>1, JobType DEF Inv
<1>3. dir'[job.ver] = With(dir[job.ver], step, Content(step))
  BY <1>1, <1>2 DEF WriteFile, Inv, TypeOK
<1>4. /\ DOMAIN dir[job.ver] = WrittenBefore(step)
      /\ \A b \in Blobs \cap DOMAIN dir[job.ver] : dir[job.ver][b] \in {job.data, Garbled}
  BY <1>1 DEF Inv, TransactionInv, WriterInv
<1>5. step \in Blobs => Content(step) = job.data
  BY DEF Content
<1>6. \A b \in Blobs \cap DOMAIN dir'[job.ver] : dir'[job.ver][b] \in {job.data, Garbled}
  BY <1>3, <1>4, <1>5 DEF With
<1>7. "COMPLETE" \notin WrittenBefore(step)
  BY DEF WrittenBefore, Files, Blobs
<1>8. "COMPLETE" \in DOMAIN dir'[job.ver] => step = "COMPLETE"
  BY <1>3, <1>4, <1>7 DEF With
<1>9. QED
  BY <1>6, <1>8, WritesAreWriteSteps

LEMMA CoherentNext ==
  ASSUME Inv, [Next]_vars, NEW v \in Versions
  PROVE  Coherent(v, dir[v])'
<1>1. completed \subseteq completed'
  BY CompletedGrows DEF Inv
<1>2. Coherent(v, dir[v])
  BY DEF Inv, TransactionInv
<1>3. SUFFICES Coherent(v, dir'[v]) \/ Coherent(v, dir[v])'
  BY <1>1 DEF Coherent
<1>4. CASE dir'[v] = dir[v]
  BY <1>2, <1>4
<1>5. CASE /\ PowerLoss /\ v = before.ver
           /\ \E F, files : files \in {before.files, dir[v]} /\ dir'[v] = Only(files, F)
  <2>1. PICK F, files : files \in {before.files, dir[v]} /\ dir'[v] = Only(files, F)
    BY <1>5
  <2>2. Coherent(v, before.files)
    BY <1>5 DEF PowerLoss, Inv, TransactionInv
  <2>3. Coherent(v, files)
    BY <1>2, <2>1, <2>2
  <2>4. QED
    BY <2>1, <2>3, CoherentOnly
<1>6. CASE \E F : dir'[v] = Only(dir[v], F)
  BY <1>2, <1>6, CoherentOnly
<1>7. CASE "bseed" \in DOMAIN dir[v] /\ dir'[v] = With(dir[v], "bseed", Garbled)
  BY <1>2, <1>7, CoherentCorrupted
<1>8. CASE v = job.ver /\ step \in Files /\ (WriteBlob \/ WriteManifest \/ WriteMarker)
  <2>1. job.data \in Data
    BY <1>8, JobType DEF Inv, Files, Blobs
  <2>2. QED
    BY <1>8, <2>1, CoherentWritten DEF Coherent
<1>9. QED
  BY <1>4, <1>5, <1>6, <1>7, <1>8, HowFilesChange

\* What the disk had of the version when its call began was coherent.
LEMMA BeforeNext ==
  ASSUME Inv, [Next]_vars, before'.ver # NoVersion
  PROVE  Coherent(before.ver, before.files)'
<1>1. completed \subseteq completed'
  BY CompletedGrows DEF Inv
<1>2. CASE before' = before
  <2>1. Coherent(before.ver, before.files)
    BY <1>2 DEF Inv, TransactionInv
  <2>2. QED
    BY <1>1, <1>2, <2>1 DEF Coherent
<1>3. CASE StageSnapshot \/ CommitSnapshot
  <2>1. PICK v \in Versions : before' = [ver |-> v, files |-> dir[v], current |-> current]
    BY <1>3 DEF StageSnapshot, CommitSnapshot, BeginCall
  <2>2. before'.ver = v /\ before'.files = dir[v]
    BY <2>1
  <2>3. Coherent(v, dir[v])
    BY DEF Inv, TransactionInv
  <2>4. QED
    BY <1>1, <2>2, <2>3 DEF Coherent
<1>4. CASE PowerLoss
  BY <1>4 DEF PowerLoss, NoCall
<1>5. CASE RemoveFile \/ EndClear \/ WriteBlob \/ WriteManifest \/ WriteMarker \/ WriteCurrent
           \/ CrashWriter \/ CorruptSeeds
  BY <1>2, <1>5 DEF RemoveFile, EndClear, WriteBlob, WriteManifest, WriteMarker, WriteFile,
                    WriteCurrent, CrashWriter, CorruptSeeds, writer
<1>6. CASE \E r \in Readers : ReaderStep(r)
  BY <1>2, <1>6, ReaderStepIsItsOwn DEF writer, Inv
<1>7. CASE UNCHANGED vars
  BY <1>2, <1>7 DEF vars, writer
<1>8. QED
  BY <1>3, <1>4, <1>5, <1>6, <1>7 DEF Next, WriterStep

----------------------------------------------------------------------------
(* What others do to a reader *)

LEMMA TouchTells ==
  ASSUME HistoryOK, NEW v \in Versions, Touch(v), NEW r \in Readers, rpc[r] # "idle"
  PROVE  /\ touched'[r] = touched[r] \cup {v}
         /\ clean'[r] = (clean[r] /\ trying[r] # v)
BY DEF HistoryOK, Touch

\* A reader that another's step leaves running stays where it is, and what its
\* history does not list as touched has not changed.
Kept(r) ==
  /\ rpc'[r] = rpc[r] /\ candidates'[r] = candidates[r]
  /\ trying'[r] = trying[r] /\ got'[r] = got[r]
  /\ touched[r] \subseteq touched'[r]
  /\ \A v \in Versions : v \notin touched'[r] => dir'[v] = dir[v]
  /\ clean'[r] => clean[r]
  /\ clean'[r] /\ trying[r] \in Versions => dir'[trying[r]] = dir[trying[r]]
  /\ clean[r] /\ trying[r] \notin touched'[r] => clean'[r]

LEMMA KeptWhenTouched ==
  ASSUME TypeOK, NEW r \in Readers, rpc'[r] # "idle", UNCHANGED reader,
         NEW v \in Versions, Touch(v), \A u \in Versions \ {v} : dir'[u] = dir[u]
  PROVE  Kept(r)
<1>1. rpc[r] # "idle"
  BY DEF reader
<1>2. /\ touched'[r] = touched[r] \cup {v}
      /\ clean'[r] = (clean[r] /\ trying[r] # v)
  BY <1>1, TouchTells, TypeParts
<1>3. clean'[r] <=> clean[r] /\ trying[r] # v
  BY <1>2
<1>4. touched[r] \subseteq touched'[r] /\ v \in touched'[r]
  BY <1>2
<1>5. \A u \in Versions : u \notin touched'[r] => dir'[u] = dir[u]
  BY <1>4
<1>6. clean'[r] /\ trying[r] \in Versions => dir'[trying[r]] = dir[trying[r]]
  BY <1>3
<1>7. clean[r] /\ trying[r] \notin touched'[r] => clean'[r]
  BY <1>3, <1>4
<1>8. QED
  BY <1>3, <1>4, <1>5, <1>6, <1>7 DEF Kept, reader

LEMMA UntouchedIsUnchanged ==
  ASSUME Inv, [Next]_vars, NEW r \in Readers, ~ReaderStep(r), rpc'[r] # "idle"
  PROVE  Kept(r)
<1> USE DEF Inv
<1>1. CASE UNCHANGED <<dir, reader, watch>>
  BY <1>1 DEF Kept, reader, watch
<1>2. CASE StageSnapshot \/ CommitSnapshot \/ EndClear \/ WriteCurrent \/ CrashWriter
  BY <1>1, <1>2 DEF StageSnapshot, CommitSnapshot, BeginCall, EndClear, WriteCurrent, CrashWriter
<1>3. CASE RemoveFile
  <2>1. job.ver \in Versions
    BY <1>3, JobType DEF RemoveFile
  <2>2. \A u \in Versions \ {job.ver} : dir'[u] = dir[u]
    BY <1>3 DEF RemoveFile, TypeOK
  <2>3. Touch(job.ver) /\ UNCHANGED reader
    BY <1>3 DEF RemoveFile
  <2>4. QED
    BY <2>1, <2>2, <2>3, KeptWhenTouched
<1>4. CASE WriteBlob \/ WriteManifest \/ WriteMarker
  <2>1. step \in Files /\ WriteFile(step, Content(step))
    BY <1>4, WritesAreWriteSteps DEF WriteFile
  <2>2. job.ver \in Versions
    BY <2>1, JobType DEF Files, Blobs
  <2>3. \A u \in Versions \ {job.ver} : dir'[u] = dir[u]
    BY <2>1 DEF WriteFile, TypeOK
  <2>4. Touch(job.ver) /\ UNCHANGED reader
    BY <2>1 DEF WriteFile
  <2>5. QED
    BY <2>2, <2>3, <2>4, KeptWhenTouched
<1>5. CASE PowerLoss
  BY <1>5 DEF PowerLoss
<1>6. CASE CorruptSeeds
  <2>1. PICK v \in Versions : Touch(v) /\ dir' = [dir EXCEPT ![v] = With(dir[v], "bseed", Garbled)]
    BY <1>6 DEF CorruptSeeds
  <2>2. \A u \in Versions \ {v} : dir'[u] = dir[u]
    BY <2>1 DEF TypeOK
  <2>3. UNCHANGED reader
    BY <1>6 DEF CorruptSeeds
  <2>4. QED
    BY <2>1, <2>2, <2>3, KeptWhenTouched
<1>7. CASE \E s \in Readers \ {r} : ReaderStep(s)
  BY <1>7, ReaderStepIsItsOwn DEF Kept
<1>8. CASE UNCHANGED vars
  BY <1>1, <1>8 DEF vars
<1>9. QED
  BY <1>2, <1>3, <1>4, <1>5, <1>6, <1>7, <1>8 DEF Next, WriterStep

----------------------------------------------------------------------------
(* What a reader has read *)

LEMMA ReadsTrueNext ==
  ASSUME Inv, [Next]_vars, NEW r \in Readers
  PROVE  ReadsTrue(r)'
<1> USE DEF Inv
<1>1. ReadsTrue(r)
  BY DEF TransactionInv
<1>2. CASE rpc'[r] \notin {"read", "done"}
  BY <1>2 DEF ReadsTrue
<1>3. CASE Kept(r) /\ rpc'[r] \in {"read", "done"}
  <2>1. trying[r] \in Versions /\ rpc[r] \in {"read", "done"}
    BY <1>1, <1>3 DEF ReadsTrue, Kept
  <2>2. clean'[r] => dir'[trying[r]] = dir[trying[r]]
    BY <1>3, <2>1 DEF Kept
  <2>3. trying[r] \notin touched'[r] => clean'[r]
    BY <1>1, <1>3, <2>1 DEF ReadsTrue, Kept
  <2>4. clean'[r] => clean[r]
    BY <1>3 DEF Kept
  <2>5. rpc'[r] = rpc[r] /\ trying'[r] = trying[r] /\ got'[r] = got[r]
    BY <1>3 DEF Kept
  <2>6. QED
    BY <1>1, <2>1, <2>2, <2>3, <2>4, <2>5 DEF ReadsTrue
<1>4. CASE OpenVersion(r)
  <2>1. PICK v \in candidates[r] :
          /\ Pick(r, v) /\ Files \subseteq DOMAIN dir[v]
          /\ rpc' = [rpc EXCEPT ![r] = "read"] /\ clean' = [clean EXCEPT ![r] = TRUE]
    BY <1>4 DEF OpenVersion
  <2>2. v \in Versions /\ trying'[r] = v /\ got'[r] = << >> /\ dir' = dir
    BY <2>1 DEF Pick, TypeOK
  <2>3. rpc'[r] = "read" /\ clean'[r]
    BY <2>1 DEF TypeOK
  <2>4. Present(dir'[v])
    BY <2>1, <2>2 DEF Present
  <2>5. 1..Len(got'[r]) = {}
    BY <2>2
  <2>6. QED
    BY <2>2, <2>3, <2>4, <2>5 DEF ReadsTrue
<1>5. CASE ReadFile(r)
  <2> DEFINE next == Here(r)[NextFile(r)]
  <2>1. rpc[r] = "read" /\ UNCHANGED <<dir, rpc, trying, watch>>
    BY <1>5 DEF ReadFile
  <2>2. /\ got[r] \in Seq(Data \cup Manifests) /\ got'[r] = Append(got[r], next)
        /\ next # Garbled /\ next = dir[trying[r]][ReadOrder[Len(got[r]) + 1]]
    BY <1>5 DEF ReadFile, TypeOK, Sound, Here, NextFile
  <2>3. /\ Len(got'[r]) = Len(got[r]) + 1 /\ Len(got[r]) \in Nat
        /\ got'[r][Len(got[r]) + 1] = next
        /\ \A i \in 1..Len(got[r]) : got'[r][i] = got[r][i]
    BY <2>2
  <2>4. \A i \in 1..Len(got'[r]) : i \in 1..Len(got[r]) \/ i = Len(got[r]) + 1
    BY <2>3
  <2>5. \A i \in 1..Len(got'[r]) : got'[r][i] # Garbled
    BY <1>1, <2>1, <2>2, <2>3, <2>4 DEF ReadsTrue
  <2>6. clean[r] =>
          \A i \in 1..Len(got'[r]) : got'[r][i] = dir[trying[r]][ReadOrder[i]]
    BY <1>1, <2>1, <2>2, <2>3, <2>4 DEF ReadsTrue
  <2> HIDE DEF next
  <2>7. QED
    BY <1>1, <2>1, <2>5, <2>6 DEF ReadsTrue, watch
<1>6. CASE CheckDigests(r)
  <2>1. UNCHANGED <<dir, trying, got, watch>> /\ rpc[r] = "read" /\ Len(got[r]) = Len(ReadOrder)
    BY <1>6 DEF CheckDigests
  <2>2. QED
    BY <1>1, <2>1 DEF ReadsTrue, watch
<1>7. CASE ReadCurrent(r) \/ ListSnapshots(r) \/ SkipVersion(r) \/ RejectFile(r)
           \/ RaiseNoSnapshot(r) \/ EndRecovery(r)
  <2>1. rpc'[r] \notin {"read", "done"}
    BY <1>7 DEF ReadCurrent, ListSnapshots, SkipVersion, Pick, RejectFile, RaiseNoSnapshot,
                EndRecovery, TypeOK
  <2>2. QED
    BY <1>2, <2>1
<1>8. QED
  BY <1>2, <1>3, <1>4, <1>5, <1>6, <1>7, UntouchedIsUnchanged DEF ReaderStep

----------------------------------------------------------------------------
(* What a reader may not miss *)

\* A version that is intact, and has been since the reader began, passes.
LEMMA IntactIsSound ==
  ASSUME TypeOK, NEW v \in Versions, Intact(v)
  PROVE  /\ Files \subseteq DOMAIN dir[v] /\ DOMAIN dir[v] # {}
         /\ \A f \in Blobs \cup {"bdbm"} : Sound(dir[v], f)
<1>1. Files \subseteq DOMAIN dir[v] /\ "bdbm" \in Files
  BY DEF Intact, Present, Files
<1>2. \A b \in Blobs : Sound(dir[v], b)
  BY <1>1 DEF Intact, Sound, Files
<1>3. dir[v]["bdbm"] \in Manifests
  BY <1>1, FilesFit DEF Fits, Blobs
<1>4. QED
  BY <1>1, <1>2, <1>3, ManifestsAreNew DEF Sound

LEMMA MissesNoneReader ==
  ASSUME Inv, NEW r \in Readers, ReaderStep(r), NEW v \in Versions, v \notin touched'[r],
         Intact(v)
  PROVE  /\ rpc'[r] = "pick" => v \in candidates'[r]
         /\ rpc'[r] = "read" => v \in candidates'[r] \cup {trying'[r]}
         /\ rpc'[r] = "done" => v <= trying'[r]
         /\ rpc'[r] # "raised"
<1> USE DEF Inv
<1>1. ReadsTrue(r) /\ MissesNone(r)
  BY DEF TransactionInv
<1>2. Files \subseteq DOMAIN dir[v] /\ DOMAIN dir[v] # {}
  BY IntactIsSound
<1>3. CASE ReadCurrent(r) \/ EndRecovery(r)
  BY <1>3 DEF ReadCurrent, EndRecovery, TypeOK
<1>4. CASE ListSnapshots(r)
  BY <1>2, <1>4 DEF ListSnapshots, TypeOK
<1>5. CASE OpenVersion(r) \/ SkipVersion(r)
  <2>1. PICK u \in candidates[r] : Pick(r, u)
    BY <1>5 DEF OpenVersion, SkipVersion
  <2>2. touched'[r] = touched[r] /\ rpc[r] = "pick" /\ trying'[r] = u
        /\ candidates'[r] = candidates[r] \ {u}
    BY <2>1 DEF Pick, TypeOK
  <2>3. v \in candidates[r]
    BY <1>1, <2>2 DEF MissesNone
  <2>4. CASE OpenVersion(r)
    BY <2>2, <2>3, <2>4 DEF OpenVersion, TypeOK
  <2>5. CASE SkipVersion(r)
    <3>1. PICK w \in candidates[r] : Pick(r, w) /\ ~(Files \subseteq DOMAIN dir[w])
      BY <2>5 DEF SkipVersion
    <3>2. candidates'[r] = candidates[r] \ {w} /\ w # v
      BY <1>2, <3>1 DEF Pick, TypeOK
    <3>3. rpc'[r] = "pick"
      BY <2>2, <2>5 DEF SkipVersion
    <3>4. QED
      BY <2>3, <3>2, <3>3
  <2>6. QED
    BY <1>5, <2>4, <2>5
<1>6. CASE ReadFile(r) \/ RejectFile(r) \/ CheckDigests(r)
  <2>1. /\ rpc[r] = "read" /\ touched'[r] = touched[r]
        /\ candidates'[r] = candidates[r] /\ trying'[r] = trying[r]
    BY <1>6 DEF ReadFile, RejectFile, CheckDigests, watch
  <2>2. v \in candidates[r] \cup {trying[r]}
    BY <1>1, <2>1 DEF MissesNone
  <2>3. CASE ReadFile(r)
    BY <2>1, <2>2, <2>3 DEF ReadFile
  <2>4. CASE RejectFile(r)
    <3>1. rpc'[r] = "pick"
      BY <2>4 DEF RejectFile, TypeOK
    <3>2. NextFile(r) \in Blobs \cup {"bdbm"}
      BY <2>4, ReadOrderType DEF RejectFile, NextFile, TypeOK
    <3>3. v # trying[r]
      BY <2>4, <3>2, IntactIsSound DEF RejectFile, Here
    <3>4. QED
      BY <2>1, <2>2, <3>1, <3>3
  <2>5. CASE CheckDigests(r)
    <3>1. v = trying[r] => DigestsFit(r)
      <4>1. SUFFICES ASSUME v = trying[r]
                     PROVE  DigestsFit(r)
        OBVIOUS
      <4>2. clean[r]
        BY <1>1, <2>1, <4>1 DEF ReadsTrue
      <4>3. Len(got[r]) = 4
        BY <2>5, ReadOrderType DEF CheckDigests
      <4>4. got[r][4] = dir[v]["bdbm"]
        BY <1>1, <2>1, <4>1, <4>2, <4>3, ReadOrderType DEF ReadsTrue
      <4>5. \A b \in Blobs : b \in DOMAIN dir[v] /\ dir[v][b] = dir[v]["bdbm"][b]
        BY <1>2 DEF Intact, Files
      <4>6. QED
        BY <4>1, <4>4, <4>5, ReadOrderType DEF DigestsFit, Here
    <3>2. rpc'[r] = IF DigestsFit(r) THEN "done" ELSE "pick"
      BY <2>5 DEF CheckDigests, TypeOK
    <3>3. v <= trying[r]
      <4>1. \A u \in candidates[r] : u <= trying[r]
        BY <1>1, <2>1 DEF MissesNone
      <4>2. v \in Nat
        BY TransactionAssumption
      <4>3. QED
        BY <2>2, <4>1, <4>2
    <3>4. QED
      BY <2>1, <2>2, <3>1, <3>2, <3>3
  <2>6. QED
    BY <1>6, <2>3, <2>4, <2>5
<1>7. CASE RaiseNoSnapshot(r)
  <2>1. rpc[r] = "pick" /\ candidates[r] = {} /\ touched'[r] = touched[r]
    BY <1>7 DEF RaiseNoSnapshot, watch
  <2>2. v \in candidates[r]
    BY <1>1, <2>1 DEF MissesNone
  <2>3. QED
    BY <2>1, <2>2
<1>8. QED
  BY <1>3, <1>4, <1>5, <1>6, <1>7 DEF ReaderStep

\* The version tried is the newest of those left.
LEMMA NewestIsTried ==
  ASSUME Inv, NEW r \in Readers, ReaderStep(r), rpc'[r] = "read"
  PROVE  \A u \in candidates'[r] : u <= trying'[r]
<1> USE DEF Inv
<1>1. CASE OpenVersion(r)
  BY <1>1 DEF OpenVersion, Pick, TypeOK
<1>2. CASE ReadFile(r)
  <2>1. rpc[r] = "read" /\ UNCHANGED <<candidates, trying>>
    BY <1>2 DEF ReadFile
  <2>2. MissesNone(r)
    BY DEF TransactionInv
  <2>3. QED
    BY <2>1, <2>2 DEF MissesNone
<1>3. CASE ReadCurrent(r) \/ ListSnapshots(r) \/ SkipVersion(r) \/ RejectFile(r)
           \/ CheckDigests(r) \/ RaiseNoSnapshot(r) \/ EndRecovery(r)
  BY <1>3 DEF ReadCurrent, ListSnapshots, SkipVersion, Pick, RejectFile, CheckDigests,
              RaiseNoSnapshot, EndRecovery, TypeOK
<1>4. QED
  BY <1>1, <1>2, <1>3 DEF ReaderStep

LEMMA MissesNoneNext ==
  ASSUME Inv, [Next]_vars, NEW r \in Readers
  PROVE  MissesNone(r)'
<1> USE DEF Inv
<1>1. MissesNone(r)
  BY DEF TransactionInv
<1>2. CASE rpc'[r] = "idle"
  BY <1>2 DEF MissesNone
<1>3. CASE Kept(r)
  <2>1. rpc'[r] = "read" => \A u \in candidates'[r] : u <= trying'[r]
    BY <1>1, <1>3 DEF MissesNone, Kept
  <2>2. ASSUME NEW v \in Versions \ touched'[r], Intact(v)'
        PROVE  v \in Versions \ touched[r] /\ Intact(v)
    BY <1>3, <2>2 DEF Kept, Intact
  <2>3. /\ rpc'[r] = rpc[r] /\ candidates'[r] = candidates[r] /\ trying'[r] = trying[r]
    BY <1>3 DEF Kept
  <2>4. QED
    BY <1>1, <2>1, <2>2, <2>3 DEF MissesNone
<1>4. CASE ReaderStep(r)
  <2>1. dir' = dir
    BY <1>4, ReaderStepIsItsOwn
  <2>2. \A v \in Versions : Intact(v)' <=> Intact(v)
    BY <2>1 DEF Intact
  <2>3. rpc'[r] = "read" => \A u \in candidates'[r] : u <= trying'[r]
    BY <1>4, NewestIsTried
  <2>4. ASSUME NEW v \in Versions \ touched'[r], Intact(v)'
        PROVE  /\ rpc'[r] = "pick" => v \in candidates'[r]
               /\ rpc'[r] = "read" => v \in candidates'[r] \cup {trying'[r]}
               /\ rpc'[r] = "done" => v <= trying'[r]
               /\ rpc'[r] # "raised"
    BY <1>4, <2>2, <2>4, MissesNoneReader
  <2>5. QED
    BY <2>3, <2>4 DEF MissesNone
<1>5. QED
  BY <1>2, <1>3, <1>4, UntouchedIsUnchanged

----------------------------------------------------------------------------
(* The theorems *)

LEMMA InvInit == Init => Inv
<1> SUFFICES ASSUME Init
             PROVE  TransactionInv
  BY TypeInit DEF Inv
<1>1. WriterInv
  BY DEF Init, WriterInv
<1>2. ASSUME NEW v \in Versions
      PROVE  Coherent(v, dir[v])
  <2>1. DOMAIN dir[v] = {}
    BY DEF Init, NoFiles
  <2>2. QED
    BY <2>1 DEF Coherent
<1>3. before.ver = NoVersion
  BY DEF Init, NoCall
<1>4. ASSUME NEW r \in Readers
      PROVE  ReadsTrue(r) /\ MissesNone(r)
  BY DEF Init, ReadsTrue, MissesNone
<1>5. QED
  BY <1>1, <1>2, <1>3, <1>4 DEF TransactionInv

LEMMA InvNext == Inv /\ [Next]_vars => Inv'
<1> SUFFICES ASSUME Inv, [Next]_vars
             PROVE  Inv'
  OBVIOUS
<1>1. TypeOK'
  BY TypeNext
<1>2. WriterInv'
  BY WriterInvNext
<1>3. \A v \in Versions : Coherent(v, dir[v])'
  BY CoherentNext
<1>4. before'.ver # NoVersion => Coherent(before.ver, before.files)'
  BY BeforeNext
<1>5. \A r \in Readers : ReadsTrue(r)' /\ MissesNone(r)'
  BY ReadsTrueNext, MissesNoneNext
<1>6. QED
  BY <1>1, <1>2, <1>3, <1>4, <1>5 DEF Inv, TransactionInv

(* The directories hold what stage_snapshot and commit_snapshot write, the
   readers are where recover_latest_complete_snapshot can be, and the files,
   CURRENT and the call agree with each other, in every state. *)
THEOREM InvCorrect == Spec => []Inv
BY InvInit, InvNext, PTL DEF Spec

(* Every variable keeps its type: a manifest is never written while a file it
   digests is missing, and a reader never reads past the last file. *)
THEOREM TypeCorrect == Spec => []TypeOK
<1>1. Inv => TypeOK
  BY DEF Inv
<1>2. QED
  BY <1>1, InvCorrect, PTL

(* What recover_latest_complete_snapshot returns is the seeds, bridges and index
   of one call that came as far as its marker, unless the version is rebuilt or
   corrupted while it is read. *)
THEOREM RecoveryReturnsWhole == Spec => []RecoveredIsWhole
<1>1. ASSUME Inv, NEW r \in Readers, rpc[r] = "done", clean[r]
      PROVE  \E d \in Data : got[r][1] = d /\ got[r][2] = d /\ got[r][3] = d
                               /\ <<trying[r], d>> \in completed
  <2> DEFINE files == dir[trying[r]]
  <2>1. /\ trying[r] \in Versions /\ Present(files)
        /\ \A i \in 1..4 : got[r][i] # Garbled /\ got[r][i] = files[ReadOrder[i]]
    BY <1>1, ReadOrderType DEF Inv, TransactionInv, ReadsTrue
  <2>2. PICK d \in Data \cup {Garbled} :
          /\ \A b \in Blobs \cap DOMAIN files : files[b] \in {d, Garbled}
          /\ "COMPLETE" \in DOMAIN files => <<trying[r], d>> \in completed
    BY <1>1, <2>1 DEF Inv, TransactionInv, Coherent
  <2>3. \A b \in Blobs : b \in DOMAIN files
    BY <2>1 DEF Present, Files
  <2>4. got[r][1] = d /\ got[r][2] = d /\ got[r][3] = d
    BY <2>1, <2>2, <2>3, ReadOrderType DEF Blobs
  <2>5. d # Garbled
    BY <2>1, <2>4
  <2>6. <<trying[r], d>> \in completed
    BY <2>1, <2>2 DEF Present, Files
  <2>7. QED
    BY <2>2, <2>4, <2>5, <2>6
<1>2. Inv => RecoveredIsWhole
  BY <1>1 DEF RecoveredIsWhole
<1>3. QED
  BY <1>2, InvCorrect, PTL

(* recover_latest_complete_snapshot finds the newest version that is intact all
   along, or a newer one, past any number of damaged ones. *)
THEOREM RecoveryFindsBest == Spec => []RecoversBest
<1>1. Inv => RecoversBest
  BY DEF Inv, TransactionInv, MissesNone, RecoversBest
<1>2. QED
  BY <1>1, InvCorrect, PTL

(* CURRENT is moved only to a version all of whose files are there. *)
THEOREM CurrentIsPresent == Spec => ActivatesPresent
<1>1. ASSUME Inv, [Next]_vars, current' # current, ~PowerLoss
      PROVE  Present(dir[current'])
  <2>1. WriteCurrent
    <3>1. CASE \E r \in Readers : ReaderStep(r)
      BY <1>1, <3>1, ReaderStepIsItsOwn DEF Inv
    <3>2. QED
      BY <1>1, <3>1 DEF Next, WriterStep, StageSnapshot, CommitSnapshot, BeginCall, RemoveFile,
                        EndClear, WriteBlob, WriteManifest, WriteMarker, WriteFile,
                        CrashWriter, CorruptSeeds, vars
  <2>2. current' = job.ver /\ DOMAIN dir[job.ver] = WrittenBefore("CURRENT")
    BY <1>1, <2>1 DEF WriteCurrent, Inv, TransactionInv, WriterInv
  <2>3. WrittenBefore("CURRENT") = Files
    BY DEF WrittenBefore
  <2>4. QED
    BY <2>2, <2>3 DEF Present
<1>2. Inv /\ [Next]_vars => [current' # current /\ ~PowerLoss => Present(dir[current'])]_vars
  BY <1>1
<1>3. QED
  BY <1>2, InvCorrect, PTL DEF Spec, ActivatesPresent
=============================================================================
