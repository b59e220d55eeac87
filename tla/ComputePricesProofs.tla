------------------------ MODULE ComputePricesProofs ------------------------
(***************************************************************************)
(* Theorems about the ComputePrices client, for any processes, tasks,      *)
(* endpoints, TTL, retention, retry budget and bounds.                     *)
(***************************************************************************)
EXTENDS ComputePrices, TLAPS

-----------------------------------------------------------------------------
(* Files.                                                                   *)

LEMMA UsableIsVersion ==
    ASSUME NEW b \in Body, Usable(b)
    PROVE  b \in Version
  BY DEF Body, Usable, Absent, Truncated, Garbled

LEMMA FileTypes ==
    /\ NoFile \in File
    /\ \A m \in Time, b \in Body : [body |-> b, mtime |-> m] \in File
    /\ \A f \in File : f.body \in Body /\ f.mtime \in Time
    /\ \A f \in File : [f EXCEPT !.body = Truncated] \in File
    /\ Truncated \in Body
  BY ConstantsAssumption DEF NoFile, File, Body, Time

LEMMA SnapshotTypes ==
    ASSUME snaps \in [Endpoints -> [Time -> File]],
           NEW e \in Endpoints, NEW s \in Time, NEW f \in File
    PROVE  /\ snaps[e][s].body \in Body
           /\ [snaps EXCEPT ![e][s] = f] \in [Endpoints -> [Time -> File]]
<1>1. snaps[e] \in [Time -> File]
  OBVIOUS
<1>2. [snaps[e] EXCEPT ![s] = f] \in [Time -> File]
  BY <1>1
<1> QED BY <1>1, <1>2, FileTypes

-----------------------------------------------------------------------------
(* The inductive invariants.                                                *)

\* A task has an answer in hand from the moment upstream gave it, or it was
\* read, to the moment it is returned.
Storer == {"ok", "tmp_open", "tmp_write", "replace", "snap_open", "snap_write",
           "prune", "prune_dir", "prune_file", "prune_unlink", "project"}

HasPayload ==
    \A t \in Tasks :
        /\ pc[t] \in Storer => payload[t] \in Version
        /\ pc[t] = "idle" => payload[t] = NoPayload

\* Nothing held, stored or answered is newer than what upstream has published.
HeldIsPublished == \A t \in Tasks : payload[t] <= ver[ep[t]]

StoredIsPublished ==
    \A e \in Endpoints :
        /\ latest[e].body <= ver[e] /\ tmp[e].body <= ver[e]
        /\ \A s \in Time : snaps[e][s].body <= ver[e]

AnsweredIsPublished ==
    \A t \in Tasks :
        /\ res[t].body <= ver[ep[t]]
        /\ res[t].kind = "served" => res[t].body # NoPayload

\* The fallback walks the history of its own endpoint.
WalksOwn == \A t \in Tasks : pc[t] = "walk" => names[t] \subseteq {ep[t]} \X Time

\* An entry is doomed between the look at its age and its unlink only.
Dooms ==
    \A t \in Tasks :
        /\ doomed[t] \subseteq names[t]
        /\ pc[t] # "prune_unlink" => doomed[t] = {}

Provenance ==
    HasPayload /\ HeldIsPublished /\ StoredIsPublished /\ AnsweredIsPublished /\ WalksOwn
    /\ Dooms

\* Places between two awaits.
Sync == Control \ {"idle", "sent", "ok", "retryable", "client_error", "malformed"}

\* ... are passed with the event loop in hand.
LoopHeld(t) == pc[t] \in Sync => Running(t)

\* A lone writer's temporary file and snapshot are its own at every step.
OwnsTmp(t) ==
    /\ pc[t] = "tmp_write" => fd[t] = "tmp" /\ tmp[ep[t]].body = Truncated
    /\ pc[t] = "replace" => tmp[ep[t]].body = payload[t]

OwnsSnapshot(t) ==
    pc[t] = "snap_write" => snaps[ep[t]][clock[t]].body = Truncated

\* What it listed to prune is still there.
SeesFiles(t) ==
    pc[t] \in {"prune_file", "prune_unlink"} =>
        \A n \in names[t] \cup doomed[t] : Content(n) # Absent

Stored == {"snap_open", "snap_write", "prune", "prune_dir", "prune_file", "prune_unlink",
           "project"}

HeldIsStored(t) ==
    (pc[t] \in Stored /\ ep[t] \notin tampered) => payload[t] = latest[ep[t]].body

FallsBackWhenEmpty(t) ==
    (pc[t] \in {"list", "walk"} /\ ep[t] \notin tampered) => latest[ep[t]].body = Absent

LoneTask(t) ==
    /\ LoopHeld(t) /\ OwnsTmp(t) /\ OwnsSnapshot(t) /\ SeesFiles(t)
    /\ HeldIsStored(t) /\ FallsBackWhenEmpty(t)

NoGarbledSnapshot == \A e \in Endpoints, s \in Time : snaps[e][s].body # Garbled

\* Without a latest.json nothing was ever answered, nor completely stored.
EmptyMeansNew ==
    \A e \in Endpoints \ tampered :
        latest[e].body = Absent =>
            served[e] = NoPayload /\ \A s \in Time : ~Usable(snaps[e][s].body)

LoneProcess ==
    /\ \A t \in Tasks : LoneTask(t)
    /\ LatestIsWhole /\ NoGarbledSnapshot /\ EmptyMeansNew /\ NoSpuriousFailure

-----------------------------------------------------------------------------
(* Type correctness.                                                        *)

LEMMA FinishType ==
    ASSUME TypeOK, NEW t \in Tasks, NEW kind \in Ending,
           NEW v \in Version \cup {NoPayload}, Finish(t, kind, v)
    PROVE  /\ pc' \in [Tasks -> Control]
           /\ res' \in [Tasks -> [kind : Ending, body : Version \cup {NoPayload}]]
           /\ served' \in [Endpoints -> Version \cup {NoPayload}]
           /\ ep' \in [Tasks -> Endpoints]
           /\ payload' \in [Tasks -> Version \cup {NoPayload}]
           /\ tries' \in [Tasks -> 0..Attempts]
           /\ fd' \in [Tasks -> {"tmp", "latest", "gone"}]
           /\ clock' \in [Tasks -> Time]
           /\ dirs' \in [Tasks -> SUBSET Endpoints]
           /\ names' \in [Tasks -> SUBSET (Endpoints \X Time)]
           /\ doomed' \in [Tasks -> SUBSET (Endpoints \X Time)]
  BY ConstantsAssumption DEF TypeOK, Finish, Forget, Control, Time, NoPayload

LEMMA SuspendedType ==
    ASSUME TypeOK, NEW t \in Tasks, Suspended(t)
    PROVE  TypeOK'
<1> USE ConstantsAssumption DEF TypeOK, env, disk, locals, Control
<1>1. CASE \E o \in Outcomes : Answer(t, o)
  BY <1>1 DEF Answer, Holding
<1>2. CASE Retry(t)
  BY <1>2 DEF Retry
<1>3. CASE GiveUp(t)
  BY <1>3 DEF GiveUp, Acquire
<1>4. CASE Surface(t)
  BY <1>4, FinishType DEF Surface, Raise, Ending
<1>5. CASE Resume(t)
  BY <1>5 DEF Resume, Acquire
<1> QED BY <1>1, <1>2, <1>3, <1>4, <1>5 DEF Suspended

LEMMA ReadingType ==
    ASSUME TypeOK, NEW t \in Tasks, Reading(t)
    PROVE  TypeOK'
<1> USE ConstantsAssumption DEF TypeOK, env, disk, locals, Control
<1> DEFINE b == latest[ep[t]].body
<1>0. Usable(b) => b \in Version
  BY UsableIsVersion, FileTypes
<1>1. CASE ReadCacheHit(t)
  BY <1>0, <1>1 DEF ReadCacheHit, Step, Holding
<1>2. CASE ReadCacheCorrupt(t)
  BY <1>2 DEF ReadCacheCorrupt, Step, Release
<1>3. CASE FallbackLatest(t)
  BY <1>0, <1>3 DEF FallbackLatest, Step, Holding
<1>4. CASE FallbackMiss(t)
  BY <1>4 DEF FallbackMiss, Step
<1>5. CASE ListSnapshots(t)
  BY <1>5 DEF ListSnapshots, Step, Listing
<1>6. CASE Unavailable(t)
  BY <1>6, FinishType DEF Unavailable, Raise, Ending, Release
<1>7. ASSUME NEW n \in Endpoints \X Time, ReadSnapshot(t, n)
      PROVE  TypeOK'
  <2>1. Content(n) \in Version
    <3>1. n[1] \in Endpoints /\ n[2] \in Time
      OBVIOUS
    <3>2. Content(n) \in Body
      BY <3>1, FileTypes DEF Content
    <3> QED BY <3>2, <1>7, UsableIsVersion DEF ReadSnapshot
  <2> QED BY <2>1, <1>7 DEF ReadSnapshot, Step, Holding
<1>8. ASSUME NEW n \in Endpoints \X Time, SkipSnapshot(t, n)
      PROVE  TypeOK'
  BY <1>8 DEF SkipSnapshot, Step
<1>9. ASSUME NEW n \in Endpoints \X Time, SnapshotCrashesWalk(t, n)
      PROVE  TypeOK'
  BY <1>9, FinishType DEF SnapshotCrashesWalk, Raise, Ending, Release
<1> QED
  BY <1>1, <1>2, <1>3, <1>4, <1>5, <1>6, <1>7, <1>8, <1>9 DEF Reading

LEMMA OverlayType ==
    ASSUME NEW b \in Body, NEW v \in Version
    PROVE  Overlay(b, v) \in SUBSET Body
  BY DEF Overlay, Body

LEMMA StoringType ==
    ASSUME TypeOK, Provenance, NEW t \in Tasks, Storing(t)
    PROVE  TypeOK'
<1> USE ConstantsAssumption DEF TypeOK, env, disk, locals, Control
<1>1. CASE OpenTmp(t)
  BY <1>1, FileTypes DEF OpenTmp, Step
<1>2. CASE WriteTmp(t)
  <2>1. payload[t] \in Version
    BY <1>2 DEF WriteTmp, Step, Provenance, HasPayload, Storer
  <2>2. /\ \A b \in Overlay(tmp[ep[t]].body, payload[t]) : b \in Body
        /\ \A b \in Overlay(latest[ep[t]].body, payload[t]) : b \in Body
    BY <2>1, OverlayType, FileTypes
  <2>3. tmp' \in [Endpoints -> File] /\ latest' \in [Endpoints -> File]
    <3>1. CASE fd[t] = "tmp"
      <4> PICK b \in Overlay(tmp[ep[t]].body, payload[t]) :
               tmp' = [tmp EXCEPT ![ep[t]] = [body |-> b, mtime |-> now]]
        BY <1>2, <3>1 DEF WriteTmp
      <4>1. [body |-> b, mtime |-> now] \in File
        BY <2>2, FileTypes
      <4> QED BY <1>2, <3>1, <4>1 DEF WriteTmp
    <3>2. CASE fd[t] = "latest"
      <4> PICK b \in Overlay(latest[ep[t]].body, payload[t]) :
               latest' = [latest EXCEPT ![ep[t]] = [body |-> b, mtime |-> now]]
        BY <1>2, <3>2 DEF WriteTmp
      <4>1. [body |-> b, mtime |-> now] \in File
        BY <2>2, FileTypes
      <4> QED BY <1>2, <3>2, <4>1 DEF WriteTmp
    <3>3. CASE fd[t] = "gone"
      BY <1>2, <3>3 DEF WriteTmp
    <3> QED BY <3>1, <3>2, <3>3
  <2> QED BY <1>2, <2>3 DEF WriteTmp, Step
<1>3. CASE Replace(t)
  BY <1>3, FileTypes DEF Replace, Step
<1>4. CASE ReplaceFails(t)
  BY <1>4, FinishType DEF ReplaceFails, Raise, Ending, Release
<1>5. CASE OpenSnapshot(t)
  BY <1>5, FileTypes, SnapshotTypes DEF OpenSnapshot, Step
<1>6. CASE WriteSnapshot(t)
  <2>1. payload[t] \in Version
    BY <1>6 DEF WriteSnapshot, Step, Provenance, HasPayload, Storer
  <2>2. \A b \in Overlay(snaps[ep[t]][clock[t]].body, payload[t]) : b \in Body
    BY <2>1, OverlayType, SnapshotTypes, FileTypes
  <2>3. snaps' \in [Endpoints -> [Time -> File]]
    <3>1. CASE UNCHANGED snaps
      BY <3>1
    <3>2. ASSUME NEW b \in Overlay(snaps[ep[t]][clock[t]].body, payload[t]),
                 snaps' = [snaps EXCEPT ![ep[t]][clock[t]] = [body |-> b, mtime |-> now]]
          PROVE  snaps' \in [Endpoints -> [Time -> File]]
      <4>1. [body |-> b, mtime |-> now] \in File
        BY <2>2, FileTypes
      <4> QED BY <3>2, <4>1, SnapshotTypes
    <3> QED BY <1>6, <3>1, <3>2 DEF WriteSnapshot
  <2> QED BY <1>6, <2>3 DEF WriteSnapshot, Step
<1>7. CASE PruneStart(t)
  BY <1>7 DEF PruneStart, Step
<1>8. CASE PruneNext(t)
  BY <1>8 DEF PruneNext, Step
<1>9. ASSUME NEW e \in Endpoints, PruneDir(t, e)
      PROVE  TypeOK'
  BY <1>9 DEF PruneDir, Step, Listing
<1>10. ASSUME NEW n \in Endpoints \X Time, PruneFile(t, n)
       PROVE  TypeOK'
  <2>1. /\ pc' \in [Tasks -> Control]
        /\ names' = names \/ names' = [names EXCEPT ![t] = @ \ {n}]
        /\ doomed' = doomed \/ doomed' = [doomed EXCEPT ![t] = {n}]
    BY <1>10 DEF PruneFile, Step
  <2> DEFINE D == Endpoints \X Time
  <2>2. names' \in [Tasks -> SUBSET D]
    <3>1. names \in [Tasks -> SUBSET D]
      OBVIOUS
    <3>2. names[t] \ {n} \in SUBSET D
      BY <3>1
    <3> HIDE DEF D
    <3> QED BY <2>1, <3>1, <3>2
  <2>3. doomed' \in [Tasks -> SUBSET D]
    <3>1. doomed \in [Tasks -> SUBSET D] /\ {n} \in SUBSET D
      OBVIOUS
    <3> HIDE DEF D
    <3> QED BY <2>1, <3>1
  <2> QED BY <1>10, <2>1, <2>2, <2>3 DEF PruneFile
<1>11. ASSUME NEW n \in Endpoints \X Time, PruneFails(t, n)
       PROVE  TypeOK'
  BY <1>11, FinishType DEF PruneFails, Raise, Ending, Release
<1>12. CASE DiskError(t)
  BY <1>12, FinishType DEF DiskError, Raise, Ending, Release
<1>13. ASSUME NEW n \in Endpoints \X Time, Unlink(t, n)
       PROVE  TypeOK'
  <2>1. snaps' \in [Endpoints -> [Time -> File]]
    BY <1>13, FileTypes, SnapshotTypes DEF Unlink
  <2> QED BY <1>13, <2>1 DEF Unlink, Step
<1> QED
  BY <1>1, <1>2, <1>3, <1>4, <1>5, <1>6, <1>7, <1>8, <1>9, <1>10, <1>11, <1>12, <1>13
  DEF Storing

LEMMA ReturningType ==
    ASSUME TypeOK, NEW t \in Tasks, Returning(t)
    PROVE  TypeOK'
<1> USE ConstantsAssumption DEF TypeOK, env, disk, locals, Control
<1>1. CASE Serve(t)
  BY <1>1, FinishType DEF Serve, Ending, Release
<1>2. CASE ProjectionFails(t)
  BY <1>2, FinishType DEF ProjectionFails, Raise, Ending, Release
<1> QED BY <1>1, <1>2 DEF Returning

LEMMA CallerType ==
    ASSUME TypeOK, NEW t \in Tasks,
           Cancel(t) \/ \E e \in Endpoints : Call(t, e)
    PROVE  TypeOK'
<1> USE ConstantsAssumption DEF TypeOK, env, disk, locals, Control
<1>1. CASE Cancel(t)
  BY <1>1, FinishType DEF Cancel, Raise, Ending
<1>2. ASSUME NEW e \in Endpoints, Call(t, e)
      PROVE  TypeOK'
  <2>1. NoResult \in [kind : Ending, body : Version \cup {NoPayload}]
    BY DEF NoResult, Ending
  <2>2. loop' \in [Procs -> Tasks \cup {NoTask}]
    BY <1>2 DEF Call, Acquire
  <2>3. pc' \in [Tasks -> Control]
    <3>1. pc' = [pc EXCEPT ![t] = "read"] \/ pc' = [pc EXCEPT ![t] = "sent"]
      BY <1>2 DEF Call
    <3> QED BY <3>1
  <2>4. tries' \in [Tasks -> 0..Attempts]
    <3>1. tries' = tries \/ tries' = [tries EXCEPT ![t] = 1]
      BY <1>2 DEF Call
    <3>2. 1 \in 0..Attempts
      OBVIOUS
    <3> QED BY <3>1, <3>2
  <2> QED BY <1>2, <2>1, <2>2, <2>3, <2>4 DEF Call
<1> QED BY <1>1, <1>2

LEMMA EnvironmentType ==
    ASSUME TypeOK, Environment
    PROVE  TypeOK'
<1> USE ConstantsAssumption DEF TypeOK, env, disk, locals
<1>1. CASE Tick
  BY <1>1 DEF Tick, Time
<1>2. ASSUME NEW e \in Endpoints, Publish(e)
      PROVE  TypeOK'
  BY <1>2 DEF Publish, Version
<1>3. ASSUME NEW e \in Endpoints, Tamper(e)
      PROVE  TypeOK'
  <2>1. latest' \in [Endpoints -> File]
    <3>1. CASE latest' = [latest EXCEPT ![e].body = Truncated]
      BY <3>1, FileTypes
    <3>2. CASE latest' = [latest EXCEPT ![e] = NoFile]
      BY <3>2, FileTypes
    <3> QED BY <3>1, <3>2, <1>3 DEF Tamper
  <2> QED BY <1>3, <2>1 DEF Tamper
<1>4. ASSUME NEW p \in Procs, Crash(p)
      PROVE  TypeOK'
  BY <1>4 DEF Crash, Forget, Control, Ending, NoPayload, Time
<1> QED BY <1>1, <1>2, <1>3, <1>4 DEF Environment

-----------------------------------------------------------------------------
(* What every step leaves alone.                                            *)

\* The ways a call ends, with the disk as it was.
Ends(t) ==
    /\ UNCHANGED <<env, disk>>
    /\ \/ pc[t] = "project" /\ Finish(t, "served", payload[t])
       \/ \E kind \in Ending \ {"served", "none", "crashed"} : Raise(t, kind)

TaskStep(t) == Progress(t) \/ Cancel(t) \/ \E e \in Endpoints : Call(t, e)

\* The other tasks' coroutines: `fd` apart, a step of t is not seen by them.
OthersKeep(t) ==
    \A u \in Tasks \ {t} :
        /\ pc'[u] = pc[u] /\ ep'[u] = ep[u] /\ payload'[u] = payload[u]
        /\ names'[u] = names[u] /\ doomed'[u] = doomed[u] /\ clock'[u] = clock[u]
        /\ res'[u] = res[u]

LEMMA EndsKeepOthers ==
    ASSUME TypeOK, NEW t \in Tasks, Ends(t)
    PROVE  OthersKeep(t) /\ fd' = [fd EXCEPT ![t] = "gone"] /\ ep' = ep
  BY DEF TypeOK, Ends, Raise, Finish, Forget, OthersKeep

LEMMA TaskKeepsOthers ==
    ASSUME TypeOK, NEW t \in Tasks, TaskStep(t)
    PROVE  OthersKeep(t)
<1> USE DEF TypeOK, OthersKeep, env, disk, locals, Step, Holding
<1>1. ASSUME Suspended(t)
      PROVE  OthersKeep(t)
  BY <1>1 DEF Suspended, Answer, Retry, GiveUp, Surface, Resume, Raise, Finish, Forget
<1>2. ASSUME Reading(t)
      PROVE  OthersKeep(t)
  BY <1>2 DEF Reading, ReadCacheHit, ReadCacheCorrupt, FallbackLatest, FallbackMiss,
              ListSnapshots, ReadSnapshot, SkipSnapshot, SnapshotCrashesWalk,
              Unavailable, Raise, Finish, Forget
<1>3. ASSUME Storing(t)
      PROVE  OthersKeep(t)
  <2>1. CASE OpenTmp(t) \/ WriteTmp(t) \/ Replace(t) \/ OpenSnapshot(t)
    BY <2>1 DEF OpenTmp, WriteTmp, Replace, OpenSnapshot
  <2>2. CASE WriteSnapshot(t)
    BY <2>2 DEF WriteSnapshot
  <2>3. CASE PruneStart(t) \/ PruneNext(t)
    BY <2>3 DEF PruneStart, PruneNext
  <2>4. CASE \E e \in Endpoints : PruneDir(t, e)
    BY <2>4 DEF PruneDir
  <2>7. ASSUME NEW n \in Endpoints \X Time, Unlink(t, n)
        PROVE  OthersKeep(t)
    BY <2>7 DEF Unlink
  <2>6. ASSUME NEW n \in Endpoints \X Time, PruneFile(t, n)
        PROVE  OthersKeep(t)
    BY <2>6 DEF PruneFile
  <2>5. CASE ReplaceFails(t) \/ DiskError(t) \/ \E n \in Endpoints \X Time : PruneFails(t, n)
    BY <2>5 DEF ReplaceFails, DiskError, PruneFails, Raise, Finish, Forget
  <2> QED BY <1>3, <2>1, <2>2, <2>3, <2>4, <2>5, <2>6, <2>7 DEF Storing
<1>4. ASSUME Returning(t)
      PROVE  OthersKeep(t)
  BY <1>4 DEF Returning, Serve, ProjectionFails, Raise, Finish, Forget
<1>5. ASSUME Cancel(t)
      PROVE  OthersKeep(t)
  BY <1>5 DEF Cancel, Raise, Finish, Forget
<1>6. ASSUME NEW e \in Endpoints, Call(t, e)
      PROVE  OthersKeep(t)
  BY <1>6 DEF Call
<1> QED BY <1>1, <1>2, <1>3, <1>4, <1>5, <1>6 DEF TaskStep, Progress

\* The steps that end a call, collected.
LEMMA EndingSteps ==
    ASSUME NEW t \in Tasks,
           \/ Surface(t) \/ Cancel(t) \/ Unavailable(t) \/ ReplaceFails(t)
           \/ DiskError(t) \/ Serve(t) \/ ProjectionFails(t)
           \/ \E n \in Endpoints \X Time : SnapshotCrashesWalk(t, n) \/ PruneFails(t, n)
    PROVE  Ends(t)
  BY DEF Ends, Ending, Surface, Cancel, Unavailable, ReplaceFails, DiskError, Serve,
         ProjectionFails, SnapshotCrashesWalk, PruneFails

-----------------------------------------------------------------------------
(* Provenance.                                                              *)

LEMMA ProvenanceInit == Init => Provenance
<1> SUFFICES ASSUME Init PROVE Provenance
  OBVIOUS
<1> USE DEF Init, NoFile, NoResult, NoPayload, Absent
<1>1. HasPayload
  BY DEF HasPayload, Storer
<1>2. HeldIsPublished
  BY DEF HeldIsPublished
<1>3. StoredIsPublished
  BY DEF StoredIsPublished
<1>4. AnsweredIsPublished
  BY DEF AnsweredIsPublished
<1>5. WalksOwn /\ Dooms
  BY DEF WalksOwn, Dooms
<1> QED BY <1>1, <1>2, <1>3, <1>4, <1>5 DEF Provenance

LEMMA EndsProvenance ==
    ASSUME TypeOK, Provenance, NEW t \in Tasks, Ends(t)
    PROVE  Provenance'
<1>1. OthersKeep(t) /\ ep' = ep /\ UNCHANGED <<env, disk>>
  BY EndsKeepOthers DEF Ends
<1>2. /\ pc'[t] = "idle" /\ payload'[t] = NoPayload /\ doomed'[t] = {}
      /\ \/ res'[t].body = NoPayload /\ res'[t].kind # "served"
         \/ res'[t].body = payload[t] /\ pc[t] = "project"
  BY DEF TypeOK, Ends, Raise, Finish, Forget
<1> USE <1>1, <1>2 DEF Provenance, TypeOK, OthersKeep, env, disk
<1>3. HasPayload'
  BY DEF HasPayload, Storer
<1>4. HeldIsPublished'
  BY ConstantsAssumption DEF HeldIsPublished, NoPayload, Version
<1>5. StoredIsPublished'
  BY DEF StoredIsPublished
<1>6. AnsweredIsPublished'
  <2>1. ASSUME NEW u \in Tasks \ {t}
        PROVE  /\ res'[u].body <= ver'[ep'[u]]
               /\ res'[u].kind = "served" => res'[u].body # NoPayload
    BY DEF AnsweredIsPublished
  <2>2. ver[ep[t]] \in Version /\ NoPayload <= ver[ep[t]]
    BY ConstantsAssumption DEF Version, NoPayload
  <2>3. pc[t] = "project" => payload[t] # NoPayload /\ payload[t] <= ver[ep[t]]
    BY ConstantsAssumption DEF HasPayload, HeldIsPublished, Storer, Version, NoPayload
  <2> QED BY <2>1, <2>2, <2>3 DEF AnsweredIsPublished
<1>7. WalksOwn' /\ Dooms'
  BY DEF WalksOwn, Dooms
<1> QED BY <1>3, <1>4, <1>5, <1>6, <1>7

LEMMA SuspendedProvenance ==
    ASSUME TypeOK, Provenance, NEW t \in Tasks, Suspended(t)
    PROVE  Provenance'
<1> USE DEF TypeOK, OthersKeep, Provenance, HasPayload, HeldIsPublished, StoredIsPublished,
            AnsweredIsPublished, WalksOwn, Dooms, Storer, env, disk, locals
<1>0. OthersKeep(t)
  BY TaskKeepsOthers DEF TaskStep, Progress
<1>1. ASSUME NEW o \in Outcomes, Answer(t, o)
      PROVE  Provenance'
  <2>1. CASE o = "ok"
    <3>1. ver[ep[t]] \in Version /\ payload' = [payload EXCEPT ![t] = ver[ep[t]]]
      BY <1>1, <2>1 DEF Answer, Holding
    <3> QED BY <1>0, <1>1, <3>1, ConstantsAssumption DEF Answer, Version
  <2>2. CASE o # "ok"
    <3>1. o \notin Storer \cup {"idle", "walk"}
      BY <2>2, ConstantsAssumption
    <3> QED BY <1>0, <1>1, <2>2, <3>1 DEF Answer
  <2> QED BY <2>1, <2>2
<1>2. CASE Retry(t)
  BY <1>0, <1>2 DEF Retry
<1>3. CASE GiveUp(t)
  BY <1>0, <1>3 DEF GiveUp
<1>4. CASE Surface(t)
  BY <1>4, EndingSteps, EndsProvenance
<1>5. CASE Resume(t)
  BY <1>0, <1>5 DEF Resume
<1> QED BY <1>1, <1>2, <1>3, <1>4, <1>5 DEF Suspended

LEMMA ReadingProvenance ==
    ASSUME TypeOK, Provenance, NEW t \in Tasks, Reading(t)
    PROVE  Provenance'
<1> USE DEF TypeOK, OthersKeep, Provenance, HasPayload, HeldIsPublished, StoredIsPublished,
            AnsweredIsPublished, WalksOwn, Dooms, Storer, env, disk, locals
<1>0. OthersKeep(t)
  BY TaskKeepsOthers DEF TaskStep, Progress
<1>1. CASE ReadCacheHit(t) \/ FallbackLatest(t)
  <2>1. latest[ep[t]].body \in Version /\ payload' = [payload EXCEPT ![t] = latest[ep[t]].body]
    BY <1>1, UsableIsVersion, FileTypes DEF ReadCacheHit, FallbackLatest, Holding
  <2>2. CASE ReadCacheHit(t)
    BY <1>0, <2>1, <2>2 DEF ReadCacheHit, Step
  <2>3. CASE FallbackLatest(t)
    BY <1>0, <2>1, <2>3 DEF FallbackLatest, Step
  <2> QED BY <1>1, <2>2, <2>3
<1>2. CASE ReadCacheCorrupt(t)
  BY <1>0, <1>2 DEF ReadCacheCorrupt, Step
<1>8. CASE FallbackMiss(t)
  BY <1>0, <1>8 DEF FallbackMiss, Step
<1>3. CASE ListSnapshots(t)
  BY <1>0, <1>3 DEF ListSnapshots, Step, Listing
<1>4. CASE Unavailable(t)
  BY <1>4, EndingSteps, EndsProvenance
<1>5. ASSUME NEW n \in Endpoints \X Time, ReadSnapshot(t, n)
      PROVE  Provenance'
  <2>1. n[1] = ep[t] /\ n[2] \in Time
    BY <1>5 DEF ReadSnapshot, Newest, Step
  <2>2. Content(n) \in Version /\ Content(n) <= ver[ep[t]]
    BY <2>1, <1>5, UsableIsVersion, FileTypes DEF ReadSnapshot, Content
  <2> QED BY <1>0, <1>5, <2>2 DEF ReadSnapshot, Step, Holding
<1>6. ASSUME NEW n \in Endpoints \X Time, SkipSnapshot(t, n)
      PROVE  Provenance'
  BY <1>0, <1>6 DEF SkipSnapshot, Step
<1>7. ASSUME NEW n \in Endpoints \X Time, SnapshotCrashesWalk(t, n)
      PROVE  Provenance'
  BY <1>7, EndingSteps, EndsProvenance
<1> QED BY <1>1, <1>2, <1>3, <1>4, <1>5, <1>6, <1>7, <1>8 DEF Reading

\* Writing a published list over a published file leaves a published file.
LEMMA OverlayIsPublished ==
    ASSUME NEW b \in Body, NEW v \in Version, NEW x \in Nat, b <= x, v <= x
    PROVE  \A c \in Overlay(b, v) : c <= x
  BY DEF Overlay, Garbled

\* The look at a file's age only dooms what it looked at.
LEMMA LookProvenance ==
    ASSUME TypeOK, Provenance, NEW t \in Tasks, NEW n \in Endpoints \X Time, PruneFile(t, n)
    PROVE  Provenance'
<1>1. OthersKeep(t)
  BY TaskKeepsOthers DEF TaskStep, Progress, Storing
<1>2. /\ ver' = ver /\ latest' = latest /\ tmp' = tmp /\ snaps' = snaps
      /\ ep' = ep /\ payload' = payload /\ res' = res
      /\ n \in names[t] /\ pc[t] = "prune_file"
  BY DEF PruneFile, Step, env, disk
<1>3. \/ pc'[t] = "prune_file" /\ doomed'[t] = doomed[t]
      \/ pc'[t] = "prune_unlink" /\ doomed'[t] = {n} /\ names'[t] = names[t]
  BY DEF PruneFile, Step, TypeOK
<1>4. HasPayload'
  <2>1. \A u \in Tasks \ {t} : pc'[u] = pc[u]  BY <1>1 DEF OthersKeep
  <2>2. payload[t] \in Version  BY <1>2 DEF Provenance, HasPayload, Storer
  <2> QED BY <1>2, <1>3, <2>1, <2>2 DEF Provenance, HasPayload
<1>5. HeldIsPublished' /\ StoredIsPublished' /\ AnsweredIsPublished'
  BY <1>2 DEF Provenance, HeldIsPublished, StoredIsPublished, AnsweredIsPublished
<1>6. WalksOwn'
  BY <1>1, <1>2, <1>3 DEF Provenance, WalksOwn, OthersKeep
<1>7. Dooms'
  <2>1. doomed'[t] \subseteq names'[t] /\ (pc'[t] # "prune_unlink" => doomed'[t] = {})
    BY <1>2, <1>3 DEF Provenance, Dooms
  <2>2. \A u \in Tasks \ {t} :
           doomed'[u] \subseteq names'[u] /\ (pc'[u] # "prune_unlink" => doomed'[u] = {})
    BY <1>1 DEF Provenance, Dooms, OthersKeep
  <2> QED BY <2>1, <2>2 DEF Dooms
<1> QED BY <1>4, <1>5, <1>6, <1>7 DEF Provenance

LEMMA StoringProvenance ==
    ASSUME TypeOK, Provenance, NEW t \in Tasks, Storing(t)
    PROVE  Provenance'
<1> USE DEF TypeOK, OthersKeep, Provenance, HasPayload, HeldIsPublished, StoredIsPublished,
            AnsweredIsPublished, WalksOwn, Dooms, Storer, env, disk, locals
<1>0. OthersKeep(t) /\ \A e \in Endpoints : ver[e] \in Nat /\ ver[e] > 0
  BY TaskKeepsOthers, ConstantsAssumption DEF TaskStep, Progress, Version
<1>1. CASE OpenTmp(t)
  BY <1>0, <1>1 DEF OpenTmp, Step, Truncated
<1>2. CASE WriteTmp(t)
  <2>1. payload[t] \in Version /\ payload[t] <= ver[ep[t]] /\ ep[t] \in Endpoints
    BY <1>2 DEF WriteTmp, Step
  <2>2. /\ \A b \in Overlay(tmp[ep[t]].body, payload[t]) : b <= ver[ep[t]]
        /\ \A b \in Overlay(latest[ep[t]].body, payload[t]) : b <= ver[ep[t]]
    BY <1>0, <2>1, OverlayIsPublished, FileTypes
  <2>3. \A e \in Endpoints : latest'[e].body <= ver[e] /\ tmp'[e].body <= ver[e]
    <3>1. CASE fd[t] = "tmp"
      <4> PICK b \in Overlay(tmp[ep[t]].body, payload[t]) :
               tmp' = [tmp EXCEPT ![ep[t]] = [body |-> b, mtime |-> now]]
        BY <1>2, <3>1 DEF WriteTmp
      <4> QED BY <1>2, <2>2, <3>1 DEF WriteTmp
    <3>2. CASE fd[t] = "latest"
      <4> PICK b \in Overlay(latest[ep[t]].body, payload[t]) :
               latest' = [latest EXCEPT ![ep[t]] = [body |-> b, mtime |-> now]]
        BY <1>2, <3>2 DEF WriteTmp
      <4> QED BY <1>2, <2>2, <3>2 DEF WriteTmp
    <3>3. CASE fd[t] = "gone"
      BY <1>2, <3>3 DEF WriteTmp
    <3> QED BY <3>1, <3>2, <3>3
  <2> QED BY <1>0, <1>2, <2>3 DEF WriteTmp, Step
<1>3. CASE Replace(t)
  <2>1. \A e \in Endpoints : latest'[e].body <= ver[e] /\ tmp'[e].body <= ver[e]
    BY <1>0, <1>3 DEF Replace, NoFile, Absent
  <2> QED BY <1>0, <1>3, <2>1 DEF Replace, Step
<1>4. CASE OpenSnapshot(t)
  <2>1. \A e \in Endpoints, s \in Time : snaps'[e][s].body <= ver[e]
    BY <1>0, <1>4 DEF OpenSnapshot, Truncated
  <2> QED BY <1>0, <1>4, <2>1 DEF OpenSnapshot, Step
<1>5. CASE WriteSnapshot(t)
  <2>1. payload[t] \in Version /\ payload[t] <= ver[ep[t]] /\ ep[t] \in Endpoints
    BY <1>5 DEF WriteSnapshot, Step
  <2>2. \A b \in Overlay(snaps[ep[t]][clock[t]].body, payload[t]) : b <= ver[ep[t]]
    BY <1>0, <2>1, OverlayIsPublished, SnapshotTypes, FileTypes
  <2>3. \A e \in Endpoints, s \in Time : snaps'[e][s].body <= ver[e]
    <3>1. CASE UNCHANGED snaps
      BY <3>1
    <3>2. ASSUME NEW b \in Overlay(snaps[ep[t]][clock[t]].body, payload[t]),
                 snaps' = [snaps EXCEPT ![ep[t]][clock[t]] = [body |-> b, mtime |-> now]]
          PROVE  \A e \in Endpoints, s \in Time : snaps'[e][s].body <= ver[e]
      BY <2>2, <3>2
    <3> QED BY <1>5, <3>1, <3>2 DEF WriteSnapshot
  <2> QED BY <1>0, <1>5, <2>3 DEF WriteSnapshot, Step
<1>6. CASE PruneStart(t)
  BY <1>0, <1>6 DEF PruneStart, Step
<1>7. CASE PruneNext(t)
  BY <1>0, <1>7 DEF PruneNext, Step
<1>8. ASSUME NEW e \in Endpoints, PruneDir(t, e)
      PROVE  Provenance'
  BY <1>0, <1>8 DEF PruneDir, Step
<1>9. ASSUME NEW n \in Endpoints \X Time, PruneFile(t, n)
      PROVE  Provenance'
  BY <1>9, LookProvenance
<1>10. CASE ReplaceFails(t) \/ DiskError(t) \/ \E n \in Endpoints \X Time : PruneFails(t, n)
  BY <1>10, EndingSteps, EndsProvenance
<1>11. ASSUME NEW n \in Endpoints \X Time, Unlink(t, n)
       PROVE  Provenance'
  <2>1. \A e \in Endpoints, s \in Time : snaps'[e][s].body <= ver[e]
    BY <1>0, <1>11 DEF Unlink, NoFile, Absent
  <2> QED BY <1>0, <1>11, <2>1 DEF Unlink, Step
<1> QED BY <1>1, <1>2, <1>3, <1>4, <1>5, <1>6, <1>7, <1>8, <1>9, <1>10, <1>11 DEF Storing

LEMMA CallProvenance ==
    ASSUME TypeOK, Provenance, NEW t \in Tasks, NEW e \in Endpoints, Call(t, e)
    PROVE  Provenance'
<1> USE DEF TypeOK, OthersKeep, Provenance, env, disk, Call
<1>1. OthersKeep(t) /\ \A f \in Endpoints : ver[f] \in Nat
  BY TaskKeepsOthers, ConstantsAssumption DEF TaskStep, Version
<1>2. /\ pc'[t] \in {"read", "sent"} /\ payload'[t] = NoPayload /\ res'[t] = NoResult
      /\ doomed'[t] = {}
  BY DEF HasPayload, Dooms
<1>3. HasPayload'
  BY <1>1, <1>2 DEF HasPayload, Storer
<1>4. HeldIsPublished'
  BY <1>1, <1>2 DEF HeldIsPublished, NoPayload
<1>5. StoredIsPublished'
  BY DEF StoredIsPublished
<1>6. AnsweredIsPublished'
  BY <1>1, <1>2 DEF AnsweredIsPublished, NoPayload, NoResult
<1>7. WalksOwn' /\ Dooms'
  BY <1>1, <1>2 DEF WalksOwn, Dooms
<1> QED BY <1>3, <1>4, <1>5, <1>6, <1>7

LEMMA EnvironmentProvenance ==
    ASSUME TypeOK, Provenance, Environment
    PROVE  Provenance'
<1> USE DEF TypeOK, Provenance, HasPayload, HeldIsPublished, StoredIsPublished,
            AnsweredIsPublished, WalksOwn, Dooms, Storer, env, disk, locals
<1>0. \A e \in Endpoints : ver[e] \in Nat /\ ver[e] > 0
  BY ConstantsAssumption DEF Version
<1>1. CASE Tick
  BY <1>1 DEF Tick
<1>2. ASSUME NEW e \in Endpoints, Publish(e)
      PROVE  Provenance'
  <2>1. \A f \in Endpoints : ver'[f] \in Nat /\ ver'[f] >= ver[f]
    BY <1>0, <1>2 DEF Publish
  <2>2. \A t \in Tasks : payload[t] \in Int /\ res[t].body \in Int
    BY ConstantsAssumption DEF Version, NoPayload
  <2>3. \A f \in Endpoints : /\ latest[f].body \in Int /\ tmp[f].body \in Int
                             /\ \A s \in Time : snaps[f][s].body \in Int
    BY FileTypes, ConstantsAssumption DEF Body, Version, Absent, Truncated, Garbled
  <2> QED BY <1>0, <1>2, <2>1, <2>2, <2>3 DEF Publish
<1>3. ASSUME NEW e \in Endpoints, Tamper(e)
      PROVE  Provenance'
  <2>1. \A f \in Endpoints : latest'[f].body <= ver[f]
    <3>1. latest'[e].body \in {Absent, Truncated} /\ \A f \in Endpoints \ {e} : latest'[f] = latest[f]
      BY <1>3, FileTypes DEF Tamper, NoFile, File
    <3>2. \A f \in Endpoints : latest[f].body <= ver[f]
      OBVIOUS
    <3>3. 0 <= ver[e] /\ -1 <= ver[e]
      BY <1>0
    <3> QED BY <3>1, <3>2, <3>3 DEF Absent, Truncated
  <2> QED BY <1>3, <2>1 DEF Tamper
<1>4. ASSUME NEW p \in Procs, Crash(p)
      PROVE  Provenance'
  BY <1>0, <1>4 DEF Crash, Forget, NoPayload
<1> QED BY <1>1, <1>2, <1>3, <1>4 DEF Environment

LEMMA TypeStep ==
    ASSUME TypeOK, Provenance, [Next]_vars
    PROVE  TypeOK' /\ Provenance'
<1>1. CASE UNCHANGED vars
  BY <1>1 DEF vars, env, disk, locals, TypeOK, Provenance, HasPayload, HeldIsPublished,
              StoredIsPublished, AnsweredIsPublished, WalksOwn, Dooms
<1>2. ASSUME NEW t \in Tasks, TaskStep(t)
      PROVE  TypeOK' /\ Provenance'
  <2>1. TypeOK'
    BY <1>2, SuspendedType, ReadingType, StoringType, ReturningType, CallerType
    DEF TaskStep, Progress
  <2>2. Provenance'
    BY <1>2, SuspendedProvenance, ReadingProvenance, StoringProvenance, CallProvenance,
       EndingSteps, EndsProvenance
    DEF TaskStep, Progress, Returning
  <2> QED BY <2>1, <2>2
<1>3. CASE Environment
  BY <1>3, EnvironmentType, EnvironmentProvenance
<1> QED BY <1>1, <1>2, <1>3 DEF Next, TaskStep

LEMMA TypeInit == Init => TypeOK
<1> SUFFICES ASSUME Init PROVE TypeOK
  OBVIOUS
<1> QED BY ConstantsAssumption, FileTypes
        DEF Init, TypeOK, Time, Version, Control, NoResult, Ending, NoPayload

LEMMA TypeAndProvenance == Spec => [](TypeOK /\ Provenance)
<1>1. Init => TypeOK /\ Provenance
  BY TypeInit, ProvenanceInit
<1>2. TypeOK /\ Provenance /\ [Next]_vars => (TypeOK /\ Provenance)'
  BY TypeStep
<1> QED BY <1>1, <1>2, PTL DEF Spec

\* Every variable keeps to its type, for any number of processes and tasks.
THEOREM TypeCorrect == Spec => []TypeOK
  BY TypeAndProvenance, PTL

\* No caller is ever handed anything but a list upstream has published, even
\* while several processes write, overlay, rename and prune the same files.
THEOREM OnlyPublishedIsServed == Spec => []ServedIsPublished
<1>1. TypeOK /\ Provenance => ServedIsPublished
  BY ConstantsAssumption
  DEF ServedIsPublished, TypeOK, Provenance, AnsweredIsPublished, Version, NoPayload
<1> QED BY <1>1, TypeAndProvenance, PTL

-----------------------------------------------------------------------------
(* One process.                                                             *)

\* While t runs, or the loop is idle, no other task is between two awaits.
LEMMA Alone ==
    ASSUME TypeOK, LoneProcess, SingleProcess, NEW t \in Tasks,
           Running(t) \/ Free(ProcOf[t])
    PROVE  \A u \in Tasks \ {t} : pc[u] \notin Sync
  BY ConstantsAssumption
  DEF TypeOK, LoneProcess, LoneTask, LoopHeld, SingleProcess, Running, Free

\* So a step of t has to look after t and the disk only.
LEMMA LoneStep ==
    ASSUME TypeOK, LoneProcess, SingleProcess, NEW t \in Tasks, TaskStep(t),
           Running(t) \/ Free(ProcOf[t]), LoneTask(t)',
           LatestIsWhole', NoGarbledSnapshot', EmptyMeansNew', NoSpuriousFailure'
    PROVE  LoneProcess'
<1>1. \A u \in Tasks \ {t} : pc'[u] \notin Sync
  BY Alone, TaskKeepsOthers DEF OthersKeep
<1>2. ASSUME NEW u \in Tasks \ {t}
      PROVE  LoneTask(u)'
  BY <1>1 DEF LoneTask, LoopHeld, OwnsTmp, OwnsSnapshot, SeesFiles, HeldIsStored,
         FallsBackWhenEmpty, Stored, Sync, Control
<1> QED BY <1>2 DEF LoneProcess

\* A step that leaves the files alone keeps them sound.
LEMMA DiskKept ==
    ASSUME LoneProcess, NEW t \in Tasks, TypeOK, OthersKeep(t),
           UNCHANGED <<disk, tampered, served>>,
           res'[t].kind \notin {"enoent", "zlib_error"}
    PROVE  LatestIsWhole' /\ NoGarbledSnapshot' /\ EmptyMeansNew' /\ NoSpuriousFailure'
  BY DEF LoneProcess, disk, LatestIsWhole, NoGarbledSnapshot, EmptyMeansNew,
         NoSpuriousFailure, OthersKeep

\* The races that lose an answer need a second process.
LEMMA NoRace ==
    ASSUME TypeOK, Provenance, LoneProcess, NEW t \in Tasks
    PROVE  /\ ~ReplaceFails(t)
           /\ \A n \in Endpoints \X Time : ~PruneFails(t, n) /\ ~SnapshotCrashesWalk(t, n)
<1>1. ~ReplaceFails(t)
  BY ConstantsAssumption
  DEF ReplaceFails, LoneProcess, LoneTask, OwnsTmp, Provenance, HasPayload, Storer,
      Version, Absent
<1>2. ASSUME NEW n \in Endpoints \X Time
      PROVE  ~PruneFails(t, n) /\ ~SnapshotCrashesWalk(t, n)
  BY DEF PruneFails, SnapshotCrashesWalk, LoneProcess, LoneTask, SeesFiles,
         NoGarbledSnapshot, Content
<1> QED BY <1>1, <1>2

\* Whatever ends a call leaves the disk as it was, and an answer given is in
\* latest.json.
LEMMA EndsLone ==
    ASSUME TypeOK, Provenance, LoneProcess, SingleProcess, NEW t \in Tasks,
           TaskStep(t), Ends(t), Running(t) \/ Free(ProcOf[t]),
           res'[t].kind \notin {"enoent", "zlib_error"}
    PROVE  LoneProcess'
<1>1. pc'[t] = "idle" /\ OthersKeep(t) /\ UNCHANGED <<env, disk>>
  BY EndsKeepOthers DEF Ends, Raise, Finish, TypeOK
<1>2. LoneTask(t)'
  BY <1>1 DEF LoneTask, LoopHeld, OwnsTmp, OwnsSnapshot, SeesFiles, HeldIsStored,
         FallsBackWhenEmpty, Stored, Sync, Control
<1>3. LatestIsWhole' /\ NoGarbledSnapshot'
  BY <1>1 DEF LoneProcess, LatestIsWhole, NoGarbledSnapshot, env, disk
<1>4. EmptyMeansNew'
  <2>1. ASSUME NEW e \in Endpoints, e \notin tampered, latest[e].body = Absent
        PROVE  served'[e] = served[e]
    <3>1. CASE \E kind \in Ending : Raise(t, kind)
      BY <3>1, ConstantsAssumption DEF Raise, Finish, NoPayload, Version, TypeOK
    <3>2. CASE pc[t] = "project" /\ Finish(t, "served", payload[t])
      <4>1. ep[t] # e
        BY <3>2, <2>1, ConstantsAssumption
        DEF LoneProcess, LoneTask, HeldIsStored, Stored, Provenance, HasPayload, Storer,
            Version, Absent
      <4> QED BY <3>2, <4>1 DEF Finish, TypeOK
    <3> QED BY <3>1, <3>2 DEF Ends
  <2> QED BY <1>1, <2>1 DEF EmptyMeansNew, LoneProcess, env, disk
<1>5. NoSpuriousFailure'
  BY <1>1 DEF NoSpuriousFailure, OthersKeep, LoneProcess
<1> QED BY <1>2, <1>3, <1>4, <1>5, LoneStep

LEMMA SuspendedLone ==
    ASSUME TypeOK, Provenance, LoneProcess, SingleProcess, NEW t \in Tasks, Suspended(t)
    PROVE  LoneProcess'
<1>0. OthersKeep(t) /\ TaskStep(t)
  BY TaskKeepsOthers DEF TaskStep, Progress
<1>1. ASSUME UNCHANGED <<env, disk, loop, fd, served, res>>, pc'[t] \notin Sync
      PROVE  LoneProcess'
  <2>1. LatestIsWhole' /\ NoGarbledSnapshot' /\ EmptyMeansNew' /\ NoSpuriousFailure'
    BY <1>0, <1>1, DiskKept DEF LoneProcess, NoSpuriousFailure, env
  <2>2. ASSUME NEW u \in Tasks \ {t}
        PROVE  LoneTask(u)'
    BY <1>0, <1>1 DEF LoneProcess, OthersKeep, env, disk, LoneTask, LoopHeld, OwnsTmp,
         OwnsSnapshot, SeesFiles, HeldIsStored, FallsBackWhenEmpty, Running, Content
  <2>3. LoneTask(t)'
    BY <1>1 DEF LoneTask, LoopHeld, OwnsTmp, OwnsSnapshot, SeesFiles, HeldIsStored,
         FallsBackWhenEmpty, Stored, Sync, Control
  <2> QED BY <2>1, <2>2, <2>3 DEF LoneProcess
<1>2. CASE (\E o \in Outcomes : Answer(t, o)) \/ Retry(t)
  BY <1>1, <1>2, ConstantsAssumption DEF Answer, Retry, TypeOK, locals, Sync
<1>3. CASE GiveUp(t) \/ Resume(t)
  <2>1. /\ Free(ProcOf[t]) /\ Running(t)' /\ UNCHANGED <<env, disk, served, res>>
        /\ pc'[t] \in {"fallback", "tmp_open"}
    BY <1>3, ConstantsAssumption DEF GiveUp, Resume, Acquire, Running, TypeOK
  <2>2. LoneTask(t)'
    BY <2>1 DEF LoneTask, LoopHeld, OwnsTmp, OwnsSnapshot, SeesFiles, HeldIsStored,
         FallsBackWhenEmpty, Stored
  <2> QED BY <1>0, <2>1, <2>2, LoneStep, DiskKept DEF LoneProcess, NoSpuriousFailure, env
<1>4. CASE Surface(t)
  <2>1. res'[t].kind \notin {"enoent", "zlib_error"}
    BY <1>4 DEF Surface, Raise, Finish, TypeOK
  <2> QED BY <1>0, <1>4, <2>1, EndingSteps, EndsLone DEF Surface
<1> QED BY <1>2, <1>3, <1>4 DEF Suspended

LEMMA CallLone ==
    ASSUME TypeOK, Provenance, LoneProcess, SingleProcess, NEW t \in Tasks,
           NEW e \in Endpoints, Call(t, e)
    PROVE  LoneProcess'
<1>0. OthersKeep(t) /\ TaskStep(t)
  BY TaskKeepsOthers DEF TaskStep
<1>1. UNCHANGED <<env, disk, served>> /\ res'[t] = NoResult /\ Free(ProcOf[t])
  BY DEF Call, TypeOK
<1>2. pc'[t] = "sent" \/ (pc'[t] = "read" /\ Running(t)')
  <2>1. pc' = [pc EXCEPT ![t] = "sent"] \/ (pc' = [pc EXCEPT ![t] = "read"] /\ Acquire(t))
    BY DEF Call
  <2>2. Acquire(t) => Running(t)'
    BY ConstantsAssumption DEF Acquire, Running, TypeOK
  <2>3. pc \in [Tasks -> Control]
    BY DEF TypeOK
  <2> QED BY <2>1, <2>2, <2>3
<1>3. LoneTask(t)'
  BY <1>1, <1>2 DEF LoneTask, LoopHeld, OwnsTmp, OwnsSnapshot, SeesFiles, HeldIsStored,
         FallsBackWhenEmpty, Stored, Sync, Control
<1> QED BY <1>0, <1>1, <1>3, LoneStep, DiskKept DEF NoResult, env

LEMMA ReadingLone ==
    ASSUME TypeOK, Provenance, LoneProcess, SingleProcess, NEW t \in Tasks, Reading(t)
    PROVE  LoneProcess'
<1>0. OthersKeep(t) /\ TaskStep(t) /\ LoneTask(t)
  BY TaskKeepsOthers DEF TaskStep, Progress, LoneProcess
<1> DEFINE Quiet == UNCHANGED <<env, disk, served, res>> /\ Running(t) /\ ep' = ep
<1>1. ASSUME Quiet, LoneTask(t)'
      PROVE  LoneProcess'
  BY <1>0, <1>1, LoneStep, DiskKept DEF LoneProcess, NoSpuriousFailure, env
<1>2. CASE ReadCacheHit(t) \/ FallbackLatest(t)
  <2>1. Quiet /\ loop' = loop /\ pc'[t] = "project" /\ payload'[t] = latest[ep[t]].body
    BY <1>2 DEF ReadCacheHit, FallbackLatest, Step, Holding, TypeOK
  <2>2. LoneTask(t)'
    BY <2>1 DEF LoneTask, LoopHeld, Running, OwnsTmp, OwnsSnapshot, SeesFiles, HeldIsStored,
         FallsBackWhenEmpty, env, disk
  <2> QED BY <1>1, <2>1, <2>2
<1>3. CASE ReadCacheCorrupt(t)
  <2>1. Quiet /\ pc'[t] = "sent"
    BY <1>3 DEF ReadCacheCorrupt, Step, TypeOK
  <2>2. LoneTask(t)'
    BY <2>1 DEF LoneTask, LoopHeld, OwnsTmp, OwnsSnapshot, SeesFiles, HeldIsStored,
         FallsBackWhenEmpty, Stored, Sync, Control
  <2> QED BY <1>1, <2>1, <2>2
<1>4. CASE FallbackMiss(t)
  <2>1. Quiet /\ loop' = loop /\ pc'[t] = "list" /\ ~Usable(latest[ep[t]].body)
    BY <1>4 DEF FallbackMiss, Step, TypeOK, locals
  <2>2. ep[t] \notin tampered => latest[ep[t]].body = Absent
    BY <2>1 DEF LoneProcess, LatestIsWhole, TypeOK
  <2>3. LoneTask(t)'
    BY <2>1, <2>2 DEF LoneTask, LoopHeld, Running, OwnsTmp, OwnsSnapshot, SeesFiles,
         HeldIsStored, FallsBackWhenEmpty, Stored, env, disk
  <2> QED BY <1>1, <2>1, <2>3
<1>5. CASE ListSnapshots(t) \/ \E n \in Endpoints \X Time : SkipSnapshot(t, n)
  <2>1. Quiet /\ loop' = loop /\ pc'[t] = "walk" /\ pc[t] \in {"list", "walk"}
    BY <1>5 DEF ListSnapshots, SkipSnapshot, Step, TypeOK
  <2>2. LoneTask(t)'
    BY <1>0, <2>1 DEF LoneTask, LoopHeld, Running, OwnsTmp, OwnsSnapshot, SeesFiles,
         HeldIsStored, FallsBackWhenEmpty, Stored, env, disk
  <2> QED BY <1>1, <2>1, <2>2
<1>6. ASSUME NEW n \in Endpoints \X Time, ReadSnapshot(t, n)
      PROVE  LoneProcess'
  <2>1. Quiet /\ loop' = loop /\ pc'[t] = "project" /\ pc[t] = "walk" /\ n[1] = ep[t]
        /\ n[2] \in Time /\ Usable(Content(n))
    BY <1>6 DEF ReadSnapshot, Step, Newest, TypeOK, Provenance, WalksOwn
  <2>2. ep[t] \in tampered
    BY <1>0, <2>1 DEF LoneTask, FallsBackWhenEmpty, LoneProcess, EmptyMeansNew, Content, TypeOK
  <2>3. LoneTask(t)'
    BY <2>1, <2>2 DEF LoneTask, LoopHeld, Running, OwnsTmp, OwnsSnapshot, SeesFiles,
         HeldIsStored, FallsBackWhenEmpty, Stored, env, disk
  <2> QED BY <1>1, <2>1, <2>3
<1>7. CASE Unavailable(t)
  <2>1. res'[t].kind \notin {"enoent", "zlib_error"}
    BY <1>7 DEF Unavailable, Raise, Finish, TypeOK
  <2> QED BY <1>0, <1>7, <2>1, EndingSteps, EndsLone DEF Unavailable
<1> QED BY <1>2, <1>3, <1>4, <1>5, <1>6, <1>7, NoRace DEF Reading

LEMMA StoringLone ==
    ASSUME TypeOK, Provenance, LoneProcess, SingleProcess, NEW t \in Tasks, Storing(t)
    PROVE  LoneProcess'
<1>0. /\ OthersKeep(t) /\ TaskStep(t) /\ LoneTask(t)
      /\ pc[t] \in Storer => payload[t] \in Version
  BY TaskKeepsOthers DEF TaskStep, Progress, LoneProcess, Provenance, HasPayload
<1> DEFINE Inside == UNCHANGED <<env, loop, ep, payload, served, res>> /\ Running(t)
<1>1. ASSUME Inside, LoneTask(t)', LatestIsWhole', NoGarbledSnapshot', EmptyMeansNew'
      PROVE  LoneProcess'
  BY <1>0, <1>1, LoneStep DEF LoneProcess, NoSpuriousFailure
<1> USE DEF LoneTask, LoopHeld, Running, OwnsTmp, OwnsSnapshot, SeesFiles, HeldIsStored,
            FallsBackWhenEmpty, Stored, env, disk
<1>2. CASE OpenTmp(t)
  <2>1. Inside /\ pc'[t] = "tmp_write" /\ UNCHANGED <<latest, snaps>>
        /\ fd'[t] = "tmp" /\ tmp'[ep[t]].body = Truncated
    BY <1>2 DEF OpenTmp, Step, TypeOK
  <2>2. LoneTask(t)'
    BY <1>0, <2>1
  <2>3. LatestIsWhole' /\ NoGarbledSnapshot' /\ EmptyMeansNew'
    BY <2>1 DEF LoneProcess, LatestIsWhole, NoGarbledSnapshot, EmptyMeansNew
  <2> QED BY <1>1, <2>1, <2>2, <2>3
<1>3. CASE WriteTmp(t)
  <2>1. Inside /\ pc'[t] = "replace" /\ UNCHANGED <<latest, snaps>>
        /\ tmp'[ep[t]].body = payload[t]
    BY <1>0, <1>3 DEF WriteTmp, Step, TypeOK, Overlay
  <2>2. LoneTask(t)'
    BY <1>0, <2>1
  <2>3. LatestIsWhole' /\ NoGarbledSnapshot' /\ EmptyMeansNew'
    BY <2>1 DEF LoneProcess, LatestIsWhole, NoGarbledSnapshot, EmptyMeansNew
  <2> QED BY <1>1, <2>1, <2>2, <2>3
<1>4. CASE Replace(t)
  <2>1. /\ Inside /\ pc'[t] = "snap_open" /\ UNCHANGED snaps
        /\ latest' = [latest EXCEPT ![ep[t]] = tmp[ep[t]]]
        /\ tmp[ep[t]].body = payload[t] /\ payload[t] \in Version
    BY <1>0, <1>4 DEF Replace, Step, TypeOK, Storer
  <2>2. LoneTask(t)'
    BY <1>0, <2>1 DEF TypeOK
  <2>3. Usable(payload[t]) /\ payload[t] # Absent
    BY <2>1, ConstantsAssumption DEF Usable, Version, Absent
  <2>4. LatestIsWhole' /\ NoGarbledSnapshot' /\ EmptyMeansNew'
    BY <2>1, <2>3 DEF LoneProcess, LatestIsWhole, NoGarbledSnapshot, EmptyMeansNew, TypeOK
  <2> QED BY <1>1, <2>1, <2>2, <2>4
<1>5. CASE OpenSnapshot(t)
  <2>1. /\ Inside /\ pc'[t] = "snap_write" /\ UNCHANGED <<latest, tmp>>
        /\ pc[t] = "snap_open" /\ clock'[t] = now
        /\ snaps' = [snaps EXCEPT ![ep[t]][now] = [body |-> Truncated, mtime |-> now]]
    BY <1>5 DEF OpenSnapshot, Step, TypeOK
  <2>2. snaps'[ep[t]][now].body = Truncated
    BY <2>1 DEF TypeOK
  <2>3. LoneTask(t)'
    BY <1>0, <2>1, <2>2
  <2>4. \A e \in Endpoints, s \in Time :
          snaps'[e][s] = snaps[e][s] \/ snaps'[e][s].body = Truncated
    BY <2>1 DEF TypeOK
  <2>5. LatestIsWhole' /\ NoGarbledSnapshot' /\ EmptyMeansNew'
    BY <2>1, <2>4 DEF LoneProcess, LatestIsWhole, NoGarbledSnapshot, EmptyMeansNew,
       Truncated, Garbled, Usable
  <2> QED BY <1>1, <2>1, <2>3, <2>5
<1>6. CASE WriteSnapshot(t)
  <2>1. /\ Inside /\ pc'[t] = "prune" /\ UNCHANGED <<latest, tmp>>
        /\ pc[t] = "snap_write" /\ payload[t] \in Version
    BY <1>0, <1>6 DEF WriteSnapshot, Step, TypeOK, Storer, locals
  <2>2. snaps' = [snaps EXCEPT ![ep[t]][clock[t]] = [body |-> payload[t], mtime |-> now]]
    <3>1. snaps[ep[t]][clock[t]].body = Truncated
      BY <1>0, <2>1
    <3>2. Overlay(Truncated, payload[t]) = {payload[t]}
      BY DEF Overlay
    <3>3. \E b \in {payload[t]} :
            snaps' = [snaps EXCEPT ![ep[t]][clock[t]] = [body |-> b, mtime |-> now]]
      <4>1. Truncated # Absent
        BY DEF Truncated, Absent
      <4> QED BY <1>6, <3>1, <3>2, <4>1, Zenon DEF WriteSnapshot
    <3> QED BY <3>3
  <2>3. LoneTask(t)'
    BY <1>0, <2>1
  <2>4. \A e \in Endpoints, s \in Time :
          snaps'[e][s] = snaps[e][s] \/ (e = ep[t] /\ snaps'[e][s].body = payload[t])
    BY <2>2 DEF TypeOK
  <2>5. payload[t] > 0
    BY <2>1, ConstantsAssumption DEF Version
  <2>6. ep[t] \notin tampered => latest[ep[t]].body # Absent
    BY <1>0, <2>1, <2>5 DEF Absent
  <2>7. NoGarbledSnapshot'
    BY <2>4, <2>5 DEF LoneProcess, NoGarbledSnapshot, Garbled
  <2>8. LatestIsWhole' /\ EmptyMeansNew'
    BY <2>1, <2>4, <2>6 DEF LoneProcess, LatestIsWhole, EmptyMeansNew
  <2> QED BY <1>1, <2>1, <2>3, <2>7, <2>8
<1>7. ASSUME Inside, disk' = disk, LoneTask(t)'
      PROVE  LoneProcess'
  BY <1>1, <1>7 DEF LoneProcess, LatestIsWhole, NoGarbledSnapshot, EmptyMeansNew
<1>8. CASE PruneStart(t) \/ PruneNext(t)
  <2>1. Inside /\ disk' = disk /\ pc[t] \in {"prune", "prune_file"}
        /\ pc'[t] \in {"prune_dir", "project"}
    BY <1>8 DEF PruneStart, PruneNext, Step, TypeOK, locals
  <2>2. LoneTask(t)'
    BY <1>0, <2>1
  <2> QED BY <1>7, <2>1, <2>2
<1>9. ASSUME NEW e \in Endpoints, PruneDir(t, e)
      PROVE  LoneProcess'
  <2>1. Inside /\ disk' = disk /\ pc[t] = "prune_dir" /\ pc'[t] = "prune_file"
        /\ names'[t] = Listing(e) /\ doomed'[t] = doomed[t]
    BY <1>9 DEF PruneDir, Step, TypeOK
  <2>2. \A n \in names'[t] : Content(n) # Absent
    BY <2>1 DEF Listing, Content
  <2>3. doomed[t] = {}
    BY <2>1 DEF Provenance, Dooms
  <2>4. LoneTask(t)'
    BY <1>0, <2>1, <2>2, <2>3 DEF Content
  <2> QED BY <1>7, <2>1, <2>4
<1>10. ASSUME NEW n \in Endpoints \X Time, PruneFile(t, n)
       PROVE  LoneProcess'
  <2>1. /\ Inside /\ disk' = disk /\ pc[t] = "prune_file"
        /\ pc'[t] \in {"prune_file", "prune_unlink"}
        /\ names'[t] \cup doomed'[t] \subseteq names[t] \cup doomed[t]
        /\ pc'[t] = "prune_file" => doomed'[t] = doomed[t]
    BY <1>10 DEF PruneFile, Step, TypeOK
  <2>2. LoneTask(t)'
    BY <1>0, <2>1 DEF Content
  <2> QED BY <1>7, <2>1, <2>2
<1>12. ASSUME NEW n \in Endpoints \X Time, Unlink(t, n)
       PROVE  LoneProcess'
  <2>1. /\ Inside /\ UNCHANGED <<latest, tmp>>
        /\ pc[t] = "prune_unlink" /\ pc'[t] = "prune_file"
        /\ names'[t] = names[t] \ {n} /\ doomed'[t] = {}
        /\ snaps' = [snaps EXCEPT ![n[1]][n[2]] = NoFile]
    BY <1>12 DEF Unlink, Step, TypeOK
  <2>2. \A e \in Endpoints, s \in Time :
          snaps'[e][s] = snaps[e][s] \/ (<<e, s>> = n /\ snaps'[e][s] = NoFile)
    <3>1. n[1] \in Endpoints /\ n[2] \in Time /\ n = <<n[1], n[2]>>
      OBVIOUS
    <3>2. snaps \in [Endpoints -> [Time -> File]]
      BY DEF TypeOK
    <3> TAKE e \in Endpoints, s \in Time
    <3>3. CASE e = n[1] /\ s = n[2]
      BY <2>1, <3>1, <3>2, <3>3
    <3>4. CASE e # n[1] \/ s # n[2]
      BY <2>1, <3>1, <3>2, <3>4
    <3> QED BY <3>3, <3>4
  <2>3. ASSUME NEW m \in names'[t]
        PROVE  Content(m)' # Absent
    <3>1. m \in Endpoints \X Time /\ m # n /\ m \in names[t]
      BY <2>1 DEF TypeOK
    <3>2. m[1] \in Endpoints /\ m[2] \in Time /\ m = <<m[1], m[2]>>
      BY <3>1
    <3>3. snaps'[m[1]][m[2]] = snaps[m[1]][m[2]]
      BY <2>2, <3>1, <3>2
    <3>4. Content(m) # Absent
      BY <1>0, <2>1, <3>1
    <3> QED BY <3>3, <3>4 DEF Content
  <2>4. LoneTask(t)'
    BY <1>0, <2>1, <2>3
  <2>5. LatestIsWhole' /\ NoGarbledSnapshot' /\ EmptyMeansNew'
    BY <2>1, <2>2 DEF LoneProcess, LatestIsWhole, NoGarbledSnapshot, EmptyMeansNew, NoFile,
       Absent, Garbled, Usable
  <2> QED BY <1>1, <2>1, <2>4, <2>5
<1>11. CASE DiskError(t)
  <2>1. res'[t].kind \notin {"enoent", "zlib_error"}
    BY <1>11 DEF DiskError, Raise, Finish, TypeOK
  <2> QED BY <1>0, <1>11, <2>1, EndingSteps, EndsLone DEF DiskError
<1> QED
  BY <1>2, <1>3, <1>4, <1>5, <1>6, <1>8, <1>9, <1>10, <1>11, <1>12, NoRace DEF Storing

LEMMA ReturningLone ==
    ASSUME TypeOK, Provenance, LoneProcess, SingleProcess, NEW t \in Tasks,
           Returning(t) \/ Cancel(t)
    PROVE  LoneProcess'
<1>1. TaskStep(t) /\ Ends(t)
  BY EndingSteps DEF TaskStep, Progress, Returning
<1>2. Running(t) \/ Free(ProcOf[t])
  BY DEF Returning, Serve, ProjectionFails, Cancel
<1>3. res'[t].kind \notin {"enoent", "zlib_error"}
  BY DEF Returning, Serve, ProjectionFails, Cancel, Raise, Finish, TypeOK
<1> QED BY <1>1, <1>2, <1>3, EndsLone

LEMMA EnvironmentLone ==
    ASSUME TypeOK, Provenance, LoneProcess, SingleProcess, Environment
    PROVE  LoneProcess'
<1> USE DEF LoneProcess, LoneTask, LoopHeld, Running, OwnsTmp, OwnsSnapshot, SeesFiles,
            HeldIsStored, FallsBackWhenEmpty, LatestIsWhole, NoGarbledSnapshot, EmptyMeansNew,
            NoSpuriousFailure, Content
<1>1. CASE Tick \/ \E e \in Endpoints : Publish(e)
  BY <1>1 DEF Tick, Publish, disk, locals
<1>2. ASSUME NEW e \in Endpoints, Tamper(e)
      PROVE  LoneProcess'
  <2>1. /\ UNCHANGED <<tmp, snaps, loop, pc, locals, res, served>>
        /\ tampered' = tampered \cup {e}
        /\ \A f \in Endpoints \ {e} : latest'[f] = latest[f]
    BY <1>2 DEF Tamper, TypeOK
  <2>2. \A t \in Tasks : LoneTask(t)'
    BY <2>1 DEF locals, TypeOK
  <2> QED BY <2>1, <2>2
<1>3. ASSUME NEW p \in Procs, Crash(p)
      PROVE  LoneProcess'
  <2>1. UNCHANGED <<env, disk, served, ep>> /\ \A t \in Tasks : pc'[t] = "idle"
    BY <1>3, ConstantsAssumption DEF Crash, Forget, SingleProcess, TypeOK
  <2>2. \A t \in Tasks : res'[t].kind \notin {"enoent", "zlib_error"}
    BY <1>3 DEF Crash
  <2>3. \A t \in Tasks : LoneTask(t)'
    BY <2>1 DEF Sync, Stored
  <2> QED BY <2>1, <2>2, <2>3 DEF env, disk
<1> QED BY <1>1, <1>2, <1>3 DEF Environment

LEMMA LoneInit == Init => LoneProcess
  BY DEF Init, LoneProcess, LoneTask, LoopHeld, OwnsTmp, OwnsSnapshot, SeesFiles,
         HeldIsStored, FallsBackWhenEmpty, LatestIsWhole, NoGarbledSnapshot, EmptyMeansNew,
         NoSpuriousFailure, NoFile, NoResult, Sync, Control, Stored, Absent, Garbled, Usable

LEMMA LoneNext ==
    ASSUME TypeOK, Provenance, LoneProcess, SingleProcess, [Next]_vars
    PROVE  LoneProcess'
<1>1. CASE UNCHANGED vars
  BY <1>1 DEF vars, env, disk, locals, LoneProcess, LoneTask, LoopHeld, Running, OwnsTmp,
         OwnsSnapshot, SeesFiles, HeldIsStored, FallsBackWhenEmpty, LatestIsWhole,
         NoGarbledSnapshot, EmptyMeansNew, NoSpuriousFailure, Content
<1>2. ASSUME NEW t \in Tasks, TaskStep(t)
      PROVE  LoneProcess'
  BY <1>2, SuspendedLone, ReadingLone, StoringLone, ReturningLone, CallLone
  DEF TaskStep, Progress
<1>3. CASE Environment
  BY <1>3, EnvironmentLone
<1> QED BY <1>1, <1>2, <1>3 DEF Next, TaskStep

LEMMA LoneAlways ==
    ASSUME SingleProcess
    PROVE  Spec => [](TypeOK /\ Provenance /\ LoneProcess)
<1>1. Init => LoneProcess
  BY LoneInit
<1>2. TypeOK /\ Provenance /\ LoneProcess /\ [Next]_vars => LoneProcess'
  BY LoneNext
<1> QED BY <1>1, <1>2, TypeAndProvenance, PTL DEF Spec

\* With one process, no crash, cancellation or disk error at any point leaves a
\* torn latest.json behind, nor is one ever visible while it is written.
THEOREM LatestStaysWhole == SingleProcess => (Spec => []LatestIsWhole)
<1> SUFFICES ASSUME SingleProcess PROVE Spec => []LatestIsWhole
  OBVIOUS
<1>1. LoneProcess => LatestIsWhole
  BY DEF LoneProcess
<1> QED BY <1>1, LoneAlways, PTL

\* With one process, no call fails because a file vanished or was mixed.
THEOREM OwnFilesNeverVanish == SingleProcess => (Spec => []NoSpuriousFailure)
<1> SUFFICES ASSUME SingleProcess PROVE Spec => []NoSpuriousFailure
  OBVIOUS
<1>1. LoneProcess => NoSpuriousFailure
  BY DEF LoneProcess
<1> QED BY <1>1, LoneAlways, PTL

\* With one process, what a call is about to return is what latest.json holds.
THEOREM AnswersAreStored == SingleProcess => (Spec => []AnswerIsStored)
<1> SUFFICES ASSUME SingleProcess PROVE Spec => []AnswerIsStored
  OBVIOUS
<1>1. LoneProcess => AnswerIsStored
  BY DEF LoneProcess, LoneTask, HeldIsStored, Stored, AnswerIsStored
<1> QED BY <1>1, LoneAlways, PTL
=============================================================================
