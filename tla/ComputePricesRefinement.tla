----------------------- MODULE ComputePricesRefinement -----------------------
(***************************************************************************)
(* With one server process, the files and steps of ComputePrices implement *)
(* the register of LastGoodCache; and what follows about single steps.     *)
(***************************************************************************)
EXTENDS ComputePricesProofs, FiniteSetTheorems, WellFoundedInduction

-----------------------------------------------------------------------------
(* Action properties.                                                       *)

\* How the last call of t ended changes by a step of t, or by a crash.
LEMMA UnavailableIsWalkedOut ==
    ASSUME TypeOK, [Next]_vars, NEW t \in Tasks,
           res'[t] # res[t], res'[t].kind = "unavailable"
    PROVE  Unavailable(t)
<1>1. CASE UNCHANGED vars
  BY <1>1 DEF vars
<1>2. CASE Environment
  <2>1. ASSUME NEW p \in Procs, Crash(p)
        PROVE  FALSE
    BY <2>1 DEF Crash
  <2> QED BY <1>2, <2>1 DEF Environment, Tick, Publish, Tamper
<1>3. ASSUME NEW u \in Tasks, TaskStep(u)
      PROVE  Unavailable(t)
  <2>1. u = t
    BY <1>3, TaskKeepsOthers DEF OthersKeep
  <2>2. ASSUME NEW kind \in Ending, NEW v, Finish(t, kind, v)
        PROVE  res'[t].kind = kind
    BY <2>2 DEF Finish, TypeOK
  <2>3. CASE Suspended(t)
    BY <2>2, <2>3 DEF Suspended, Answer, Retry, GiveUp, Surface, Resume, Raise, Ending
  <2>4. CASE Reading(t)
    BY <2>2, <2>4 DEF Reading, ReadCacheHit, ReadCacheCorrupt, FallbackLatest,
       FallbackMiss, ListSnapshots, ReadSnapshot, SkipSnapshot, SnapshotCrashesWalk,
       Raise, Ending
  <2>5. CASE Storing(t)
    BY <2>2, <2>5 DEF Storing, OpenTmp, WriteTmp, Replace, ReplaceFails, OpenSnapshot,
       WriteSnapshot, PruneStart, PruneNext, PruneDir, PruneFile, Unlink, PruneFails, DiskError,
       Raise, Ending
  <2>6. CASE Returning(t) \/ Cancel(t)
    BY <2>2, <2>6 DEF Returning, Serve, ProjectionFails, Cancel, Raise, Ending
  <2>7. CASE \E e \in Endpoints : Call(t, e)
    BY <2>7 DEF Call, NoResult, TypeOK
  <2> QED BY <1>3, <2>1, <2>3, <2>4, <2>5, <2>6, <2>7 DEF TaskStep, Progress
<1> QED BY <1>1, <1>2, <1>3 DEF Next, TaskStep

\* ADR-013 for one process: no call is told "unavailable" after another got
\* prices, whatever fails, expires or is pruned in between.
THEOREM LastGoodIsNeverLost == SingleProcess => (Spec => LastGoodNeverLost)
<1> SUFFICES ASSUME SingleProcess PROVE Spec => LastGoodNeverLost
  OBVIOUS
<1>1. ASSUME TypeOK, LoneProcess, [Next]_vars
      PROVE  [\A t \in Tasks :
                (res'[t] # res[t] /\ res'[t].kind = "unavailable" /\ ep[t] \notin tampered)
                    => served[ep[t]] = NoPayload]_vars
  <2> SUFFICES ASSUME NEW t \in Tasks, res'[t] # res[t], res'[t].kind = "unavailable",
                      ep[t] \notin tampered
               PROVE  served[ep[t]] = NoPayload
    OBVIOUS
  <2>1. pc[t] = "walk"
    BY <1>1, UnavailableIsWalkedOut DEF Unavailable
  <2>2. latest[ep[t]].body = Absent
    BY <1>1, <2>1 DEF LoneProcess, LoneTask, FallsBackWhenEmpty
  <2> QED BY <1>1, <2>2 DEF LoneProcess, EmptyMeansNew, TypeOK
<1> QED BY <1>1, LoneAlways, PTL DEF LastGoodNeverLost, Spec

\* No task acts on a clock reading from the future.
ClockIsPast == \A t \in Tasks : clock[t] <= now

LEMMA ClockStep ==
    ASSUME TypeOK, ClockIsPast, [Next]_vars
    PROVE  ClockIsPast'
<1>0. now \in Nat /\ \A t \in Tasks : clock[t] \in Nat
  BY ConstantsAssumption DEF TypeOK, Time
<1> USE DEF ClockIsPast
<1>1. CASE now' = now /\ \A t \in Tasks : clock'[t] \in {clock[t], now, 0}
  BY <1>0, <1>1
<1>2. CASE UNCHANGED vars
  BY <1>1, <1>2 DEF vars, env, locals
<1>3. CASE Environment
  <2>1. CASE Tick
    BY <1>0, <2>1 DEF Tick, locals
  <2>2. CASE \E e \in Endpoints : Publish(e) \/ Tamper(e)
    BY <1>1, <2>2 DEF Publish, Tamper, locals
  <2>3. CASE \E p \in Procs : Crash(p)
    BY <1>1, <2>3 DEF Crash, Forget, env
  <2> QED BY <1>3, <2>1, <2>2, <2>3 DEF Environment
<1>4. ASSUME NEW u \in Tasks, TaskStep(u)
      PROVE  ClockIsPast'
  <2> USE DEF Step, env, locals
  <2>1. CASE Suspended(u)
    BY <1>1, <2>1 DEF Suspended, Answer, Retry, GiveUp, Surface, Resume, Raise, Finish, Forget
  <2>2. CASE Reading(u)
    BY <1>1, <2>2 DEF Reading, ReadCacheHit, ReadCacheCorrupt, FallbackLatest,
       FallbackMiss, ListSnapshots, ReadSnapshot, SkipSnapshot, SnapshotCrashesWalk,
       Unavailable, Raise, Finish, Forget
  <2>3. CASE Storing(u)
    BY <1>1, <2>3 DEF Storing, OpenTmp, WriteTmp, Replace, ReplaceFails, OpenSnapshot,
       WriteSnapshot, PruneStart, PruneNext, PruneDir, PruneFile, Unlink, PruneFails, DiskError,
       Raise, Finish, Forget, TypeOK
  <2>4. CASE Returning(u) \/ Cancel(u)
    BY <1>1, <2>4 DEF Returning, Serve, ProjectionFails, Cancel, Raise, Finish, Forget
  <2>5. CASE \E e \in Endpoints : Call(u, e)
    BY <1>1, <2>5 DEF Call
  <2> QED BY <1>4, <2>1, <2>2, <2>3, <2>4, <2>5 DEF TaskStep, Progress
<1> QED BY <1>2, <1>3, <1>4 DEF Next, TaskStep

\* Only an unlink removes a snapshot: writers replace its content.
LEMMA OnlyUnlinkRemoves ==
    ASSUME TypeOK, Provenance, [Next]_vars, NEW e \in Endpoints, NEW s \in Time,
           Usable(snaps[e][s].body), snaps'[e][s].body = Absent
    PROVE  \E t \in Tasks : <<e, s>> \in doomed[t]
<1> USE DEF TypeOK, Absent, Usable, env, disk
<1>1. snaps'[e][s] # snaps[e][s]
  OBVIOUS
<1>2. ~UNCHANGED vars /\ ~Environment
  BY <1>1 DEF vars, Environment, Tick, Publish, Tamper, Crash
<1>3. PICK t \in Tasks : TaskStep(t)
  BY <1>2 DEF Next, TaskStep
<1>4. Storing(t)
  BY <1>1, <1>3 DEF TaskStep, Progress, Suspended, Answer, Retry, GiveUp, Surface, Resume,
     Reading, ReadCacheHit, ReadCacheCorrupt, FallbackLatest, FallbackMiss, ListSnapshots,
     ReadSnapshot, SkipSnapshot, SnapshotCrashesWalk, Unavailable, Returning, Serve,
     ProjectionFails, Cancel, Call
<1>5. ~OpenSnapshot(t)
  <2>1. ASSUME snaps' = [snaps EXCEPT ![ep[t]][now] = [body |-> Truncated, mtime |-> now]]
        PROVE  FALSE
    <3>1. snaps'[e][s] = snaps[e][s] \/ snaps'[e][s].body = Truncated
      BY <2>1
    <3> QED BY <3>1 DEF Truncated
  <2> QED BY <2>1 DEF OpenSnapshot
<1>6. ~WriteSnapshot(t)
  <2> SUFFICES ASSUME WriteSnapshot(t) PROVE FALSE
    OBVIOUS
  <2>1. PICK b \in Overlay(snaps[ep[t]][clock[t]].body, payload[t]) :
          snaps' = [snaps EXCEPT ![ep[t]][clock[t]] = [body |-> b, mtime |-> now]]
    BY <1>1 DEF WriteSnapshot
  <2>2. payload[t] \in Version
    BY DEF WriteSnapshot, Step, Provenance, HasPayload, Storer
  <2>3. b # Absent
    BY <2>1, <2>2, ConstantsAssumption DEF Overlay, Version, Garbled
  <2>4. snaps'[e][s] = snaps[e][s] \/ snaps'[e][s].body = b
    BY <2>1
  <2> QED BY <1>1, <2>3, <2>4
<1>7. PICK n \in Endpoints \X Time : Unlink(t, n)
  BY <1>1, <1>4, <1>5, <1>6 DEF Storing, OpenTmp, WriteTmp, Replace, ReplaceFails,
     PruneStart, PruneNext, PruneDir, PruneFile, PruneFails, DiskError
<1>8. n \in doomed[t] /\ snaps' = [snaps EXCEPT ![n[1]][n[2]] = NoFile]
  BY <1>7 DEF Unlink
<1>9. e = n[1] /\ s = n[2]
  <2>1. CASE e # n[1] \/ s # n[2]
    BY <1>1, <1>8, <2>1
  <2> QED BY <2>1
<1>10. n = <<e, s>>
  BY <1>9
<1> QED BY <1>8, <1>10

\* Only a storing task touches the history.
LEMMA OnlyStoringTouchesHistory ==
    ASSUME NEW t \in Tasks, TaskStep(t)
    PROVE  UNCHANGED snaps \/ (Storing(t) /\ Running(t) /\ pc[t] \notin {"walk", "list"})
<1> USE DEF env, disk, Step
<1>1. CASE Storing(t)
  BY <1>1 DEF Storing, OpenTmp, WriteTmp, Replace, ReplaceFails, OpenSnapshot, WriteSnapshot,
     PruneStart, PruneNext, PruneDir, PruneFile, Unlink, PruneFails, DiskError
<1>2. CASE Reading(t)
  BY <1>2 DEF Reading, ReadCacheHit, ReadCacheCorrupt, FallbackLatest, FallbackMiss,
     ListSnapshots, ReadSnapshot, SkipSnapshot, SnapshotCrashesWalk, Unavailable
<1>3. CASE Suspended(t) \/ Returning(t) \/ Cancel(t) \/ \E e \in Endpoints : Call(t, e)
  BY <1>3 DEF Suspended, Answer, Retry, GiveUp, Surface, Resume, Returning, Serve,
     ProjectionFails, Cancel, Call
<1> QED BY <1>1, <1>2, <1>3 DEF TaskStep, Progress

\* A file is written last no earlier than in the second it is named after.
NamedWhenOpened ==
    \A e \in Endpoints, s \in Time : snaps[e][s].body # Absent => s <= snaps[e][s].mtime

\* What is about to be unlinked is named after a second before the window: its age
\* was at least what was read, whatever has been written to it since.
DoomedIsOld ==
    \A t \in Tasks : \A n \in doomed[t] : n[2] < clock[t] - Retention

LEMMA NamedStep ==
    ASSUME TypeOK, ClockIsPast, NamedWhenOpened, [Next]_vars
    PROVE  NamedWhenOpened'
<1> USE DEF NamedWhenOpened
<1>0. now \in Int /\ \A t \in Tasks : clock[t] \in Time /\ clock[t] \in Int /\ clock[t] <= now
  BY ConstantsAssumption DEF TypeOK, Time, ClockIsPast
<1>1. CASE UNCHANGED snaps
  BY <1>1
<1>2. ASSUME NEW e \in Endpoints, NEW s \in Time, s <= now, NEW b,
             snaps' = [snaps EXCEPT ![e][s] = [body |-> b, mtime |-> now]]
      PROVE  NamedWhenOpened'
  <2> SUFFICES ASSUME NEW f \in Endpoints, NEW r \in Time, snaps'[f][r].body # Absent
               PROVE  r <= snaps'[f][r].mtime
    OBVIOUS
  <2>1. CASE f = e /\ r = s
    BY <1>2, <2>1 DEF TypeOK
  <2>2. CASE f # e \/ r # s
    BY <1>2, <2>2 DEF TypeOK
  <2> QED BY <2>1, <2>2
<1>3. CASE UNCHANGED vars
  BY <1>1, <1>3 DEF vars, disk
<1>4. CASE Environment
  BY <1>1, <1>4 DEF Environment, Tick, Publish, Tamper, Crash, disk
<1>5. ASSUME NEW t \in Tasks, TaskStep(t)
      PROVE  NamedWhenOpened'
  <2>1. CASE OpenSnapshot(t)
    <3>1. now \in Time /\ ep[t] \in Endpoints /\ now <= now
      BY <1>0 DEF TypeOK
    <3> QED BY <1>2, <2>1, <3>1 DEF OpenSnapshot
  <2>2. CASE WriteSnapshot(t)
    <3>1. ep[t] \in Endpoints
      BY DEF TypeOK
    <3> QED BY <1>0, <1>1, <1>2, <2>2, <3>1 DEF WriteSnapshot
  <2>3. ASSUME NEW n \in Endpoints \X Time, Unlink(t, n)
        PROVE  NamedWhenOpened'
    <3> SUFFICES ASSUME NEW f \in Endpoints, NEW r \in Time, snaps'[f][r].body # Absent
                 PROVE  r <= snaps'[f][r].mtime
      OBVIOUS
    <3>1. n[1] \in Endpoints /\ n[2] \in Time
      OBVIOUS
    <3>2. snaps' = [snaps EXCEPT ![n[1]][n[2]] = NoFile]
      BY <2>3 DEF Unlink
    <3>3. CASE f = n[1] /\ r = n[2]
      BY <3>1, <3>2, <3>3 DEF TypeOK, NoFile
    <3>4. CASE f # n[1] \/ r # n[2]
      BY <3>1, <3>2, <3>4 DEF TypeOK
    <3> QED BY <3>3, <3>4
  <2>4. CASE Storing(t)
    BY <1>1, <2>1, <2>2, <2>3, <2>4 DEF Storing, OpenTmp, WriteTmp, Replace, ReplaceFails,
       PruneStart, PruneNext, PruneDir, PruneFile, PruneFails, DiskError, disk
  <2>5. ~Storing(t) => UNCHANGED snaps
    BY <1>5, OnlyStoringTouchesHistory
  <2> QED BY <1>1, <2>4, <2>5
<1> QED BY <1>3, <1>4, <1>5 DEF Next, TaskStep

\* A doomed entry is one whose age was read at this prune's clock.
LEMMA DoomedStep ==
    ASSUME TypeOK, Provenance, ClockIsPast, NamedWhenOpened, DoomedIsOld, [Next]_vars
    PROVE  DoomedIsOld'
<1> USE DEF DoomedIsOld
<1>1. CASE \A t \in Tasks : \/ doomed'[t] = {}
                            \/ doomed'[t] = doomed[t] /\ clock'[t] = clock[t]
  BY <1>1
<1>2. CASE UNCHANGED vars
  BY <1>1, <1>2 DEF vars, locals
<1>3. CASE Environment
  <2>1. ASSUME NEW p \in Procs, Crash(p)
        PROVE  DoomedIsOld'
    BY <1>1, <2>1 DEF Crash, Forget
  <2> QED BY <1>1, <1>3, <2>1 DEF Environment, Tick, Publish, Tamper, locals
<1>4. ASSUME NEW u \in Tasks, TaskStep(u)
      PROVE  DoomedIsOld'
  <2>1. \A t \in Tasks \ {u} : doomed'[t] = doomed[t] /\ clock'[t] = clock[t]
    BY <1>4, TaskKeepsOthers DEF OthersKeep
  <2>2. pc[u] # "prune_unlink" => doomed[u] = {}
    BY DEF Provenance, Dooms
  <2>3. CASE doomed'[u] = {} \/ (doomed'[u] = doomed[u] /\ clock'[u] = clock[u])
    BY <1>1, <2>1, <2>3
  <2> USE DEF TypeOK, Step, locals
  <2>4. CASE Suspended(u) \/ Returning(u) \/ Cancel(u) \/ \E e \in Endpoints : Call(u, e)
    BY <2>3, <2>4 DEF Suspended, Answer, Retry, GiveUp, Surface, Resume, Returning, Serve,
       ProjectionFails, Cancel, Call, Raise, Finish, Forget
  <2>5. CASE Reading(u)
    BY <2>3, <2>5 DEF Reading, ReadCacheHit, ReadCacheCorrupt, FallbackLatest, FallbackMiss,
       ListSnapshots, ReadSnapshot, SkipSnapshot, SnapshotCrashesWalk, Unavailable, Raise,
       Finish, Forget
  <2>6. ASSUME NEW n \in Endpoints \X Time, PruneFile(u, n)
        PROVE  DoomedIsOld'
    <3>1. CASE UNCHANGED doomed
      BY <2>3, <2>6, <3>1 DEF PruneFile
    <3>2. CASE Expired(u, snaps[n[1]][n[2]]) /\ doomed'[u] = {n}
      <4> DEFINE f == snaps[n[1]][n[2]]
      <4>1. n[1] \in Endpoints /\ n[2] \in Time
        OBVIOUS
      <4>2. f.mtime \in Int /\ clock[u] \in Int /\ n[2] \in Int
        <5>1. f \in File
          BY <4>1
        <5> QED BY <4>1, <5>1, FileTypes, ConstantsAssumption DEF Time
      <4>3. f.body # Absent /\ clock'[u] = clock[u]
        BY <2>6 DEF PruneFile
      <4>4. n[2] <= f.mtime
        BY <4>1, <4>3 DEF NamedWhenOpened
      <4>5. Retention \in Int
        BY ConstantsAssumption
      <4>6. n[2] < clock'[u] - Retention
        BY <3>2, <4>2, <4>3, <4>4, <4>5 DEF Expired
      <4> QED BY <2>1, <3>2, <4>6
    <3> QED BY <2>6, <3>1, <3>2 DEF PruneFile
  <2>7. CASE Storing(u)
    <3>1. CASE OpenTmp(u) \/ WriteTmp(u) \/ Replace(u) \/ WriteSnapshot(u)
      BY <2>3, <3>1 DEF OpenTmp, WriteTmp, Replace, WriteSnapshot
    <3>2. CASE OpenSnapshot(u)
      BY <2>2, <2>3, <3>2 DEF OpenSnapshot
    <3>3. CASE PruneStart(u) \/ PruneNext(u) \/ \E e \in Endpoints : PruneDir(u, e)
      BY <2>2, <2>3, <3>3 DEF PruneStart, PruneNext, PruneDir
    <3>4. ASSUME NEW n \in Endpoints \X Time, Unlink(u, n)
          PROVE  DoomedIsOld'
      BY <2>3, <3>4 DEF Unlink
    <3>5. CASE ReplaceFails(u) \/ DiskError(u) \/ \E n \in Endpoints \X Time : PruneFails(u, n)
      BY <2>3, <3>5 DEF ReplaceFails, DiskError, PruneFails, Raise, Finish, Forget
    <3> QED BY <2>6, <2>7, <3>1, <3>2, <3>3, <3>4, <3>5 DEF Storing
  <2> QED BY <1>4, <2>4, <2>5, <2>7 DEF TaskStep, Progress
<1> QED BY <1>2, <1>3, <1>4 DEF Next, TaskStep

Dated == ClockIsPast /\ NamedWhenOpened /\ DoomedIsOld

LEMMA DatedAlways == Spec => [](TypeOK /\ Provenance /\ Dated)
<1>1. Init => Dated
  BY ConstantsAssumption
  DEF Init, Dated, ClockIsPast, NamedWhenOpened, DoomedIsOld, NoFile, Absent
<1>2. TypeOK /\ Provenance /\ Dated /\ [Next]_vars => Dated'
  BY ClockStep, NamedStep, DoomedStep DEF Dated
<1> QED BY <1>1, <1>2, TypeAndProvenance, PTL DEF Spec

\* Any number of processes may list, read ages, write and unlink at the same time,
\* between one another's steps: none of them removes a complete snapshot that is named
\* after a second of the retention window.
THEOREM SnapshotsAreRetained == Spec => RetainedUntilExpired
<1>1. ASSUME TypeOK, Provenance, Dated, [Next]_vars
      PROVE  [\A e \in Endpoints, s \in Time :
                Usable(snaps[e][s].body) /\ snaps'[e][s].body = Absent
                    => now - s > Retention]_vars
  <2> SUFFICES ASSUME NEW e \in Endpoints, NEW s \in Time,
                      Usable(snaps[e][s].body), snaps'[e][s].body = Absent
               PROVE  now - s > Retention
    OBVIOUS
  <2>1. PICK t \in Tasks : <<e, s>> \in doomed[t]
    BY <1>1, OnlyUnlinkRemoves
  <2>2. s \in Int /\ clock[t] \in Int /\ now \in Int /\ Retention \in Int
    BY <1>1, ConstantsAssumption DEF TypeOK, Time
  <2>3. s < clock[t] - Retention /\ clock[t] <= now
    BY <1>1, <2>1 DEF Dated, DoomedIsOld, ClockIsPast
  <2> QED BY <2>2, <2>3
<1> QED BY <1>1, DatedAlways, PTL DEF RetainedUntilExpired, Spec

-----------------------------------------------------------------------------
(* The walk of the history.                                                 *)

\* The answer of an earlier call is dropped when a call starts.
FreshAnswers == \A t \in Tasks : pc[t] # "idle" => res[t] = NoResult

\* What the walk has still to look at includes every usable snapshot there is.
SeesHistory ==
    \A t \in Tasks : pc[t] = "walk" => {ep[t]} \X UsableSnapshots(ep[t]) \subseteq names[t]

LEMMA FreshStep ==
    ASSUME TypeOK, FreshAnswers, [Next]_vars
    PROVE  FreshAnswers'
<1>1. CASE UNCHANGED vars
  BY <1>1 DEF vars, FreshAnswers
<1>2. CASE Environment
  BY <1>2 DEF FreshAnswers, Environment, Tick, Publish, Tamper, Crash
<1>3. ASSUME NEW t \in Tasks, TaskStep(t)
      PROVE  FreshAnswers'
  <2>1. ASSUME NEW u \in Tasks \ {t}
        PROVE  pc'[u] # "idle" => res'[u] = NoResult
    BY <1>3, TaskKeepsOthers DEF OthersKeep, FreshAnswers
  <2>2. pc'[t] # "idle" => res'[t] = NoResult
    <3>1. CASE UNCHANGED res /\ pc[t] # "idle"
      BY <3>1 DEF FreshAnswers
    <3>2. CASE pc' = [pc EXCEPT ![t] = "idle"]
      BY <3>2 DEF TypeOK
    <3> USE DEF Step, Raise, Finish
    <3>3. CASE Suspended(t)
      BY <3>1, <3>2, <3>3, ConstantsAssumption
      DEF Suspended, Answer, Retry, GiveUp, Surface, Resume
    <3>4. CASE Reading(t)
      BY <3>1, <3>2, <3>4 DEF Reading, ReadCacheHit, ReadCacheCorrupt, FallbackLatest,
         FallbackMiss, ListSnapshots, ReadSnapshot, SkipSnapshot, SnapshotCrashesWalk,
         Unavailable
    <3>5. CASE Storing(t)
      BY <3>1, <3>2, <3>5 DEF Storing, OpenTmp, WriteTmp, Replace, ReplaceFails,
         OpenSnapshot, WriteSnapshot, PruneStart, PruneNext, PruneDir, PruneFile,
         Unlink, PruneFails, DiskError
    <3>6. CASE Returning(t) \/ Cancel(t)
      BY <3>2, <3>6 DEF Returning, Serve, ProjectionFails, Cancel
    <3>7. CASE \E e \in Endpoints : Call(t, e)
      BY <3>7 DEF Call, TypeOK
    <3> QED BY <1>3, <3>3, <3>4, <3>5, <3>6, <3>7 DEF TaskStep, Progress
  <2> QED BY <2>1, <2>2 DEF FreshAnswers
<1> QED BY <1>1, <1>2, <1>3 DEF Next, TaskStep

\* The steps that lead to the walk, or go on with it.
LEMMA StepsToWalk ==
    ASSUME TypeOK, NEW t \in Tasks, TaskStep(t), pc'[t] = "walk"
    PROVE  ListSnapshots(t) \/ \E n \in Endpoints \X Time : SkipSnapshot(t, n)
<1>1. \A to : pc' = [pc EXCEPT ![t] = to] => to = "walk"
  BY DEF TypeOK
<1> USE <1>1 DEF Step, Raise, Finish
<1>2. CASE Suspended(t)
  BY <1>2, ConstantsAssumption DEF Suspended, Answer, Retry, GiveUp, Surface, Resume
<1>3. CASE Reading(t)
  BY <1>3 DEF Reading, ReadCacheHit, ReadCacheCorrupt, FallbackLatest, FallbackMiss,
     ReadSnapshot, SnapshotCrashesWalk, Unavailable
<1>4. CASE Storing(t)
  BY <1>4 DEF Storing, OpenTmp, WriteTmp, Replace, ReplaceFails, OpenSnapshot, WriteSnapshot,
     PruneStart, PruneNext, PruneDir, PruneFile, Unlink, PruneFails, DiskError
<1>5. CASE Returning(t) \/ Cancel(t)
  BY <1>5 DEF Returning, Serve, ProjectionFails, Cancel
<1>6. CASE \E e \in Endpoints : Call(t, e)
  BY <1>6 DEF Call
<1> QED BY <1>2, <1>3, <1>4, <1>5, <1>6 DEF TaskStep, Progress

\* Out of the walk into the projection leads one step only.
LEMMA StepsFromWalk ==
    ASSUME TypeOK, NEW t \in Tasks, TaskStep(t), pc[t] = "walk", pc'[t] = "project"
    PROVE  \E n \in Endpoints \X Time : ReadSnapshot(t, n)
<1>1. \A to : pc' = [pc EXCEPT ![t] = to] => to = "project"
  BY DEF TypeOK
<1> USE <1>1 DEF Step, Raise, Finish
<1>2. CASE Suspended(t)
  BY <1>2 DEF Suspended, Answer, Retry, GiveUp, Surface, Resume
<1>3. CASE Reading(t)
  BY <1>3 DEF Reading, ReadCacheHit, ReadCacheCorrupt, FallbackLatest, FallbackMiss,
     ListSnapshots, SkipSnapshot, SnapshotCrashesWalk, Unavailable
<1>4. CASE Storing(t)
  BY <1>4 DEF Storing, OpenTmp, WriteTmp, Replace, ReplaceFails, OpenSnapshot, WriteSnapshot,
     PruneStart, PruneNext, PruneDir, PruneFile, Unlink, PruneFails, DiskError
<1>5. CASE Returning(t) \/ Cancel(t)
  BY <1>5 DEF Returning, Serve, ProjectionFails, Cancel
<1>6. CASE \E e \in Endpoints : Call(t, e)
  BY <1>6 DEF Call
<1> QED BY <1>2, <1>3, <1>4, <1>5, <1>6 DEF TaskStep, Progress

\* A lone process's walk sees the history stand still: nothing is stored or pruned
\* before it ends, so what it has skipped stays unusable.
LEMMA HistoryStep ==
    ASSUME TypeOK, LoneProcess, SingleProcess, SeesHistory, [Next]_vars
    PROVE  SeesHistory'
<1>1. CASE /\ UNCHANGED <<snaps, ep, names>>
           /\ \A t \in Tasks : pc'[t] = "walk" => pc[t] = "walk"
  BY <1>1 DEF SeesHistory, UsableSnapshots
<1>2. CASE UNCHANGED vars
  BY <1>1, <1>2 DEF vars, disk, locals
<1>3. CASE Environment
  <2>1. ASSUME NEW p \in Procs, Crash(p)
        PROVE  SeesHistory'
    BY <2>1 DEF Crash, Forget, SeesHistory, UsableSnapshots, disk
  <2> QED BY <1>1, <1>3, <2>1 DEF Environment, Tick, Publish, Tamper, disk, locals
<1>4. ASSUME NEW u \in Tasks, TaskStep(u), NEW t \in Tasks, pc'[t] = "walk"
      PROVE  ({ep[t]} \X UsableSnapshots(ep[t]) \subseteq names[t])'
  <2>1. CASE t # u
    <3>1. pc[t] = "walk" /\ ep'[t] = ep[t] /\ names'[t] = names[t]
      BY <1>4, <2>1, TaskKeepsOthers DEF OthersKeep
    <3>2. ~Running(u)
      BY <2>1, <3>1, Alone DEF Sync, Control
    <3>3. UNCHANGED snaps
      BY <1>4, <3>2, OnlyStoringTouchesHistory
    <3> QED BY <3>1, <3>3 DEF SeesHistory, UsableSnapshots
  <2>2. CASE t = u /\ ListSnapshots(t)
    BY <2>2 DEF ListSnapshots, Listing, UsableSnapshots, Usable, Absent, disk, TypeOK
  <2>3. ASSUME t = u, NEW n \in Endpoints \X Time, SkipSnapshot(t, n)
        PROVE  ({ep[t]} \X UsableSnapshots(ep[t]) \subseteq names[t])'
    <3>1. /\ pc[t] = "walk" /\ UNCHANGED <<snaps, ep>> /\ names'[t] = names[t] \ {n}
          /\ ~Usable(snaps[n[1]][n[2]].body)
      BY <2>3 DEF SkipSnapshot, Step, Content, disk, TypeOK
    <3>2. n \notin {ep[t]} \X UsableSnapshots(ep[t])
      BY <3>1 DEF UsableSnapshots
    <3>3. {ep[t]} \X UsableSnapshots(ep[t]) \subseteq names[t]
      BY <3>1 DEF SeesHistory
    <3>4. ep'[t] = ep[t] /\ UsableSnapshots(ep[t])' = UsableSnapshots(ep[t])
      BY <3>1 DEF UsableSnapshots
    <3> QED BY <3>1, <3>2, <3>3, <3>4
  <2> QED BY <1>4, <2>1, <2>2, <2>3, StepsToWalk
<1> QED BY <1>2, <1>3, <1>4 DEF Next, TaskStep, SeesHistory

LEMMA HistoryAlways ==
    ASSUME SingleProcess
    PROVE  Spec => [](TypeOK /\ Provenance /\ FreshAnswers /\ SeesHistory)
<1>1. Init => FreshAnswers /\ SeesHistory
  BY DEF Init, FreshAnswers, SeesHistory
<1>2. TypeOK /\ LoneProcess /\ FreshAnswers /\ SeesHistory /\ [Next]_vars
        => FreshAnswers' /\ SeesHistory'
  BY FreshStep, HistoryStep
<1> QED BY <1>1, <1>2, LoneAlways, PTL DEF Spec

\* A walk that finds something reads it from the newest usable snapshot.
LEMMA WalkFindsNewest ==
    ASSUME TypeOK, Provenance, SeesHistory, NEW t \in Tasks, NEW n \in Endpoints \X Time,
           ReadSnapshot(t, n)
    PROVE  \E s \in UsableSnapshots(ep[t]) :
              /\ payload'[t] = snaps[ep[t]][s].body
              /\ \A r \in UsableSnapshots(ep[t]) : r <= s
<1>1. /\ pc[t] = "walk" /\ Newest(n, names[t]) /\ Usable(snaps[n[1]][n[2]].body)
      /\ payload'[t] = snaps[n[1]][n[2]].body
  BY DEF ReadSnapshot, Step, Holding, Content, TypeOK
<1>2. n[1] = ep[t] /\ n[2] \in Time
  BY <1>1 DEF Newest, Provenance, WalksOwn
<1>3. n[2] \in UsableSnapshots(ep[t])
  BY <1>1, <1>2 DEF UsableSnapshots
<1>4. ASSUME NEW r \in UsableSnapshots(ep[t])
      PROVE  r <= n[2]
  <2>1. <<ep[t], r>> \in names[t]
    BY <1>1 DEF SeesHistory
  <2> QED BY <1>1, <2>1 DEF Newest
<1> QED BY <1>1, <1>2, <1>3, <1>4

\* With one process, however many snapshots of the history are unusable, the
\* fallback ends with the newest usable one, and gives up only if there is none.
THEOREM FallbackIsNewest == SingleProcess => (Spec => FallbackPicksNewest)
<1> SUFFICES ASSUME SingleProcess PROVE Spec => FallbackPicksNewest
  OBVIOUS
<1>1. ASSUME TypeOK, Provenance, FreshAnswers, SeesHistory, [Next]_vars
      PROVE  [\A t \in Tasks :
                LET good == UsableSnapshots(ep[t]) IN
                pc[t] = "walk" =>
                    /\ (pc'[t] = "project" =>
                          \E s \in good : /\ payload'[t] = snaps[ep[t]][s].body
                                          /\ \A r \in good : r <= s)
                    /\ (res'[t].kind = "unavailable" => good = {})]_vars
  <2> SUFFICES ASSUME NEW t \in Tasks, pc[t] = "walk"
               PROVE  /\ (pc'[t] = "project" =>
                            \E s \in UsableSnapshots(ep[t]) :
                                /\ payload'[t] = snaps[ep[t]][s].body
                                /\ \A r \in UsableSnapshots(ep[t]) : r <= s)
                      /\ (res'[t].kind = "unavailable" => UsableSnapshots(ep[t]) = {})
    OBVIOUS
  <2>1. ASSUME pc'[t] = "project"
        PROVE  \E n \in Endpoints \X Time : ReadSnapshot(t, n)
    <3>1. ~UNCHANGED vars /\ ~Environment
      BY <2>1 DEF vars, Environment, Tick, Publish, Tamper, Crash
    <3>2. PICK u \in Tasks : TaskStep(u)
      BY <1>1, <3>1 DEF Next, TaskStep
    <3>3. u = t
      BY <1>1, <2>1, <3>2, TaskKeepsOthers DEF OthersKeep
    <3> QED BY <1>1, <2>1, <3>2, <3>3, StepsFromWalk
  <2>2. ASSUME res'[t].kind = "unavailable"
        PROVE  UsableSnapshots(ep[t]) = {}
    <3>1. res'[t] # res[t]
      BY <1>1, <2>2 DEF FreshAnswers, NoResult
    <3>2. names[t] = {}
      BY <1>1, <2>2, <3>1, UnavailableIsWalkedOut DEF Unavailable
    <3>3. \A s \in UsableSnapshots(ep[t]) : <<ep[t], s>> \in names[t]
      BY <1>1 DEF SeesHistory
    <3> QED BY <3>2, <3>3
  <2>3. ASSUME pc'[t] = "project"
        PROVE  \E s \in UsableSnapshots(ep[t]) :
                  /\ payload'[t] = snaps[ep[t]][s].body
                  /\ \A r \in UsableSnapshots(ep[t]) : r <= s
    <3>1. PICK n \in Endpoints \X Time : ReadSnapshot(t, n)
      BY <2>1, <2>3
    <3> QED BY <1>1, <3>1, WalkFindsNewest
  <2> QED BY <2>2, <2>3
<1> QED BY <1>1, HistoryAlways, PTL DEF FallbackPicksNewest, Spec

-----------------------------------------------------------------------------
(* Every call counts down.                                                  *)

\* A call that has not asked upstream has all its attempts.
FreshTries == \A t \in Tasks : pc[t] \in {"idle", "read"} => tries[t] = 0

\* What a step of t leaves alone of the loops of the other tasks.
LEMMA OthersKeepCounts ==
    ASSUME TypeOK, NEW t \in Tasks, TaskStep(t), NEW u \in Tasks \ {t}
    PROVE  tries'[u] = tries[u] /\ dirs'[u] = dirs[u]
<1> USE DEF TypeOK, locals, Raise, Finish, Forget
<1>1. CASE Suspended(t)
  BY <1>1 DEF Suspended, Answer, Retry, GiveUp, Surface, Resume
<1>2. CASE Reading(t)
  BY <1>2 DEF Reading, ReadCacheHit, ReadCacheCorrupt, FallbackLatest, FallbackMiss,
     ListSnapshots, ReadSnapshot, SkipSnapshot, SnapshotCrashesWalk, Unavailable
<1>3. CASE Storing(t)
  BY <1>3 DEF Storing, OpenTmp, WriteTmp, Replace, ReplaceFails, OpenSnapshot, WriteSnapshot,
     PruneStart, PruneNext, PruneDir, PruneFile, Unlink, PruneFails, DiskError
<1>4. CASE Returning(t) \/ Cancel(t)
  BY <1>4 DEF Returning, Serve, ProjectionFails, Cancel
<1>5. CASE \E e \in Endpoints : Call(t, e)
  BY <1>5 DEF Call
<1> QED BY <1>1, <1>2, <1>3, <1>4, <1>5 DEF TaskStep, Progress

\* What a step makes of the attempts of its own call.
LEMMA OwnTries ==
    ASSUME TypeOK, NEW t \in Tasks, TaskStep(t)
    PROVE  \/ pc'[t] = "idle" /\ tries'[t] = 0
           \/ pc'[t] = "read" /\ pc[t] = "idle" /\ tries'[t] = tries[t]
           \/ pc'[t] \notin {"idle", "read"}
<1>1. ASSUME NEW to, pc' = [pc EXCEPT ![t] = to]
      PROVE  pc'[t] = to
  BY <1>1 DEF TypeOK
<1>2. ASSUME NEW kind, NEW v, Finish(t, kind, v)
      PROVE  pc'[t] = "idle" /\ tries'[t] = 0
  BY <1>2 DEF Finish, Forget, TypeOK
<1> USE <1>1, <1>2 DEF Step, Raise
<1>3. CASE Suspended(t)
  BY <1>3, ConstantsAssumption DEF Suspended, Answer, Retry, GiveUp, Surface, Resume
<1>4. CASE Reading(t)
  BY <1>4 DEF Reading, ReadCacheHit, ReadCacheCorrupt, FallbackLatest, FallbackMiss,
     ListSnapshots, ReadSnapshot, SkipSnapshot, SnapshotCrashesWalk, Unavailable
<1>5. CASE Storing(t)
  BY <1>5 DEF Storing, OpenTmp, WriteTmp, Replace, ReplaceFails, OpenSnapshot, WriteSnapshot,
     PruneStart, PruneNext, PruneDir, PruneFile, Unlink, PruneFails, DiskError
<1>6. CASE Returning(t) \/ Cancel(t)
  BY <1>6 DEF Returning, Serve, ProjectionFails, Cancel
<1>7. CASE \E e \in Endpoints : Call(t, e)
  BY <1>7 DEF Call
<1> QED BY <1>3, <1>4, <1>5, <1>6, <1>7 DEF TaskStep, Progress

LEMMA FreshTriesStep ==
    ASSUME TypeOK, FreshTries, [Next]_vars
    PROVE  FreshTries'
<1>1. CASE UNCHANGED vars
  BY <1>1 DEF vars, locals, FreshTries
<1>2. CASE Environment
  <2>1. ASSUME NEW p \in Procs, Crash(p)
        PROVE  FreshTries'
    BY <2>1 DEF Crash, Forget, FreshTries
  <2> QED BY <1>2, <2>1 DEF Environment, Tick, Publish, Tamper, locals, FreshTries
<1>3. ASSUME NEW t \in Tasks, TaskStep(t)
      PROVE  FreshTries'
  <2>1. ASSUME NEW u \in Tasks \ {t}
        PROVE  pc'[u] \in {"idle", "read"} => tries'[u] = 0
    BY <1>3, TaskKeepsOthers, OthersKeepCounts DEF OthersKeep, FreshTries
  <2>2. pc'[t] \in {"idle", "read"} => tries'[t] = 0
    BY <1>3, OwnTries DEF FreshTries
  <2> QED BY <2>1, <2>2 DEF FreshTries
<1> QED BY <1>1, <1>2, <1>3 DEF Next, TaskStep

LEMMA FreshTriesAlways == Spec => [](TypeOK /\ FreshTries)
<1>1. Init => FreshTries
  BY DEF Init, FreshTries
<1>2. TypeOK /\ FreshTries /\ [Next]_vars => FreshTries'
  BY FreshTriesStep
<1> QED BY <1>1, <1>2, TypeAndProvenance, PTL DEF Spec

\* The sets a call works off are finite.
LEMMA LoopsAreFinite ==
    ASSUME TypeOK, NEW t \in Tasks
    PROVE  /\ IsFiniteSet(dirs[t]) /\ Cardinality(dirs[t]) \in Nat
           /\ IsFiniteSet(names[t]) /\ Cardinality(names[t]) \in Nat
<1>1. IsFiniteSet(Endpoints) /\ IsFiniteSet(Time)
  BY EndpointsAssumption, ConstantsAssumption, FS_Interval DEF Time
<1>2. IsFiniteSet(Endpoints \X Time)
  BY <1>1, FS_Product
<1>3. dirs[t] \in SUBSET Endpoints /\ names[t] \in SUBSET (Endpoints \X Time)
  BY DEF TypeOK
<1>4. IsFiniteSet(dirs[t]) /\ IsFiniteSet(names[t])
  BY <1>1, <1>2, <1>3, FS_Subset
<1> QED BY <1>4, FS_CardinalityType

LEMMA CountdownType ==
    ASSUME TypeOK, NEW t \in Tasks
    PROVE  /\ Attempts - tries[t] \in Nat /\ Ahead[pc[t]] \in Nat
           /\ Countdown(t) \in [1..5 -> Nat]
<1>1. Attempts - tries[t] \in Nat
  BY ConstantsAssumption DEF TypeOK
<1>2. Ahead[pc[t]] \in Nat
  BY DEF TypeOK, Control, Ahead
<1>3. (IF pc[t] = "prune_file" THEN 1 ELSE 0) \in Nat
  OBVIOUS
<1> QED BY <1>1, <1>2, <1>3, LoopsAreFinite DEF Countdown

LEMMA LowerAt ==
    ASSUME NEW a, NEW b,
           \/ a[1] < b[1]
           \/ a[1] = b[1] /\ a[2] < b[2]
           \/ a[1] = b[1] /\ a[2] = b[2] /\ a[3] < b[3]
           \/ a[1] = b[1] /\ a[2] = b[2] /\ a[3] = b[3] /\ a[4] < b[4]
           \/ a[1] = b[1] /\ a[2] = b[2] /\ a[3] = b[3] /\ a[4] = b[4] /\ a[5] < b[5]
    PROVE  Lower(a, b)
<1>1. CASE a[1] < b[1]
  BY <1>1 DEF Lower
<1>2. CASE a[1] = b[1] /\ a[2] < b[2]
  <2>1. \A j \in 1..(2 - 1) : a[j] = b[j]
    BY <1>2
  <2> QED BY <1>2, <2>1 DEF Lower
<1>3. CASE a[1] = b[1] /\ a[2] = b[2] /\ a[3] < b[3]
  <2>1. \A j \in 1..(3 - 1) : a[j] = b[j]
    BY <1>3
  <2> QED BY <1>3, <2>1 DEF Lower
<1>4. CASE a[1] = b[1] /\ a[2] = b[2] /\ a[3] = b[3] /\ a[4] < b[4]
  <2>1. \A j \in 1..(4 - 1) : a[j] = b[j]
    BY <1>4
  <2> QED BY <1>4, <2>1 DEF Lower
<1>5. CASE a[1] = b[1] /\ a[2] = b[2] /\ a[3] = b[3] /\ a[4] = b[4] /\ a[5] < b[5]
  <2>1. \A j \in 1..(5 - 1) : a[j] = b[j]
    BY <1>5
  <2> QED BY <1>5, <2>1 DEF Lower
<1> QED BY <1>1, <1>2, <1>3, <1>4, <1>5

\* Every step of a call uses up an attempt, or gets to a later stage, or enters a
\* directory, looks at a file, or leaves the directory for the next one.
LEMMA ProgressCounts ==
    ASSUME TypeOK, Provenance, FreshTries, NEW t \in Tasks, pc[t] # "idle", Progress(t),
           pc'[t] # "idle"
    PROVE  \/ tries'[t] = tries[t] + 1
           \/ tries'[t] = tries[t] /\ Ahead[pc'[t]] < Ahead[pc[t]]
           \/ /\ tries'[t] = tries[t] /\ pc[t] = "prune_dir" /\ pc'[t] = "prune_file"
              /\ \E e \in dirs[t] : dirs'[t] = dirs[t] \ {e}
           \/ /\ tries'[t] = tries[t] /\ pc'[t] = pc[t] /\ dirs'[t] = dirs[t]
              /\ \E n \in names[t] : names'[t] = names[t] \ {n}
           \/ /\ tries'[t] = tries[t] /\ pc[t] = "prune_unlink" /\ pc'[t] = "prune_file"
              /\ dirs'[t] = dirs[t] /\ \E n \in names[t] : names'[t] = names[t] \ {n}
           \/ /\ tries'[t] = tries[t] /\ pc[t] = "prune_file"
              /\ pc'[t] \in {"prune_dir", "prune_unlink"}
              /\ dirs'[t] = dirs[t] /\ names'[t] = names[t]
<1>1. ASSUME NEW to, pc' = [pc EXCEPT ![t] = to]
      PROVE  pc'[t] = to
  BY <1>1 DEF TypeOK
<1>2. ASSUME NEW kind, NEW v
      PROVE  ~Finish(t, kind, v)
  BY <1>1 DEF Finish
<1>3. CASE Suspended(t)
  <2>1. ASSUME NEW o \in Outcomes, Answer(t, o)
        PROVE  tries'[t] = tries[t] /\ Ahead[pc'[t]] < Ahead[pc[t]]
    <3>1. pc'[t] = o /\ pc[t] = "sent" /\ tries' = tries
      BY <1>1, <2>1 DEF Answer
    <3>2. o \in {"ok", "retryable", "client_error", "malformed"}
      BY ConstantsAssumption
    <3> QED BY <3>1, <3>2 DEF Ahead
  <2>2. CASE Retry(t)
    BY <2>2 DEF Retry, TypeOK
  <2>3. CASE GiveUp(t) \/ Resume(t)
    BY <1>1, <2>3 DEF GiveUp, Resume, locals, Ahead
  <2>4. ~Surface(t)
    BY <1>2 DEF Surface, Raise
  <2> QED BY <1>3, <2>1, <2>2, <2>3, <2>4 DEF Suspended
<1>4. CASE Reading(t)
  <2>1. CASE ReadCacheHit(t) \/ ReadCacheCorrupt(t)
    <3>1. pc[t] = "read" => tries[t] = 0
      BY DEF FreshTries
    <3> QED BY <1>1, <2>1, <3>1 DEF ReadCacheHit, ReadCacheCorrupt, Step, Ahead, TypeOK
  <2>2. CASE FallbackLatest(t) \/ FallbackMiss(t) \/ ListSnapshots(t)
    BY <1>1, <2>2 DEF FallbackLatest, FallbackMiss, ListSnapshots, Step, Ahead, locals
  <2>3. ASSUME NEW n \in Endpoints \X Time,
               ReadSnapshot(t, n) \/ SkipSnapshot(t, n) \/ SnapshotCrashesWalk(t, n)
        PROVE  \/ tries'[t] = tries[t] /\ Ahead[pc'[t]] < Ahead[pc[t]]
               \/ /\ tries'[t] = tries[t] /\ pc'[t] = pc[t] /\ dirs'[t] = dirs[t]
                  /\ \E m \in names[t] : names'[t] = names[t] \ {m}
    <3>1. CASE ReadSnapshot(t, n)
      <4>1. tries'[t] = tries[t] /\ pc[t] = "walk" /\ pc'[t] = "project"
        BY <1>1, <3>1 DEF ReadSnapshot, Step
      <4> QED BY <4>1 DEF Ahead
    <3>2. CASE SkipSnapshot(t, n)
      <4>1. /\ tries'[t] = tries[t] /\ pc'[t] = pc[t] /\ dirs'[t] = dirs[t]
            /\ n \in names[t] /\ names'[t] = names[t] \ {n}
        BY <1>1, <3>2 DEF SkipSnapshot, Newest, Step, TypeOK
      <4> QED BY <4>1
    <3>3. ~SnapshotCrashesWalk(t, n)
      BY <1>2 DEF SnapshotCrashesWalk, Raise
    <3> QED BY <2>3, <3>1, <3>2, <3>3
  <2>4. ~Unavailable(t)
    BY <1>2 DEF Unavailable, Raise
  <2> QED BY <1>4, <2>1, <2>2, <2>3, <2>4 DEF Reading
<1>5. CASE Storing(t)
  <2>1. CASE OpenTmp(t) \/ WriteTmp(t) \/ Replace(t)
    BY <1>1, <2>1 DEF OpenTmp, WriteTmp, Replace, Step, Ahead
  <2>2. CASE OpenSnapshot(t) \/ WriteSnapshot(t) \/ PruneStart(t)
    BY <1>1, <2>2 DEF OpenSnapshot, WriteSnapshot, PruneStart, Step, Ahead, locals
  <2>3. CASE PruneNext(t)
    BY <1>1, <2>3 DEF PruneNext, Step, Ahead, locals
  <2>4. ASSUME NEW e \in Endpoints, PruneDir(t, e)
        PROVE  /\ tries'[t] = tries[t] /\ pc[t] = "prune_dir" /\ pc'[t] = "prune_file"
               /\ e \in dirs[t] /\ dirs'[t] = dirs[t] \ {e}
    BY <1>1, <2>4 DEF PruneDir, Step, TypeOK
  <2>5. ASSUME NEW n \in Endpoints \X Time, PruneFile(t, n)
        PROVE  /\ tries'[t] = tries[t] /\ dirs'[t] = dirs[t] /\ n \in names[t]
               /\ pc[t] = "prune_file"
               /\ \/ pc'[t] = "prune_file" /\ names'[t] = names[t] \ {n}
                  \/ pc'[t] = "prune_unlink" /\ names'[t] = names[t]
    BY <1>1, <2>5 DEF PruneFile, Step, TypeOK
  <2>7. ASSUME NEW n \in Endpoints \X Time, Unlink(t, n)
        PROVE  /\ tries'[t] = tries[t] /\ dirs'[t] = dirs[t] /\ n \in names[t]
               /\ pc[t] = "prune_unlink" /\ pc'[t] = "prune_file"
               /\ names'[t] = names[t] \ {n}
    <3>1. n \in names[t]
      BY <2>7 DEF Unlink, Provenance, Dooms
    <3> QED BY <1>1, <2>7, <3>1 DEF Unlink, Step, TypeOK
  <2>6. ~ReplaceFails(t) /\ ~DiskError(t) /\ \A n \in Endpoints \X Time : ~PruneFails(t, n)
    BY <1>2 DEF ReplaceFails, DiskError, PruneFails, Raise
  <2> QED BY <1>5, <2>1, <2>2, <2>3, <2>4, <2>5, <2>6, <2>7 DEF Storing
<1>6. ~Returning(t)
  BY <1>2 DEF Returning, Serve, ProjectionFails, Raise
<1> QED BY <1>3, <1>4, <1>5, <1>6 DEF Progress

LEMMA ProgressLowers ==
    ASSUME TypeOK, TypeOK', Provenance, FreshTries, NEW t \in Tasks, pc[t] # "idle",
           Progress(t), pc'[t] # "idle"
    PROVE  Lower(Countdown(t)', Countdown(t))
<1> DEFINE Left == Attempts - tries[t]
           Dirs == Cardinality(dirs[t])
           Names == Cardinality(names[t])
           Last == IF pc[t] = "prune_file" THEN 1 ELSE 0
<1>1. /\ Left \in Nat /\ Ahead[pc[t]] \in Nat /\ Dirs \in Nat /\ Names \in Nat /\ Last \in Nat
  BY CountdownType, LoopsAreFinite
<1>2. /\ Left' \in Nat /\ Ahead[pc'[t]] \in Nat /\ Dirs' \in Nat /\ Names' \in Nat
      /\ Last' \in Nat
  <2>1. Left' \in Nat
    BY ConstantsAssumption DEF TypeOK
  <2>2. Ahead[pc'[t]] \in Nat
    BY DEF TypeOK, Control, Ahead
  <2>3. Dirs' \in Nat /\ Names' \in Nat
    <3>1. TypeOK => IsFiniteSet(dirs[t]) /\ Dirs \in Nat /\ IsFiniteSet(names[t]) /\ Names \in Nat
      BY LoopsAreFinite
    <3>2. (TypeOK => IsFiniteSet(dirs[t]) /\ Dirs \in Nat /\ IsFiniteSet(names[t]) /\ Names \in Nat)'
      BY <3>1, LoopsAreFinite, PTL
    <3> QED BY <3>2
  <2> QED BY <2>1, <2>2, <2>3
<1>3. \/ Left' < Left
      \/ Left' = Left /\ Ahead[pc'[t]] < Ahead[pc[t]]
      \/ Left' = Left /\ Ahead[pc'[t]] = Ahead[pc[t]] /\ Dirs' < Dirs
      \/ Left' = Left /\ Ahead[pc'[t]] = Ahead[pc[t]] /\ Dirs' = Dirs /\ Names' < Names
      \/ /\ Left' = Left /\ Ahead[pc'[t]] = Ahead[pc[t]] /\ Dirs' = Dirs /\ Names' = Names
         /\ Last' < Last
  <2>1. CASE tries'[t] = tries[t] + 1
    BY <2>1, ConstantsAssumption DEF TypeOK
  <2>2. CASE tries'[t] = tries[t] /\ Ahead[pc'[t]] < Ahead[pc[t]]
    BY <2>2
  <2>3. CASE /\ tries'[t] = tries[t] /\ pc[t] = "prune_dir" /\ pc'[t] = "prune_file"
             /\ \E e \in dirs[t] : dirs'[t] = dirs[t] \ {e}
    <3>1. Dirs' = Dirs - 1
      BY <2>3, LoopsAreFinite, FS_RemoveElement
    <3> QED BY <1>1, <2>3, <3>1 DEF Ahead
  <2>4. CASE /\ tries'[t] = tries[t] /\ pc'[t] = pc[t] /\ dirs'[t] = dirs[t]
             /\ \E n \in names[t] : names'[t] = names[t] \ {n}
    <3>1. Names' = Names - 1
      BY <2>4, LoopsAreFinite, FS_RemoveElement
    <3> QED BY <1>1, <2>4, <3>1
  <2>5. CASE /\ tries'[t] = tries[t] /\ pc[t] = "prune_file"
             /\ pc'[t] \in {"prune_dir", "prune_unlink"}
             /\ dirs'[t] = dirs[t] /\ names'[t] = names[t]
    BY <2>5 DEF Ahead
  <2>6. CASE /\ tries'[t] = tries[t] /\ pc[t] = "prune_unlink" /\ pc'[t] = "prune_file"
             /\ dirs'[t] = dirs[t] /\ \E n \in names[t] : names'[t] = names[t] \ {n}
    <3>1. Names' = Names - 1
      BY <2>6, LoopsAreFinite, FS_RemoveElement
    <3>2. Ahead["prune_unlink"] = Ahead["prune_file"]
      BY DEF Ahead
    <3> QED BY <1>1, <2>6, <3>1, <3>2
  <2> QED BY <2>1, <2>2, <2>3, <2>4, <2>5, <2>6, ProgressCounts
<1>4. /\ Countdown(t) = <<Left, Ahead[pc[t]], Dirs, Names, Last>>
      /\ Countdown(t)' = <<Left', Ahead[pc'[t]], Dirs', Names', Last'>>
  BY DEF Countdown
<1>5. /\ Countdown(t)[1] = Left /\ Countdown(t)[2] = Ahead[pc[t]] /\ Countdown(t)[3] = Dirs
      /\ Countdown(t)[4] = Names /\ Countdown(t)[5] = Last
  BY <1>4
<1>6. /\ Countdown(t)'[1] = Left' /\ Countdown(t)'[2] = Ahead[pc'[t]] /\ Countdown(t)'[3] = Dirs'
      /\ Countdown(t)'[4] = Names' /\ Countdown(t)'[5] = Last'
  BY <1>4
<1> HIDE DEF Left, Dirs, Names, Last
<1> QED BY <1>3, <1>5, <1>6, LowerAt

\* Whatever another task or the environment does, a call keeps its countdown.
LEMMA OthersKeepCountdown ==
    ASSUME TypeOK, [Next]_vars, NEW t \in Tasks, pc[t] # "idle", ~Progress(t),
           pc'[t] # "idle"
    PROVE  Countdown(t)' = Countdown(t)
<1>1. CASE pc'[t] = pc[t] /\ tries'[t] = tries[t] /\ dirs'[t] = dirs[t] /\ names'[t] = names[t]
  BY <1>1 DEF Countdown
<1>2. CASE UNCHANGED vars
  BY <1>1, <1>2 DEF vars, locals
<1>3. CASE Environment
  <2>1. ASSUME NEW p \in Procs, Crash(p)
        PROVE  Countdown(t)' = Countdown(t)
    BY <1>1, <2>1 DEF Crash, Forget
  <2> QED BY <1>1, <1>3, <2>1 DEF Environment, Tick, Publish, Tamper, locals
<1>4. ASSUME NEW u \in Tasks, TaskStep(u)
      PROVE  Countdown(t)' = Countdown(t)
  <2>1. ~Cancel(t)
    BY DEF Cancel, Raise, Finish, TypeOK
  <2>2. u # t
    BY <1>4, <2>1 DEF TaskStep, Call
  <2> QED BY <1>1, <1>4, <2>2, TaskKeepsOthers, OthersKeepCounts DEF OthersKeep
<1> QED BY <1>2, <1>3, <1>4 DEF Next, TaskStep

\* With any number of processes, whatever they write, delete and prune at the same
\* time: no loop of a call goes round without coming nearer to its end.
THEOREM EveryStepCountsDown == Spec => CallsCountDown
<1>1. ASSUME TypeOK, TypeOK', Provenance, FreshTries, [Next]_vars
      PROVE  [\A t \in Tasks :
                pc[t] # "idle" =>
                    \/ pc'[t] = "idle"
                    \/ Progress(t) /\ Lower(Countdown(t)', Countdown(t))
                    \/ ~Progress(t) /\ Countdown(t)' = Countdown(t)]_vars
  BY <1>1, ProgressLowers, OthersKeepCountdown
<1> QED BY <1>1, FreshTriesAlways, TypeAndProvenance, PTL DEF CallsCountDown, Spec

\* ... and it cannot count down for ever: its countdown is five natural numbers,
\* and their lexicographic order is well-founded.
THEOREM CountdownsEnd ==
    /\ Spec => [](\A t \in Tasks : Countdown(t) \in [1..5 -> Nat])
    /\ ~\E f \in [Nat -> [1..5 -> Nat]] : \A n \in Nat : Lower(f[n + 1], f[n])
<1>1. TypeOK => \A t \in Tasks : Countdown(t) \in [1..5 -> Nat]
  BY CountdownType
<1>2. Spec => [](\A t \in Tasks : Countdown(t) \in [1..5 -> Nat])
  BY <1>1, TypeAndProvenance, PTL
<1>3. ASSUME NEW f \in [Nat -> [1..5 -> Nat]], \A n \in Nat : Lower(f[n + 1], f[n])
      PROVE  FALSE
  <2> DEFINE R == OpToRel(<, Nat)
  <2>1. IsWellFoundedOn(LexProductOrdering(R, Nat, 5), [1..5 -> Nat])
    BY NatLessThanWellFounded, WFLexProductOrdering
  <2>2. \A i, j \in Nat : i < j => <<i, j>> \in R
    BY DEF OpToRel
  <2> HIDE DEF R
  <2>3. ASSUME NEW n \in Nat
        PROVE  <<f[n + 1], f[n]>> \in LexProductOrdering(R, Nat, 5)
    <3>1. f[n + 1] \in [1..5 -> Nat] /\ f[n] \in [1..5 -> Nat]
      OBVIOUS
    <3>2. PICK i \in 1..5 : f[n + 1][i] < f[n][i] /\ \A j \in 1..(i - 1) : f[n + 1][j] = f[n][j]
      BY <1>3 DEF Lower
    <3>3. <<f[n + 1][i], f[n][i]>> \in R
      BY <2>2, <3>1, <3>2
    <3> QED BY <3>1, <3>2, <3>3 DEF LexProductOrdering
  <2> QED BY <2>1, <2>3 DEF IsWellFoundedOn
<1> QED BY <1>2, <1>3

-----------------------------------------------------------------------------
(* Refinement: the register is latest.json, a call is busy unless idle.     *)

Busy == {t \in Tasks : pc[t] # "idle"}
Store == [e \in Endpoints |-> latest[e].body]

Untampered == tampered = {}

LEMMA InitImplements == Init => Contract!Init
  BY DEF Init, Contract!Init, Contract!Reply, NoFile, NoResult, NoPayload, Absent

LEMMA Stutters ==
    ASSUME UNCHANGED <<ver, latest, ep, res>>,
           \A t \in Tasks : pc'[t] = "idle" <=> pc[t] = "idle"
    PROVE  UNCHANGED Contract!vars
  BY DEF Contract!vars

\* A call that ends by itself: Deliver, Unavailable or Fail.
LEMMA EndImplements ==
    ASSUME TypeOK, NEW t \in Tasks, NEW kind, NEW v, Finish(t, kind, v), pc[t] # "idle",
           UNCHANGED <<ver, latest>>
    PROVE  Contract!End(t, Contract!Reply(kind, v))
<1>1. Busy' = Busy \ {t}
  BY DEF Finish, Busy, TypeOK
<1> QED BY <1>1 DEF Contract!End, Contract!Reply, Finish, Forget, Busy

LEMMA FailImplements ==
    ASSUME TypeOK, NEW t \in Tasks, NEW kind \in Contract!Failure, Raise(t, kind),
           pc[t] # "idle", UNCHANGED <<ver, latest>>
    PROVE  Contract!Fail(t)
  BY EndImplements DEF Raise, NoPayload, Contract!Fail

LEMMA SuspendedImplements ==
    ASSUME TypeOK, NEW t \in Tasks, Suspended(t) \/ Cancel(t)
    PROVE  Contract!Fail(t) \/ UNCHANGED Contract!vars
<1>1. CASE Surface(t)
  BY <1>1, FailImplements DEF Surface, Contract!Failure, env, disk
<1>2. CASE Cancel(t)
  <2>1. pc[t] # "idle"
    BY <1>2, ConstantsAssumption DEF Cancel
  <2> QED BY <1>2, <2>1, FailImplements DEF Cancel, Contract!Failure, env, disk
<1>3. CASE (\E o \in Outcomes : Answer(t, o)) \/ Retry(t) \/ GiveUp(t) \/ Resume(t)
  <2>1. \A u \in Tasks : pc'[u] = "idle" <=> pc[u] = "idle"
    BY <1>3, ConstantsAssumption DEF Answer, Retry, GiveUp, Resume, TypeOK
  <2> QED BY <1>3, <2>1, Stutters
          DEF Answer, Retry, GiveUp, Resume, env, disk, locals
<1> QED BY <1>1, <1>2, <1>3 DEF Suspended

LEMMA ReadingImplements ==
    ASSUME TypeOK, Provenance, LoneProcess, Untampered, NEW t \in Tasks, Reading(t)
    PROVE  Contract!Unavailable(t) \/ UNCHANGED Contract!vars
<1>1. CASE Unavailable(t)
  <2>1. Store[ep[t]] = 0
    BY <1>1 DEF Unavailable, LoneProcess, LoneTask, FallsBackWhenEmpty, Untampered, Store,
       Absent, TypeOK
  <2> QED BY <1>1, <2>1, EndImplements
          DEF Unavailable, Raise, NoPayload, Contract!Unavailable, env, disk, Store
<1>2. CASE \/ ReadCacheHit(t) \/ ReadCacheCorrupt(t) \/ FallbackLatest(t)
           \/ FallbackMiss(t) \/ ListSnapshots(t)
           \/ \E n \in Endpoints \X Time : ReadSnapshot(t, n) \/ SkipSnapshot(t, n)
  <2>1. \A u \in Tasks : pc'[u] = "idle" <=> pc[u] = "idle"
    BY <1>2 DEF ReadCacheHit, ReadCacheCorrupt, FallbackLatest, FallbackMiss,
       ListSnapshots, ReadSnapshot, SkipSnapshot, Step, TypeOK
  <2> QED BY <1>2, <2>1, Stutters
          DEF ReadCacheHit, ReadCacheCorrupt, FallbackLatest, FallbackMiss,
              ListSnapshots, ReadSnapshot, SkipSnapshot, env, disk, locals
<1> QED BY <1>1, <1>2, NoRace DEF Reading

LEMMA StoringImplements ==
    ASSUME TypeOK, Provenance, LoneProcess, NEW t \in Tasks, Storing(t)
    PROVE  \/ Contract!Refresh(t) \/ Contract!Fail(t) \/ UNCHANGED Contract!vars
<1>0. LoneTask(t)
  BY DEF LoneProcess
<1>1. CASE Replace(t)
  <2>1. tmp[ep[t]].body = payload[t] /\ payload[t] \in Version /\ payload[t] <= ver[ep[t]]
    BY <1>0, <1>1 DEF Replace, Step, LoneTask, OwnsTmp, Provenance, HasPayload, Storer,
       HeldIsPublished
  <2>2. payload[t] \in 1..ver[ep[t]]
    BY <2>1, ConstantsAssumption DEF TypeOK, Version
  <2>3. Store' = [Store EXCEPT ![ep[t]] = payload[t]]
    BY <1>1, <2>1 DEF Replace, Store, TypeOK
  <2>4. Busy' = Busy /\ t \in Busy
    BY <1>1 DEF Replace, Step, Busy, TypeOK
  <2> QED BY <1>1, <2>2, <2>3, <2>4 DEF Contract!Refresh, Replace, Store, Busy, env
<1>2. CASE DiskError(t)
  BY <1>2, FailImplements DEF DiskError, Contract!Failure, env, disk
<1>3. CASE WriteTmp(t)
  <2>1. UNCHANGED <<ver, latest, ep, res>>
    BY <1>0, <1>3 DEF WriteTmp, Step, LoneTask, OwnsTmp, env
  <2>2. \A u \in Tasks : pc'[u] = "idle" <=> pc[u] = "idle"
    BY <1>3 DEF WriteTmp, Step, TypeOK
  <2> QED BY <2>1, <2>2, Stutters
<1>4. CASE \/ OpenTmp(t) \/ OpenSnapshot(t) \/ WriteSnapshot(t)
           \/ PruneStart(t) \/ PruneNext(t) \/ \E e \in Endpoints : PruneDir(t, e)
           \/ \E n \in Endpoints \X Time : PruneFile(t, n) \/ Unlink(t, n)
  <2>1. \A u \in Tasks : pc'[u] = "idle" <=> pc[u] = "idle"
    BY <1>4 DEF OpenTmp, OpenSnapshot, WriteSnapshot, PruneStart, PruneNext,
       PruneDir, PruneFile, Unlink, Step, TypeOK
  <2> QED BY <1>4, <2>1, Stutters
          DEF OpenTmp, OpenSnapshot, WriteSnapshot, PruneStart, PruneNext,
              PruneDir, PruneFile, Unlink, env, disk, locals
<1> QED BY <1>1, <1>2, <1>3, <1>4, NoRace DEF Storing

LEMMA ReturningImplements ==
    ASSUME TypeOK, Provenance, LoneProcess, Untampered, NEW t \in Tasks, Returning(t)
    PROVE  Contract!Deliver(t) \/ Contract!Fail(t)
<1>1. CASE Serve(t)
  <2>1. payload[t] = latest[ep[t]].body /\ payload[t] \in Version
    BY <1>1 DEF Serve, LoneProcess, LoneTask, HeldIsStored, Stored, Untampered, Provenance,
       HasPayload, Storer
  <2>2. payload[t] # 0
    BY <2>1, ConstantsAssumption DEF Version
  <2>3. Store[ep[t]] = payload[t]
    BY <2>1 DEF Store, TypeOK
  <2>4. PICK v : v = payload[t]
    OBVIOUS
  <2>5. Finish(t, "served", v) /\ pc[t] # "idle" /\ UNCHANGED <<ver, latest>>
    BY <1>1, <2>4 DEF Serve, Finish, env, disk
  <2>6. Contract!End(t, Contract!Reply("served", v))
    BY <2>5, EndImplements
  <2> QED BY <2>2, <2>3, <2>4, <2>6 DEF Contract!Deliver, Contract!End, Contract!Reply, Store
<1>2. CASE ProjectionFails(t)
  <2>1. pc[t] # "idle"
    BY <1>2 DEF ProjectionFails
  <2> QED BY <1>2, <2>1, FailImplements DEF ProjectionFails, Contract!Failure, env, disk
<1> QED BY <1>1, <1>2 DEF Returning

LEMMA CallImplements ==
    ASSUME TypeOK, NEW t \in Tasks, NEW e \in Endpoints, Call(t, e)
    PROVE  Contract!Begin(t, e)
<1>1. pc' = [pc EXCEPT ![t] = "read"] \/ pc' = [pc EXCEPT ![t] = "sent"]
  BY DEF Call
<1>2. Busy' = Busy \cup {t}
  BY <1>1 DEF Busy, TypeOK
<1> QED BY <1>2 DEF Contract!Begin, Contract!Reply, Call, Busy, NoResult, NoPayload, env, disk

LEMMA EnvironmentImplements ==
    ASSUME TypeOK, ~Tampering, Environment
    PROVE  \/ \E T \in SUBSET Tasks : Contract!Crash(T)
           \/ \E e \in Endpoints : Contract!Publish(e)
           \/ UNCHANGED Contract!vars
<1>1. CASE Tick
  BY <1>1 DEF Tick, disk, locals, Contract!vars
<1>2. ASSUME NEW e \in Endpoints, Publish(e)
      PROVE  Contract!Publish(e)
  BY <1>2 DEF Publish, Contract!Publish, disk, locals
<1>3. ASSUME NEW p \in Procs, Crash(p)
      PROVE  \E T \in SUBSET Tasks : Contract!Crash(T)
  <2> DEFINE T == {t \in Tasks : ProcOf[t] = p /\ pc[t] # "idle"}
  <2>1. T # {} /\ T \subseteq Busy /\ Busy' = Busy \ T
    BY <1>3 DEF Crash, Busy
  <2>2. res' = [t \in Tasks |-> IF t \in T THEN Contract!Reply("crashed", 0) ELSE res[t]]
    BY <1>3 DEF Crash, Contract!Reply, NoPayload
  <2>3. UNCHANGED <<ver, latest, ep>>
    BY <1>3 DEF Crash, Forget, env, disk
  <2> HIDE DEF T
  <2>4. Contract!Crash(T)
    BY <2>1, <2>2, <2>3 DEF Contract!Crash, Busy
  <2>5. T \in SUBSET Tasks
    BY DEF T
  <2> QED BY <2>4, <2>5 DEF Contract!Crash
<1> QED BY <1>1, <1>2, <1>3 DEF Environment, Tamper

LEMMA StepImplements ==
    ASSUME TypeOK, Provenance, LoneProcess, Untampered, ~Tampering, [Next]_vars
    PROVE  [Contract!Next]_(Contract!vars)
<1>1. CASE UNCHANGED vars
  BY <1>1, Stutters DEF vars, env, disk, locals
<1>2. CASE Environment
  BY <1>2, EnvironmentImplements DEF Contract!Next
<1>3. ASSUME NEW t \in Tasks, TaskStep(t)
      PROVE  [Contract!Next]_(Contract!vars)
  BY <1>3, SuspendedImplements, ReadingImplements, StoringImplements, ReturningImplements,
     CallImplements
  DEF TaskStep, Progress, Contract!Next
<1> QED BY <1>1, <1>2, <1>3 DEF Next, TaskStep

LEMMA UntamperedAlways ==
    ASSUME ~Tampering
    PROVE  Spec => []Untampered
<1>1. Init => Untampered
  BY DEF Init, Untampered
<1>2. ASSUME Untampered, [Next]_vars
      PROVE  Untampered'
  <2> USE <1>2 DEF Untampered
  <2>1. CASE UNCHANGED tampered
    BY <2>1
  <2>2. CASE \E t \in Tasks : Progress(t) \/ Cancel(t) \/ \E e \in Endpoints : Call(t, e)
    <3> USE DEF env, Step
    <3>1. PICK t \in Tasks : Progress(t) \/ Cancel(t) \/ \E e \in Endpoints : Call(t, e)
      BY <2>2
    <3>2. Suspended(t) => UNCHANGED tampered
      BY DEF Suspended, Answer, Retry, GiveUp, Surface, Resume
    <3>3. Reading(t) => UNCHANGED tampered
      BY DEF Reading, ReadCacheHit, ReadCacheCorrupt, FallbackLatest, FallbackMiss,
         ListSnapshots, ReadSnapshot, SkipSnapshot, SnapshotCrashesWalk, Unavailable
    <3>4. Storing(t) => UNCHANGED tampered
      BY DEF Storing, OpenTmp, WriteTmp, Replace, ReplaceFails, OpenSnapshot, WriteSnapshot,
         PruneStart, PruneNext, PruneDir, PruneFile, Unlink, PruneFails, DiskError
    <3>5. Returning(t) \/ Cancel(t) \/ (\E e \in Endpoints : Call(t, e)) => UNCHANGED tampered
      BY DEF Returning, Serve, ProjectionFails, Cancel, Call
    <3> QED BY <2>1, <3>1, <3>2, <3>3, <3>4, <3>5 DEF Progress
  <2>3. Environment => UNCHANGED tampered
    BY DEF Environment, Tick, Publish, Tamper, Crash, env
  <2> QED BY <1>2, <2>1, <2>2, <2>3 DEF Next, vars, env
<1> QED BY <1>1, <1>2, PTL DEF Spec

\* One server process, whatever its tasks, faults and crashes: the client keeps
\* the contract of LastGoodCache.
THEOREM ClientKeepsContract ==
    SingleProcess /\ ~Tampering => (Spec => ImplementsLastGoodCache)
<1> SUFFICES ASSUME SingleProcess, ~Tampering PROVE Spec => ImplementsLastGoodCache
  OBVIOUS
<1>1. Init => Contract!Init
  BY InitImplements
<1>2. TypeOK /\ Provenance /\ LoneProcess /\ Untampered /\ [Next]_vars
        => [Contract!Next]_(Contract!vars)
  BY StepImplements
<1> QED BY <1>1, <1>2, LoneAlways, UntamperedAlways, PTL
        DEF Spec, ImplementsLastGoodCache, Contract!Spec
=============================================================================
