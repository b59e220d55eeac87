----------------------- MODULE ArtificialAnalysisProofs -----------------------
(***************************************************************************)
(* For every number of processes, TTL and jitter: the types, KnownGoodKept *)
(* and EmptyOnlyIfNeverGood. The last needs an invariant of its own,       *)
(* Remembered: a call that began over a good models.latest.json still has  *)
(* it, so the walk over the snapshots is never reached.                    *)
(***************************************************************************)
EXTENDS ArtificialAnalysis, TLAPS

\* What `had` is worth while a call runs: until something outside damages it,
\* latest.json stays good, and the recovery stops there.
Remembered ==
    \A p \in Procs :
        had[p] /\ ~tampered => latest.body \in ShapeValid /\ pc[p] \notin {"list", "walk"}

IInv == TypeOK /\ KnownGoodKept /\ Remembered

LEMMA InitIInv == Init => IInv
<1>. SUFFICES ASSUME Init  PROVE IInv  OBVIOUS
<1>1. 0 \in Time  BY ParametersAssumption DEF Time
<1>2. TypeOK  BY <1>1 DEF Init, TypeOK, Content, Response, Control, Ending
<1>3. KnownGoodKept /\ Remembered  BY DEF Init, KnownGoodKept, Remembered
<1>. QED  BY <1>2, <1>3 DEF IInv

\* Ending a call puts its process back in a state every conjunct allows.
LEMMA FinishTypes ==
    ASSUME TypeOK, NEW p \in Procs, NEW k \in Ending, Finish(p, k)
    PROVE  /\ pc' \in [Procs -> Control] /\ held' \in [Procs -> Response \cup {"absent"}]
           /\ names' \in [Procs -> SUBSET Time] /\ res' \in [Procs -> Ending]
           /\ had' \in [Procs -> BOOLEAN] /\ ~had'[p]
           /\ \A q \in Procs \ {p} : pc'[q] = pc[q] /\ had'[q] = had[q]
BY DEF TypeOK, Finish, Control

\* A step that leaves the files alone and ends the call of p.
LEMMA FinishKeeps ==
    ASSUME IInv, NEW p \in Procs, NEW k \in Ending, Finish(p, k),
           UNCHANGED <<now, tampered, latest, snaps>>
    PROVE  IInv'
<1>1. TypeOK'  BY FinishTypes DEF IInv, TypeOK
<1>2. KnownGoodKept'  BY DEF IInv, KnownGoodKept
<1>3. Remembered'  BY FinishTypes DEF IInv, Remembered
<1>. QED  BY <1>1, <1>2, <1>3 DEF IInv

\* `Recovered` is such a step, or hands a good payload to the projection.
LEMMA RecoveredKeeps ==
    ASSUME IInv, NEW p \in Procs, NEW c \in Response, Recovered(p, c),
           UNCHANGED <<now, tampered, latest, snaps>>
    PROVE  IInv'
<1>1. CASE c \notin ShapeValid
  <2>. Finish(p, "empty")  BY <1>1 DEF Recovered
  <2>. QED  BY FinishKeeps DEF Ending
<1>2. CASE c \in ShapeValid
  <2>. USE <1>2 DEF Recovered
  <2>1. TypeOK'  BY DEF IInv, TypeOK, Control
  <2>2. KnownGoodKept'  BY DEF IInv, KnownGoodKept
  <2>3. Remembered'  BY DEF IInv, Remembered, TypeOK
  <2>. QED  BY <2>1, <2>2, <2>3 DEF IInv
<1>. QED  BY <1>1, <1>2

LEMMA FetchingKeeps ==
    ASSUME IInv, NEW p \in Procs, Fetching(p)
    PROVE  IInv'
<1>. USE DEF IInv, call, Goto
<1>1. CASE GetModels(p)
  <2>1. TypeOK'  BY <1>1 DEF GetModels, TypeOK, Control, Ending
  <2>2. KnownGoodKept'  BY <1>1 DEF GetModels, KnownGoodKept
  <2>3. Remembered'  BY <1>1 DEF GetModels, Remembered, TypeOK
  <2>. QED  BY <2>1, <2>2, <2>3
<1>2. CASE ReadCache(p)
  <2>1. TypeOK'  BY <1>2 DEF ReadCache, TypeOK, Control, ShapeValid, Response
  <2>2. KnownGoodKept'  BY <1>2 DEF ReadCache, KnownGoodKept
  <2>3. Remembered'  BY <1>2 DEF ReadCache, Remembered, TypeOK
  <2>. QED  BY <2>1, <2>2, <2>3
<1>3. CASE ReadCacheGone(p)
  BY <1>3, FinishKeeps DEF ReadCacheGone, Ending
<1>4. CASE \E r \in Response : Answer(p, r)
  <2>1. TypeOK'  BY <1>4 DEF Answer, TypeOK, Control
  <2>2. KnownGoodKept'  BY <1>4 DEF Answer, KnownGoodKept
  <2>3. Remembered'  BY <1>4 DEF Answer, Remembered, TypeOK
  <2>. QED  BY <2>1, <2>2, <2>3
<1>5. CASE RequestFails(p)
  <2>1. TypeOK'  BY <1>5 DEF RequestFails, TypeOK, Control
  <2>2. KnownGoodKept'  BY <1>5 DEF RequestFails, KnownGoodKept
  <2>3. Remembered'  BY <1>5 DEF RequestFails, Remembered, TypeOK
  <2>. QED  BY <2>1, <2>2, <2>3
<1>6. CASE WriteSnapshot(p)
  <2>1. TypeOK'  BY <1>6 DEF WriteSnapshot, TypeOK, Control, Content
  <2>2. KnownGoodKept'  BY <1>6 DEF WriteSnapshot, KnownGoodKept
  <2>3. Remembered'  BY <1>6 DEF WriteSnapshot, Remembered, TypeOK
  <2>. QED  BY <2>1, <2>2, <2>3
<1>7. CASE Promote(p)
  <2>1. TypeOK'
    <3>1. held[p] \in Content /\ now \in Time  BY DEF TypeOK, Content
    <3>. QED  BY <1>7, <3>1 DEF Promote, TypeOK, Control
  <2>2. latest'.body \in ShapeValid  BY <1>7 DEF Promote
  <2>3. KnownGoodKept'  BY <2>2 DEF KnownGoodKept
  <2>4. Remembered'  BY <1>7, <2>2 DEF Promote, Remembered, TypeOK
  <2>. QED  BY <2>1, <2>3, <2>4
<1>8. CASE Reject(p)
  <2>1. TypeOK'  BY <1>8 DEF Reject, TypeOK, Control
  <2>2. KnownGoodKept'  BY <1>8 DEF Reject, KnownGoodKept
  <2>3. Remembered'  BY <1>8 DEF Reject, Remembered, TypeOK
  <2>. QED  BY <2>1, <2>2, <2>3
<1>9. CASE DiskError(p)
  BY <1>9, FinishKeeps DEF DiskError, Ending
<1>. QED
  BY <1>1, <1>2, <1>3, <1>4, <1>5, <1>6, <1>7, <1>8, <1>9 DEF Fetching

LEMMA RecoveringKeeps ==
    ASSUME IInv, NEW p \in Procs, Recovering(p)
    PROVE  IInv'
<1>. USE DEF IInv, call, Goto
<1>1. CASE RecoverLatest(p)
  BY <1>1, RecoveredKeeps DEF RecoverLatest
<1>2. CASE RecoverMiss(p)
  <2>1. TypeOK'  BY <1>2 DEF RecoverMiss, TypeOK, Control
  <2>2. KnownGoodKept'  BY <1>2 DEF RecoverMiss, KnownGoodKept
  <2>3. Remembered'
    BY <1>2 DEF RecoverMiss, Remembered, TypeOK, Response, ShapeValid
  <2>. QED  BY <2>1, <2>2, <2>3
<1>3. CASE ListSnapshots(p)
  <2>1. TypeOK'  BY <1>3 DEF ListSnapshots, TypeOK, Control
  <2>2. KnownGoodKept'  BY <1>3 DEF ListSnapshots, KnownGoodKept
  <2>3. Remembered'  BY <1>3 DEF ListSnapshots, Remembered, TypeOK
  <2>. QED  BY <2>1, <2>2, <2>3
<1>4. CASE NothingRecovered(p)
  BY <1>4, FinishKeeps DEF NothingRecovered, Ending
<1>5. ASSUME NEW s \in Time, RecoverSnapshot(p, s)  PROVE IInv'
  BY <1>5, RecoveredKeeps DEF RecoverSnapshot
<1>6. ASSUME NEW s \in Time, SkipSnapshot(p, s)  PROVE IInv'
  <2>1. TypeOK'  BY <1>6 DEF SkipSnapshot, TypeOK, Control
  <2>2. KnownGoodKept'  BY <1>6 DEF SkipSnapshot, KnownGoodKept
  <2>3. Remembered'  BY <1>6 DEF SkipSnapshot, Remembered, TypeOK
  <2>. QED  BY <2>1, <2>2, <2>3
<1>7. ASSUME NEW s \in Time, SnapshotCrashesWalk(p, s)  PROVE IInv'
  BY <1>7, FinishKeeps DEF SnapshotCrashesWalk, Ending
<1>8. CASE Project(p)
  BY <1>8, FinishKeeps DEF Project, Ending
<1>. QED
  BY <1>1, <1>2, <1>3, <1>4, <1>5, <1>6, <1>7, <1>8 DEF Recovering

LEMMA TamperKeeps == ASSUME IInv, Tamper  PROVE IInv'
<1>. PICK c \in {"absent", "garbled", "cut"} :
       \/ /\ latest.body # "absent"
          /\ latest' = [latest EXCEPT !.body = c] /\ tampered' = TRUE
          /\ UNCHANGED snaps
       \/ /\ \E s \in Time : snaps[s] # "absent" /\ snaps' = [snaps EXCEPT ![s] = c]
          /\ UNCHANGED <<latest, tampered>>
  BY DEF Tamper
<1>. USE DEF IInv, Tamper, call
<1>1. TypeOK'  BY DEF TypeOK, Content
<1>2. KnownGoodKept'  BY DEF KnownGoodKept
<1>3. Remembered'  BY DEF Remembered
<1>. QED  BY <1>1, <1>2, <1>3

LEMMA NextKeeps == IInv /\ [Next]_vars => IInv'
<1>. SUFFICES ASSUME IInv, [Next]_vars  PROVE IInv'  OBVIOUS
<1>1. ASSUME NEW p \in Procs, Fetching(p)  PROVE IInv'  BY <1>1, FetchingKeeps
<1>2. ASSUME NEW p \in Procs, Recovering(p)  PROVE IInv'  BY <1>2, RecoveringKeeps
<1>3. ASSUME NEW p \in Procs, Crash(p)  PROVE IInv'
  BY <1>3, FinishKeeps DEF Crash, Ending
<1>4. CASE Tick
  <2>1. now' \in Time  BY <1>4, ParametersAssumption DEF Tick, IInv, TypeOK, Time
  <2>2. TypeOK'  BY <1>4, <2>1 DEF Tick, IInv, TypeOK, call
  <2>. QED  BY <1>4, <2>2 DEF Tick, IInv, KnownGoodKept, Remembered, call
<1>5. CASE Tamper  BY <1>5, TamperKeeps
<1>6. CASE UNCHANGED vars
  BY <1>6 DEF vars, call, IInv, TypeOK, KnownGoodKept, Remembered
<1>. QED  BY <1>1, <1>2, <1>3, <1>4, <1>5, <1>6 DEF Next

LEMMA Invariance == Spec => []IInv
<1>. QED  BY InitIInv, NextKeeps, PTL DEF Spec

\* Every variable of the client keeps to its type: what is held and served was
\* an answer or a snapshot that decoded (client.py:379-443).
THEOREM TypeCorrect == Spec => []TypeOK
<1>1. IInv => TypeOK  BY DEF IInv
<1>. QED  BY <1>1, Invariance, PTL

\* models.latest.json is never anything but a response with a `data` list,
\* however many processes promote, race or crash, unless something outside
\* damages it: the gate of client.py:400-413 is enough.
THEOREM OnlyGoodIsPromoted == Spec => []KnownGoodKept
<1>1. IInv => KnownGoodKept  BY DEF IInv
<1>. QED  BY <1>1, Invariance, PTL

\* No upstream failure turns a good cache into the empty list.
THEOREM FailureNeverEmpties == Spec => EmptyOnlyIfNeverGood
<1>. DEFINE Kept(p) ==
       (pc[p] # "idle" /\ pc'[p] = "idle" /\ res'[p] = "empty") => ~had[p] \/ tampered
<1>1. ASSUME IInv, [Next]_vars, NEW q \in Procs, ~UNCHANGED vars  PROVE Kept(q)
  <2>. SUFFICES ASSUME pc[q] # "idle", pc'[q] = "idle", res'[q] = "empty",
                       had[q], ~tampered
                PROVE  FALSE
    OBVIOUS
  <2>. latest.body \in ShapeValid /\ pc[q] \notin {"list", "walk"}
    BY <1>1 DEF IInv, Remembered
  <2>1. ASSUME NEW p \in Procs, p # q, Fetching(p) \/ Recovering(p) \/ Crash(p)
        PROVE  pc'[q] = pc[q]
    BY <1>1, <2>1 DEF IInv, TypeOK, Fetching, Recovering, Crash, GetModels, ReadCache,
       ReadCacheGone, Answer, RequestFails, WriteSnapshot, Promote, Reject, DiskError,
       RecoverLatest, RecoverMiss, ListSnapshots, RecoverSnapshot, SkipSnapshot,
       SnapshotCrashesWalk, NothingRecovered, Project, Recovered, Finish, Goto
  <2>2. CASE Fetching(q)
    BY <1>1, <2>2 DEF IInv, TypeOK, Fetching, GetModels, ReadCache, ReadCacheGone, Answer,
       RequestFails, WriteSnapshot, Promote, Reject, DiskError, Finish, Goto
  <2>3. CASE Recovering(q)
    BY <1>1, <2>3 DEF IInv, TypeOK, Recovering, RecoverLatest, RecoverMiss, ListSnapshots,
       RecoverSnapshot, SkipSnapshot, SnapshotCrashesWalk, NothingRecovered, Project,
       Recovered, Finish, Goto
  <2>4. CASE Crash(q)  BY <1>1, <2>4 DEF IInv, TypeOK, Crash, Finish
  <2>5. CASE Tick \/ Tamper  BY <2>5 DEF Tick, Tamper
  <2>. QED  BY <1>1, <2>1, <2>2, <2>3, <2>4, <2>5 DEF Next
<1>2. IInv /\ [Next]_vars => [\A p \in Procs : Kept(p)]_vars
  BY <1>1
<1>3. Spec => [][\A p \in Procs : Kept(p)]_vars
  BY <1>2, Invariance, PTL DEF Spec
<1>. QED  BY <1>3 DEF EmptyOnlyIfNeverGood
=============================================================================
