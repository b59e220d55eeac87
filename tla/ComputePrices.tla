---------------------------- MODULE ComputePrices ----------------------------
(***************************************************************************)
(* The ComputePrices client of whatcanirun (pricing/computeprices.py): the *)
(* TTL cache, the retried live fetch, the fallback to the last good data   *)
(* and the 30-day snapshot history, for asyncio tasks of several processes *)
(* that share one cache directory.                                         *)
(*                                                                         *)
(* A task runs from one `await` to the next while it holds its process's   *)
(* event loop (loop[p]); file system calls are synchronous, so tasks of    *)
(* ONE process never interleave between them, tasks of two processes do.   *)
(* A price list is the number of its upstream version: no property tells   *)
(* its rows apart, except whether they pass the row projection (BadRows).  *)
(***************************************************************************)
EXTENDS Integers, FiniteSets

CONSTANTS
    Procs,      \* operating system processes sharing the cache directory
    Tasks,      \* asyncio tasks, each able to make one call at a time
    NoTask,     \* not a task: the running task of an idle event loop
    ProcOf,     \* the process a task runs in
    Endpoints,  \* the upstream paths, each with its own cache files
    TTL,        \* lifetime of <endpoint>.latest.json
    Jitter,     \* the TTL moves by up to this much, drawn at every check
    Retention,  \* age at which a snapshot is pruned
    Attempts,   \* live requests of one call, the first included
    Outcomes,   \* what a live request may come to
    BadRows,    \* versions holding a row that the projection rejects
    DiskFaults, \* whether a file system write may fail (disk full, EACCES)
    Tampering,  \* whether something outside may damage latest.json
    MaxTime,    \* bound on the clock
    MaxVer      \* bound on the number of versions upstream publishes

Time == 0..MaxTime
Version == 1..MaxVer

\* What reading a file by its path finds: nothing, a file cut short, bytes of
\* two writers one over the other, or a complete list of that version.
Absent == 0
Truncated == -1
Garbled == -2
Body == {Absent, Truncated, Garbled} \cup Version
Usable(b) == b > 0

File == [body : Body, mtime : Time]
NoFile == [body |-> Absent, mtime |-> 0]

NoPayload == 0

\* The exceptions and values a call can end with.
Ending == {"none", "served", "unavailable", "http_error", "value_error",
           "validation_error", "zlib_error", "enoent", "disk_error",
           "cancelled", "crashed"}
NoResult == [kind |-> "none", body |-> NoPayload]

Control == {"idle", "read", "sent", "ok", "retryable", "client_error",
            "malformed", "fallback", "list", "walk", "tmp_open", "tmp_write",
            "replace", "snap_open", "snap_write", "prune", "prune_dir",
            "prune_file", "prune_unlink", "project"}

ASSUME ConstantsAssumption ==
    /\ ProcOf \in [Tasks -> Procs] /\ NoTask \notin Tasks
    /\ TTL \in Nat /\ Jitter \in Nat /\ Retention \in Nat
    /\ Attempts \in Nat \ {0}
    /\ Outcomes \subseteq {"ok", "retryable", "client_error", "malformed"}
    /\ BadRows \subseteq Version
    /\ DiskFaults \in BOOLEAN /\ Tampering \in BOOLEAN
    /\ MaxTime \in Nat /\ MaxVer \in Nat \ {0}

ASSUME EndpointsAssumption == IsFiniteSet(Endpoints)

VARIABLES
    now,      \* wall clock, also the source of file mtimes
    ver,      \* version upstream serves at each endpoint
    tampered, \* endpoints whose latest.json something outside has damaged
    latest,   \* <endpoint>.latest.json
    tmp,      \* <endpoint>.latest.json.tmp, one name for every writer
    snaps,    \* <endpoint>.snapshots/<second>.json.gz
    loop,     \* the task each process's event loop is running
    pc,       \* where each task is
    ep,       \* endpoint of its call
    payload,  \* the local `payload`
    tries,    \* requests made so far
    fd,       \* where the file it opened as tmp is reachable now
    clock,    \* its last reading of `_now()`
    dirs,     \* snapshot directories its prune has yet to enter
    names,    \* directory entries listed and not yet done with
    doomed,   \* the entry whose age was found to have expired, about to be unlinked
    res,      \* how its last call ended
    served    \* history: newest version any call was given

env == <<now, ver, tampered>>
disk == <<latest, tmp, snaps>>
locals == <<ep, payload, tries, fd, clock, dirs, names, doomed>>
vars == <<env, disk, loop, pc, locals, res, served>>

TypeOK ==
    /\ now \in Time
    /\ ver \in [Endpoints -> Version]
    /\ tampered \in SUBSET Endpoints
    /\ latest \in [Endpoints -> File]
    /\ tmp \in [Endpoints -> File]
    /\ snaps \in [Endpoints -> [Time -> File]]
    /\ loop \in [Procs -> Tasks \cup {NoTask}]
    /\ pc \in [Tasks -> Control]
    /\ ep \in [Tasks -> Endpoints]
    /\ payload \in [Tasks -> Version \cup {NoPayload}]
    /\ tries \in [Tasks -> 0..Attempts]
    /\ fd \in [Tasks -> {"tmp", "latest", "gone"}]
    /\ clock \in [Tasks -> Time]
    /\ dirs \in [Tasks -> SUBSET Endpoints]
    /\ names \in [Tasks -> SUBSET (Endpoints \X Time)]
    /\ doomed \in [Tasks -> SUBSET (Endpoints \X Time)]
    /\ res \in [Tasks -> [kind : Ending, body : Version \cup {NoPayload}]]
    /\ served \in [Endpoints -> Version \cup {NoPayload}]

Init ==
    /\ now = 0
    /\ ver = [e \in Endpoints |-> 1]
    /\ tampered = {}
    /\ latest = [e \in Endpoints |-> NoFile]
    /\ tmp = [e \in Endpoints |-> NoFile]
    /\ snaps = [e \in Endpoints |-> [s \in Time |-> NoFile]]
    /\ loop = [p \in Procs |-> NoTask]
    /\ pc = [t \in Tasks |-> "idle"]
    /\ ep \in [Tasks -> Endpoints]
    /\ payload = [t \in Tasks |-> NoPayload]
    /\ tries = [t \in Tasks |-> 0]
    /\ fd = [t \in Tasks |-> "gone"]
    /\ clock = [t \in Tasks |-> 0]
    /\ dirs = [t \in Tasks |-> {}]
    /\ names = [t \in Tasks |-> {}]
    /\ doomed = [t \in Tasks |-> {}]
    /\ res = [t \in Tasks |-> NoResult]
    /\ served = [e \in Endpoints |-> NoPayload]

-----------------------------------------------------------------------------
(* The event loop.                                                          *)

Free(p) == loop[p] = NoTask
Running(t) == loop[ProcOf[t]] = t
Acquire(t) == Free(ProcOf[t]) /\ loop' = [loop EXCEPT ![ProcOf[t]] = t]
Release(t) == loop' = [loop EXCEPT ![ProcOf[t]] = NoTask]

\* One synchronous step of a running task, from one place to another.
Step(t, from, to) ==
    /\ pc[t] = from /\ Running(t)
    /\ pc' = [pc EXCEPT ![t] = to]

\* Every local is dropped when the coroutine is, by return, raise or kill.
Forget(T) ==
    /\ payload' = [t \in Tasks |-> IF t \in T THEN NoPayload ELSE payload[t]]
    /\ tries' = [t \in Tasks |-> IF t \in T THEN 0 ELSE tries[t]]
    /\ fd' = [t \in Tasks |-> IF t \in T THEN "gone" ELSE fd[t]]
    /\ clock' = [t \in Tasks |-> IF t \in T THEN 0 ELSE clock[t]]
    /\ dirs' = [t \in Tasks |-> IF t \in T THEN {} ELSE dirs[t]]
    /\ names' = [t \in Tasks |-> IF t \in T THEN {} ELSE names[t]]
    /\ doomed' = [t \in Tasks |-> IF t \in T THEN {} ELSE doomed[t]]
    /\ UNCHANGED ep

\* The call of t is over; v is what its caller gets, if anything.
Finish(t, kind, v) ==
    /\ pc' = [pc EXCEPT ![t] = "idle"]
    /\ res' = [res EXCEPT ![t] = [kind |-> kind, body |-> v]]
    /\ served' = [served EXCEPT ![ep[t]] = IF v > @ THEN v ELSE @]
    /\ Forget({t})

Raise(t, kind) == Finish(t, kind, NoPayload)

Holding(t, v) == payload' = [payload EXCEPT ![t] = v]

-----------------------------------------------------------------------------
(* Cache lookup.                                                            *)

\* `_cache_age_within_ttl` with `_jitter_seconds()` = j, drawn at every check. Its
\* exists() and stat() are one step: a rename replaces latest.json, nothing in the
\* code unlinks it, so only a deletion from outside could come between the two.
CacheAgeWithinTtl(e, j) ==
    /\ latest[e].body # Absent
    /\ now - latest[e].mtime < TTL + j

JitterSeconds == (-Jitter)..Jitter

\* `_fetch_cached_or_live` is entered and checks the cache's age. A call
\* that needs a live request awaits it at once.
Call(t, e) ==
    /\ pc[t] = "idle" /\ Free(ProcOf[t])
    /\ ep' = [ep EXCEPT ![t] = e]
    /\ res' = [res EXCEPT ![t] = NoResult]
    /\ \E j \in JitterSeconds :
         \/ /\ CacheAgeWithinTtl(e, j)
            /\ pc' = [pc EXCEPT ![t] = "read"]
            /\ Acquire(t)
            /\ UNCHANGED tries
         \/ /\ ~CacheAgeWithinTtl(e, j)
            /\ pc' = [pc EXCEPT ![t] = "sent"]
            /\ tries' = [tries EXCEPT ![t] = 1]
            /\ UNCHANGED loop
    /\ UNCHANGED <<env, disk, payload, fd, clock, dirs, names, doomed, served>>

\* Mutant: a fresh latest.json is served without looking at its shape.
ReadCacheHitUnchecked(t) ==
    /\ Step(t, "read", "project")
    /\ Holding(t, latest[ep[t]].body)
    /\ UNCHANGED <<env, disk, loop, ep, tries, fd, clock, dirs, names, doomed, res,
                   served>>

\* `_read_cache` of a fresh latest.json.
ReadCacheHit(t) ==
    /\ Step(t, "read", "project")
    /\ Usable(latest[ep[t]].body)
    /\ Holding(t, latest[ep[t]].body)
    /\ UNCHANGED <<env, disk, loop, ep, tries, fd, clock, dirs, names, doomed, res,
                   served>>

\* A corrupt one is refetched as if it were not there.
ReadCacheCorrupt(t) ==
    /\ Step(t, "read", "sent")
    /\ ~Usable(latest[ep[t]].body)
    /\ tries' = [tries EXCEPT ![t] = 1]
    /\ Release(t)
    /\ UNCHANGED <<env, disk, ep, payload, fd, clock, dirs, names, doomed, res,
                   served>>

-----------------------------------------------------------------------------
(* The live request: `_fetch_raw` under `_fetch_raw_with_retry`.            *)

\* The request comes to an end while the task is suspended: by its answer or
\* by a timeout, one of the retryable outcomes (30 s without a byte). "malformed" is a 200
\* whose body is not JSON or has no `data` list.
Answer(t, o) ==
    /\ pc[t] = "sent"
    /\ pc' = [pc EXCEPT ![t] = o]
    /\ IF o = "ok" THEN Holding(t, ver[ep[t]]) ELSE UNCHANGED payload
    /\ UNCHANGED <<env, disk, loop, ep, tries, fd, clock, dirs, names, doomed, res,
                   served>>

\* Mutant: the retry loop never counts.
RetryUncounted(t) ==
    /\ pc[t] = "retryable" /\ Free(ProcOf[t])
    /\ tries[t] < Attempts
    /\ pc' = [pc EXCEPT ![t] = "sent"]
    /\ UNCHANGED <<env, disk, loop, locals, res, served>>

\* A transient failure is retried after a back-off sleep, itself an await.
Retry(t) ==
    /\ pc[t] = "retryable" /\ Free(ProcOf[t])
    /\ tries[t] < Attempts
    /\ pc' = [pc EXCEPT ![t] = "sent"]
    /\ tries' = [tries EXCEPT ![t] = @ + 1]
    /\ UNCHANGED <<env, disk, loop, ep, payload, fd, clock, dirs, names, doomed,
                   res, served>>

\* Mutant: the last failed attempt ends the call, without a look at the disk.
GiveUpUnavailable(t) ==
    /\ pc[t] = "retryable" /\ Free(ProcOf[t])
    /\ tries[t] = Attempts
    /\ Raise(t, "unavailable")
    /\ UNCHANGED <<env, disk, loop>>

\* The last attempt failed: `_fetch_cached_or_live` turns to the disk.
GiveUp(t) ==
    /\ pc[t] = "retryable" /\ Acquire(t)
    /\ tries[t] = Attempts
    /\ pc' = [pc EXCEPT ![t] = "fallback"]
    /\ UNCHANGED <<env, disk, locals, res, served>>

\* A 4xx other than 429 is re-raised; a malformed 200 is a ValueError that the
\* except clause does not name. Neither reaches the fallback.
Surface(t) ==
    /\ Free(ProcOf[t])
    /\ \/ pc[t] = "client_error" /\ Raise(t, "http_error")
       \/ pc[t] = "malformed" /\ Raise(t, "value_error")
    /\ UNCHANGED <<env, disk, loop>>

\* Mutant: only the snapshot is written.
ResumeSkippingCache(t) ==
    /\ pc[t] = "ok" /\ Acquire(t)
    /\ pc' = [pc EXCEPT ![t] = "snap_open"]
    /\ UNCHANGED <<env, disk, locals, res, served>>

\* A usable answer: the task resumes and goes on to store it.
Resume(t) ==
    /\ pc[t] = "ok" /\ Acquire(t)
    /\ pc' = [pc EXCEPT ![t] = "tmp_open"]
    /\ UNCHANGED <<env, disk, locals, res, served>>

\* The caller's task is cancelled at an await (CancelledError is not caught).
Cancel(t) ==
    /\ pc[t] \in {"sent"} \cup Outcomes /\ Free(ProcOf[t])
    /\ Raise(t, "cancelled")
    /\ UNCHANGED <<env, disk, loop>>

-----------------------------------------------------------------------------
(* The fallback.                                                            *)

\* Mutant: the fallback does not check what it read.
FallbackLatestUnchecked(t) ==
    /\ Step(t, "fallback", "project")
    /\ Holding(t, latest[ep[t]].body)
    /\ UNCHANGED <<env, disk, loop, ep, tries, fd, clock, dirs, names, doomed, res,
                   served>>

\* latest.json of any age, if it is usable.
FallbackLatest(t) ==
    /\ Step(t, "fallback", "project")
    /\ Usable(latest[ep[t]].body)
    /\ Holding(t, latest[ep[t]].body)
    /\ UNCHANGED <<env, disk, loop, ep, tries, fd, clock, dirs, names, doomed, res,
                   served>>

\* Mutant: the fallback honours the TTL.
FallbackMissStale(t) ==
    /\ Step(t, "fallback", "list")
    /\ ~Usable(latest[ep[t]].body) \/ ~CacheAgeWithinTtl(ep[t], 0)
    /\ UNCHANGED <<env, disk, loop, locals, res, served>>

FallbackMiss(t) ==
    /\ Step(t, "fallback", "list")
    /\ ~Usable(latest[ep[t]].body)
    /\ UNCHANGED <<env, disk, loop, locals, res, served>>

\* The entries a directory listing of e's snapshots returns.
Listing(e) == {e} \X {s \in Time : snaps[e][s].body # Absent}

\* `_read_most_recent_valid_snapshot` lists the directory once ...
ListSnapshots(t) ==
    /\ Step(t, "list", "walk")
    /\ names' = [names EXCEPT ![t] = Listing(ep[t])]
    /\ UNCHANGED <<env, disk, loop, ep, payload, tries, fd, clock, dirs, doomed,
                   res, served>>

\* Mutant: `sorted` without `reverse=True`.
Oldest(n, N) == n \in N /\ \A m \in N : m[2] >= n[2]

\* ... and walks it by name, newest first.
Newest(n, N) == n \in N /\ \A m \in N : m[2] <= n[2]
Content(n) == snaps[n[1]][n[2]].body

ReadSnapshot(t, n) ==
    /\ Step(t, "walk", "project")
    /\ Newest(n, names[t]) /\ Usable(Content(n))
    /\ Holding(t, Content(n))
    /\ names' = [names EXCEPT ![t] = {}]
    /\ UNCHANGED <<env, disk, loop, ep, tries, fd, clock, dirs, doomed, res, served>>

\* OSError, EOFError and JSONDecodeError: try the next-oldest.
SkipSnapshot(t, n) ==
    /\ Step(t, "walk", "walk")
    /\ Newest(n, names[t]) /\ ~Usable(Content(n))
    /\ names' = [names EXCEPT ![t] = @ \ {n}]
    /\ UNCHANGED <<env, disk, loop, ep, payload, tries, fd, clock, dirs, doomed,
                   res, served>>

\* A deflate stream overwritten in its middle may raise zlib.error, which is
\* none of the three.
SnapshotCrashesWalk(t, n) ==
    /\ pc[t] = "walk" /\ Running(t)
    /\ Newest(n, names[t]) /\ Content(n) = Garbled
    /\ Raise(t, "zlib_error")
    /\ Release(t)
    /\ UNCHANGED <<env, disk>>

Unavailable(t) ==
    /\ pc[t] = "walk" /\ Running(t)
    /\ names[t] = {}
    /\ Raise(t, "unavailable")
    /\ Release(t)
    /\ UNCHANGED <<env, disk>>
-----------------------------------------------------------------------------
(* Storing an answer: `_write_cache`, `_write_snapshot`, `prune_snapshots`, *)
(* one synchronous stretch.                                                 *)

\* Bytes v written from offset 0 of a file holding b: they cover it, unless b
\* is a longer list of another writer. What is left of it then stands behind the
\* closing bracket of v, which neither json nor gzip reads as a list.
Overlay(b, v) == IF b \in {Truncated, v} THEN {v} ELSE {v, Garbled}

\* Mutant: latest.json is written in place.
OpenInPlace(t) ==
    /\ Step(t, "tmp_open", "tmp_write")
    /\ latest' = [latest EXCEPT ![ep[t]] = [body |-> Truncated, mtime |-> now]]
    /\ fd' = [fd EXCEPT ![t] = "latest"]
    /\ UNCHANGED <<env, tmp, snaps, loop, ep, payload, tries, clock, dirs, names,
                   doomed, res, served>>

\* `tmp.write_text` opens the file first: a new one, or the one another writer
\* has open under the same name, truncated.
OpenTmp(t) ==
    /\ Step(t, "tmp_open", "tmp_write")
    /\ tmp' = [tmp EXCEPT ![ep[t]] = [body |-> Truncated, mtime |-> now]]
    /\ fd' = [fd EXCEPT ![t] = "tmp"]
    /\ UNCHANGED <<env, latest, snaps, loop, ep, payload, tries, clock, dirs,
                   names, doomed, res, served>>

\* The bytes go to the file that was opened, whatever its name is by now.
WriteTmp(t) ==
    /\ Step(t, "tmp_write", "replace")
    /\ \/ /\ fd[t] = "tmp"
          /\ \E b \in Overlay(tmp[ep[t]].body, payload[t]) :
               tmp' = [tmp EXCEPT ![ep[t]] = [body |-> b, mtime |-> now]]
          /\ UNCHANGED latest
       \/ /\ fd[t] = "latest"
          /\ \E b \in Overlay(latest[ep[t]].body, payload[t]) :
               latest' = [latest EXCEPT ![ep[t]] = [body |-> b, mtime |-> now]]
          /\ UNCHANGED tmp
       \/ /\ fd[t] = "gone"
          /\ UNCHANGED <<tmp, latest>>
    /\ fd' = [fd EXCEPT ![t] = "gone"]
    /\ UNCHANGED <<env, snaps, loop, ep, payload, tries, clock, dirs, names,
                   doomed, res, served>>

\* `tmp.replace(path)`. Writers that have the renamed file open now write into
\* latest.json, those of the latest.json it displaced into a nameless file.
Replace(t) ==
    /\ Step(t, "replace", "snap_open")
    /\ tmp[ep[t]].body # Absent
    /\ latest' = [latest EXCEPT ![ep[t]] = tmp[ep[t]]]
    /\ tmp' = [tmp EXCEPT ![ep[t]] = NoFile]
    /\ fd' = [u \in Tasks |->
                IF ep[u] # ep[t] THEN fd[u]
                ELSE IF fd[u] = "tmp" THEN "latest" ELSE "gone"]
    /\ UNCHANGED <<env, snaps, loop, ep, payload, tries, clock, dirs, names,
                   doomed, res, served>>

\* Another writer's rename took the file away: FileNotFoundError.
ReplaceFails(t) ==
    /\ pc[t] = "replace" /\ Running(t)
    /\ tmp[ep[t]].body = Absent
    /\ Raise(t, "enoent")
    /\ Release(t)
    /\ UNCHANGED <<env, disk>>

\* `gzip.open(path, "wt")` on the file named after the current second.
OpenSnapshot(t) ==
    /\ Step(t, "snap_open", "snap_write")
    /\ clock' = [clock EXCEPT ![t] = now]
    /\ snaps' = [snaps EXCEPT ![ep[t]][now] = [body |-> Truncated, mtime |-> now]]
    /\ UNCHANGED <<env, latest, tmp, loop, ep, payload, tries, fd, dirs, names,
                   doomed, res, served>>

WriteSnapshot(t) ==
    /\ Step(t, "snap_write", "prune")
    /\ LET old == snaps[ep[t]][clock[t]].body IN
       \/ /\ old # Absent
          /\ \E b \in Overlay(old, payload[t]) :
               snaps' = [snaps EXCEPT ![ep[t]][clock[t]] = [body |-> b, mtime |-> now]]
       \/ /\ old = Absent   \* unlinked by another process's prune
          /\ UNCHANGED snaps
    /\ UNCHANGED <<env, latest, tmp, loop, locals, res, served>>

\* `prune_snapshots` fixes its cutoff, then visits every endpoint's directory.
PruneStart(t) ==
    /\ Step(t, "prune", "prune_dir")
    /\ clock' = [clock EXCEPT ![t] = now]
    /\ dirs' = [dirs EXCEPT ![t] = Endpoints]
    /\ UNCHANGED <<env, disk, loop, ep, payload, tries, fd, names, doomed, res,
                   served>>

PruneDir(t, e) ==
    /\ Step(t, "prune_dir", "prune_file")
    /\ e \in dirs[t]
    /\ dirs' = [dirs EXCEPT ![t] = @ \ {e}]
    /\ names' = [names EXCEPT ![t] = Listing(e)]
    /\ UNCHANGED <<env, disk, loop, ep, payload, tries, fd, clock, doomed, res,
                   served>>

\* Mutant: off by one at the end of the retention window.
ExpiredOrEqual(t, f) == f.mtime <= clock[t] - Retention

Expired(t, f) == f.mtime < clock[t] - Retention

\* `path.stat()`: the entry is passed over, or its file has expired.
PruneFile(t, n) ==
    LET f == snaps[n[1]][n[2]] IN
    /\ n \in names[t] /\ f.body # Absent
    /\ \/ /\ ~Expired(t, f)
          /\ Step(t, "prune_file", "prune_file")
          /\ names' = [names EXCEPT ![t] = @ \ {n}]
          /\ UNCHANGED doomed
       \/ /\ Expired(t, f)
          /\ Step(t, "prune_file", "prune_unlink")
          /\ doomed' = [doomed EXCEPT ![t] = {n}]
          /\ UNCHANGED names
    /\ UNCHANGED <<env, disk, loop, ep, payload, tries, fd, clock, dirs, res, served>>

\* Mutant: an unlinked file is looked at once more.
UnlinkTwice(t, n) ==
    /\ Step(t, "prune_unlink", "prune_file")
    /\ n \in doomed[t] /\ snaps[n[1]][n[2]].body # Absent
    /\ snaps' = [snaps EXCEPT ![n[1]][n[2]] = NoFile]
    /\ doomed' = [doomed EXCEPT ![t] = {}]
    /\ UNCHANGED <<env, latest, tmp, loop, ep, payload, tries, fd, clock, dirs, names,
                   res, served>>

\* `path.unlink()` takes what has the name by now: the file whose age was read, or
\* what another process wrote to it since.
Unlink(t, n) ==
    /\ Step(t, "prune_unlink", "prune_file")
    /\ n \in doomed[t] /\ snaps[n[1]][n[2]].body # Absent
    /\ snaps' = [snaps EXCEPT ![n[1]][n[2]] = NoFile]
    /\ names' = [names EXCEPT ![t] = @ \ {n}]
    /\ doomed' = [doomed EXCEPT ![t] = {}]
    /\ UNCHANGED <<env, latest, tmp, loop, ep, payload, tries, fd, clock, dirs,
                   res, served>>

\* Another process's prune was there first: stat or unlink raises.
PruneFails(t, n) ==
    /\ \/ pc[t] = "prune_file" /\ n \in names[t]
       \/ pc[t] = "prune_unlink" /\ n \in doomed[t]
    /\ Running(t)
    /\ snaps[n[1]][n[2]].body = Absent
    /\ Raise(t, "enoent")
    /\ Release(t)
    /\ UNCHANGED <<env, disk>>

PruneNext(t) ==
    /\ Step(t, "prune_file", IF dirs[t] = {} THEN "project" ELSE "prune_dir")
    /\ names[t] = {}
    /\ UNCHANGED <<env, disk, loop, locals, res, served>>

\* mkdir, open, write, rename or unlink fails; what was opened stays short.
DiskError(t) ==
    /\ DiskFaults
    /\ pc[t] \in {"tmp_open", "tmp_write", "replace", "snap_open", "snap_write",
                   "prune_file", "prune_unlink"}
    /\ Running(t)
    /\ Raise(t, "disk_error")
    /\ Release(t)
    /\ UNCHANGED <<env, disk>>

-----------------------------------------------------------------------------
(* Returning. `get_raw_response` hands the payload on as it is, the typed   *)
(* getters project its rows.                                                *)

Serve(t) ==
    /\ pc[t] = "project" /\ Running(t)
    /\ Finish(t, "served", payload[t])
    /\ Release(t)
    /\ UNCHANGED <<env, disk>>

ProjectionFails(t) ==
    /\ pc[t] = "project" /\ Running(t)
    /\ payload[t] \in BadRows
    /\ Raise(t, "validation_error")
    /\ Release(t)
    /\ UNCHANGED <<env, disk>>

-----------------------------------------------------------------------------
(* Processes die, time passes, upstream moves on, files get damaged.        *)

\* A kill takes every task of the process; the files stay as they are.
Crash(p) ==
    LET T == {t \in Tasks : ProcOf[t] = p /\ pc[t] # "idle"} IN
    /\ T # {}
    /\ pc' = [t \in Tasks |-> IF t \in T THEN "idle" ELSE pc[t]]
    /\ res' = [t \in Tasks |->
                 IF t \in T THEN [kind |-> "crashed", body |-> NoPayload] ELSE res[t]]
    /\ Forget(T)
    /\ loop' = [loop EXCEPT ![p] = NoTask]
    /\ UNCHANGED <<env, disk, served>>

Tick ==
    /\ now < MaxTime
    /\ now' = now + 1
    /\ UNCHANGED <<ver, tampered, disk, loop, pc, locals, res, served>>

Publish(e) ==
    /\ ver[e] < MaxVer
    /\ ver' = [ver EXCEPT ![e] = @ + 1]
    /\ UNCHANGED <<now, tampered, disk, loop, pc, locals, res, served>>

\* "Cache files can be corrupted (truncated mid-write, hand-edited, disk
\* corruption)", or deleted.
Tamper(e) ==
    /\ Tampering
    /\ latest[e].body # Absent
    /\ \/ latest' = [latest EXCEPT ![e].body = Truncated]
       \/ latest' = [latest EXCEPT ![e] = NoFile]
    /\ tampered' = tampered \cup {e}
    /\ UNCHANGED <<now, ver, tmp, snaps, loop, pc, locals, res, served>>

Suspended(t) ==
    \/ \E o \in Outcomes : Answer(t, o)
    \/ Retry(t) \/ GiveUp(t) \/ Surface(t) \/ Resume(t)

Reading(t) ==
    \/ ReadCacheHit(t) \/ ReadCacheCorrupt(t)
    \/ FallbackLatest(t) \/ FallbackMiss(t)
    \/ ListSnapshots(t) \/ Unavailable(t)
    \/ \E n \in Endpoints \X Time :
          ReadSnapshot(t, n) \/ SkipSnapshot(t, n) \/ SnapshotCrashesWalk(t, n)

Storing(t) ==
    \/ OpenTmp(t) \/ WriteTmp(t) \/ Replace(t) \/ ReplaceFails(t)
    \/ OpenSnapshot(t) \/ WriteSnapshot(t)
    \/ PruneStart(t) \/ PruneNext(t)
    \/ \E e \in Endpoints : PruneDir(t, e)
    \/ \E n \in Endpoints \X Time : PruneFile(t, n) \/ Unlink(t, n) \/ PruneFails(t, n)
    \/ DiskError(t)

Returning(t) == Serve(t) \/ ProjectionFails(t)

Progress(t) == Suspended(t) \/ Reading(t) \/ Storing(t) \/ Returning(t)

Environment ==
    \/ Tick
    \/ \E e \in Endpoints : Publish(e) \/ Tamper(e)
    \/ \E p \in Procs : Crash(p)

Next ==
    \/ \E t \in Tasks : Progress(t) \/ Cancel(t) \/ \E e \in Endpoints : Call(t, e)
    \/ Environment

Spec == Init /\ [][Next]_vars

\* An asyncio loop runs its ready tasks in turn, so a task that is ready again
\* and again gets the loop; the HTTP timeout ends every request. Callers,
\* crashes, cancellation, time and upstream owe nothing.
Fairness ==
    \A t \in Tasks : SF_vars(Suspended(t)) /\ WF_vars(Reading(t) \/ Storing(t) \/ Returning(t))

FairSpec == Spec /\ Fairness

-----------------------------------------------------------------------------
(* Properties. `SingleProcess` is how the server normally runs: one process *)
(* owns the cache directory, however many tool calls it serves at a time.   *)

SingleProcess == \A t, u \in Tasks : ProcOf[t] = ProcOf[u]

\* latest.json is absent or a complete list, whatever crashes and disk errors
\* interrupt `_write_cache`, as long as nothing outside damages it: the claim
\* of the comment "Atomic write: tmp file + rename".
LatestIsWhole ==
    \A e \in Endpoints \ tampered :
        latest[e].body = Absent \/ Usable(latest[e].body)

\* The same when no call is under way: what a crash leaves behind.
NoHalfWrittenCache ==
    (\A t \in Tasks : pc[t] = "idle") =>
        \A e \in Endpoints : latest[e].body = Absent \/ Usable(latest[e].body)

\* No caller ever gets a list that upstream did not publish whole: not a torn
\* or mixed file, through the cache, the fallback or the snapshots.
ServedIsPublished ==
    \A t \in Tasks :
        res[t].kind = "served" => res[t].body \in 1..ver[ep[t]]

\* ADR-013: once some call got prices, no later call of that endpoint is told
\* that there is nothing to serve.
LastGoodNeverLost ==
    [][\A t \in Tasks :
        (res'[t] # res[t] /\ res'[t].kind = "unavailable" /\ ep[t] \notin tampered)
            => served[ep[t]] = NoPayload]_vars

\* No file disappears under a task, and no snapshot crashes the walk: a call
\* that has an answer in hand loses it to a real disk error only.
NoSpuriousFailure ==
    \A t \in Tasks : res[t].kind \notin {"enoent", "zlib_error"}

\* A task about to return holds what latest.json holds at that moment.
AnswerIsStored ==
    \A t \in Tasks :
        (pc[t] = "project" /\ ep[t] \notin tampered)
            => payload[t] = latest[ep[t]].body

UsableSnapshots(e) == {s \in Time : Usable(snaps[e][s].body)}

\* The walk of the snapshot history ends with the newest usable one, and with
\* ComputePricesUnavailable only when there is none, however many unusable
\* ones precede it.
FallbackPicksNewest ==
    [][\A t \in Tasks :
        LET good == UsableSnapshots(ep[t]) IN
        pc[t] = "walk" =>
            /\ (pc'[t] = "project" =>
                  \E s \in good : /\ payload'[t] = snaps[ep[t]][s].body
                                  /\ \A r \in good : r <= s)
            /\ (res'[t].kind = "unavailable" => good = {})]_vars

\* A complete snapshot disappears only when the second it is named after lies further
\* back than the retention window, whichever process prunes, however long ago it listed
\* the file or read its age, and whatever was written to the file in between. Of its
\* mtime the same is not true: a slow writer may finish the file after its age was read
\* and before it is unlinked. (computeprices.py: prune_snapshots, _write_snapshot)
RetainedUntilExpired ==
    [][\A e \in Endpoints, s \in Time :
        Usable(snaps[e][s].body) /\ snaps'[e][s].body = Absent
            => now - s > Retention]_vars

\* Every call ends, however often it is retried and whatever else runs.
CallsEnd == \A t \in Tasks : pc[t] # "idle" ~> pc[t] = "idle"

\* What a call has before it, most significant first: attempts, stages (a loop is
\* one stage), directories to prune, files to look at, and the end of the directory.
Ahead ==
    [read |-> 13, sent |-> 12, ok |-> 11, retryable |-> 11, client_error |-> 11, malformed |-> 11,
     fallback |-> 10, list |-> 9, walk |-> 8, tmp_open |-> 7, tmp_write |-> 6, replace |-> 5,
     snap_open |-> 4, snap_write |-> 3, prune |-> 2, prune_dir |-> 1, prune_file |-> 1,
     prune_unlink |-> 1, project |-> 0, idle |-> 0]

Countdown(t) ==
    <<Attempts - tries[t], Ahead[pc[t]], Cardinality(dirs[t]), Cardinality(names[t]),
      IF pc[t] = "prune_file" THEN 1 ELSE 0>>

Lower(a, b) == \E i \in 1..5 : a[i] < b[i] /\ \A j \in 1..(i - 1) : a[j] = b[j]

\* No loop of a call (retries, the walk of the history, pruning) can go round for
\* ever, whatever other processes write and delete meanwhile: every step of a call
\* takes it nearer to its end, and nothing another one does takes it back.
\* (computeprices.py: _fetch_raw_with_retry, _read_most_recent_valid_snapshot,
\* prune_snapshots)
CallsCountDown ==
    [][\A t \in Tasks :
        pc[t] # "idle" =>
            \/ pc'[t] = "idle"
            \/ Progress(t) /\ Lower(Countdown(t)', Countdown(t))
            \/ ~Progress(t) /\ Countdown(t)' = Countdown(t)]_vars

\* ADR-013: while the disk holds a list for its endpoint, no call fails for
\* what upstream answered.
NeverFailsWhileCached ==
    [][\A t \in Tasks :
        (res'[t] # res[t] /\ res'[t].kind \in {"http_error", "value_error"})
            => ~Usable(latest[ep[t]].body)]_vars

\* The files and steps of one process implement one register per endpoint.
Contract == INSTANCE LastGoodCache WITH
    store <- [e \in Endpoints |-> latest[e].body],
    busy <- {t \in Tasks : pc[t] # "idle"},
    on <- ep,
    answer <- res

ImplementsLastGoodCache == Contract!Spec
=============================================================================
