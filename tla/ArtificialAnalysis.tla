-------------------------- MODULE ArtificialAnalysis --------------------------
(***************************************************************************)
(* The optional Artificial Analysis client                                 *)
(* (pricing/artificial_analysis/client.py): `get_models` over a TTL cache, *)
(* a snapshot of every response, the promotion of well-shaped ones to      *)
(* models.latest.json, and the recovery from disk. Its only caller is      *)
(* `prefetch`, one call at a time per process, when a key is configured;   *)
(* processes share the directory. Both files are written under a unique    *)
(* name and renamed: a write is one step, its crash leaves nothing to see. *)
(***************************************************************************)
EXTENDS Integers, FiniteSets

CONSTANTS
    Procs,     \* prefetch processes sharing the cache directory
    TTL,       \* lifetime of models.latest.json
    Jitter,    \* the TTL moves by up to this much, drawn at every check
    Tampering, \* whether something outside may damage files
    MaxTime    \* bound on the clock

Time == 0..MaxTime

\* What a file holds: nothing; a response with a `data` list, whose rows project
\* or do not; another JSON object; bytes that do not decode to an object; a damaged
\* gzip stream (of no other effect on latest.json than "garbled").
Response == {"list", "bad_rows", "no_list"}
Content == {"absent", "garbled", "cut"} \cup Response
ShapeValid == {"list", "bad_rows"}

Ending == {"none", "served", "empty", "validation_error", "eof_error", "disk_error",
           "crashed"}
Control == {"idle", "read", "sent", "snapshot", "promote", "recover", "list", "walk",
            "project"}

ASSUME ParametersAssumption ==
    /\ TTL \in Nat /\ Jitter \in Nat /\ MaxTime \in Nat /\ Tampering \in BOOLEAN

VARIABLES
    now,      \* wall clock
    tampered, \* whether something outside has damaged latest.json
    latest,   \* models.latest.json: content and mtime
    snaps,    \* models.snapshots/<second>.json.gz
    pc,       \* where each process's call is
    held,     \* the payload or bytes it holds
    names,    \* snapshots listed and not yet looked at
    res,      \* how its last call ended
    had       \* history: latest.json was good when the call began

vars == <<now, tampered, latest, snaps, pc, held, names, res, had>>
call == <<names, res, had>>

TypeOK ==
    /\ now \in Time /\ tampered \in BOOLEAN
    /\ latest \in [body : Content, mtime : Time]
    /\ snaps \in [Time -> Content]
    /\ pc \in [Procs -> Control]
    /\ held \in [Procs -> Response \cup {"absent"}]
    /\ names \in [Procs -> SUBSET Time]
    /\ res \in [Procs -> Ending]
    /\ had \in [Procs -> BOOLEAN]

Init ==
    /\ now = 0 /\ tampered = FALSE
    /\ latest = [body |-> "absent", mtime |-> 0]
    /\ snaps = [s \in Time |-> "absent"]
    /\ pc = [p \in Procs |-> "idle"]
    /\ held = [p \in Procs |-> "absent"]
    /\ names = [p \in Procs |-> {}]
    /\ res = [p \in Procs |-> "none"]
    /\ had = [p \in Procs |-> FALSE]

-----------------------------------------------------------------------------

Goto(p, from, to) == pc[p] = from /\ pc' = [pc EXCEPT ![p] = to]

Finish(p, kind) ==
    /\ pc' = [pc EXCEPT ![p] = "idle"]
    /\ held' = [held EXCEPT ![p] = "absent"]
    /\ names' = [names EXCEPT ![p] = {}]
    /\ res' = [res EXCEPT ![p] = kind]
    /\ had' = [had EXCEPT ![p] = FALSE]

CacheAgeWithinTtl(j) == latest.body # "absent" /\ now - latest.mtime < TTL + j

\* `get_models` with a key: `_fetch_cached_or_live` chooses by the cache's age.
GetModels(p) ==
    /\ \E j \in (-Jitter)..Jitter :
         Goto(p, "idle", IF CacheAgeWithinTtl(j) THEN "read" ELSE "sent")
    /\ res' = [res EXCEPT ![p] = "none"]
    /\ had' = [had EXCEPT ![p] = latest.body \in ShapeValid]
    /\ UNCHANGED <<now, tampered, latest, snaps, held, names>>

\* `_read_cache`, then `_extract_data_list`: what does not decode, or has no
\* list, is a ValueError that sends `get_models` to the disk.
ReadCache(p) ==
    /\ latest.body # "absent"
    /\ IF latest.body \in ShapeValid
       THEN Goto(p, "read", "project") /\ held' = [held EXCEPT ![p] = latest.body]
       ELSE Goto(p, "read", "recover") /\ UNCHANGED held
    /\ UNCHANGED <<now, tampered, latest, snaps, call>>

\* The file was removed since its age was read: an OSError nobody catches.
ReadCacheGone(p) ==
    /\ pc[p] = "read" /\ latest.body = "absent"
    /\ Finish(p, "disk_error")
    /\ UNCHANGED <<now, tampered, latest, snaps>>

\* The request, its retries included, brings a JSON object ...
Answer(p, r) ==
    /\ Goto(p, "sent", "snapshot")
    /\ held' = [held EXCEPT ![p] = r]
    /\ UNCHANGED <<now, tampered, latest, snaps, call>>

\* ... or an HTTP error of any class, or a body that is no JSON object.
RequestFails(p) ==
    /\ Goto(p, "sent", "recover")
    /\ UNCHANGED <<now, tampered, latest, snaps, held, call>>

\* "Snapshot ALWAYS", under the name of the current second.
WriteSnapshot(p) ==
    /\ Goto(p, "snapshot", "promote")
    /\ snaps' = [snaps EXCEPT ![now] = held[p]]
    /\ UNCHANGED <<now, tampered, latest, held, call>>

\* Mutant: whatever arrives becomes latest.json.
PromoteUnchecked(p) ==
    /\ Goto(p, "promote", "project")
    /\ latest' = [body |-> held[p], mtime |-> now]
    /\ UNCHANGED <<now, tampered, snaps, held, call>>

\* A well-shaped response becomes latest.json ...
Promote(p) ==
    /\ Goto(p, "promote", "project")
    /\ held[p] \in ShapeValid
    /\ latest' = [body |-> held[p], mtime |-> now]
    /\ UNCHANGED <<now, tampered, snaps, held, call>>

\* ... any other is a ValueError that `get_models` catches.
Reject(p) ==
    /\ Goto(p, "promote", "recover")
    /\ held[p] \notin ShapeValid
    /\ held' = [held EXCEPT ![p] = "absent"]
    /\ UNCHANGED <<now, tampered, latest, snaps, call>>

\* mkdir, open, write or rename fails: an OSError is not among the caught.
DiskError(p) ==
    /\ pc[p] \in {"snapshot", "promote"}
    /\ pc[p] = "promote" => held[p] \in ShapeValid
    /\ Finish(p, "disk_error")
    /\ UNCHANGED <<now, tampered, latest, snaps>>

-----------------------------------------------------------------------------
(* `_recover_from_disk`.                                                    *)

\* What was recovered is served if it has a list, else `[]` is.
Recovered(p, c) ==
    IF c \in ShapeValid
    THEN /\ pc' = [pc EXCEPT ![p] = "project"]
         /\ held' = [held EXCEPT ![p] = c]
         /\ names' = [names EXCEPT ![p] = {}]
         /\ UNCHANGED <<res, had>>
    ELSE Finish(p, "empty")

\* Mutant: a latest.json past its TTL is no longer recovered from.
RecoverFreshLatest(p) ==
    /\ pc[p] = "recover" /\ latest.body \in Response
    /\ IF CacheAgeWithinTtl(0) THEN Recovered(p, latest.body) ELSE Finish(p, "empty")
    /\ UNCHANGED <<now, tampered, latest, snaps>>

\* latest.json, of any age, if it is a JSON object.
RecoverLatest(p) ==
    /\ pc[p] = "recover" /\ latest.body \in Response
    /\ Recovered(p, latest.body)
    /\ UNCHANGED <<now, tampered, latest, snaps>>

RecoverMiss(p) ==
    /\ Goto(p, "recover", "list")
    /\ latest.body \notin Response
    /\ UNCHANGED <<now, tampered, latest, snaps, held, call>>

ListSnapshots(p) ==
    /\ Goto(p, "list", "walk")
    /\ names' = [names EXCEPT ![p] = {s \in Time : snaps[s] # "absent"}]
    /\ UNCHANGED <<now, tampered, latest, snaps, held, res, had>>

Newest(s, N) == s \in N /\ \A r \in N : r <= s

\* Mutant: a decoded snapshot is held without `isinstance(decoded, dict)`.
RecoverAnySnapshot(p, s) ==
    /\ Goto(p, "walk", "project") /\ Newest(s, names[p])
    /\ held' = [held EXCEPT ![p] = snaps[s]]
    /\ UNCHANGED <<now, tampered, latest, snaps, call>>

\* The newest snapshot that decodes to a JSON object, list or no list, is the
\* one recovered.
RecoverSnapshot(p, s) ==
    /\ pc[p] = "walk" /\ Newest(s, names[p]) /\ snaps[s] \in Response
    /\ Recovered(p, snaps[s])
    /\ UNCHANGED <<now, tampered, latest, snaps>>

SkipSnapshot(p, s) ==
    /\ Goto(p, "walk", "walk") /\ Newest(s, names[p])
    /\ snaps[s] \in {"garbled", "absent"}
    /\ names' = [names EXCEPT ![p] = @ \ {s}]
    /\ UNCHANGED <<now, tampered, latest, snaps, held, res, had>>

\* A truncated stream raises EOFError (a damaged one, zlib.error): not caught.
SnapshotCrashesWalk(p, s) ==
    /\ pc[p] = "walk" /\ Newest(s, names[p]) /\ snaps[s] = "cut"
    /\ Finish(p, "eof_error")
    /\ UNCHANGED <<now, tampered, latest, snaps>>

NothingRecovered(p) ==
    /\ pc[p] = "walk" /\ names[p] = {}
    /\ Finish(p, "empty")
    /\ UNCHANGED <<now, tampered, latest, snaps>>

\* The rows are projected outside the `try`.
Project(p) ==
    /\ pc[p] = "project"
    /\ Finish(p, IF held[p] = "bad_rows" THEN "validation_error" ELSE "served")
    /\ UNCHANGED <<now, tampered, latest, snaps>>

-----------------------------------------------------------------------------

\* The process dies; nothing of the call is left but what it has written.
Crash(p) ==
    /\ pc[p] # "idle"
    /\ Finish(p, "crashed")
    /\ UNCHANGED <<now, tampered, latest, snaps>>

Tick ==
    /\ now < MaxTime /\ now' = now + 1
    /\ UNCHANGED <<tampered, latest, snaps, pc, held, call>>

\* Something outside damages or deletes a file.
Tamper ==
    /\ Tampering
    /\ \E c \in {"absent", "garbled", "cut"} :
         \/ /\ latest.body # "absent"
            /\ latest' = [latest EXCEPT !.body = c] /\ tampered' = TRUE
            /\ UNCHANGED snaps
         \/ /\ \E s \in Time : snaps[s] # "absent" /\ snaps' = [snaps EXCEPT ![s] = c]
            /\ UNCHANGED <<latest, tampered>>
    /\ UNCHANGED <<now, pc, held, call>>

Fetching(p) ==
    \/ GetModels(p) \/ ReadCache(p) \/ ReadCacheGone(p)
    \/ \E r \in Response : Answer(p, r)
    \/ RequestFails(p) \/ WriteSnapshot(p) \/ Promote(p) \/ Reject(p) \/ DiskError(p)

Recovering(p) ==
    \/ RecoverLatest(p) \/ RecoverMiss(p) \/ ListSnapshots(p) \/ NothingRecovered(p)
    \/ \E s \in Time :
          RecoverSnapshot(p, s) \/ SkipSnapshot(p, s) \/ SnapshotCrashesWalk(p, s)
    \/ Project(p)

Next ==
    \/ \E p \in Procs : Fetching(p) \/ Recovering(p) \/ Crash(p)
    \/ Tick \/ Tamper

Spec == Init /\ [][Next]_vars

-----------------------------------------------------------------------------
(* Properties.                                                              *)

\* "protects the known-good fallback path": no response without a list, and no
\* crash or race of two processes, ever lands in latest.json.
KnownGoodKept == tampered \/ latest.body \in {"absent"} \cup ShapeValid

\* AA is optional enrichment: whatever upstream does, a call that began with a
\* good latest.json is not answered with the empty list.
EmptyOnlyIfNeverGood ==
    [][\A p \in Procs :
        (pc[p] # "idle" /\ pc'[p] = "idle" /\ res'[p] = "empty")
            => ~had[p] \/ tampered]_vars

\* "Latest cache missing but snapshot exists: most-recent valid snapshot":
\* `[]` is returned only if there was no valid snapshot to recover.
RecoversNewestValid ==
    [][\A p \in Procs :
        (pc[p] = "walk" /\ res'[p] = "empty")
            => \A s \in Time : snaps[s] \notin ShapeValid]_vars
=============================================================================
