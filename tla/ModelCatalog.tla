----------------------------- MODULE ModelCatalog -----------------------------
(***************************************************************************)
(* The model catalog on disk and the calls that read and write it: a       *)
(* numerical tool's dispatch (mcp_tools/deps.py, mcp_tools/dispatch.py),   *)
(* `resolve_model` (dispatch.py) and the prefetch command (server.py) with *)
(* its `sync_all_tracked` (catalog/hf_sync.py), all of them through        *)
(* `HfModelSync.sync_model`.                                               *)
(* One <slug>.model.json per slug, and user_models.yaml beside the seeds.  *)
(* Calls interleave at every request and every file they write: those of   *)
(* one server do so at its awaits, and prefetch is another process. Every  *)
(* file is written under a temporary name and renamed, in one step here.   *)
(***************************************************************************)
EXTENDS ModelConfig

CONSTANTS
    Slugs, Repos,
    Curated,    \* seeds/tracked_models.yaml: slug -> repository
    Configs,    \* what a config.json may be
    Calls,      \* the calls in flight
    Moving,     \* the repositories that get new commits
    MaxRev      \* bound on the commits of a repository

Rev == 1..MaxRev
Model == [repo : Repos, rev : Rev, params : BOOLEAN]
NoModel == [repo |-> None, rev |-> 0, params |-> FALSE]
ConfigFile == [repo : Repos, rev : Rev]
NoConfigFile == [repo |-> None, rev |-> 0]

ASSUME CatalogAssumption ==
    /\ None \notin Repos \cup Slugs
    /\ DOMAIN Curated \subseteq Slugs /\ \A s \in DOMAIN Curated : Curated[s] \in Repos
    /\ Moving \subseteq Repos /\ MaxRev \in Nat /\ MaxRev >= 1

\* How the configurations there may be are taken.
Parsed == {ConfigError(cfg) : cfg \in Configs}

ASSUME ConfigsAssumption == Parsed \subseteq ConfigFailure \cup {"none"}

\* What sync_model raises: a 404, another client error, no answer, what the
\* configuration is refused with, a write that fails.
Failure == {"not_found", "client_error", "unavailable", "os_error"} \cup ConfigFailure

\* How calls end: tools (`failed`: on to what ComputePrices lists), resolve_model
\* by its status, prefetch by its exit (0, 1 with a diagnostic, or a traceback).
Ending == {"none", "cached", "resolved", "failed", "not_found_on_hf", "sync_failed",
           "exit_0", "exit_1", "traceback"}
Control == {"idle", "next", "info", "config", "parse", "persist", "warm"}

VARIABLES
    rev,      \* upstream: the head commit of each repository
    model,    \* <slug>.model.json
    config,   \* <slug>.config.json: the repository and the commit it is of
    yaml,     \* user_models.yaml: the repository of each slug it has a row for
    pc,       \* where each call is
    req,      \* what it asked to sync: slug, repository, the row's parameters or none
    sha,      \* the commit it is at; while it asks, the head there was when it asked
    rows,     \* prefetch: the merged tracked set it read, less the rows it is done with
    got,      \* tool, resolve_model: the repository whose model it found or synced
    res,      \* how it ended
    synced,   \* history: the pairs some sync has returned a model for
    lapped,   \* history: the syncs whose slug another one has written since they asked
    crossed   \* history: those whose config.json another one has replaced since theirs

files == <<model, config, yaml>>
vars == <<rev, files, pc, req, sha, rows, got, res, synced, lapped, crossed>>

Request == [kind : {"tool", "resolve", "prefetch"}, slug : Slugs,
            repo : Repos \cup {None}, params : BOOLEAN]
NoRequest == [kind |-> "none", slug |-> None, repo |-> None, params |-> FALSE]

TypeOK ==
    /\ rev \in [Repos -> Rev]
    /\ model \in [Slugs -> Model \cup {NoModel}]
    /\ config \in [Slugs -> ConfigFile \cup {NoConfigFile}]
    /\ yaml \in [Slugs -> Repos \cup {None}]
    /\ pc \in [Calls -> Control]
    /\ req \in [Calls -> Request \cup {NoRequest}]
    /\ \A c \in Calls : pc[c] \in {"info", "config", "parse", "persist"} 
                         => req[c] \in Request /\ req[c].repo \in Repos
    /\ sha \in [Calls -> Rev \cup {0}]
    /\ \A c \in Calls : pc[c] \in {"info", "config", "parse"} => sha[c] # 0
    /\ rows \in [Calls -> [Slugs -> Repos \cup {None}]]
    /\ got \in [Calls -> Repos \cup {None}]
    /\ res \in [Calls -> Ending]
    /\ synced \subseteq Slugs \X Repos /\ lapped \subseteq Calls /\ crossed \subseteq Calls

Nothing == [s \in Slugs |-> None]

Init ==
    /\ rev = [r \in Repos |-> 1]
    /\ model = [s \in Slugs |-> NoModel]
    /\ config = [s \in Slugs |-> NoConfigFile]
    /\ yaml = Nothing
    /\ pc = [c \in Calls |-> "idle"]
    /\ req = [c \in Calls |-> NoRequest]
    /\ sha = [c \in Calls |-> 0]
    /\ rows = [c \in Calls |-> Nothing]
    /\ got = [c \in Calls |-> None]
    /\ res = [c \in Calls |-> "none"]
    /\ synced = {} /\ lapped = {} /\ crossed = {}

-----------------------------------------------------------------------------

\* The merged tracked set: "project-controlled rows win". The user's editor may
\* have left the user's file malformed, whenever it is read: then it counts as empty.
Merged(parses) ==
    [s \in Slugs |->
        IF s \in DOMAIN Curated THEN Curated[s] ELSE IF parses THEN yaml[s] ELSE None]

\* Only a curated row carries parameters: the rows resolve_model writes are
\* slug and repository.
Row(kind, s, r) ==
    [kind |-> kind, slug |-> s, repo |-> r,
     params |-> kind # "resolve" /\ s \in DOMAIN Curated]

Goto(c, to) == pc' = [pc EXCEPT ![c] = to]

\* A call ends, with a model in answer to a request or without ...
Answer(c, how, row, r) ==
    /\ Goto(c, "idle")
    /\ res' = [res EXCEPT ![c] = how]
    /\ req' = [req EXCEPT ![c] = row]
    /\ got' = [got EXCEPT ![c] = r]
    /\ rows' = [rows EXCEPT ![c] = Nothing]
    /\ sha' = [sha EXCEPT ![c] = 0]

End(c, how) == Answer(c, how, NoRequest, None)

\* ... or (prefetch) goes on to the next row.
NextRow(c) ==
    /\ Goto(c, "next")
    /\ req' = [req EXCEPT ![c] = NoRequest]
    /\ sha' = [sha EXCEPT ![c] = 0]
    /\ UNCHANGED <<got, res, rows>>

\* `sync_model` sends its first request.
StartSync(c, row) ==
    /\ Goto(c, "info")
    /\ req' = [req EXCEPT ![c] = row]
    /\ sha' = [sha EXCEPT ![c] = rev[row.repo]]
    /\ got' = [got EXCEPT ![c] = None]

\* What `sync_model` returned, by caller.
SyncReturns(c, m) ==
    /\ synced' = synced \cup {<<req[c].slug, req[c].repo>>}
    /\ \/ req[c].kind = "tool" /\ Answer(c, "resolved", req[c], m.repo)
       \/ req[c].kind = "prefetch" /\ NextRow(c)
       \/ /\ req[c].kind = "resolve"
          /\ Goto(c, "persist")
          /\ got' = [got EXCEPT ![c] = m.repo] /\ sha' = [sha EXCEPT ![c] = 0]
          /\ UNCHANGED <<req, res, rows>>

\* What resolve_model reports.
Status(why) ==
    IF why \in {"not_found", "value_error"} THEN "not_found_on_hf" ELSE "sync_failed"

\* What prefetch makes of what it does not skip the row for.
Exit(why) == IF why = "os_error" THEN "exit_1" ELSE "traceback"

\* What it raised, by caller.
SyncRaises(c, why) ==
    /\ UNCHANGED synced
    /\ \/ req[c].kind = "tool" /\ End(c, "failed")
       \/ req[c].kind = "resolve" /\ End(c, Status(why))
       \/ /\ req[c].kind = "prefetch"
          /\ IF why \in {"not_found", "client_error", "unavailable", "value_error"}
             THEN NextRow(c) ELSE End(c, Exit(why))

-----------------------------------------------------------------------------
(* The callers.                                                             *)

\* A numerical tool: the RuntimeDeps snapshot and the dispatch, up to its await.
\* Case 1a, the slug's model is on disk ...
ToolCached(c, s) ==
    /\ pc[c] = "idle" /\ model[s] # NoModel
    /\ Answer(c, "cached", Row("tool", s, None), model[s].repo)
    /\ UNCHANGED <<rev, files, synced>>

\* ... Case 1b, the slug is tracked and is synced ...
ToolLazySync(c, s) ==
    /\ pc[c] = "idle" /\ model[s] = NoModel
    /\ \E parses \in BOOLEAN :
          Merged(parses)[s] # None /\ StartSync(c, Row("tool", s, Merged(parses)[s]))
    /\ res' = [res EXCEPT ![c] = "none"]
    /\ UNCHANGED <<rev, files, rows, synced>>

\* ... or Case 2 or 3, as ComputePrices lists it or not.
ToolUnknown(c, s) ==
    /\ pc[c] = "idle" /\ model[s] = NoModel
    /\ \E parses \in BOOLEAN : Merged(parses)[s] = None
    /\ End(c, "failed")
    /\ UNCHANGED <<rev, files, synced>>

\* Mutant: the row is persisted before the sync.
ResolvePersistsFirst(c, s, r) ==
    /\ pc[c] = "idle"
    /\ yaml' = [yaml EXCEPT ![s] = r]
    /\ StartSync(c, Row("resolve", s, r))
    /\ res' = [res EXCEPT ![c] = "none"]
    /\ UNCHANGED <<rev, model, config, rows, synced>>

\* `resolve_model`: sync first ...
Resolve(c, s, r) ==
    /\ pc[c] = "idle"
    /\ StartSync(c, Row("resolve", s, r))
    /\ res' = [res EXCEPT ![c] = "none"]
    /\ UNCHANGED <<rev, files, rows, synced>>

\* (or refuses a malformed slug or repository at once) ...
ResolveMalformed(c) ==
    /\ pc[c] = "idle"
    /\ End(c, Status("value_error"))
    /\ UNCHANGED <<rev, files, synced>>

\* ... persist after: `_merge_user_yaml_row`.
Persist(c) ==
    /\ pc[c] = "persist"
    /\ yaml' = [yaml EXCEPT ![req[c].slug] = req[c].repo]
    /\ Answer(c, "resolved", req[c], got[c])
    /\ UNCHANGED <<rev, model, config, synced>>

\* The file does not parse, or cannot be written: the model stays synced.
PersistFails(c) ==
    /\ pc[c] = "persist"
    /\ End(c, "sync_failed")
    /\ UNCHANGED <<rev, files, synced>>

\* `prefetch`: the cache directory cannot be made, or the strict loader raises on
\* a user file that it cannot parse ...
PrefetchFails(c) ==
    /\ pc[c] = "idle"
    /\ \E why \in {"os_error", "value_error"} : End(c, Exit(why))
    /\ UNCHANGED <<rev, files, synced>>

\* ... or it reads the merged tracked set, to sync it row by row.
Prefetch(c) ==
    /\ pc[c] = "idle"
    /\ rows' = [rows EXCEPT ![c] = Merged(TRUE)]
    /\ Goto(c, "next")
    /\ got' = [got EXCEPT ![c] = None]
    /\ res' = [res EXCEPT ![c] = "none"]
    /\ req' = [req EXCEPT ![c] = NoRequest]
    /\ UNCHANGED <<rev, files, sha, synced>>

PrefetchRow(c, s) ==
    /\ pc[c] = "next" /\ rows[c][s] # None
    /\ StartSync(c, Row("prefetch", s, rows[c][s]))
    /\ rows' = [rows EXCEPT ![c][s] = None]
    /\ UNCHANGED <<rev, files, res, synced>>

PrefetchSynced(c) ==
    /\ pc[c] = "next" /\ rows[c] = Nothing
    /\ Goto(c, "warm")
    /\ UNCHANGED <<rev, files, req, sha, rows, got, res, synced>>

\* load_runtime_deps for the ComputePrices caches, then the Artificial Analysis
\* client: an endpoint that does not answer is nothing; a client error of
\* ComputePrices, or a file that cannot be written, is.
Warm(c) ==
    /\ pc[c] = "warm"
    /\ End(c, "exit_0") \/ \E why \in {"client_error", "os_error"} : End(c, Exit(why))
    /\ UNCHANGED <<rev, files, synced>>

-----------------------------------------------------------------------------
(* `sync_model`.                                                            *)

\* Mutant: the stale fallback does not look at the repository.
CachedForSlug(c) == model[req[c].slug] # NoModel

\* The cached model is taken only for the repository asked, and, while the Hub
\* answers, for its head commit; its parameters are not compared.
Cached(c) == model[req[c].slug].repo = req[c].repo
CachedAt(c, v) == Cached(c) /\ model[req[c].slug].rev = v

\* Mutant: the response comes out of a cache of responses.
HeadsEver(c) == 1..rev[req[c].repo]

\* A response names the head there was at some moment since it was asked for.
Heads(c) == sha[c]..rev[req[c].repo]

\* The model-info response: its bytes go to disk (<slug>.info.json, which no code
\* reads back, is not among `files`), then it is looked at.
InfoAnswer(c) ==
    /\ pc[c] = "info"
    /\ \E v \in Heads(c) :
         IF CachedAt(c, v)
         THEN SyncReturns(c, model[req[c].slug])
         ELSE /\ Goto(c, "config") /\ sha' = [sha EXCEPT ![c] = v]
              /\ UNCHANGED <<req, rows, got, res, synced>>
    /\ UNCHANGED <<rev, files>>

\* Not JSON, or no usable `sha`.
InfoMalformed(c) ==
    /\ pc[c] = "info"
    /\ SyncRaises(c, "value_error")
    /\ UNCHANGED <<rev, files>>

\* Either request: a client error is raised at once ...
Denied(c) ==
    /\ pc[c] \in {"info", "config"}
    /\ \E why \in {"not_found", "client_error"} : SyncRaises(c, why)
    /\ UNCHANGED <<rev, files>>

\* ... any other failure, after its retries, falls back to whatever model of
\* the repository is on disk, of any commit.
Unreachable(c) ==
    /\ pc[c] \in {"info", "config"}
    /\ IF Cached(c)
       THEN SyncReturns(c, model[req[c].slug])
       ELSE SyncRaises(c, "unavailable")
    /\ UNCHANGED <<rev, files>>

\* What from_hf_config is given: the configuration of that repository's commit.
Asked(c) == [repo |-> req[c].repo, rev |-> sha[c]]

\* Mutant: config.json is only kept once it has been accepted.
ConfigAnswerUnkept(c) ==
    /\ pc[c] = "config" /\ Goto(c, "parse")
    /\ UNCHANGED <<rev, files, req, sha, rows, got, res, synced>>

\* config.json of that commit: its bytes go to disk ...
ConfigAnswer(c) ==
    /\ pc[c] = "config" /\ Goto(c, "parse")
    /\ config' = [config EXCEPT ![req[c].slug] = Asked(c)]
    /\ UNCHANGED <<rev, model, yaml, req, sha, rows, got, res, synced>>

\* Mutant: a configuration that is refused takes the cached model with it.
RejectAndPurge(c) ==
    /\ pc[c] = "parse"
    /\ model' = [model EXCEPT ![req[c].slug] = NoModel]
    /\ SyncRaises(c, "value_error")
    /\ UNCHANGED <<rev, config, yaml>>

\* Mutant: the commit is not handed on to from_hf_config.
NewModelWithoutCommit(c) == [repo |-> req[c].repo, rev |-> 0, params |-> req[c].params]

\* What from_hf_config makes of it, of what concerns the catalog: the parameters
\* are the caller's.
NewModel(c) == [repo |-> req[c].repo, rev |-> sha[c], params |-> req[c].params]

\* Mutant: a model whose configuration is refused is stored all the same.
RejectButStore(c) ==
    /\ pc[c] = "parse"
    /\ model' = [model EXCEPT ![req[c].slug] = NewModel(c)]
    /\ SyncRaises(c, "value_error")
    /\ UNCHANGED <<rev, config, yaml>>

\* ... and it is refused ...
Reject(c) ==
    /\ pc[c] = "parse"
    /\ \E why \in Parsed \ {"none"} : SyncRaises(c, why)
    /\ UNCHANGED <<rev, files>>

\* ... or projected and stored.
WriteModel(c) ==
    /\ pc[c] = "parse" /\ "none" \in Parsed
    /\ model' = [model EXCEPT ![req[c].slug] = NewModel(c)]
    /\ SyncReturns(c, NewModel(c))
    /\ UNCHANGED <<rev, config, yaml>>

\* One of the three writes fails.
DiskError(c) ==
    /\ pc[c] \in {"info", "config", "parse"}
    /\ SyncRaises(c, "os_error")
    /\ UNCHANGED <<rev, files>>

-----------------------------------------------------------------------------
(* The world outside the calls.                                             *)

\* The process dies, or the client disconnects and its handler is cancelled.
Crash(c) ==
    /\ pc[c] # "idle"
    /\ End(c, "none")
    /\ UNCHANGED <<rev, files, synced>>

\* A commit upstream.
Push(r) ==
    /\ rev[r] < MaxRev /\ rev' = [rev EXCEPT ![r] = @ + 1]
    /\ UNCHANGED <<files, pc, req, sha, rows, got, res, synced, lapped, crossed>>

Calling(c) ==
    \/ \E s \in Slugs : ToolCached(c, s) \/ ToolLazySync(c, s) \/ ToolUnknown(c, s)
    \/ ResolveMalformed(c) \/ \E s \in Slugs, r \in Repos : Resolve(c, s, r)
    \/ Persist(c) \/ PersistFails(c)
    \/ PrefetchFails(c) \/ Prefetch(c) \/ \E s \in Slugs : PrefetchRow(c, s)
    \/ PrefetchSynced(c) \/ Warm(c)

Syncing(c) ==
    \/ InfoAnswer(c) \/ InfoMalformed(c) \/ Denied(c) \/ Unreachable(c)
    \/ ConfigAnswer(c) \/ Reject(c) \/ WriteModel(c) \/ DiskError(c)

\* For the record: a step of c that writes a model overtakes the other syncs of the
\* slug that are under way; a sync that begins or ends is not behind. One that writes
\* another config.json crosses those that have written theirs and not their model yet.
Overtakes(c) ==
    /\ lapped' = {d \in Calls :
          /\ pc'[d] \in {"info", "config", "parse"}
          /\ IF d = c THEN d \in lapped /\ pc'[d] # "info"
                      ELSE d \in lapped \/ model'[req[d].slug] # model[req[d].slug]}
    /\ crossed' = {d \in Calls \ {c} :
          /\ pc'[d] = "parse"
          /\ d \in crossed \/ config'[req[d].slug] # config[req[d].slug]}

Next ==
    \/ \E c \in Calls : (Calling(c) \/ Syncing(c) \/ Crash(c)) /\ Overtakes(c)
    \/ \E r \in Moving : Push(r)

Spec == Init /\ [][Next]_vars

-----------------------------------------------------------------------------
(* Properties.                                                              *)

\* hf_sync.py:487-495: whatever else re-points or rewrites the slug meanwhile,
\* reachable Hub or not, a sync never answers with the model of another
\* repository than it was asked for.
SyncedIsAsked ==
    \A c \in Calls :
        (res[c] = "resolved" \/ pc[c] = "persist") => got[c] = req[c].repo

\* dispatch.py:180-187: user_models.yaml never holds a row that no sync has
\* succeeded for, whatever fails, dies or is cancelled on the way.
RowsWereSynced ==
    \A s \in Slugs : yaml[s] # None => <<s, yaml[s]>> \in synced

\* A slug once synced stays answerable: no failed, refused, cancelled or
\* overlapping sync takes its model off the disk.
SyncedStaysOnDisk == \A p \in synced : model[p[1]] # NoModel

\* ADR-015, raw bytes on disk before they are parsed (hf_sync.py:260-272): when a model
\* is put on disk, config.json beside it is the configuration it was made from, of that
\* repository and commit, whatever syncs of the slug failed or died before; only one
\* that came between the two writes may have replaced it. (Afterwards it may be, under
\* the model that is there: by the response of a sync that is then refused or dies.)
ProjectedFromDisk ==
    [][\A s \in Slugs :
        model'[s] # model[s]
            => \/ config[s] = [repo |-> model'[s].repo, rev |-> model'[s].rev]
               \/ \E c \in crossed : pc[c] = "parse" /\ req[c].slug = s /\ pc'[c] # pc[c]]_vars

\* deps.py:178-179: "a user can't accidentally shadow a curated tracked model":
\* a tool asked for a curated slug answers from the curated repository.
CuratedNeverShadowed ==
    \A c \in Calls :
        (res[c] \in {"cached", "resolved"} /\ req[c].kind = "tool"
            /\ req[c].slug \in DOMAIN Curated)
        => got[c] = Curated[req[c].slug]

\* hf_sync.py:236-341: a slug goes back to an older commit of its repository only by
\* a sync that another one has overtaken while it ran. Syncs that follow each other,
\* or that find the Hub unreachable, or fail half way, only ever bring newer ones.
CommitsOnlyAdvance ==
    [][\A s \in Slugs :
        model'[s].repo = model[s].repo /\ model'[s].rev < model[s].rev
            => \E c \in lapped : pc[c] = "parse" /\ req[c].slug = s /\ pc'[c] # pc[c]]_vars

-----------------------------------------------------------------------------
(* The catalog keeps the contract of ModelShelf: of all that the calls do,  *)
(* a reader sees a sync that answers, at once, and a row that is persisted. *)

Shelf == INSTANCE ModelShelf WITH
    shelf <- [s \in Slugs |-> model[s].repo], tracked <- yaml

\* However calls overlap, fail, die or are cancelled between their requests and
\* their writes, what they leave behind is what whole syncs leave, one after the
\* other. (hf_sync.py:183-342, dispatch.py:122-286)
ImplementsShelf == Shelf!Spec
=============================================================================
