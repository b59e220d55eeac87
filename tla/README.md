# A verification development of whatcanirun

TLA+ modules of whatcanirun (`src/src/whatcanirun/`), an MCP server that answers questions
about what it costs to run a language model somewhere: which GPUs fit it, which
deployment is cheapest, how many prompts a budget buys. This document is the map from the
program to the modules, the TLC runs and the TLAPS proofs. All paths are relative to
`src/src/whatcanirun/` unless they start with `src/`.

| file | what it is |
|---|---|
| `ComputePrices.tla` | the ComputePrices client, file operation by file operation |
| `LastGoodCache.tla` | what that client promises: one register per endpoint |
| `ArtificialAnalysis.tla` | the Artificial Analysis client |
| `ModelCatalog.tla` | the models on disk: dispatch, `resolve_model`, `prefetch`, `sync_model` |
| `ModelConfig.tla` | from a `config.json` to a model: what is refused and with what, what the fit check sees of the rest |
| `ModelShelf.tla` | what the catalog promises: a sync is one step |
| `ToolCall.tla` | a tool call or resource read: dependencies, dispatch, answer |
| `CostCells.tla`, `Inference.tla` | the pure code it calls: cells, ranking, plans, comparison, confidence; fit and throughput |
| `Curation.tla` | the curation scripts: the sanity check and the merge, side by side |
| `AnchorTable.tla` | what they promise of the parquet: a table that only grows |
| `MCComputePrices.tla`, `MCArtificialAnalysis.tla`, `MCModelCatalog.tla`, `MCToolCall.tla`, `MCCuration.tla` | instances for TLC, with the `.cfg` files beside them |
| `ComputePricesProofs.tla`, `ComputePricesRefinement.tla`, `ArtificialAnalysisProofs.tla`, `ModelCatalogProofs.tla`, `CostCellsProofs.tla`, `ToolCallProofs.tla`, `CheapestProofs.tla`, `CurationProofs.tla` | theorems and proofs |
| `PROJECT.json` | components, runs, mutants, the definition-to-source map, findings, hazards, theorems |

To check: `tlc -config cp_single.cfg MCComputePrices` (and so on, see *Runs*);
`tlapm ComputePricesRefinement.tla` (and the other seven proof modules).

## 1. Inventory

### Components

| component | code | state it keeps | operations | status |
|---|---|---|---|---|
| ComputePrices client | `pricing/computeprices.py` | per endpoint `latest.json`, a `.tmp` file, a directory of gzip snapshots | `get_*`, `get_raw_response`, `prune_snapshots` | modelled |
| Artificial Analysis client | `pricing/artificial_analysis/client.py` | `models.latest.json`, snapshots | `get_models` | modelled |
| HF model sync | `catalog/hf_sync.py` (with `catalog/hf_model.py`) | per slug `info.json`, `config.json`, `model.json` | `sync_model`, `sync_all_tracked`, `from_hf_config` | modelled |
| Model dispatch and `resolve_model` | `mcp_tools/dispatch.py` | `user_models.yaml` | `dispatch_model_request`, `resolve_model` | modelled, between ModelCatalog and ToolCall |
| Runtime dependencies snapshot | `mcp_tools/deps.py` | none: a frozen record built for each call | `load_runtime_deps`, `load_merged_tracked_models` | modelled |
| Cost cells | `plan/cost_cells.py` | none | `query_cost_cells`, `render_cost_cells_resource` | partly: no benchmark anchors, no Parquet |
| Fit check kernel | `inference/fit_check.py` | none | `compute_fit` | modelled |
| Throughput estimator | `inference/tps_estimator.py` | none | `estimate_tps` | partly: the tiers that have a caller, 3 and 4 |
| MCP tools | `mcp_tools/{fit_check,find_cheapest,compare_deployment,budget_to_plan,catalog,prompt}.py` | none | one handler per tool | partly: the four numerical tools |
| MCP resources | `mcp_tools/resources.py` | none | `cost-cells://current`, `cost-cells://provenance` | partly: the first |
| Trust envelopes | `trust/*.py` | none | builders, freshness curves, weakest link | partly: the confidence scores |
| Seeds and loaders | `catalog/loaders.py`, `seed_schemas.py`, `workload.py`, ... | read-only files | strict and lenient loaders | only their strictness |
| Projections | `pricing/projections.py`, ... | none | row validation | as a yes/no in the clients |
| Server entry point and paths | `server.py`, `paths.py` | none | tool registration, `prefetch` | partly: `prefetch` |
| Benchmark curation scripts | `src/scripts/m10/` | candidate files, `.sanity-passed` sidecars, `seeds/benchmark_cells.parquet` and its `.tmp` | `sanity_check_cells`, `merge_candidate_to_parquet` | modelled |

### How they interact

- A numerical **tool call** runs as one asyncio task: `load_runtime_deps` makes six
  ComputePrices calls one after the other (four typed lists and, for the two freshness
  anchors, two raw responses), then reads every `*.model.json` and the merged tracked rows;
  `dispatch_model_request` takes the slug's model from that snapshot (case 1a), syncs it from
  the Hugging Face Hub when the slug is tracked (case 1b), or looks in the ComputePrices LLM
  catalog (cases 2 and 3); pure code then builds the cells, ranks them and wraps the answer
  in a trust envelope.
- **`resolve_model`** (`resolve_model_to_user_yaml`) validates slug and repository, calls
  `sync_model`, and only then writes the row to `user_models.yaml`.
- **`prefetch`** is another process: `sync_all_tracked`, `load_runtime_deps`, and the
  Artificial Analysis client when a key is configured. Several servers (one for each MCP
  client) and a prefetch share one cache directory; nothing locks it.

- **Curation** is apart from the server: a curator edits candidate files of benchmark cells, runs
  the sanity check, which leaves a sidecar beside a clean candidate, and the merge, which wants
  that sidecar and appends the candidate to the parquet. Files of the working tree are all that
  connects the runs, and nothing locks them.

What the server shares is therefore the cache directory and `user_models.yaml`; there is no shared
memory but the event loop.

### What is hard

1. *Interleaving at awaits.* Calls of one server interleave whenever one awaits a request
   or a back-off sleep; everything read before may be stale after.
2. *Several processes on one directory.* Every open, write, rename, listing and unlink of
   one process falls between any two of the other.
3. *Crashes and cancellation.* A kill between two file operations leaves half-written
   files; a disconnecting client cancels its task at an await.
4. *Failure of upstream.* Transient failure (retried), client error, a 200 that is
   malformed, rows that do not project: each takes another path to the disk or to the caller.
5. *Fallback.* Old `latest.json`, then snapshots, any of them truncated or damaged.
6. *Stale snapshots of the catalog* while another call re-points the slug.
7. *Checked, then used.* A candidate is checked against one state of the parquet and merged into
   another; it can be edited in between.

`PROJECT.json` lists each such hazard at its line, with the properties that cover it or the
reason none does yet.

### What makes each component correct

- *ComputePrices*: never hands out a torn or mixed list; once it has served prices it never
  reports "nothing to serve" again; the fallback picks the newest usable snapshot;
  snapshots live as long as the retention window, counted from the second they are named after;
  every call ends. In short, it is a register per endpoint.
- *Artificial Analysis*: a response without a list never replaces the good file; failure
  never empties the answer of a client that had one.
- *Model catalog*: whatever overlaps, fails or dies, the files go through whole syncs; a sync never
  answers with another repository's model; only a sync that another overtook takes a slug back to
  an older commit; no row is in
  `user_models.yaml` that was never synced; a synced slug stays answerable; a model is put on
  disk beside the configuration it was made from; curated rows win; a model gets the family of its
  name's most specific prefix.
- *Tools*: the cheapest offers are the cheapest of all there are, also for a model synced
  during the call; every tool and the resource tell the same figures of one deployment; a plan
  promises what the budget pays for, to within the rounding of one quotient; the best rentals are in it.
- *Fit, throughput, envelopes*: the reason for a misfit is the obstacle; no answer is trusted
  more than the cells it is made of, or, where the code scores the age of the data, than that age allows.
  One unusable model does not spoil the resource.
- *Curation*: the parquet only grows, by whole batches of new op-points, wherever a merge is
  killed; exit code 0 means the rows are there; a verdict of the check still holds after later
  merges; an anchor that passed is near what the throughput estimator answers.

## 2. Modules and the code

### ComputePrices

One action per synchronous stretch of the code, split at every file system operation,
because those are the points where another *process* can come in. (One pair is left together:
`exists()` and `stat()` of the TTL check, `pricing/computeprices.py:237-242`. Nothing in the program
removes `latest.json`; outside damage between the two would raise.) Tasks of *one* process
cannot: a task that holds its event loop (`loop[p] = t`) is alone until it awaits or
returns, so `Call`, `Retry`, `Surface`, `Cancel` need a free loop, `Resume` and `GiveUp` take
it, and the awaits give it back.

| actions | code |
|---|---|
| `Call`, `ReadCacheHit`, `ReadCacheCorrupt` | `_fetch_cached_or_live` up to the request, `_cache_age_within_ttl` with jitter, `_read_cache` |
| `Answer`, `Retry`, `GiveUp`, `Surface`, `Resume`, `Cancel` | `_fetch_raw`, `_fetch_raw_with_retry`, the `except` clauses around them |
| `FallbackLatest`, `FallbackMiss`, `ListSnapshots`, `ReadSnapshot`, `SkipSnapshot`, `SnapshotCrashesWalk`, `Unavailable` | the fallback and `_read_most_recent_valid_snapshot` |
| `OpenTmp`, `WriteTmp`, `Replace`, `ReplaceFails` | `_write_cache` |
| `OpenSnapshot`, `WriteSnapshot` | `_write_snapshot` |
| `PruneStart`, `PruneDir`, `PruneFile` (the `stat`), `Unlink`, `PruneFails`, `PruneNext` | `prune_snapshots` |
| `Serve`, `ProjectionFails` | the typed getters and `get_raw_response` |
| `DiskError`, `Crash`, `Tick`, `Publish`, `Tamper` | what happens to the program from outside |

State: `latest`, `tmp`, `snaps` are the files (content and mtime); `fd[t]` says where the file
that `t` opened as `.tmp` is reachable *now*: still under that name, already renamed to
`latest.json` by another writer, or no longer under any name. `Overlay` is what a write leaves
when two writers share the file: the new list, or bytes of both (`Garbled`). Of those the model
assumes that they are not a JSON document with a `data` list, which is all that `_read_cache` asks.
`doomed[t]` is the file a prune has found expired and is about to unlink.
The rest are the locals of the coroutine. `served` is a history variable.

Abstractions: a price list is the number of its upstream version, and `BadRows` says which
versions contain a row that the projection rejects; nothing else about rows matters here. A
snapshot is named after its second, a clock tick in the model. `Garbled` snapshots may raise
`zlib.error`, which the walk does not skip; truncated ones raise `EOFError` or `JSONDecodeError`,
which it does.

### LastGoodCache, and how ComputePrices implements it

The abstract specification: a register per endpoint, filled by `Refresh`, answered from by
`Deliver`, and `Unavailable` only while it has never been filled (ADR-013). The refinement
mapping, in `ComputePrices!Contract`: `store` is the version in `latest.json`, `busy` the
tasks with a call under way, `on` and `answer` the endpoint and the result of their calls.
The linearisation point of a refresh is the rename; a served answer equals the register at the
moment of return, although the call got its payload earlier: it holds because everything
between the rename and the return runs without an await, for one process. With two processes
it is false, and the theorem says so by its assumption `SingleProcess`. The contract is stated for
`Tampering = FALSE`, because a register that someone else empties
promises nothing; the properties of `cp_single` say what is left of it when someone does.

### ArtificialAnalysis

The same shape with another discipline: unique temporary names (so a write is one step), a
snapshot of *every* response before the shape check, promotion of well-shaped ones only, and a
recovery that ends in `[]` and not in an exception. `held` is the payload, `had` a history
variable: `latest.json` was good when the call began. A file is `list`, `bad_rows` (has a list,
but a row does not project), `no_list`, `garbled`, `cut` or `absent`: the distinctions the
client's branches make.

### ModelCatalog

Composes the three users of `sync_model`:

| actions | code |
|---|---|
| `ToolCached`, `ToolLazySync`, `ToolUnknown` | a tool's dispatch, up to its await |
| `Resolve`, `ResolveMalformed`, `Persist`, `PersistFails` | `resolve_model`, with its statuses in `Status` |
| `PrefetchFails`, `Prefetch`, `PrefetchRow`, `PrefetchSynced`, `Warm` | the command `prefetch` of `server.py` with `sync_all_tracked`, to its exit (`Exit`: 0, 1 with a diagnostic, or a traceback) |
| `InfoAnswer`, `InfoMalformed`, `Denied`, `Unreachable`, `ConfigAnswer`, `Reject`, `WriteModel`, `DiskError` | `sync_model` |
| `Crash`, `Push` | what happens from outside |

A model is the repository and commit it was synced from and whether it was given the seed
row's parameters; `Merged` is `load_merged_tracked_models`, over a user file that may be malformed
whenever it is read (its editor is the user). While a call waits for `model-info`, `sha` is the head
there was when it asked: the response that `InfoAnswer` takes up names that commit or one pushed
since (`Heads`), for it may have been under way while others synced. `Overtakes` records, for the
properties only, which syncs under way another one has overtaken (`lapped`), and which have had the `config.json` they
stored replaced by another's before they wrote their model (`crossed`). `config` is that file: the
repository and the commit it is of (`Asked`). `info.json` is written and never read, so it is no
variable. `SyncReturns` and `SyncRaises` say
what each caller makes of the result: a tool falls through to ComputePrices, `resolve_model`
reports, prefetch skips the row, but dies of the `TypeError`, `KeyError`, `ZeroDivisionError`
and `OSError` it does not catch. Which of them a `config.json` raises, if any, is computed by
`ModelConfig`: `Reject` ranges over what the configurations in `Configs` are refused with.

`ModelConfig` follows `sync_model` from `json.loads` to `from_hf_config` in its order: the body, the
`architectures` key, the family (`FamilyPrefixes` is the table, a name being a sequence of words, so
that one name can be a prefix of another), the required keys, then the six conversions. Of a field it
keeps whether it is a number and which; `HasHeadDim` is Python's `or`. `PerToken` is what the fit
check later multiplies by the tokens: `MCToolCall` checks with it (`ArchIsProjected`) that the models
the tools run on are what syncs of five configurations yield.

`ModelShelf` is the contract: a slug's repository (`shelf`), the rows of `user_models.yaml`
(`tracked`) and the pairs that have synced, with two steps, `Sync` and `Track`. The refinement maps
`WriteModel` and every answer from a cached model to `Sync`, `Persist` to `Track`, and all other steps,
the failing and the dying ones above all, to nothing. `ToolCall` relies on it: its `Appear` is the
`Sync` of somebody else.

`cat_shared` has a `VIEW`, `Seen`: states that differ only in a `config.json` whose slug no call is
about to write a model for count as one. No action reads the file (a sync parses the response it holds);
only `crossed` and `ProjectedFromDisk` do, and only for a slug whose model is about to be written, so
such states have the same successors but for the file, and satisfy the same properties.

Abstractions: warming the price caches is one step by its outcomes (its calls are those of the two
clients, modelled apart). Cases 2 and 3 of the dispatch are one step (they differ in what ComputePrices
lists, not in the catalog). The tool's snapshot of models and rows and its dispatch up to the
first await are one step: exact within a server; of two processes, another's write between
those two reads is taken to fall before or after both. `Persist` is a step of its own after
`WriteModel`, although no await separates them, because the other process may come in between;
the read, merge and rename of `user_models.yaml` inside it are one step (its fixed temporary
name, shared by processes, is accepted in `mcp_tools/dispatch.py:101-106`).

### ToolCall, CostCells, Inference

`ToolCall` is one call of a tool, or one read of the resource, with the world around it. It
uses the ComputePrices client through its contract (`LastGoodCache`): `store` has the last good
list of each endpoint, and `Refresh` is anybody's successful call. The contract allows that
each list read is of another generation and that the date read later is of another one still.

| actions | code |
|---|---|
| `Start`, `Unwritable`, `ReadList`, `ReadDate`, `ReadEscapes`, `ReadModels` | `load_runtime_deps`: four lists, two anchors, the model files; `_fetch_or_empty`, `_meta_generated_at` and what neither catches |
| `Dispatch`, `LazySync`, `LazySyncFails` (with `FallBack`) | `dispatch_model_request`, cases 1a, 1b, 2, 3 |
| `FindCheapest`, `BudgetToPlan`, `Elicit`, `CompareDeploymentModes`, `FitCheck` | the tools: which case goes where, which argument raises, which cells are built |
| `RenderCurrent` | `render_current_cost_cells` from the `try` on |
| `Return` | the answer goes out, or the call is cancelled at an await |
| `Refresh`, `Appear` | other calls and processes |

`CostCells` has the pure code as operators over a *world*, the rows a query gets: `Rentals`,
`Hosted` and `QueryRaises` are the two branches of `query_cost_cells` and its one uncaught
exception; `Cheapest` the ranking, which relates a list to all the results that a sort with ties
may give; `Plans`, `Comparison` the two other builders (the latter with what the tool's filters leave:
at most a rental, see *Divergences*); `Confidence`, `WithWorkload`,
`MergedScores`, `FreshnessConfidence` the scores. `Inference` has `compute_fit` and
`estimate_tps`.

Abstractions. *Floats*: memory in 1/160 GB, rates as fractions, money in units that
divide what occurs, all exact but for one quotient. The number of prompts is `floor` of a float
quotient (`mcp_tools/budget_to_plan.py:92`), one off where that is almost whole: `Prompts` is the set of what
it may be when the quotient is off by at most one part in `Precision`, and `RowsOf` has a row for
each. (2^50 would do for doubles, the errors within the cost expression included.) The plan's order
by cost per million tokens, and the sum of a fit that is almost the memory, are taken exactly. *Lists are
sets*: equal rows
count once, and which of two equally cheap rows comes first is free; so is which cell "the first"
is in a comparison. The *default context length* 4096 is 1, as the unit of context is free.
`Elsewhere`: what others do after the last read is unseen by the call, whose remaining steps look
at its own snapshot and at the model it syncs; those steps may equally come before the next call,
so the model leaves them out between.

### Curation and AnchorTable

`StartCheck`, `BuildContext`, `EndCheck` are `sanity_check_cells.main`: load the candidate, read
the parquet, run the eleven checks, leave the sidecar. `StartMerge`, `LoadExisting`, `OpenTmp`,
`WriteTable`, `Replace` (or `ReplaceFails`) are `merge_candidate_to_parquet.main` with its
`_atomic_write`, split at every file operation. `Crash` ends a tool anywhere, `Edit` is the
curator. Each check is an operator from what it tells apart in a cell (`CellShape`) to its
severity; texts and regular expressions are reduced to what they decide. `DividesByZero` is the
exception of the scaling check, whose exit code 1 is that of warnings. `run[t].open` says where
the file a merge opened as `.tmp` is by now, as `fd` does in ComputePrices; a file that two
merges have open may end up with bytes of both (`Written`).

A parquet that does not exist is read as one without rows by both tools, so `Init` allows the seeded
table and none. What the tools advise for a re-measurement, that the curator delete the old row from
the parquet first, is not modelled: the scripts do not do it, a verdict that rested on the deleted
row would not outlive it (`AuditStands`), and the table would not only grow.

`AnchorTable` is the promise: rows are only added, in batches disjoint from what is there, until
two merges overlap (`Forfeit`), for which the scripts promise nothing. `Curation!Table` maps
its rows to the parquet and `intact` to the history variable `serial`. `edited`, `reported` and
`trusted` are history too: candidates edited since their clean check, cells merged with exit
code 0, and those of them that were merged from unedited candidates.

## 3. Runs

Two tasks or calls, one endpoint, two versions or commits; the clock goes just past the TTL
and the retention window, forward only.

| run | properties | shows | states |
|---|---|---|---|
| `cp_single` | `TypeOK`, `LatestIsWhole`, `NoSpuriousFailure`, `AnswerIsStored`, `LastGoodNeverLost`, `FallbackPicksNewest` | two overlapping calls of one server, with crashes, cancellation, a disk error at every write, and outside damage to `latest.json`: the cache file is never torn by the program itself, the answer is what is stored, the last good list is never lost, the walk ends with the newest usable snapshot | 1.8 M |
| `cp_shared` | `ServedIsPublished`, `RetainedUntilExpired` | two processes, every file operation interleaved, each able to die anywhere: files do get torn, yet no caller is handed one, and no snapshot is pruned within the window of the second it is named after | 0.66 M |
| `cp_contract` | `ImplementsLastGoodCache`, `CallsEnd`, `CallsCountDown` | retries, client errors, malformed answers, rejected rows, disk errors, fair scheduling: the register contract, no loop goes round without coming nearer to its end, and every call ends | 0.31 M |
| `cp_torn` | `NoHalfWrittenCache` violated | see *Divergences* | |
| `cp_adr013` | `NeverFailsWhileCached` violated | see *Divergences* | |
| `aa_shared` | `TypeOK`, `KnownGoodKept`, `EmptyOnlyIfNeverGood` | two prefetches, damaged files, crashes | 2.8 M |
| `aa_snapshot` | `RecoversNewestValid` violated | see *Divergences* | |
| `cat_shared` | `TypeOK`, `SyncedIsAsked`, `RowsWereSynced`, `SyncedStaysOnDisk`, `ProjectedFromDisk`, `ImplementsShelf`, `CommitsOnlyAdvance` | two calls of any kind over a curated and a user's slug, two repositories, new commits, delayed responses, configurations of every kind, a malformed YAML file, crashes: the promises of each sync, that the files go through whole syncs only, back to an older commit only by a sync that was overtaken, and that a model is written beside its own configuration unless another sync came in between | 2.1 M |
| `tools` | `TypeOK`, `CheapestOfAll`, `ToolsAgreeWithTable`, `PlanKeepsItsPromise`, `BestRentalsPlanned`, `TrustIsNotGained`, `ReasonNamesTheObstacle` | all four tools and the resource, with every mixture of filled, empty and unreadable lists and dates, six models (servable with either cache strategy, MLA without its keys, sliding window, of unknown size, hosted only) and every way a call can fail | 1.1 M |
| `tools_resource` | `ResourceAlwaysRenders` violated | see *Divergences* | |
| `cat_shadow` | `CuratedNeverShadowed` violated | see *Divergences* | |
| `curate` | `TypeOK`, `AuditStands`, `AnchorsNearEstimate`, `ExitZeroMeansMerged`, `TableContract` | two tools at a time, of either kind, over two candidate files edited meanwhile, each killed anywhere: the parquet is an append-only table, merged rows stay, verdicts outlive later merges, anchors are near the estimate | 0.82 M |

**Why the bounds suffice to be interesting.** Two tasks are what every race in the code needs
(one reads or writes between two steps of the other); one endpoint, because endpoints share
nothing except the prune, which visits all of them (the proofs are for any number). Two
versions tell the list in hand from the list stored. `cp_single` has retention 1 and a clock of
0..2, so snapshots both survive and expire and three can exist at once; `cp_shared` has
retention 0, so that a prune can meet a file the other process has listed or is writing.
`cp_contract` has two attempts and all four outcomes, and version 2 has a row that does not
project. In the catalog, one curated and one user slug over two repositories are the least that
lets a slug be re-pointed, shadowed and found under another repository; only one repository
moves. `MCConfigs` has a configuration for every branch of `ModelConfig`. `cp_single` and `cp_shared`
leave out the two outcomes that end a call without touching
files (`client_error`, `malformed`); `cp_contract` has them.

In `tools` there is one generation of data beside the empty one (`MaxVersion` 1): rows mixed from
two generations differ from rows and none only in content, which the properties do not look at
across endpoints, and the date may be there without the rows and the reverse. The rows are chosen
to meet every branch: a free machine, one too small for eight bits and not for four, one without
bandwidth, a price for an unknown GPU, hosted prices without input or output. The arguments
(`MCCheapestArgs`, `MCBudgetArgs`, `MCCompareArgs`, `MCFitArgs`) have a `top_n` below, at and
above zero, budgets that are negative, nothing, too little and enough, a batch that the heuristic
refuses and one that raises, slugs that do not exist. `Precision` is 1000, and budgets
and prices do meet the quotients where it matters: one that is whole, so that a budget of 7 buys 6
prompts or 7. One call at a time: calls only meet in the caches, where `Refresh` and `Appear` stand
for all others.

In `curate` three contents suffice for each verdict to matter: a candidate with two measurements of
one op-point (the check compares with the parquet only, so both are merged, and which of the two is
the *first* peer decides what a batched cell is judged by), a batched one, and one that is too fast
to be true; the seeded row is of a sparse model, whose parameters in total would predict another
figure. The window is 0 and there are two days, so measurements go stale between two checks. No
cell has a throughput of 0, at which the scaling check divides by zero; the theorem `VerdictsLast` covers it.
Once two merges have overlapped, `OverlapEnds` (an action constraint of the run) lets the merges at
work end and starts nothing new: the properties promise nothing from there on, except
the two that do not ask `serial`, which are proved for any number of overlapping merges.

**Symmetry** is used where a run states safety only: the tasks of one process, two processes
with their task, the two prefetches, the two calls, the two tools and the two candidate files.
`cp_contract` checks liveness and uses none.

**Deadlock** is checked in every run: some call can always begin.

Each property of a passing run has a mutant, a definition beside the one it replaces (marked
`Mutant:`) that makes a plausible mistake, such as writing in place, honouring the TTL in the
fallback or persisting before the sync; TLC finds the property violated under it.

### Fairness

`FairSpec` gives each task weak fairness on its synchronous steps, since a coroutine that holds
the loop runs, and strong fairness on the steps that resume it (`Suspended`): asyncio runs the
callbacks in its ready queue in turn, so a task that is ready whenever the loop frees gets it,
although the loop is taken in between; the back-off sleeps end by themselves, and so does every
request, by httpx's timeout of 30 s. That timeout is for each period without progress, so a server
that trickles its answer for ever is assumed away. Nothing is assumed of callers, crashes, cancellation, time or
upstream.

### Divergences

Places where the code does something else than a comment or a document of the repository
says; each is a run whose one property states that sentence, and whose counterexample shows how.

- `cp_torn`: "Atomic write: tmp file + rename so a crash mid-write can't leave a half-written
  cache file" (`pricing/computeprices.py:272-273`). Two processes share the temporary name: A opens
  it, B opens it, A renames it, B now writes into `latest.json` and dies. The next reader
  copes (`ServedIsPublished` holds), but the comment's claim fails.
- `cp_adr013`: "Tool calls never fail outright on CP failure" (ADR-013). A 4xx other than 429
  and a 200 without a `data` list end the call although a usable list is cached.
- `aa_snapshot`: the recovery documents "most-recent valid snapshot", but takes the newest one
  that decodes to an object; if that is a response without a list (every response is
  snapshotted), the answer is `[]` in spite of an older valid one.
- `cat_shadow`: "a user can't accidentally shadow a curated tracked model"
  (`mcp_tools/deps.py:178-179`). `resolve_model` of a curated slug under another repository
  overwrites `<slug>.model.json`, and the dispatch reads models by slug, before rows.
- `tools_resource`: the resource "MUST NOT fail the read on cache failure ... The client always
  gets a valid parquet response" (`mcp_tools/resources.py:161-169`). A cached MLA model whose
  `config.json` lacks `kv_lora_rank` or `qk_rope_head_dim` (no sync looks) makes `compute_fit`
  raise `ValueError`; `query_cost_cells` skips `NotImplementedError` only, and the rendering is
  outside the handler's `try`. It needs the models read, and one price of a known GPU.

Three that the repository knows of itself, as limits of this version, so that no run states them;
what holds of the code is in the properties.

- `compare_deployment_modes` is a "cross-mode comparison" (`mcp_tools/compare_deployment.py:3`, likewise
  `src/spec/M09-mcp-server.md:28-29, 269`). It always filters by GPU and quantization, which drops every
  hosted cell (`plan/cost_cells.py:289-292`): the hosted side is always missing and the verdict always
  "unknown", which `ToolsAgreeWithTable` says. `src/docs/SCENARIOS.md:177-195` records it.
- Prices are to be trusted by their age, 0.40 beyond a day (`src/docs/TRUST.md:94-99, 227`,
  `src/spec/SHARED.md:80-88`). Cells of a known architecture carry the constants 0.95 for pricing and 0.80
  for freshness instead (`plan/cost_cells.py:518-527, 543-547`; `src/docs/SCENARIOS.md:145-154` records
  the second), so `TrustIsNotGained` speaks of ages only where the code looks at them: the fit check,
  and the cells of an unknown architecture.
- A plan's number of prompts is the floor of a float quotient: a budget of 0.3 buys 2 prompts at 0.1.
  `PlanKeepsItsPromise` allows one part in `Precision`.

Two about files that are not what lies beside them would suggest. `config.json` is replaced by every
response (`catalog/hf_sync.py:272`), also one that is then refused (`:312`) or whose sync dies, and stays
beside the model made from an earlier one: `ProjectedFromDisk` holds of the moment a model is
written. And a snapshot counts as expired by its mtime, read before it is unlinked
(`pricing/computeprices.py:347-348`): a writer that needed longer than the retention window may finish
the file between the two, and a complete, fresh one goes. `RetainedUntilExpired` holds of the second
in the file's name.

One between the curation check and the estimator it is to be "in lock-step" with
(`src/scripts/m10/sanity_check_cells.py:46-49`): for a sparse model the check takes the active
parameters (`:406-418`), the estimator the total ones (`inference/tps_estimator.py:200-204`).
`AnchorsNearEstimate` is about dense models, where the two agree.

Two more that no run states, since what they contradict is a hope more than a promise.
`sync_all_tracked` is said to give a curated model the parameters of its row
(`catalog/hf_sync.py:162-164`), but a cached model of the same repository and commit, synced without
them by `resolve_model`, is returned as it is (`:236-238`). And the merge calls its gate one that
makes unchecked merges impossible "by construction" (`merge_candidate_to_parquet.py:4-8`): it asks only
that a sidecar exists, which a candidate edited after its clean check still has; `AuditStands` and
`AnchorsNearEstimate` therefore speak of `trusted` cells.

And three about what ends a prefetch or how a refusal is named. `prefetch` says that it returns
"non-zero only on a setup failure that prevents either step from running at all"
(`server.py:144-145`), and `sync_all_tracked` that one bad model does not abort the whole sync
(`catalog/hf_sync.py:362-363`): a config whose field has the wrong type, a malformed row of
`user_models.yaml` or a 4xx of ComputePrices end it with a traceback after rows were synced
(the same document lets "anything else" propagate). And `resolve_model` gives an unsupported
architecture as `not_found_on_hf`, for it is a `ValueError` (`mcp_tools/dispatch.py:225-235`), where the
comment speaks of a malformed slug or repository only.

## 4. Proofs

All theorems are for any finite or infinite sets of tasks, processes, slugs and
repositories and any bounds, under the named assumptions on the constants:
`ConstantsAssumption`, `EndpointsAssumption` (ComputePrices), `ParametersAssumption`
(ArtificialAnalysis), `CatalogAssumption`, `ConfigsAssumption` (ModelCatalog), `NoneAssumption`,
`PrecisionAssumption` (CostCells), `ToolAssumption`, `ContentAssumption`, `ArgsAssumption`, `FinitenessAssumption`
(ToolCall), `CurationAssumption` (Curation). They say that numbers are numbers, that `None` is
not one (and is not a fraction), that the seeds name known slugs and repositories, that an endpoint
never filled has no rows and the oldest date, which arguments are required, and that what the
code loops over is finite: the endpoints, the rows of a price list, the quantizations. TLC evaluates them
in every run.

| module | theorem | what it says |
|---|---|---|
| ComputePricesProofs | `TypeCorrect` | `Spec => []TypeOK` |
| | `OnlyPublishedIsServed` | `[]ServedIsPublished`, with any number of processes |
| | `LatestStaysWhole` | `SingleProcess =>` `[]LatestIsWhole` |
| | `OwnFilesNeverVanish` | `SingleProcess =>` `[]NoSpuriousFailure` |
| | `AnswersAreStored` | `SingleProcess =>` `[]AnswerIsStored` |
| ComputePricesRefinement | `LastGoodIsNeverLost` | `SingleProcess =>` `LastGoodNeverLost` |
| | `SnapshotsAreRetained` | `RetainedUntilExpired`, with any number of processes |
| | `FallbackIsNewest` | `SingleProcess =>` `FallbackPicksNewest` |
| | `EveryStepCountsDown` | `CallsCountDown`, with any number of processes |
| | `CountdownsEnd` | the countdown is always five natural numbers, and no infinite sequence of them descends |
| | `ClientKeepsContract` | one process and no tampering: `Spec => Contract!Spec` |
| ArtificialAnalysisProofs | `TypeCorrect` | `Spec => []TypeOK` |
| | `OnlyGoodIsPromoted`, `FailureNeverEmpties` | `[]KnownGoodKept`, `EmptyOnlyIfNeverGood` |
| ModelCatalogProofs | `TypeCorrect`, `NeverAnotherRepository`, `OnlySyncedRows`, `SyncedIsKept` | the invariants of `cat_shared` |
| | `ProjectionsLieBesideTheirConfig` | `ProjectedFromDisk` |
| | `NoSilentRollback` | `CommitsOnlyAdvance` |
| | `KeepsTheContract` | `Spec => ImplementsShelf`, that is `Spec => Shelf!Spec` |
| | `MostSpecificFamily` | for every name, the first match in the family table is the longest |
| ToolCallProofs | `TypeCorrect` | `Spec => []TypeOK` |
| | `PlansArePaidFor`, `BestRentalsAlways` | `[]PlanKeepsItsPromise`, `[]BestRentalsPlanned` |
| | `OneStory` | `[]ToolsAgreeWithTable` |
| | `TrustNeverGrows` | `[]TrustIsNotGained` |
| | `ReasonsAreReasons` | `[]ReasonNamesTheObstacle` |
| CheapestProofs | `NoCheaperOffer` | `[]CheapestOfAll` |
| CurationProofs | `TypeCorrect` | `Spec => []TypeOK` |
| | `VerdictsLast`, `AnchorsCredible`, `MergedIsThere` | `[]AuditStands`, `[]AnchorsNearEstimate`, `[]ExitZeroMeansMerged` |
| | `TableIsKept` | `Spec => TableContract`, that is `Spec => Table!Spec` |

**The arguments.**

*What is served was published.* `ServedIsPublished` speaks of results only. `Provenance` makes
it inductive: wherever a version number appears, in a file, a payload or a result, upstream has
published it (`HeldIsPublished`, `StoredIsPublished`, `AnsweredIsPublished`), a task past its
answer holds a payload (`HasPayload`), and a walk looks at its own endpoint's snapshots
(`WalksOwn`). It needs nothing of the interleaving: torn files are never a version.

*One process.* `LatestIsWhole` is not inductive: one must know that no other writer has the
temporary file open. `LoneProcess` says for each task that it holds the loop during its
synchronous stretch (`LoopHeld`), hence that the `.tmp` file is the one it opened and contains
what it wrote (`OwnsTmp`), likewise its snapshot (`OwnsSnapshot`), that the files it
listed are still there (`SeesFiles`), that what it is about to return is in `latest.json`
(`HeldIsStored`), and that it turns to the snapshots only while there is no `latest.json` (`FallsBackWhenEmpty`, as
long as nothing outside has damaged it); and of the files that `latest.json` is whole, that no
snapshot is garbled, and that without a `latest.json` nothing was ever answered or completely
snapshotted (`EmptyMeansNew`). Two tasks cannot both
hold the loop, which disposes of every step of one under the nose of the other.

*Retention.* A prune decides by a cutoff it fixed earlier, on a listing it took earlier, by an mtime
it read before it unlinks; another process may rewrite the file at any point in between. What it
cannot do is make the file's *name* younger. The proof has four facts: a clock reading lies in the
past (`ClockIsPast`); no file has an mtime before the second it is named after (`NamedWhenOpened`), since
that is the second it was opened in; so a file doomed for its mtime is named after a second that is
out of the window of that reading (`DoomedIsOld`), which no rewriting changes; and only `Unlink`
takes a snapshot away, one that its task has doomed (`OnlyUnlinkRemoves`). Of the mtime the same is
false, see *Divergences*.

*The walk.* `FallbackPicksNewest` speaks of the step that ends the walk, so the invariant is about
the walk under way: `SeesHistory`, what it has still to look at includes every usable snapshot
there is. The listing makes it true, skipping an unusable one keeps it, and with one process no
other task can add, rewrite or prune a snapshot while this one holds the loop: `Newest` of what is
left is then the newest of all as soon as it is usable. (With two processes a snapshot may appear
during the walk, and the newest is then not the one found.)

*The loops.* A call has three: the retries, the walk, and the prune, a loop over directories with
one over files in it. The first is bounded by a counter, the other two by what the call listed,
which other processes change on the disk meanwhile. `Countdown` is what is left of each, attempts
first, files last: every step of the call lowers it lexicographically, and no step of another task
touches it (`OthersKeepCountdown`). That needs `FreshTries`, a call begins with all its attempts
before it, and that listings are finite. `CountdownsEnd` adds that the order is well-founded. `CallsEnd` is
this with fairness: the prover has the variant, TLC the liveness.

*Refinement.* `Replace` maps to `Refresh`, `Serve` to `Deliver`, `Unavailable` to its namesake,
every other ending to `Fail`, `Crash` and `Publish` to theirs, all else to a stutter.
`HeldIsStored` gives `Deliver` its guard, `FallsBackWhenEmpty` gives `Unavailable` its own.

*Artificial Analysis.* `KnownGoodKept` is inductive with the guard of `Promote`; `Remembered`
adds that a call which began with a good file still has one, or has had it damaged from
outside, so the recovery never reaches the snapshots.

*Catalog.* `CallsOK` says what a call is sure of at each of its places: the model it is about to persist or
has answered with is of the repository asked, and the pair of a row about to be persisted is in `synced`.
`FilesOK` is the conjunction of the two
file invariants. Models are only replaced by models, so one
call's step cannot spoil another's. The refinement needs of this that a call about to persist
has its pair in `synced`, and that an answer from the cache is of the repository asked.

*Projections.* `ProjectedFromDisk` speaks of the write of a model; between it and the write of its
`config.json` other processes come in, and an earlier sync of the slug may have left any other
configuration there. `Kept` is the invariant: a sync that has its response and that none has crossed
finds on disk what it put there. It begins so, since only the response itself gets a call there
(`IntoParse`), and whoever replaces the file while it waits crosses it.

*Commits.* `CommitsOnlyAdvance` speaks of one write; what carries it is `NotBehind`, a sync that has not
been overtaken knows a commit no older than the one on disk. It holds when the sync asks, because
nothing on disk is newer than its repository's head (`HeadsOK`), it survives an answer, which names the
head of that moment or a later one, and another's write ends it only by making the sync `lapped`. So
a write that goes back is the write of a lapped sync.

*Tools.* An answer is given by one step only and cleared by `Return`; in between, nothing it
speaks of changes (rows, dates, models, route). So each property is shown of the step that
answers, from lemmas about the operators in `CostCellsProofs`: every cell is a rental or a
hosted one of a known form; filtering the dimensions first gives the cells that the table has
under the filter; `Cheapest` selects, and what it leaves is no cheaper than what it takes; each of
`Prompts` lies between the floors of the quotient made smaller and made larger by one part in `Precision`
(`PromptsAre`, whence `RowKeepsItsPromise`: what is promised is paid for by a budget larger by that
part, and one prompt more is not by one smaller by it); a rental's
cost per prompt is its rate times the output, which makes the order by rate the order by
prompts; a minimum over more scores is no larger, so what merges or adds scores adds no trust
(`MergingWeakens`, `WorkloadWeakens`), and a minimum with the score of an age is at most that
(`NoFresherThanItsSources`); no hosted cell passes a filter by GPU (`NoHostedSide`); required memory
grows with batch and context
and available memory with GPUs.

*The cheapest of all.* `CheapestOfAll` compares the answer, a selection of *cells*, with the
*offers* of the market, which are read off the rows with no cell in between. `RentedOffers` and
`BilledOffers` show that each rated cell of a call is the offer of one row under one quantization and
the reverse, for a rental through the fit and the throughput (a rate exists just when the model fits
and its throughput is known). That gives the prices but not the number: two cells could stand for one
offer, and the ranking would then return fewer offers than there are. `CellsDiffer` excludes it: the
assignment of cells to offers is one to one, so finite sets of both have the same cardinality
(`OneToOneCounts`), and `n` cells chosen with nothing cheaper left out are `n` offers chosen with nothing
cheaper left out (`ChosenOffers`).

*Curation.* While merges keep clear of each other (`serial`), at most one merge is under way
(`OneMerge`), the rows it read are the parquet and its `.tmp` file holds what it wrote
(`MergeInStep`), so `Replace` appends. A verdict gets from the check to the parquet in two ways, and the
invariant follows it on both. Of the check: what it read is an initial piece of the parquet
(`CheckReads`), and a peer that is the first of an initial piece is the first of the whole, so a clean
check's verdict holds of every longer parquet; a clean sidecar with an unedited candidate stands for
such a verdict (`SidecarOfSound`). Of the merge: the candidate it read is the one the sidecar stands
for (`CleanIsSound`), and its cells are `trusted` only then (`TrustedAreSound`). The other way round,
a cell whose check found no peer was warned about, so it got no sidecar: later merges cannot give
it a peer. `AnchorsNearEstimate` needs no `serial`: the heuristic looks at the cell alone, and for a
dense model its prediction and tier 3 of the estimator are the same fraction.

**Only model-checked:** `CallsEnd` (liveness under fairness is outside the prover's reach; its
variant is proved, see *The loops*), and that the mutants break what they should. Every other
property of a passing run is stated by a theorem.

## 5. What is not modelled, and why

- Contents of rows, parsing, formatting, logging, HTTP headers and TLS: no property tells them apart.
- The length of back-off sleeps, and the exact jitter: any draw within the range is allowed.
- Clocks that go backwards: mtimes and `now` come from one forward clock.
- Rounding of floats, except in the quotient that becomes the number of prompts.
- The curator's deletion of a parquet row before a re-measurement (see *Curation*).
- Promises about what may go wrong and does: that a second process's prune ends a call, that an older
  answer overwrites a newer one or a rejected list the last good one, that a snapshot of two writers ends
  the walk. All of it is in the model; no property excludes it, because the code permits it and no
  text of the repository denies it (the hazards without properties in `PROJECT.json`).
- Sources, links, caveats, assumptions of envelopes: text. The `reserved` pricing type, which only
  drops a label.
- `display_name` and `native_dtype` of a model, which no code reads back; the slugs and
  repositories that the two patterns of `sync_model` refuse are one case (`ResolveMalformed`).
- Throughput tiers 1 and 2 and the anchors they would add: no caller passes their data.
- `list_catalog`, which projects the same snapshot, and the Parquet encoding.
- That rows and their date may be of two refreshes is in the model; no property says they agree,
  since the code only calls the snapshot one "at one tool-call instant" (`mcp_tools/deps.py:73-74`).
- `prompt.py` (text), benchmark cells inside the server (no caller in this version).

## 6. Plan

In this order; all of them exist.

1. `ComputePrices` with `LastGoodCache`: everything else stands on this cache. *Done.*
2. `ArtificialAnalysis`. *Done.*
3. `ModelCatalog`. *Done.*
4. Proofs of their safety properties and of the refinement. *Done.*
5. `ToolCall` over `CostCells` and `Inference`. *Done; left:* what of the rows' and dates' common
   instant can be promised, and `list_catalog` if a property of it turns up.
6. Proofs of the tools' properties. *Done.*
7. `Curation` over `AnchorTable`, and its proofs. *Done.*
8. `ModelShelf`, the catalog's contract, its refinement from `ModelCatalog` and the proof. *Done.*
9. `ModelConfig`, and `prefetch` from start to exit in `ModelCatalog`. *Done; left:* the calls that
   warm the price caches, as a composition with the two clients.
