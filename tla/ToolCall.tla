------------------------------ MODULE ToolCall ------------------------------
(***************************************************************************)
(* One call of a numerical tool (fit_check, find_cheapest_deployment,      *)
(* compare_deployment_modes, budget_to_plan) or one read of the resource   *)
(* cost-cells://current, from the six cache reads of load_runtime_deps     *)
(* (mcp_tools/deps.py) over the dispatch (mcp_tools/dispatch.py) to the    *)
(* answer. The ComputePrices client is used through its contract, as in    *)
(* LastGoodCache: a register per endpoint, which other calls refresh at    *)
(* any time. Models appear on disk likewise, and stay (ModelCatalog).      *)
(***************************************************************************)
EXTENDS CostCells

CONSTANTS
    Slugs,       \* the models that callers ask for
    Arch,        \* what a sync yields, of those that Hugging Face has: slug -> specification
    Tracked,     \* the slugs with a row in the merged tracked set
    Quants,      \* seeds/quantizations.yaml: slug -> specification
    Workloads,   \* seeds/workload_profiles.yaml: slug -> [input, output] tokens
    MaxVersion,  \* bound on the generations of upstream data
    Content,     \* endpoint -> generation -> rows; generation 0 is the empty list
    Age,         \* generation -> age in hours of its data; of generation 0, for ever
    \* what callers pass
    CheapestArgs, BudgetArgs, CompareArgs, FitArgs

\* The cache reads of a call: four typed lists, then two raw responses for their dates.
Endpoint == {"gpu_prices", "llm_prices", "gpus", "llm_models"}
Dated == {"gpus", "llm_prices"}
Reads == <<"gpu_prices", "llm_prices", "gpus", "llm_models", "gpus", "llm_prices">>
Generation == 0..MaxVersion

ASSUME ToolAssumption ==
    /\ Tracked \subseteq Slugs /\ None \notin Slugs
    /\ DOMAIN Arch \subseteq Slugs /\ Arch \in [DOMAIN Arch -> ModelSpec]
    /\ Quants \in [DOMAIN Quants -> QuantSpec] /\ None \notin DOMAIN Quants
    /\ Workloads \in [DOMAIN Workloads -> [input : Nat \ {0}, output : Nat \ {0}]]

\* The rows: prices of any size, even negative (no projection looks), specifications.
ASSUME ContentAssumption ==
    /\ MaxVersion \in Nat
    /\ Age \in [Generation -> Nat] /\ \A g \in Generation : Age[g] <= Age[0]
    /\ Age[0] >= 24
    /\ Content["gpu_prices"][0] = {} /\ Content["llm_prices"][0] = {}
    /\ Content["llm_models"][0] = {} /\ DOMAIN Content["gpus"][0] = {}
    /\ \A g \in Generation :
          /\ \A p \in Content["gpu_prices"][g] : p.hourly \in Int
          /\ \A p \in Content["llm_prices"][g] :
                p.input \in Int \cup {None} /\ p.output \in Int \cup {None}
          /\ Content["gpus"][g] \in [DOMAIN Content["gpus"][g] -> GpuSpec]

\* Lists that were fetched and files that were read have an end.
ASSUME FinitenessAssumption ==
    /\ IsFiniteSet(DOMAIN Quants)
    /\ \A e \in {"gpu_prices", "llm_prices"}, g \in Generation : IsFiniteSet(Content[e][g])

\* GPU and quantization are required arguments of compare_deployment_modes.
ASSUME ArgsAssumption ==
    /\ \A a \in CheapestArgs : a.top \in Int
    /\ \A a \in BudgetArgs : a.budget \in Int /\ a.top \in Int
    /\ \A a \in CompareArgs : a.gpu # None /\ a.quant # None
    /\ \A a \in FitArgs : a.tp \in Int /\ a.batch \in Int /\ a.ctx \in Int

VARIABLES
    store,     \* the last good list of each endpoint, by generation; 0: none
    cached,    \* the slugs with a model file on disk
    pc,        \* where the call is
    read,      \* which of the reads comes next
    kind,      \* a tool or the resource
    rows,      \* the lists it has read, by generation
    dates,     \* the freshness anchors it has read, by generation
    models,    \* the models it has read
    route,     \* what the dispatch decided: case and slug
    answer

vars == <<store, cached, pc, read, kind, rows, dates, models, route, answer>>
disk == <<store, cached>>

Control == {"idle", "read", "dispatch", "sync", "handle", "done"}
Cases == {"none", "resolved", "hosted_only", "unknown"}
Tools == {"none", "find_cheapest", "compare", "budget_to_plan", "fit_check", "resource"}
Status == {"none", "ok", "unknown", "elicit", "raised"}

NoAnswer == [tool |-> "none", status |-> "none", ask |-> None, items |-> {}]
NoRoute == [case |-> "none", slug |-> None]
Empty == [e \in Endpoint |-> 0]
Undated == [e \in Dated |-> 0]

TypeOK ==
    /\ store \in [Endpoint -> Generation] /\ cached \subseteq DOMAIN Arch
    /\ pc \in Control /\ read \in 1..7 /\ kind \in {"none", "tool", "resource"}
    /\ rows \in [Endpoint -> Generation] /\ dates \in [Dated -> Generation]
    /\ models \subseteq cached
    /\ route \in [case : Cases, slug : Slugs \cup {None}]
    /\ (pc = "sync" => route.slug \in Tracked)
    /\ (route.case = "resolved" => route.slug \in cached)
    /\ (kind = "tool" /\ pc = "handle" => route.slug \in Slugs /\ route.case # "none")
    /\ answer.tool \in Tools /\ answer.status \in Status

Init ==
    /\ store = Empty /\ cached = {}
    /\ pc = "idle" /\ read = 1 /\ kind = "none"
    /\ rows = Empty /\ dates = Undated /\ models = {}
    /\ route = NoRoute /\ answer = NoAnswer

-----------------------------------------------------------------------------
\* Meanwhile, elsewhere. What others do once the reads are over is unseen by the
\* call; those steps are left to the time before the next call's.

Elsewhere == pc \in {"idle", "read"}

\* Another call or process refreshes an endpoint.
Refresh(e) ==
    /\ Elsewhere
    /\ \E g \in Generation \ {0} : store' = [store EXCEPT ![e] = g]
    /\ UNCHANGED <<cached, pc, read, kind, rows, dates, models, route, answer>>

\* Another call or process syncs a model.
Appear(m) ==
    /\ Elsewhere /\ m \notin cached
    /\ cached' = cached \cup {m}
    /\ UNCHANGED <<store, pc, read, kind, rows, dates, models, route, answer>>

-----------------------------------------------------------------------------
\* load_runtime_deps

Start(k) ==
    /\ pc = "idle"
    /\ pc' = "read" /\ read' = 1 /\ kind' = k
    /\ UNCHANGED <<disk, rows, dates, models, route, answer>>

\* The cache directory cannot be made: no list is read at all.
Unwritable ==
    /\ pc = "read" /\ read = 1
    /\ read' = 7
    /\ UNCHANGED <<disk, pc, kind, rows, dates, models, route, answer>>

\* A typed list: the register's content, which is empty only if it was never
\* filled ("unavailable"), or empty because of an OSError on the way.
ReadList ==
    /\ pc = "read" /\ read \in 1..4
    /\ \E g \in {0, store[Reads[read]]} : rows' = [rows EXCEPT ![Reads[read]] = g]
    /\ read' = read + 1
    /\ UNCHANGED <<disk, pc, kind, dates, models, route, answer>>

\* A date: of the register as it is by now, or none after any failure.
ReadDate ==
    /\ pc = "read" /\ read \in 5..6
    /\ \E g \in {0, store[Reads[read]]} : dates' = [dates EXCEPT ![Reads[read]] = g]
    /\ read' = read + 1
    /\ UNCHANGED <<disk, pc, kind, rows, models, route, answer>>

\* A client error, a malformed answer or a rejected row is caught by nobody on
\* the way to a tool's caller; the resource goes on with nothing.
ReadEscapes ==
    /\ pc = "read" /\ read \in 1..4
    /\ rows' = Empty /\ dates' = Undated
    /\ \/ /\ kind = "tool"
          /\ pc' = "done"
          /\ answer' = [NoAnswer EXCEPT !.status = "raised"]
       \/ kind = "resource" /\ pc' = "handle" /\ UNCHANGED answer
    /\ UNCHANGED <<disk, read, kind, models, route>>

ReadModels ==
    /\ pc = "read" /\ read = 7
    /\ models' = cached
    /\ pc' = IF kind = "tool" THEN "dispatch" ELSE "handle"
    /\ UNCHANGED <<disk, read, kind, rows, dates, route, answer>>

-----------------------------------------------------------------------------
\* dispatch_model_request. Arguments are chosen where the code first looks at them.

HostedPrices(m) == {p \in Content["llm_prices"][rows["llm_prices"]] : p.model = m}

\* Cases 2 and 3: listed by ComputePrices with at least one price, or unknown.
FallBack(m) ==
    /\ pc' = "handle"
    /\ route' = [case |-> IF m \in Content["llm_models"][rows["llm_models"]] /\ HostedPrices(m) # {}
                          THEN "hosted_only" ELSE "unknown",
                 slug |-> m]

Dispatch(m) ==
    /\ pc = "dispatch"
    /\ \/ m \in models /\ pc' = "handle" /\ route' = [case |-> "resolved", slug |-> m]
       \/ m \in Tracked \ models /\ pc' = "sync" /\ route' = [case |-> "none", slug |-> m]
       \/ m \notin Tracked \cup models /\ FallBack(m)
    /\ UNCHANGED <<disk, read, kind, rows, dates, models, answer>>

\* Mutant: the synced model is answered from, but not kept.
LazySyncUnsaved ==
    /\ pc = "sync" /\ route.slug \in DOMAIN Arch
    /\ pc' = "handle" /\ route' = [route EXCEPT !.case = "resolved"]
    /\ UNCHANGED <<disk, read, kind, rows, dates, models, answer>>

LazySync ==
    /\ pc = "sync" /\ route.slug \in DOMAIN Arch
    /\ cached' = cached \cup {route.slug}
    /\ pc' = "handle" /\ route' = [route EXCEPT !.case = "resolved"]
    /\ UNCHANGED <<store, read, kind, rows, dates, models, answer>>

LazySyncFails ==
    /\ pc = "sync"
    /\ FallBack(route.slug)
    /\ UNCHANGED <<disk, read, kind, rows, dates, models, answer>>

\* Mutant: the model catalog as it was before the lazy sync.
StaleCatalog == models

\* The snapshot is older than the sync: `model_catalog_with_resolved`.
WithResolved == models \cup {route.slug}

World(ms) ==
    [gpu_prices |-> Content["gpu_prices"][rows["gpu_prices"]],
     llm_prices |-> Content["llm_prices"][rows["llm_prices"]],
     gpus   |-> Content["gpus"][rows["gpus"]],
     models |-> [m \in ms |-> Arch[m]],
     quants |-> Quants]

-----------------------------------------------------------------------------
\* The tools.

Handling(k) == pc = "handle" /\ kind = k

Finish(tool, status, ask, items) ==
    /\ pc' = "done"
    /\ answer' = [tool |-> tool, status |-> status, ask |-> ask, items |-> items]
    /\ UNCHANGED <<disk, read, kind, rows, dates, models, route>>

\* The cells of a model of which only hosted prices are known.
PartialCells(batch, ctx) ==
    Case2Cells(HostedPrices(route.slug), batch, ctx,
               FreshnessConfidence("computeprices", Age[dates["llm_prices"]]))

FindCheapest(quant, batch, ctx, top) ==
    LET f == ToolFilter(route.slug, None, quant, batch, ctx)
        w == World(WithResolved)
        ask == [quant |-> quant, batch |-> batch, ctx |-> ctx, top |-> top]
    IN  /\ Handling("tool")
        /\ \/ /\ route.case = "unknown"
              /\ Finish("find_cheapest", "unknown", ask, {})
           \/ /\ route.case # "unknown"
              /\ top < 0 \/ (route.case = "resolved" /\ QueryRaises(w, f))
              /\ Finish("find_cheapest", "raised", ask, {})
           \/ /\ route.case = "hosted_only" /\ top >= 0
              /\ \E best \in Cheapest(PartialCells(batch, ctx), top) :
                    Finish("find_cheapest", "ok", ask, best)
           \/ /\ route.case = "resolved" /\ top >= 0 /\ ~QueryRaises(w, f)
              /\ \E best \in Cheapest(QueryCostCells(w, f), top) :
                    Finish("find_cheapest", "ok", ask, best)

\* budget_to_plan without a workload asks for one, before anything is read.
Elicit ==
    /\ pc = "idle"
    /\ pc' = "done"
    /\ answer' = [NoAnswer EXCEPT !.tool = "budget_to_plan", !.status = "elicit"]
    /\ UNCHANGED <<disk, read, kind, rows, dates, models, route>>

BudgetToPlan(budget, load, quant, top) ==
    LET f == ToolFilter(route.slug, None, quant, 1, 1)
        w == World(WithResolved)
        ask == [budget |-> budget, load |-> load, quant |-> quant, top |-> top]
        bad == load \notin DOMAIN Workloads \/ budget < 0 \/ top < 0
               \/ (route.case = "resolved" /\ QueryRaises(w, f))
    IN  /\ Handling("tool")
        /\ \/ /\ route.case = "unknown"
              /\ Finish("budget_to_plan", "unknown", ask, {})
           \/ /\ route.case # "unknown" /\ bad
              /\ Finish("budget_to_plan", "raised", ask, {})
           \/ /\ route.case # "unknown" /\ ~bad
              /\ \E plans \in Plans(IF route.case = "resolved" THEN QueryCostCells(w, f)
                                                               ELSE PartialCells(1, 1),
                                    budget, Workloads[load], top) :
                    Finish("budget_to_plan", "ok", ask, plans)

CompareDeploymentModes(gpu, quant, batch, ctx, load) ==
    LET f == ToolFilter(route.slug, gpu, quant, batch, ctx)
        w == World(WithResolved)
        ask == [gpu |-> gpu, quant |-> quant, batch |-> batch, ctx |-> ctx, load |-> load]
        bad == load \notin DOMAIN Workloads \/ QueryRaises(w, f)
    IN  /\ Handling("tool")
        /\ \/ route.case # "resolved" /\ Finish("compare", "unknown", ask, {})
           \/ route.case = "resolved" /\ bad /\ Finish("compare", "raised", ask, {})
           \/ /\ route.case = "resolved" /\ ~bad
              /\ \E cloud \in FirstOf(QueryCostCells(w, f), Rental),
                    hosted \in FirstOf(QueryCostCells(w, f), HostedApi) :
                    Finish("compare", "ok", ask, {Comparison(cloud, hosted, Workloads[load])})

FitCheck(gpu, quant, tp, batch, ctx) ==
    LET model == Arch[route.slug]
        gpus == Content["gpus"][rows["gpus"]]
        ask == [gpu |-> gpu, quant |-> quant, tp |-> tp, batch |-> batch, ctx |-> ctx]
        bad == gpu \notin DOMAIN gpus \/ quant \notin DOMAIN Quants
               \/ IllPosed(model, tp, batch, ctx) \/ Unsupported(model)
    IN  /\ Handling("tool")
        /\ \/ route.case # "resolved" /\ Finish("fit_check", "unknown", ask, {})
           \/ route.case = "resolved" /\ bad /\ Finish("fit_check", "raised", ask, {})
           \/ /\ route.case = "resolved" /\ ~bad
              /\ Finish("fit_check", "ok", ask,
                    {[fits   |-> Fits(model, gpus[gpu], Quants[quant], tp, batch, ctx),
                      reason |-> BlockingReason(model, gpus[gpu], Quants[quant], tp, batch, ctx),
                      scores |-> FitCheckScores(model.age, Age[dates["gpus"]])]})

\* cost-cells://current: every cell there is, at the default operating point.
RenderCurrent ==
    LET w == World(models)
        f == Unfiltered(1, 1)
    IN  /\ Handling("resource")
        /\ \/ QueryRaises(w, f) /\ Finish("resource", "raised", None, {})
           \/ ~QueryRaises(w, f) /\ Finish("resource", "ok", None, QueryCostCells(w, f))

\* The answer goes out, or the client is gone while something is awaited.
Return ==
    /\ \/ pc = "done"
       \/ pc \in {"read", "sync"}
    /\ pc' = "idle" /\ read' = 1 /\ kind' = "none"
    /\ rows' = Empty /\ dates' = Undated /\ models' = {}
    /\ route' = NoRoute /\ answer' = NoAnswer
    /\ UNCHANGED disk

Next ==
    \/ \E e \in Endpoint : Refresh(e)
    \/ \E m \in DOMAIN Arch : Appear(m)
    \/ \E k \in {"tool", "resource"} : Start(k)
    \/ Unwritable \/ ReadList \/ ReadDate \/ ReadEscapes \/ ReadModels
    \/ \E m \in Slugs : Dispatch(m)
    \/ LazySync \/ LazySyncFails
    \/ \E a \in CheapestArgs : FindCheapest(a.quant, a.batch, a.ctx, a.top)
    \/ Elicit
    \/ \E a \in BudgetArgs : BudgetToPlan(a.budget, a.load, a.quant, a.top)
    \/ \E a \in CompareArgs : CompareDeploymentModes(a.gpu, a.quant, a.batch, a.ctx, a.load)
    \/ \E a \in FitArgs : FitCheck(a.gpu, a.quant, a.tp, a.batch, a.ctx)
    \/ RenderCurrent \/ Return

Spec == Init /\ [][Next]_vars

-----------------------------------------------------------------------------
\* Properties of the answers. `World(WithResolved)` is what the call has read.

Answered(tool) == answer.tool = tool /\ answer.status = "ok"
Resolved == route.case = "resolved"
Ask == answer.ask

\* An offer on the market, by its price: computed from the rows that were read.
RentalOffer(p, q) ==
    [provider |-> p.provider, gpu |-> p.gpu, quant |-> q, input |-> None,
     rate |-> [n |-> p.hourly * (Arch[route.slug].params * Quants[q].bits),
               d |-> 6 * World({}).gpus[p.gpu].bandwidth]]

RentalOffers ==
    LET w == World({})
        m == Arch[route.slug]
        rentable == {p \in w.gpu_prices : p.gpu \in DOMAIN w.gpus /\ w.gpus[p.gpu].bandwidth > 0}
        offered(p, q) == Passes(Ask.quant, q) /\ Fits(m, w.gpus[p.gpu], Quants[q], 1, 1, Ask.ctx)
    IN  IF ~Resolved \/ Ask.batch # 1 \/ m.params = None \/ Unsupported(m) THEN {}
        ELSE {RentalOffer(x[1], x[2]) : x \in {x \in rentable \X DOMAIN Quants : offered(x[1], x[2])}}

HostedOffers ==
    {[provider |-> p.provider, gpu |-> None, quant |-> None, input |-> p.input,
      rate |-> [n |-> p.output, d |-> 1]] :
        p \in {p \in HostedPrices(route.slug) : p.output # None /\ (Resolved => Ask.quant = None)}}

Offer(c) ==
    [provider |-> c.provider, gpu |-> c.gpu, quant |-> c.quant, input |-> c.input, rate |-> c.rate]

\* find_cheapest_deployment answers with the cheapest offers there are, as many
\* as were asked for: every machine that is known, fast enough to be rated and big
\* enough, under every quantization that was asked for, and the hosted APIs; also
\* of a model that was on no disk when the call read its catalog.
\* (find_cheapest.py:51-70, cost_cells.py:184-341, dispatch.py:361-379)
CheapestOfAll ==
    Answered("find_cheapest") =>
        LET all    == RentalOffers \cup HostedOffers
            chosen == {Offer(c) : c \in answer.items}
        IN  /\ chosen \subseteq all
            /\ Cardinality(chosen) = Min({Ask.top, Cardinality(all)})
            /\ \A o \in all \ chosen, c \in chosen : ~Cheaper(o.rate, c.rate)

\* The cells of the whole table (what cost-cells://current shows of this data, at
\* the operating point of the call) that are about the model and quantization asked for.
TableOf(batch, ctx, quant) ==
    {c \in QueryCostCells(World(WithResolved), Unfiltered(batch, ctx)) :
        c.model = route.slug /\ Passes(quant, c.quant)}

\* The tools and the resource tell one story: whatever a tool ranks, plans or
\* compares is a cell of the table, with the table's figures and scores. Filtering
\* first and joining later may not change a cell. Of compare_deployment_modes this
\* says all that v1 answers with: its rental side is one of the table's rentals of
\* that GPU, or none if there is none; its hosted side, filtered out with the GPU,
\* is never there, and its verdict never known. (cost_cells.py:184-341,
\* compare_deployment.py:79-91, 185-210; docs/SCENARIOS.md:177-195 records this as a
\* limitation, where compare_deployment.py:3 promises both rows)
ToolsAgreeWithTable ==
    Resolved =>
        /\ Answered("find_cheapest") => answer.items \subseteq TableOf(Ask.batch, Ask.ctx, Ask.quant)
        /\ Answered("budget_to_plan") =>
              {r.cell : r \in answer.items} \subseteq TableOf(1, 1, Ask.quant)
        /\ Answered("compare") =>
              LET table == {c \in TableOf(Ask.batch, Ask.ctx, Ask.quant) : c.gpu = Ask.gpu}
              IN  \A x \in answer.items :
                      /\ IF table = {} THEN x.cloud = None ELSE x.cloud \in table
                      /\ x.hosted = None /\ x.verdict = "unknown"

\* What k prompts of a workload cost on a cell is at most the budget: the machine
\* decodes them in the time it can be paid for; or the API bills them, input and output.
Affordable(c, k, load, budget) ==
    IF c.mode = Rental
    THEN (k * load.output) * (c.tps.d * c.hourly) <= budget * c.tps.n
    ELSE k * (load.input * c.input + load.output * c.rate.n) <= budget

\* budget_to_plan promises as many prompts as the budget pays for, to within the
\* rounding of one part in Precision: what it promises would be paid for by a budget
\* larger by that much, and one prompt more would not be by a budget smaller by that
\* much. The decoding time it states for them is, as nearly, within the hours of
\* rental that it states for the budget. (budget_to_plan.py:50-123)
PlanKeepsItsPromise ==
    Answered("budget_to_plan") =>
        LET load == Workloads[Ask.load]
        IN  \A r \in answer.items :
                /\ Affordable(r.cell, Precision * r.prompts, load, (Precision + 1) * Ask.budget)
                /\ ~Affordable(r.cell, Precision * (r.prompts + 1), load, (Precision - 1) * Ask.budget)
                /\ r.cell.mode = Rental =>
                      Precision * (r.decoding.n * r.rented.d) <= (Precision + 1) * (r.rented.n * r.decoding.d)

\* budget_to_plan ranks by cost per million tokens and cuts at top_n; among rentals
\* that is the order of the prompts they buy: to within the same rounding, none that
\* is left out buys more than one that is in. (budget_to_plan.py:126-160; of hosted
\* APIs, which bill input as well, it does not hold)
BestRentalsPlanned ==
    Answered("budget_to_plan") /\ Ask.budget > 0 /\ Resolved =>
        LET load == Workloads[Ask.load]
            left == TableOf(1, 1, Ask.quant) \ {r.cell : r \in answer.items}
        IN  \A c \in left, r \in answer.items :
                c.mode = Rental /\ Priced(c, load) /\ r.cell.mode = Rental =>
                    ~Affordable(c, Precision * (r.prompts + 1), load, (Precision - 1) * Ask.budget)

\* Nothing a tool does on the way to its answer adds trust: a plan has no more than
\* its cell, a comparison no more than either side, a cell without a throughput (as
\* is every cell of an unknown architecture) none at all. And a fit has no more than
\* the age of the model's data and of the GPU's allows, nor have the prices of an
\* unknown architecture; a date that could not be read is the oldest. Of the pricing
\* and the freshness of other cells nothing is said: those scores are constants,
\* however old the rows (cost_cells.py:518-527, 543-547; docs/SCENARIOS.md:145-154).
\* (envelope.py:58-98, builders.py:74-157, 229-262, 271-453, calibration.py:26-70)
TrustIsNotGained ==
    /\ Answered("find_cheapest") \/ Answered("resource") =>
          \A c \in answer.items : c.tps.n = 0 => Confidence(c.scores) = 0
    /\ Answered("budget_to_plan") =>
          \A r \in answer.items : Confidence(r.scores) <= Confidence(r.cell.scores)
    /\ Answered("compare") =>
          \A x \in answer.items : \A c \in {x.cloud, x.hosted} \ {None} :
              Confidence(x.scores) <= Confidence(c.scores)
    /\ Answered("fit_check") =>
          \A x \in answer.items :
              /\ Confidence(x.scores) <= FreshnessConfidence("huggingface", Arch[route.slug].age)
              /\ Confidence(x.scores) <= FreshnessConfidence("computeprices", Age[dates["gpus"]])
    /\ (Answered("find_cheapest") \/ Answered("budget_to_plan")) /\ ~Resolved =>
          \A x \in answer.items, k \in {"pricing", "freshness"} :
              x.scores[k] <= FreshnessConfidence("computeprices", Age[dates["llm_prices"]])

\* fit_check tells the user which dimension to relax, and that one helps: blamed on
\* the weights, no smaller batch or context would fit; blamed on the KV cache, the
\* rest alone does. And what fits, fits on more GPUs as well. (fit_check.py:215-247)
ReasonNamesTheObstacle ==
    Answered("fit_check") =>
        LET model == Arch[route.slug]
            gpu   == World({}).gpus[Ask.gpu]
            quant == Quants[Ask.quant]
        IN  \A x \in answer.items :
                /\ x.fits <=> x.reason = "none"
                /\ x.reason = "weights" =>
                      \A b \in 1..Ask.batch, c \in 1..Ask.ctx : ~Fits(model, gpu, quant, Ask.tp, b, c)
                /\ x.reason = "kv_cache" =>
                      Weights(model, quant) + Overhead(model, quant) <= Available(gpu, Ask.tp)
                /\ x.fits => Fits(model, gpu, quant, Ask.tp + 1, Ask.batch, Ask.ctx)

\* "the resource MUST NOT fail the read on cache failure" ... "(e.g. HF disk
\* corruption ...)" ... "The client always gets a valid parquet response."
\* (resources.py:160-169)
ResourceAlwaysRenders == answer.tool = "resource" => answer.status = "ok"
=============================================================================
