------------------------------ MODULE CostCells ------------------------------
(***************************************************************************)
(* From price rows to priced deployments: the cost cells                   *)
(* (plan/cost_cells.py), the builders that rank, plan and compare them     *)
(* (mcp_tools/find_cheapest.py, budget_to_plan.py, compare_deployment.py)  *)
(* and the confidence each result carries (trust/builders.py,              *)
(* trust/calibration.py, trust/envelope.py).                               *)
(*                                                                         *)
(* Lists are sets of rows here: their order matters only between equal     *)
(* costs and in "the first cell", which is then any. Money comes in units  *)
(* in which a machine of hourly price h costs h every 3600 s, a rate is a  *)
(* fraction n/d of money per output token, and scores are in percent.      *)
(*                                                                         *)
(* A world w is what a query gets: w.gpu_prices and w.llm_prices (sets of  *)
(* rows), w.gpus, w.models and w.quants (specifications by slug).          *)
(*                                                                         *)
(* Amounts are floats in the code and exact fractions here, but for the    *)
(* one quotient that is cut to a whole number: it comes out within one     *)
(* part in Precision (see Prompts).                                        *)
(***************************************************************************)
EXTENDS Inference, FiniteSets, FiniteSetsExt, Functions

CONSTANT Precision   \* of floats; about 2^50, the small errors of one expression included

ASSUME PrecisionAssumption == Precision \in Nat \ {0}

Rental == "cloud_gpu_rental"
HostedApi == "hosted_api_token"

ASSUME NoneAssumption == None \notin {Rental, HostedApi} /\ None \notin [n : Int, d : Int]

\* A filter of None lets everything through.
Passes(filter, value) == filter = None \/ value = filter

\* The filters a tool sets, beside the operating point; the others keep their defaults.
ToolFilter(model, gpu, quant, batch, ctx) ==
    [model |-> model, gpu |-> gpu, provider |-> None, quant |-> quant, mode |-> None,
     only_fits |-> FALSE, batch |-> batch, ctx |-> ctx]

Unfiltered(batch, ctx) == ToolFilter(None, None, None, batch, ctx)

-----------------------------------------------------------------------------
\* The cells of rented GPUs: price row, model and quantization, joined.

\* "never fabricate a cost from a non-fitting deployment" or a refused throughput.
SelfHostedRate(hourly, tps, fits) ==
    IF fits /\ tps.n > 0 THEN [n |-> hourly * tps.d, d |-> tps.n] ELSE None

RentalScores(tps) ==
    [pricing |-> 95, fit_check |-> 90, throughput |-> tps.score,
     model_architecture |-> 90, gpu_specs |-> 85, freshness |-> 80]

RentalCell(w, p, m, q, f) ==
    LET fits == Fits(w.models[m], w.gpus[p.gpu], w.quants[q], 1, f.batch, f.ctx)
        tps  == Throughput(w.models[m], w.gpus[p.gpu], w.quants[q], f.batch)
    IN  [mode |-> Rental, provider |-> p.provider, model |-> m, gpu |-> p.gpu, quant |-> q,
         batch |-> f.batch, ctx |-> f.ctx, hourly |-> p.hourly, input |-> None,
         fits |-> fits, tps |-> tps, rate |-> SelfHostedRate(p.hourly, tps, fits),
         scores |-> RentalScores(tps)]

\* The three dimensions of the cross product, filtered before it is formed. Two data
\* gaps are skipped: a GPU without catalog data, a model of unknown size.
PricesConsidered(w, f) ==
    {p \in w.gpu_prices : /\ f.mode # HostedApi
                          /\ Passes(f.gpu, p.gpu) /\ Passes(f.provider, p.provider)
                          /\ p.gpu \in DOMAIN w.gpus}

ModelsConsidered(w, f) ==
    {m \in DOMAIN w.models : Passes(f.model, m) /\ w.models[m].params # None}

QuantsConsidered(w, f) == {q \in DOMAIN w.quants : Passes(f.quant, q)}

\* One ValueError ends the whole query; NotImplementedError skips the combination.
QueryRaises(w, f) ==
    \E p \in PricesConsidered(w, f), m \in ModelsConsidered(w, f), q \in QuantsConsidered(w, f) :
        IllPosed(w.models[m], 1, f.batch, f.ctx)

Rentals(w, f) ==
    {c \in {RentalCell(w, p, m, q, f) :
               p \in PricesConsidered(w, f),
               m \in {m \in ModelsConsidered(w, f) : ~Unsupported(w.models[m])},
               q \in QuantsConsidered(w, f)} :
        f.only_fits => c.fits}

-----------------------------------------------------------------------------
\* The cells of hosted APIs.

HostedScores == [pricing |-> 95, throughput |-> 0, freshness |-> 80]

HostedCell(p, batch, ctx, scores) ==
    [mode |-> HostedApi, provider |-> p.provider, model |-> p.model, gpu |-> None, quant |-> None,
     batch |-> batch, ctx |-> ctx, hourly |-> None, input |-> p.input,
     fits |-> None, tps |-> NoThroughput,
     rate |-> IF p.output = None THEN None ELSE [n |-> p.output, d |-> 1],
     scores |-> scores]

\* A filter on GPU or quantization leaves hosted rows out, unless they are asked for.
HostedFilteredOut(f) == f.mode # HostedApi /\ (f.gpu # None \/ f.quant # None)

\* Mutant: the filters on GPU and quantization forget the hosted rows.
HostedUnsuppressed(w, f) ==
    {HostedCell(p, f.batch, f.ctx, HostedScores) :
        p \in {p \in w.llm_prices :
                  f.mode # Rental /\ Passes(f.provider, p.provider) /\ Passes(f.model, p.model)}}

Hosted(w, f) ==
    {HostedCell(p, f.batch, f.ctx, HostedScores) :
        p \in {p \in w.llm_prices :
                  /\ f.mode # Rental /\ ~HostedFilteredOut(f)
                  /\ Passes(f.provider, p.provider) /\ Passes(f.model, p.model)}}

QueryCostCells(w, f) == Rentals(w, f) \cup Hosted(w, f)

\* Case 2: hosted cells of a model whose architecture is unknown, their prices
\* as fresh as the list they are from.
Case2Scores(fresh) ==
    [model_architecture |-> 0, throughput |-> 0, pricing |-> fresh, freshness |-> fresh]

Case2Cells(prices, batch, ctx, fresh) ==
    {HostedCell(p, batch, ctx, Case2Scores(fresh)) : p \in prices}

-----------------------------------------------------------------------------
\* Confidence.

\* Weakest link.
Confidence(scores) == IF DOMAIN scores = {} THEN 0 ELSE Min(Range(scores))

\* How much data of that age (in hours) is worth; a future date counts as now.
FreshnessConfidence(source, age) ==
    CASE source = "computeprices" -> IF age < 2 THEN 95 ELSE IF age < 24 THEN 75 ELSE 40
      [] source = "huggingface"   -> IF age < 720 THEN 95 ELSE 80

FitCheckScores(hf_age, cp_age) ==
    LET hf == FreshnessConfidence("huggingface", hf_age)
        cp == FreshnessConfidence("computeprices", cp_age)
    IN  [fit_check |-> 85, model_architecture |-> hf, gpu_specs |-> cp, freshness |-> Min({hf, cp})]

\* Mutant: the workload's score replaces the cell's.
OnlyWorkload(scores) == [k \in {"workload_assumption"} |-> 95]

\* A plan's row: the cell's own scores, and that a workload was assumed.
WithWorkload(scores) ==
    [k \in DOMAIN scores \cup {"workload_assumption"} |->
        IF k = "workload_assumption" THEN 95 ELSE scores[k]]

\* A comparison: per domain the worse of the two sides that exist.
MergedScores(sides) ==
    LET all == {c.scores : c \in sides} \cup {[workload_assumption |-> 95]}
    IN  [k \in UNION {DOMAIN s : s \in all} |-> Min({s[k] : s \in {t \in all : k \in DOMAIN t}})]

-----------------------------------------------------------------------------
\* Ranking.

Cheaper(r, s) == r.n * s.d < s.n * r.d

\* Mutant: sorted the wrong way round.
Dearest(items, n) ==
    LET keyed == {c \in items : c.rate # None}
    IN  {top \in kSubset(Min({n, Cardinality(keyed)}), keyed) :
            \A a \in top : \A b \in keyed \ top : ~Cheaper(a.rate, b.rate)}

\* The first n of the items sorted by rate; those without a rate are left out.
Cheapest(items, n) ==
    LET keyed == {c \in items : c.rate # None}
    IN  {top \in kSubset(Min({n, Cardinality(keyed)}), keyed) :
            \A a \in top : \A b \in keyed \ top : ~Cheaper(b.rate, a.rate)}

-----------------------------------------------------------------------------
\* Budget plans.

\* One prompt of a workload: hosted APIs bill what goes in as well.
PerPrompt(c, load) ==
    IF c.rate = None \/ (c.mode = HostedApi /\ c.input = None) THEN None
    ELSE [n |-> load.output * c.rate.n + (IF c.mode = HostedApi THEN load.input * c.input ELSE 0),
          d |-> c.rate.d]

\* Mutant: rounds to the next prompt instead of down.
PromptsRoundedUp(budget, cost) == {(budget * cost.d) \div cost.n + 1}

\* The floor of a float: of any quotient within rounding of the exact one. It may
\* be one off, where that is almost whole: a budget of 0.3 at 0.1 a prompt buys 2.
Prompts(budget, cost) ==
    ((Precision - 1) * (budget * cost.d)) \div (Precision * cost.n) ..
        ((Precision + 1) * (budget * cost.d)) \div (Precision * cost.n)

\* Rental and decoding time in seconds, as fractions; None where unknown.
PlanRow(c, budget, load, prompts) ==
    [cell |-> c, prompts |-> prompts, tokens |-> prompts * load.output, rate |-> c.rate,
     rented   |-> IF c.mode = HostedApi THEN None ELSE [n |-> budget, d |-> c.hourly],
     decoding |-> IF c.tps.n = 0 THEN None
                  ELSE [n |-> (prompts * load.output) * c.tps.d, d |-> c.tps.n],
     scores |-> WithWorkload(c.scores)]

Priced(c, load) == PerPrompt(c, load) # None /\ PerPrompt(c, load).n > 0

\* The rows of some cells: each with a number of prompts that its quotient may give.
RowsOf(best, budget, load) ==
    LET prompts(c) == Prompts(budget, PerPrompt(c, load))
        counts == {k \in [best -> UNION {prompts(c) : c \in best}] : \A c \in best : k[c] \in prompts(c)}
    IN  {{PlanRow(c, budget, load, k[c]) : c \in best} : k \in counts}

\* The plans that may be returned; a budget of nothing buys no plan. A row is ranked
\* by the rate of its cell.
Plans(cells, budget, load, top) ==
    IF budget = 0 THEN {{}}
    ELSE UNION {RowsOf(best, budget, load) : best \in Cheapest({c \in cells : Priced(c, load)}, top)}

-----------------------------------------------------------------------------
\* Comparison of the two modes.

SideCost(c, load) == IF c = None THEN None ELSE PerPrompt(c, load)

\* Within five percent is a tie.
Verdict(cloud, hosted) ==
    LET left == cloud.n * hosted.d
        right == hosted.n * cloud.d
    IN  IF cloud = None \/ hosted = None THEN "unknown"
        ELSE IF cloud.n <= 0 \/ hosted.n <= 0 THEN "unknown"
        ELSE IF 20 * (left - right) <= right /\ 20 * (right - left) <= right THEN "tie"
        ELSE IF left < right THEN Rental ELSE HostedApi

Comparison(cloud, hosted, load) ==
    [cloud |-> cloud, hosted |-> hosted,
     verdict |-> Verdict(SideCost(cloud, load), SideCost(hosted, load)),
     scores |-> MergedScores({cloud, hosted} \ {None})]

\* The first cell of a mode, or none.
FirstOf(cells, mode) ==
    LET side == {c \in cells : c.mode = mode} IN IF side = {} THEN {None} ELSE side
=============================================================================
