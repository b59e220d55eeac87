-------------------------- MODULE CostCellsProofs --------------------------
(***************************************************************************)
(* Facts about the kernels and the cost cells that the theorems about tool *)
(* calls rest on: what a cell is made of, that filtering before the join   *)
(* selects from the unfiltered table, what a floored quotient buys, and    *)
(* what fitting is monotone in.                                            *)
(***************************************************************************)
EXTENDS CostCells, TLAPS

\* Rows and specifications of the right types; prices may be of any sign.
WellTyped(w) ==
    /\ \A p \in w.gpu_prices : p.hourly \in Int
    /\ \A p \in w.llm_prices : p.input \in Int \cup {None} /\ p.output \in Int \cup {None}
    /\ w.gpus \in [DOMAIN w.gpus -> GpuSpec]
    /\ w.models \in [DOMAIN w.models -> ModelSpec]
    /\ w.quants \in [DOMAIN w.quants -> QuantSpec]

RentalLike(c) ==
    /\ c.mode = Rental /\ c.hourly \in Int
    /\ c.tps.n \in Nat /\ c.tps.d \in Nat \ {0}
    /\ c.rate # None => c.tps.n > 0 /\ c.rate = [n |-> c.hourly * c.tps.d, d |-> c.tps.n]

HostedLike(c) ==
    /\ c.mode = HostedApi /\ c.input \in Int \cup {None}
    /\ c.rate # None => \E x \in Int : c.rate = [n |-> x, d |-> 1]

-----------------------------------------------------------------------------
\* Kernels.

\* Products of naturals.
LEMMA ProductNat == \A a, b \in Nat : a * b \in Nat
  OBVIOUS

\* Products of positive numbers.
LEMMA ProductPositive == \A a, b \in Nat \ {0} : a * b \in Nat \ {0}
  OBVIOUS

\* A throughput is a fraction, whichever tier answers.
LEMMA ThroughputType ==
  ASSUME NEW model \in ModelSpec, NEW gpu \in GpuSpec, NEW quant \in QuantSpec, NEW batch,
         model.params # None
  PROVE  LET t == Throughput(model, gpu, quant, batch) IN t.n \in Nat /\ t.d \in Nat \ {0}
<1>1. model.params \in Nat \ {0} /\ quant.bits \in Nat \ {0} /\ gpu.bandwidth \in Nat
  BY DEF ModelSpec, QuantSpec, GpuSpec
<1>2. model.params * quant.bits \in Nat \ {0}  BY <1>1, ProductPositive
<1> QED BY <1>1, <1>2 DEF Throughput, Heuristic, NoThroughput

\* Sizes are natural numbers.
LEMMA SizesAreNatural ==
  ASSUME NEW model \in ModelSpec, NEW quant \in QuantSpec, model.params # None,
         NEW batch \in Nat, NEW ctx \in Nat
  PROVE  /\ Weights(model, quant) \in Nat /\ Overhead(model, quant) \in Nat
         /\ KvCache(model, quant, batch, ctx) \in Nat
<1>1. model.params \in Nat /\ quant.bits \in Nat /\ quant.kv_bits \in Nat /\ model.kv \in Nat
  BY DEF ModelSpec, QuantSpec
<1>2. model.params * quant.bits \in Nat  BY <1>1, ProductNat
<1>3. Tensors(model) \in Nat  BY DEF Tensors
<1>4. Tensors(model) * model.kv * quant.kv_bits \in Nat
  <2>1. Tensors(model) * model.kv \in Nat  BY <1>1, <1>3, ProductNat
  <2> QED BY <1>1, <2>1, ProductNat
<1>5. ctx * batch \in Nat  BY ProductNat
<1> QED BY <1>2, <1>4, <1>5, ProductNat DEF Weights, Overhead, KvCache

\* What a floored quotient is: n times it is within m, and n times one more is not.
LEMMA Floor ==
  ASSUME NEW m \in Nat, NEW n \in Nat \ {0}
  PROVE  (m \div n) \in Nat /\ n * (m \div n) <= m /\ m < n * ((m \div n) + 1)
  OBVIOUS

\* Multiplying by a positive number keeps the order.
LEMMA Scale == \A a, b \in Int, n \in Nat \ {0} : (a < b => a * n < b * n) /\ (a <= b => a * n <= b * n)
  OBVIOUS

\* What the solver is not told of products it does not multiply out.
LEMMA Associate == \A a, b, c \in Int : (a * b) * c = a * (b * c) /\ a * b = b * a
  OBVIOUS

-----------------------------------------------------------------------------
\* Cells.

\* A rental's cell is a rental with a price, and a rate made of it.
LEMMA RentalCellIs ==
  ASSUME NEW w, WellTyped(w), NEW f, NEW p \in PricesConsidered(w, f),
         NEW m \in ModelsConsidered(w, f), NEW q \in QuantsConsidered(w, f)
  PROVE  RentalLike(RentalCell(w, p, m, q, f))
<1> DEFINE c == RentalCell(w, p, m, q, f)
           t == Throughput(w.models[m], w.gpus[p.gpu], w.quants[q], f.batch)
           fits == Fits(w.models[m], w.gpus[p.gpu], w.quants[q], 1, f.batch, f.ctx)
<1>1. p.hourly \in Int  BY DEF WellTyped, PricesConsidered
<1>2. w.gpus[p.gpu] \in GpuSpec  BY DEF WellTyped, PricesConsidered
<1>3. w.models[m] \in ModelSpec /\ w.models[m].params # None  BY DEF WellTyped, ModelsConsidered
<1>4. w.quants[q] \in QuantSpec  BY DEF WellTyped, QuantsConsidered
<1>5. t.n \in Nat /\ t.d \in Nat \ {0}  BY <1>2, <1>3, <1>4, ThroughputType
<1>6. c.mode = Rental /\ c.hourly = p.hourly /\ c.tps = t
      /\ c.rate = SelfHostedRate(p.hourly, t, fits)
  BY DEF RentalCell
<1>7. c.rate # None => t.n > 0 /\ c.rate = [n |-> p.hourly * t.d, d |-> t.n]
  <2> HIDE DEF c, t, fits
  <2> QED BY <1>6 DEF SelfHostedRate
<1> HIDE DEF c, t, fits
<1>8. RentalLike(c)  BY <1>1, <1>5, <1>6, <1>7 DEF RentalLike
<1> QED BY <1>8 DEF c

\* A hosted row's cell is hosted, and its rate is its output price.
LEMMA HostedCellIs ==
  ASSUME NEW p, p.input \in Int \cup {None}, p.output \in Int \cup {None},
         NEW batch, NEW ctx, NEW scores
  PROVE  HostedLike(HostedCell(p, batch, ctx, scores))
  BY DEF HostedLike, HostedCell

\* Every cell of a query is of one of the two kinds.
LEMMA CellsAre ==
  ASSUME NEW w, WellTyped(w), NEW f, NEW c \in QueryCostCells(w, f)
  PROVE  RentalLike(c) \/ HostedLike(c)
<1>1. CASE c \in Rentals(w, f)
  BY <1>1, RentalCellIs DEF Rentals
<1>2. CASE c \in Hosted(w, f)
  <2>1. PICK p \in w.llm_prices : c = HostedCell(p, f.batch, f.ctx, HostedScores)
    BY <1>2 DEF Hosted
  <2> QED BY <2>1, HostedCellIs DEF WellTyped
<1> QED BY <1>1, <1>2 DEF QueryCostCells

\* The two modes are two.
LEMMA ModesDiffer == Rental # HostedApi
  BY DEF Rental, HostedApi

-----------------------------------------------------------------------------
\* Filters by model, GPU and quantization only, as the tools set them.

Selects(c, model, gpu, quant) ==
    Passes(model, c.model) /\ Passes(gpu, c.gpu) /\ Passes(quant, c.quant)

\* Filtering before the join gives the cells of the unfiltered table that pass,
\* unchanged, and of its rentals all of them.
LEMMA FilteringSelects ==
  ASSUME NEW w, NEW model, NEW gpu, NEW quant, NEW batch, NEW ctx
  PROVE  LET f == ToolFilter(model, gpu, quant, batch, ctx)
             u == Unfiltered(batch, ctx)
         IN  /\ Hosted(w, f) \subseteq {c \in Hosted(w, u) : Selects(c, model, gpu, quant)}
             /\ Rentals(w, f) = {c \in Rentals(w, u) : Selects(c, model, gpu, quant)}
<1> DEFINE f == ToolFilter(model, gpu, quant, batch, ctx)
           u == Unfiltered(batch, ctx)
<1>1. Hosted(w, f) \subseteq {c \in Hosted(w, u) : Selects(c, model, gpu, quant)}
  BY NoneAssumption
     DEF Hosted, HostedCell, HostedFilteredOut, Passes, Selects, ToolFilter, Unfiltered
<1>2. \A p, m, q : RentalCell(w, p, m, q, f) = RentalCell(w, p, m, q, u)
  BY DEF RentalCell, ToolFilter, Unfiltered
<1>3. \A p, m, q : LET c == RentalCell(w, p, m, q, u)
                   IN c.model = m /\ c.gpu = p.gpu /\ c.quant = q
  BY DEF RentalCell
<1>4. /\ PricesConsidered(w, f) = {p \in PricesConsidered(w, u) : Passes(gpu, p.gpu)}
      /\ ModelsConsidered(w, f) = {m \in ModelsConsidered(w, u) : Passes(model, m)}
      /\ QuantsConsidered(w, f) = {q \in QuantsConsidered(w, u) : Passes(quant, q)}
      /\ ~f.only_fits /\ ~u.only_fits
  BY NoneAssumption
     DEF PricesConsidered, ModelsConsidered, QuantsConsidered, ToolFilter, Unfiltered, Passes
<1> HIDE DEF f, u
<1>5. Rentals(w, f) = {c \in Rentals(w, u) : Selects(c, model, gpu, quant)}
  <2>1. ASSUME NEW c \in Rentals(w, f)
        PROVE  c \in Rentals(w, u) /\ Selects(c, model, gpu, quant)
    <3>1. PICK p \in PricesConsidered(w, f), m \in ModelsConsidered(w, f), q \in QuantsConsidered(w, f) :
            ~Unsupported(w.models[m]) /\ c = RentalCell(w, p, m, q, f)
      BY DEF Rentals
    <3> QED BY <3>1, <1>2, <1>3, <1>4 DEF Rentals, Selects
  <2>2. ASSUME NEW c \in Rentals(w, u), Selects(c, model, gpu, quant)
        PROVE  c \in Rentals(w, f)
    <3>1. PICK p \in PricesConsidered(w, u), m \in ModelsConsidered(w, u), q \in QuantsConsidered(w, u) :
            ~Unsupported(w.models[m]) /\ c = RentalCell(w, p, m, q, u)
      BY DEF Rentals
    <3>2. Passes(gpu, p.gpu) /\ Passes(model, m) /\ Passes(quant, q)
      BY <3>1, <1>3, <2>2 DEF Selects
    <3> QED BY <3>1, <3>2, <1>2, <1>4 DEF Rentals
  <2> QED BY <2>1, <2>2
<1> QED BY <1>1, <1>5 DEF f, u

-----------------------------------------------------------------------------
\* Plans.

\* The items that a ranking returns are among those it was given, and of those it
\* leaves out none is cheaper.
LEMMA CheapestIs ==
  ASSUME NEW items, NEW n, NEW top \in Cheapest(items, n)
  PROVE  /\ top \subseteq items
         /\ \A a \in top : a.rate # None
         /\ \A a \in top, b \in items \ top : b.rate # None => ~Cheaper(b.rate, a.rate)
  BY DEF Cheapest, kSubset

\* The rows of some cells are rows of these cells, each with a number of prompts
\* that its quotient may give.
LEMMA RowsAre ==
  ASSUME NEW best, NEW budget, NEW load, NEW plans \in RowsOf(best, budget, load), NEW r \in plans
  PROVE  \E c \in best : \E k \in Prompts(budget, PerPrompt(c, load)) : r = PlanRow(c, budget, load, k)
<1> DEFINE prompts(c) == Prompts(budget, PerPrompt(c, load))
           ranges == [best -> UNION {prompts(c) : c \in best}]
<1>1. PICK k \in {k \in ranges : \A c \in best : k[c] \in prompts(c)} :
         plans = {PlanRow(c, budget, load, k[c]) : c \in best}
  BY DEF RowsOf
<1>2. PICK c \in best : r = PlanRow(c, budget, load, k[c])  BY <1>1
<1>3. k[c] \in prompts(c)  BY <1>1
<1> QED BY <1>2, <1>3

\* Each of those cells has a row.
LEMMA RowsCover ==
  ASSUME NEW best, NEW budget, NEW load, NEW plans \in RowsOf(best, budget, load), NEW c \in best
  PROVE  \E r \in plans : r.cell = c
<1>1. PICK k : plans = {PlanRow(e, budget, load, k[e]) : e \in best}  BY DEF RowsOf
<1>2. PlanRow(c, budget, load, k[c]) \in plans  BY <1>1
<1>3. PlanRow(c, budget, load, k[c]).cell = c  BY DEF PlanRow
<1> QED BY <1>2, <1>3

\* Plans are rows of priced cells.
LEMMA PlansAre ==
  ASSUME NEW cells, NEW budget, NEW load, NEW n, NEW plans \in Plans(cells, budget, load, n),
         NEW r \in plans
  PROVE  \E c \in cells : \E k \in Prompts(budget, PerPrompt(c, load)) :
            Priced(c, load) /\ r = PlanRow(c, budget, load, k)
<1> DEFINE priced == {c \in cells : Priced(c, load)}
<1>1. budget # 0  BY DEF Plans
<1>2. PICK best \in Cheapest(priced, n) : plans \in RowsOf(best, budget, load)  BY <1>1 DEF Plans
<1>3. best \subseteq priced
  <2> HIDE DEF priced
  <2> QED BY <1>2, CheapestIs
<1>4. PICK c \in best : \E k \in Prompts(budget, PerPrompt(c, load)) : r = PlanRow(c, budget, load, k)
  BY <1>2, RowsAre
<1> QED BY <1>3, <1>4

\* What one prompt costs on a cell of either kind.
LEMMA PerPromptIs ==
  ASSUME NEW c, RentalLike(c) \/ HostedLike(c), NEW load \in [input : Nat \ {0}, output : Nat \ {0}],
         Priced(c, load)
  PROVE  LET cost == PerPrompt(c, load)
         IN  /\ cost.n \in Nat \ {0} /\ cost.d \in Nat \ {0}
             /\ c.mode = Rental =>
                   /\ RentalLike(c) /\ c.tps.n > 0 /\ c.rate = [n |-> c.hourly * c.tps.d, d |-> c.tps.n]
                   /\ cost.n = load.output * (c.hourly * c.tps.d) /\ cost.d = c.tps.n
             /\ c.mode = HostedApi =>
                   /\ c.input \in Int /\ c.rate.n \in Int /\ cost.d = 1
                   /\ cost.n = load.output * c.rate.n + load.input * c.input
<1> USE ModesDiffer
<1> DEFINE cost == PerPrompt(c, load)
<1>1. cost # None /\ cost.n > 0  BY DEF Priced
<1>2. load.output \in Nat /\ load.input \in Nat  OBVIOUS
<1>3. CASE RentalLike(c)
  <2>1. c.rate # None /\ c.mode = Rental  BY <1>1, <1>3 DEF PerPrompt, RentalLike
  <2>2. c.tps.n > 0 /\ c.rate = [n |-> c.hourly * c.tps.d, d |-> c.tps.n]
        /\ c.tps.n \in Nat /\ c.tps.d \in Nat /\ c.hourly \in Int
    BY <1>3, <2>1 DEF RentalLike
  <2>3. cost = [n |-> load.output * c.rate.n + 0, d |-> c.rate.d]  BY <2>1 DEF PerPrompt
  <2>4. load.output * (c.hourly * c.tps.d) \in Int
    <3>1. c.hourly * c.tps.d \in Int  BY <2>2
    <3> QED BY <1>2, <3>1
  <2>5. cost.n = load.output * (c.hourly * c.tps.d) /\ cost.d = c.tps.n  BY <2>2, <2>3, <2>4
  <2> QED BY <1>1, <1>3, <2>1, <2>2, <2>4, <2>5
<1>4. CASE HostedLike(c)
  <2>1. c.rate # None /\ c.mode = HostedApi /\ c.input \in Int
    BY <1>1, <1>4 DEF PerPrompt, HostedLike
  <2>2. c.rate.n \in Int /\ c.rate.d = 1
    <3>1. PICK x \in Int : c.rate = [n |-> x, d |-> 1]  BY <1>4, <2>1 DEF HostedLike
    <3> QED BY <3>1
  <2>3. cost = [n |-> load.output * c.rate.n + load.input * c.input, d |-> c.rate.d]
    BY <1>1, <2>1 DEF PerPrompt
  <2>4. cost.n \in Int
    <3>1. load.output * c.rate.n \in Int /\ load.input * c.input \in Int  BY <1>2, <2>1, <2>2
    <3>2. cost.n = load.output * c.rate.n + load.input * c.input  BY <2>3
    <3> HIDE DEF cost
    <3> QED BY <3>1, <3>2
  <2> QED BY <1>1, <2>1, <2>2, <2>3, <2>4
<1> QED BY <1>3, <1>4

\* A quotient that is cut to a whole number comes out within rounding: k items are
\* paid for with a little more money, and one item more is not with a little less.
LEMMA PromptsAre ==
  ASSUME NEW budget \in Nat \ {0}, NEW cost, cost.n \in Nat \ {0}, cost.d \in Nat \ {0},
         NEW k \in Prompts(budget, cost)
  PROVE  /\ k \in Nat
         /\ cost.n * (Precision * k) <= ((Precision + 1) * budget) * cost.d
         /\ ~(cost.n * (Precision * (k + 1)) <= ((Precision - 1) * budget) * cost.d)
<1> DEFINE P == Precision
           n == P * cost.n
           low == (P - 1) * (budget * cost.d)
           high == (P + 1) * (budget * cost.d)
<1> USE PrecisionAssumption
<1>1. P \in Nat \ {0} /\ P - 1 \in Nat /\ P + 1 \in Nat  OBVIOUS
<1>2. n \in Nat \ {0} /\ budget * cost.d \in Nat  BY ProductPositive, ProductNat
<1>3. low \in Nat /\ high \in Nat
  <2> HIDE DEF P
  <2> QED BY <1>1, <1>2, ProductNat
<1>4. k \in (low \div n)..(high \div n)  BY DEF Prompts
<1>5. /\ (low \div n) \in Nat /\ low < n * ((low \div n) + 1)
      /\ (high \div n) \in Nat /\ n * (high \div n) <= high
  <2> HIDE DEF P, n, low, high
  <2> QED BY <1>2, <1>3, Floor
<1>6. k \in Nat /\ low \div n <= k /\ k <= high \div n
  <2> HIDE DEF P, n, low, high
  <2> QED BY <1>4, <1>5
<1>7. n * k <= high
  <2> HIDE DEF P, n, low, high
  <2>1. k * n <= (high \div n) * n  BY <1>2, <1>5, <1>6, Scale
  <2>2. k * n = n * k /\ (high \div n) * n = n * (high \div n)  BY <1>2, <1>5, <1>6, Associate
  <2>3. n * k \in Int /\ n * (high \div n) \in Int  BY <1>2, <1>5, <1>6
  <2> QED BY <1>3, <1>5, <2>1, <2>2, <2>3
<1>8. low < n * (k + 1)
  <2> HIDE DEF P, n, low, high
  <2> DEFINE l == (low \div n) + 1
  <2>1. l \in Nat /\ k + 1 \in Nat /\ l <= k + 1  BY <1>5, <1>6
  <2> HIDE DEF l
  <2>2. l * n <= (k + 1) * n  BY <1>2, <2>1, Scale
  <2>3. l * n = n * l /\ (k + 1) * n = n * (k + 1)  BY <1>2, <2>1, Associate
  <2>4. n * l \in Int /\ n * (k + 1) \in Int  BY <1>2, <2>1
  <2>5. low < n * l  BY <1>5 DEF l
  <2> QED BY <1>3, <2>2, <2>3, <2>4, <2>5
<1>9. \A j \in Nat : n * j = cost.n * (P * j)
  <2> HIDE DEF P
  <2> TAKE j \in Nat
  <2>1. P * cost.n = cost.n * P  BY <1>1, Associate
  <2>2. (cost.n * P) * j = cost.n * (P * j)  BY <1>1, Associate
  <2> QED BY <2>1, <2>2
<1>10. low = ((P - 1) * budget) * cost.d /\ high = ((P + 1) * budget) * cost.d
  <2> HIDE DEF P
  <2> QED BY <1>1, Associate
<1>11. k + 1 \in Nat /\ n * (k + 1) \in Int
  <2> HIDE DEF P, n, low, high
  <2> QED BY <1>2, <1>6
<1>12. n * k = cost.n * (P * k) /\ n * (k + 1) = cost.n * (P * (k + 1))
  <2> HIDE DEF P, n, low, high
  <2> QED BY <1>6, <1>9, <1>11
<1>13. /\ cost.n * (P * k) <= ((P + 1) * budget) * cost.d
       /\ ~(cost.n * (P * (k + 1)) <= ((P - 1) * budget) * cost.d)
  <2>1. cost.n * (P * k) <= high  BY <1>7, <1>12
  <2>2. ~(cost.n * (P * (k + 1)) <= low)
    <3> HIDE DEF P, n, low, high
    <3> QED BY <1>3, <1>8, <1>11, <1>12
  <2> HIDE DEF P, n, low, high
  <2> QED BY <1>10, <2>1, <2>2
<1> QED BY <1>6, <1>13 DEF P

\* If k pieces at price x/d are too dear, so are k at a price y/e that is no lower.
LEMMA DearerIsTooDear ==
  ASSUME NEW k \in Nat, NEW x \in Int, NEW y \in Int, NEW m \in Int,
         NEW d \in Nat \ {0}, NEW e \in Nat \ {0},
         k * x > m * d, y * d >= x * e
  PROVE  k * y > m * e
<1> SUFFICES ASSUME k * y <= m * e PROVE FALSE
  <2> k * y \in Int /\ m * e \in Int  OBVIOUS
  <2> QED OBVIOUS
<1>1. (k * y) * d <= (m * e) * d
  <2> k * y \in Int /\ m * e \in Int  OBVIOUS
  <2> QED BY Scale
<1>2. (m * d) * e < (k * x) * e
  <2> m * d \in Int /\ k * x \in Int  OBVIOUS
  <2> QED BY Scale
<1>3. (m * e) * d = (m * d) * e
  <2>1. (m * e) * d = m * (e * d) /\ (m * d) * e = m * (d * e) /\ e * d = d * e  BY Associate
  <2> QED BY <2>1
<1>4. (k * x) * e = k * (x * e) /\ (k * y) * d = k * (y * d)  BY Associate
<1>5. k * (x * e) <= k * (y * d)
  <2>1. x * e \in Int /\ y * d \in Int  OBVIOUS
  <2>2. k = 0 \/ k \in Nat \ {0}  OBVIOUS
  <2>3. k \in Nat \ {0} => (x * e) * k <= (y * d) * k  BY <2>1, Scale
  <2>4. (x * e) * k = k * (x * e) /\ (y * d) * k = k * (y * d)  BY <2>1, Associate
  <2> QED BY <2>1, <2>2, <2>3, <2>4
<1>6. /\ (k * y) * d \in Int /\ (m * e) * d \in Int /\ (k * x) * e \in Int
  <2> k * y \in Int /\ m * e \in Int /\ k * x \in Int  OBVIOUS
  <2> QED OBVIOUS
<1> QED BY <1>1, <1>2, <1>3, <1>4, <1>5, <1>6

-----------------------------------------------------------------------------
\* Fitting.

\* The reason names an obstacle whose relaxation can help, and more GPUs never hurt.
LEMMA ReasonIs ==
  ASSUME NEW model \in ModelSpec, model.params # None, NEW gpu \in GpuSpec, NEW quant \in QuantSpec,
         NEW tp \in Nat, NEW batch \in Nat, NEW ctx \in Nat
  PROVE  LET reason == BlockingReason(model, gpu, quant, tp, batch, ctx)
         IN  /\ Fits(model, gpu, quant, tp, batch, ctx) <=> reason = "none"
             /\ reason = "weights" =>
                   \A b \in 1..batch, c \in 1..ctx : ~Fits(model, gpu, quant, tp, b, c)
             /\ reason = "kv_cache" =>
                   Weights(model, quant) + Overhead(model, quant) <= Available(gpu, tp)
             /\ Fits(model, gpu, quant, tp, batch, ctx) => Fits(model, gpu, quant, tp + 1, batch, ctx)
<1> DEFINE w == Weights(model, quant)
           o == Overhead(model, quant)
           a == Available(gpu, tp)
           reason == BlockingReason(model, gpu, quant, tp, batch, ctx)
<1>1. w \in Nat /\ o \in Nat  BY SizesAreNatural
<1>2. \A b, c \in Nat : KvCache(model, quant, b, c) \in Nat  BY SizesAreNatural
<1>3. a \in Nat /\ a <= Available(gpu, tp + 1) /\ Available(gpu, tp + 1) \in Nat
  <2>1. gpu.vram \in Nat  BY DEF GpuSpec
  <2>2. 160 * gpu.vram \in Nat  BY <2>1
  <2>3. (160 * gpu.vram) * (tp + 1) = (160 * gpu.vram) * tp + 160 * gpu.vram  BY <2>2
  <2>4. (160 * gpu.vram) * tp \in Nat  BY <2>2, ProductNat
  <2> QED BY <2>2, <2>3, <2>4 DEF Available
<1>4. \A b, c \in Nat : Required(model, quant, b, c) = w + KvCache(model, quant, b, c) + o
  BY DEF Required
<1>5. reason = IF Fits(model, gpu, quant, tp, batch, ctx) THEN "none"
               ELSE IF w + o > a THEN "weights" ELSE "kv_cache"
  BY DEF BlockingReason
<1>6. \A b, c, t \in Nat : Fits(model, gpu, quant, t, b, c) <=>
                           w + KvCache(model, quant, b, c) + o <= Available(gpu, t)
  BY <1>4 DEF Fits
<1>7. Fits(model, gpu, quant, tp, batch, ctx) <=> reason = "none"  BY <1>5
<1>8. reason = "weights" => \A b \in 1..batch, c \in 1..ctx : ~Fits(model, gpu, quant, tp, b, c)
  <2> SUFFICES ASSUME reason = "weights", NEW b \in 1..batch, NEW c \in 1..ctx
               PROVE  ~Fits(model, gpu, quant, tp, b, c)
    OBVIOUS
  <2>1. w + o > a  BY <1>5
  <2>2. b \in Nat /\ c \in Nat  OBVIOUS
  <2>3. KvCache(model, quant, b, c) \in Nat  BY <1>2, <2>2
  <2>4. Fits(model, gpu, quant, tp, b, c) <=> w + KvCache(model, quant, b, c) + o <= a
    BY <1>6, <2>2
  <2> HIDE DEF w, o, a
  <2> QED BY <1>1, <1>3, <2>1, <2>3, <2>4
<1>9. reason = "kv_cache" => w + o <= a
  <2> SUFFICES ASSUME reason = "kv_cache" PROVE w + o <= a
    OBVIOUS
  <2>1. ~(w + o > a)  BY <1>5
  <2> HIDE DEF w, o, a
  <2> QED BY <1>1, <1>3, <2>1
<1>10. Fits(model, gpu, quant, tp, batch, ctx) => Fits(model, gpu, quant, tp + 1, batch, ctx)
  <2>1. KvCache(model, quant, batch, ctx) \in Nat  BY <1>2
  <2>2. /\ Fits(model, gpu, quant, tp, batch, ctx) <=> w + KvCache(model, quant, batch, ctx) + o <= a
        /\ Fits(model, gpu, quant, tp + 1, batch, ctx) <=>
              w + KvCache(model, quant, batch, ctx) + o <= Available(gpu, tp + 1)
    BY <1>6
  <2> HIDE DEF w, o, a
  <2> QED BY <1>1, <1>3, <2>1, <2>2
<1> QED BY <1>7, <1>8, <1>9, <1>10

-----------------------------------------------------------------------------
\* Confidence.

\* The scores that occur, and records of them.
Scores == {0, 40, 60, 75, 80, 85, 90, 95}
Scored(s) == DOMAIN s # {} /\ \A k \in DOMAIN s : s[k] \in Scores

\* The least of some scores is one of them, and no larger than any.
LEMMA MinIs ==
  ASSUME NEW S \in SUBSET Scores, S # {}
  PROVE  Min(S) \in S /\ \A y \in S : Min(S) <= y
<1>1. \E x \in S : \A y \in S : x <= y
  <2>1. \A y \in S : y \in {0, 40, 60, 75, 80, 85, 90, 95}  BY DEF Scores
  <2>2. CASE 0 \in S
    <3>1. \A y \in S : 0 <= y  BY <2>1, <2>2
    <3> QED BY <2>2, <3>1
  <2>3. CASE 40 \in S /\ 0 \notin S
    <3>1. \A y \in S : 40 <= y  BY <2>1, <2>3
    <3> QED BY <2>3, <3>1
  <2>4. CASE 60 \in S /\ 0 \notin S /\ 40 \notin S
    <3>1. \A y \in S : 60 <= y  BY <2>1, <2>4
    <3> QED BY <2>4, <3>1
  <2>5. CASE 75 \in S /\ 0 \notin S /\ 40 \notin S /\ 60 \notin S
    <3>1. \A y \in S : 75 <= y  BY <2>1, <2>5
    <3> QED BY <2>5, <3>1
  <2>6. CASE 80 \in S /\ 0 \notin S /\ 40 \notin S /\ 60 \notin S /\ 75 \notin S
    <3>1. \A y \in S : 80 <= y  BY <2>1, <2>6
    <3> QED BY <2>6, <3>1
  <2>7. CASE 85 \in S /\ 0 \notin S /\ 40 \notin S /\ 60 \notin S /\ 75 \notin S /\ 80 \notin S
    <3>1. \A y \in S : 85 <= y  BY <2>1, <2>7
    <3> QED BY <2>7, <3>1
  <2>8. CASE 90 \in S /\ 0 \notin S /\ 40 \notin S /\ 60 \notin S /\ 75 \notin S /\ 80 \notin S /\ 85 \notin S
    <3>1. \A y \in S : 90 <= y  BY <2>1, <2>8
    <3> QED BY <2>8, <3>1
  <2>9. CASE 95 \in S /\ 0 \notin S /\ 40 \notin S /\ 60 \notin S /\ 75 \notin S /\ 80 \notin S /\ 85 \notin S /\ 90 \notin S
    <3>1. \A y \in S : 95 <= y  BY <2>1, <2>9
    <3> QED BY <2>9, <3>1
  <2> QED BY <2>1, <2>2, <2>3, <2>4, <2>5, <2>6, <2>7, <2>8, <2>9
<1> QED BY <1>1 DEF Min

\* The confidence is one of the scores, and no larger than any.
LEMMA ConfidenceIs ==
  ASSUME NEW s, Scored(s)
  PROVE  /\ \E k \in DOMAIN s : Confidence(s) = s[k]
         /\ \A k \in DOMAIN s : Confidence(s) <= s[k]
         /\ Confidence(s) \in Scores
<1>1. Range(s) \in SUBSET Scores /\ Range(s) # {}  BY DEF Scored, Range
<1>2. Confidence(s) = Min(Range(s))  BY DEF Confidence, Scored
<1>3. Min(Range(s)) \in Range(s) /\ \A y \in Range(s) : Min(Range(s)) <= y  BY <1>1, MinIs
<1> QED BY <1>1, <1>2, <1>3 DEF Range

\* Worse in every domain is no more confident.
LEMMA WorseIsWeaker ==
  ASSUME NEW s, Scored(s), NEW t, Scored(t),
         \A k \in DOMAIN s : k \in DOMAIN t /\ t[k] <= s[k]
  PROVE  Confidence(t) <= Confidence(s)
<1>1. PICK k \in DOMAIN s : Confidence(s) = s[k]  BY ConfidenceIs
<1>2. Confidence(t) <= t[k] /\ t[k] <= s[k]  BY ConfidenceIs
<1>3. Confidence(t) \in Int /\ t[k] \in Int /\ s[k] \in Int  BY ConfidenceIs DEF Scored, Scores
<1> QED BY <1>1, <1>2, <1>3

\* One score of zero makes the confidence zero.
LEMMA ZeroIsNothing ==
  ASSUME NEW s, Scored(s), NEW k \in DOMAIN s, s[k] = 0
  PROVE  Confidence(s) = 0
<1>1. Confidence(s) <= 0 /\ Confidence(s) \in Scores  BY ConfidenceIs
<1> QED BY <1>1 DEF Scores

\* A cell is scored in its own domains, and has a zero if it has no throughput.
CellScored(c) ==
    /\ Scored(c.scores) /\ "workload_assumption" \notin DOMAIN c.scores
    /\ c.tps.n = 0 => \E k \in DOMAIN c.scores : c.scores[k] = 0

\* A hosted cell is not trusted, for want of a throughput.
LEMMA HostedScored ==
  ASSUME NEW p, NEW batch, NEW ctx, NEW fresh \in Scores
  PROVE  /\ CellScored(HostedCell(p, batch, ctx, HostedScores))
         /\ CellScored(HostedCell(p, batch, ctx, Case2Scores(fresh)))
<1>1. HostedCell(p, batch, ctx, HostedScores).scores = HostedScores
      /\ HostedCell(p, batch, ctx, Case2Scores(fresh)).scores = Case2Scores(fresh)
  BY DEF HostedCell
<1>2. Scored(HostedScores) /\ Scored(Case2Scores(fresh))
  BY DEF Scored, Scores, HostedScores, Case2Scores
<1>3. /\ "workload_assumption" \notin DOMAIN HostedScores
      /\ "workload_assumption" \notin DOMAIN Case2Scores(fresh)
      /\ "throughput" \in DOMAIN HostedScores /\ HostedScores["throughput"] = 0
      /\ "throughput" \in DOMAIN Case2Scores(fresh) /\ Case2Scores(fresh)["throughput"] = 0
  BY DEF HostedScores, Case2Scores
<1> HIDE DEF HostedScores, Case2Scores
<1> QED BY <1>1, <1>2, <1>3 DEF CellScored

\* A rental without a throughput is not trusted.
LEMMA RentalScored ==
  ASSUME NEW w, WellTyped(w), NEW f, NEW p \in PricesConsidered(w, f),
         NEW m \in ModelsConsidered(w, f), NEW q \in QuantsConsidered(w, f)
  PROVE  CellScored(RentalCell(w, p, m, q, f))
<1> DEFINE t == Throughput(w.models[m], w.gpus[p.gpu], w.quants[q], f.batch)
           c == RentalCell(w, p, m, q, f)
<1>1. w.gpus[p.gpu].bandwidth \in Nat  BY DEF WellTyped, PricesConsidered, GpuSpec
<1>2. t.score \in {0, 60} /\ (t.n = 0 => t.score = 0)
  BY <1>1 DEF Throughput, Heuristic, NoThroughput
<1>3. c.scores = RentalScores(t) /\ c.tps = t  BY DEF RentalCell
<1> HIDE DEF t, c
<1>4. Scored(RentalScores(t))  BY <1>2 DEF Scored, Scores, RentalScores
<1>5. /\ "workload_assumption" \notin DOMAIN RentalScores(t)
      /\ "throughput" \in DOMAIN RentalScores(t) /\ RentalScores(t)["throughput"] = t.score
  BY DEF RentalScores
<1>6. CellScored(c)
  <2> HIDE DEF RentalScores
  <2> QED BY <1>2, <1>3, <1>4, <1>5 DEF CellScored
<1> QED BY <1>6 DEF c

\* Every cell of a query has scores; without a throughput it is not trusted.
LEMMA CellsScored ==
  ASSUME NEW w, WellTyped(w), NEW f, NEW c \in QueryCostCells(w, f)
  PROVE  CellScored(c)
<1>1. CASE c \in Rentals(w, f)  BY <1>1, RentalScored DEF Rentals
<1>2. CASE c \in Hosted(w, f)
  <2>1. PICK p \in w.llm_prices : c = HostedCell(p, f.batch, f.ctx, HostedScores)
    BY <1>2 DEF Hosted
  <2>2. 0 \in Scores  BY DEF Scores
  <2> QED BY <2>1, <2>2, HostedScored
<1> QED BY <1>1, <1>2 DEF QueryCostCells

\* Assuming a workload never raises the confidence.
LEMMA WorkloadWeakens ==
  ASSUME NEW s, Scored(s), "workload_assumption" \notin DOMAIN s
  PROVE  Scored(WithWorkload(s)) /\ Confidence(WithWorkload(s)) <= Confidence(s)
<1>1. Scored(WithWorkload(s))  BY DEF Scored, WithWorkload, Scores
<1>2. \A k \in DOMAIN s : k \in DOMAIN WithWorkload(s) /\ WithWorkload(s)[k] = s[k]
  BY DEF WithWorkload
<1>3. \A k \in DOMAIN s : s[k] <= s[k]  BY DEF Scored, Scores
<1> HIDE DEF WithWorkload
<1> QED BY <1>1, <1>2, <1>3, WorseIsWeaker

\* A comparison is trusted no more than either side.
LEMMA MergingWeakens ==
  ASSUME NEW sides, \A c \in sides : Scored(c.scores)
  PROVE  \A c \in sides : Confidence(MergedScores(sides)) <= Confidence(c.scores)
<1> DEFINE all == {c.scores : c \in sides} \cup {[workload_assumption |-> 95]}
           at(k) == {s[k] : s \in {t \in all : k \in DOMAIN t}}
           merged == MergedScores(sides)
<1>1. \A s \in all : Scored(s)
  <2>1. Scored([workload_assumption |-> 95])  BY DEF Scored, Scores
  <2> QED BY <2>1
<1>2. DOMAIN merged = UNION {DOMAIN s : s \in all} /\ \A k \in DOMAIN merged : merged[k] = Min(at(k))
  BY DEF MergedScores
<1>3. \A s \in all : \A k \in DOMAIN s : k \in DOMAIN merged /\ s[k] \in at(k)
  BY <1>2
<1>4. \A k \in DOMAIN merged : at(k) \in SUBSET Scores /\ at(k) # {}
  <2> HIDE DEF all, merged
  <2> QED BY <1>1, <1>2 DEF Scored
<1>5. \A k \in DOMAIN merged : merged[k] \in Scores /\ \A y \in at(k) : merged[k] <= y
  <2> HIDE DEF all, merged, at
  <2> QED BY <1>2, <1>4, MinIs
<1>6. Scored(merged)
  <2>1. [workload_assumption |-> 95] \in all /\ DOMAIN [workload_assumption |-> 95] # {}  OBVIOUS
  <2> HIDE DEF all, merged
  <2> QED BY <1>3, <1>5, <2>1 DEF Scored
<1>7. ASSUME NEW c \in sides PROVE Confidence(merged) <= Confidence(c.scores)
  <2>1. c.scores \in all  OBVIOUS
  <2> HIDE DEF all, merged, at
  <2>2. \A k \in DOMAIN c.scores : k \in DOMAIN merged /\ merged[k] <= c.scores[k]
    BY <1>3, <1>5, <2>1
  <2>3. Scored(c.scores)  OBVIOUS
  <2> QED BY <1>6, <2>2, <2>3, WorseIsWeaker
<1> QED BY <1>7

\* A fit check is trusted no more than the age of either source allows.
LEMMA NoFresherThanItsSources ==
  ASSUME NEW hf \in Nat, NEW cp \in Nat
  PROVE  /\ Confidence(FitCheckScores(hf, cp)) <= FreshnessConfidence("huggingface", hf)
         /\ Confidence(FitCheckScores(hf, cp)) <= FreshnessConfidence("computeprices", cp)
<1> DEFINE a == FreshnessConfidence("huggingface", hf)
           b == FreshnessConfidence("computeprices", cp)
           s == FitCheckScores(hf, cp)
<1>1. a \in Scores /\ b \in Scores  BY DEF FreshnessConfidence, Scores
<1>2. Min({a, b}) \in Scores
  <2> HIDE DEF a, b
  <2>1. {a, b} \in SUBSET Scores /\ {a, b} # {}  BY <1>1
  <2> QED BY <2>1, MinIs
<1>3. s = [fit_check |-> 85, model_architecture |-> a, gpu_specs |-> b, freshness |-> Min({a, b})]
  BY DEF FitCheckScores
<1> HIDE DEF a, b, s
<1>4. Scored(s)  BY <1>1, <1>2, <1>3 DEF Scored, Scores
<1>5. /\ "model_architecture" \in DOMAIN s /\ s["model_architecture"] = a
      /\ "gpu_specs" \in DOMAIN s /\ s["gpu_specs"] = b
  BY <1>3
<1>6. Confidence(s) <= a /\ Confidence(s) <= b  BY <1>4, <1>5, ConfidenceIs
<1> QED BY <1>6 DEF a, b, s
=============================================================================
