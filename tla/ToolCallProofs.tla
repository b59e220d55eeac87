--------------------------- MODULE ToolCallProofs ---------------------------
(***************************************************************************)
(* Proofs about ToolCall: its type invariant; that tools and resource tell *)
(* one story; that a budget plan keeps its promise and leaves out no       *)
(* better rental, to within rounding; that the reason of a fit check names *)
(* the obstacle; that no answer is trusted more than what it is made from. *)
(***************************************************************************)
EXTENDS ToolCall, CostCellsProofs, TLAPS

-----------------------------------------------------------------------------
\* The call's control.

\* No answer before the end.
OnlyThen == pc # "done" => answer = NoAnswer

\* The initial state has the types, and no answer.
LEMMA InitType == Init => TypeOK /\ OnlyThen
  BY ContentAssumption
  DEF Init, TypeOK, OnlyThen, Endpoint, Dated, Generation, Empty, Undated, NoRoute, NoAnswer, Control, Cases, Tools, Status

\* The tools change nothing but the place and the answer.
LEMMA FinishType ==
  ASSUME TypeOK, pc = "handle", NEW tool \in Tools, NEW status \in Status, NEW ask, NEW items,
         Finish(tool, status, ask, items)
  PROVE  TypeOK' /\ OnlyThen'
  BY DEF Finish, TypeOK, OnlyThen, Control, disk

\* Each tool finishes.
AnyTool ==
    \/ \E a \in CheapestArgs : FindCheapest(a.quant, a.batch, a.ctx, a.top)
    \/ \E a \in BudgetArgs : BudgetToPlan(a.budget, a.load, a.quant, a.top)
    \/ \E a \in CompareArgs : CompareDeploymentModes(a.gpu, a.quant, a.batch, a.ctx, a.load)
    \/ \E a \in FitArgs : FitCheck(a.gpu, a.quant, a.tp, a.batch, a.ctx)
    \/ RenderCurrent

\* A tool that answers does so through `Finish`.
LEMMA ToolsFinish ==
  ASSUME AnyTool
  PROVE  pc = "handle" /\ \E ask, items : \E tool \in Tools, status \in Status : Finish(tool, status, ask, items)
<1>0. {"find_cheapest", "compare", "budget_to_plan", "fit_check", "resource"} \subseteq Tools
      /\ {"ok", "unknown", "raised"} \subseteq Status
  BY DEF Tools, Status
<1>1. CASE \E a \in CheapestArgs : FindCheapest(a.quant, a.batch, a.ctx, a.top)
  BY <1>0, <1>1 DEF FindCheapest, Handling
<1>2. CASE \E a \in BudgetArgs : BudgetToPlan(a.budget, a.load, a.quant, a.top)
  BY <1>0, <1>2 DEF BudgetToPlan, Handling
<1>3. CASE \E a \in CompareArgs : CompareDeploymentModes(a.gpu, a.quant, a.batch, a.ctx, a.load)
  BY <1>0, <1>3 DEF CompareDeploymentModes, Handling
<1>4. CASE \E a \in FitArgs : FitCheck(a.gpu, a.quant, a.tp, a.batch, a.ctx)
  BY <1>0, <1>4 DEF FitCheck, Handling
<1>5. CASE RenderCurrent
  BY <1>0, <1>5 DEF RenderCurrent, Handling
<1> QED BY <1>1, <1>2, <1>3, <1>4, <1>5 DEF AnyTool

\* The tool named in an answer is the one that gave it.
LEMMA EachAnswersForItself ==
  ASSUME AnyTool
  PROVE  /\ answer'.tool = "find_cheapest" =>
              \E a \in CheapestArgs : FindCheapest(a.quant, a.batch, a.ctx, a.top)
         /\ answer'.tool = "budget_to_plan" =>
              \E a \in BudgetArgs : BudgetToPlan(a.budget, a.load, a.quant, a.top)
         /\ answer'.tool = "compare" =>
              \E a \in CompareArgs : CompareDeploymentModes(a.gpu, a.quant, a.batch, a.ctx, a.load)
         /\ answer'.tool = "fit_check" =>
              \E a \in FitArgs : FitCheck(a.gpu, a.quant, a.tp, a.batch, a.ctx)
         /\ answer'.tool = "resource" => RenderCurrent
<1>1. CASE \E a \in CheapestArgs : FindCheapest(a.quant, a.batch, a.ctx, a.top)
  <2> answer'.tool = "find_cheapest"  BY <1>1 DEF FindCheapest, Finish
  <2> QED BY <1>1
<1>2. CASE \E a \in BudgetArgs : BudgetToPlan(a.budget, a.load, a.quant, a.top)
  <2> answer'.tool = "budget_to_plan"  BY <1>2 DEF BudgetToPlan, Finish
  <2> QED BY <1>2
<1>3. CASE \E a \in CompareArgs : CompareDeploymentModes(a.gpu, a.quant, a.batch, a.ctx, a.load)
  <2> answer'.tool = "compare"  BY <1>3 DEF CompareDeploymentModes, Finish
  <2> QED BY <1>3
<1>4. CASE \E a \in FitArgs : FitCheck(a.gpu, a.quant, a.tp, a.batch, a.ctx)
  <2> answer'.tool = "fit_check"  BY <1>4 DEF FitCheck, Finish
  <2> QED BY <1>4
<1>5. CASE RenderCurrent
  <2> answer'.tool = "resource"  BY <1>5 DEF RenderCurrent, Finish
  <2> QED BY <1>5
<1> QED BY <1>1, <1>2, <1>3, <1>4, <1>5 DEF AnyTool

\* Every step keeps the types, and answers at the end only.
LEMMA NextType == TypeOK /\ OnlyThen /\ [Next]_vars => TypeOK' /\ OnlyThen'
<1> SUFFICES ASSUME TypeOK, OnlyThen, [Next]_vars PROVE TypeOK' /\ OnlyThen'
  OBVIOUS
<1> USE DEF TypeOK, OnlyThen, disk, Endpoint, Dated, Reads, Generation
<1>0. 0 \in Generation  BY ContentAssumption
<1>1. CASE \E e \in Endpoint : Refresh(e)
  <2>1. store' \in [Endpoint -> Generation] /\ pc # "done"  BY <1>1 DEF Refresh, Elsewhere
  <2> QED BY <1>1, <2>1 DEF Refresh
<1>2. CASE \E m \in DOMAIN Arch : Appear(m)
  BY <1>2 DEF Appear, Elsewhere
<1>3. CASE \E k \in {"tool", "resource"} : Start(k)
  BY <1>3 DEF Start, Control
<1>4. CASE Unwritable
  BY <1>4 DEF Unwritable
<1>5. CASE ReadList
  <2>0. read \in {1, 2, 3, 4}  BY <1>5 DEF ReadList
  <2>1. Reads[read] \in Endpoint  BY <2>0
  <2>4. {0, store[Reads[read]]} \subseteq Generation
    <3>. HIDE DEF Reads, Endpoint, Generation
    <3>. QED BY <1>0, <2>1
  <2>2. rows' \in [Endpoint -> Generation]  BY <1>5, <2>1, <2>4 DEF ReadList
  <2>3. read' \in 1..7  BY <1>5 DEF ReadList
  <2> QED BY <1>5, <2>2, <2>3 DEF ReadList
<1>6. CASE ReadDate
  <2>0. read \in {5, 6}  BY <1>6 DEF ReadDate
  <2>1. Reads[read] \in Dated /\ Dated \subseteq Endpoint  BY <2>0
  <2>2. {0, store[Reads[read]]} \subseteq Generation
    <3>. HIDE DEF Reads, Endpoint, Dated, Generation
    <3>. QED BY <1>0, <2>1
  <2>3. dates' \in [Dated -> Generation]  BY <1>6, <2>1, <2>2 DEF ReadDate
  <2>4. read' \in 1..7  BY <1>6 DEF ReadDate
  <2> QED BY <1>6, <2>3, <2>4 DEF ReadDate
<1>7. CASE ReadEscapes
  <2>1. rows' \in [Endpoint -> Generation] /\ dates' \in [Dated -> Generation]
    BY <1>7, ContentAssumption DEF ReadEscapes, Empty, Undated
  <2>2. pc' \in Control /\ (pc' = "handle" => kind = "resource") /\ pc' \in {"done", "handle"} /\ pc # "done"
    BY <1>7 DEF ReadEscapes, Control
  <2>3. answer'.tool \in Tools /\ answer'.status \in Status /\ (pc' = "handle" => answer' = NoAnswer)
    BY <1>7 DEF ReadEscapes, NoAnswer, Tools, Status
  <2> QED BY <1>7, <2>1, <2>2, <2>3 DEF ReadEscapes
<1>8. CASE ReadModels
  BY <1>8 DEF ReadModels, Control
<1>9. CASE \E m \in Slugs : Dispatch(m)
  <2> PICK m \in Slugs : Dispatch(m)  BY <1>9
  <2>1. route' \in [case : Cases, slug : Slugs \cup {None}] /\ route'.slug = m
    BY DEF Dispatch, FallBack, Cases
  <2>2. pc' \in {"handle", "sync"} /\ pc # "done"
        /\ (pc' = "handle" => route'.case # "none") /\ (pc' = "sync" => m \in Tracked)
        /\ (route'.case = "resolved" => m \in models)
    BY DEF Dispatch, FallBack
  <2> QED BY <2>1, <2>2 DEF Dispatch, Control
<1>10. CASE LazySync
  <2>1. route.slug \in Slugs \cap DOMAIN Arch  BY <1>10, ToolAssumption DEF LazySync
  <2>2. route' = [case |-> "resolved", slug |-> route.slug]  BY <1>10 DEF LazySync
  <2> QED BY <1>10, <2>1, <2>2 DEF LazySync, Control, Cases
<1>11. CASE LazySyncFails
  <2>1. route.slug \in Slugs  BY <1>11, ToolAssumption DEF LazySyncFails
  <2> QED BY <1>11, <2>1 DEF LazySyncFails, FallBack, Control, Cases
<1>12. CASE Elicit
  <2>1. answer'.tool \in Tools /\ answer'.status \in Status  BY <1>12 DEF Elicit, NoAnswer, Tools, Status
  <2> QED BY <1>12, <2>1 DEF Elicit, Control
<1>13. CASE AnyTool
  BY <1>13, ToolsFinish, FinishType
<1>14. CASE Return
  <2>1. rows' \in [Endpoint -> Generation] /\ dates' \in [Dated -> Generation]
    BY <1>14, ContentAssumption DEF Return, Empty, Undated
  <2> QED BY <1>14, <2>1 DEF Return, NoRoute, NoAnswer, Tools, Status, Control, Cases
<1>15. CASE UNCHANGED vars
  BY <1>15 DEF vars
<1> QED
  BY <1>1, <1>2, <1>3, <1>4, <1>5, <1>6, <1>7, <1>8, <1>9, <1>10, <1>11, <1>12, <1>13, <1>14,
     <1>15 DEF Next, AnyTool

\* Hence both hold for ever.
LEMMA TypeAlways == Spec => [](TypeOK /\ OnlyThen)
  BY InitType, NextType, PTL DEF Spec

\* Every variable of a call keeps to its type, a resolved model is on disk and the
\* slug under way is a tracked one: for any models, prices and arguments.
THEOREM TypeCorrect == Spec => []TypeOK
  BY TypeAlways, PTL

-----------------------------------------------------------------------------
\* Answers are given by the tools only, and what they were computed from stays.

Basis == <<answer, rows, dates, models, route>>

\* Any other step gives no good answer, or leaves the answer and all it speaks of as they are.
LEMMA AnswersStay ==
  ASSUME TypeOK, OnlyThen, [Next]_vars, ~AnyTool
  PROVE  answer'.status \in {"none", "raised", "elicit"} \/ UNCHANGED Basis
<1> USE DEF OnlyThen, Basis, disk
<1>0. NoAnswer.status = "none"  BY DEF NoAnswer
<1>1. CASE pc # "done" /\ answer' = answer  BY <1>0, <1>1
<1>2. CASE \E e \in Endpoint : Refresh(e)  BY <1>2 DEF Refresh
<1>3. CASE \E m \in DOMAIN Arch : Appear(m)  BY <1>3 DEF Appear
<1>4. CASE \E k \in {"tool", "resource"} : Start(k)  BY <1>1, <1>4 DEF Start
<1>5. CASE Unwritable \/ ReadList \/ ReadDate \/ ReadModels
  BY <1>1, <1>5 DEF Unwritable, ReadList, ReadDate, ReadModels
<1>6. CASE ReadEscapes  BY <1>1, <1>6 DEF ReadEscapes, NoAnswer
<1>7. CASE \E m \in Slugs : Dispatch(m)  BY <1>1, <1>7 DEF Dispatch
<1>8. CASE LazySync \/ LazySyncFails  BY <1>1, <1>8 DEF LazySync, LazySyncFails
<1>9. CASE Elicit  BY <1>9 DEF Elicit, NoAnswer
<1>10. CASE Return  BY <1>0, <1>10 DEF Return
<1>11. CASE UNCHANGED vars  BY <1>11 DEF vars
<1> QED
  BY <1>2, <1>3, <1>4, <1>5, <1>6, <1>7, <1>8, <1>9, <1>10, <1>11 DEF Next, AnyTool

\* What the model reads of a call's data is of the right types.
LEMMA WorldIsTyped ==
  ASSUME TypeOK, NEW ms \in SUBSET DOMAIN Arch
  PROVE  WellTyped(World(ms))
<1> DEFINE w == World(ms)
<1>1. /\ rows["gpu_prices"] \in Generation /\ rows["llm_prices"] \in Generation
      /\ rows["gpus"] \in Generation
  BY DEF TypeOK, Endpoint
<1>2. \A p \in w.gpu_prices : p.hourly \in Int  BY <1>1, ContentAssumption DEF World
<1>3. \A p \in w.llm_prices : p.input \in Int \cup {None} /\ p.output \in Int \cup {None}
  BY <1>1, ContentAssumption DEF World
<1>4. w.gpus \in [DOMAIN w.gpus -> GpuSpec]  BY <1>1, ContentAssumption DEF World
<1>5. w.models \in [DOMAIN w.models -> ModelSpec]  BY ToolAssumption DEF World
<1>6. w.quants \in [DOMAIN w.quants -> QuantSpec]  BY ToolAssumption DEF World
<1> QED BY <1>2, <1>3, <1>4, <1>5, <1>6 DEF WellTyped

\* The models of a resolved call are on disk, so each has a specification.
LEMMA CatalogIsTyped ==
  ASSUME TypeOK, Resolved
  PROVE  WithResolved \in SUBSET DOMAIN Arch
  BY DEF TypeOK, Resolved, WithResolved

\* Cells of either kind, by the case of the call.
LEMMA PartialCellsAre ==
  ASSUME TypeOK, NEW batch, NEW ctx, NEW c \in PartialCells(batch, ctx)
  PROVE  HostedLike(c)
<1>1. rows["llm_prices"] \in Generation  BY DEF TypeOK, Endpoint
<1>2. PICK p \in HostedPrices(route.slug) :
         c = HostedCell(p, batch, ctx,
                        Case2Scores(FreshnessConfidence("computeprices", Age[dates["llm_prices"]])))
  BY DEF PartialCells, Case2Cells
<1>3. p.input \in Int \cup {None} /\ p.output \in Int \cup {None}
  BY <1>1, ContentAssumption DEF HostedPrices
<1> QED BY <1>2, <1>3, HostedCellIs

-----------------------------------------------------------------------------
\* Budget plans.

\* The budget pays for k prompts if k times the price of one is within it.
LEMMA AffordableIs ==
  ASSUME NEW c, RentalLike(c) \/ HostedLike(c), NEW load \in [input : Nat \ {0}, output : Nat \ {0}],
         Priced(c, load), NEW k \in Nat, NEW money \in Nat
  PROVE  LET cost == PerPrompt(c, load)
         IN  /\ Affordable(c, k, load, money) <=> cost.n * k <= money * cost.d
             /\ c.mode = Rental => cost.d = c.tps.n /\ ((k * load.output) * c.tps.d) * c.hourly = cost.n * k
<1> DEFINE cost == PerPrompt(c, load)
<1>1. cost.n \in Nat \ {0} /\ cost.d \in Nat \ {0}  BY PerPromptIs
<1>2. load.output \in Nat /\ load.input \in Nat  OBVIOUS
<1>3. CASE c.mode = Rental
  <2> DEFINE h == c.hourly
             d == c.tps.d
             out == load.output
  <2>1. cost.n = out * (h * d) /\ cost.d = c.tps.n /\ h \in Int /\ d \in Int
    BY <1>3, PerPromptIs DEF RentalLike
  <2>2. Affordable(c, k, load, money) <=> (k * out) * (d * h) <= money * c.tps.n
    BY <1>3 DEF Affordable
  <2>3. (k * out) * (d * h) = cost.n * k
    <3> HIDE DEF cost, h, d, out
    <3>1. out \in Int  BY <1>2 DEF out
    <3>2. h * d \in Int /\ d * h = h * d  BY <2>1
    <3>3. (k * out) * (h * d) = k * (out * (h * d))  BY <3>1, <3>2, Associate
    <3>4. out * (h * d) \in Int  BY <3>1, <3>2
    <3> QED BY <2>1, <3>2, <3>3, <3>4, Associate
  <2>4. ((k * out) * d) * h = (k * out) * (d * h)
    <3> HIDE DEF cost, h, d, out
    <3>1. k * out \in Int  BY <1>2 DEF out
    <3> QED BY <2>1, <3>1, Associate
  <2> HIDE DEF cost
  <2>5. /\ Affordable(c, k, load, money) <=> cost.n * k <= money * cost.d
        /\ cost.d = c.tps.n /\ ((k * load.output) * c.tps.d) * c.hourly = cost.n * k
    BY <2>1, <2>2, <2>3, <2>4
  <2> QED BY <2>5 DEF cost
<1>4. CASE c.mode = HostedApi
  <2> DEFINE x == load.input * c.input
             y == load.output * c.rate.n
  <2>1. cost.n = y + x /\ cost.d = 1 /\ c.input \in Int /\ c.rate.n \in Int
    BY <1>4, PerPromptIs
  <2>2. x \in Int /\ y \in Int  BY <1>2, <2>1
  <2>3. Affordable(c, k, load, money) <=> k * (x + y) <= money
    BY <1>4, ModesDiffer DEF Affordable
  <2>4. k * (x + y) = cost.n * k /\ money * cost.d = money
    <3> HIDE DEF cost, x, y
    <3>1. x + y \in Int /\ cost.n = x + y  BY <2>1, <2>2
    <3> QED BY <2>1, <3>1, Associate
  <2> HIDE DEF cost
  <2>5. Affordable(c, k, load, money) <=> cost.n * k <= money * cost.d  BY <2>3, <2>4
  <2> QED BY <1>4, <2>5, ModesDiffer DEF cost
<1> QED BY <1>3, <1>4 DEF RentalLike, HostedLike

\* What a plan promises of a number of prompts, for a budget and a workload.
Promised(r, budget, load) ==
    /\ Affordable(r.cell, Precision * r.prompts, load, (Precision + 1) * budget)
    /\ ~Affordable(r.cell, Precision * (r.prompts + 1), load, (Precision - 1) * budget)
    /\ r.cell.mode = Rental =>
          Precision * (r.decoding.n * r.rented.d) <= (Precision + 1) * (r.rented.n * r.decoding.d)

\* A plan's row is worth its cell: about as many prompts as the budget pays for.
LEMMA RowKeepsItsPromise ==
  ASSUME NEW c, RentalLike(c) \/ HostedLike(c),
         NEW load \in [input : Nat \ {0}, output : Nat \ {0}],
         Priced(c, load), NEW budget \in Nat \ {0}, NEW k \in Prompts(budget, PerPrompt(c, load))
  PROVE  LET r == PlanRow(c, budget, load, k)
         IN  r.cell = c /\ r.prompts = k /\ k \in Nat /\ Promised(r, budget, load)
<1> DEFINE cost == PerPrompt(c, load)
           P == Precision
           more == (P + 1) * budget
           less == (P - 1) * budget
           r == PlanRow(c, budget, load, k)
<1>1. cost.n \in Nat \ {0} /\ cost.d \in Nat \ {0}  BY PerPromptIs
<1>2. /\ k \in Nat
      /\ cost.n * (P * k) <= more * cost.d
      /\ ~(cost.n * (P * (k + 1)) <= less * cost.d)
  <2> HIDE DEF cost
  <2> QED BY <1>1, PromptsAre DEF cost
<1>3. P \in Nat /\ P - 1 \in Nat /\ P + 1 \in Nat  BY PrecisionAssumption
<1>4. more \in Nat /\ less \in Nat /\ P * k \in Nat /\ P * (k + 1) \in Nat
  <2> HIDE DEF P
  <2>1. k + 1 \in Nat  BY <1>2
  <2> QED BY <1>2, <1>3, <2>1, ProductNat
<1>5. r.cell = c /\ r.prompts = k  BY DEF PlanRow
<1>6. Affordable(c, P * k, load, more) /\ ~Affordable(c, P * (k + 1), load, less)
  <2> HIDE DEF P, more, less
  <2> QED BY <1>2, <1>4, AffordableIs
<1>7. ASSUME c.mode = Rental
      PROVE  P * (r.decoding.n * r.rented.d) <= (P + 1) * (r.rented.n * r.decoding.d)
  <2> DEFINE t == (k * load.output) * c.tps.d
             h == c.hourly
  <2>1. c.tps.n > 0 /\ c.tps.n \in Nat /\ c.tps.d \in Nat /\ h \in Int /\ cost.d = c.tps.n
    BY <1>7, PerPromptIs DEF RentalLike
  <2>2. r.decoding = [n |-> t, d |-> c.tps.n] /\ r.rented = [n |-> budget, d |-> h]
    BY <1>7, <2>1, ModesDiffer DEF PlanRow
  <2>3. t * h = cost.n * k  BY <1>2, <1>7, AffordableIs
  <2>4. P * (t * h) = cost.n * (P * k)
    <3> HIDE DEF P, cost, t, h
    <3>1. P * (cost.n * k) = (P * cost.n) * k /\ P * cost.n = cost.n * P
          /\ (cost.n * P) * k = cost.n * (P * k)
      BY <1>1, <1>2, <1>3, Associate
    <3> QED BY <2>3, <3>1
  <2>5. more * cost.d = (P + 1) * (budget * c.tps.n)
    <3> HIDE DEF P, cost
    <3>1. ((P + 1) * budget) * cost.d = (P + 1) * (budget * cost.d)  BY <1>1, <1>3, Associate
    <3> QED BY <2>1, <3>1
  <2> HIDE DEF P, more, cost, t, h, r
  <2> QED BY <1>2, <2>2, <2>4, <2>5
<1> HIDE DEF r, more, less, P
<1>8. Promised(r, budget, load)  BY <1>5, <1>6, <1>7 DEF Promised, more, less, P
<1> QED BY <1>2, <1>5, <1>8 DEF r

\* The cells that a plan or a ranking is made of.
PlanCells(quant) ==
    IF Resolved
    THEN QueryCostCells(World(WithResolved), ToolFilter(route.slug, None, quant, 1, 1))
    ELSE PartialCells(1, 1)

\* The plans come from the plan builder, over the cells of the call.
LEMMA PlanAnswers ==
  ASSUME TypeOK, AnyTool, Answered("budget_to_plan")'
  PROVE  \E a \in BudgetArgs :
            /\ a.load \in DOMAIN Workloads /\ a.budget \in Nat
            /\ answer'.ask = [budget |-> a.budget, load |-> a.load, quant |-> a.quant, top |-> a.top]
            /\ answer'.items \in Plans(PlanCells(a.quant), a.budget, Workloads[a.load], a.top)
            /\ UNCHANGED <<rows, dates, models, route>>
<1>5. PICK a \in BudgetArgs : BudgetToPlan(a.budget, a.load, a.quant, a.top)
  BY EachAnswersForItself DEF Answered
<1>6. /\ a.load \in DOMAIN Workloads /\ ~(a.budget < 0)
      /\ \E plans \in Plans(PlanCells(a.quant), a.budget, Workloads[a.load], a.top) :
            Finish("budget_to_plan", "ok",
                   [budget |-> a.budget, load |-> a.load, quant |-> a.quant, top |-> a.top], plans)
  BY <1>5 DEF BudgetToPlan, Finish, Answered, PlanCells, Resolved
<1>7. a.budget \in Nat  BY <1>6, ArgsAssumption
<1> QED BY <1>6, <1>7 DEF Finish

\* Those cells are rentals or hosted ones.
LEMMA PlanCellsAre ==
  ASSUME TypeOK, NEW quant, NEW c \in PlanCells(quant)
  PROVE  RentalLike(c) \/ HostedLike(c)
<1>1. CASE Resolved
  <2>1. WellTyped(World(WithResolved))  BY <1>1, CatalogIsTyped, WorldIsTyped
  <2> QED BY <1>1, <2>1, CellsAre DEF PlanCells
<1>2. CASE ~Resolved  BY <1>2, PartialCellsAre DEF PlanCells
<1> QED BY <1>1, <1>2

\* A budget of nothing buys no plan.
LEMMA NothingForNothing ==
  ASSUME NEW cells, NEW load, NEW n, NEW plans \in Plans(cells, 0, load, n)
  PROVE  plans = {}
  BY DEF Plans

\* The step that answers with plans keeps their promise.
LEMMA PlanInductive ==
  ASSUME TypeOK, OnlyThen, PlanKeepsItsPromise, [Next]_vars
  PROVE  PlanKeepsItsPromise'
<1>1. CASE ~AnyTool
  BY <1>1, AnswersStay DEF PlanKeepsItsPromise, Answered, Basis, Ask
<1>2. CASE AnyTool /\ Answered("budget_to_plan")'
  <2>1. PICK a \in BudgetArgs :
            /\ a.load \in DOMAIN Workloads /\ a.budget \in Nat
            /\ answer'.ask = [budget |-> a.budget, load |-> a.load, quant |-> a.quant, top |-> a.top]
            /\ answer'.items \in Plans(PlanCells(a.quant), a.budget, Workloads[a.load], a.top)
    BY <1>2, PlanAnswers
  <2> DEFINE load == Workloads[a.load]
  <2>2. load \in [input : Nat \ {0}, output : Nat \ {0}]  BY <2>1, ToolAssumption
  <2>3. ASSUME NEW r \in answer'.items
        PROVE  Promised(r, a.budget, load)
    <3>1. a.budget \in Nat \ {0}  BY <2>1, <2>3, NothingForNothing
    <3>2. PICK c \in PlanCells(a.quant) :
            \E k \in Prompts(a.budget, PerPrompt(c, load)) :
               Priced(c, load) /\ r = PlanRow(c, a.budget, load, k)
      BY <2>1, <2>3, PlansAre
    <3>3. RentalLike(c) \/ HostedLike(c)  BY PlanCellsAre
    <3> HIDE DEF load
    <3> QED BY <2>2, <3>1, <3>2, <3>3, RowKeepsItsPromise
  <2>4. answer'.ask.load = a.load /\ answer'.ask.budget = a.budget  BY <2>1
  <2> QED BY <2>3, <2>4 DEF PlanKeepsItsPromise, Promised, Ask
<1> QED BY <1>1, <1>2 DEF PlanKeepsItsPromise

\* At first there is no answer.
LEMMA InitAnswers == Init => answer.tool = "none" /\ answer.status = "none"
  BY DEF Init, NoAnswer

\* For any prices, models, workloads and budgets, and any precision of the quotient: to
\* within that precision a plan promises the prompts its budget pays for, none more and
\* none fewer, and decodes them within the hours it rents.
THEOREM PlansArePaidFor == Spec => []PlanKeepsItsPromise
<1>1. Init => PlanKeepsItsPromise  BY InitAnswers DEF PlanKeepsItsPromise, Answered
<1>2. TypeOK /\ OnlyThen /\ PlanKeepsItsPromise /\ [Next]_vars => PlanKeepsItsPromise'
  BY PlanInductive
<1> QED BY <1>1, <1>2, TypeAlways, PTL DEF Spec

-----------------------------------------------------------------------------
\* One story.

\* What a tool's query returns is of the table, and of the table's rentals it
\* misses none.
LEMMA QueryIsOfTable ==
  ASSUME TypeOK, Resolved, NEW gpu, NEW quant, NEW batch, NEW ctx
  PROVE  LET cells == QueryCostCells(World(WithResolved), ToolFilter(route.slug, gpu, quant, batch, ctx))
             table == TableOf(batch, ctx, quant)
         IN  /\ cells \subseteq {c \in table : Passes(gpu, c.gpu)}
             /\ \A c \in table : c.mode = Rental /\ Passes(gpu, c.gpu) => c \in cells
             /\ \A c \in table : c.mode = Rental \/ c.gpu = None
<1> DEFINE w == World(WithResolved)
           f == ToolFilter(route.slug, gpu, quant, batch, ctx)
           u == Unfiltered(batch, ctx)
<1>1. route.slug # None  BY ToolAssumption DEF TypeOK, Resolved
<1>2. /\ Hosted(w, f) \subseteq {c \in Hosted(w, u) : Selects(c, route.slug, gpu, quant)}
      /\ Rentals(w, f) = {c \in Rentals(w, u) : Selects(c, route.slug, gpu, quant)}
  BY FilteringSelects
<1>3. \A c : Selects(c, route.slug, gpu, quant) <=>
             c.model = route.slug /\ Passes(gpu, c.gpu) /\ Passes(quant, c.quant)
  BY <1>1 DEF Selects, Passes
<1>4. \A c \in Hosted(w, u) : c.mode = HostedApi /\ c.gpu = None
  BY DEF Hosted, HostedCell
<1>5. \A c \in Rentals(w, u) : c.mode = Rental
  BY DEF Rentals, RentalCell
<1>6. TableOf(batch, ctx, quant) =
        {c \in Rentals(w, u) \cup Hosted(w, u) : c.model = route.slug /\ Passes(quant, c.quant)}
  BY DEF TableOf, QueryCostCells
<1>7. QueryCostCells(w, f) = Rentals(w, f) \cup Hosted(w, f)  BY DEF QueryCostCells
<1> HIDE DEF w, f, u
<1>8. /\ QueryCostCells(w, f) \subseteq {c \in TableOf(batch, ctx, quant) : Passes(gpu, c.gpu)}
      /\ \A c \in TableOf(batch, ctx, quant) : c.mode = Rental /\ Passes(gpu, c.gpu) => c \in QueryCostCells(w, f)
      /\ \A c \in TableOf(batch, ctx, quant) : c.mode = Rental \/ c.gpu = None
  BY <1>2, <1>3, <1>4, <1>5, <1>6, <1>7, ModesDiffer
<1> QED BY <1>8 DEF w, f

\* A tool's step leaves the table as it is.
LEMMA TableStays ==
  ASSUME UNCHANGED <<rows, models, route>>
  PROVE  \A batch, ctx, quant : TableOf(batch, ctx, quant)' = TableOf(batch, ctx, quant)
  BY DEF TableOf, World, WithResolved

\* The cheapest come from the ranking of the call's cells.
LEMMA CheapestAnswers ==
  ASSUME TypeOK, AnyTool, Answered("find_cheapest")', Resolved
  PROVE  \E a \in CheapestArgs :
            /\ answer'.ask = [quant |-> a.quant, batch |-> a.batch, ctx |-> a.ctx, top |-> a.top]
            /\ answer'.items \in
                 Cheapest(QueryCostCells(World(WithResolved),
                                         ToolFilter(route.slug, None, a.quant, a.batch, a.ctx)), a.top)
            /\ UNCHANGED <<rows, dates, models, route>>
<1>5. PICK a \in CheapestArgs : FindCheapest(a.quant, a.batch, a.ctx, a.top)
  BY EachAnswersForItself DEF Answered
<1> QED BY <1>5 DEF FindCheapest, Finish, Answered, Resolved

\* A comparison is of first cells, of a resolved model only.
LEMMA CompareAnswers ==
  ASSUME TypeOK, AnyTool, Answered("compare")', Resolved
  PROVE  \E a \in CompareArgs :
            /\ answer'.ask = [gpu |-> a.gpu, quant |-> a.quant, batch |-> a.batch, ctx |-> a.ctx,
                              load |-> a.load]
            /\ \E cloud \in FirstOf(QueryCostCells(World(WithResolved),
                                      ToolFilter(route.slug, a.gpu, a.quant, a.batch, a.ctx)), Rental),
                  hosted \in FirstOf(QueryCostCells(World(WithResolved),
                                      ToolFilter(route.slug, a.gpu, a.quant, a.batch, a.ctx)), HostedApi) :
                  answer'.items = {Comparison(cloud, hosted, Workloads[a.load])}
            /\ UNCHANGED <<rows, dates, models, route>>
<1>5. PICK a \in CompareArgs : CompareDeploymentModes(a.gpu, a.quant, a.batch, a.ctx, a.load)
  BY EachAnswersForItself DEF Answered
<1> QED BY <1>5 DEF CompareDeploymentModes, Finish, Answered, Resolved

\* A filter on a GPU leaves no hosted cell.
LEMMA NoHostedSide ==
  ASSUME NEW w, NEW model, NEW gpu, gpu # None, NEW quant, NEW batch, NEW ctx
  PROVE  \A c \in QueryCostCells(w, ToolFilter(model, gpu, quant, batch, ctx)) : c.mode # HostedApi
<1> DEFINE f == ToolFilter(model, gpu, quant, batch, ctx)
<1>1. HostedFilteredOut(f)  BY NoneAssumption DEF HostedFilteredOut, ToolFilter
<1>2. Hosted(w, f) = {}  BY <1>1 DEF Hosted
<1>3. \A c \in Rentals(w, f) : c.mode = Rental  BY DEF Rentals, RentalCell
<1> HIDE DEF f
<1>4. \A c \in QueryCostCells(w, f) : c.mode # HostedApi
  BY <1>2, <1>3, ModesDiffer DEF QueryCostCells
<1> QED BY <1>4 DEF f

\* The step that answers does so from the table.
LEMMA AgreementInductive ==
  ASSUME TypeOK, OnlyThen, ToolsAgreeWithTable, [Next]_vars
  PROVE  ToolsAgreeWithTable'
<1>1. CASE ~AnyTool
  <2>1. CASE answer'.status \in {"none", "raised", "elicit"}
    BY <2>1 DEF ToolsAgreeWithTable, Answered
  <2>2. CASE UNCHANGED Basis
    BY <2>2, TableStays DEF ToolsAgreeWithTable, Answered, Basis, Ask, Resolved
  <2> QED BY <1>1, <2>1, <2>2, AnswersStay
<1>2. CASE AnyTool
  <2>1. UNCHANGED <<rows, dates, models, route>>  BY <1>2, ToolsFinish DEF Finish
  <2> SUFFICES ASSUME Resolved
               PROVE  ToolsAgreeWithTable'
    BY <2>1 DEF ToolsAgreeWithTable, Resolved
  <2>2. ASSUME Answered("find_cheapest")'
        PROVE  answer'.items \subseteq TableOf(answer'.ask.batch, answer'.ask.ctx, answer'.ask.quant)
    <3>1. PICK a \in CheapestArgs :
            /\ answer'.ask = [quant |-> a.quant, batch |-> a.batch, ctx |-> a.ctx, top |-> a.top]
            /\ answer'.items \in
                 Cheapest(QueryCostCells(World(WithResolved),
                                         ToolFilter(route.slug, None, a.quant, a.batch, a.ctx)), a.top)
      BY <1>2, <2>2, CheapestAnswers
    <3> HIDE DEF Cheapest
    <3>2. answer'.items \subseteq TableOf(a.batch, a.ctx, a.quant)
      BY <3>1, CheapestIs, QueryIsOfTable
    <3> QED BY <3>1, <3>2
  <2>3. ASSUME Answered("budget_to_plan")'
        PROVE  {r.cell : r \in answer'.items} \subseteq TableOf(1, 1, answer'.ask.quant)
    <3>1. PICK a \in BudgetArgs :
            /\ answer'.ask = [budget |-> a.budget, load |-> a.load, quant |-> a.quant, top |-> a.top]
            /\ answer'.items \in Plans(PlanCells(a.quant), a.budget, Workloads[a.load], a.top)
      BY <1>2, <2>3, PlanAnswers
    <3>2. \A r \in answer'.items : \E c \in PlanCells(a.quant) : \E k :
              r = PlanRow(c, a.budget, Workloads[a.load], k)
      BY <3>1, PlansAre
    <3>3. \A r \in answer'.items : r.cell \in PlanCells(a.quant)  BY <3>2 DEF PlanRow
    <3>4. PlanCells(a.quant) \subseteq TableOf(1, 1, a.quant)  BY QueryIsOfTable DEF PlanCells
    <3> QED BY <3>1, <3>3, <3>4
  <2>4. ASSUME Answered("compare")'
        PROVE  LET table == {c \in TableOf(answer'.ask.batch, answer'.ask.ctx, answer'.ask.quant) :
                                c.gpu = answer'.ask.gpu}
               IN  \A x \in answer'.items :
                      /\ IF table = {} THEN x.cloud = None ELSE x.cloud \in table
                      /\ x.hosted = None /\ x.verdict = "unknown"
    <3>1. PICK a \in CompareArgs :
            /\ answer'.ask = [gpu |-> a.gpu, quant |-> a.quant, batch |-> a.batch, ctx |-> a.ctx,
                              load |-> a.load]
            /\ \E cloud \in FirstOf(QueryCostCells(World(WithResolved),
                                      ToolFilter(route.slug, a.gpu, a.quant, a.batch, a.ctx)), Rental),
                  hosted \in FirstOf(QueryCostCells(World(WithResolved),
                                      ToolFilter(route.slug, a.gpu, a.quant, a.batch, a.ctx)), HostedApi) :
                  answer'.items = {Comparison(cloud, hosted, Workloads[a.load])}
      BY <1>2, <2>4, CompareAnswers
    <3> DEFINE cells == QueryCostCells(World(WithResolved),
                                       ToolFilter(route.slug, a.gpu, a.quant, a.batch, a.ctx))
               table == {c \in TableOf(a.batch, a.ctx, a.quant) : c.gpu = a.gpu}
    <3>2. a.gpu # None  BY ArgsAssumption
    <3>3. {c \in cells : c.mode = Rental} = table
      <4>1. /\ cells \subseteq {c \in TableOf(a.batch, a.ctx, a.quant) : Passes(a.gpu, c.gpu)}
            /\ \A c \in TableOf(a.batch, a.ctx, a.quant) : c.mode = Rental /\ Passes(a.gpu, c.gpu) => c \in cells
            /\ \A c \in TableOf(a.batch, a.ctx, a.quant) : c.mode = Rental \/ c.gpu = None
        BY QueryIsOfTable
      <4> HIDE DEF cells
      <4> QED BY <3>2, <4>1 DEF Passes
    <3>4. PICK cloud \in FirstOf(cells, Rental), hosted \in FirstOf(cells, HostedApi) :
             answer'.items = {Comparison(cloud, hosted, Workloads[a.load])}
      BY <3>1
    <3>5. IF table = {} THEN cloud = None ELSE cloud \in table
      <4> HIDE DEF cells, table
      <4> QED BY <3>3, <3>4 DEF FirstOf
    <3>6. hosted = None
      <4>1. \A c \in cells : c.mode # HostedApi  BY <3>2, NoHostedSide
      <4> HIDE DEF cells
      <4> QED BY <3>4, <4>1 DEF FirstOf
    <3>7. Verdict(SideCost(cloud, Workloads[a.load]), SideCost(hosted, Workloads[a.load])) = "unknown"
      BY <3>6 DEF Verdict, SideCost
    <3>8. \A x \in answer'.items : x.cloud = cloud /\ x.hosted = None /\ x.verdict = "unknown"
      <4> HIDE DEF cells, table
      <4> QED BY <3>4, <3>6, <3>7 DEF Comparison
    <3> HIDE DEF cells
    <3> QED BY <3>1, <3>5, <3>8
  <2>5. \A batch, ctx, quant : TableOf(batch, ctx, quant)' = TableOf(batch, ctx, quant)
    BY <2>1, TableStays
  <2> QED BY <2>2, <2>3, <2>4, <2>5 DEF ToolsAgreeWithTable, Ask, Answered
<1> QED BY <1>1, <1>2

\* For any data and arguments, what a tool ranks, plans or compares is a cell of the
\* table that the resource shows; and a comparison has no hosted side.
THEOREM OneStory == Spec => []ToolsAgreeWithTable
<1>1. Init => ToolsAgreeWithTable  BY InitAnswers DEF ToolsAgreeWithTable, Answered
<1>2. TypeOK /\ OnlyThen /\ ToolsAgreeWithTable /\ [Next]_vars => ToolsAgreeWithTable'
  BY AgreementInductive
<1> QED BY <1>1, <1>2, TypeAlways, PTL DEF Spec

-----------------------------------------------------------------------------
\* No better rental is left out of a plan.

\* What a budget cannot pay for on one rental, it cannot on one that is no cheaper.
LEMMA NoBetterRental ==
  ASSUME NEW c, RentalLike(c) \/ HostedLike(c), c.mode = Rental,
         NEW e, RentalLike(e) \/ HostedLike(e), e.mode = Rental,
         NEW load \in [input : Nat \ {0}, output : Nat \ {0}],
         Priced(c, load), Priced(e, load), NEW budget \in Nat, NEW k \in Nat,
         ~Cheaper(c.rate, e.rate), ~Affordable(e, k, load, budget)
  PROVE  ~Affordable(c, k, load, budget)
<1> DEFINE x == e.tps.d * e.hourly
           y == c.tps.d * c.hourly
           d == e.tps.n
           cn == c.tps.n
           t == k * load.output
<1>1. /\ c.rate = [n |-> c.hourly * c.tps.d, d |-> c.tps.n] /\ c.tps.n > 0
      /\ c.hourly \in Int /\ c.tps.d \in Nat /\ c.tps.n \in Nat
  BY PerPromptIs DEF RentalLike
<1>2. /\ e.rate = [n |-> e.hourly * e.tps.d, d |-> e.tps.n] /\ e.tps.n > 0
      /\ e.hourly \in Int /\ e.tps.d \in Nat /\ e.tps.n \in Nat
  BY PerPromptIs DEF RentalLike
<1>3. x \in Int /\ y \in Int /\ d \in Nat \ {0} /\ cn \in Nat \ {0} /\ t \in Nat
  BY <1>1, <1>2, ProductNat
<1>4. c.rate.n = y /\ e.rate.n = x /\ c.rate.d = cn /\ e.rate.d = d  BY <1>1, <1>2, Associate
<1>5. y * d \in Int /\ x * cn \in Int
  <2> HIDE DEF x, y, d, cn
  <2> QED BY <1>3
<1>6. y * d >= x * cn
  <2> HIDE DEF x, y, d, cn
  <2> QED BY <1>4, <1>5 DEF Cheaper
<1>7. ~(t * x <= budget * d)  BY DEF Affordable
<1>8. t * x > budget * d
  <2> HIDE DEF x, d, t
  <2>1. t * x \in Int /\ budget * d \in Int  BY <1>3
  <2> QED BY <1>7, <2>1
<1>9. t * y > budget * cn
  <2> HIDE DEF x, y, d, cn, t
  <2>1. budget \in Int  OBVIOUS
  <2> QED BY <1>3, <1>6, <1>8, <2>1, DearerIsTooDear
<1>10. ~(t * y <= budget * cn)
  <2> HIDE DEF y, cn, t
  <2>1. t * y \in Int /\ budget * cn \in Int  BY <1>3
  <2> QED BY <1>9, <2>1
<1> QED BY <1>10 DEF Affordable

\* The step that answers with plans has the best rentals among them.
LEMMA BestInductive ==
  ASSUME TypeOK, OnlyThen, BestRentalsPlanned, [Next]_vars
  PROVE  BestRentalsPlanned'
<1>1. CASE ~AnyTool
  <2>1. CASE answer'.status \in {"none", "raised", "elicit"}
    BY <2>1 DEF BestRentalsPlanned, Answered
  <2>2. CASE UNCHANGED Basis
    BY <2>2, TableStays DEF BestRentalsPlanned, Answered, Basis, Ask, Resolved
  <2> QED BY <1>1, <2>1, <2>2, AnswersStay
<1>2. CASE AnyTool /\ (Answered("budget_to_plan") /\ Ask.budget > 0 /\ Resolved)'
  <2>1. PICK a \in BudgetArgs :
            /\ a.load \in DOMAIN Workloads /\ a.budget \in Nat
            /\ answer'.ask = [budget |-> a.budget, load |-> a.load, quant |-> a.quant, top |-> a.top]
            /\ answer'.items \in Plans(PlanCells(a.quant), a.budget, Workloads[a.load], a.top)
            /\ UNCHANGED <<rows, dates, models, route>>
    BY <1>2, PlanAnswers
  <2> DEFINE load == Workloads[a.load]
             cells == PlanCells(a.quant)
             priced == {c \in cells : Priced(c, load)}
             prompts(c) == Prompts(a.budget, PerPrompt(c, load))
  <2>2. load \in [input : Nat \ {0}, output : Nat \ {0}]  BY <2>1, ToolAssumption
  <2>3. Resolved /\ a.budget > 0 /\ answer'.ask.budget = a.budget /\ answer'.ask.load = a.load
        /\ answer'.ask.quant = a.quant
    BY <1>2, <2>1 DEF Resolved, Ask
  <2>4. PICK best \in Cheapest(priced, a.top) : answer'.items \in RowsOf(best, a.budget, load)
    BY <2>1, <2>3 DEF Plans
  <2>5. /\ best \subseteq priced
        /\ \A e \in best, b \in priced \ best : b.rate # None => ~Cheaper(b.rate, e.rate)
    <3> HIDE DEF priced
    <3> QED BY <2>4, CheapestIs
  <2>6. ASSUME NEW c \in TableOf(1, 1, a.quant) \ {r.cell : r \in answer'.items}, NEW r \in answer'.items,
               c.mode = Rental, Priced(c, load), r.cell.mode = Rental
        PROVE  ~Affordable(c, Precision * (r.prompts + 1), load, (Precision - 1) * a.budget)
    <3>1. c \in cells
      <4>1. Passes(None, c.gpu)  BY DEF Passes
      <4> QED BY <2>3, <2>6, <4>1, QueryIsOfTable DEF PlanCells
    <3>2. PICK e \in best : \E k \in prompts(e) : r = PlanRow(e, a.budget, load, k)
      BY <2>4, RowsAre
    <3>3. PICK k \in prompts(e) : r = PlanRow(e, a.budget, load, k)  BY <3>2
    <3>4. e \in cells /\ Priced(e, load)  BY <2>5
    <3>5. RentalLike(c) \/ HostedLike(c)  BY <3>1, PlanCellsAre
    <3>6. RentalLike(e) \/ HostedLike(e)  BY <3>4, PlanCellsAre
    <3>7. a.budget \in Nat \ {0}  BY <2>1, <2>3
    <3>8. r.cell = e /\ r.prompts = k /\ k \in Nat /\ Promised(r, a.budget, load)
      <4> HIDE DEF load, cells
      <4> QED BY <2>2, <3>3, <3>4, <3>6, <3>7, RowKeepsItsPromise
    <3>9. c \notin best
      <4> SUFFICES ASSUME c \in best PROVE FALSE
        OBVIOUS
      <4>1. \E s \in answer'.items : s.cell = c  BY <2>4, RowsCover
      <4> QED BY <2>6, <4>1
    <3>10. c.rate # None
      <4> HIDE DEF load
      <4> QED BY <2>6 DEF Priced, PerPrompt
    <3>11. ~Cheaper(c.rate, e.rate)  BY <2>5, <2>6, <3>1, <3>9, <3>10
    <3> DEFINE more == Precision * (k + 1)
               money == (Precision - 1) * a.budget
    <3>12. more \in Nat /\ money \in Nat
      <4>1. Precision \in Nat /\ Precision - 1 \in Nat /\ k + 1 \in Nat  BY <3>8, PrecisionAssumption
      <4> QED BY <2>1, <4>1, ProductNat
    <3>13. ~Affordable(e, more, load, money)  BY <3>8 DEF Promised
    <3>14. ~Affordable(c, more, load, money)
      <4> HIDE DEF load, cells, more, money
      <4> QED BY <2>2, <2>6, <3>4, <3>5, <3>6, <3>8, <3>11, <3>12, <3>13, NoBetterRental
    <3> QED BY <3>8, <3>14
  <2>7. \A batch, ctx, quant : TableOf(batch, ctx, quant)' = TableOf(batch, ctx, quant)
    BY <2>1, TableStays
  <2> HIDE DEF priced, cells
  <2> QED BY <2>3, <2>6, <2>7 DEF BestRentalsPlanned, Ask
<1> QED BY <1>1, <1>2 DEF BestRentalsPlanned

\* For any prices and budgets, to within rounding: ranking by cost per token is ranking
\* rentals by the prompts they buy: none left out of a plan buys more than one that is in.
THEOREM BestRentalsAlways == Spec => []BestRentalsPlanned
<1>1. Init => BestRentalsPlanned  BY InitAnswers DEF BestRentalsPlanned, Answered
<1>2. TypeOK /\ OnlyThen /\ BestRentalsPlanned /\ [Next]_vars => BestRentalsPlanned'
  BY BestInductive
<1> QED BY <1>1, <1>2, TypeAlways, PTL DEF Spec

-----------------------------------------------------------------------------
\* Fit checks.

\* A fit check is of well-posed arguments and known slugs.
LEMMA FitAnswers ==
  ASSUME TypeOK, AnyTool, Answered("fit_check")'
  PROVE  LET gpus == Content["gpus"][rows["gpus"]]
             model == Arch[route.slug]
         IN  \E a \in FitArgs :
                /\ Resolved /\ a.gpu \in DOMAIN gpus /\ a.quant \in DOMAIN Quants
                /\ ~IllPosed(model, a.tp, a.batch, a.ctx)
                /\ answer'.ask = [gpu |-> a.gpu, quant |-> a.quant, tp |-> a.tp, batch |-> a.batch,
                                  ctx |-> a.ctx]
                /\ answer'.items =
                      {[fits   |-> Fits(model, gpus[a.gpu], Quants[a.quant], a.tp, a.batch, a.ctx),
                        reason |-> BlockingReason(model, gpus[a.gpu], Quants[a.quant], a.tp, a.batch, a.ctx),
                        scores |-> FitCheckScores(model.age, Age[dates["gpus"]])]}
                /\ UNCHANGED <<rows, dates, models, route>>
<1>5. PICK a \in FitArgs : FitCheck(a.gpu, a.quant, a.tp, a.batch, a.ctx)
  BY EachAnswersForItself DEF Answered
<1> QED BY <1>5 DEF FitCheck, Finish, Answered, Resolved

\* The step that answers a fit check gives the right reason.
LEMMA ReasonInductive ==
  ASSUME TypeOK, OnlyThen, ReasonNamesTheObstacle, [Next]_vars
  PROVE  ReasonNamesTheObstacle'
<1>1. CASE ~AnyTool
  <2>1. CASE answer'.status \in {"none", "raised", "elicit"}
    BY <2>1 DEF ReasonNamesTheObstacle, Answered
  <2>2. CASE UNCHANGED Basis
    BY <2>2 DEF ReasonNamesTheObstacle, Answered, Basis, Ask, World
  <2> QED BY <1>1, <2>1, <2>2, AnswersStay
<1>2. CASE AnyTool /\ Answered("fit_check")'
  <2> DEFINE gpus == Content["gpus"][rows["gpus"]]
             model == Arch[route.slug]
  <2>1. PICK a \in FitArgs :
                /\ Resolved /\ a.gpu \in DOMAIN gpus /\ a.quant \in DOMAIN Quants
                /\ ~IllPosed(model, a.tp, a.batch, a.ctx)
                /\ answer'.ask = [gpu |-> a.gpu, quant |-> a.quant, tp |-> a.tp, batch |-> a.batch,
                                  ctx |-> a.ctx]
                /\ answer'.items =
                      {[fits   |-> Fits(model, gpus[a.gpu], Quants[a.quant], a.tp, a.batch, a.ctx),
                        reason |-> BlockingReason(model, gpus[a.gpu], Quants[a.quant], a.tp, a.batch, a.ctx),
                        scores |-> FitCheckScores(model.age, Age[dates["gpus"]])]}
                /\ UNCHANGED <<rows, dates, models, route>>
    BY <1>2, FitAnswers
  <2>2. model \in ModelSpec  BY <2>1, ToolAssumption DEF TypeOK, Resolved
  <2>3. gpus[a.gpu] \in GpuSpec
    <3>1. rows["gpus"] \in Generation  BY DEF TypeOK, Endpoint
    <3> QED BY <2>1, <3>1, ContentAssumption
  <2>4. Quants[a.quant] \in QuantSpec  BY <2>1, ToolAssumption
  <2>5. model.params # None /\ a.tp \in Nat /\ a.batch \in Nat /\ a.ctx \in Nat
    BY <2>1, ArgsAssumption DEF IllPosed
  <2> DEFINE g == gpus[a.gpu]
             q == Quants[a.quant]
             reason == BlockingReason(model, g, q, a.tp, a.batch, a.ctx)
  <2>6. /\ Fits(model, g, q, a.tp, a.batch, a.ctx) <=> reason = "none"
        /\ reason = "weights" => \A b \in 1..a.batch, c \in 1..a.ctx : ~Fits(model, g, q, a.tp, b, c)
        /\ reason = "kv_cache" => Weights(model, q) + Overhead(model, q) <= Available(g, a.tp)
        /\ Fits(model, g, q, a.tp, a.batch, a.ctx) => Fits(model, g, q, a.tp + 1, a.batch, a.ctx)
    <3> HIDE DEF model, gpus
    <3> QED BY <2>2, <2>3, <2>4, <2>5, ReasonIs
  <2>7. \A x \in answer'.items :
            x.fits = Fits(model, g, q, a.tp, a.batch, a.ctx) /\ x.reason = reason
    <3> HIDE DEF model, gpus, reason
    <3> QED BY <2>1 DEF reason
  <2>8. /\ answer'.ask.gpu = a.gpu /\ answer'.ask.quant = a.quant /\ answer'.ask.tp = a.tp
        /\ answer'.ask.batch = a.batch /\ answer'.ask.ctx = a.ctx
    BY <2>1
  <2>9. (World({}).gpus)' = gpus /\ route' = route  BY <2>1 DEF World
  <2>10. Arch[route'.slug] = model  BY <2>9
  <2> HIDE DEF model, gpus, reason
  <2> QED BY <2>6, <2>7, <2>8, <2>9, <2>10 DEF ReasonNamesTheObstacle, Ask
<1> QED BY <1>1, <1>2 DEF ReasonNamesTheObstacle

\* For any model, GPU and quantization, the reason of a fit check names an obstacle
\* whose relaxation can help, and more GPUs never hurt.
THEOREM ReasonsAreReasons == Spec => []ReasonNamesTheObstacle
<1>1. Init => ReasonNamesTheObstacle  BY InitAnswers DEF ReasonNamesTheObstacle, Answered
<1>2. TypeOK /\ OnlyThen /\ ReasonNamesTheObstacle /\ [Next]_vars => ReasonNamesTheObstacle'
  BY ReasonInductive
<1> QED BY <1>1, <1>2, TypeAlways, PTL DEF Spec

-----------------------------------------------------------------------------
\* Confidence.

\* A cell of an unknown architecture is not trusted at all.
LEMMA PartialScored ==
  ASSUME TypeOK, NEW batch, NEW ctx, NEW c \in PartialCells(batch, ctx)
  PROVE  CellScored(c)
<1> DEFINE fresh == FreshnessConfidence("computeprices", Age[dates["llm_prices"]])
<1>1. fresh \in Scores  BY DEF FreshnessConfidence, Scores
<1>2. PICK p \in HostedPrices(route.slug) : c = HostedCell(p, batch, ctx, Case2Scores(fresh))
  BY DEF PartialCells, Case2Cells
<1> HIDE DEF fresh
<1> QED BY <1>1, <1>2, HostedScored

\* The prices of an unknown architecture are trusted as their age allows.
LEMMA PartialIsDated ==
  ASSUME TypeOK, NEW batch, NEW ctx, NEW c \in PartialCells(batch, ctx), NEW k \in {"pricing", "freshness"}
  PROVE  /\ k \in DOMAIN c.scores
         /\ c.scores[k] <= FreshnessConfidence("computeprices", Age[dates["llm_prices"]])
<1> DEFINE fresh == FreshnessConfidence("computeprices", Age[dates["llm_prices"]])
<1>1. fresh \in Scores  BY DEF FreshnessConfidence, Scores
<1>2. PICK p \in HostedPrices(route.slug) : c = HostedCell(p, batch, ctx, Case2Scores(fresh))
  BY DEF PartialCells, Case2Cells
<1>3. c.scores = Case2Scores(fresh)  BY <1>2 DEF HostedCell
<1> HIDE DEF fresh
<1>4. k \in DOMAIN c.scores /\ c.scores[k] = fresh  BY <1>3 DEF Case2Scores
<1>5. fresh <= fresh  BY <1>1 DEF Scores
<1> QED BY <1>4, <1>5 DEF fresh

\* What find_cheapest_deployment lists of an unresolved model are partial cells.
LEMMA CheapestOfPartial ==
  ASSUME AnyTool, Answered("find_cheapest")', ~Resolved, NEW x \in answer'.items
  PROVE  \E batch, ctx : x \in PartialCells(batch, ctx)
<1> PICK a \in CheapestArgs : FindCheapest(a.quant, a.batch, a.ctx, a.top)
  BY EachAnswersForItself DEF Answered
<1>1. answer'.items \in Cheapest(PartialCells(a.batch, a.ctx), a.top)
  BY DEF FindCheapest, Finish, Answered, Resolved
<1> QED BY <1>1, CheapestIs

\* What find_cheapest_deployment and the resource list are scored cells.
LEMMA ListedScored ==
  ASSUME TypeOK, AnyTool, (Answered("find_cheapest") \/ Answered("resource"))'
  PROVE  \A c \in answer'.items : CellScored(c)
<1>4. CASE RenderCurrent
  <2>1. answer'.items = QueryCostCells(World(models), Unfiltered(1, 1))
    BY <1>4 DEF RenderCurrent, Finish, Answered
  <2>2. models \in SUBSET DOMAIN Arch  BY DEF TypeOK
  <2>3. WellTyped(World(models))  BY <2>2, WorldIsTyped
  <2> QED BY <2>1, <2>3, CellsScored
<1>5. CASE \E a \in CheapestArgs : FindCheapest(a.quant, a.batch, a.ctx, a.top)
  <2> PICK a \in CheapestArgs : FindCheapest(a.quant, a.batch, a.ctx, a.top)  BY <1>5
  <2> DEFINE f == ToolFilter(route.slug, None, a.quant, a.batch, a.ctx)
             w == World(WithResolved)
  <2>1. \/ answer'.items \in Cheapest(PartialCells(a.batch, a.ctx), a.top)
        \/ Resolved /\ answer'.items \in Cheapest(QueryCostCells(w, f), a.top)
    BY DEF FindCheapest, Finish, Answered, Resolved
  <2> HIDE DEF f, w
  <2>2. \/ answer'.items \subseteq PartialCells(a.batch, a.ctx)
        \/ Resolved /\ answer'.items \subseteq QueryCostCells(w, f)
    BY <2>1, CheapestIs
  <2>3. Resolved => WellTyped(w)  BY CatalogIsTyped, WorldIsTyped DEF w
  <2> QED BY <2>2, <2>3, PartialScored, CellsScored
<1> QED BY <1>4, <1>5, EachAnswersForItself DEF Answered

\* Every cell that is planned has scores.
LEMMA PlanCellsScored ==
  ASSUME TypeOK, NEW quant, NEW c \in PlanCells(quant)
  PROVE  CellScored(c)
<1>1. CASE Resolved
  <2>1. WellTyped(World(WithResolved))  BY <1>1, CatalogIsTyped, WorldIsTyped
  <2> QED BY <1>1, <2>1, CellsScored DEF PlanCells
<1>2. CASE ~Resolved  BY <1>2, PartialScored DEF PlanCells
<1> QED BY <1>1, <1>2

\* Whatever was compared was resolved.
LEMMA CompareResolved ==
  ASSUME AnyTool, Answered("compare")'
  PROVE  Resolved
  BY EachAnswersForItself DEF CompareDeploymentModes, Finish, Answered, Resolved

\* The step that answers adds no trust.
LEMMA TrustInductive ==
  ASSUME TypeOK, OnlyThen, TrustIsNotGained, [Next]_vars
  PROVE  TrustIsNotGained'
<1>1. CASE ~AnyTool
  <2>1. CASE answer'.status \in {"none", "raised", "elicit"}
    BY <2>1 DEF TrustIsNotGained, Answered
  <2>2. CASE UNCHANGED Basis
    BY <2>2 DEF TrustIsNotGained, Answered, Basis, Resolved
  <2> QED BY <1>1, <2>1, <2>2, AnswersStay
<1>2. CASE AnyTool
  <2>1. UNCHANGED <<rows, dates, models, route>>  BY <1>2, ToolsFinish DEF Finish
  <2>2. ASSUME (Answered("find_cheapest") \/ Answered("resource"))', NEW c \in answer'.items, c.tps.n = 0
        PROVE  Confidence(c.scores) = 0
    <3>1. CellScored(c)  BY <1>2, <2>2, ListedScored
    <3> QED BY <2>2, <3>1, ZeroIsNothing DEF CellScored
  <2>3. ASSUME Answered("budget_to_plan")', NEW r \in answer'.items
        PROVE  Confidence(r.scores) <= Confidence(r.cell.scores)
    <3>1. PICK a \in BudgetArgs :
            answer'.items \in Plans(PlanCells(a.quant), a.budget, Workloads[a.load], a.top)
      BY <1>2, <2>3, PlanAnswers
    <3>2. PICK c \in PlanCells(a.quant) : \E k : r = PlanRow(c, a.budget, Workloads[a.load], k)
      BY <2>3, <3>1, PlansAre
    <3>3. r.cell = c /\ r.scores = WithWorkload(c.scores)  BY <3>2 DEF PlanRow
    <3>4. CellScored(c)  BY PlanCellsScored
    <3> QED BY <3>3, <3>4, WorkloadWeakens DEF CellScored
  <2>4. ASSUME Answered("compare")', NEW x \in answer'.items, NEW c \in {x.cloud, x.hosted} \ {None}
        PROVE  Confidence(x.scores) <= Confidence(c.scores)
    <3>1. Resolved  BY <1>2, <2>4, CompareResolved
    <3>2. PICK a \in CompareArgs :
            \E cloud \in FirstOf(QueryCostCells(World(WithResolved),
                                   ToolFilter(route.slug, a.gpu, a.quant, a.batch, a.ctx)), Rental),
               hosted \in FirstOf(QueryCostCells(World(WithResolved),
                                   ToolFilter(route.slug, a.gpu, a.quant, a.batch, a.ctx)), HostedApi) :
               answer'.items = {Comparison(cloud, hosted, Workloads[a.load])}
      BY <1>2, <2>4, <3>1, CompareAnswers
    <3> DEFINE w == World(WithResolved)
               f == ToolFilter(route.slug, a.gpu, a.quant, a.batch, a.ctx)
               cells == QueryCostCells(w, f)
    <3>3. PICK cloud \in FirstOf(cells, Rental), hosted \in FirstOf(cells, HostedApi) :
            answer'.items = {Comparison(cloud, hosted, Workloads[a.load])}
      BY <3>2
    <3>4. x = Comparison(cloud, hosted, Workloads[a.load])  BY <2>4, <3>3
    <3>5. x.cloud = cloud /\ x.hosted = hosted /\ x.scores = MergedScores({cloud, hosted} \ {None})
      BY <3>4 DEF Comparison
    <3>6. WellTyped(w)  BY <3>1, CatalogIsTyped, WorldIsTyped
    <3>7. \A s \in {cloud, hosted} \ {None} : s \in cells
      <4> HIDE DEF cells
      <4> QED BY <3>3 DEF FirstOf
    <3>8. \A s \in {cloud, hosted} \ {None} : Scored(s.scores)
      <4> HIDE DEF w, f
      <4> QED BY <3>6, <3>7, CellsScored DEF CellScored
    <3> HIDE DEF cells, w, f
    <3> QED BY <2>4, <3>5, <3>8, MergingWeakens
  <2>5. ASSUME Answered("fit_check")', NEW x \in answer'.items
        PROVE  /\ Confidence(x.scores) <= FreshnessConfidence("huggingface", Arch[route'.slug].age)
               /\ Confidence(x.scores) <= FreshnessConfidence("computeprices", Age[dates'["gpus"]])
    <3>1. PICK a \in FitArgs : FitCheck(a.gpu, a.quant, a.tp, a.batch, a.ctx)
      BY <1>2, <2>5, EachAnswersForItself DEF Answered
    <3>2. Resolved /\ x.scores = FitCheckScores(Arch[route.slug].age, Age[dates["gpus"]])
      BY <2>5, <3>1 DEF FitCheck, Finish, Answered, Resolved
    <3>3. Arch[route.slug] \in ModelSpec  BY <3>2, ToolAssumption DEF TypeOK, Resolved
    <3>4. Arch[route.slug].age \in Nat  BY <3>3 DEF ModelSpec
    <3>5. Age[dates["gpus"]] \in Nat
      <4>1. dates["gpus"] \in Generation  BY DEF TypeOK, Dated
      <4> QED BY <4>1, ContentAssumption
    <3>6. route' = route /\ dates' = dates  BY <2>1
    <3> QED BY <3>2, <3>4, <3>5, <3>6, NoFresherThanItsSources
  <2>6. ASSUME (Answered("find_cheapest") \/ Answered("budget_to_plan"))', ~Resolved',
               NEW x \in answer'.items, NEW k \in {"pricing", "freshness"}
        PROVE  x.scores[k] <= FreshnessConfidence("computeprices", Age[dates'["llm_prices"]])
    <3>1. ~Resolved  BY <2>1, <2>6 DEF Resolved
    <3>2. dates' = dates  BY <2>1
    <3>3. CASE Answered("find_cheapest")'
      <4>1. \E batch, ctx : x \in PartialCells(batch, ctx)  BY <1>2, <2>6, <3>1, <3>3, CheapestOfPartial
      <4> QED BY <3>2, <4>1, PartialIsDated
    <3>4. CASE Answered("budget_to_plan")'
      <4>1. PICK a \in BudgetArgs :
              answer'.items \in Plans(PlanCells(a.quant), a.budget, Workloads[a.load], a.top)
        BY <1>2, <3>4, PlanAnswers
      <4>2. PICK c \in PlanCells(a.quant) : \E n : x = PlanRow(c, a.budget, Workloads[a.load], n)
        BY <2>6, <4>1, PlansAre
      <4>3. c \in PartialCells(1, 1)  BY <3>1, <4>2 DEF PlanCells
      <4>4. x.scores = WithWorkload(c.scores)  BY <4>2 DEF PlanRow
      <4>5. x.scores[k] = c.scores[k]  BY <4>3, <4>4, PartialIsDated DEF WithWorkload
      <4> QED BY <3>2, <4>3, <4>5, PartialIsDated
    <3> QED BY <2>6, <3>3, <3>4 DEF Answered
  <2> QED BY <2>1, <2>2, <2>3, <2>4, <2>5, <2>6 DEF TrustIsNotGained
<1> QED BY <1>1, <1>2

\* For any data: no plan, comparison or fit is trusted more than the cell, the sides or
\* the dates it was made from, and nothing without a throughput is trusted at all.
THEOREM TrustNeverGrows == Spec => []TrustIsNotGained
<1>1. Init => TrustIsNotGained  BY InitAnswers DEF TrustIsNotGained, Answered
<1>2. TypeOK /\ OnlyThen /\ TrustIsNotGained /\ [Next]_vars => TrustIsNotGained'
  BY TrustInductive
<1> QED BY <1>1, <1>2, TypeAlways, PTL DEF Spec
=============================================================================
