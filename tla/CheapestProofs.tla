---------------------------- MODULE CheapestProofs ----------------------------
(***************************************************************************)
(* find_cheapest_deployment answers with the cheapest of all offers there  *)
(* are on the market, and with as many as were asked for: the filters, the *)
(* join and the ranking lose none and count none twice.                    *)
(***************************************************************************)
EXTENDS ToolCallProofs, FiniteSetTheorems, FunctionTheorems

-----------------------------------------------------------------------------
\* Counting.

\* The members of a finite set that are made, one to one, into others are as many.
LEMMA OneToOneCounts ==
  ASSUME NEW S, IsFiniteSet(S), NEW f, f = [x \in S |-> f[x]],
         \A x, y \in S : f[x] = f[y] => x = y,
         NEW T \in SUBSET S
  PROVE  IsFiniteSet(T) /\ Cardinality({f[x] : x \in T}) = Cardinality(T)
<1> DEFINE U == {f[x] : x \in T}
           h == [x \in T |-> f[x]]
<1>1. IsFiniteSet(T)  BY FS_Subset
<1>2. h \in [T -> U] /\ (\A x, y \in T : h[x] = h[y] => x = y) /\ \A u \in U : \E x \in T : h[x] = u
  OBVIOUS
<1>3. h \in Bijection(T, U)
  <2> HIDE DEF U, h
  <2> QED BY <1>2, Fun_IsBij
<1>4. ExistsBijection(T, U)  BY <1>3 DEF ExistsBijection
<1> QED BY <1>1, <1>4, FS_Bijection

\* What is made of the members of a finite set is finitely much.
LEMMA ImagesAreFinite ==
  ASSUME NEW S, IsFiniteSet(S), NEW f, f = [x \in S |-> f[x]]
  PROVE  IsFiniteSet({f[x] : x \in S})
<1> DEFINE U == {f[x] : x \in S}
<1>1. f \in Surjection(S, U)
  <2>1. f \in [S -> U] /\ \A u \in U : \E x \in S : f[x] = u  OBVIOUS
  <2> HIDE DEF U
  <2> QED BY <2>1, Fun_IsSurj
<1> QED BY <1>1, FS_Surjection

\* A fraction's numerator is known from its denominator and the product.
LEMMA Cancel == \A a, b \in Int, d \in Nat \ {0} : a * d = b * d => a = b
  OBVIOUS

-----------------------------------------------------------------------------
\* The cells of a call, and the offers they stand for.

CallFilter(ask) == ToolFilter(route.slug, None, ask.quant, ask.batch, ask.ctx)

CallCells(ask) ==
    IF Resolved THEN QueryCostCells(World(WithResolved), CallFilter(ask))
                ELSE PartialCells(ask.batch, ask.ctx)

RentedCells(ask) == IF Resolved THEN Rentals(World(WithResolved), CallFilter(ask)) ELSE {}

HostedRows(ask) == {p \in HostedPrices(route.slug) : Resolved => ask.quant = None}

CallScores ==
    IF Resolved THEN HostedScores
    ELSE Case2Scores(FreshnessConfidence("computeprices", Age[dates["llm_prices"]]))

HostedCells(ask) == {HostedCell(p, ask.batch, ask.ctx, CallScores) : p \in HostedRows(ask)}

Rated(cells) == {c \in cells : c.rate # None}

\* The two sides of the market, for what a call asks.
Rented(ask) ==
    LET w == World({})
        m == Arch[route.slug]
        rentable == {p \in w.gpu_prices : p.gpu \in DOMAIN w.gpus /\ w.gpus[p.gpu].bandwidth > 0}
        offered(p, q) == Passes(ask.quant, q) /\ Fits(m, w.gpus[p.gpu], Quants[q], 1, 1, ask.ctx)
    IN  IF ~Resolved \/ ask.batch # 1 \/ m.params = None \/ Unsupported(m) THEN {}
        ELSE {RentalOffer(x[1], x[2]) : x \in {x \in rentable \X DOMAIN Quants : offered(x[1], x[2])}}

HostedOffer(p) ==
    [provider |-> p.provider, gpu |-> None, quant |-> None, input |-> p.input,
     rate |-> [n |-> p.output, d |-> 1]]

\* A rental's cell has a rate just when the model fits and the throughput is known,
\* and the rate is then its price over that throughput.
LEMMA RatedRental ==
  ASSUME NEW w, WellTyped(w), NEW f, NEW p \in PricesConsidered(w, f),
         NEW m \in ModelsConsidered(w, f), NEW q \in QuantsConsidered(w, f)
  PROVE  LET c == RentalCell(w, p, m, q, f)
         IN  /\ c.rate # None <=> /\ Fits(w.models[m], w.gpus[p.gpu], w.quants[q], 1, f.batch, f.ctx)
                                  /\ f.batch = 1 /\ w.gpus[p.gpu].bandwidth > 0
             /\ c.rate # None => c.rate = [n |-> p.hourly * (w.models[m].params * w.quants[q].bits),
                                           d |-> 6 * w.gpus[p.gpu].bandwidth]
<1> DEFINE t == Throughput(w.models[m], w.gpus[p.gpu], w.quants[q], f.batch)
           fits == Fits(w.models[m], w.gpus[p.gpu], w.quants[q], 1, f.batch, f.ctx)
           size == w.models[m].params * w.quants[q].bits
           c == RentalCell(w, p, m, q, f)
<1>1. /\ w.models[m] \in ModelSpec /\ w.models[m].params # None /\ w.quants[q] \in QuantSpec
      /\ w.gpus[p.gpu] \in GpuSpec /\ p.hourly \in Int
  BY DEF WellTyped, PricesConsidered, ModelsConsidered, QuantsConsidered
<1>2. size \in Nat \ {0} /\ w.gpus[p.gpu].bandwidth \in Nat
  BY <1>1, ProductPositive DEF ModelSpec, QuantSpec, GpuSpec
<1>3. c.rate = IF fits /\ t.n > 0 THEN [n |-> p.hourly * t.d, d |-> t.n] ELSE None
  BY DEF RentalCell, SelfHostedRate
<1>4. CASE f.batch = 1 /\ w.gpus[p.gpu].bandwidth > 0
  <2>1. t.n = 6 * w.gpus[p.gpu].bandwidth /\ t.d = size /\ t.n > 0
    BY <1>1, <1>2, <1>4 DEF Throughput, Heuristic
  <2>2. p.hourly * t.d \in Int /\ t.n \in Int  BY <1>1, <1>2, <2>1
  <2> HIDE DEF c, t, fits, size
  <2>3. [n |-> p.hourly * t.d, d |-> t.n] # None
    <3>1. [n |-> p.hourly * t.d, d |-> t.n] \in [n : Int, d : Int]  BY <2>2
    <3> QED BY <3>1, NoneAssumption
  <2> QED BY <1>3, <1>4, <2>1, <2>3 DEF c, fits, size
<1>5. CASE ~(f.batch = 1 /\ w.gpus[p.gpu].bandwidth > 0)
  <2>1. t.n = 0  BY <1>5 DEF Throughput, NoThroughput
  <2> HIDE DEF t, fits
  <2> QED BY <1>3, <1>5, <2>1
<1> QED BY <1>4, <1>5

\* A call's cells are the rented and the hosted ones.
LEMMA TwoSides ==
  ASSUME TypeOK, NEW ask
  PROVE  CallCells(ask) = RentedCells(ask) \cup HostedCells(ask)
<1>1. CASE Resolved
  <2> DEFINE w == World(WithResolved)
             f == CallFilter(ask)
  <2>1. route.slug # None  BY <1>1, ToolAssumption DEF TypeOK, Resolved
  <2>2. Hosted(w, f) = HostedCells(ask)
    <3>1. {p \in w.llm_prices : /\ f.mode # Rental /\ ~HostedFilteredOut(f)
                                /\ Passes(f.provider, p.provider) /\ Passes(f.model, p.model)}
            = HostedRows(ask)
      BY <1>1, <2>1, NoneAssumption
      DEF CallFilter, ToolFilter, World, HostedFilteredOut, Passes, HostedRows, HostedPrices
    <3>2. f.batch = ask.batch /\ f.ctx = ask.ctx /\ CallScores = HostedScores
      BY <1>1 DEF CallFilter, ToolFilter, CallScores
    <3> HIDE DEF f, w
    <3> QED BY <3>1, <3>2 DEF Hosted, HostedCells
  <2> QED BY <1>1, <2>2 DEF CallCells, QueryCostCells, RentedCells
<1>2. CASE ~Resolved
  BY <1>2 DEF CallCells, PartialCells, Case2Cells, RentedCells, HostedCells, HostedRows, CallScores
<1> QED BY <1>1, <1>2

\* A rated rental of a call: which row, and under which quantization.
LEMMA RentedCellIs ==
  ASSUME TypeOK, NEW ask, NEW c
  PROVE  LET w == World(WithResolved)
             f == CallFilter(ask)
             m == Arch[route.slug]
         IN  c \in Rated(RentedCells(ask)) <=>
                /\ Resolved /\ ask.batch = 1 /\ m.params # None /\ ~Unsupported(m)
                /\ \E p \in w.gpu_prices, q \in DOMAIN Quants :
                      /\ p.gpu \in DOMAIN w.gpus /\ w.gpus[p.gpu].bandwidth > 0
                      /\ Passes(ask.quant, q) /\ Fits(m, w.gpus[p.gpu], Quants[q], 1, 1, ask.ctx)
                      /\ c = RentalCell(w, p, route.slug, q, f)
                      /\ c.rate = RentalOffer(p, q).rate /\ p.hourly \in Int
                      /\ m.params * Quants[q].bits \in Nat \ {0}
<1> DEFINE w == World(WithResolved)
           f == CallFilter(ask)
           s == route.slug
           m == Arch[s]
<1>1. CASE ~Resolved  BY <1>1 DEF RentedCells, Rated
<1>2. CASE Resolved
  <2>1. s # None /\ s \in DOMAIN w.models /\ w.models[s] = m /\ WellTyped(w)
    BY <1>2, ToolAssumption, CatalogIsTyped, WorldIsTyped DEF TypeOK, Resolved, World, WithResolved
  <2>2. f.batch = ask.batch /\ f.ctx = ask.ctx /\ ~f.only_fits
    BY DEF CallFilter, ToolFilter
  <2>3. PricesConsidered(w, f) = {p \in w.gpu_prices : p.gpu \in DOMAIN w.gpus}
    BY NoneAssumption DEF CallFilter, ToolFilter, PricesConsidered, Passes
  <2>4. ModelsConsidered(w, f) = IF m.params # None THEN {s} ELSE {}
    <3>1. \A x : Passes(f.model, x) <=> x = s  BY <2>1 DEF CallFilter, ToolFilter, Passes
    <3> QED BY <2>1, <3>1 DEF ModelsConsidered
  <2>5. QuantsConsidered(w, f) = {q \in DOMAIN Quants : Passes(ask.quant, q)} /\ w.quants = Quants
    BY DEF CallFilter, ToolFilter, QuantsConsidered, World
  <2>6. c \in RentedCells(ask) <=>
          \E p \in PricesConsidered(w, f), x \in ModelsConsidered(w, f), q \in QuantsConsidered(w, f) :
              ~Unsupported(w.models[x]) /\ c = RentalCell(w, p, x, q, f)
    <3> HIDE DEF w, f
    <3> QED BY <1>2, <2>2 DEF RentedCells, Rentals, w, f
  <2>7. ASSUME NEW p \in PricesConsidered(w, f), s \in ModelsConsidered(w, f), NEW q \in QuantsConsidered(w, f)
        PROVE  LET d == RentalCell(w, p, s, q, f)
               IN  /\ d.rate # None <=> /\ Fits(m, w.gpus[p.gpu], Quants[q], 1, f.batch, f.ctx)
                                        /\ f.batch = 1 /\ w.gpus[p.gpu].bandwidth > 0
                   /\ d.rate # None => d.rate = [n |-> p.hourly * (m.params * Quants[q].bits),
                                                 d |-> 6 * w.gpus[p.gpu].bandwidth]
                   /\ p.hourly \in Int /\ m.params * Quants[q].bits \in Nat \ {0}
    <3>1. m \in ModelSpec /\ m.params # None /\ Quants[q] \in QuantSpec /\ p.hourly \in Int
      BY <2>1, <2>3, <2>4, <2>5, <2>7 DEF WellTyped
    <3>2. m.params * Quants[q].bits \in Nat \ {0}  BY <3>1, ProductPositive DEF ModelSpec, QuantSpec
    <3> HIDE DEF w, f
    <3> QED BY <2>1, <2>5, <2>7, <3>1, <3>2, RatedRental
  <2>8. \A p, q : RentalOffer(p, q).rate = [n |-> p.hourly * (m.params * Quants[q].bits),
                                            d |-> 6 * w.gpus[p.gpu].bandwidth]
    BY DEF RentalOffer, World
  <2> DEFINE Is(p, q) ==
               /\ p.gpu \in DOMAIN w.gpus /\ w.gpus[p.gpu].bandwidth > 0
               /\ Passes(ask.quant, q) /\ Fits(m, w.gpus[p.gpu], Quants[q], 1, 1, ask.ctx)
               /\ c = RentalCell(w, p, s, q, f)
               /\ c.rate = RentalOffer(p, q).rate /\ p.hourly \in Int
               /\ m.params * Quants[q].bits \in Nat \ {0}
  <2>9. ASSUME c \in Rated(RentedCells(ask))
        PROVE  /\ ask.batch = 1 /\ m.params # None /\ ~Unsupported(m)
               /\ \E p \in w.gpu_prices, q \in DOMAIN Quants : Is(p, q)
    <3> HIDE DEF w, f, m, s
    <3>1. PICK p \in PricesConsidered(w, f), x \in ModelsConsidered(w, f), q \in QuantsConsidered(w, f) :
              ~Unsupported(w.models[x]) /\ c = RentalCell(w, p, x, q, f)
      BY <2>6, <2>9 DEF Rated
    <3>2. x = s /\ m.params # None /\ ~Unsupported(m)  BY <2>1, <2>4, <3>1
    <3>3. c.rate # None /\ s \in ModelsConsidered(w, f)  BY <2>9, <3>2 DEF Rated
    <3>4. /\ Fits(m, w.gpus[p.gpu], Quants[q], 1, f.batch, f.ctx)
          /\ f.batch = 1 /\ w.gpus[p.gpu].bandwidth > 0
          /\ c.rate = RentalOffer(p, q).rate
          /\ p.hourly \in Int /\ m.params * Quants[q].bits \in Nat \ {0}
      BY <2>7, <2>8, <3>1, <3>2, <3>3
    <3>5. Is(p, q)  BY <2>2, <2>3, <2>5, <3>1, <3>2, <3>4
    <3> HIDE DEF Is
    <3> QED BY <2>2, <2>3, <2>5, <3>2, <3>4, <3>5
  <2>10. ASSUME ask.batch = 1, m.params # None, ~Unsupported(m),
                NEW p \in w.gpu_prices, NEW q \in DOMAIN Quants, Is(p, q)
         PROVE  c \in Rated(RentedCells(ask))
    <3> HIDE DEF w, f, m, s
    <3>1. p \in PricesConsidered(w, f) /\ s \in ModelsConsidered(w, f) /\ q \in QuantsConsidered(w, f)
      BY <2>3, <2>4, <2>5, <2>10
    <3>2. c \in RentedCells(ask)  BY <2>1, <2>6, <2>10, <3>1
    <3>3. c.rate # None  BY <2>2, <2>7, <2>10, <3>1
    <3> QED BY <3>2, <3>3 DEF Rated
  <2> QED BY <1>2, <2>9, <2>10
<1> QED BY <1>1, <1>2

\* The rated rentals of a call are the market's, offer by offer.
LEMMA RentedOffers ==
  ASSUME TypeOK, NEW ask
  PROVE  {Offer(c) : c \in Rated(RentedCells(ask))} = Rented(ask)
<1> DEFINE w == World(WithResolved)
           f == CallFilter(ask)
           s == route.slug
           m == Arch[s]
           fit(p, q) == /\ p.gpu \in DOMAIN w.gpus /\ w.gpus[p.gpu].bandwidth > 0
                        /\ Passes(ask.quant, q) /\ Fits(m, w.gpus[p.gpu], Quants[q], 1, 1, ask.ctx)
           open == Resolved /\ ask.batch = 1 /\ m.params # None /\ ~Unsupported(m)
<1>1. \A o : o \in Rented(ask) <=>
               open /\ \E p \in w.gpu_prices, q \in DOMAIN Quants : fit(p, q) /\ o = RentalOffer(p, q)
  <2>1. World({}).gpus = w.gpus /\ World({}).gpu_prices = w.gpu_prices  BY DEF World
  <2> DEFINE pairs == {x \in {p \in w.gpu_prices : p.gpu \in DOMAIN w.gpus /\ w.gpus[p.gpu].bandwidth > 0}
                             \X DOMAIN Quants :
                         Passes(ask.quant, x[2]) /\ Fits(m, w.gpus[x[1].gpu], Quants[x[2]], 1, 1, ask.ctx)}
  <2>2. Rented(ask) = IF open THEN {RentalOffer(x[1], x[2]) : x \in pairs} ELSE {}
    <3> HIDE DEF w
    <3> QED BY <2>1 DEF Rented
  <2>3. \A p, q : <<p, q>> \in pairs <=> p \in w.gpu_prices /\ q \in DOMAIN Quants /\ fit(p, q)
    <3> HIDE DEF w, m
    <3> QED OBVIOUS
  <2>4. \A x \in pairs : x = <<x[1], x[2]>>
    <3> HIDE DEF w, m
    <3> QED OBVIOUS
  <2> HIDE DEF w, m, pairs, fit, open
  <2>5. ASSUME NEW p \in w.gpu_prices, NEW q \in DOMAIN Quants, fit(p, q)
        PROVE  RentalOffer(p, q) \in {RentalOffer(x[1], x[2]) : x \in pairs}
    <3>1. <<p, q>> \in pairs  BY <2>3, <2>5
    <3>2. <<p, q>>[1] = p /\ <<p, q>>[2] = q  OBVIOUS
    <3> QED BY <3>1, <3>2
  <2>6. ASSUME NEW x \in pairs
        PROVE  \E p \in w.gpu_prices, q \in DOMAIN Quants : fit(p, q) /\ RentalOffer(x[1], x[2]) = RentalOffer(p, q)
    BY <2>3, <2>4
  <2> QED BY <2>2, <2>5, <2>6
<1>2. \A p, q : LET c == RentalCell(w, p, s, q, f)
                IN  c.rate = RentalOffer(p, q).rate => Offer(c) = RentalOffer(p, q)
  BY DEF RentalCell, RentalOffer, Offer
<1>3. \A c : c \in Rated(RentedCells(ask)) =>
               open /\ \E p \in w.gpu_prices, q \in DOMAIN Quants :
                          /\ fit(p, q) /\ c = RentalCell(w, p, s, q, f) /\ c.rate = RentalOffer(p, q).rate
  BY RentedCellIs
<1>4. ASSUME open, NEW p \in w.gpu_prices, NEW q \in DOMAIN Quants, fit(p, q)
      PROVE  \E c \in Rated(RentedCells(ask)) : Offer(c) = RentalOffer(p, q)
  <2> DEFINE c == RentalCell(w, p, s, q, f)
  <2>1. /\ s # None /\ s \in DOMAIN w.models /\ w.models[s] = m /\ WellTyped(w) /\ w.quants = Quants
    BY <1>4, ToolAssumption, CatalogIsTyped, WorldIsTyped DEF TypeOK, Resolved, World, WithResolved
  <2>2. p \in PricesConsidered(w, f) /\ s \in ModelsConsidered(w, f) /\ q \in QuantsConsidered(w, f)
        /\ f.batch = ask.batch /\ f.ctx = ask.ctx
    <3>1. /\ f.batch = ask.batch /\ f.ctx = ask.ctx /\ f.mode = None /\ f.gpu = None /\ f.provider = None
          /\ f.model = s /\ f.quant = ask.quant
      BY DEF CallFilter, ToolFilter
    <3> HIDE DEF w, f, s, m
    <3> QED BY <1>4, <2>1, <3>1, NoneAssumption DEF PricesConsidered, ModelsConsidered, QuantsConsidered, Passes
  <2>3. /\ c.rate # None
        /\ c.rate = [n |-> p.hourly * (m.params * Quants[q].bits), d |-> 6 * w.gpus[p.gpu].bandwidth]
    <3> HIDE DEF w, f, s, m
    <3> QED BY <1>4, <2>1, <2>2, RatedRental
  <2>4. c.rate = RentalOffer(p, q).rate  BY <2>3 DEF RentalOffer, World
  <2>5. p.hourly \in Int /\ m.params * Quants[q].bits \in Nat \ {0}
    <3>1. m \in ModelSpec /\ Quants[q] \in QuantSpec /\ p.hourly \in Int
      BY <1>4, <2>1 DEF WellTyped
    <3> QED BY <1>4, <3>1, ProductPositive DEF ModelSpec, QuantSpec
  <2>6. c \in Rated(RentedCells(ask))  BY <1>4, <2>4, <2>5, RentedCellIs
  <2>7. Offer(c) = RentalOffer(p, q)  BY <1>2, <2>4
  <2> QED BY <2>6, <2>7
<1> HIDE DEF w, f, s, m, fit, open
<1> QED BY <1>1, <1>2, <1>3, <1>4

\* The hosted side of the market, offer by offer.
Billed(ask) == {HostedOffer(p) : p \in {p \in HostedRows(ask) : p.output # None}}

\* A hosted price is None or a number, never confused with a rate.
LEMMA HostedRowIs ==
  ASSUME TypeOK, NEW ask, NEW p \in HostedRows(ask)
  PROVE  LET c == HostedCell(p, ask.batch, ask.ctx, CallScores)
         IN  /\ p.model = route.slug
             /\ c.rate # None <=> p.output # None
             /\ p.output # None => Offer(c) = HostedOffer(p)
<1> DEFINE c == HostedCell(p, ask.batch, ask.ctx, CallScores)
<1>1. rows["llm_prices"] \in Generation  BY DEF TypeOK, Endpoint
<1>2. p.model = route.slug /\ p.output \in Int \cup {None}
  BY <1>1, ContentAssumption DEF HostedRows, HostedPrices
<1>3. c.rate = IF p.output = None THEN None ELSE [n |-> p.output, d |-> 1]  BY DEF HostedCell
<1>4. p.output # None => [n |-> p.output, d |-> 1] # None
  <2>1. p.output # None => [n |-> p.output, d |-> 1] \in [n : Int, d : Int]  BY <1>2
  <2> QED BY <2>1, NoneAssumption
<1>5. Offer(c) = [provider |-> p.provider, gpu |-> None, quant |-> None, input |-> p.input, rate |-> c.rate]
  BY DEF Offer, HostedCell
<1> HIDE DEF c
<1>6. c.rate # None <=> p.output # None  BY <1>3, <1>4
<1>7. p.output # None => Offer(c) = HostedOffer(p)  BY <1>3, <1>5 DEF HostedOffer
<1> QED BY <1>2, <1>6, <1>7 DEF c

LEMMA BilledOffers ==
  ASSUME TypeOK, NEW ask
  PROVE  {Offer(c) : c \in Rated(HostedCells(ask))} = Billed(ask)
<1> DEFINE cell(p) == HostedCell(p, ask.batch, ask.ctx, CallScores)
<1>1. \A p \in HostedRows(ask) : /\ cell(p).rate # None <=> p.output # None
                                 /\ p.output # None => Offer(cell(p)) = HostedOffer(p)
  BY HostedRowIs
<1>2. HostedCells(ask) = {cell(p) : p \in HostedRows(ask)}  BY DEF HostedCells
<1> HIDE DEF cell
<1> QED BY <1>1, <1>2 DEF Rated, Billed

-----------------------------------------------------------------------------
\* No two cells stand for one offer.

LEMMA RentalsDiffer ==
  ASSUME TypeOK, NEW ask, NEW c \in Rated(RentedCells(ask)), NEW d \in Rated(RentedCells(ask)),
         Offer(c) = Offer(d)
  PROVE  c = d
<1> DEFINE w == World(WithResolved)
           f == CallFilter(ask)
           s == route.slug
           m == Arch[s]
           made(e, p, q) == /\ e = RentalCell(w, p, s, q, f) /\ e.rate = RentalOffer(p, q).rate
                            /\ p.hourly \in Int /\ m.params * Quants[q].bits \in Nat \ {0}
<1>1. PICK p, q : made(c, p, q)  BY RentedCellIs
<1>2. PICK r, k : made(d, r, k)  BY RentedCellIs
<1>3. \A x, y : LET e == RentalCell(w, x, s, y, f)
                IN  /\ e.provider = x.provider /\ e.gpu = x.gpu /\ e.quant = y
  BY DEF RentalCell
<1>4. p.provider = r.provider /\ p.gpu = r.gpu /\ q = k /\ c.rate = d.rate
  <2>1. c.provider = d.provider /\ c.gpu = d.gpu /\ c.quant = d.quant /\ c.rate = d.rate  BY DEF Offer
  <2> HIDE DEF w, f, s, m
  <2> QED BY <1>1, <1>2, <1>3, <2>1
<1>5. p.hourly = r.hourly
  <2>1. c.rate.n = p.hourly * (m.params * Quants[q].bits) /\ d.rate.n = r.hourly * (m.params * Quants[k].bits)
    BY <1>1, <1>2 DEF RentalOffer
  <2> HIDE DEF m
  <2> QED BY <1>1, <1>2, <1>4, <2>1, Cancel
<1>6. RentalCell(w, p, s, q, f) = RentalCell(w, r, s, k, f)
  <2> HIDE DEF w, f, s
  <2> QED BY <1>4, <1>5 DEF RentalCell
<1> QED BY <1>1, <1>2, <1>6

LEMMA HostedDiffer ==
  ASSUME TypeOK, NEW ask, NEW c \in Rated(HostedCells(ask)), NEW d \in Rated(HostedCells(ask)),
         Offer(c) = Offer(d)
  PROVE  c = d
<1> DEFINE cell(p) == HostedCell(p, ask.batch, ask.ctx, CallScores)
<1>1. PICK p \in HostedRows(ask) : c = cell(p)  BY DEF Rated, HostedCells
<1>2. PICK r \in HostedRows(ask) : d = cell(r)  BY DEF Rated, HostedCells
<1>3. p.output # None /\ r.output # None  BY <1>1, <1>2, HostedRowIs DEF Rated
<1>4. HostedOffer(p) = HostedOffer(r) /\ p.model = r.model  BY <1>1, <1>2, <1>3, HostedRowIs
<1>5. p.provider = r.provider /\ p.input = r.input /\ p.output = r.output  BY <1>4 DEF HostedOffer
<1> QED BY <1>1, <1>2, <1>4, <1>5 DEF HostedCell

LEMMA CellsDiffer ==
  ASSUME TypeOK, NEW ask, NEW c \in Rated(CallCells(ask)), NEW d \in Rated(CallCells(ask)),
         Offer(c) = Offer(d)
  PROVE  c = d
<1>1. \A e \in Rated(CallCells(ask)) : e \in Rated(RentedCells(ask)) \/ e \in Rated(HostedCells(ask))
  BY TwoSides DEF Rated
<1>2. \A e \in Rated(RentedCells(ask)) : Offer(e).quant \in DOMAIN Quants
  <2> TAKE e \in Rated(RentedCells(ask))
  <2>1. PICK q \in DOMAIN Quants :
             \E p : e = RentalCell(World(WithResolved), p, route.slug, q, CallFilter(ask))
    BY RentedCellIs
  <2> QED BY <2>1 DEF RentalCell, Offer
<1>3. \A e \in Rated(HostedCells(ask)) : Offer(e).quant = None
  BY DEF Rated, HostedCells, HostedCell, Offer
<1>4. None \notin DOMAIN Quants  BY ToolAssumption
<1> QED BY <1>1, <1>2, <1>3, <1>4, RentalsDiffer, HostedDiffer

-----------------------------------------------------------------------------
\* A call ranks finitely many cells.

LEMMA RentedAreFinite == ASSUME TypeOK, NEW ask PROVE IsFiniteSet(RentedCells(ask))
<1> DEFINE w == World(WithResolved)
           f == CallFilter(ask)
           s == route.slug
           P == PricesConsidered(w, f)
           Q == QuantsConsidered(w, f)
           g == [x \in P \X Q |-> RentalCell(w, x[1], s, x[2], f)]
<1>1. CASE ~Resolved  BY <1>1, FS_EmptySet DEF RentedCells
<1>2. CASE Resolved
  <2>1. rows["gpu_prices"] \in Generation  BY DEF TypeOK, Endpoint
  <2>2. IsFiniteSet(w.gpu_prices) /\ IsFiniteSet(DOMAIN Quants)
    BY <2>1, FinitenessAssumption DEF World
  <2>3. P \in SUBSET w.gpu_prices /\ Q \in SUBSET DOMAIN Quants
    BY DEF PricesConsidered, QuantsConsidered, World
  <2>4. IsFiniteSet(P) /\ IsFiniteSet(Q)
    <3> HIDE DEF P, Q, w
    <3> QED BY <2>2, <2>3, FS_Subset
  <2>5. IsFiniteSet(P \X Q)
    <3> HIDE DEF P, Q
    <3> QED BY <2>4, FS_Product
  <2>6. IsFiniteSet({g[x] : x \in P \X Q})
    <3>1. g = [x \in P \X Q |-> g[x]]
      <4> HIDE DEF P, Q, w, f, s
      <4> QED OBVIOUS
    <3> HIDE DEF P, Q, g
    <3> QED BY <2>5, <3>1, ImagesAreFinite
  <2>7. \A m \in ModelsConsidered(w, f) : m = s
    <3>1. s # None  BY <1>2, ToolAssumption DEF TypeOK, Resolved
    <3> QED BY <3>1 DEF ModelsConsidered, Passes, CallFilter, ToolFilter
  <2>8. RentedCells(ask) \subseteq {g[x] : x \in P \X Q}
    <3> SUFFICES ASSUME NEW c \in RentedCells(ask) PROVE \E x \in P \X Q : c = g[x]
      OBVIOUS
    <3>1. PICK p \in P, m \in ModelsConsidered(w, f), q \in Q : c = RentalCell(w, p, m, q, f)
      BY <1>2 DEF RentedCells, Rentals
    <3>2. <<p, q>> \in P \X Q /\ <<p, q>>[1] = p /\ <<p, q>>[2] = q
      <4> HIDE DEF P, Q
      <4> QED BY <3>1
    <3>3. m = s  BY <2>7
    <3> HIDE DEF P, Q, w, f, s
    <3> QED BY <3>1, <3>2, <3>3
  <2> HIDE DEF g, P, Q
  <2> QED BY <2>6, <2>8, FS_Subset
<1> QED BY <1>1, <1>2

LEMMA HostedAreFinite == ASSUME TypeOK, NEW ask PROVE IsFiniteSet(HostedCells(ask))
<1> DEFINE S == HostedRows(ask)
           g == [p \in S |-> HostedCell(p, ask.batch, ask.ctx, CallScores)]
<1>1. rows["llm_prices"] \in Generation  BY DEF TypeOK, Endpoint
<1>2. IsFiniteSet(Content["llm_prices"][rows["llm_prices"]])  BY <1>1, FinitenessAssumption
<1>3. S \in SUBSET Content["llm_prices"][rows["llm_prices"]]  BY DEF HostedRows, HostedPrices
<1>4. IsFiniteSet(S)  BY <1>2, <1>3, FS_Subset
<1>5. g = [p \in S |-> g[p]]  OBVIOUS
<1>6. IsFiniteSet({g[p] : p \in S})
  <2> HIDE DEF S, g
  <2> QED BY <1>4, <1>5, ImagesAreFinite
<1>7. HostedCells(ask) = {g[p] : p \in S}  BY DEF HostedCells
<1> QED BY <1>6, <1>7

LEMMA RatedAreFinite == ASSUME TypeOK, NEW ask PROVE IsFiniteSet(Rated(CallCells(ask)))
<1>1. IsFiniteSet(CallCells(ask))  BY TwoSides, RentedAreFinite, HostedAreFinite, FS_Union
<1>2. Rated(CallCells(ask)) \in SUBSET CallCells(ask)  BY DEF Rated
<1> QED BY <1>1, <1>2, FS_Subset

-----------------------------------------------------------------------------
\* The ranking.

\* The n cheapest of the rated items, or all of them.
LEMMA CheapestPicks ==
  ASSUME NEW items, NEW n, NEW top \in Cheapest(items, n)
  PROVE  /\ top \subseteq Rated(items)
         /\ Cardinality(top) = Min({n, Cardinality(Rated(items))})
         /\ \A a \in top, b \in Rated(items) \ top : ~Cheaper(b.rate, a.rate)
  BY DEF Cheapest, kSubset, Rated

\* What is chosen from the cells of a call is chosen from the offers of the market.
LEMMA ChosenOffers ==
  ASSUME TypeOK, NEW ask, NEW items \in Cheapest(CallCells(ask), ask.top)
  PROVE  LET all    == Rented(ask) \cup Billed(ask)
             chosen == {Offer(c) : c \in items}
         IN  /\ chosen \subseteq all
             /\ Cardinality(chosen) = Min({ask.top, Cardinality(all)})
             /\ \A o \in all \ chosen, c \in chosen : ~Cheaper(o.rate, c.rate)
<1> DEFINE cells == Rated(CallCells(ask))
           f == [c \in cells |-> Offer(c)]
           all == Rented(ask) \cup Billed(ask)
           chosen == {Offer(c) : c \in items}
<1>1. /\ items \subseteq cells
      /\ Cardinality(items) = Min({ask.top, Cardinality(cells)})
      /\ \A a \in items, b \in cells \ items : ~Cheaper(b.rate, a.rate)
  BY CheapestPicks
<1>2. IsFiniteSet(cells)  BY RatedAreFinite
<1>3. \A c, d \in cells : f[c] = f[d] => c = d  BY CellsDiffer
<1>4. f = [c \in cells |-> f[c]]
  <2> HIDE DEF cells
  <2> QED OBVIOUS
<1>5. all = {Offer(c) : c \in cells}
  <2>1. cells = Rated(RentedCells(ask)) \cup Rated(HostedCells(ask))  BY TwoSides DEF Rated
  <2> HIDE DEF cells
  <2> QED BY <2>1, RentedOffers, BilledOffers
<1>6. {f[c] : c \in cells} = all
  <2> HIDE DEF cells, all
  <2> QED BY <1>5 DEF f
<1>7. {f[c] : c \in items} = chosen
  <2> HIDE DEF cells
  <2> QED BY <1>1 DEF f
<1>8. Cardinality(all) = Cardinality(cells) /\ Cardinality(chosen) = Cardinality(items)
  <2>1. cells \in SUBSET cells /\ items \in SUBSET cells  BY <1>1
  <2> HIDE DEF cells, f, all, chosen
  <2> QED BY <1>2, <1>3, <1>4, <1>6, <1>7, <2>1, OneToOneCounts
<1>9. chosen \subseteq all
  <2> HIDE DEF cells, all
  <2> QED BY <1>1, <1>5
<1>10. ASSUME NEW o \in all \ chosen, NEW x \in chosen
       PROVE  ~Cheaper(o.rate, x.rate)
  <2>1. PICK b \in cells : o = Offer(b)
    <3> HIDE DEF cells, all
    <3> QED BY <1>5, <1>10
  <2>2. PICK a \in items : x = Offer(a)  BY <1>10
  <2>3. b \notin items  BY <1>10, <2>1
  <2>4. o.rate = b.rate /\ x.rate = a.rate  BY <2>1, <2>2 DEF Offer
  <2> HIDE DEF cells
  <2> QED BY <1>1, <2>1, <2>2, <2>3, <2>4
<1> QED BY <1>1, <1>8, <1>9, <1>10

\* The two definitions of the market agree once the answer is out.
LEMMA MarketIs ==
  ASSUME UNCHANGED <<rows, dates, models, route>>
  PROVE  RentalOffers' = Rented(answer'.ask) /\ HostedOffers' = Billed(answer'.ask)
<1>1. RentalOffers' = Rented(answer'.ask)
  BY DEF RentalOffers, Rented, RentalOffer, Resolved, Ask, World
<1>2. HostedOffers' = Billed(answer'.ask)
  BY DEF HostedOffers, Billed, HostedOffer, HostedRows, HostedPrices, Resolved, Ask
<1> QED BY <1>1, <1>2

\* An answer is chosen from the cells of its call.
LEMMA AnswerIsChosen ==
  ASSUME TypeOK, AnyTool, Answered("find_cheapest")'
  PROVE  /\ answer'.items \in Cheapest(CallCells(answer'.ask), answer'.ask.top)
         /\ UNCHANGED <<rows, dates, models, route>>
<1>1. PICK a \in CheapestArgs : FindCheapest(a.quant, a.batch, a.ctx, a.top)
  BY EachAnswersForItself DEF Answered
<1> DEFINE ask == [quant |-> a.quant, batch |-> a.batch, ctx |-> a.ctx, top |-> a.top]
<1>2. CASE Resolved
  <2>1. \E best \in Cheapest(QueryCostCells(World(WithResolved),
                                            ToolFilter(route.slug, None, a.quant, a.batch, a.ctx)), a.top) :
            Finish("find_cheapest", "ok", ask, best)
    BY <1>1, <1>2 DEF FindCheapest, Finish, Answered, Resolved
  <2>2. /\ answer'.ask = ask /\ UNCHANGED <<rows, dates, models, route>>
        /\ answer'.items \in Cheapest(QueryCostCells(World(WithResolved),
                                            ToolFilter(route.slug, None, a.quant, a.batch, a.ctx)), a.top)
    BY <2>1 DEF Finish
  <2> QED BY <1>2, <2>2 DEF CallCells, CallFilter
<1>3. CASE ~Resolved
  <2>1. \E best \in Cheapest(PartialCells(a.batch, a.ctx), a.top) : Finish("find_cheapest", "ok", ask, best)
    BY <1>1, <1>3 DEF FindCheapest, Finish, Answered, Resolved
  <2>2. /\ answer'.ask = ask /\ UNCHANGED <<rows, dates, models, route>>
        /\ answer'.items \in Cheapest(PartialCells(a.batch, a.ctx), a.top)
    BY <2>1 DEF Finish
  <2> QED BY <1>3, <2>2 DEF CallCells
<1> QED BY <1>2, <1>3

\* The step that answers does so with the cheapest offers.
LEMMA CheapestInductive ==
  ASSUME TypeOK, OnlyThen, CheapestOfAll, [Next]_vars
  PROVE  CheapestOfAll'
<1>1. CASE ~AnyTool
  <2>1. CASE answer'.status \in {"none", "raised", "elicit"}
    BY <2>1 DEF CheapestOfAll, Answered
  <2>2. CASE UNCHANGED Basis
    <3>1. RentalOffers' = RentalOffers /\ HostedOffers' = HostedOffers
      BY <2>2 DEF RentalOffers, HostedOffers, RentalOffer, HostedPrices, Resolved, Ask, World, Basis
    <3>2. answer' = answer  BY <2>2 DEF Basis
    <3> QED BY <3>1, <3>2 DEF CheapestOfAll, Answered, Ask
  <2> QED BY <1>1, <2>1, <2>2, AnswersStay
<1>2. CASE AnyTool /\ Answered("find_cheapest")'
  <2>1. /\ answer'.items \in Cheapest(CallCells(answer'.ask), answer'.ask.top)
        /\ UNCHANGED <<rows, dates, models, route>>
    BY <1>2, AnswerIsChosen
  <2>2. RentalOffers' = Rented(answer'.ask) /\ HostedOffers' = Billed(answer'.ask)  BY <2>1, MarketIs
  <2>3. LET all    == Rented(answer'.ask) \cup Billed(answer'.ask)
            chosen == {Offer(c) : c \in answer'.items}
        IN  /\ chosen \subseteq all
            /\ Cardinality(chosen) = Min({answer'.ask.top, Cardinality(all)})
            /\ \A o \in all \ chosen, c \in chosen : ~Cheaper(o.rate, c.rate)
    BY <2>1, ChosenOffers
  <2> QED BY <2>2, <2>3 DEF CheapestOfAll, Ask
<1> QED BY <1>1, <1>2 DEF CheapestOfAll

\* For any prices, machines, models and quantizations, whatever is asked:
\* find_cheapest_deployment returns the cheapest offers on the market, as many as it
\* was asked for or as there are.
THEOREM NoCheaperOffer == Spec => []CheapestOfAll
<1>1. Init => CheapestOfAll  BY InitAnswers DEF CheapestOfAll, Answered
<1>2. TypeOK /\ OnlyThen /\ CheapestOfAll /\ [Next]_vars => CheapestOfAll'
  BY CheapestInductive
<1> QED BY <1>1, <1>2, TypeAlways, PTL DEF Spec
=============================================================================
