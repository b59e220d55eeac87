------------------------------ MODULE Inference ------------------------------
(***************************************************************************)
(* The two pure kernels: does a model fit a GPU (inference/fit_check.py),  *)
(* and how fast does it decode there (inference/tps_estimator.py).         *)
(*                                                                         *)
(* Exact arithmetic in place of floats. Memory is counted in 1/160 GB, so  *)
(* that the 15 % overhead of a weight size params * bits / 8 GB is whole;  *)
(* a model's `kv` is what it caches per token, layer by layer, in units of *)
(* 5 * 10^7 numbers. A throughput is a fraction n/d of tokens per second.  *)
(***************************************************************************)
EXTENDS Integers

CONSTANT None

Strategies == {"standard_gqa", "mla", "sliding_window"}

\* `total_params_b` may be unknown; `keys` says whether an MLA model's
\* raw_config has the two dimensions its cache size needs.
ModelSpec == [params : (Nat \ {0}) \cup {None}, kv : Nat, strategy : Strategies,
              keys : BOOLEAN, age : Nat]
\* Bandwidth 0: the specs have none, or not a number.
GpuSpec == [vram : Nat, bandwidth : Nat]
QuantSpec == [bits : Nat \ {0}, kv_bits : Nat \ {0}]

-----------------------------------------------------------------------------

\* compute_fit raises ValueError on these ...
IllPosed(model, tp, batch, ctx) ==
    \/ batch <= 0 \/ ctx <= 0 \/ tp <= 0
    \/ model.params = None
    \/ model.strategy = "mla" /\ ~model.keys

\* ... and NotImplementedError on this.
Unsupported(model) == model.strategy = "sliding_window"

Weights(model, quant) == 20 * (model.params * quant.bits)

Overhead(model, quant) ==
    IF 3 * (model.params * quant.bits) > 320 THEN 3 * (model.params * quant.bits) ELSE 320

\* Keys and values, or MLA's one latent vector for both.
Tensors(model) == IF model.strategy = "mla" THEN 1 ELSE 2

KvCache(model, quant, batch, ctx) ==
    (Tensors(model) * model.kv * quant.kv_bits) * (ctx * batch)

Required(model, quant, batch, ctx) ==
    Weights(model, quant) + KvCache(model, quant, batch, ctx) + Overhead(model, quant)

Available(gpu, tp) == 160 * gpu.vram * tp

Fits(model, gpu, quant, tp, batch, ctx) == Required(model, quant, batch, ctx) <= Available(gpu, tp)

\* Mutant: forgets that the overhead cannot be relaxed either.
BlockingReasonSansOverhead(model, gpu, quant, tp, batch, ctx) ==
    IF Fits(model, gpu, quant, tp, batch, ctx) THEN "none"
    ELSE IF Weights(model, quant) > Available(gpu, tp) THEN "weights"
    ELSE "kv_cache"

\* Which dimension the user is told to relax.
BlockingReason(model, gpu, quant, tp, batch, ctx) ==
    IF Fits(model, gpu, quant, tp, batch, ctx) THEN "none"
    ELSE IF Weights(model, quant) + Overhead(model, quant) > Available(gpu, tp) THEN "weights"
    ELSE "kv_cache"

-----------------------------------------------------------------------------

\* Tier 4, the refusal: no value, no confidence.
NoThroughput == [n |-> 0, d |-> 1, score |-> 0]

\* Tier 3, the bandwidth heuristic at 3/4 kernel efficiency:
\* bandwidth / (params * bits / 8) * 3/4, single stream only.
Heuristic(model, gpu, quant) ==
    [n |-> 6 * gpu.bandwidth, d |-> model.params * quant.bits, score |-> 60]

\* The ladder as this version climbs it: no caller has benchmark cells (tier 1)
\* or Artificial Analysis rows (tier 2) to pass.
Throughput(model, gpu, quant, batch) ==
    IF batch = 1 /\ model.params # None /\ gpu.bandwidth > 0
    THEN Heuristic(model, gpu, quant) ELSE NoThroughput
=============================================================================
