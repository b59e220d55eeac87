----------------------------- MODULE MCCuration -----------------------------
(***************************************************************************)
(* Instance of Curation for TLC: two candidate files, two tools at a time, *)
(* on a GPU where the heuristic predicts 15 tokens/s for the dense model   *)
(* and for the sparse one.                                                 *)
(***************************************************************************)
EXTENDS Curation, TLC

CONSTANTS f1, f2, t1, t2

MCGpus == "h100" :> [vram |-> 80, bandwidth |-> 160]
MCQuants == "fp8" :> [bits |-> 8, kv_bits |-> 8]
MCModels == "dense" :> [total |-> 8, active |-> None] @@ "moe" :> [total |-> 40, active |-> 8]

Op(model, batch) ==
    [gpu |-> "h100", model |-> model, quant |-> "fp8", tp |-> 1, batch |-> batch, ctx |-> 4096]

Cell(op, tps) ==
    [op |-> op, tps |-> tps, measured |-> 0, url |-> "absolute", semver |-> TRUE,
     notes |-> [long |-> TRUE, version |-> TRUE, batch |-> TRUE, many_forms |-> TRUE,
                form |-> TRUE]]

Single == Cell(Op("dense", 1), 16)
Again == Cell(Op("dense", 1), 8)          \* measured again: half as fast
Fast == Cell(Op("dense", 1), 24)          \* too fast to be true
Batched == Cell(Op("dense", 4), 40)       \* sub-linear beside Single, not beside Again
Sparse == Cell(Op("moe", 1), 16)

MCCells == {Single, Again, Fast, Batched, Sparse}

\* Among them a file with two measurements of one op-point.
MCContents == {<<Single, Again>>, <<Batched>>, <<Fast>>}

MCSeeded == <<Sparse>>

\* Bound: once two merges have overlapped, nothing but their ends is looked at.
OverlapEnds == ~serial =>
    /\ \A t \in Tools : run'[t].pc # "idle" => Merging(t)
    /\ candidate' = candidate

Symmetric == Permutations({f1, f2}) \cup Permutations({t1, t2})
=============================================================================
