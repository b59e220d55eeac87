----------------------------- MODULE AnchorTable -----------------------------
(***************************************************************************)
(* What the curation tools promise of seeds/benchmark_cells.parquet: a     *)
(* table that only grows, by whole batches of rows whose op-points are new *)
(* to it, so that what a reader has found in it once it finds for ever.    *)
(* The promise stands as long as merges keep clear of each other: nothing  *)
(* locks the file (see Curation). Files, sidecars, crashes are absent.     *)
(***************************************************************************)
EXTENDS Integers, Sequences

CONSTANT Seeded     \* the rows committed before the tools are first used, if any

VARIABLES
    rows,     \* the table: a sequence of cells, each with its op-point `op`
    intact    \* the promise still stands

vars == <<rows, intact>>

OpPoints(cells) == {cells[i].op : i \in DOMAIN cells}

Init == rows \in {Seeded, <<>>} /\ intact = TRUE

Add(batch) ==
    /\ OpPoints(batch) \cap OpPoints(rows) = {}
    /\ rows' = rows \o batch

Grow ==
    /\ intact /\ intact'
    /\ \E batch \in {SubSeq(rows', Len(rows) + 1, Len(rows'))} : Add(batch)

Forfeit == intact' = FALSE

Next == Grow \/ Forfeit

Spec == Init /\ [][Next]_vars
=============================================================================
