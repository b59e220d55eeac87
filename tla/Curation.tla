------------------------------ MODULE Curation ------------------------------
(***************************************************************************)
(* The curation of benchmark cells (scripts/m10): sanity_check_cells.py    *)
(* checks a candidate file against the catalogs and the canonical parquet  *)
(* and, if all is clean, leaves a .sanity-passed sidecar beside it;        *)
(* merge_candidate_to_parquet.py wants that sidecar and appends the        *)
(* candidate's rows to the parquet, through <parquet>.tmp and a rename.    *)
(*                                                                         *)
(* Tools are run by hand, any of them at any time, on a working tree that  *)
(* nothing locks, while the curator edits the candidates. Each open, read, *)
(* write and rename is a step, and a run can be killed between any two.    *)
(***************************************************************************)
EXTENDS Integers, Sequences

CONSTANTS
    Tools,      \* runs that may be under way at once
    Files,      \* candidate files
    Cells,      \* what a row can be (see CellShape)
    Contents,   \* what the curator may write: sequences of cells
    Seeded,     \* the parquet's rows to begin with
    Gpus,       \* catalogs: slug -> GpuSpec, QuantSpec, parameter counts
    Quants,
    Models,
    None,       \* no value; as a candidate's content: absent or malformed
    Unreadable, \* a parquet truncated, half written or written by two
    Window,     \* days until a measurement counts as stale (18 months)
    Days        \* dates on which the check may be run

Estimator == INSTANCE Inference

\* What the checks tell apart. `url`: absolute http(s) or not; `semver`: the
\* engine version is one; of the notes, whether they have 30 characters, name
\* the engine version, the batch, a GPU that comes in several form factors
\* (H100, H200, A100), and a form factor. `tps` may be anything, also 0.
CellShape ==
    [op : [gpu : STRING, model : STRING, quant : STRING, tp : Int, batch : Int, ctx : Int],
     tps : Nat, measured : Int, url : {"absolute", "no_host", "no_http"}, semver : BOOLEAN,
     notes : [long : BOOLEAN, version : BOOLEAN, batch : BOOLEAN,
              many_forms : BOOLEAN, form : BOOLEAN]]

\* Parameters, total and active (None when dense), in billions.
ParamsShape == [total : (Nat \ {0}) \cup {None}, active : (Nat \ {0}) \cup {None}]

Elements(s) == {s[i] : i \in DOMAIN s}

OpPoints(s) == {s[i].op : i \in DOMAIN s}

ASSUME CurationAssumption ==
    /\ Cells \subseteq CellShape
    /\ Contents \subseteq Seq(Cells) /\ Seeded \in Seq(Cells)
    /\ None \notin Seq(Cells) /\ Unreadable \notin Seq(Cells) /\ Unreadable # None
    /\ None \notin Files /\ None \notin Nat
    /\ Gpus \in [DOMAIN Gpus -> Estimator!GpuSpec]
    /\ Quants \in [DOMAIN Quants -> Estimator!QuantSpec]
    /\ Models \in [DOMAIN Models -> ParamsShape]
    /\ Window \in Nat /\ Days \subseteq Int

VARIABLES
    candidate,  \* per file its content
    sidecar,    \* per file: does <candidate>.sanity-passed exist?
    parquet,    \* seeds/benchmark_cells.parquet: its rows (none if missing), or Unreadable
    tmp,        \* <parquet>.tmp: the same, or None
    run,        \* per tool where it is, and its locals
    (* history *)
    edited,     \* per file: edited since the clean check that read it last
    serial,     \* no two merges were ever under way at once
    reported,   \* cells whose merge has ended with exit code 0
    trusted     \* those of them merged from a file not edited since its clean check

vars == <<candidate, sidecar, parquet, tmp, run, edited, serial, reported, trusted>>

-----------------------------------------------------------------------------
(* The eleven checks: a cell, and for some of them the parquet's rows or   *)
(* the day, to "pass", "warn" or "error".                                  *)

SourceUrl(c) == IF c.url = "absolute" THEN "pass" ELSE "error"

EngineVersion(c) == IF c.semver THEN "pass" ELSE "error"

Recency(c, day) ==
    IF c.measured > day THEN "error" ELSE IF day - c.measured > Window THEN "warn" ELSE "pass"

Methodology(c) == IF c.notes.long /\ c.notes.version /\ c.notes.batch THEN "pass" ELSE "error"

OpPointUnique(c, rows) == IF c.op \in OpPoints(rows) THEN "error" ELSE "pass"

SlugExists(slug, catalog) == IF slug \in DOMAIN catalog THEN "pass" ELSE "error"

FormFactor(c) == IF c.notes.many_forms => c.notes.form THEN "pass" ELSE "error"

\* The rows of the cell's own configuration measured single-stream.
Peers(c, rows) == {i \in DOMAIN rows : rows[i].op = [c.op EXCEPT !.batch = 1]}

FirstOf(S) == CHOOSE i \in S : \A j \in S : i <= j

\* batched / (batch * single) below 0.85 is credible; 0 divides by zero.
Linear(c, peer) ==
    IF c.op.batch * peer.tps > 0 THEN 100 * c.tps >= 85 * (c.op.batch * peer.tps)
    ELSE 100 * c.tps <= 85 * (c.op.batch * peer.tps)

BatchScaling(c, rows) ==
    IF c.op.batch = 1 THEN "pass"
    ELSE IF Peers(c, rows) = {} THEN "warn"
    ELSE IF Linear(c, rows[FirstOf(Peers(c, rows))]) THEN "error" ELSE "pass"

DividesByZero(c, rows) ==
    c.op.batch # 1 /\ Peers(c, rows) # {} /\ c.op.batch * rows[FirstOf(Peers(c, rows))].tps = 0

\* Only the active parameters are read for each token.
TrafficParams(m) == IF m.active # None THEN m.active ELSE m.total

\* Mutant: the peak bandwidth, without the kernel efficiency of 3/4.
PredictedAtPeak(c) ==
    [n |-> 8 * Gpus[c.op.gpu].bandwidth,
     d |-> TrafficParams(Models[c.op.model]) * Quants[c.op.quant].bits]

Predicted(c) ==
    [n |-> 6 * Gpus[c.op.gpu].bandwidth,
     d |-> TrafficParams(Models[c.op.model]) * Quants[c.op.quant].bits]

Predictable(c) ==
    /\ c.op.gpu \in DOMAIN Gpus /\ c.op.quant \in DOMAIN Quants /\ c.op.model \in DOMAIN Models
    /\ Gpus[c.op.gpu].bandwidth > 0
    /\ TrafficParams(Models[c.op.model]) # None

\* Within half and one and a half times the prediction.
BandwidthHeuristic(c) ==
    IF c.op.batch # 1 \/ ~Predictable(c) THEN "pass"
    ELSE LET p == Predicted(c) IN
         IF p.n <= 2 * (c.tps * p.d) /\ 2 * (c.tps * p.d) <= 3 * p.n THEN "pass" ELSE "warn"

\* All but the two whose verdict time or a merge may change.
LastingResults(c, rows) ==
    {SourceUrl(c), EngineVersion(c), Methodology(c), FormFactor(c), BandwidthHeuristic(c),
     SlugExists(c.op.gpu, Gpus), SlugExists(c.op.quant, Quants), SlugExists(c.op.model, Models),
     BatchScaling(c, rows)}

Results(c, rows, day) == LastingResults(c, rows) \cup {Recency(c, day), OpPointUnique(c, rows)}

\* Over all cells of a candidate.
Severities(content, rows, day) == UNION {Results(c, rows, day) : c \in Elements(content)}

\* Mutant: warnings leave a sidecar too.
ExitCodeSansWarnings(content, rows, day) ==
    IF "error" \in Severities(content, rows, day) THEN 2 ELSE 0

\* The aggregate severity; an uncaught exception exits with 1 as warnings do.
ExitCode(content, rows, day) ==
    IF \E c \in Elements(content) : DividesByZero(c, rows) THEN 1
    ELSE IF "error" \in Severities(content, rows, day) THEN 2
    ELSE IF "warn" \in Severities(content, rows, day) THEN 1 ELSE 0

-----------------------------------------------------------------------------

Places == {"idle", "loaded", "ready",                            \* the check
           "read", "joined", "opened", "written"}       \* the merge

Merging(t) == run[t].pc \in {"read", "joined", "opened", "written"}

Idle == [pc |-> "idle", job |-> "check", file |-> None, content |-> <<>>, rows |-> <<>>,
         open |-> "gone", clean |-> FALSE]

\* There may be no parquet yet: both tools read a missing one as no rows.
Init ==
    /\ candidate = [f \in Files |-> None]
    /\ sidecar = [f \in Files |-> FALSE]
    /\ parquet \in {Seeded, <<>>}
    /\ tmp = None
    /\ run = [t \in Tools |-> Idle]
    /\ edited = [f \in Files |-> FALSE]
    /\ serial = TRUE
    /\ reported = {}
    /\ trusted = {}

At(t, job, pc) == run[t].job = job /\ run[t].pc = pc

Goes(t, r) == run' = [run EXCEPT ![t] = r]

Begins(job, f, place) == [Idle EXCEPT !.job = job, !.file = f, !.pc = place]

\* A non-zero exit code, or an uncaught exception (which exits with 1).
Fails(t) == Goes(t, Idle)

(* sanity_check_cells.main *)

StartCheck(t, f) ==
    /\ run[t].pc = "idle" /\ candidate[f] # None
    /\ Goes(t, [Begins("check", f, "loaded") EXCEPT !.content = candidate[f]])
    /\ UNCHANGED <<candidate, sidecar, parquet, tmp, edited, serial, reported, trusted>>

BuildContext(t) ==
    /\ At(t, "check", "loaded")
    /\ IF parquet = Unreadable THEN Fails(t)
       ELSE Goes(t, [run[t] EXCEPT !.pc = "ready", !.rows = parquet])
    /\ UNCHANGED <<candidate, sidecar, parquet, tmp, edited, serial, reported, trusted>>

EndCheck(t) ==
    /\ At(t, "check", "ready")
    /\ Goes(t, Idle)
    /\ LET f == run[t].file IN
       \E day \in Days :
          IF ExitCode(run[t].content, run[t].rows, day) = 0
          THEN /\ sidecar' = [sidecar EXCEPT ![f] = TRUE]
               /\ edited' = [edited EXCEPT ![f] = candidate[f] # run[t].content]
          ELSE UNCHANGED <<sidecar, edited>>
    /\ UNCHANGED <<candidate, parquet, tmp, serial, reported, trusted>>

(* merge_candidate_to_parquet.main *)

\* Mutant: takes an empty document for a candidate.
StartMergeUnparsed(t, f) ==
    /\ run[t].pc = "idle" /\ sidecar[f]
    /\ Goes(t, [Begins("merge", f, "read") EXCEPT !.content = candidate[f], !.clean = ~edited[f]])
    /\ serial' = (serial /\ \A u \in Tools : ~Merging(u))
    /\ UNCHANGED <<candidate, sidecar, parquet, tmp, edited, reported, trusted>>

\* The sidecar is only asked to exist. It and the candidate are two reads; as no
\* sidecar ever goes away, what comes between may as well come before the first.
StartMerge(t, f) ==
    /\ run[t].pc = "idle" /\ sidecar[f] /\ candidate[f] # None
    /\ Goes(t, [Begins("merge", f, "read") EXCEPT !.content = candidate[f], !.clean = ~edited[f]])
    /\ serial' = (serial /\ \A u \in Tools : ~Merging(u))
    /\ UNCHANGED <<candidate, sidecar, parquet, tmp, edited, reported, trusted>>

Conflict(content, rows) == OpPoints(content) \cap OpPoints(rows) # {}

\* Mutant: leaves the second check of the op-points to the sanity check.
LoadExistingTrusting(t) ==
    /\ At(t, "merge", "read")
    /\ IF parquet = Unreadable THEN Fails(t)
       ELSE Goes(t, [run[t] EXCEPT !.pc = "joined", !.rows = parquet])
    /\ UNCHANGED <<candidate, sidecar, parquet, tmp, edited, serial, reported, trusted>>

LoadExisting(t) ==
    /\ At(t, "merge", "read")
    /\ IF parquet = Unreadable THEN Fails(t)
       ELSE IF Conflict(run[t].content, parquet) THEN Fails(t)
       ELSE Goes(t, [run[t] EXCEPT !.pc = "joined", !.rows = parquet])
    /\ UNCHANGED <<candidate, sidecar, parquet, tmp, edited, serial, reported, trusted>>

\* Opening truncates the file of that name; what was open under it stays open.
OpenTmp(t) ==
    /\ At(t, "merge", "joined")
    /\ Goes(t, [run[t] EXCEPT !.pc = "opened", !.open = "tmp"])
    /\ tmp' = Unreadable
    /\ UNCHANGED <<candidate, sidecar, parquet, edited, serial, reported, trusted>>

\* A file that another merge has open too may end up with bytes of both.
Written(t) ==
    {run[t].rows \o run[t].content} \cup
    {Unreadable : u \in {u \in Tools \ {t} : run[u].pc \in {"opened", "written"}
                                             /\ run[u].open = run[t].open}}

\* Mutant: drops the second measurement of an op-point without a word.
WriteTableDistinct(t) ==
    LET batch == run[t].content
        first == SelectSeq(batch, LAMBDA c : c = batch[FirstOf({i \in DOMAIN batch :
                                                               batch[i].op = c.op})])
    IN /\ At(t, "merge", "opened")
       /\ Goes(t, [run[t] EXCEPT !.pc = "written"])
       /\ run[t].open = "tmp"
       /\ tmp' = run[t].rows \o first
       /\ UNCHANGED <<candidate, sidecar, parquet, edited, serial, reported, trusted>>

WriteTable(t) ==
    /\ At(t, "merge", "opened")
    /\ Goes(t, [run[t] EXCEPT !.pc = "written"])
    /\ \E table \in Written(t) :
           CASE run[t].open = "tmp" -> tmp' = table /\ UNCHANGED parquet
             [] run[t].open = "parquet" -> parquet' = table /\ UNCHANGED tmp
             [] OTHER -> UNCHANGED <<tmp, parquet>>
    /\ UNCHANGED <<candidate, sidecar, edited, serial, reported, trusted>>

\* Where a file that was open is reachable once the name has moved.
Moved(open) == CASE open = "tmp" -> "parquet" [] open = "parquet" -> "gone" [] OTHER -> open

\* os.replace acts on the name, whoever wrote the file that has it now.
Replace(t) ==
    /\ At(t, "merge", "written") /\ tmp # None
    /\ parquet' = tmp
    /\ tmp' = None
    /\ run' = [u \in Tools |-> IF u = t THEN Idle
                               ELSE [run[u] EXCEPT !.open = Moved(run[u].open)]]
    /\ reported' = reported \cup Elements(run[t].content)
    /\ trusted' = IF run[t].clean THEN trusted \cup Elements(run[t].content) ELSE trusted
    /\ UNCHANGED <<candidate, sidecar, edited, serial>>

ReplaceFails(t) ==
    /\ At(t, "merge", "written") /\ tmp = None
    /\ Fails(t)
    /\ UNCHANGED <<candidate, sidecar, parquet, tmp, edited, serial, reported, trusted>>

(* the world *)

\* Killed, or ended by an OSError, at any point: what is on disk stays there.
Crash(t) ==
    /\ run[t].pc # "idle"
    /\ Fails(t)
    /\ UNCHANGED <<candidate, sidecar, parquet, tmp, edited, serial, reported, trusted>>

Edit(f, content) ==
    /\ candidate' = [candidate EXCEPT ![f] = content]
    /\ edited' = [edited EXCEPT ![f] = TRUE]
    /\ UNCHANGED <<sidecar, parquet, tmp, run, serial, reported, trusted>>

Next ==
    \/ \E t \in Tools, f \in Files : StartCheck(t, f) \/ StartMerge(t, f)
    \/ \E t \in Tools :
           \/ BuildContext(t) \/ EndCheck(t)
           \/ LoadExisting(t) \/ OpenTmp(t) \/ WriteTable(t)
           \/ Replace(t) \/ ReplaceFails(t) \/ Crash(t)
    \/ \E f \in Files, content \in Contents \cup {None} : Edit(f, content)

Spec == Init /\ [][Next]_vars

-----------------------------------------------------------------------------

Run == [pc : Places, job : {"check", "merge"}, file : Files \cup {None}, content : Seq(Cells),
        rows : Seq(Cells), open : {"tmp", "parquet", "gone"}, clean : BOOLEAN]

\* Every variable has its type; a tool at work knows its file.
TypeOK ==
    /\ candidate \in [Files -> Contents \cup {None}]
    /\ sidecar \in [Files -> BOOLEAN] /\ edited \in [Files -> BOOLEAN]
    /\ parquet \in Seq(Cells) \cup {Unreadable}
    /\ tmp \in Seq(Cells) \cup {Unreadable, None}
    /\ run \in [Tools -> Run]
    /\ \A t \in Tools : run[t].pc # "idle" => run[t].file \in Files
    /\ serial \in BOOLEAN
    /\ reported \subseteq Cells /\ trusted \subseteq reported

\* The sanity check's verdict lasts. A cell that was merged from a candidate the
\* curator did not edit after its clean check (and that check may have read an
\* older parquet, and other merges have come since) would still pass every check
\* whose verdict does not depend on the date or on the cell being absent, run
\* against the parquet as it is now: its single-stream peer is still the first.
AuditStands ==
    serial => \A c \in trusted :
                  LastingResults(c, parquet) = {"pass"} /\ ~DividesByZero(c, parquet)

\* The check's prediction is a copy of the estimator's formula, meant to stay "in
\* lock-step" with it (sanity_check_cells.py:46-49). So a merged single-stream
\* anchor of a dense model is within 50 % of what estimate_tps, without anchors,
\* answers today for that cell, overlapping merges or not. Of a sparse model the
\* two differ by design: the check takes the active parameters, the estimator all.
AnchorsNearEstimate ==
    \A c \in trusted :
        c.op.batch = 1 /\ Models[c.op.model].active = None =>
            LET est == Estimator!Throughput([params |-> Models[c.op.model].total],
                                            Gpus[c.op.gpu], Quants[c.op.quant], 1)
            IN est.score > 0 => /\ est.n <= 2 * (c.tps * est.d)
                                /\ 2 * (c.tps * est.d) <= 3 * est.n

\* The exit code tells what became of the parquet: once the merge tool has ended
\* with 0, all rows of its candidate are there, and stay there.
ExitZeroMeansMerged == serial => reported \subseteq Elements(parquet)

\* Whatever is killed and wherever, the parquet is the append-only table of
\* AnchorTable: never half written, no row lost, no op-point of one batch that
\* an earlier one has.
Table == INSTANCE AnchorTable WITH rows <- parquet, intact <- serial

TableContract == Table!Spec
=============================================================================
