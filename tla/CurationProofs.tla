--------------------------- MODULE CurationProofs ---------------------------
(***************************************************************************)
(* What the curation tools keep of the parquet, for any candidates,        *)
(* catalogs and number of runs under way. The inductive invariant follows  *)
(* the two ways a verdict travels: from the check that reads the parquet   *)
(* to the sidecar (the rows it read are a prefix of what is there now, and *)
(* no verdict but two depends on more than that prefix), and from the      *)
(* sidecar through one merge at a time to the new rows.                    *)
(***************************************************************************)
EXTENDS Curation, SequenceTheorems, WellFoundedInduction, TLAPS

Prefix(s, r) == Len(s) <= Len(r) /\ \A i \in 1..Len(s) : r[i] = s[i]

\* Everything that is to last of the checks of one cell.
Sound(c, rows) == LastingResults(c, rows) = {"pass"} /\ ~DividesByZero(c, rows)

\* The part of it that does not depend on the parquet.
Catalogued(c) ==
    /\ BandwidthHeuristic(c) = "pass"
    /\ c.op.gpu \in DOMAIN Gpus /\ c.op.quant \in DOMAIN Quants /\ c.op.model \in DOMAIN Models

Good(c) == Catalogued(c) /\ (serial => Sound(c, parquet))

AllGood(content) == \A c \in Elements(content) : Good(c)

-----------------------------------------------------------------------------
(* The inductive invariant.                                                *)

OneMerge == serial => \A t, u \in Tools : Merging(t) /\ Merging(u) => t = u

Joined(t) == run[t].pc \in {"joined", "opened", "written"}

\* The one merge under way appends to the parquet as it is.
MergeInStep ==
    serial => /\ parquet \in Seq(Cells)
              /\ \A t \in Tools :
                    /\ Joined(t) => /\ run[t].rows = parquet
                                    /\ ~Conflict(run[t].content, parquet)
                    /\ run[t].pc \in {"opened", "written"} => run[t].open = "tmp"
                    /\ run[t].pc = "written" => tmp = parquet \o run[t].content

CheckReads ==
    serial => \A t \in Tools : At(t, "check", "ready") => Prefix(run[t].rows, parquet)

SidecarOfSound ==
    \A f \in Files : sidecar[f] /\ ~edited[f] =>
        candidate[f] # None /\ AllGood(candidate[f])

CleanIsSound == \A t \in Tools : Merging(t) /\ run[t].clean => AllGood(run[t].content)

TrustedAreSound == \A c \in trusted : Good(c)

IInv ==
    /\ TypeOK
    /\ OneMerge /\ MergeInStep /\ CheckReads
    /\ SidecarOfSound /\ CleanIsSound /\ TrustedAreSound
    /\ ExitZeroMeansMerged

-----------------------------------------------------------------------------
(* The checks: what passes every one of them, and for how long.            *)

Verdicts == {"pass", "warn", "error"}

LEMMA ChecksAnswer ==
    ASSUME NEW c, NEW rows, NEW day
    PROVE  Results(c, rows, day) \subseteq Verdicts
<1>1. {SourceUrl(c), EngineVersion(c), Methodology(c), FormFactor(c), BandwidthHeuristic(c)}
          \subseteq Verdicts
  BY DEF SourceUrl, EngineVersion, Methodology, FormFactor, BandwidthHeuristic, Verdicts
<1>2. \A slug, catalog : SlugExists(slug, catalog) \in Verdicts
  BY DEF SlugExists, Verdicts
<1>3. BatchScaling(c, rows) \in Verdicts
  BY DEF BatchScaling, Verdicts
<1>4. Recency(c, day) \in Verdicts /\ OpPointUnique(c, rows) \in Verdicts
  BY DEF Recency, OpPointUnique, Verdicts
<1>. QED  BY <1>1, <1>2, <1>3, <1>4 DEF Results, LastingResults

\* Exit code 0: each cell of the candidate passed each check.
LEMMA ExitZeroIsSound ==
    ASSUME NEW content, NEW rows, NEW day, ExitCode(content, rows, day) = 0,
           NEW c \in Elements(content)
    PROVE  Sound(c, rows) /\ Catalogued(c)
<1>1. ~DividesByZero(c, rows) /\ {"error", "warn"} \cap Severities(content, rows, day) = {}
  BY DEF ExitCode
<1>2. {"error", "warn"} \cap LastingResults(c, rows) = {}
  BY <1>1 DEF Severities, Results
<1>3. LastingResults(c, rows) \subseteq Verdicts
  BY ChecksAnswer DEF Results
<1>4. SourceUrl(c) \in LastingResults(c, rows)
  BY DEF LastingResults
<1>5. LastingResults(c, rows) = {"pass"}
  BY <1>2, <1>3, <1>4 DEF Verdicts
<1>6. BandwidthHeuristic(c) = "pass" /\ SlugExists(c.op.gpu, Gpus) = "pass"
      /\ SlugExists(c.op.quant, Quants) = "pass" /\ SlugExists(c.op.model, Models) = "pass"
  BY <1>5 DEF LastingResults
<1>. QED  BY <1>1, <1>5, <1>6 DEF Sound, Catalogued, SlugExists

LEMMA FirstOfExists ==
    ASSUME NEW S \in SUBSET Nat, S # {}
    PROVE  FirstOf(S) \in S /\ \A j \in S : FirstOf(S) <= j
<1>. DEFINE R == {p \in Nat \X Nat : p[1] < p[2]}
<1>1. IsWellFoundedOn(R, Nat)
  BY NatLessThanWellFounded, Zenon DEF OpToRel
<1>2. PICK i \in S : \A j \in S : <<j, i>> \notin R
  BY <1>1, WFMin
<1>3. \A j \in S : i <= j
  <2>. SUFFICES ASSUME NEW j \in S, ~(i <= j)  PROVE FALSE
    OBVIOUS
  <2>1. j < i
    OBVIOUS
  <2>2. <<j, i>> \in R
    BY <2>1
  <2>. QED  BY <1>2, <2>2
<1>. QED  BY <1>3 DEF FirstOf

LEMMA FirstOfIsLeast ==
    ASSUME NEW S \in SUBSET Nat, NEW k \in S, \A j \in S : k <= j
    PROVE  FirstOf(S) = k
<1>1. FirstOf(S) \in S /\ \A j \in S : FirstOf(S) <= j
  BY FirstOfExists
<1>2. FirstOf(S) <= k /\ k <= FirstOf(S) /\ FirstOf(S) \in Nat /\ k \in Nat
  BY <1>1
<1>. QED  BY <1>2

\* What passed beside some rows passes beside any rows appended to them: the
\* first peer stays the first.
LEMMA SoundLasts ==
    ASSUME NEW c, NEW s \in Seq(Cells), NEW r \in Seq(Cells), Prefix(s, r), Sound(c, s)
    PROVE  Sound(c, r)
<1>1. CASE c.op.batch = 1
  BY <1>1 DEF Sound, LastingResults, BatchScaling, DividesByZero
<1>2. CASE c.op.batch # 1
  <2>1. BatchScaling(c, s) = "pass"
    BY DEF Sound, LastingResults
  <2>2. Peers(c, s) # {}
    BY <1>2, <2>1 DEF BatchScaling
  <2>3. Peers(c, s) \subseteq Nat /\ Peers(c, r) \subseteq Nat
    BY DEF Peers
  <2>. DEFINE k == FirstOf(Peers(c, s))
  <2>4. k \in Peers(c, s) /\ \A j \in Peers(c, s) : k <= j
    BY <2>2, <2>3, FirstOfExists
  <2>5. k \in 1..Len(s) /\ k \in 1..Len(r) /\ r[k] = s[k]
    BY <2>4 DEF Peers, Prefix
  <2>6. k \in Peers(c, r)
    BY <2>4, <2>5 DEF Peers
  <2>7. \A j \in Peers(c, r) : k <= j
    <3>. SUFFICES ASSUME NEW j \in Peers(c, r), j < k  PROVE FALSE
      BY <2>3, <2>5
    <3>1. j \in 1..Len(s) /\ r[j] = s[j]
      BY <2>5 DEF Peers, Prefix
    <3>2. j \in Peers(c, s)
      BY <3>1 DEF Peers
    <3>. QED  BY <2>3, <2>4, <2>5, <3>2
  <2>8. FirstOf(Peers(c, r)) = k
    BY <2>3, <2>6, <2>7, FirstOfIsLeast
  <2>9. BatchScaling(c, r) = BatchScaling(c, s) /\ (DividesByZero(c, r) <=> DividesByZero(c, s))
    BY <2>2, <2>5, <2>6, <2>8 DEF BatchScaling, DividesByZero
  <2>. QED  BY <2>9 DEF Sound, LastingResults
<1>. QED  BY <1>1, <1>2

-----------------------------------------------------------------------------
(* Types.                                                                  *)

LEMMA Absent ==
    /\ None \notin Contents /\ \A f \in Files : f # None
    /\ \A content \in Contents \cup {None} : content # None => content \in Seq(Cells)
    /\ Unreadable \notin Seq(Cells) /\ None \notin Seq(Cells) /\ Unreadable # None
BY CurationAssumption

LEMMA IdleType == Idle \in Run
<1>1. <<>> \in Seq(Cells)
  OBVIOUS
<1>. QED  BY <1>1 DEF Idle, Run, Places

\* A record of a run in which some fields are replaced by values of their types.
LEMMA GoesType ==
    ASSUME TypeOK, NEW t \in Tools, NEW r \in Run, Goes(t, r), r.pc # "idle" => r.file \in Files
    PROVE  /\ run' \in [Tools -> Run]
           /\ \A u \in Tools : run'[u].pc # "idle" => run'[u].file \in Files
BY DEF TypeOK, Goes

LEMMA FailsType ==
    ASSUME TypeOK, NEW t \in Tools, Fails(t)
    PROVE  /\ run' \in [Tools -> Run]
           /\ \A u \in Tools : run'[u].pc # "idle" => run'[u].file \in Files
<1>1. Idle.pc = "idle"
  BY DEF Idle
<1>. QED  BY <1>1, IdleType, GoesType DEF Fails

\* The tables that are written, whoever else writes the same file.
LEMMA WrittenType ==
    ASSUME TypeOK, NEW t \in Tools
    PROVE  Written(t) \subseteq Seq(Cells) \cup {Unreadable}
<1>1. run[t].rows \in Seq(Cells) /\ run[t].content \in Seq(Cells)
  BY DEF TypeOK, Run
<1>2. run[t].rows \o run[t].content \in Seq(Cells)
  BY <1>1, ConcatProperties
<1>. QED  BY <1>2 DEF Written

LEMMA ElementsType == \A s \in Seq(Cells) : Elements(s) \subseteq Cells
<1>. SUFFICES ASSUME NEW s \in Seq(Cells), NEW i \in DOMAIN s  PROVE s[i] \in Cells
  BY DEF Elements
<1>. QED  BY ElementOfSeq

LEMMA InitType == Init => TypeOK
<1>. SUFFICES ASSUME Init  PROVE TypeOK  OBVIOUS
<1>1. run \in [Tools -> Run] /\ \A t \in Tools : run[t].pc = "idle"
  BY IdleType DEF Init, Idle
<1>2. parquet \in Seq(Cells)
  <2>1. <<>> \in Seq(Cells)  OBVIOUS
  <2>. QED  BY <2>1, CurationAssumption DEF Init
<1>. QED  BY <1>1, <1>2 DEF Init, TypeOK

LEMMA TypeStep == TypeOK /\ [Next]_vars => TypeOK'
<1>. SUFFICES ASSUME TypeOK, [Next]_vars  PROVE TypeOK'  OBVIOUS
<1>1. ASSUME NEW t \in Tools, NEW f \in Files, StartCheck(t, f)  PROVE TypeOK'
  <2>. DEFINE r == [Begins("check", f, "loaded") EXCEPT !.content = candidate[f]]
  <2>1. candidate[f] \in Seq(Cells)
    BY <1>1, Absent DEF StartCheck, TypeOK
  <2>2. r \in Run /\ r.file \in Files
    BY <2>1, IdleType DEF Begins, Run, Idle, Places
  <2>3. Goes(t, r)
    BY <1>1 DEF StartCheck
  <2>. QED  BY <1>1, <2>2, <2>3, GoesType DEF StartCheck, TypeOK
<1>2. ASSUME NEW t \in Tools, NEW f \in Files, StartMerge(t, f)  PROVE TypeOK'
  <2>. DEFINE r == [Begins("merge", f, "read") EXCEPT !.content = candidate[f],
                                                      !.clean = ~edited[f]]
  <2>1. candidate[f] \in Seq(Cells) /\ (~edited[f]) \in BOOLEAN
    BY <1>2, Absent DEF StartMerge, TypeOK
  <2>2. r \in Run /\ r.file \in Files
    BY <2>1, IdleType DEF Begins, Run, Idle, Places
  <2>3. Goes(t, r)
    BY <1>2 DEF StartMerge
  <2>4. serial' \in BOOLEAN
    BY <1>2 DEF StartMerge, TypeOK
  <2>. QED  BY <1>2, <2>2, <2>3, <2>4, GoesType DEF StartMerge, TypeOK
<1>3. ASSUME NEW t \in Tools, BuildContext(t)  PROVE TypeOK'
  <2>. DEFINE r == [run[t] EXCEPT !.pc = "ready", !.rows = parquet]
  <2>1. CASE parquet = Unreadable
    BY <1>3, <2>1, FailsType DEF BuildContext, TypeOK
  <2>2. CASE parquet # Unreadable
    <3>1. r \in Run /\ r.file \in Files
      BY <1>3, <2>2 DEF BuildContext, At, TypeOK, Run, Places
    <3>2. Goes(t, r)
      BY <1>3, <2>2 DEF BuildContext
    <3>. QED  BY <1>3, <3>1, <3>2, GoesType DEF BuildContext, TypeOK
  <2>. QED  BY <2>1, <2>2
<1>4. ASSUME NEW t \in Tools, EndCheck(t)  PROVE TypeOK'
  <2>1. sidecar' \in [Files -> BOOLEAN] /\ edited' \in [Files -> BOOLEAN]
    BY <1>4 DEF EndCheck, TypeOK
  <2>2. Fails(t)
    BY <1>4 DEF EndCheck, Fails
  <2>. QED  BY <1>4, <2>1, <2>2, FailsType DEF EndCheck, TypeOK
<1>5. ASSUME NEW t \in Tools, LoadExisting(t)  PROVE TypeOK'
  <2>. DEFINE r == [run[t] EXCEPT !.pc = "joined", !.rows = parquet]
  <2>1. CASE Fails(t)
    BY <1>5, <2>1, FailsType DEF LoadExisting, TypeOK
  <2>2. CASE parquet # Unreadable /\ Goes(t, r)
    <3>1. r \in Run /\ r.file \in Files
      BY <1>5, <2>2 DEF LoadExisting, At, TypeOK, Run, Places
    <3>. QED  BY <1>5, <2>2, <3>1, GoesType DEF LoadExisting, TypeOK
  <2>. QED  BY <1>5, <2>1, <2>2 DEF LoadExisting
<1>6. ASSUME NEW t \in Tools, OpenTmp(t)  PROVE TypeOK'
  <2>. DEFINE r == [run[t] EXCEPT !.pc = "opened", !.open = "tmp"]
  <2>1. r \in Run /\ r.file \in Files
    BY <1>6 DEF OpenTmp, At, TypeOK, Run, Places
  <2>2. Goes(t, r)
    BY <1>6 DEF OpenTmp
  <2>. QED  BY <1>6, <2>1, <2>2, GoesType DEF OpenTmp, TypeOK
<1>7. ASSUME NEW t \in Tools, WriteTable(t)  PROVE TypeOK'
  <2>. DEFINE r == [run[t] EXCEPT !.pc = "written"]
  <2>1. r \in Run /\ r.file \in Files
    BY <1>7 DEF WriteTable, At, TypeOK, Run, Places
  <2>2. Goes(t, r)
    BY <1>7 DEF WriteTable
  <2>3. PICK table \in Written(t) :
           CASE run[t].open = "tmp" -> tmp' = table /\ UNCHANGED parquet
             [] run[t].open = "parquet" -> parquet' = table /\ UNCHANGED tmp
             [] OTHER -> UNCHANGED <<tmp, parquet>>
    BY <1>7 DEF WriteTable
  <2>4. table \in Seq(Cells) \cup {Unreadable}
    BY WrittenType
  <2>5. parquet' \in Seq(Cells) \cup {Unreadable} /\ tmp' \in Seq(Cells) \cup {Unreadable, None}
    BY <2>3, <2>4 DEF TypeOK
  <2>. QED  BY <1>7, <2>1, <2>2, <2>5, GoesType DEF WriteTable, TypeOK
<1>8. ASSUME NEW t \in Tools, Replace(t)  PROVE TypeOK'
  <2>1. parquet' \in Seq(Cells) \cup {Unreadable} /\ tmp' = None
    BY <1>8 DEF Replace, TypeOK
  <2>2. Elements(run[t].content) \subseteq Cells
    BY ElementsType DEF TypeOK, Run
  <2>3. reported' \subseteq Cells /\ trusted' \subseteq reported'
    BY <1>8, <2>2 DEF Replace, TypeOK
  <2>4. \A u \in Tools : [run[u] EXCEPT !.open = Moved(run[u].open)] \in Run
    BY DEF TypeOK, Run, Moved
  <2>5. run' \in [Tools -> Run]
    BY <1>8, <2>4, IdleType DEF Replace
  <2>6. \A u \in Tools : run'[u].pc # "idle" => run'[u].file \in Files
    BY <1>8 DEF Replace, TypeOK, Idle, Run
  <2>. QED  BY <1>8, <2>1, <2>3, <2>5, <2>6 DEF Replace, TypeOK
<1>9. ASSUME NEW t \in Tools, ReplaceFails(t) \/ Crash(t)  PROVE TypeOK'
  BY <1>9, FailsType DEF ReplaceFails, Crash, TypeOK
<1>10. ASSUME NEW f \in Files, NEW content \in Contents \cup {None}, Edit(f, content)
       PROVE  TypeOK'
  BY <1>10 DEF Edit, TypeOK
<1>11. CASE UNCHANGED vars
  BY <1>11 DEF vars, TypeOK
<1>. QED
  BY <1>1, <1>2, <1>3, <1>4, <1>5, <1>6, <1>7, <1>8, <1>9, <1>10, <1>11 DEF Next

-----------------------------------------------------------------------------
(* One merge at a time: the parquet is appended to, or left alone.         *)

Serially == OneMerge /\ MergeInStep /\ CheckReads

LEMMA PrefixRefl == \A s \in Seq(Cells) : Prefix(s, s)
BY DEF Prefix

LEMMA PrefixAppend ==
    ASSUME NEW s \in Seq(Cells), NEW q \in Seq(Cells), NEW r \in Seq(Cells), Prefix(s, q)
    PROVE  Prefix(s, q \o r)
<1>1. Len(q \o r) = Len(q) + Len(r) /\ \A i \in 1..Len(q) : (q \o r)[i] = q[i]
  BY ConcatProperties
<1>2. Len(s) \in Nat /\ Len(q) \in Nat /\ Len(r) \in Nat
  BY LenProperties
<1>. QED  BY <1>1, <1>2 DEF Prefix

\* Nothing but a Replace of the one merge changes the parquet.
LEMMA Growth ==
    ASSUME TypeOK, Serially, [Next]_vars, serial'
    PROVE  /\ serial /\ parquet \in Seq(Cells)
           /\ \/ parquet' = parquet
              \/ \E t \in Tools : /\ Replace(t)
                                  /\ ~Conflict(run[t].content, parquet)
                                  /\ parquet' = parquet \o run[t].content
<1>1. serial
  BY DEF Next, vars, StartCheck, StartMerge, BuildContext, EndCheck, LoadExisting, OpenTmp,
         WriteTable, Replace, ReplaceFails, Crash, Edit
<1>2. parquet \in Seq(Cells)
  BY <1>1 DEF Serially, MergeInStep
<1>3. ASSUME NEW t \in Tools, WriteTable(t)  PROVE parquet' = parquet
  <2>1. run[t].open = "tmp"
    BY <1>1, <1>3 DEF WriteTable, At, Serially, MergeInStep
  <2>. QED  BY <1>3, <2>1 DEF WriteTable
<1>4. ASSUME NEW t \in Tools, Replace(t)
      PROVE  ~Conflict(run[t].content, parquet) /\ parquet' = parquet \o run[t].content
  <2>1. run[t].pc = "written"
    BY <1>4 DEF Replace, At
  <2>. QED  BY <1>1, <1>4, <2>1 DEF Replace, Serially, MergeInStep, Joined
<1>5. \/ \E t \in Tools : WriteTable(t) \/ Replace(t)
      \/ parquet' = parquet
  BY DEF Next, vars, StartCheck, StartMerge, BuildContext, EndCheck, LoadExisting, OpenTmp,
         ReplaceFails, Crash, Edit
<1>. QED  BY <1>1, <1>2, <1>3, <1>4, <1>5

LEMMA GrowthPrefix ==
    ASSUME TypeOK, Serially, [Next]_vars, serial'
    PROVE  parquet' \in Seq(Cells) /\ Prefix(parquet, parquet')
<1>1. parquet \in Seq(Cells) /\ \A t \in Tools : run[t].content \in Seq(Cells)
  BY Growth DEF TypeOK, Run
<1>2. ASSUME NEW t \in Tools, parquet' = parquet \o run[t].content
      PROVE  parquet' \in Seq(Cells) /\ Prefix(parquet, parquet')
  BY <1>1, <1>2, ConcatProperties, PrefixRefl, PrefixAppend
<1>. QED  BY <1>1, <1>2, PrefixRefl, Growth

\* A tool that another one's step leaves where it was.
LEMMA Elsewhere ==
    ASSUME TypeOK, NEW t \in Tools, NEW r, Goes(t, r)
    PROVE  run'[t] = r /\ \A u \in Tools : u # t => run'[u] = run[u]
BY DEF TypeOK, Goes

LEMMA NoNewMerge ==
    ASSUME TypeOK, NEW t \in Tools, NEW r, Goes(t, r),
           r.pc \notin {"read", "joined", "opened", "written"},
           NEW u \in Tools, Merging(u)'
    PROVE  Merging(u)
<1>1. u # t
  BY Elsewhere DEF Merging
<1>. QED  BY <1>1, Elsewhere DEF Merging

LEMMA OneMergeStep == TypeOK /\ Serially /\ [Next]_vars => OneMerge'
<1>. SUFFICES ASSUME TypeOK, Serially, [Next]_vars, serial',
                     NEW t \in Tools, NEW u \in Tools, Merging(t)', Merging(u)'
              PROVE  t = u
  BY DEF OneMerge
<1>1. serial /\ \A v, w \in Tools : Merging(v) /\ Merging(w) => v = w
  BY Growth DEF Serially, OneMerge
<1>2. ASSUME NEW v \in Tools, NEW f \in Files, StartMerge(v, f)  PROVE t = u
  <2>1. \A w \in Tools : ~Merging(w)
    BY <1>2 DEF StartMerge
  <2>2. \A w \in Tools : w # v => run'[w] = run[w]
    BY <1>2, Elsewhere DEF StartMerge
  <2>. QED  BY <2>1, <2>2 DEF Merging
<1>3. ASSUME ~\E v \in Tools, f \in Files : StartMerge(v, f)  PROVE t = u
  <2>1. ASSUME NEW v \in Tools, Merging(v)'  PROVE Merging(v)
    <3>1. ASSUME NEW w \in Tools, NEW f \in Files, StartCheck(w, f)  PROVE Merging(v)
      <4>1. [Begins("check", f, "loaded") EXCEPT !.content = candidate[f]].pc = "loaded"
        BY DEF Begins, Idle
      <4>. QED  BY <2>1, <3>1, <4>1, NoNewMerge DEF StartCheck
    <3>2. ASSUME NEW w \in Tools, BuildContext(w) \/ EndCheck(w) \/ ReplaceFails(w) \/ Crash(w)
          PROVE  Merging(v)
      <4>1. Idle.pc = "idle" /\ [run[w] EXCEPT !.pc = "ready", !.rows = parquet].pc = "ready"
        BY DEF Idle, TypeOK, Run
      <4>2. Goes(w, Idle) \/ Goes(w, [run[w] EXCEPT !.pc = "ready", !.rows = parquet])
        BY <3>2 DEF BuildContext, EndCheck, ReplaceFails, Crash, Fails
      <4>. QED  BY <2>1, <4>1, <4>2, NoNewMerge
    <3>3. CASE \E w \in Tools : LoadExisting(w) \/ OpenTmp(w) \/ WriteTable(w)
      <4>1. PICK w \in Tools : LoadExisting(w) \/ OpenTmp(w) \/ WriteTable(w)
        BY <3>3
      <4>2. Merging(w)
        BY <4>1 DEF LoadExisting, OpenTmp, WriteTable, At, Merging
      <4>3. v # w => run'[v] = run[v]
        BY <4>1, Elsewhere DEF LoadExisting, OpenTmp, WriteTable, Fails
      <4>. QED  BY <2>1, <4>2, <4>3 DEF Merging
    <3>4. CASE \E w \in Tools : Replace(w)
      BY <2>1, <3>4 DEF Replace, Merging, Idle, TypeOK, Run
    <3>5. CASE UNCHANGED run
      BY <2>1, <3>5 DEF Merging
    <3>. QED  BY <1>3, <3>1, <3>2, <3>3, <3>4, <3>5 DEF Next, vars, Edit
  <2>. QED  BY <1>1, <2>1
<1>. QED  BY <1>2, <1>3

\* What the invariant says of the merge of one tool.
InStep(t) ==
    /\ Joined(t) => run[t].rows = parquet /\ ~Conflict(run[t].content, parquet)
    /\ run[t].pc \in {"opened", "written"} => run[t].open = "tmp"
    /\ run[t].pc = "written" => tmp = parquet \o run[t].content

LEMMA InStepStep ==
    ASSUME TypeOK, Serially, [Next]_vars, serial', NEW t \in Tools
    PROVE  InStep(t)'
<1>1. serial /\ InStep(t)
  BY Growth DEF Serially, MergeInStep, InStep
<1>2. CASE UNCHANGED <<run, parquet, tmp>>
  BY <1>1, <1>2 DEF InStep, Joined
<1>3. ASSUME NEW u \in Tools, NEW r, Goes(u, r), UNCHANGED <<parquet, tmp>>,
             r.pc \in {"idle", "loaded", "ready", "read"}
      PROVE  InStep(t)'
  <2>1. CASE u = t
    BY <1>3, <2>1, Elsewhere DEF InStep, Joined
  <2>2. CASE u # t
    BY <1>1, <1>3, <2>2, Elsewhere DEF InStep, Joined
  <2>. QED  BY <2>1, <2>2
<1>4. ASSUME NEW u \in Tools, NEW f \in Files, StartCheck(u, f) \/ StartMerge(u, f)
      PROVE  InStep(t)'
  <2>1. /\ [Begins("check", f, "loaded") EXCEPT !.content = candidate[f]].pc = "loaded"
        /\ [Begins("merge", f, "read") EXCEPT !.content = candidate[f],
                                              !.clean = ~edited[f]].pc = "read"
    BY DEF Begins, Idle
  <2>. QED  BY <1>3, <1>4, <2>1 DEF StartCheck, StartMerge
<1>5. ASSUME NEW u \in Tools, BuildContext(u) \/ EndCheck(u) \/ ReplaceFails(u) \/ Crash(u)
      PROVE  InStep(t)'
  <2>1. Idle.pc = "idle" /\ [run[u] EXCEPT !.pc = "ready", !.rows = parquet].pc = "ready"
    BY DEF Idle, TypeOK, Run
  <2>2. Goes(u, Idle) \/ Goes(u, [run[u] EXCEPT !.pc = "ready", !.rows = parquet])
    BY <1>5 DEF BuildContext, EndCheck, ReplaceFails, Crash, Fails
  <2>3. UNCHANGED <<parquet, tmp>>
    BY <1>5 DEF BuildContext, EndCheck, ReplaceFails, Crash
  <2>. QED  BY <1>3, <2>1, <2>2, <2>3
<1>6. ASSUME NEW u \in Tools, LoadExisting(u)  PROVE InStep(t)'
  <2>. DEFINE r == [run[u] EXCEPT !.pc = "joined", !.rows = parquet]
  <2>1. UNCHANGED <<parquet, tmp>>
    BY <1>6 DEF LoadExisting
  <2>2. CASE Fails(u)
    BY <1>3, <2>1, <2>2 DEF Fails, Idle
  <2>3. CASE ~Fails(u)
    <3>1. Goes(u, r) /\ ~Conflict(run[u].content, parquet)
      BY <1>6, <2>3 DEF LoadExisting
    <3>2. r.pc = "joined" /\ r.rows = parquet /\ r.content = run[u].content
      BY DEF TypeOK, Run
    <3>3. run'[u] = r /\ (t # u => run'[t] = run[t])
      BY <3>1, Elsewhere
    <3>. QED  BY <1>1, <2>1, <3>1, <3>2, <3>3 DEF InStep, Joined, Conflict
  <2>. QED  BY <2>2, <2>3
<1>7. ASSUME NEW u \in Tools, OpenTmp(u) \/ WriteTable(u) \/ Replace(u), u # t
      PROVE  InStep(t)'
  <2>1. Merging(u)
    BY <1>7 DEF OpenTmp, WriteTable, Replace, At, Merging
  <2>2. ~Merging(t)
    BY <1>1, <1>7, <2>1 DEF Serially, OneMerge
  <2>3. CASE OpenTmp(u) \/ WriteTable(u)
    <3>1. run'[t] = run[t]
      BY <1>7, <2>3, Elsewhere DEF OpenTmp, WriteTable
    <3>. QED  BY <2>2, <3>1 DEF Merging, InStep, Joined
  <2>4. CASE Replace(u)
    <3>1. run'[t] = [run[t] EXCEPT !.open = Moved(run[t].open)]
      BY <1>7, <2>4 DEF Replace
    <3>2. run'[t].pc = run[t].pc
      BY <3>1 DEF TypeOK, Run
    <3>. QED  BY <2>2, <3>2 DEF Merging, InStep, Joined
  <2>. QED  BY <1>7, <2>3, <2>4
<1>8. ASSUME OpenTmp(t)  PROVE InStep(t)'
  <2>. DEFINE r == [run[t] EXCEPT !.pc = "opened", !.open = "tmp"]
  <2>1. run'[t] = r /\ r.pc = "opened" /\ r.open = "tmp" /\ r.rows = run[t].rows
        /\ r.content = run[t].content
    BY <1>8, Elsewhere DEF OpenTmp, TypeOK, Run
  <2>2. Joined(t) /\ parquet' = parquet
    BY <1>8 DEF OpenTmp, At, Joined
  <2>. QED  BY <1>1, <2>1, <2>2 DEF InStep, Joined, Conflict
<1>9. ASSUME WriteTable(t)  PROVE InStep(t)'
  <2>. DEFINE r == [run[t] EXCEPT !.pc = "written"]
  <2>1. run'[t] = r /\ r.pc = "written" /\ r.open = run[t].open /\ r.rows = run[t].rows
        /\ r.content = run[t].content
    BY <1>9, Elsewhere DEF WriteTable, TypeOK, Run
  <2>2. Joined(t) /\ run[t].open = "tmp" /\ Merging(t)
    BY <1>1, <1>9 DEF WriteTable, At, Joined, InStep, Merging
  <2>3. Written(t) = {parquet \o run[t].content}
    <3>1. \A u \in Tools \ {t} : ~Merging(u)
      BY <1>1, <2>2 DEF Serially, OneMerge
    <3>. QED  BY <1>1, <2>2, <3>1 DEF Written, Merging, InStep
  <2>4. tmp' = parquet \o run[t].content /\ parquet' = parquet
    BY <1>9, <2>2, <2>3 DEF WriteTable
  <2>. QED  BY <1>1, <2>1, <2>2, <2>4 DEF InStep, Joined, Conflict
<1>10. ASSUME Replace(t)  PROVE InStep(t)'
  <2>1. run'[t].pc = "idle"
    BY <1>10 DEF Replace, Idle
  <2>. QED  BY <2>1 DEF InStep, Joined
<1>. QED
  BY <1>2, <1>4, <1>5, <1>6, <1>7, <1>8, <1>9, <1>10 DEF Next, vars, Edit

\* What a check has read of the parquet is still the beginning of it.
LEMMA CheckReadsStep == TypeOK /\ Serially /\ [Next]_vars => CheckReads'
<1>. SUFFICES ASSUME TypeOK, Serially, [Next]_vars, serial',
                     NEW t \in Tools, At(t, "check", "ready")'
              PROVE  Prefix(run'[t].rows, parquet')
  BY DEF CheckReads
<1>1. serial /\ parquet \in Seq(Cells) /\ parquet' \in Seq(Cells) /\ Prefix(parquet, parquet')
  BY Growth, GrowthPrefix
<1>2. CASE run'[t].rows = run[t].rows /\ At(t, "check", "ready")
  <2>1. Prefix(run[t].rows, parquet)
    BY <1>1, <1>2 DEF Serially, CheckReads
  <2>2. run[t].rows \in Seq(Cells)
    BY DEF TypeOK, Run
  <2>. QED  BY <1>1, <1>2, <2>1, <2>2 DEF Prefix
<1>3. CASE BuildContext(t)
  <2>1. Goes(t, Idle) \/ Goes(t, [run[t] EXCEPT !.pc = "ready", !.rows = parquet])
    BY <1>3 DEF BuildContext, Fails
  <2>2. run'[t].pc = "ready"
    BY DEF At
  <2>3. Idle.pc = "idle" /\ [run[t] EXCEPT !.pc = "ready", !.rows = parquet].rows = parquet
    BY DEF Idle, TypeOK, Run
  <2>4. run'[t] = Idle \/ run'[t] = [run[t] EXCEPT !.pc = "ready", !.rows = parquet]
    BY <2>1, Elsewhere
  <2>5. run'[t].rows = parquet
    BY <2>2, <2>3, <2>4
  <2>. QED  BY <1>1, <2>5
<1>4. CASE \E u \in Tools : Replace(u)
  <2>1. PICK u \in Tools : Replace(u)
    BY <1>4
  <2>2. t # u
    BY <2>1 DEF Replace, At, Idle
  <2>3. run'[t] = [run[t] EXCEPT !.open = Moved(run[t].open)]
    BY <2>1, <2>2 DEF Replace
  <2>4. run'[t].pc = run[t].pc /\ run'[t].job = run[t].job /\ run'[t].rows = run[t].rows
    BY <2>3 DEF TypeOK, Run
  <2>. QED  BY <1>2, <2>4 DEF At
<1>5. CASE UNCHANGED run
  BY <1>2, <1>5 DEF At
<1>6. ASSUME NEW u \in Tools, NEW r, Goes(u, r), u # t \/ r.pc # "ready" \/ r.job # "check"
      PROVE  Prefix(run'[t].rows, parquet')
  BY <1>2, <1>6, Elsewhere DEF At
<1>7. ASSUME NEW u \in Tools, NEW f \in Files, StartCheck(u, f) \/ StartMerge(u, f)
      PROVE  Prefix(run'[t].rows, parquet')
  <2>1. /\ [Begins("check", f, "loaded") EXCEPT !.content = candidate[f]].pc = "loaded"
        /\ [Begins("merge", f, "read") EXCEPT !.content = candidate[f],
                                              !.clean = ~edited[f]].pc = "read"
    BY DEF Begins, Idle
  <2>. QED  BY <1>6, <1>7, <2>1 DEF StartCheck, StartMerge
<1>8. ASSUME NEW u \in Tools,
             EndCheck(u) \/ LoadExisting(u) \/ OpenTmp(u) \/ WriteTable(u)
             \/ ReplaceFails(u) \/ Crash(u)
      PROVE  Prefix(run'[t].rows, parquet')
  <2>1. /\ Idle.pc = "idle" /\ [run[u] EXCEPT !.pc = "joined", !.rows = parquet].pc = "joined"
        /\ [run[u] EXCEPT !.pc = "opened", !.open = "tmp"].pc = "opened"
        /\ [run[u] EXCEPT !.pc = "written"].pc = "written"
    BY DEF Idle, TypeOK, Run
  <2>2. \/ Goes(u, Idle) \/ Goes(u, [run[u] EXCEPT !.pc = "joined", !.rows = parquet])
        \/ Goes(u, [run[u] EXCEPT !.pc = "opened", !.open = "tmp"])
        \/ Goes(u, [run[u] EXCEPT !.pc = "written"])
    BY <1>8 DEF EndCheck, LoadExisting, OpenTmp, WriteTable, ReplaceFails, Crash, Fails
  <2>. QED  BY <1>6, <2>1, <2>2
<1>9. ASSUME NEW u \in Tools, BuildContext(u)  PROVE Prefix(run'[t].rows, parquet')
  <2>1. CASE u = t
    BY <1>3, <1>9, <2>1
  <2>2. CASE u # t
    BY <1>6, <1>9, <2>2 DEF BuildContext, Fails
  <2>. QED  BY <2>1, <2>2
<1>. QED
  BY <1>4, <1>5, <1>7, <1>8, <1>9 DEF Next, vars, Edit

LEMMA SeriallyStep == TypeOK /\ Serially /\ [Next]_vars => Serially'
<1>. SUFFICES ASSUME TypeOK, Serially, [Next]_vars  PROVE MergeInStep'
  BY OneMergeStep, CheckReadsStep DEF Serially
<1>1. ASSUME serial'  PROVE parquet' \in Seq(Cells)
  BY <1>1, GrowthPrefix
<1>2. ASSUME serial'  PROVE \A t \in Tools : InStep(t)'
  BY <1>2, InStepStep
<1>. QED  BY <1>1, <1>2 DEF MergeInStep, InStep

-----------------------------------------------------------------------------
(* Verdicts: from the check to the sidecar, from there to the merged rows. *)

Judged == SidecarOfSound /\ CleanIsSound /\ TrustedAreSound

\* What is good stays good, whatever is appended.
LEMMA GoodLasts ==
    ASSUME TypeOK, Serially, [Next]_vars, NEW c, Good(c)
    PROVE  Good(c)'
<1>1. ASSUME serial'  PROVE Sound(c, parquet')
  <2>1. serial /\ parquet \in Seq(Cells) /\ parquet' \in Seq(Cells) /\ Prefix(parquet, parquet')
    BY <1>1, Growth, GrowthPrefix
  <2>. QED  BY <2>1, SoundLasts DEF Good
<1>. QED  BY <1>1 DEF Good, Catalogued

\* A clean check judges by the rows it read, and its verdict holds of the rows
\* that are there when it writes it.
LEMMA CleanCheck ==
    ASSUME TypeOK, Serially, NEW t \in Tools, EndCheck(t), NEW day,
           ExitCode(run[t].content, run[t].rows, day) = 0
    PROVE  AllGood(run[t].content)
<1>. SUFFICES ASSUME NEW c \in Elements(run[t].content)  PROVE Good(c)
  BY DEF AllGood
<1>1. Sound(c, run[t].rows) /\ Catalogued(c)
  BY ExitZeroIsSound
<1>2. ASSUME serial  PROVE Sound(c, parquet)
  <2>1. parquet \in Seq(Cells) /\ run[t].rows \in Seq(Cells)
    BY <1>2 DEF Serially, MergeInStep, TypeOK, Run
  <2>2. Prefix(run[t].rows, parquet)
    BY <1>2 DEF Serially, CheckReads, EndCheck
  <2>. QED  BY <1>1, <2>1, <2>2, SoundLasts
<1>. QED  BY <1>1, <1>2 DEF Good

LEMMA SidecarStep == TypeOK /\ Serially /\ Judged /\ [Next]_vars => SidecarOfSound'
<1>. SUFFICES ASSUME TypeOK, Serially, Judged, [Next]_vars,
                     NEW f \in Files, sidecar'[f], ~edited'[f]
              PROVE  candidate'[f] # None /\ AllGood(candidate[f])'
  BY DEF SidecarOfSound
<1>1. CASE sidecar[f] /\ ~edited[f] /\ candidate'[f] = candidate[f]
  <2>1. candidate[f] # None /\ AllGood(candidate[f])
    BY <1>1 DEF Judged, SidecarOfSound
  <2>. QED  BY <1>1, <2>1, GoodLasts DEF AllGood
<1>2. ASSUME NEW t \in Tools, EndCheck(t)  PROVE candidate'[f] # None /\ AllGood(candidate[f])'
  <2>1. candidate' = candidate
    BY <1>2 DEF EndCheck
  <2>2. PICK day \in Days :
          IF ExitCode(run[t].content, run[t].rows, day) = 0
          THEN /\ sidecar' = [sidecar EXCEPT ![run[t].file] = TRUE]
               /\ edited' = [edited EXCEPT ![run[t].file] = candidate[run[t].file] # run[t].content]
          ELSE UNCHANGED <<sidecar, edited>>
    BY <1>2 DEF EndCheck
  <2>3. CASE ExitCode(run[t].content, run[t].rows, day) # 0 \/ run[t].file # f
    <3>1. sidecar'[f] = sidecar[f] /\ edited'[f] = edited[f]
      BY <2>2, <2>3 DEF TypeOK
    <3>. QED  BY <1>1, <2>1, <3>1
  <2>4. CASE ExitCode(run[t].content, run[t].rows, day) = 0 /\ run[t].file = f
    <3>1. candidate[f] = run[t].content
      BY <2>2, <2>4 DEF TypeOK
    <3>2. run[t].content \in Seq(Cells) /\ AllGood(run[t].content)
      BY <1>2, <2>4, CleanCheck DEF TypeOK, Run
    <3>. QED  BY <2>1, <3>1, <3>2, GoodLasts, Absent DEF AllGood
  <2>. QED  BY <2>3, <2>4
<1>3. ASSUME NEW g \in Files, NEW content \in Contents \cup {None}, Edit(g, content)
      PROVE  candidate'[f] # None /\ AllGood(candidate[f])'
  <2>1. f # g
    BY <1>3 DEF Edit, TypeOK
  <2>2. sidecar[f] /\ ~edited[f] /\ candidate'[f] = candidate[f]
    BY <1>3, <2>1 DEF Edit, TypeOK
  <2>. QED  BY <1>1, <2>2
<1>4. CASE UNCHANGED <<candidate, sidecar, edited>>
  BY <1>1, <1>4
<1>. QED
  BY <1>2, <1>3, <1>4 DEF Next, vars, StartCheck, StartMerge, BuildContext, LoadExisting, OpenTmp,
     WriteTable, Replace, ReplaceFails, Crash

LEMMA CleanStep == TypeOK /\ Serially /\ Judged /\ [Next]_vars => CleanIsSound'
<1>. SUFFICES ASSUME TypeOK, Serially, Judged, [Next]_vars,
                     NEW t \in Tools, Merging(t)', run'[t].clean
              PROVE  AllGood(run[t].content)'
  BY DEF CleanIsSound
<1>1. CASE Merging(t) /\ run'[t].clean = run[t].clean /\ run'[t].content = run[t].content
  BY <1>1, GoodLasts DEF Judged, CleanIsSound, AllGood
<1>2. ASSUME NEW u \in Tools, NEW r, Goes(u, r), u # t \/ r.pc \in {"idle", "loaded", "ready"}
      PROVE  AllGood(run[t].content)'
  BY <1>1, <1>2, Elsewhere DEF Merging
<1>3. ASSUME NEW f \in Files, StartMerge(t, f)  PROVE AllGood(run[t].content)'
  <2>. DEFINE r == [Begins("merge", f, "read") EXCEPT !.content = candidate[f],
                                                      !.clean = ~edited[f]]
  <2>1. r.content = candidate[f] /\ r.clean = ~edited[f]
    BY DEF Begins, Idle
  <2>2. run'[t] = r
    BY <1>3, Elsewhere DEF StartMerge
  <2>3. AllGood(candidate[f])
    BY <1>3, <2>1, <2>2 DEF StartMerge, Judged, SidecarOfSound
  <2>. QED  BY <2>1, <2>2, <2>3, GoodLasts DEF AllGood
<1>4. ASSUME NEW u \in Tools, NEW f \in Files, StartCheck(u, f) \/ (StartMerge(u, f) /\ u # t)
      PROVE  AllGood(run[t].content)'
  <2>1. [Begins("check", f, "loaded") EXCEPT !.content = candidate[f]].pc = "loaded"
    BY DEF Begins, Idle
  <2>. QED  BY <1>2, <1>4, <2>1 DEF StartCheck, StartMerge
<1>5. ASSUME NEW u \in Tools, BuildContext(u) \/ EndCheck(u) \/ ReplaceFails(u) \/ Crash(u)
      PROVE  AllGood(run[t].content)'
  <2>1. Idle.pc = "idle" /\ [run[u] EXCEPT !.pc = "ready", !.rows = parquet].pc = "ready"
    BY DEF Idle, TypeOK, Run
  <2>2. Goes(u, Idle) \/ Goes(u, [run[u] EXCEPT !.pc = "ready", !.rows = parquet])
    BY <1>5 DEF BuildContext, EndCheck, ReplaceFails, Crash, Fails
  <2>. QED  BY <1>2, <2>1, <2>2
<1>6. ASSUME NEW u \in Tools, LoadExisting(u) \/ OpenTmp(u) \/ WriteTable(u)
      PROVE  AllGood(run[t].content)'
  <2>1. \/ Goes(u, Idle) \/ Goes(u, [run[u] EXCEPT !.pc = "joined", !.rows = parquet])
        \/ Goes(u, [run[u] EXCEPT !.pc = "opened", !.open = "tmp"])
        \/ Goes(u, [run[u] EXCEPT !.pc = "written"])
    BY <1>6 DEF LoadExisting, OpenTmp, WriteTable, Fails
  <2>2. Merging(u)
    BY <1>6 DEF LoadExisting, OpenTmp, WriteTable, At, Merging
  <2>3. CASE Goes(u, Idle)
    BY <1>2, <2>3 DEF Idle
  <2>4. CASE u # t
    BY <1>2, <2>1, <2>4
  <2>5. ASSUME u = t, NEW r, Goes(u, r), r.content = run[u].content, r.clean = run[u].clean
        PROVE  AllGood(run[t].content)'
    BY <1>1, <2>2, <2>5, Elsewhere
  <2>6. \A r \in {[run[u] EXCEPT !.pc = "joined", !.rows = parquet],
                  [run[u] EXCEPT !.pc = "opened", !.open = "tmp"],
                  [run[u] EXCEPT !.pc = "written"]} :
            r.content = run[u].content /\ r.clean = run[u].clean
    BY DEF TypeOK, Run
  <2>. QED  BY <2>1, <2>3, <2>4, <2>5, <2>6
<1>7. ASSUME NEW u \in Tools, Replace(u)  PROVE AllGood(run[t].content)'
  <2>1. t # u
    BY <1>7 DEF Replace, Idle, Merging
  <2>2. run'[t] = [run[t] EXCEPT !.open = Moved(run[t].open)]
    BY <1>7, <2>1 DEF Replace
  <2>3. run[t] \in Run
    BY DEF TypeOK
  <2>4. run'[t].pc = run[t].pc /\ run'[t].content = run[t].content /\ run'[t].clean = run[t].clean
    BY <2>2, <2>3 DEF Run
  <2>. QED  BY <1>1, <2>4 DEF Merging
<1>8. CASE UNCHANGED run
  BY <1>1, <1>8 DEF Merging
<1>. QED
  BY <1>3, <1>4, <1>5, <1>6, <1>7, <1>8 DEF Next, vars, Edit

LEMMA TrustedStep == TypeOK /\ Serially /\ Judged /\ [Next]_vars => TrustedAreSound'
<1>. SUFFICES ASSUME TypeOK, Serially, Judged, [Next]_vars, NEW c \in trusted'
              PROVE  Good(c)'
  BY DEF TrustedAreSound
<1>1. CASE c \in trusted
  BY <1>1, GoodLasts DEF Judged, TrustedAreSound
<1>2. CASE c \notin trusted
  <2>1. PICK t \in Tools : /\ Replace(t) /\ run[t].clean
                           /\ c \in Elements(run[t].content)
    BY <1>2 DEF Next, vars, StartCheck, StartMerge, BuildContext, EndCheck, LoadExisting, OpenTmp,
       WriteTable, Replace, ReplaceFails, Crash, Edit
  <2>2. AllGood(run[t].content)
    BY <2>1 DEF Judged, CleanIsSound, Replace, At, Merging
  <2>. QED  BY <2>1, <2>2, GoodLasts DEF AllGood
<1>. QED  BY <1>1, <1>2

LEMMA JudgedStep == TypeOK /\ Serially /\ Judged /\ [Next]_vars => Judged'
BY SidecarStep, CleanStep, TrustedStep DEF Judged

-----------------------------------------------------------------------------
(* Rows that were reported merged, and the table of AnchorTable.           *)

LEMMA PrefixKeepsElements ==
    ASSUME NEW s \in Seq(Cells), NEW r \in Seq(Cells), Prefix(s, r)
    PROVE  Elements(s) \subseteq Elements(r)
<1>. SUFFICES ASSUME NEW i \in DOMAIN s  PROVE s[i] \in Elements(r)
  BY DEF Elements
<1>1. i \in 1..Len(s) /\ i \in DOMAIN r /\ r[i] = s[i]
  BY LenProperties DEF Prefix
<1>. QED  BY <1>1 DEF Elements

LEMMA AppendedAreElements ==
    ASSUME NEW s \in Seq(Cells), NEW r \in Seq(Cells)
    PROVE  Elements(r) \subseteq Elements(s \o r)
<1>. SUFFICES ASSUME NEW i \in DOMAIN r  PROVE r[i] \in Elements(s \o r)
  BY DEF Elements
<1>1. Len(s) \in Nat /\ Len(r) \in Nat /\ i \in 1..Len(r)
  BY LenProperties
<1>2. s \o r \in Seq(Cells) /\ Len(s \o r) = Len(s) + Len(r) /\ (s \o r)[Len(s) + i] = r[i]
  BY <1>1, ConcatProperties
<1>3. Len(s) + i \in DOMAIN (s \o r)
  BY <1>1, <1>2
<1>. QED  BY <1>2, <1>3 DEF Elements

\* The rows that were appended are the new end of the table.
LEMMA BatchIsTail ==
    ASSUME NEW s \in Seq(Cells), NEW r \in Seq(Cells)
    PROVE  SubSeq(s \o r, Len(s) + 1, Len(s \o r)) = r
<1>. DEFINE q == s \o r
            u == SubSeq(q, Len(s) + 1, Len(q))
<1>1. Len(s) \in Nat /\ Len(r) \in Nat /\ q \in Seq(Cells) /\ Len(q) = Len(s) + Len(r)
  BY ConcatProperties, LenProperties
<1>2. \A i \in 1..Len(r) : q[Len(s) + i] = r[i]
  BY ConcatProperties, <1>1
<1>. HIDE DEF q
<1>3. u \in Seq(Cells) /\ Len(u) = Len(r)
  BY <1>1, SubSeqProperties
<1>4. \A i \in 1..Len(r) : u[i] = q[Len(s) + i]
  BY <1>1, SubSeqProperties
<1>5. u = r
  BY <1>2, <1>3, <1>4, SeqEqual
<1>. QED  BY <1>5 DEF q

LEMMA MergedStep ==
    TypeOK /\ Serially /\ ExitZeroMeansMerged /\ [Next]_vars => ExitZeroMeansMerged'
<1>. SUFFICES ASSUME TypeOK, Serially, ExitZeroMeansMerged, [Next]_vars, serial'
              PROVE  reported' \subseteq Elements(parquet')
  BY DEF ExitZeroMeansMerged
<1>1. /\ parquet \in Seq(Cells) /\ parquet' \in Seq(Cells) /\ Prefix(parquet, parquet')
      /\ reported \subseteq Elements(parquet)
  BY Growth, GrowthPrefix DEF ExitZeroMeansMerged
<1>2. reported \subseteq Elements(parquet')
  BY <1>1, PrefixKeepsElements
<1>3. ASSUME NEW t \in Tools, Replace(t)
      PROVE  reported' \subseteq Elements(parquet')
  <2>1. Joined(t) /\ run[t].pc = "written" /\ run[t].content \in Seq(Cells)
    BY <1>3 DEF Replace, At, Joined, TypeOK, Run
  <2>2. parquet' = parquet \o run[t].content
    BY <1>3, <2>1, Growth DEF Serially, MergeInStep, Replace
  <2>3. Elements(run[t].content) \subseteq Elements(parquet')
    BY <1>1, <2>1, <2>2, AppendedAreElements
  <2>4. reported' = reported \cup Elements(run[t].content)
    BY <1>3 DEF Replace
  <2>. QED  BY <1>2, <2>3, <2>4
<1>4. CASE UNCHANGED reported
  BY <1>2, <1>4
<1>. QED
  BY <1>3, <1>4 DEF Next, vars, StartCheck, StartMerge, BuildContext, EndCheck, LoadExisting,
     OpenTmp, WriteTable, ReplaceFails, Crash, Edit

LEMMA TableStep == TypeOK /\ Serially /\ [Next]_vars => [Table!Next]_(Table!vars)
<1>. SUFFICES ASSUME TypeOK, Serially, [Next]_vars  PROVE [Table!Next]_(Table!vars)
  OBVIOUS
<1>1. CASE ~serial'
  <2>1. serial' = FALSE
    BY <1>1, TypeStep DEF TypeOK
  <2>. QED  BY <2>1 DEF Table!Next, Table!Forfeit
<1>2. CASE serial'
  <2>1. serial = TRUE /\ serial' = TRUE /\ parquet \in Seq(Cells)
    BY <1>2, Growth, TypeStep DEF TypeOK
  <2>2. CASE parquet' = parquet
    BY <2>1, <2>2 DEF Table!vars
  <2>3. CASE parquet' # parquet
    <3>1. PICK t \in Tools : /\ ~Conflict(run[t].content, parquet)
                             /\ parquet' = parquet \o run[t].content
      BY <1>2, <2>3, Growth
    <3>. DEFINE batch == run[t].content
    <3>2. batch \in Seq(Cells)
      BY DEF TypeOK, Run
    <3>3. SubSeq(parquet', Len(parquet) + 1, Len(parquet')) = batch
      BY <2>1, <3>1, <3>2, BatchIsTail
    <3>4. Table!Add(batch)
      BY <3>1 DEF Table!Add, Table!OpPoints, Conflict, OpPoints
    <3>5. Table!Grow
      BY <2>1, <3>3, <3>4 DEF Table!Grow
    <3>. QED  BY <3>5 DEF Table!Next
  <2>. QED  BY <2>2, <2>3
<1>. QED  BY <1>1, <1>2

-----------------------------------------------------------------------------

LEMMA InitIInv == Init => IInv
<1>. SUFFICES ASSUME Init  PROVE IInv  OBVIOUS
<1>1. \A t \in Tools : run[t].pc = "idle"
  BY DEF Init, Idle
<1>2. OneMerge /\ CheckReads /\ CleanIsSound
  BY <1>1 DEF OneMerge, CheckReads, CleanIsSound, Merging, At
<1>3. MergeInStep
  <2>1. parquet \in Seq(Cells)
    <3>1. <<>> \in Seq(Cells)  OBVIOUS
    <3>. QED  BY <3>1, CurationAssumption DEF Init
  <2>. QED  BY <1>1, <2>1 DEF Init, MergeInStep, Joined
<1>4. SidecarOfSound /\ TrustedAreSound /\ ExitZeroMeansMerged
  BY DEF Init, SidecarOfSound, TrustedAreSound, ExitZeroMeansMerged
<1>. QED  BY <1>2, <1>3, <1>4, InitType DEF IInv

LEMMA StepIInv == IInv /\ [Next]_vars => IInv'
BY TypeStep, SeriallyStep, JudgedStep, MergedStep DEF IInv, Serially, Judged

LEMMA Invariant == Spec => []IInv
BY InitIInv, StepIInv, PTL DEF Spec

\* Every variable keeps to its type; also with merges that overlap.
THEOREM TypeCorrect == Spec => []TypeOK
<1>1. IInv => TypeOK
  BY DEF IInv
<1>. QED  BY Invariant, <1>1, PTL

\* A verdict that a check gave lasts (sanity_check_cells.py:547-563): the cells
\* merged under it still pass beside whatever has been merged since.
THEOREM VerdictsLast == Spec => []AuditStands
<1>1. IInv => AuditStands
  BY DEF IInv, TrustedAreSound, Good, Sound, AuditStands
<1>. QED  BY Invariant, <1>1, PTL

\* What the heuristic check lets through (sanity_check_cells.py:421-484) is near
\* what the throughput estimator predicts, because they are one formula.
THEOREM AnchorsCredible == Spec => []AnchorsNearEstimate
<1>1. ASSUME TrustedAreSound, NEW c \in trusted, c.op.batch = 1,
             Models[c.op.model].active = None
      PROVE  LET est == Estimator!Throughput([params |-> Models[c.op.model].total],
                                             Gpus[c.op.gpu], Quants[c.op.quant], 1)
             IN est.score > 0 => /\ est.n <= 2 * (c.tps * est.d)
                                 /\ 2 * (c.tps * est.d) <= 3 * est.n
  <2>. DEFINE m == Models[c.op.model]
              g == Gpus[c.op.gpu]
              q == Quants[c.op.quant]
              est == Estimator!Throughput([params |-> m.total], g, q, 1)
  <2>. SUFFICES ASSUME est.score > 0
                PROVE  est.n <= 2 * (c.tps * est.d) /\ 2 * (c.tps * est.d) <= 3 * est.n
    OBVIOUS
  <2>1. m.total # None /\ g.bandwidth > 0
    BY DEF Estimator!Throughput, Estimator!NoThroughput
  <2>2. TrafficParams(m) = m.total
    BY <1>1 DEF TrafficParams
  <2>3. Catalogued(c)
    BY <1>1 DEF TrustedAreSound, Good
  <2>4. Predictable(c)
    BY <2>1, <2>2, <2>3 DEF Catalogued, Predictable
  <2>5. est.n = Predicted(c).n /\ est.d = Predicted(c).d
    BY <2>1, <2>2 DEF Estimator!Throughput, Estimator!Heuristic, Predicted
  <2>6. /\ Predicted(c).n <= 2 * (c.tps * Predicted(c).d)
        /\ 2 * (c.tps * Predicted(c).d) <= 3 * Predicted(c).n
    BY <1>1, <2>3, <2>4 DEF Catalogued, BandwidthHeuristic
  <2>. QED  BY <2>5, <2>6
<1>2. IInv => AnchorsNearEstimate
  BY <1>1 DEF IInv, AnchorsNearEstimate
<1>. QED  BY Invariant, <1>2, PTL

\* Exit code 0 of the merge tool (merge_candidate_to_parquet.py:144-151) means
\* that the candidate's rows are in the parquet, for good.
THEOREM MergedIsThere == Spec => []ExitZeroMeansMerged
<1>1. IInv => ExitZeroMeansMerged
  BY DEF IInv
<1>. QED  BY Invariant, <1>1, PTL

\* The two scripts implement AnchorTable, crashes included.
THEOREM TableIsKept == Spec => TableContract
<1>1. Init => Table!Init
  BY DEF Init, Table!Init
<1>2. IInv /\ [Next]_vars => [Table!Next]_(Table!vars)
  BY TableStep DEF IInv, Serially
<1>. QED  BY <1>1, <1>2, Invariant, PTL DEF Spec, TableContract, Table!Spec
=============================================================================
