-------------------------- MODULE ModelCatalogProofs --------------------------
(***************************************************************************)
(* For any slugs, repositories, seeds, commits and number of calls, the    *)
(* safety properties of the catalog: what is synced is what was asked,     *)
(* user_models.yaml holds only rows that synced, a synced model stays,     *)
(* a model is put beside the configuration it was made from, and commits   *)
(* only go back by a sync that was overtaken.                              *)
(***************************************************************************)
EXTENDS ModelCatalog, TLAPS, WellFoundedInduction

\* What a call is sure of at each of its places.
CallOK(c) ==
    /\ (res[c] = "resolved" \/ pc[c] = "persist") => got[c] = req[c].repo
    /\ pc[c] # "idle" => res[c] = "none"
    /\ pc[c] = "persist" => <<req[c].slug, req[c].repo>> \in synced

CallsOK == \A c \in Calls : CallOK(c)

FilesOK == RowsWereSynced /\ SyncedStaysOnDisk

IInv == TypeOK /\ CallsOK /\ FilesOK

\* The part of TypeOK that is about the calls.
CallsTyped ==
    /\ pc \in [Calls -> Control] /\ req \in [Calls -> Request \cup {NoRequest}]
    /\ sha \in [Calls -> Rev \cup {0}]
    /\ rows \in [Calls -> [Slugs -> Repos \cup {None}]]
    /\ got \in [Calls -> Repos \cup {None}] /\ res \in [Calls -> Ending]
    /\ \A c \in Calls : pc[c] \in {"info", "config", "parse", "persist"}
                         => req[c] \in Request /\ req[c].repo \in Repos
    /\ \A c \in Calls : pc[c] \in {"info", "config", "parse"} => sha[c] # 0

\* ... and the part that is about the files.
FilesTyped ==
    /\ rev \in [Repos -> Rev]
    /\ model \in [Slugs -> Model \cup {NoModel}]
    /\ config \in [Slugs -> ConfigFile \cup {NoConfigFile}]
    /\ yaml \in [Slugs -> Repos \cup {None}] 
    /\ synced \subseteq Slugs \X Repos

LEMMA TypeParts == TypeOK <=> CallsTyped /\ FilesTyped /\ lapped \subseteq Calls /\ crossed \subseteq Calls
BY DEF TypeOK, CallsTyped, FilesTyped

\* The absent model is no model, and a model names a repository.
LEMMA Absence ==
    /\ NoModel \notin Model /\ NoRequest \notin Request
    /\ \A m \in Model \cup {NoModel} : m # NoModel => m \in Model
    /\ \A m \in Model \cup {NoModel} : m.repo \in Repos => m \in Model
BY CatalogAssumption DEF Model, NoModel, Request, NoRequest

LEMMA MergedType ==
    TypeOK => \A parses \in BOOLEAN : Merged(parses) \in [Slugs -> Repos \cup {None}]
BY CatalogAssumption DEF TypeOK, Merged

LEMMA RowType ==
    \A k \in {"tool", "resolve", "prefetch"}, s \in Slugs, r \in Repos \cup {None} :
        Row(k, s, r) \in Request /\ Row(k, s, r).slug = s /\ Row(k, s, r).repo = r
BY DEF Row, Request

\* The endings that are not a model.
LEMMA Endings ==
    /\ {"none", "failed", "sync_failed", "exit_0"} \subseteq Ending \ {"resolved"}
    /\ \A why \in Failure : {Status(why), Exit(why)} \subseteq Ending \ {"resolved"}
    /\ {"client_error", "os_error", "value_error"} \subseteq Failure
BY DEF Ending, Failure, ConfigFailure, Status, Exit

LEMMA InitIInv == Init => IInv
<1>. SUFFICES ASSUME Init  PROVE IInv  OBVIOUS
<1>1. TypeOK
  <2>1. 1 \in Rev  BY CatalogAssumption DEF Rev
  <2>2. Nothing \in [Slugs -> Repos \cup {None}]  BY DEF Nothing
  <2>. QED  BY <2>1, <2>2 DEF Init, TypeOK, Control, Ending
<1>2. CallsOK
  BY DEF Init, CallsOK, CallOK
<1>3. RowsWereSynced /\ SyncedStaysOnDisk
  BY DEF Init, RowsWereSynced, SyncedStaysOnDisk, Nothing
<1>. QED  BY <1>1, <1>2, <1>3 DEF IInv, FilesOK

-----------------------------------------------------------------------------
(* Ending a call, going on to the next row, and what a sync does for each   *)
(* of its callers, while the files of the catalog only grow.                *)

\* The variables of one call, changed in no other way than Answer does.
LEMMA AnswerKeeps ==
    ASSUME IInv, NEW c \in Calls, NEW how \in Ending,
           NEW row \in Request \cup {NoRequest}, NEW r \in Repos \cup {None},
           Answer(c, how, row, r), how = "resolved" => r = row.repo,
           synced \subseteq synced'
    PROVE  CallsTyped' /\ CallsOK'
<1>1. TypeOK /\ CallsOK  BY DEF IInv
<1>2. Nothing \in [Slugs -> Repos \cup {None}]  BY DEF Nothing
<1>3. \A d \in Calls : pc[d] \in {"config", "parse"} => req[d].slug \in Slugs
  BY <1>1 DEF TypeOK, Request
<1>4. CallOK(c)'  BY <1>1 DEF TypeOK, Answer, Goto, CallOK
<1>5. \A d \in Calls \ {c} : CallOK(d)'
  BY <1>1, <1>3 DEF TypeOK, Answer, Goto, CallsOK, CallOK
<1>6. CallsOK'  BY <1>4, <1>5 DEF CallsOK
<1>. QED  BY <1>1, <1>2, <1>6 DEF TypeOK, CallsTyped, Answer, Goto, Control

LEMMA NextRowKeeps ==
    ASSUME IInv, NEW c \in Calls, NextRow(c), pc[c] # "idle",
           synced \subseteq synced'
    PROVE  CallsTyped' /\ CallsOK'
<1>1. TypeOK /\ CallsOK  BY DEF IInv
<1>3. \A d \in Calls : pc[d] \in {"config", "parse"} => req[d].slug \in Slugs
  BY <1>1 DEF TypeOK, Request
<1>4. CallOK(c)'  BY <1>1 DEF TypeOK, NextRow, Goto, CallOK, CallsOK
<1>5. \A d \in Calls \ {c} : CallOK(d)'
  BY <1>1, <1>3 DEF TypeOK, NextRow, Goto, CallsOK, CallOK
<1>6. CallsOK'  BY <1>4, <1>5 DEF CallsOK
<1>. QED  BY <1>1, <1>6 DEF TypeOK, CallsTyped, NextRow, Goto, Control

\* A call ends without a model.
LEMMA EndKeeps ==
    ASSUME IInv, NEW c \in Calls, NEW how \in Ending \ {"resolved"}, End(c, how),
           synced \subseteq synced'
    PROVE  CallsTyped' /\ CallsOK'
BY AnswerKeeps DEF End

\* A sync that is over, and came by a model of the repository it asked for ...
LEMMA SyncReturnsKeeps ==
    ASSUME IInv, NEW c \in Calls, pc[c] \in {"info", "config", "parse"},
           NEW m \in Model, m.repo = req[c].repo, SyncReturns(c, m)
    PROVE  CallsTyped' /\ CallsOK'
<1>1. TypeOK /\ CallsOK /\ synced \subseteq synced'  BY DEF IInv, SyncReturns
<1>2. req[c] \in Request /\ m.repo \in Repos  BY <1>1 DEF TypeOK, Model
<1>3. CASE req[c].kind = "tool"
  BY <1>1, <1>2, <1>3, AnswerKeeps DEF SyncReturns, Ending
<1>4. CASE req[c].kind = "prefetch"
  BY <1>1, <1>2, <1>4, NextRowKeeps DEF SyncReturns
<1>5. CASE req[c].kind = "resolve"
  <2>0. /\ pc' = [pc EXCEPT ![c] = "persist"] /\ got' = [got EXCEPT ![c] = m.repo]
        /\ sha' = [sha EXCEPT ![c] = 0] /\ UNCHANGED <<req, res, rows>>
        /\ synced' = synced \cup {<<req[c].slug, req[c].repo>>}
    BY <1>5 DEF SyncReturns, Goto
  <2>. USE <1>1, <1>2, <2>0
  <2>1. CallsTyped'
    <3>1. pc' \in [Calls -> Control] /\ got' \in [Calls -> Repos \cup {None}]
          /\ sha' \in [Calls -> Rev \cup {0}]
      BY DEF TypeOK, Control
    <3>2. \A d \in Calls : pc'[d] \in {"info", "config", "parse", "persist"}
                           => req'[d] \in Request /\ req'[d].repo \in Repos
      BY DEF TypeOK
    <3>3. \A d \in Calls : pc'[d] \in {"info", "config", "parse"} => sha'[d] # 0
      BY DEF TypeOK
    <3>. QED  BY <3>1, <3>2, <3>3 DEF TypeOK, CallsTyped
  <2>2. CallOK(c)'  BY DEF TypeOK, CallsOK, CallOK
  <2>3. \A d \in Calls \ {c} : CallOK(d)'  BY DEF TypeOK, CallsOK, CallOK, Request
  <2>. QED  BY <2>1, <2>2, <2>3 DEF CallsOK
<1>. QED  BY <1>2, <1>3, <1>4, <1>5 DEF Request

\* ... or did not.
LEMMA SyncRaisesKeeps ==
    ASSUME IInv, NEW c \in Calls, pc[c] # "idle", NEW why \in Failure, SyncRaises(c, why)
    PROVE  CallsTyped' /\ CallsOK' /\ synced' = synced
<1>1. synced' = synced /\ synced \subseteq synced'  BY DEF SyncRaises
<1>2. CASE NextRow(c)  BY <1>1, <1>2, NextRowKeeps
<1>3. ASSUME NEW how \in Ending \ {"resolved"}, End(c, how)
      PROVE  CallsTyped' /\ CallsOK'
  BY <1>1, <1>3, EndKeeps
<1>. QED  BY <1>1, <1>2, <1>3, Endings DEF SyncRaises

\* A sync starts.
LEMMA StartSyncKeeps ==
    ASSUME IInv, NEW c \in Calls, NEW row \in Request, row.repo \in Repos,
           StartSync(c, row), res' \in [Calls -> Ending], res'[c] = "none",
           \A d \in Calls \ {c} : res'[d] = res[d],
           rows' \in [Calls -> [Slugs -> Repos \cup {None}]], UNCHANGED synced
    PROVE  CallsTyped' /\ CallsOK'
<1>1. TypeOK /\ CallsOK  BY DEF IInv
<1>. USE <1>1 DEF StartSync, Goto
<1>0. rev[row.repo] \in Rev /\ rev[row.repo] # 0
  BY CatalogAssumption DEF TypeOK, Rev
<1>2. CallsTyped'  BY <1>0 DEF TypeOK, CallsTyped, Control
<1>3. CallsOK'  BY DEF TypeOK, CallsOK, CallOK
<1>. QED  BY <1>2, <1>3

-----------------------------------------------------------------------------
(* The files.                                                               *)

LEMMA SameFiles ==
    ASSUME IInv, UNCHANGED <<rev, files, synced>>
    PROVE  FilesTyped' /\ FilesOK'
BY TypeParts DEF IInv, files, FilesTyped, FilesOK, RowsWereSynced, SyncedStaysOnDisk

\* The pair a sync returned a model for is recorded; that model is on disk.
LEMMA SyncedGrows ==
    ASSUME IInv, NEW c \in Calls, pc[c] \in {"info", "config", "parse"},
           synced' = synced \cup {<<req[c].slug, req[c].repo>>}, UNCHANGED yaml,
           \A s \in Slugs : model[s] # NoModel => model'[s] # NoModel,
           model'[req[c].slug] # NoModel
    PROVE  synced' \subseteq Slugs \X Repos /\ RowsWereSynced' /\ SyncedStaysOnDisk'
<1>1. req[c].slug \in Slugs /\ req[c].repo \in Repos  BY DEF IInv, TypeOK, Request
<1>2. synced' \subseteq Slugs \X Repos  BY <1>1 DEF IInv, TypeOK
<1>3. RowsWereSynced'  BY DEF IInv, FilesOK, RowsWereSynced
<1>4. SyncedStaysOnDisk'
  <2>. SUFFICES ASSUME NEW p \in synced'  PROVE model'[p[1]] # NoModel
    BY DEF SyncedStaysOnDisk
  <2>1. CASE p \in synced
    <3>1. p[1] \in Slugs  BY <2>1 DEF IInv, TypeOK
    <3>. QED  BY <2>1, <3>1 DEF IInv, FilesOK, SyncedStaysOnDisk
  <2>2. CASE p = <<req[c].slug, req[c].repo>>  BY <2>2
  <2>. QED  BY <2>1, <2>2
<1>. QED  BY <1>2, <1>3, <1>4

LEMMA IInvPrimed ==
    ASSUME CallsTyped', CallsOK', FilesTyped', FilesOK', (lapped \subseteq Calls /\ crossed \subseteq Calls)'
    PROVE  IInv'
BY DEF IInv, TypeOK, CallsTyped, FilesTyped

-----------------------------------------------------------------------------
(* The actions.                                                             *)

LEMMA CallingKeeps ==
    ASSUME IInv, NEW c \in Calls, Calling(c), Overtakes(c)
    PROVE  IInv'
<1>. TypeOK /\ CallsOK /\ FilesOK  BY DEF IInv
<1>. SUFFICES CallsTyped' /\ CallsOK' /\ FilesTyped' /\ FilesOK'
  BY IInvPrimed DEF Overtakes
<1>1. ASSUME NEW s \in Slugs, ToolCached(c, s)
      PROVE  CallsTyped' /\ CallsOK' /\ FilesTyped' /\ FilesOK'
  <2>1. Row("tool", s, None) \in Request /\ model[s].repo \in Repos \cup {None}
    BY RowType DEF TypeOK, Model, NoModel
  <2>. QED  BY <1>1, <2>1, AnswerKeeps, SameFiles DEF ToolCached, files, Ending
<1>2. ASSUME NEW s \in Slugs, ToolLazySync(c, s)
      PROVE  CallsTyped' /\ CallsOK' /\ FilesTyped' /\ FilesOK'
  <2>1. PICK row \in Request : row.repo \in Repos /\ StartSync(c, row)
    <3>1. PICK parses \in BOOLEAN : Merged(parses)[s] # None
                                     /\ StartSync(c, Row("tool", s, Merged(parses)[s]))
      BY <1>2 DEF ToolLazySync
    <3>2. Merged(parses)[s] \in Repos  BY <3>1, MergedType
    <3>. QED  BY <3>1, <3>2, RowType
  <2>2. /\ res' \in [Calls -> Ending] /\ res'[c] = "none"
        /\ \A d \in Calls \ {c} : res'[d] = res[d]
        /\ rows' \in [Calls -> [Slugs -> Repos \cup {None}]]
    BY <1>2 DEF ToolLazySync, TypeOK, Ending
  <2>. QED  BY <1>2, <2>1, <2>2, StartSyncKeeps, SameFiles DEF ToolLazySync, files
<1>3. ASSUME NEW s \in Slugs, ToolUnknown(c, s)
      PROVE  CallsTyped' /\ CallsOK' /\ FilesTyped' /\ FilesOK'
  BY <1>3, Endings, EndKeeps, SameFiles DEF ToolUnknown, files
<1>4. ASSUME NEW s \in Slugs, NEW r \in Repos, Resolve(c, s, r)
      PROVE  CallsTyped' /\ CallsOK' /\ FilesTyped' /\ FilesOK'
  <2>1. Row("resolve", s, r) \in Request /\ Row("resolve", s, r).repo = r
    BY RowType
  <2>2. /\ res' \in [Calls -> Ending] /\ res'[c] = "none"
        /\ \A d \in Calls \ {c} : res'[d] = res[d]
        /\ rows' \in [Calls -> [Slugs -> Repos \cup {None}]]
    BY <1>4 DEF Resolve, TypeOK, Ending
  <2>. QED  BY <1>4, <2>1, <2>2, StartSyncKeeps, SameFiles DEF Resolve, files
<1>5. CASE Persist(c)
  <2>. USE <1>5 DEF Persist
  <2>1. req[c] \in Request /\ req[c].slug \in Slugs /\ req[c].repo \in Repos
    BY DEF TypeOK, Request
  <2>2. got[c] \in Repos \cup {None} /\ got[c] = req[c].repo
    BY DEF TypeOK, CallsOK, CallOK
  <2>3. CallsTyped' /\ CallsOK'  BY <2>1, <2>2, AnswerKeeps DEF Ending
  <2>4. FilesTyped'  BY <2>1 DEF TypeOK, FilesTyped
  <2>5. <<req[c].slug, req[c].repo>> \in synced  BY DEF CallsOK, CallOK
  <2>6. RowsWereSynced'  BY <2>1, <2>5 DEF TypeOK, FilesOK, RowsWereSynced
  <2>7. SyncedStaysOnDisk'  BY DEF FilesOK, SyncedStaysOnDisk
  <2>. QED  BY <2>3, <2>4, <2>6, <2>7 DEF FilesOK
<1>6. CASE PersistFails(c)
  BY <1>6, Endings, EndKeeps, SameFiles DEF PersistFails, files
<1>7. CASE Prefetch(c)
  <2>1. /\ rows' = [rows EXCEPT ![c] = Merged(TRUE)] /\ pc' = [pc EXCEPT ![c] = "next"]
        /\ got' = [got EXCEPT ![c] = None] /\ res' = [res EXCEPT ![c] = "none"]
        /\ req' = [req EXCEPT ![c] = NoRequest] /\ UNCHANGED <<sha, rev, files, synced>>
    BY <1>7 DEF Prefetch, Goto
  <2>2. CallsTyped'
    <3>1. pc' \in [Calls -> Control] /\ res' \in [Calls -> Ending]
      BY <2>1 DEF TypeOK, Control, Ending
    <3>2. rows' \in [Calls -> [Slugs -> Repos \cup {None}]]
      BY <2>1, MergedType DEF TypeOK
    <3>. QED  BY <2>1, <3>1, <3>2 DEF TypeOK, CallsTyped
  <2>3. CallsOK'  BY <2>1 DEF TypeOK, CallsOK, CallOK, files
  <2>. QED  BY <2>1, <2>2, <2>3, SameFiles
<1>8. CASE PrefetchSynced(c)
  <2>1. CallsTyped'
    BY <1>8 DEF PrefetchSynced, Goto, TypeOK, CallsTyped, Control
  <2>2. CallsOK'
    BY <1>8 DEF PrefetchSynced, Goto, TypeOK, CallsOK, CallOK, files
  <2>. QED  BY <1>8, <2>1, <2>2, SameFiles DEF PrefetchSynced
<1>9. ASSUME NEW s \in Slugs, PrefetchRow(c, s)
      PROVE  CallsTyped' /\ CallsOK' /\ FilesTyped' /\ FilesOK'
  <2>1. rows[c][s] \in Repos /\ Row("prefetch", s, rows[c][s]) \in Request
        /\ Row("prefetch", s, rows[c][s]).repo = rows[c][s]
    BY <1>9, RowType DEF PrefetchRow, TypeOK
  <2>2. /\ res' \in [Calls -> Ending] /\ res'[c] = "none"
        /\ \A d \in Calls \ {c} : res'[d] = res[d]
    BY <1>9 DEF PrefetchRow, TypeOK, CallsOK, CallOK
  <2>3. rows' \in [Calls -> [Slugs -> Repos \cup {None}]]
    <3>1. rows[c] \in [Slugs -> Repos \cup {None}]  BY DEF TypeOK
    <3>2. [rows[c] EXCEPT ![s] = None] \in [Slugs -> Repos \cup {None}]  BY <3>1
    <3>. QED  BY <1>9, <3>2 DEF PrefetchRow, TypeOK
  <2>. QED  BY <1>9, <2>1, <2>2, <2>3, StartSyncKeeps, SameFiles DEF PrefetchRow, files
<1>10. ASSUME ResolveMalformed(c) \/ PrefetchFails(c) \/ Warm(c)
       PROVE  CallsTyped' /\ CallsOK' /\ FilesTyped' /\ FilesOK'
  <2>1. PICK how \in Ending \ {"resolved"} : End(c, how)
    BY <1>10, Endings DEF ResolveMalformed, PrefetchFails, Warm
  <2>2. UNCHANGED <<rev, files, synced>>
    BY <1>10 DEF ResolveMalformed, PrefetchFails, Warm
  <2>. QED  BY <2>1, <2>2, EndKeeps, SameFiles DEF files
<1>. QED
  BY <1>1, <1>2, <1>3, <1>4, <1>5, <1>6, <1>7, <1>8, <1>9, <1>10 DEF Calling

\* What Cached gives: a model of the repository asked for.
LEMMA CachedIsModel ==
    ASSUME TypeOK, NEW c \in Calls, pc[c] \in {"info", "config"}, Cached(c)
    PROVE  /\ model[req[c].slug] \in Model /\ model[req[c].slug] # NoModel
           /\ model[req[c].slug].repo = req[c].repo
<1>1. req[c].slug \in Slugs /\ req[c].repo \in Repos  BY DEF TypeOK, Request
<1>2. model[req[c].slug] \in Model \cup {NoModel}  BY <1>1 DEF TypeOK
<1>. QED  BY <1>1, <1>2, Absence DEF Cached

\* A response names one of the commits there are, none older than the head at the
\* time of asking.
LEMMA HeadsType ==
    ASSUME TypeOK, NEW c \in Calls, pc[c] = "info", NEW v \in Heads(c)
    PROVE  v \in Rev /\ v # 0 /\ sha[c] <= v /\ v <= rev[req[c].repo]
<1>1. sha[c] \in Rev /\ rev[req[c].repo] \in Rev  BY DEF TypeOK
<1>. QED  BY <1>1, CatalogAssumption DEF Heads, Rev

LEMMA SyncingKeeps ==
    ASSUME IInv, NEW c \in Calls, Syncing(c), Overtakes(c)
    PROVE  IInv'
<1>. TypeOK /\ CallsOK /\ FilesOK /\ FilesTyped  BY TypeParts DEF IInv
<1>. SUFFICES CallsTyped' /\ CallsOK' /\ FilesTyped' /\ FilesOK'
  BY IInvPrimed DEF Overtakes
<1>0. pc[c] # "idle" /\ pc[c] \in {"info", "config", "parse"}
      => req[c] \in Request /\ req[c].slug \in Slugs /\ req[c].repo \in Repos
  BY DEF TypeOK, Request
<1>1. CASE InfoAnswer(c)
  <2>. USE <1>1 DEF InfoAnswer, files
  <2>0. PICK v \in Heads(c) :
           IF CachedAt(c, v)
           THEN SyncReturns(c, model[req[c].slug])
           ELSE /\ Goto(c, "config") /\ sha' = [sha EXCEPT ![c] = v]
                /\ UNCHANGED <<req, rows, got, res, synced>>
    OBVIOUS
  <2>2. v \in Rev /\ v # 0  BY HeadsType
  <2>3. CASE CachedAt(c, v)
    <3>1. SyncReturns(c, model[req[c].slug])  BY <2>0, <2>3
    <3>2. model[req[c].slug] \in Model /\ model[req[c].slug] # NoModel
          /\ model[req[c].slug].repo = req[c].repo
      BY <2>3, CachedIsModel DEF CachedAt
    <3>3. CallsTyped' /\ CallsOK'  BY <3>1, <3>2, SyncReturnsKeeps
    <3>4. synced' \subseteq Slugs \X Repos /\ RowsWereSynced' /\ SyncedStaysOnDisk'
      BY <3>1, <3>2, SyncedGrows DEF SyncReturns
    <3>. QED  BY <3>3, <3>4 DEF FilesTyped, FilesOK
  <2>4. CASE ~CachedAt(c, v)
    <3>0. /\ pc[c] = "info" /\ UNCHANGED files
          /\ pc' = [pc EXCEPT ![c] = "config"] /\ sha' = [sha EXCEPT ![c] = v]
          /\ UNCHANGED <<rev, req, rows, got, res, synced>>
      BY <2>0, <2>4 DEF Goto
    <3>. USE <3>0
    <3>1. CallsTyped'
      <4>1. pc' \in [Calls -> Control] /\ sha' \in [Calls -> Rev \cup {0}]
        <5>1. "config" \in Control  BY DEF Control
        <5>2. pc \in [Calls -> Control] /\ sha \in [Calls -> Rev \cup {0}]
          BY DEF TypeOK
        <5>. HIDE <1>1
        <5>. QED  BY <2>2, <5>1, <5>2, <3>0
      <4>2. \A d \in Calls : pc'[d] \in {"info", "config", "parse", "persist"}
                             => req'[d] \in Request /\ req'[d].repo \in Repos
        BY DEF TypeOK
      <4>3. \A d \in Calls : pc'[d] \in {"info", "config", "parse"} => sha'[d] # 0
        BY <2>2 DEF TypeOK
      <4>. QED  BY <4>1, <4>2, <4>3 DEF TypeOK, CallsTyped
    <3>2. CallsOK'
      <4>1. CallOK(c)'  BY DEF TypeOK, CallsOK, CallOK
      <4>2. \A d \in Calls \ {c} : CallOK(d)'
        BY DEF TypeOK, CallsOK, CallOK, Request
      <4>. QED  BY <4>1, <4>2 DEF CallsOK
    <3>3. RowsWereSynced' /\ SyncedStaysOnDisk'
      BY DEF FilesOK, RowsWereSynced, SyncedStaysOnDisk
    <3>. QED  BY <3>1, <3>2, <3>3 DEF FilesTyped, FilesOK
  <2>. QED  BY <2>3, <2>4
<1>2. CASE InfoMalformed(c)
  <2>1. CallsTyped' /\ CallsOK' /\ synced' = synced
    BY <1>2, SyncRaisesKeeps, Endings DEF InfoMalformed
  <2>. QED  BY <1>2, <2>1, SameFiles DEF InfoMalformed
<1>3. CASE Denied(c)
  <2>1. PICK why \in Failure : SyncRaises(c, why)
    BY <1>3 DEF Denied, Failure
  <2>2. CallsTyped' /\ CallsOK' /\ synced' = synced
    BY <1>3, <2>1, SyncRaisesKeeps DEF Denied, files
  <2>. QED  BY <1>3, <2>2, SameFiles DEF Denied
<1>4. CASE Unreachable(c)
  <2>. USE <1>4 DEF Unreachable, files
  <2>1. CASE Cached(c)
    <3>1. SyncReturns(c, model[req[c].slug])  BY <2>1
    <3>2. model[req[c].slug] \in Model /\ model[req[c].slug] # NoModel
          /\ model[req[c].slug].repo = req[c].repo
      BY <2>1, CachedIsModel
    <3>3. CallsTyped' /\ CallsOK'  BY <3>1, <3>2, SyncReturnsKeeps
    <3>4. synced' \subseteq Slugs \X Repos /\ RowsWereSynced' /\ SyncedStaysOnDisk'
      BY <3>1, <3>2, SyncedGrows DEF SyncReturns
    <3>. QED  BY <3>3, <3>4 DEF FilesTyped, FilesOK
  <2>2. CASE ~Cached(c)
    <3>1. CallsTyped' /\ CallsOK' /\ synced' = synced
      BY <2>2, SyncRaisesKeeps DEF Failure
    <3>. QED  BY <3>1, SameFiles
  <2>. QED  BY <2>1, <2>2
<1>5. CASE ConfigAnswer(c)
  <2>. USE <1>5 DEF ConfigAnswer, Goto
  <2>1. config' \in [Slugs -> ConfigFile \cup {NoConfigFile}]
    <3>1. Asked(c) \in ConfigFile  BY <1>0 DEF TypeOK, Asked, ConfigFile
    <3>. QED  BY <3>1 DEF TypeOK
  <2>2. CallsTyped'  BY DEF TypeOK, CallsTyped, Control
  <2>3. CallsOK'
    <3>1. CallOK(c)'  BY <1>0 DEF TypeOK, CallsOK, CallOK
    <3>2. \A d \in Calls \ {c} : CallOK(d)'
      BY DEF TypeOK, CallsOK, CallOK, Request
    <3>. QED  BY <3>1, <3>2 DEF CallsOK
  <2>. QED
    BY <2>1, <2>2, <2>3 DEF FilesTyped, FilesOK, RowsWereSynced, SyncedStaysOnDisk
<1>6. CASE Reject(c)
  <2>. PICK why \in Failure : SyncRaises(c, why)
    BY <1>6, ConfigsAssumption DEF Reject, Failure
  <2>1. CallsTyped' /\ CallsOK' /\ synced' = synced
    BY <1>6, SyncRaisesKeeps DEF Reject, files
  <2>. QED  BY <1>6, <2>1, SameFiles DEF Reject
<1>7. CASE WriteModel(c)
  <2>. DEFINE m == NewModel(c)
  <2>. USE <1>7 DEF WriteModel
  <2>1. req[c] \in Request /\ req[c].slug \in Slugs /\ req[c].repo \in Repos
    BY <1>0
  <2>2. sha[c] \in Rev  BY DEF TypeOK
  <2>3. m \in Model /\ m.repo = req[c].repo /\ m # NoModel
    BY <2>1, <2>2, Absence DEF Model, Request, NewModel
  <2>4. SyncReturns(c, m) /\ model' = [model EXCEPT ![req[c].slug] = m]  OBVIOUS
  <2>. HIDE DEF m
  <2>5. CallsTyped' /\ CallsOK'  BY <2>3, <2>4, SyncReturnsKeeps
  <2>6. model' \in [Slugs -> Model \cup {NoModel}]  BY <2>3, <2>4 DEF TypeOK
  <2>7. model'[req[c].slug] # NoModel
        /\ \A s \in Slugs : model[s] # NoModel => model'[s] # NoModel
    BY <2>1, <2>3, <2>4 DEF TypeOK
  <2>8. synced' \subseteq Slugs \X Repos /\ RowsWereSynced' /\ SyncedStaysOnDisk'
    BY <2>4, <2>7, SyncedGrows DEF SyncReturns
  <2>. QED  BY <2>5, <2>6, <2>8 DEF FilesTyped, FilesOK
<1>8. CASE DiskError(c)
  <2>1. CallsTyped' /\ CallsOK' /\ synced' = synced
    BY <1>8, SyncRaisesKeeps DEF DiskError, files, Failure
  <2>. QED  BY <1>8, <2>1, SameFiles DEF DiskError
<1>. QED
  BY <1>1, <1>2, <1>3, <1>4, <1>5, <1>6, <1>7, <1>8 DEF Syncing

LEMMA NextKeeps == IInv /\ [Next]_vars => IInv'
<1>. SUFFICES ASSUME IInv, [Next]_vars  PROVE IInv'  OBVIOUS
<1>1. ASSUME NEW c \in Calls, Calling(c), Overtakes(c)  PROVE IInv'
  BY <1>1, CallingKeeps
<1>2. ASSUME NEW c \in Calls, Syncing(c), Overtakes(c)  PROVE IInv'
  BY <1>2, SyncingKeeps
<1>3. ASSUME NEW c \in Calls, Crash(c), Overtakes(c)  PROVE IInv'
  <2>1. (lapped \subseteq Calls /\ crossed \subseteq Calls)'  BY <1>3 DEF Overtakes
  <2>. QED  BY <1>3, <2>1, Endings, EndKeeps, SameFiles, IInvPrimed DEF Crash, files
<1>4. ASSUME NEW r \in Moving, Push(r)  PROVE IInv'
  <2>1. r \in Repos /\ rev[r] + 1 \in Rev
    BY <1>4, CatalogAssumption DEF Push, IInv, TypeOK, Rev
  <2>2. TypeOK'  BY <1>4, <2>1 DEF Push, files, IInv, TypeOK
  <2>. QED
    BY <1>4, <2>2 DEF Push, files, IInv, CallsOK, CallOK, FilesOK, RowsWereSynced,
       SyncedStaysOnDisk
<1>5. CASE UNCHANGED vars
  BY <1>5 DEF vars, files, IInv, TypeOK, CallsOK, CallOK, FilesOK, RowsWereSynced,
     SyncedStaysOnDisk
<1>. QED  BY <1>1, <1>2, <1>3, <1>4, <1>5 DEF Next

LEMMA Invariance == Spec => []IInv
<1>. QED  BY InitIInv, NextKeeps, PTL DEF Spec

\* The types, for every value of the constants.
THEOREM TypeCorrect == Spec => []TypeOK
<1>1. IInv => TypeOK  BY DEF IInv
<1>. QED  BY <1>1, Invariance, PTL

\* hf_sync.py:487-495 and 525-531: the repository checks of the two cache reads
\* are enough, however calls overlap and slugs are re-pointed.
THEOREM NeverAnotherRepository == Spec => []SyncedIsAsked
<1>1. IInv => SyncedIsAsked  BY DEF IInv, CallsOK, CallOK, SyncedIsAsked
<1>. QED  BY <1>1, Invariance, PTL

\* dispatch.py:180-187: syncing first and persisting after keeps every row of
\* user_models.yaml one that has synced.
THEOREM OnlySyncedRows == Spec => []RowsWereSynced
<1>1. IInv => RowsWereSynced  BY DEF IInv, FilesOK
<1>. QED  BY <1>1, Invariance, PTL

\* A slug once synced has a model for every later tool call.
THEOREM SyncedIsKept == Spec => []SyncedStaysOnDisk
<1>1. IInv => SyncedStaysOnDisk  BY DEF IInv, FilesOK
<1>. QED  BY <1>1, Invariance, PTL

-----------------------------------------------------------------------------
(* Commits on disk.                                                         *)

Asking == {"info", "config", "parse"}

\* No commit is newer than its repository's head: on disk, or asked for.
HeadsOK ==
    /\ \A s \in Slugs : model[s] # NoModel => model[s].rev <= rev[model[s].repo]
    /\ \A c \in Calls : pc[c] \in Asking => sha[c] <= rev[req[c].repo]

\* A sync that no other one has overtaken is not behind what is on disk.
NotBehind ==
    \A c \in Calls \ lapped : pc[c] \in Asking /\ Cached(c) => model[req[c].slug].rev <= sha[c]

\* A step of c leaves the syncs of the others alone ...
LEMMA OthersAsk ==
    ASSUME TypeOK, NEW c \in Calls, Calling(c) \/ Syncing(c) \/ Crash(c),
           NEW d \in Calls \ {c}
    PROVE  pc'[d] = pc[d] /\ req'[d] = req[d] /\ sha'[d] = sha[d]
<1>. USE DEF Goto, TypeOK
<1>1. ASSUME NEW how, NEW row, NEW r, Answer(c, how, row, r)
      PROVE  pc'[d] = pc[d] /\ req'[d] = req[d] /\ sha'[d] = sha[d]
  BY <1>1 DEF Answer
<1>2. ASSUME NEW how, End(c, how)
      PROVE  pc'[d] = pc[d] /\ req'[d] = req[d] /\ sha'[d] = sha[d]
  BY <1>1, <1>2 DEF End
<1>3. ASSUME NextRow(c)
      PROVE  pc'[d] = pc[d] /\ req'[d] = req[d] /\ sha'[d] = sha[d]
  BY <1>3 DEF NextRow
<1>4. ASSUME NEW row, StartSync(c, row)
      PROVE  pc'[d] = pc[d] /\ req'[d] = req[d] /\ sha'[d] = sha[d]
  BY <1>4 DEF StartSync
<1>5. ASSUME NEW m, SyncReturns(c, m)
      PROVE  pc'[d] = pc[d] /\ req'[d] = req[d] /\ sha'[d] = sha[d]
  BY <1>1, <1>3, <1>5 DEF SyncReturns
<1>6. ASSUME NEW why, SyncRaises(c, why)
      PROVE  pc'[d] = pc[d] /\ req'[d] = req[d] /\ sha'[d] = sha[d]
  BY <1>2, <1>3, <1>6 DEF SyncRaises
<1>7. CASE Calling(c)
  BY <1>1, <1>2, <1>4, <1>7 DEF Calling, ToolCached, ToolLazySync, ToolUnknown, Resolve,
     ResolveMalformed, Persist, PersistFails, PrefetchFails, Prefetch, PrefetchRow,
     PrefetchSynced, Warm
<1>8. CASE Syncing(c)
  BY <1>5, <1>6, <1>8 DEF Syncing, InfoAnswer, InfoMalformed, Denied, Unreachable,
     ConfigAnswer, Reject, WriteModel, DiskError
<1>9. CASE Crash(c)
  BY <1>2, <1>9 DEF Crash
<1>. QED  BY <1>7, <1>8, <1>9

\* ... and the models, unless it writes one.
LEMMA OnlyWritingTouchesModels ==
    ASSUME NEW c \in Calls, Calling(c) \/ Syncing(c) \/ Crash(c), ~WriteModel(c)
    PROVE  UNCHANGED <<model, rev>>
BY DEF Calling, ToolCached, ToolLazySync, ToolUnknown, Resolve, ResolveMalformed, Persist,
   PersistFails, PrefetchFails, Prefetch, PrefetchRow, PrefetchSynced, Warm, Syncing,
   InfoAnswer, InfoMalformed, Denied, Unreachable, ConfigAnswer, Reject, WriteModel, DiskError,
   Crash, files

\* How a step of c gets c to a place in a sync: it starts one, it hears of a commit,
\* or it goes on with the one it has.
LEMMA OwnAsk ==
    ASSUME TypeOK, NEW c \in Calls, Calling(c) \/ Syncing(c) \/ Crash(c), pc'[c] \in Asking
    PROVE  \/ pc'[c] = "info" /\ req'[c].repo \in Repos /\ sha'[c] = rev[req'[c].repo]
           \/ /\ pc'[c] = "config" /\ pc[c] = "info" /\ req'[c] = req[c]
              /\ sha'[c] \in Heads(c)
           \/ /\ pc'[c] = "parse" /\ pc[c] = "config" /\ req'[c] = req[c]
              /\ sha'[c] = sha[c]
<1>. USE DEF Goto, TypeOK
<1>1. ASSUME NEW how, NEW row, NEW r, Answer(c, how, row, r)
      PROVE  FALSE
  BY <1>1 DEF Answer, Asking
<1>2. ASSUME NEW how, End(c, how)  PROVE FALSE
  BY <1>1, <1>2 DEF End
<1>3. ASSUME NextRow(c)  PROVE FALSE
  BY <1>3 DEF NextRow, Asking
<1>. DEFINE Asks == pc'[c] = "info" /\ req'[c].repo \in Repos /\ sha'[c] = rev[req'[c].repo]
<1>4. ASSUME NEW kind \in {"tool", "resolve", "prefetch"}, NEW s \in Slugs, NEW r \in Repos,
             StartSync(c, Row(kind, s, r))
      PROVE  Asks
  <2>1. Row(kind, s, r).repo = r  BY RowType
  <2>. QED  BY <1>4, <2>1 DEF StartSync
<1>5. ASSUME NEW m, SyncReturns(c, m)  PROVE FALSE
  BY <1>1, <1>3, <1>5 DEF SyncReturns, Asking
<1>6. ASSUME NEW why, SyncRaises(c, why)  PROVE FALSE
  BY <1>2, <1>3, <1>6 DEF SyncRaises
<1>7. CASE Calling(c)
  <2>1. ASSUME NEW s \in Slugs, ToolLazySync(c, s)
        PROVE  Asks
    <3>1. PICK parses \in BOOLEAN : Merged(parses)[s] # None
                                     /\ StartSync(c, Row("tool", s, Merged(parses)[s]))
      BY <2>1 DEF ToolLazySync
    <3>2. Merged(parses)[s] \in Repos  BY <3>1, MergedType
    <3>. HIDE DEF Asks
    <3>. QED  BY <1>4, <3>1, <3>2
  <2>2. ASSUME NEW s \in Slugs, NEW r \in Repos, Resolve(c, s, r)
        PROVE  Asks
    <3>. HIDE DEF Asks
    <3>. QED  BY <1>4, <2>2 DEF Resolve
  <2>3. ASSUME NEW s \in Slugs, PrefetchRow(c, s)
        PROVE  Asks
    <3>1. rows[c][s] \in Repos  BY <2>3 DEF PrefetchRow
    <3>. HIDE DEF Asks
    <3>. QED  BY <1>4, <2>3, <3>1 DEF PrefetchRow
  <2>4. ASSUME NEW s \in Slugs, ToolCached(c, s) \/ ToolUnknown(c, s)  PROVE FALSE
    BY <1>1, <1>2, <2>4 DEF ToolCached, ToolUnknown
  <2>5. ASSUME \/ ResolveMalformed(c) \/ Persist(c) \/ PersistFails(c) \/ PrefetchFails(c)
               \/ Prefetch(c) \/ PrefetchSynced(c) \/ Warm(c)
        PROVE  FALSE
    BY <1>1, <1>2, <2>5 DEF ResolveMalformed, Persist, PersistFails, PrefetchFails, Prefetch,
       PrefetchSynced, Warm, Asking
  <2>. QED  BY <1>7, <2>1, <2>2, <2>3, <2>4, <2>5 DEF Calling
<1>8. CASE Syncing(c)
  <2>1. CASE InfoAnswer(c)
    BY <1>5, <2>1 DEF InfoAnswer
  <2>2. CASE ConfigAnswer(c)
    BY <2>2 DEF ConfigAnswer
  <2>3. CASE \/ InfoMalformed(c) \/ Denied(c) \/ Unreachable(c) \/ Reject(c) \/ WriteModel(c)
             \/ DiskError(c)
    BY <1>5, <1>6, <2>3 DEF InfoMalformed, Denied, Unreachable, Reject, WriteModel, DiskError
  <2>. QED  BY <1>8, <2>1, <2>2, <2>3 DEF Syncing
<1>9. CASE Crash(c)
  BY <1>2, <1>9 DEF Crash
<1>. QED  BY <1>7, <1>8, <1>9

\* Whoever writes a model is then out of the sync.
LEMMA WritingEnds ==
    ASSUME TypeOK, NEW c \in Calls, WriteModel(c)
    PROVE  pc'[c] \notin Asking
BY DEF WriteModel, SyncReturns, Answer, NextRow, Goto, TypeOK, Asking

LEMMA HeadsStep ==
    ASSUME TypeOK, HeadsOK, [Next]_vars
    PROVE  HeadsOK'
<1>1. ASSUME NEW c \in Calls, Calling(c) \/ Syncing(c) \/ Crash(c)
      PROVE  HeadsOK'
  <2>1. rev' = rev
    BY <1>1, OnlyWritingTouchesModels DEF WriteModel
  <2>2. ASSUME NEW s \in Slugs, model'[s] # NoModel
        PROVE  model'[s].rev <= rev'[model'[s].repo]
    <3>1. CASE WriteModel(c)
      <4>1. sha[c] <= rev[req[c].repo]  BY <3>1 DEF HeadsOK, WriteModel, Asking
      <4>2. CASE s = req[c].slug
        BY <2>1, <3>1, <4>1, <4>2 DEF WriteModel, NewModel, TypeOK
      <4>3. CASE s # req[c].slug
        BY <2>1, <2>2, <3>1, <4>3 DEF WriteModel, HeadsOK, TypeOK
      <4>. QED  BY <4>2, <4>3
    <3>2. CASE ~WriteModel(c)
      BY <1>1, <2>1, <2>2, <3>2, OnlyWritingTouchesModels DEF HeadsOK
    <3>. QED  BY <3>1, <3>2
  <2>3. ASSUME NEW d \in Calls \ {c}, pc'[d] \in Asking
        PROVE  sha'[d] <= rev'[req'[d].repo]
    BY <1>1, <2>1, <2>3, OthersAsk DEF HeadsOK
  <2>4. ASSUME pc'[c] \in Asking
        PROVE  sha'[c] <= rev'[req'[c].repo]
    <3>1. CASE pc'[c] = "info" /\ req'[c].repo \in Repos /\ sha'[c] = rev[req'[c].repo]
      <4>1. rev[req'[c].repo] \in Int  BY <3>1, CatalogAssumption DEF TypeOK, Rev
      <4>. QED  BY <2>1, <3>1, <4>1
    <3>2. CASE pc[c] = "info" /\ req'[c] = req[c] /\ sha'[c] \in Heads(c)
      BY <2>1, <3>2, HeadsType
    <3>3. CASE pc[c] = "config" /\ req'[c] = req[c] /\ sha'[c] = sha[c]
      BY <2>1, <3>3 DEF HeadsOK, Asking
    <3>. QED  BY <1>1, <2>4, <3>1, <3>2, <3>3, OwnAsk
  <2>. QED  BY <2>2, <2>3, <2>4 DEF HeadsOK
<1>2. ASSUME NEW r \in Moving, Push(r)  PROVE HeadsOK'
  <2>1. /\ rev' \in [Repos -> Int] /\ rev \in [Repos -> Int]
        /\ \A q \in Repos : rev[q] <= rev'[q]
    BY <1>2, CatalogAssumption DEF Push, TypeOK, Rev
  <2>2. \A s \in Slugs : model[s] # NoModel => model[s].rev \in Int /\ model[s].repo \in Repos
    BY CatalogAssumption, Absence DEF TypeOK, Model, Rev
  <2>3. \A c \in Calls : pc[c] \in Asking => sha[c] \in Int /\ req[c].repo \in Repos
    BY CatalogAssumption DEF TypeOK, Rev, Asking
  <2>4. UNCHANGED <<model, pc, req, sha>>  BY <1>2 DEF Push, files
  <2>. QED  BY <2>1, <2>2, <2>3, <2>4 DEF HeadsOK
<1>3. CASE UNCHANGED vars
  BY <1>3 DEF vars, files, HeadsOK
<1>. QED  BY <1>1, <1>2, <1>3 DEF Next

LEMMA NotBehindStep ==
    ASSUME TypeOK, TypeOK', HeadsOK, NotBehind, [Next]_vars
    PROVE  NotBehind'
<1>1. ASSUME NEW c \in Calls, Calling(c) \/ Syncing(c) \/ Crash(c), Overtakes(c)
      PROVE  NotBehind'
  <2>1. ASSUME NEW d \in Calls \ {c}, d \notin lapped', pc'[d] \in Asking, Cached(d)'
        PROVE  model'[req'[d].slug].rev <= sha'[d]
    <3>1. pc'[d] = pc[d] /\ req'[d] = req[d] /\ sha'[d] = sha[d]
      BY <1>1, OthersAsk
    <3>2. d \notin lapped /\ model'[req[d].slug] = model[req[d].slug]
      BY <1>1, <2>1 DEF Overtakes, Asking
    <3>. QED  BY <2>1, <3>1, <3>2 DEF NotBehind, Cached
  <2>2. ASSUME c \notin lapped', pc'[c] \in Asking, Cached(c)'
        PROVE  model'[req'[c].slug].rev <= sha'[c]
    <3>1. model' = model
      BY <1>1, <2>2, WritingEnds, OnlyWritingTouchesModels
    <3>2. CASE pc'[c] = "info" /\ req'[c].repo \in Repos /\ sha'[c] = rev[req'[c].repo]
      <4>1. req'[c].slug \in Slugs
        BY <2>2 DEF TypeOK, Request, Asking
      <4>2. model[req'[c].slug].repo = req'[c].repo  BY <2>2, <3>1 DEF Cached
      <4>3. model[req'[c].slug] # NoModel
        BY <3>2, <4>2, CatalogAssumption DEF NoModel
      <4>. QED  BY <3>1, <3>2, <4>1, <4>2, <4>3 DEF HeadsOK
    <3>3. CASE pc'[c] # "info" /\ req'[c] = req[c] /\ pc[c] \in {"info", "config"}
      <4>1. c \notin lapped  BY <1>1, <2>2, <3>3 DEF Overtakes, Asking
      <4>2. Cached(c)  BY <2>2, <3>1, <3>3 DEF Cached
      <4>3. model[req[c].slug].rev <= sha[c]
        BY <3>3, <4>1, <4>2 DEF NotBehind, Asking
      <4>4. model[req[c].slug].rev \in Int /\ sha[c] \in Int
        BY <3>3, <4>2, CachedIsModel, CatalogAssumption DEF Model, Rev, TypeOK
      <4>5. CASE sha'[c] = sha[c]  BY <3>1, <3>3, <4>3, <4>5
      <4>6. CASE pc[c] = "info" /\ sha'[c] \in Heads(c)
        <5>1. sha[c] <= sha'[c] /\ sha'[c] \in Int
          BY <4>6, HeadsType, CatalogAssumption DEF Rev
        <5>. QED  BY <3>1, <3>3, <4>3, <4>4, <5>1
      <4>. QED  BY <1>1, <2>2, <3>3, <4>5, <4>6, OwnAsk
    <3>. QED  BY <1>1, <2>2, <3>2, <3>3, OwnAsk
  <2>. QED  BY <2>1, <2>2 DEF NotBehind
<1>2. ASSUME NEW r \in Moving, Push(r)  PROVE NotBehind'
  BY <1>2 DEF Push, files, NotBehind, Cached
<1>3. CASE UNCHANGED vars
  BY <1>3 DEF vars, files, NotBehind, Cached
<1>. QED  BY <1>1, <1>2, <1>3 DEF Next

LEMMA NeverBehind == Spec => [](TypeOK /\ HeadsOK /\ NotBehind)
<1>1. Init => HeadsOK /\ NotBehind
  BY DEF Init, HeadsOK, NotBehind, Asking
<1>2. TypeOK /\ TypeOK' /\ HeadsOK /\ NotBehind /\ [Next]_vars => (HeadsOK /\ NotBehind)'
  BY HeadsStep, NotBehindStep
<1>. QED  BY <1>1, <1>2, TypeCorrect, PTL DEF Spec

\* hf_sync.py:236-341, for any number of calls, slugs and repositories: to ask for the
\* head first and for its configuration then is enough to keep commits in order, as
\* long as syncs of one slug do not overtake one another.
THEOREM NoSilentRollback == Spec => CommitsOnlyAdvance
<1>1. ASSUME TypeOK, NotBehind, [Next]_vars,
             NEW s \in Slugs, model'[s].repo = model[s].repo, model'[s].rev < model[s].rev
      PROVE  \E c \in lapped : pc[c] = "parse" /\ req[c].slug = s /\ pc'[c] # pc[c]
  <2>1. model'[s] # model[s]
    <3>1. model[s].rev \in Int  BY <1>1, CatalogAssumption DEF TypeOK, Model, NoModel, Rev
    <3>. QED  BY <1>1, <3>1
  <2>2. PICK c \in Calls : WriteModel(c)
    BY <1>1, <2>1, OnlyWritingTouchesModels DEF Next, Push, vars, files
  <2>3. pc[c] = "parse" /\ pc'[c] # pc[c]
    BY <1>1, <2>2, WritingEnds DEF WriteModel, Asking
  <2>4. model' = [model EXCEPT ![req[c].slug] = NewModel(c)]  BY <2>2 DEF WriteModel
  <2>5. req[c].slug = s  BY <1>1, <2>1, <2>4 DEF TypeOK
  <2>6. model'[s] = NewModel(c)  BY <1>1, <2>4, <2>5 DEF TypeOK
  <2>7. Cached(c) /\ sha[c] < model[req[c].slug].rev
    BY <1>1, <2>5, <2>6 DEF Cached, NewModel
  <2>8. sha[c] \in Int /\ model[s].rev \in Int
    BY <1>1, CatalogAssumption DEF TypeOK, Model, NoModel, Rev
  <2>9. c \in lapped
    BY <1>1, <2>3, <2>5, <2>7, <2>8 DEF NotBehind, Asking
  <2>. QED  BY <2>3, <2>5, <2>9
<1>2. TypeOK /\ NotBehind /\ [Next]_vars =>
        [\A s \in Slugs :
            model'[s].repo = model[s].repo /\ model'[s].rev < model[s].rev
                => \E c \in lapped : pc[c] = "parse" /\ req[c].slug = s /\ pc'[c] # pc[c]]_vars
  BY <1>1
<1>. QED  BY <1>2, NeverBehind, PTL DEF CommitsOnlyAdvance, Spec

-----------------------------------------------------------------------------
(* The configuration beside a model.                                        *)

\* A call gets to where its configuration is on disk by the response with it.
LEMMA IntoParse ==
    ASSUME TypeOK, NEW c \in Calls, Calling(c) \/ Syncing(c) \/ Crash(c), pc'[c] = "parse"
    PROVE  ConfigAnswer(c)
<1>. USE DEF Goto, TypeOK
<1>1. ASSUME NEW how, NEW row, NEW r, Answer(c, how, row, r)  PROVE FALSE
  BY <1>1 DEF Answer
<1>2. ASSUME NEW how, End(c, how)  PROVE FALSE
  BY <1>1, <1>2 DEF End
<1>3. ASSUME NextRow(c)  PROVE FALSE
  BY <1>3 DEF NextRow
<1>4. ASSUME NEW row, StartSync(c, row)  PROVE FALSE
  BY <1>4 DEF StartSync
<1>5. ASSUME NEW m, SyncReturns(c, m)  PROVE FALSE
  BY <1>1, <1>3, <1>5 DEF SyncReturns
<1>6. ASSUME NEW why, SyncRaises(c, why)  PROVE FALSE
  BY <1>2, <1>3, <1>6 DEF SyncRaises
<1>7. CASE Calling(c)
  BY <1>1, <1>2, <1>4, <1>7 DEF Calling, ToolCached, ToolLazySync, ToolUnknown, Resolve,
     ResolveMalformed, Persist, PersistFails, PrefetchFails, Prefetch, PrefetchRow,
     PrefetchSynced, Warm
<1>8. CASE Syncing(c)
  BY <1>5, <1>6, <1>8 DEF Syncing, InfoAnswer, InfoMalformed, Denied, Unreachable, Reject,
     WriteModel, DiskError
<1>9. CASE Crash(c)  BY <1>2, <1>9 DEF Crash
<1>. QED  BY <1>7, <1>8, <1>9

\* A sync that has its configuration, and that none has crossed, has it on disk.
Kept ==
    \A c \in Calls \ crossed : pc[c] = "parse" => config[req[c].slug] = Asked(c)

LEMMA KeptStep ==
    ASSUME TypeOK, Kept, [Next]_vars
    PROVE  Kept'
<1>1. ASSUME NEW c \in Calls, Calling(c) \/ Syncing(c) \/ Crash(c), Overtakes(c)
      PROVE  Kept'
  <2>1. ASSUME NEW d \in Calls \ {c}, d \notin crossed', pc'[d] = "parse"
        PROVE  config'[req'[d].slug] = Asked(d)'
    <3>1. pc'[d] = pc[d] /\ req'[d] = req[d] /\ sha'[d] = sha[d]
      BY <1>1, OthersAsk
    <3>2. d \notin crossed /\ config'[req[d].slug] = config[req[d].slug]
      BY <1>1, <2>1 DEF Overtakes
    <3>. QED  BY <2>1, <3>1, <3>2 DEF Kept, Asked
  <2>2. ASSUME pc'[c] = "parse"
        PROVE  config'[req'[c].slug] = Asked(c)'
    <3>1. /\ pc[c] = "config" /\ req'[c] = req[c] /\ sha'[c] = sha[c]
      BY <1>1, <2>2, OwnAsk DEF Asking
    <3>2. ConfigAnswer(c)
      BY <1>1, <2>2, <3>1, IntoParse
    <3>3. req[c].slug \in Slugs  BY <3>1 DEF TypeOK, Request
    <3>. QED  BY <3>1, <3>2, <3>3 DEF ConfigAnswer, Asked, TypeOK
  <2>. QED  BY <2>1, <2>2 DEF Kept
<1>2. ASSUME NEW r \in Moving, Push(r)  PROVE Kept'
  BY <1>2 DEF Push, files, Kept, Asked
<1>3. CASE UNCHANGED vars
  BY <1>3 DEF vars, files, Kept, Asked
<1>. QED  BY <1>1, <1>2, <1>3 DEF Next

\* hf_sync.py:260-341, for any number of calls, slugs, repositories and crashes: a model
\* is put beside the configuration it was made from, unless another sync of the slug
\* came between the two writes.
THEOREM ProjectionsLieBesideTheirConfig == Spec => ProjectedFromDisk
<1>1. ASSUME TypeOK, Kept, [Next]_vars, NEW s \in Slugs, model'[s] # model[s]
      PROVE  \/ config[s] = [repo |-> model'[s].repo, rev |-> model'[s].rev]
             \/ \E c \in crossed : pc[c] = "parse" /\ req[c].slug = s /\ pc'[c] # pc[c]
  <2>1. PICK c \in Calls : WriteModel(c)
    BY <1>1, OnlyWritingTouchesModels DEF Next, Push, vars, files
  <2>2. pc[c] = "parse" /\ pc'[c] # pc[c]
    BY <1>1, <2>1, WritingEnds DEF WriteModel, Asking
  <2>3. model' = [model EXCEPT ![req[c].slug] = NewModel(c)]  BY <2>1 DEF WriteModel
  <2>4. req[c].slug = s  BY <1>1, <2>3 DEF TypeOK
  <2>5. model'[s] = NewModel(c)  BY <1>1, <2>3, <2>4 DEF TypeOK
  <2>6. CASE c \in crossed  BY <2>2, <2>4, <2>6
  <2>7. CASE c \notin crossed
    BY <1>1, <2>2, <2>4, <2>5, <2>7 DEF Kept, Asked, NewModel
  <2>. QED  BY <2>6, <2>7
<1>2. TypeOK /\ Kept /\ [Next]_vars =>
        [\A s \in Slugs :
            model'[s] # model[s]
                => \/ config[s] = [repo |-> model'[s].repo, rev |-> model'[s].rev]
                   \/ \E c \in crossed : pc[c] = "parse" /\ req[c].slug = s
                                          /\ pc'[c] # pc[c]]_vars
  BY <1>1
<1>3. Init => Kept  BY DEF Init, Kept
<1>. QED  BY <1>2, <1>3, KeptStep, TypeCorrect, PTL DEF ProjectedFromDisk, Spec

-----------------------------------------------------------------------------
(* The contract of ModelShelf.                                              *)

SlugsRepos == [s \in Slugs |-> model[s].repo]

\* A sync that answers has, at that instant, the slug's model be of the
\* repository it was asked for.
LEMMA SyncIsAtomic ==
    ASSUME IInv, NEW c \in Calls, pc[c] \in {"info", "config", "parse"},
           NEW m \in Model, m.repo = req[c].repo, SyncReturns(c, m),
           model' = [model EXCEPT ![req[c].slug] = m], UNCHANGED yaml
    PROVE  \E s \in Slugs, r \in Repos : Shelf!Sync(s, r)
<1>1. req[c].slug \in Slugs /\ req[c].repo \in Repos /\ model \in [Slugs -> Model \cup {NoModel}]
  BY DEF IInv, TypeOK, Request
<1>2. SlugsRepos' = [SlugsRepos EXCEPT ![req[c].slug] = req[c].repo]
  BY <1>1 DEF SlugsRepos
<1>3. synced' = synced \cup {<<req[c].slug, req[c].repo>>}
  BY DEF SyncReturns
<1>. QED  BY <1>1, <1>2, <1>3 DEF Shelf!Sync, SlugsRepos

\* One that answers with what is on disk changes nothing there.
LEMMA CachedSyncIsAtomic ==
    ASSUME IInv, NEW c \in Calls, pc[c] \in {"info", "config"}, Cached(c),
           SyncReturns(c, model[req[c].slug]), UNCHANGED <<model, yaml>>
    PROVE  \E s \in Slugs, r \in Repos : Shelf!Sync(s, r)
<1>1. req[c].slug \in Slugs /\ model \in [Slugs -> Model \cup {NoModel}]
  BY DEF IInv, TypeOK, Request
<1>2. model[req[c].slug] \in Model /\ model[req[c].slug].repo = req[c].repo
  BY CachedIsModel DEF IInv
<1>3. model' = [model EXCEPT ![req[c].slug] = model[req[c].slug]]
  BY <1>1
<1>. QED  BY <1>2, <1>3, SyncIsAtomic

LEMMA StutterOfShelf ==
    ASSUME UNCHANGED <<model, yaml, synced>>
    PROVE  UNCHANGED <<SlugsRepos, yaml, synced>>
BY DEF SlugsRepos

LEMMA StepsOfShelf ==
    ASSUME IInv, [Next]_vars
    PROVE  [Shelf!Next]_<<SlugsRepos, yaml, synced>>
<1>1. ASSUME NEW c \in Calls, Persist(c)
      PROVE  Shelf!Next
  <2>1. req[c].slug \in Slugs /\ req[c].repo \in Repos
        /\ <<req[c].slug, req[c].repo>> \in synced
    BY <1>1 DEF Persist, IInv, TypeOK, CallsOK, CallOK, Request
  <2>2. Shelf!Track(req[c].slug, req[c].repo)
    BY <1>1, <2>1 DEF Persist, Shelf!Track
  <2>. QED  BY <2>1, <2>2 DEF Shelf!Next
<1>2. ASSUME NEW c \in Calls, Calling(c), ~Persist(c)
      PROVE  UNCHANGED <<model, yaml, synced>>
  BY <1>2 DEF Calling, ToolCached, ToolLazySync, ToolUnknown, Resolve, ResolveMalformed,
     PersistFails, PrefetchFails, Prefetch, PrefetchRow, PrefetchSynced, Warm, files
<1>3. ASSUME NEW c \in Calls, WriteModel(c)
      PROVE  Shelf!Next
  <2>1. NewModel(c) \in Model /\ NewModel(c).repo = req[c].repo
    BY <1>3 DEF WriteModel, NewModel, Model, IInv, TypeOK, Request
  <2>. QED  BY <1>3, <2>1, SyncIsAtomic DEF WriteModel, Shelf!Next
<1>4. ASSUME NEW c \in Calls, InfoAnswer(c)
      PROVE  Shelf!Next \/ UNCHANGED <<model, yaml, synced>>
  BY <1>4, CachedSyncIsAtomic DEF InfoAnswer, CachedAt, files, Shelf!Next
<1>5. ASSUME NEW c \in Calls, Unreachable(c)
      PROVE  Shelf!Next \/ UNCHANGED <<model, yaml, synced>>
  BY <1>5, CachedSyncIsAtomic DEF Unreachable, SyncRaises, files, Shelf!Next
<1>6. ASSUME NEW c \in Calls,
             InfoMalformed(c) \/ Denied(c) \/ ConfigAnswer(c) \/ Reject(c) \/ DiskError(c)
      PROVE  UNCHANGED <<model, yaml, synced>>
  BY <1>6 DEF InfoMalformed, Denied, ConfigAnswer, Reject, DiskError, SyncRaises, files
<1>7. ASSUME NEW c \in Calls, Crash(c)  PROVE UNCHANGED <<model, yaml, synced>>
  BY <1>7 DEF Crash, files
<1>8. ASSUME NEW r \in Moving, Push(r)  PROVE UNCHANGED <<model, yaml, synced>>
  BY <1>8 DEF Push, files
<1>9. CASE UNCHANGED vars
  BY <1>9, StutterOfShelf DEF vars, files
<1>. QED
  BY <1>1, <1>2, <1>3, <1>4, <1>5, <1>6, <1>7, <1>8, <1>9, StutterOfShelf DEF Next, Syncing

\* The catalog implements the contract, for any number of calls: what is written
\* step by step and may be cut short anywhere looks, from the files, like whole
\* syncs one after the other, and a row is tracked after its sync.
\* (hf_sync.py:183-342, dispatch.py:122-286)
THEOREM KeepsTheContract == Spec => ImplementsShelf
<1>1. Init => Shelf!Init
  BY DEF Init, Shelf!Init, Shelf!Nowhere, Nothing, NoModel
<1>2. IInv /\ [Next]_vars => [Shelf!Next]_<<SlugsRepos, yaml, synced>>
  BY StepsOfShelf
<1>. QED
  BY <1>1, <1>2, Invariance, PTL DEF Spec, ImplementsShelf, Shelf!Spec, SlugsRepos

-----------------------------------------------------------------------------
(* The table of architecture families.                                      *)

LEMMA Table ==
    /\ DOMAIN FamilyPrefixes = 1..13
    /\ FamilyPrefixes[1].words = <<"Llama">> /\ FamilyPrefixes[2].words = <<"Mistral">>
    /\ FamilyPrefixes[3].words = <<"Mixtral">> /\ FamilyPrefixes[4].words = <<"Qwen", "3">>
    /\ FamilyPrefixes[5].words = <<"Qwen", "2">> /\ FamilyPrefixes[6].words = <<"Qwen">>
    /\ FamilyPrefixes[7].words = <<"Deepseek", "V3">>
    /\ FamilyPrefixes[8].words = <<"DeepSeek", "V3">>
    /\ FamilyPrefixes[9].words = <<"Phi">> /\ FamilyPrefixes[10].words = <<"Gemma">>
    /\ FamilyPrefixes[11].words = <<"GptOss">> /\ FamilyPrefixes[12].words = <<"GPTOss">>
    /\ FamilyPrefixes[13].words = <<"Cohere">>
BY DEF FamilyPrefixes, Prefix

\* Entries that share their first word: longer ones come first, and of the same
\* length, the second word differs.
LEMMA TableInOrder ==
    ASSUME NEW i \in 1..13, NEW j \in 1..13, j < i,
           FamilyPrefixes[i].words[1] = FamilyPrefixes[j].words[1]
    PROVE  \/ Len(FamilyPrefixes[j].words) > Len(FamilyPrefixes[i].words)
           \/ /\ 2 \in DOMAIN FamilyPrefixes[i].words /\ 2 \in DOMAIN FamilyPrefixes[j].words
              /\ FamilyPrefixes[i].words[2] # FamilyPrefixes[j].words[2]
<1>. DEFINE w(k) == FamilyPrefixes[k].words
<1>1. /\ w(1)[1] = "Llama" /\ w(2)[1] = "Mistral" /\ w(3)[1] = "Mixtral"
      /\ w(4)[1] = "Qwen" /\ w(5)[1] = "Qwen" /\ w(6)[1] = "Qwen"
      /\ w(7)[1] = "Deepseek" /\ w(8)[1] = "DeepSeek" /\ w(9)[1] = "Phi"
      /\ w(10)[1] = "Gemma" /\ w(11)[1] = "GptOss" /\ w(12)[1] = "GPTOss"
      /\ w(13)[1] = "Cohere"
  BY Table
<1>2. (i = 5 /\ j = 4) \/ (i = 6 /\ j \in {4, 5})
  <2>. HIDE DEF w
  <2>1. w(i)[1] = w(j)[1]  BY DEF w
  <2>. QED  BY <1>1, <2>1
<1>3. CASE i = 5 /\ j = 4
  <2>1. w(5) = <<"Qwen", "2">> /\ w(4) = <<"Qwen", "3">>  BY Table
  <2>2. 2 \in DOMAIN w(5) /\ 2 \in DOMAIN w(4) /\ w(5)[2] = "2" /\ w(4)[2] = "3"
    BY <2>1
  <2>. QED  BY <1>3, <2>2
<1>4. CASE i = 6 /\ j \in {4, 5}
  <2>1. w(6) = <<"Qwen">> /\ w(5) = <<"Qwen", "2">> /\ w(4) = <<"Qwen", "3">>
    BY Table
  <2>2. Len(w(6)) = 1 /\ Len(w(5)) = 2 /\ Len(w(4)) = 2  BY <2>1
  <2>. QED  BY <1>4, <2>2
<1>. QED  BY <1>2, <1>3, <1>4

LEMMA LeastOfTable ==
    ASSUME NEW S \in SUBSET (1..13), S # {}
    PROVE  Least(S) \in S /\ \A i \in S : Least(S) <= i
<1>. DEFINE R == {p \in Nat \X Nat : p[1] < p[2]}
<1>1. IsWellFoundedOn(R, Nat)
  BY NatLessThanWellFounded, Zenon DEF OpToRel
<1>2. PICK i \in S : \A j \in S : <<j, i>> \notin R
  BY <1>1, WFMin
<1>3. \A j \in S : <<j, i>> \in Nat \X Nat /\ i \in Nat /\ j \in Nat
  OBVIOUS
<1>4. \A j \in S : ~(j < i)
  BY <1>2, <1>3
<1>5. \A j \in S : i <= j
  BY <1>3, <1>4
<1>. QED  BY <1>5 DEF Least

\* hf_model.py:61-66: the table is in an order in which the first entry that
\* matches is the most specific one, whatever the name.
THEOREM MostSpecificFamily == \A name \in Seq(STRING) : MostSpecific(name)
<1>. SUFFICES ASSUME NEW name \in Seq(STRING), NEW i \in Matching(name),
                     \A j \in Matching(name) :
                         Len(FamilyPrefixes[j].words) <= Len(FamilyPrefixes[i].words)
              PROVE  DetectFamily(name) = FamilyPrefixes[i].family
  BY DEF MostSpecific
<1>1. Matching(name) \in SUBSET (1..13)  BY Table DEF Matching
<1>. DEFINE k == Least(Matching(name))
<1>2. k \in Matching(name) /\ k <= i  BY <1>1, LeastOfTable
<1>3. k = i
  <2>1. \A j \in Matching(name) : \A n \in DOMAIN FamilyPrefixes[j].words :
            FamilyPrefixes[j].words[n] = name[n]
    BY DEF Matching, StartsWith
  <2>2. \A j \in 1..13 : 1 \in DOMAIN FamilyPrefixes[j].words
                         /\ Len(FamilyPrefixes[j].words) \in Nat
    BY Table
  <2>. HIDE DEF k
  <2>3. \A j \in Matching(name) : FamilyPrefixes[j].words[1] = name[1]
    BY <1>1, <2>1, <2>2
  <2>4. i \in 1..13 /\ k \in 1..13
        /\ FamilyPrefixes[i].words[1] = FamilyPrefixes[k].words[1]
        /\ Len(FamilyPrefixes[k].words) <= Len(FamilyPrefixes[i].words)
    BY <1>1, <1>2, <2>3
  <2>5. ASSUME k < i  PROVE FALSE
    <3>1. Len(FamilyPrefixes[k].words) > Len(FamilyPrefixes[i].words)
          \/ /\ 2 \in DOMAIN FamilyPrefixes[i].words /\ 2 \in DOMAIN FamilyPrefixes[k].words
             /\ FamilyPrefixes[i].words[2] # FamilyPrefixes[k].words[2]
      BY <2>4, <2>5, TableInOrder
    <3>2. ASSUME 2 \in DOMAIN FamilyPrefixes[i].words, 2 \in DOMAIN FamilyPrefixes[k].words
          PROVE  FamilyPrefixes[i].words[2] = FamilyPrefixes[k].words[2]
      <4>1. FamilyPrefixes[i].words[2] = name[2]  BY <2>1, <3>2
      <4>2. FamilyPrefixes[k].words[2] = name[2]  BY <1>2, <2>1, <3>2
      <4>. QED  BY <4>1, <4>2
    <3>3. ~(Len(FamilyPrefixes[k].words) > Len(FamilyPrefixes[i].words))
      BY <2>2, <2>4
    <3>. QED  BY <3>1, <3>2, <3>3
  <2>. QED  BY <1>2, <2>4, <2>5
<1>. QED  BY <1>2, <1>3 DEF DetectFamily

=============================================================================
