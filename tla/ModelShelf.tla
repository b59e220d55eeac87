------------------------------ MODULE ModelShelf ------------------------------
(***************************************************************************)
(* What the model catalog promises to whoever reads it: a sync that        *)
(* answers takes effect at one instant, at which the slug has the model of *)
(* the repository that was asked for; between such instants nothing moves, *)
(* whatever fails; and user_models.yaml takes up only pairs that synced.   *)
(* (catalog/hf_sync.py, mcp_tools/dispatch.py)                             *)
(***************************************************************************)
CONSTANTS Slugs, Repos, None

VARIABLES
    shelf,    \* slug -> the repository whose model it has
    tracked,  \* slug -> the repository that user_models.yaml names for it
    synced    \* the pairs that a sync has answered for

Nowhere == [s \in Slugs |-> None]

Init == shelf = Nowhere /\ tracked = Nowhere /\ synced = {}

Sync(s, r) ==
    /\ shelf' = [shelf EXCEPT ![s] = r]
    /\ synced' = synced \cup {<<s, r>>}
    /\ UNCHANGED tracked

Track(s, r) ==
    /\ <<s, r>> \in synced
    /\ tracked' = [tracked EXCEPT ![s] = r]
    /\ UNCHANGED <<shelf, synced>>

Next == \E s \in Slugs, r \in Repos : Sync(s, r) \/ Track(s, r)

Spec == Init /\ [][Next]_<<shelf, tracked, synced>>
=============================================================================
