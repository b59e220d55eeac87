--------------------------- MODULE LastGoodCache ---------------------------
(***************************************************************************)
(* What the ComputePrices client promises the calls of one server process: *)
(* per endpoint one register holding the last good price list. A call may  *)
(* refresh it from upstream; whatever it answers is the register's content *)
(* at that moment, and it may only report "unavailable" while the register *)
(* has never been filled (ADR-013). Files, retries, TTL, snapshots and     *)
(* event loop are absent: ComputePrices implements this contract.          *)
(***************************************************************************)
EXTENDS Naturals

CONSTANTS Tasks, Endpoints, MaxVer

VARIABLES
    ver,    \* version upstream serves
    store,  \* the register: a version, or 0 while there is none
    busy,   \* tasks with a call under way
    on,     \* the endpoint of each task's call
    answer  \* how its last call ended

vars == <<ver, store, busy, on, answer>>

\* A call may fail for a reason of its own, without touching the register.
Failure == {"http_error", "value_error", "validation_error", "disk_error", "cancelled"}

Reply(kind, v) == [kind |-> kind, body |-> v]

Init ==
    /\ ver = [e \in Endpoints |-> 1]
    /\ store = [e \in Endpoints |-> 0]
    /\ busy = {}
    /\ on \in [Tasks -> Endpoints]
    /\ answer = [t \in Tasks |-> Reply("none", 0)]

Begin(t, e) ==
    /\ t \notin busy
    /\ busy' = busy \cup {t}
    /\ on' = [on EXCEPT ![t] = e]
    /\ answer' = [answer EXCEPT ![t] = Reply("none", 0)]
    /\ UNCHANGED <<ver, store>>

\* A live answer replaces the content; it may have been under way for a while.
Refresh(t) ==
    /\ t \in busy
    /\ \E v \in 1..ver[on[t]] : store' = [store EXCEPT ![on[t]] = v]
    /\ UNCHANGED <<ver, busy, on, answer>>

End(t, reply) ==
    /\ t \in busy
    /\ busy' = busy \ {t}
    /\ answer' = [answer EXCEPT ![t] = reply]
    /\ UNCHANGED <<ver, store, on>>

Deliver(t) == store[on[t]] # 0 /\ End(t, Reply("served", store[on[t]]))

Unavailable(t) == store[on[t]] = 0 /\ End(t, Reply("unavailable", 0))

Fail(t) == \E kind \in Failure : End(t, Reply(kind, 0))

Crash(T) ==
    /\ T # {} /\ T \subseteq busy
    /\ busy' = busy \ T
    /\ answer' = [t \in Tasks |-> IF t \in T THEN Reply("crashed", 0) ELSE answer[t]]
    /\ UNCHANGED <<ver, store, on>>

Publish(e) ==
    /\ ver[e] < MaxVer
    /\ ver' = [ver EXCEPT ![e] = @ + 1]
    /\ UNCHANGED <<store, busy, on, answer>>

Next ==
    \/ \E t \in Tasks :
          \/ \E e \in Endpoints : Begin(t, e)
          \/ Refresh(t) \/ Deliver(t) \/ Unavailable(t) \/ Fail(t)
    \/ \E T \in SUBSET Tasks : Crash(T)
    \/ \E e \in Endpoints : Publish(e)

Spec == Init /\ [][Next]_vars
=============================================================================
