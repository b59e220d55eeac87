-------------------------- MODULE MCComputePrices --------------------------
(***************************************************************************)
(* Instances of ComputePrices for TLC: two tasks, in one process or in two.*)
(***************************************************************************)
EXTENDS ComputePrices, TLC

CONSTANTS t1, t2, p1, p2

OneProcess == (t1 :> p1) @@ (t2 :> p1)
TwoProcesses == (t1 :> p1) @@ (t2 :> p2)

\* Swapping the tasks of one process, or two processes with their task.
SwapTasks == Permutations({t1, t2})
SwapProcesses ==
    {f \in Permutations({t1, t2, p1, p2}) :
        <<f[t1], f[p1]>> \in {<<t1, p1>>, <<t2, p2>>} /\ f[t2] \in {t1, t2}
            /\ f[p2] \in {p1, p2}}
=============================================================================
