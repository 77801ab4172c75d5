------------------------------ MODULE MCDrain -------------------------------
(***************************************************************************)
(* One submission of three dispatch kinds, an embedder that may hold the   *)
(* slot it needs, and a task that drains, with or without a timeout, again *)
(* and again.                                                              *)
(***************************************************************************)
EXTENDS Drain

MCSubs == {1}
MCDrainers == {1}
MCTimeouts == {0, 1, 2}

Kind(d, by) == [dispatch |-> d, cancel |-> FALSE, cooperative |-> TRUE, acquire |-> 2,
                by |-> by, run |-> 2]

\* Work that may outlive its caller's boundary, on the caller's task, on a pool and on
\* a stack of its own, and a runtime that only the loss of its caller stops.
MCPlans == {<<Kind("CallerFuture", 1)>>, <<Kind("BlockingPool", 1)>>,
            <<Kind("DedicatedStackRuntime", 1)>>, <<Kind("DedicatedStackRuntime", 2)>>}
MCTenants == [p \in MCPlans |-> IF p[1].dispatch = "DedicatedStackRuntime" THEN 0 ELSE 1]
=============================================================================
