------------------------------- MODULE MCHost -------------------------------
(***************************************************************************)
(* The host with two submissions over one slot.  Each initial plan pairs a *)
(* submission of one dispatch kind with a second one that has to queue.    *)
(***************************************************************************)
EXTENDS Host

Kind(d, cancel, cooperative, acquire, by, run) ==
  [dispatch |-> d, cancel |-> cancel, cooperative |-> cooperative,
   acquire |-> acquire, by |-> by, run |-> run]

\* Two instants are enough for before, at and after a deadline.
MCMaxTime == 2
MCSubs == {1, 2}

Crowded ==
  <<Kind("CallerFuture", FALSE, FALSE, 0, 3, 3), Kind("CallerFuture", FALSE, FALSE, 0, 3, 3)>>

\* Every dispatch kind, with a token, a boundary or a run budget; the second
\* submission tries once, has an acquire timeout or waits as long as it takes.
MCPlans ==
  { <<Kind("CallerFuture", TRUE, TRUE, 0, 3, 1), Kind("CallerFuture", FALSE, FALSE, 0, 3, 3)>>,
    <<Kind("BlockingPool", FALSE, TRUE, 3, 1, 3), Kind("CallerFuture", FALSE, FALSE, 2, 3, 3)>>,
    <<Kind("CpuExecutor", FALSE, TRUE, 0, 3, 1), Kind("CallerFuture", FALSE, FALSE, 3, 1, 3)>>,
    <<Kind("DedicatedStackThread", FALSE, FALSE, 0, 2, 3), Kind("CallerFuture", TRUE, FALSE, 3, 3, 3)>>,
    <<Kind("DedicatedStackRuntime", TRUE, TRUE, 0, 1, 3), Kind("CallerFuture", FALSE, FALSE, 0, 3, 3)>>,
    <<Kind("DedicatedStackRuntime", FALSE, TRUE, 0, 3, 1), Kind("CallerFuture", FALSE, FALSE, 0, 3, 3)>>,
    Crowded }

\* In the plan with two callers that try once, the embedder has work of its own for
\* the slot.
MCTenants == [p \in MCPlans |-> IF p = Crowded THEN 1 ELSE 0]
=============================================================================
