----------------------------- MODULE MCGovernor ----------------------------
(***************************************************************************)
(* Instances of Governor for TLC: the policies and submissions each        *)
(* configuration file picks.                                               *)
(***************************************************************************)
EXTENDS GovernorRefinement, TLC

Base == [max_inflight |-> 1, max_queue_depth |-> 2, cpu |-> 1, mem |-> 1,
         overflow |-> "QueueWithinDepth", overcommit |-> "Reject", fallback |-> 1,
         best_effort |-> FALSE, release |-> "OnTaskCompletion", mode |-> "Estimated"]

Root(c, r, caps) ==
  [class |-> c, root |-> r, op |-> r, child |-> FALSE, parent_op |-> r,
   awaits |-> FALSE, stage |-> "s", caps |-> caps, waker |-> TRUE]

Child(c, r, o, parent, awaits, stage, caps) ==
  [class |-> c, root |-> r, op |-> o, child |-> TRUE, parent_op |-> parent,
   awaits |-> awaits, stage |-> stage, caps |-> caps, waker |-> TRUE]

\* Custody and claims: one class of one slot, with a queue and a leak sweep.
CustodyClasses == {1}
CustodyPolicy == (1 :> [Base EXCEPT !.release = "LeakDetecting"])
CustodyCaps == ("k" :> 1)
CustodySpecs == {Root(1, "a", {"k"}), Root(1, "b", {"k"}),
                 [Root(1, "c", {"k"}) EXCEPT !.waker = FALSE]}

\* Promotion: a primary and a best-effort class over two pools and a CPU budget
\* two permits share, with a budget of one grant per pass.
PromotionClasses == {1, 2}
PromotionPolicy ==
  (1 :> [Base EXCEPT !.max_inflight = 2, !.max_queue_depth = 3]) @@
  (2 :> [Base EXCEPT !.max_queue_depth = 1, !.best_effort = TRUE])
PromotionCaps == ("x" :> 1) @@ ("y" :> 1)
PromotionSpecs == {Root(1, "a", {"x"}), Root(1, "b", {"x", "y"}), Root(1, "c", {"y"}),
                   Root(2, "d", {})}

\* Nesting: a root g, its awaited child p, two awaited children c and e of p, a
\* child d on p's stage, and a stranger z, contending for slots, CPU and a pool.
NestedClasses == {1, 2, 3}
NestedPolicy ==
  (1 :> [Base EXCEPT !.cpu = 2]) @@
  (2 :> [Base EXCEPT !.cpu = 2]) @@
  (3 :> [Base EXCEPT !.max_inflight = 2])
NestedCaps == ("k" :> 1)
NestedSpecs ==
  {Root(3, "g", {}), Child(1, "g", "p", "g", TRUE, "s", {}),
   Child(2, "g", "c", "p", TRUE, "u", {"k"}), Child(2, "g", "e", "p", TRUE, "v", {}),
   Child(3, "g", "d", "g", FALSE, "s", {}), Root(3, "z", {"k"})}

\* Memory: a measured class that degrades to a hybrid one, an estimated class
\* that queues on memory, and a budget of three units of two bytes.
MemoryClasses == {1, 2, 3}
MemoryPolicy ==
  (1 :> [Base EXCEPT !.max_inflight = 2, !.mem = 2, !.mode = "Measured",
          !.overcommit = "DegradeToLight", !.fallback = 2, !.release = "OnStageBoundary"]) @@
  (2 :> [Base EXCEPT !.max_queue_depth = 1, !.mode = "Hybrid", !.overcommit = "Queue",
          !.overflow = "Reject"]) @@
  (3 :> [Base EXCEPT !.mem = 2, !.overcommit = "Queue", !.release = "LeakDetecting"])
MemoryCaps == ("k" :> 0)
MemorySpecs ==
  {Root(1, "a", {}), Root(3, "b", {"k"}), Child(1, "a", "c", "a", FALSE, "s", {}),
   Root(4, "d", {})}

\* Overtaking: one job holding the whole CPU budget, and three requests of one
\* class, two of them on one pool.
OvertakingPolicy ==
  (1 :> [Base EXCEPT !.max_inflight = 3]) @@ (2 :> [Base EXCEPT !.cpu = 2])
OvertakingCaps == ("x" :> 2) @@ ("y" :> 1)
OvertakingSpecs ==
  {Root(2, "z", {}), Root(1, "a", {"x"}), Root(1, "b", {"x"}), Root(1, "c", {"y"})}

\* Waiting behind a stranger: the parent holds pool y, a stranger needs both
\* pools, and the awaited child needs only x.
StrangerPolicy == (1 :> Base) @@ (2 :> [Base EXCEPT !.max_inflight = 2])
StrangerCaps == ("x" :> 1) @@ ("y" :> 1)
StrangerSpecs ==
  {Root(1, "p", {"y"}), Root(2, "z", {"x", "y"}), Child(2, "p", "c", "p", TRUE, "s", {"x"})}

\* Calls that return: a root g, its awaited child p that needs the whole CPU budget, an
\* awaited child c of p and a stranger z.  When p ends, two of the others may be runnable
\* at once, and the third may join them between the passes.
ReturnsPolicy ==
  (1 :> [Base EXCEPT !.cpu = 3]) @@ (2 :> Base) @@ (3 :> [Base EXCEPT !.max_inflight = 2])
ReturnsSpecs ==
  {Root(3, "g", {}), Child(1, "g", "p", "g", TRUE, "s", {}),
   Child(2, "g", "c", "p", TRUE, "u", {"k"}), Root(3, "z", {})}

ThreadSymmetry == Permutations(Threads)
=============================================================================
