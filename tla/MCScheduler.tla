---------------------------- MODULE MCScheduler -----------------------------
(***************************************************************************)
(* Small mixes of disciplines: weighted fair classes on one lane and on    *)
(* two (a blocked head is overtaken), round robin on a ring of three and   *)
(* with overtaking, and the tiers mixed.                                   *)
(***************************************************************************)
EXTENDS Scheduler

Class(k, p) == [kind |-> k, param |-> p, best_effort |-> k = "Scavenger"]
Mix(fairness, lanes, costs, depth) ==
  [fairness |-> fairness, lanes |-> lanes, costs |-> costs, depth |-> depth]

MCMixes ==
  { Mix(<<Class("Wfq", 1), Class("Wfq", 2)>>, {1}, {1, 3}, 2),
    Mix(<<Class("Wfq", 2), Class("Wfq", 1)>>, {1, 2}, {2}, 2),
    Mix(<<Class("Drr", 1), Class("Drr", 2), Class("Drr", 3)>>, {1}, {1, 4}, 1),
    Mix(<<Class("Drr", 1), Class("Drr", 2)>>, {1}, {1, 3}, 2),
    Mix(<<Class("Drr", 2), Class("Fifo", 0)>>, {1, 2}, {3}, 2),
    Mix(<<Class("Edf", 1), Class("Wfq", 1), Class("Scavenger", 0)>>, {1}, {1}, 1),
    Mix(<<Class("Fifo", 0), Class("Edf", 0)>>, {1}, {1}, 2) }
=============================================================================
