----------------------------- MODULE GovPolicy -----------------------------
(***************************************************************************)
(* The validated policy a taskmesh Governor is constructed with, the task  *)
(* specifications its callers submit, and the pure arithmetic of the       *)
(* engine's feature modules.  Everything here is constant: a Governor      *)
(* never changes its policy (taskmesh-engine/src/engine/governor.rs).      *)
(***************************************************************************)
EXTENDS Integers, FiniteSets, Sequences, FiniteSetsExt

CONSTANTS
  Classes,      \* task classes; their numeric order is the BTreeMap order
  Policy,       \* Policy[c]: the ClassPolicy of class c
  Caps,         \* registered capability pools
  CapLimit,     \* CapLimit[k]: worker limit of pool k, 0 for unlimited
  MaxCpuUnits,  \* ResourceBudget.max_cpu_units, 0 for unlimited
  MaxMemUnits,  \* ResourceBudget.max_memory_units, 0 for unlimited
  BytesPerUnit, \* MemoryUnitScale.bytes_per_unit
  UnitDomain,   \* largest representable unit count (u32::MAX in the code)
  Roots, Ops, Stages,  \* operation identities and lineage stages
  Specs         \* the submissions callers make

ClassPolicies ==
  [max_inflight: Nat, max_queue_depth: Nat, cpu: Nat, mem: Nat,
   overflow: {"Reject", "QueueWithinDepth", "DropBestEffort"},
   overcommit: {"Reject", "Queue", "DegradeToLight"}, fallback: Classes,
   best_effort: BOOLEAN,
   release: {"OnTaskCompletion", "OnStageBoundary", "LeakDetecting"},
   mode: {"Estimated", "Measured", "Hybrid"}]

\* A submission: the TaskSpec, the capability pools the host resolved for it,
\* and whether it registers a PermitWaker (admit_waitable).  parent_op, stage
\* and awaits mean something for a child only.
TaskSpecs ==
  [class: Nat, root: Roots, op: Ops, child: BOOLEAN, parent_op: Ops,
   awaits: BOOLEAN, stage: Stages, caps: SUBSET Caps, waker: BOOLEAN]

ASSUME ClassesAssumption ==
  /\ IsFiniteSet(Classes) /\ Classes \subseteq Nat /\ Classes # {}
  /\ Policy \in [Classes -> ClassPolicies]

ASSUME BudgetAssumption ==
  /\ IsFiniteSet(Caps) /\ CapLimit \in [Caps -> Nat]
  /\ MaxCpuUnits \in Nat /\ MaxMemUnits \in Nat
  /\ BytesPerUnit \in Nat \ {0} /\ UnitDomain \in Nat

ASSUME SpecsAssumption ==
  /\ IsFiniteSet(Roots) /\ IsFiniteSet(Ops) /\ IsFiniteSet(Stages)
  /\ Specs \subseteq TaskSpecs /\ Specs # {}

\* validate_task_spec: a root is its own operation; a child is neither its
\* root nor its parent.
validate_task_spec(sp) ==
  IF sp.child THEN sp.op # sp.root /\ sp.op # sp.parent_op
              ELSE sp.op = sp.root

\* Governor::validate_policy: one permit of the class fits the budget, a class
\* that may queue has a queue, and a degradation is one hop to an enabled class.
validate_policy(c) ==
  /\ MaxCpuUnits # 0 => Policy[c].cpu <= MaxCpuUnits
  /\ MaxMemUnits # 0 => Policy[c].mem <= MaxMemUnits
  /\ Policy[c].overflow = "QueueWithinDepth" => Policy[c].max_queue_depth > 0
  /\ Policy[c].overcommit = "Queue" => Policy[c].max_queue_depth > 0
  /\ Policy[c].overcommit = "DegradeToLight" =>
       LET f == Policy[c].fallback IN
         /\ f # c /\ Policy[f].max_inflight > 0
         /\ Policy[f].overcommit # "DegradeToLight"

ASSUME ValidatedAssumption ==
  /\ \A c \in Classes : validate_policy(c)
  /\ \A sp \in Specs : validate_task_spec(sp)

-----------------------------------------------------------------------------
is_disabled(c) == Policy[c].max_inflight = 0

is_queueable(c) == Policy[c].overflow = "QueueWithinDepth"

class_can_queue(c) == is_queueable(c) \/ Policy[c].overcommit = "Queue"

\* Two requirement sets share a FIFO domain when they name a common pool, or
\* when both are ungated.
intersects(a, b) == (a = {} /\ b = {}) \/ a \cap b # {}

saturating_sub(a, b) == IF a >= b THEN a - b ELSE 0

div_ceil(a, b) == (a + b - 1) \div b

\* MemoryUnitScale::units_for: round up; a count outside the unit domain is an
\* error, never a clipped number.
units_for(bytes) == div_ceil(bytes, BytesPerUnit)
representable(bytes) == units_for(bytes) <= UnitDomain

\* memory::effective_units: what a permit holds once a reading is known.
effective_units(mode, remaining, bytes) ==
  CASE mode = "Estimated" -> remaining
    [] mode = "Measured"  -> units_for(bytes)
    [] mode = "Hybrid"    -> Max({remaining, units_for(bytes)})

\* An Estimated class never converts the reading, so it cannot fail.
conversion_fails(mode, bytes) == mode # "Estimated" /\ ~representable(bytes)

is_stale(touched, now, stale_after) == touched + stale_after < now

stage_release_allowed(c) ==
  Policy[c].release \in {"OnStageBoundary", "LeakDetecting"}
=============================================================================
