----------------------------- MODULE Inventory ------------------------------
(***************************************************************************)
(* The policy a governor is built from and what makes it live: the         *)
(* substrate registry (features/inventory), the capability authority       *)
(* (PolicySet, shared/mod.rs) and validate_policy                          *)
(* (engine/governor/validation.rs).                                        *)
(*                                                                         *)
(* Identifiers are numbers; 0 stands for every spelling that               *)
(* validate_identifier refuses.                                            *)
(***************************************************************************)
EXTENDS Topology, SequencesExt

NoPool == "none"
Blank == ""

valid_identifier(id) == id # 0

\* SubstrateRecord.
SubstrateKinds == {"AuthorityOnly", "CompetingExecution", "MaintenanceOnly", "RetireOrMigrate"}
substrate(name, kind, pool) == [name |-> name, kind |-> kind, pool |-> pool]

builtin_records ==
  {substrate(p, "CompetingExecution", p) : p \in {"cpu", "blocking", "large_stack", "local_runtime"}}
  \cup {substrate("maintenance", "MaintenanceOnly", "maintenance")}
BUILTIN_SUBSTRATES == {r.name : r \in builtin_records}

validate_record(r) ==
  r.name # Blank /\ (r.kind # "AuthorityOnly" => r.pool \notin {NoPool, Blank})

provides_capability(r, pool) == r.kind # "AuthorityOnly" /\ r.pool = pool

\* with_substrates: register one after the other on top of the built-ins.
substrates_error(records) ==
  first_error([i \in DOMAIN records |->
    << \/ ~validate_record(records[i])
       \/ records[i].name \in BUILTIN_SUBSTRATES
       \/ \E j \in 1..(i - 1) : records[j].name = records[i].name,
       IF validate_record(records[i]) THEN "DuplicateSubstrate" ELSE "InvalidSubstrate">>])

registry(records) == builtin_records \cup ToSet(records)

\* with_capability_limits: a limit needs a substrate that executes on the pool.
limits_error(records, limits) ==
  first_error(<<
    <<Blank \in DOMAIN limits, "BlankPool">>,
    <<\E pool \in DOMAIN limits :
        ~\E r \in registry(records) : provides_capability(r, pool), "UnregisteredPool">> >>)

\* The capability authority: the built-in pools are unlimited unless declared.
unlimited == [pool \in {r.pool : r \in builtin_records} |-> 0]
capabilities(limits) == limits @@ unlimited

\* PolicySet::resolve_capability, and Ungated for a stage that names no pool.
resolve_capability(authority, pool) ==
  CASE pool = NoPool -> "Ungated"
    [] pool = Blank -> "EmptyName"
    [] pool \in DOMAIN authority -> "Registered"
    [] OTHER -> "UnknownName"

\* CapabilityRequirementSet::from_resolved: each registered pool once, Ungated
\* adds nothing.
from_resolved(pools) == pools \ {NoPool}

\* validate_inventory: every capability is executed by someone, and every
\* substrate that executes has authority for its pool.
inventory_error(records, limits) ==
  LET all == registry(records)
  IN first_error(<<
       <<\E r \in all : ~validate_record(r), "InvalidSubstrate">>,
       <<~(builtin_records \subseteq all), "MissingBuiltin">>,
       <<\E pool \in DOMAIN capabilities(limits) :
           ~\E r \in all : provides_capability(r, pool), "UnboundCapability">>,
       <<\E r \in all : /\ r.kind # "AuthorityOnly"
                        /\ r.pool \notin DOMAIN capabilities(limits), "NoAuthority">> >>)

-----------------------------------------------------------------------------
\* Class policies

\* ResourceBudget: zero is no limit.
Budgets == [cpu: Nat, mem: Nat, request_cpu: Nat, request_mem: Nat, bytes_per_unit: Nat]
default_budget == [cpu |-> 0, mem |-> 0, request_cpu |-> 0, request_mem |-> 0, bytes_per_unit |-> 1]

\* ClassPolicy and the enumerations of its fields; parameter is a weight, a
\* quantum or a slack.
FairnessPolicies == {"Fifo", "Wfq", "Drr", "DeadlineAware", "Scavenger"}
MemoryPermitModes == {"Estimated", "Measured", "Hybrid"}
MemoryOvercommitPolicies == {"Reject", "Queue", "DegradeToLight"}
OverflowPolicies == {"Reject", "QueueWithinDepth", "DropBestEffort"}
CancellationPolicies == {"PreSubmitOnly", "Cooperative", "CooperativeWithDeadline"}

ClassPolicies ==
  [max_inflight: Nat, max_queue_depth: Nat, cpu: Nat, mem: Nat, fairness: FairnessPolicies,
   parameter: Nat, best_effort: BOOLEAN, mode: MemoryPermitModes,
   overcommit: MemoryOvercommitPolicies, fallback: Nat, overflow: OverflowPolicies,
   cancellation: CancellationPolicies]

\* ClassPolicy::default.
default_policy ==
  [max_inflight |-> 99, max_queue_depth |-> 0, cpu |-> 0, mem |-> 0,
   fairness |-> "Fifo", parameter |-> 0, best_effort |-> FALSE, mode |-> "Estimated",
   overcommit |-> "Reject", fallback |-> 0, overflow |-> "Reject",
   cancellation |-> "PreSubmitOnly"]

is_disabled(p) == p.max_inflight = 0
exceeds(cost, limit) == limit # 0 /\ cost > limit

\* The checks of validate_policy on one class, in their order.
class_error(classes, budget, c) ==
  LET p == classes[c]
      degrades == p.overcommit = "DegradeToLight"
      known == degrades /\ p.fallback \in DOMAIN classes
  IN first_error(<<
       <<~valid_identifier(c), "InvalidClass">>,
       <<exceeds(p.cpu, budget.request_cpu), "RequestCpu">>,
       <<exceeds(p.mem, budget.request_mem), "RequestMemory">>,
       <<exceeds(p.cpu, budget.cpu), "GlobalCpu">>,
       <<exceeds(p.mem, budget.mem), "GlobalMemory">>,
       <<p.mode # "Estimated" /\ budget.bytes_per_unit = 0, "Unscaled">>,
       <<p.overflow = "QueueWithinDepth" /\ p.max_queue_depth = 0, "NoQueue">>,
       <<p.fairness = "Scavenger" /\ ~p.best_effort, "ScavengerTier">>,
       <<p.fairness \in {"Wfq", "Drr"} /\ p.parameter = 0, "ZeroShare">>,
       <<p.overcommit = "Queue" /\ p.max_queue_depth = 0, "NoQueue">>,
       <<degrades /\ p.fallback = c, "DegradesToItself">>,
       <<degrades /\ ~known, "UnknownFallback">>,
       <<known /\ is_disabled(classes[IF known THEN p.fallback ELSE c]), "DisabledFallback">>,
       <<known /\ classes[IF known THEN p.fallback ELSE c].overcommit = "DegradeToLight",
         "ChainedFallback">> >>)

\* One discipline per tier; a disabled class takes part in none.
mixed_tier(classes) ==
  \E c, d \in DOMAIN classes :
    /\ ~is_disabled(classes[c]) /\ ~is_disabled(classes[d])
    /\ classes[c].best_effort = classes[d].best_effort
    /\ classes[c].fairness # classes[d].fairness

\* The classes are checked in their order, then the tiers.
policy_error(classes, budget) ==
  LET invalid == {c \in DOMAIN classes : class_error(classes, budget, c) # Ok}
  IN IF invalid # {} THEN class_error(classes, budget, Min(invalid))
     ELSE IF mixed_tier(classes) THEN "MixedTier" ELSE Ok
=============================================================================
