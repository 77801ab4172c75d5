------------------------------- MODULE Builder ------------------------------
(***************************************************************************)
(* Assembling a runtime (taskmesh/src/builder.rs): the calls on a Builder, *)
(* in any order, and Builder::build, which either refuses with the first   *)
(* error it meets or fixes the capability authority, the executor and the  *)
(* class policies of the runtime for good.                                 *)
(***************************************************************************)
EXTENDS Inventory

CONSTANTS
  TopologyInputs, BudgetInputs, ExecutorInputs,  \* what the calls pass
  ClassInputs,      \* pairs <<class, policy>>
  SubstrateInputs,  \* SubstrateRecords
  LimitInputs,      \* pairs <<pool, slots>>
  Machines,         \* [available, rayon]: detected parallelism, and whether the
                    \* rayon feature is "off", "on", or "on" and out of threads
  Extended          \* bound: a builder of so many calls takes one more

ASSUME BuilderAssumption ==
  /\ MaxSlots \in Nat /\ Extended \subseteq Nat
  /\ TopologyInputs \subseteq Topologies /\ BudgetInputs \subseteq Budgets
  /\ ExecutorInputs \subseteq Executors
  /\ \A input \in SubstrateInputs : input.kind \in SubstrateKinds
  /\ \A input \in ClassInputs : input[2] \in ClassPolicies

VARIABLES
  builder,   \* the Builder, by value; NoBuilder once build has consumed it
  calls,     \* the calls made so far
  outcome,   \* what build returned: Ok, an error, or Pending
  runtime    \* the runtime it built, or NoRuntime

builderVars == <<builder, calls, outcome, runtime>>

NoExecutor == [legacy EXCEPT !.domain = "default"]
Empty == <<>>
Pending == "Pending"
NoBuilder == [consumed |-> TRUE]
NoRuntime == [built |-> FALSE]

\* Builder::default.
new_builder ==
  [consumed |-> FALSE, topology |-> default_topology, budget |-> default_budget,
   classes |-> Empty, substrates |-> <<>>, limits |-> Empty,
   error |-> Ok, executor |-> NoExecutor]

\* registration_error.get_or_insert_with: the first error stays.
keep_first(error, new) == IF error = Ok THEN new ELSE error

\* Mutant of class_policy: a repeated class replaces the policy.
class_policy_last_wins(b, c, p) == [b EXCEPT !.classes = (c :> p) @@ @]

\* Builder::class_policy and Builder::capability_limit: a repetition is recorded
\* and changes nothing else.
class_policy(b, c, p) ==
  IF c \in DOMAIN b.classes
  THEN [b EXCEPT !.error = keep_first(@, "DuplicateClass")]
  ELSE [b EXCEPT !.classes = @ @@ (c :> p)]

capability_limit(b, pool, slots) ==
  IF pool \in DOMAIN b.limits
  THEN [b EXCEPT !.error = keep_first(@, "DuplicateLimit")]
  ELSE [b EXCEPT !.limits = @ @@ (pool :> slots)]

BuilderInit ==
  /\ builder = new_builder /\ calls = <<>>
  /\ outcome = Pending /\ runtime = NoRuntime

Call(b, call) ==
  /\ outcome = Pending /\ Len(calls) \in Extended
  /\ builder' = b
  /\ calls' = Append(calls, call)
  /\ UNCHANGED <<outcome, runtime>>

SetTopology(t) == Call([builder EXCEPT !.topology = t], <<"topology", t>>)
SetResources(b) == Call([builder EXCEPT !.budget = b], <<"resources", b>>)
SetCpuExecutor(e) == Call([builder EXCEPT !.executor = e], <<"executor", e>>)
AddClass(c, p) == Call(class_policy(builder, c, p), <<"class", c, p>>)
AddLimit(pool, slots) == Call(capability_limit(builder, pool, slots), <<"limit", pool, slots>>)
AddSubstrate(r) == Call([builder EXCEPT !.substrates = Append(@, r)], <<"substrate", r>>)

-----------------------------------------------------------------------------
\* Builder::build

\* default_cpu_executor: Rayon on the resolved workers, or a share of the
\* blocking pool.
installed(b, machine, workers) ==
  IF b.executor # NoExecutor THEN b.executor
  ELSE IF machine.rayon = "off" THEN blocking_pool_executor(workers[SHARED_BLOCKING])
  ELSE rayon_executor(workers[PHYSICAL_CPU])

pool_fails(b, machine) == b.executor = NoExecutor /\ machine.rayon = "out of threads"

executor_error(e, workers) ==
  first_error(<<
    <<~e.nonblocking, "ExecutorSubmissionMayBlock">>,
    <<e.domain = "unknown", "ExecutorPhysicalDomainUnknown">>,
    <<e.domain \notin {SHARED_BLOCKING, PHYSICAL_CPU}, "UnknownExecutorPhysicalDomain">>,
    <<e.workers = Unknown, "ExecutorWorkerCountUnknown">>,
    <<e.domain \in Domains /\ e.workers # workers[IF e.domain \in Domains THEN e.domain
                                                 ELSE PHYSICAL_CPU],
      "ExecutorWorkerCountMismatch">> >>)

builder_owned_pool(pool) == pool \in BUILTIN_SUBSTRATES \cup Domains

\* The limits of the built-in pools follow from the topology alone; the CPU pool
\* and the physical domains always have one.
topology_limits(t, workers) ==
  LET declared == declared_slots(t)
  IN ("cpu" :> workers[PHYSICAL_CPU]) @@ workers
     @@ [pool \in {p \in DOMAIN declared : declared[p] # 0} |-> declared[pool]]

\* The records Builder::build adds for the physical domains.
physical_domain_records ==
  <<substrate("host-domain:physical.shared_blocking", "CompetingExecution", SHARED_BLOCKING),
    substrate("host-domain:physical.cpu", "CompetingExecution", PHYSICAL_CPU),
    substrate("host-domain:physical.dedicated", "CompetingExecution", DEDICATED)>>

\* The first refusal of Builder::build, which stops at it.
build_error(b, machine, workers, records, limits) ==
  LET refused == executor_error(installed(b, machine, workers), workers)
  IN IF b.error # Ok THEN b.error
     ELSE IF validate_topology(b.topology) # Ok THEN validate_topology(b.topology)
     ELSE IF \E domain \in Domains : workers[domain] > MaxSlots THEN "SlotCountTooLarge"
     ELSE IF pool_fails(b, machine) THEN "PoolBuildFailed"
     ELSE IF refused # Ok THEN refused
     ELSE IF substrates_error(records) # Ok THEN substrates_error(records)
     ELSE IF \E pool \in DOMAIN b.limits : builder_owned_pool(pool) THEN "BuiltinPoolOverridden"
     ELSE IF limits_error(records, limits) # Ok THEN limits_error(records, limits)
     ELSE IF inventory_error(records, limits) # Ok THEN inventory_error(records, limits)
     ELSE policy_error(b.classes, b.budget)

Build(machine) ==
  \E workers \in {resolved_workers(builder.topology, machine.available)} :
    \E limits \in {topology_limits(builder.topology, workers) @@ builder.limits},
      records \in {builder.substrates \o physical_domain_records} :
      \E error \in {build_error(builder, machine, workers, records, limits)} :
        /\ outcome' = error
        /\ runtime' =
             IF error # Ok THEN NoRuntime
             ELSE [built |-> TRUE, topology |-> builder.topology, workers |-> workers,
                   classes |-> builder.classes, executor |-> installed(builder, machine, workers),
                   capabilities |-> capabilities(limits)]
        /\ builder' = NoBuilder
        /\ UNCHANGED calls

BuilderNext ==
  \/ \E t \in TopologyInputs : SetTopology(t)
  \/ \E b \in BudgetInputs : SetResources(b)
  \/ \E e \in ExecutorInputs : SetCpuExecutor(e)
  \/ \E input \in ClassInputs : AddClass(input[1], input[2])
  \/ \E input \in LimitInputs : AddLimit(input[1], input[2])
  \/ \E r \in SubstrateInputs : AddSubstrate(r)
  \/ outcome = Pending /\ \E machine \in Machines : Build(machine)

-----------------------------------------------------------------------------
\* Properties

\* The registrations of a class or a pool that an earlier call had registered.
repetitions ==
  {i \in DOMAIN calls :
     \E j \in 1..(i - 1) :
       /\ calls[i][1] \in {"class", "limit"} /\ calls[j][1] = calls[i][1]
       /\ calls[j][2] = calls[i][2]}

\* The last value given to a setting, or its default.
last(setting, default) ==
  LET set == {i \in DOMAIN calls : calls[i][1] = setting}
  IN IF set = {} THEN default ELSE calls[Max(set)][2]

\* What is live is what was declared: no class and no pool that was declared
\* twice ever becomes live, whatever calls or strict text declared it, and build
\* reports the first repetition; a runtime carries every declared policy and
\* every declared limit; the built-in pools have the limits of the last topology,
\* and CPU work runs on the last executor that was set.
DeclaredIsLive ==
  /\ outcome \in {"DuplicateClass", "DuplicateLimit"} =>
       /\ repetitions # {}
       /\ (outcome = "DuplicateClass") = (calls[Min(repetitions)][1] = "class")
  /\ runtime.built =>
       /\ repetitions = {}
       /\ \A i \in DOMAIN calls :
            /\ calls[i][1] = "class" => runtime.classes[calls[i][2]] = calls[i][3]
            /\ calls[i][1] = "limit" => runtime.capabilities[calls[i][2]] = calls[i][3]
       /\ LET declared == declared_slots(last("topology", default_topology))
          IN \A pool \in DOMAIN declared : runtime.capabilities[pool] = declared[pool]
       /\ last("executor", NoExecutor) \in {NoExecutor, runtime.executor}
       /\ \A domain \in Domains : runtime.capabilities[domain] \in 1..MaxSlots
=============================================================================
