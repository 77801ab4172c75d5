----------------------------- MODULE MCStartup ------------------------------
(***************************************************************************)
(* A small instance of Builder, Plans and Ingress.                         *)
(***************************************************************************)
EXTENDS Ingress

small == [default_topology EXCEPT !.cpu = 1, !.shared_blocking = 2, !.dedicated = 2,
                                  !.large_stack = 1, !.maintenance = 1]

MCTopologies ==
  {small,
   [default_topology EXCEPT !.reserve = 1, !.max = 2, !.local_runtime = 1],
   [small EXCEPT !.min = 3, !.max = 2],        \* an inverted window
   [small EXCEPT !.cpu = 0],
   [small EXCEPT !.dedicated = MaxSlots + 1],
   [small EXCEPT !.blocking = MaxSlots + 1]}

MCBudgets == {[default_budget EXCEPT !.cpu = 1, !.bytes_per_unit = 0]}

MCExecutors ==
  {rayon_executor(1), blocking_pool_executor(2), legacy,
   [rayon_executor(2) EXCEPT !.domain = "elsewhere"],
   [rayon_executor(2) EXCEPT !.workers = Unknown],
   [blocking_pool_executor(2) EXCEPT !.domain = "unknown"]}

timed == [default_policy EXCEPT !.cancellation = "CooperativeWithDeadline"]
wfq == [default_policy EXCEPT !.fairness = "Wfq", !.parameter = 1]

MCClasses ==
  {<<1, timed>>, <<1, wfq>>, <<2, default_policy>>,
   <<0, timed>>,
   <<2, [wfq EXCEPT !.parameter = 0]>>,
   <<2, [timed EXCEPT !.overcommit = "DegradeToLight", !.fallback = 1]>>,
   <<2, [timed EXCEPT !.cpu = 2, !.mode = "Measured"]>>,
   <<3, [timed EXCEPT !.overflow = "QueueWithinDepth"]>>,
   <<3, [timed EXCEPT !.fairness = "Scavenger"]>>}

extra == substrate("legacy-pool", "RetireOrMigrate", "legacy")
MCSubstrates ==
  {extra, substrate("cpu", "CompetingExecution", "cpu"), substrate("audit", "AuthorityOnly", NoPool),
   substrate("lost", "CompetingExecution", NoPool)}

MCLimits == {<<"legacy", 2>>, <<"legacy", 0>>, <<"cpu", 3>>, <<PHYSICAL_CPU, 1>>, <<Blank, 1>>}

MCMachines ==
  {[available |-> n, rayon |-> r] : n \in {2, MaxSlots + 1}, r \in {"off", "on"}}
  \cup {[available |-> 2, rayon |-> "out of threads"]}

\* Deployments: complete, with a repeated class, and with a repeated pool.
deployment ==
  [topology |-> small, budget |-> default_budget,
   classes |-> <<<<1, timed>>, <<2, default_policy>>>>, substrates |-> <<extra>>,
   limits |-> <<<<"legacy", 2>>>>]
MCDeclarations ==
  {deployment,
   [deployment EXCEPT !.classes = <<<<1, timed>>, <<2, default_policy>>, <<1, default_policy>>>>],
   [deployment EXCEPT !.limits = <<<<"legacy", 1>>, <<"legacy", 2>>>>]}

\* Tasks: every hint, with and without a stack request, and malformed ones.
named(hint) == operation(base(1, hint), 1)
MCSpecs ==
  {named(hint) : hint \in {"AsyncIo", "SharedCpuExecutor", "LocalRuntime"} \cup BlockingFamily}
  \cup {stack_size_bytes(named(hint), 1) : hint \in {"AsyncIo"} \cup BlockingFamily}
  \cup {stack_size_bytes(named("BlockingPool"), size) : size \in {0, MaxStack, MaxStack + 1}}
  \cup {operation(base(2, "AsyncIo"), 1), operation(base(3, "AsyncIo"), 1)}
  \cup {base(1, "AsyncIo"),                                   \* no operation
        operation(child_of(named("AsyncIo"), 1, 1, 2, TRUE), 2),
        child_of(named("AsyncIo"), 1, 2, 2, FALSE),           \* the child is the root
        operation(child_of(named("AsyncIo"), 1, 2, 2, FALSE), 2),
        add_stage(named("AsyncIo"), 2, "BlockingPool", TRUE, 1),
        add_stage(named("AsyncIo"), 2, "BlockingPool", TRUE, NoReduce),
        add_stage(named("AsyncIo"), 1, "AsyncIo", FALSE, NoReduce),
        add_stage(named("AsyncIo"), 1, "BlockingPool", FALSE, NoReduce)}

plain == [deadline |-> "none", acquire_timeout |-> FALSE, response_by |-> FALSE, tokio |-> TRUE]
MCSubmissions ==
  {plain, [plain EXCEPT !.deadline = "RunFor"], [plain EXCEPT !.deadline = "CompleteBy"],
   [plain EXCEPT !.response_by = TRUE], [plain EXCEPT !.tokio = FALSE],
   [plain EXCEPT !.tokio = FALSE, !.acquire_timeout = TRUE],
   [plain EXCEPT !.response_by = TRUE, !.deadline = "RunFor"]}

MCTags == {"absent", "null", "shared_blocking", "requested_stack"}
MCDefects ==
  {"none", "repeated key", "unknown key", "raw stack", "missing key", "object for a scalar",
   "array for an object", "cut off", "trailing"}
MCIngressLimits ==
  {[bytes |-> b, depth |-> d, stages |-> s] : b \in {0, 9, 20}, d \in {2, 3, 8}, s \in {1, 2}}
=============================================================================
