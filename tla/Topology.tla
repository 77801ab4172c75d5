------------------------------ MODULE Topology ------------------------------
(***************************************************************************)
(* How a declared topology becomes worker counts                           *)
(* (taskmesh-contract/src/topology.rs), and what a CPU executor declares   *)
(* about itself (ports.rs).                                                *)
(***************************************************************************)
EXTENDS Integers, Sequences, FiniteSetsExt, TLC

CONSTANT MaxSlots   \* MAX_CAPABILITY_SLOTS: u32::MAX

UsizeMax == (MaxSlots + 1) * (MaxSlots + 1) - 1   \* twice the width of u32

Ok == "Ok"

\* Checks in the order the code makes them: the first that fails is the error.
first_error(checks) ==
  Head(SelectSeq(checks, LAMBDA check : check[1]) \o << <<TRUE, Ok>> >>)[2]

Auto == -1      \* CpuMode::Auto, PhysicalDomainMode::Auto
Unknown == -1   \* a worker count that is not declared

at_least_one(n) == Max({n, 1})

SHARED_BLOCKING == "physical.shared_blocking"
PHYSICAL_CPU == "physical.cpu"
DEDICATED == "physical.dedicated"
Domains == {SHARED_BLOCKING, PHYSICAL_CPU, DEDICATED}

\* CpuPoolConfig, the slot counts of the roles and the physical domains.
Topologies ==
  [cpu: Nat \cup {Auto}, reserve: Nat, min: Nat, max: Nat,
   blocking: Nat, large_stack: Nat, maintenance: Nat, local_runtime: Nat,
   shared_blocking: Nat \cup {Auto}, dedicated: Nat \cup {Auto}]

\* TopologyConfig::default.
default_topology ==
  [cpu |-> Auto, reserve |-> 0, min |-> 1, max |-> UsizeMax,
   blocking |-> 0, large_stack |-> 0, maintenance |-> 0, local_runtime |-> 0,
   shared_blocking |-> Auto, dedicated |-> Auto]

\* A slot count of zero means no limit for that pool.
declared_slots(t) ==
  [blocking |-> t.blocking, large_stack |-> t.large_stack,
   maintenance |-> t.maintenance, local_runtime |-> t.local_runtime]

validate_topology(t) ==
  first_error(<<
    <<at_least_one(t.min) > at_least_one(t.max), "InvertedCpuWorkerBounds">>,
    <<t.cpu = 0, "ZeroFixedCpuWorkers">>,
    <<t.shared_blocking = 0, "ZeroFixedPhysicalDomain">>,
    <<t.shared_blocking > MaxSlots, "SlotCountTooLarge">>,
    <<t.dedicated = 0, "ZeroFixedPhysicalDomain">>,
    <<t.dedicated > MaxSlots, "SlotCountTooLarge">>,
    <<\E pool \in DOMAIN declared_slots(t) : declared_slots(t)[pool] > MaxSlots,
      "SlotCountTooLarge">> >>)

\* resolve_cpu_workers_unchecked: total even for an inverted window.
resolved_cpu_workers(t, available) ==
  LET base == IF t.cpu = Auto THEN Max({available - t.reserve, 0}) ELSE t.cpu
      lo == at_least_one(t.min)
      hi == at_least_one(t.max)
  IN Min({Max({base, lo}), Max({hi, lo})})

\* try_resolved_physical_domain, once the topology is valid.
auto(workers, available) == IF workers = Auto THEN at_least_one(available) ELSE workers
resolved_workers(t, available) ==
  (PHYSICAL_CPU :> resolved_cpu_workers(t, available))
  @@ (SHARED_BLOCKING :> auto(t.shared_blocking, available))
  @@ (DEDICATED :> auto(t.dedicated, available))

-----------------------------------------------------------------------------
\* ExecutorCapabilities: what an adapter declares, unknown where it says nothing.
Executors ==
  [nonblocking: BOOLEAN, workers: Nat \cup {Unknown}, domain: STRING, tokio: BOOLEAN]

legacy == [nonblocking |-> FALSE, workers |-> Unknown, domain |-> "unknown", tokio |-> FALSE]

\* BlockingPoolCpuExecutor: a share of Tokio's blocking pool.
blocking_pool_executor(workers) ==
  [legacy EXCEPT !.nonblocking = TRUE, !.workers = workers,
                 !.domain = SHARED_BLOCKING, !.tokio = TRUE]

\* RayonCpuExecutor: a pool of its own, counted by its threads.
rayon_executor(threads) ==
  [legacy EXCEPT !.nonblocking = TRUE, !.workers = threads, !.domain = PHYSICAL_CPU]
=============================================================================
