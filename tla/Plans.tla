-------------------------------- MODULE Plans -------------------------------
(***************************************************************************)
(* From a TaskSpec to a dispatch: the contract's shape rules               *)
(* (taskmesh-contract/src/task.rs, validation.rs), the preflight of a run  *)
(* path (taskmesh/src/execution_plan.rs) and the checks made before a      *)
(* permit exists (runtime/acquisition.rs), on a runtime that Builder       *)
(* built.  A dispatch occupies its pools until it finishes; who waits when *)
(* they are full is the governor's business (Governor).                    *)
(***************************************************************************)
EXTENDS Builder, Bags

CONSTANTS
  Specs,          \* the TaskSpecs submitted
  Submissions,    \* SubmitOptions with the caller's context
  MaxStack,       \* MAX_REQUESTED_STACK_BYTES
  MaxRunning,     \* bound: jobs running at once
  Configured      \* bound: work is submitted to runtimes of so many calls

VARIABLES
  running,   \* the bag of dispatched jobs
  result     \* what the last submission met: Ok or its error

planVars == <<builderVars, running, result>>

-----------------------------------------------------------------------------
\* TaskSpec: identifiers are numbers, 0 one that is not valid (or missing)

NoStack == -1
NoReduce == -1
Root == [kind |-> "Root", parent |-> 0, stage |-> 0, awaits |-> FALSE]

stage_of(class, stage, hint, fan_out, reduce) ==
  [class |-> class, stage |-> stage, hint |-> hint, fan_out |-> fan_out, reduce |-> reduce]

\* TaskSpec::base, whose bootstrap stage is named after the hint (stage 1).
base(class, hint) ==
  [class |-> class, operation |-> 0, root |-> 0, scope |-> Root, stack |-> NoStack,
   stages |-> <<stage_of(class, 1, hint, FALSE, NoReduce)>>]

\* Naming a child's own operation never re-roots it.
operation(spec, name) ==
  [spec EXCEPT !.operation = name,
               !.root = IF spec.scope.kind = "Root" THEN name ELSE @]

child_of(spec, root, parent, stage, awaits) ==
  [spec EXCEPT !.root = root,
               !.scope = [kind |-> "Child", parent |-> parent, stage |-> stage, awaits |-> awaits]]

add_stage(spec, stage, hint, fan_out, reduce) ==
  [spec EXCEPT !.stages = Append(@, stage_of(spec.class, stage, hint, fan_out, reduce))]

stack_size_bytes(spec, bytes) == [spec EXCEPT !.stack = bytes]

primary_substrate_hint(spec) == IF spec.stages = <<>> THEN "AsyncIo" ELSE spec.stages[1].hint

\* The checks validate_task_spec makes on the i-th stage.
stage_error(spec, i) ==
  LET d == spec.stages[i]
      earlier == {j \in 1..(i - 1) : spec.stages[j].stage = d.stage}
  IN first_error(<<
       <<~valid_identifier(d.stage), "InvalidIdentifier">>,
       <<\E j \in earlier : spec.stages[j] = d, "DuplicateStage">>,
       <<earlier # {}, "ConflictingStage">>,
       <<d.class # spec.class, "StageClassMismatch">>,
       <<d.fan_out /\ d.reduce = NoReduce, "MissingReducePolicy">>,
       <<~d.fan_out /\ d.reduce # NoReduce, "UnexpectedReducePolicy">>,
       <<d.reduce # NoReduce /\ ~valid_identifier(d.reduce), "InvalidIdentifier">> >>)

validate_task_spec(spec) ==
  LET child == spec.scope.kind = "Child"
  IN first_error(<<
       <<~valid_identifier(spec.class), "InvalidIdentifier">>,
       <<~valid_identifier(spec.operation), "InvalidIdentifier">>,
       <<~valid_identifier(spec.root), "InvalidIdentifier">>,
       <<~child /\ spec.operation # spec.root, "RootIdentityMismatch">>,
       <<child /\ ~valid_identifier(spec.scope.parent), "InvalidIdentifier">>,
       <<child /\ ~valid_identifier(spec.scope.stage), "InvalidIdentifier">>,
       <<child /\ spec.operation = spec.root, "ChildOperationMatchesRoot">>,
       <<child /\ spec.operation = spec.scope.parent, "ParentOperationMatchesChild">>,
       <<spec.stages = <<>>, "NoStages">> >>
     \o [i \in DOMAIN spec.stages |->
           LET refused == stage_error(spec, i) IN <<refused # Ok, refused>>])

-----------------------------------------------------------------------------
\* Run paths: the hints each accepts and what it does once admitted

BlockingFamily == {"BlockingPool", "LargeStackCapability", "BackgroundOnly"}

Paths ==
  [run_io |-> [allowed |-> {"AsyncIo"}, dispatch |-> "CallerFuture"],
   run_local |-> [allowed |-> {"LocalRuntime"}, dispatch |-> "CallerFuture"],
   run_blocking |-> [allowed |-> BlockingFamily, dispatch |-> "BlockingPool"],
   run_cpu |-> [allowed |-> {"SharedCpuExecutor"}, dispatch |-> "CpuExecutor"],
   run_async_with_requested_stack |->
     [allowed |-> {"LargeStackCapability"}, dispatch |-> "DedicatedStackRuntime"]]

Dedicated == {"DedicatedStackThread", "DedicatedStackRuntime"}
Synchronous == {"BlockingPool", "CpuExecutor", "DedicatedStackThread"}

\* SubstrateHint::capability_pool.
capability_pool(hint) ==
  CASE hint = "AsyncIo" -> NoPool
    [] hint = "BlockingPool" -> "blocking"
    [] hint = "SharedCpuExecutor" -> "cpu"
    [] hint = "LargeStackCapability" -> "large_stack"
    [] hint = "LocalRuntime" -> "local_runtime"
    [] hint = "BackgroundOnly" -> "maintenance"

wants_dedicated_thread(spec) ==
  spec.stack # NoStack /\ primary_substrate_hint(spec) \in BlockingFamily

\* A stack request moves a synchronous job to a thread of its own.
resolved_dispatch(spec, path) ==
  IF wants_dedicated_thread(spec) /\ Paths[path].dispatch = "BlockingPool"
  THEN "DedicatedStackThread" ELSE Paths[path].dispatch

stack_error(spec, dispatch) ==
  first_error(<<
    <<dispatch \in Dedicated /\ spec.stack = 0, "ZeroStack">>,
    <<dispatch \in Dedicated /\ spec.stack > MaxStack, "StackTooLarge">>,
    <<dispatch = "DedicatedStackRuntime" /\ spec.stack = NoStack, "MissingStack">>,
    <<dispatch \notin Dedicated /\ spec.stack # NoStack, "StackUnsupported">> >>)

\* Mutant of physical_domain: the CPU executor is always charged to its own
\* domain, wherever it runs.
physical_domain_by_name(dispatch, executor) ==
  CASE dispatch = "BlockingPool" -> SHARED_BLOCKING
    [] dispatch = "CpuExecutor" -> PHYSICAL_CPU
    [] dispatch \in Dedicated -> DEDICATED
    [] dispatch = "CallerFuture" -> NoPool

physical_domain(dispatch, executor) ==
  CASE dispatch = "BlockingPool" -> SHARED_BLOCKING
    [] dispatch = "CpuExecutor" -> executor.domain
    [] dispatch \in Dedicated -> DEDICATED
    [] dispatch = "CallerFuture" -> NoPool

\* The role pool and the physical domain, charged together.
requirements(spec, dispatch, executor) ==
  from_resolved({IF wants_dedicated_thread(spec) THEN capability_pool("LargeStackCapability")
                 ELSE capability_pool(primary_substrate_hint(spec)),
                 physical_domain(dispatch, executor)})

cancellation_policy(spec) ==
  IF spec.class \in DOMAIN runtime.classes THEN runtime.classes[spec.class].cancellation
  ELSE "UnknownClass"

\* Mutant of deadline_unsupported: a deadline the class cannot enforce is dropped.
deadline_dropped(spec, opts) == FALSE

\* An unknown class is left for admission to refuse.
deadline_unsupported(spec, opts) ==
  /\ opts.deadline # "none"
  /\ cancellation_policy(spec) \notin {"UnknownClass", "CooperativeWithDeadline"}

\* ValidatedDispatchPlan::preflight.
preflight_error(spec, opts, path) ==
  LET dispatch == resolved_dispatch(spec, path)
      stack == stack_error(spec, dispatch)
  IN IF validate_task_spec(spec) # Ok THEN "MalformedTask"
     ELSE IF primary_substrate_hint(spec) \notin Paths[path].allowed THEN "SubstrateMismatch"
     ELSE first_error(<<
       <<stack # Ok, stack>>,
       <<deadline_unsupported(spec, opts), "DeadlineUnsupported">>,
       <<\E pool \in requirements(spec, dispatch, runtime.executor) :
           resolve_capability(runtime.capabilities, pool) # "Registered",
         "UnresolvedCapability">> >>)

plan_deadline(spec, opts) ==
  IF cancellation_policy(spec) = "CooperativeWithDeadline" THEN opts.deadline ELSE "none"

\* preflight_runtime_context: what needs the caller to be inside Tokio.
timer_required(spec, opts, dispatch) ==
  \/ opts.response_by
  \/ opts.acquire_timeout
  \/ plan_deadline(spec, opts) \in
       CASE dispatch = "CallerFuture" -> {"RunFor", "CompleteBy"}
         [] dispatch \in Synchronous -> {"RunFor"}
         [] dispatch = "DedicatedStackRuntime" -> {"CompleteBy"}

context_error(spec, opts, dispatch) ==
  first_error(<<
    <<~opts.tokio /\ primary_substrate_hint(spec) = "LocalRuntime", "LocalRuntimeUnavailable">>,
    << /\ ~opts.tokio
       /\ \/ dispatch = "BlockingPool"
          \/ dispatch = "CpuExecutor" /\ runtime.executor.tokio
          \/ timer_required(spec, opts, dispatch),
       "WorkerUnavailable">> >>)

\* Everything a run path checks before it asks the governor.
submission_error(spec, opts, path) ==
  LET dispatch == resolved_dispatch(spec, path)
      preflight == preflight_error(spec, opts, path)
      context == context_error(spec, opts, dispatch)
  IN IF preflight # Ok THEN preflight
     ELSE first_error(<<
       <<opts.response_by /\ opts.deadline # "none", "ResponseBoundaryWithDeadline">>,
       <<dispatch \in Synchronous /\ plan_deadline(spec, opts) = "CompleteBy",
         "AbsoluteDeadlineUnsupported">>,
       <<context # Ok, context>> >>)

-----------------------------------------------------------------------------
jobs(where(_)) == BagCardinality([job \in {j \in DOMAIN running : where(j)} |-> running[job]])

\* The governor's answer, as far as the pools go.
room(pools) ==
  \A pool \in pools :
    \/ runtime.capabilities[pool] = 0
    \/ LET charged(job) == pool \in job.requirements
       IN jobs(charged) < runtime.capabilities[pool]

PlanInit == BuilderInit /\ running = EmptyBag /\ result = Ok

\* A refusal leaves nothing behind to continue from.
submitting ==
  /\ runtime.built /\ result = Ok
  /\ Len(calls) \in Configured /\ BagCardinality(running) < MaxRunning

Submit(spec, opts, path) ==
  LET dispatch == resolved_dispatch(spec, path)
      pools == requirements(spec, dispatch, runtime.executor)
      refused == submission_error(spec, opts, path)
      job == [dispatch |-> dispatch, requirements |-> pools, hint |-> primary_substrate_hint(spec),
              stack |-> spec.stack, deadline |-> plan_deadline(spec, opts), opts |-> opts]
  IN /\ opts.response_by => path \in {"run_blocking", "run_cpu"}
     /\ result' = IF refused # Ok THEN refused
                  ELSE first_error(<<
                    <<spec.class \notin DOMAIN runtime.classes, "UnknownClass">>,
                    <<~room(pools), "NoRoom">> >>)
     /\ running' = IF result' = Ok THEN running (+) SetToBag({job}) ELSE running
     /\ UNCHANGED builderVars

Finish(job) ==
  /\ result = Ok
  /\ running' = running (-) SetToBag({job})
  /\ UNCHANGED <<builderVars, result>>

PlanNext ==
  \/ BuilderNext /\ UNCHANGED <<running, result>>
  \/ submitting /\ \E spec \in Specs, opts \in Submissions, path \in DOMAIN Paths :
                     Submit(spec, opts, path)
  \/ \E job \in DOMAIN running : Finish(job)

-----------------------------------------------------------------------------
\* Properties

\* Where a job really executes, whatever it was charged for.
executes_on(job, domain) ==
  CASE job.dispatch = "BlockingPool" -> domain = SHARED_BLOCKING
    [] job.dispatch = "CpuExecutor" -> domain = runtime.executor.domain
    [] job.dispatch \in Dedicated -> domain = DEDICATED
    [] job.dispatch = "CallerFuture" -> FALSE

\* No worker domain ever executes more jobs than it has workers, whichever run
\* paths and hints they came through and whichever executor runs CPU work; jobs
\* with a stack of their own never exceed the declared large-stack slots.
WorkersNotOversubscribed ==
  runtime.built =>
    /\ \A domain \in Domains :
         LET here(job) == executes_on(job, domain) IN jobs(here) <= runtime.workers[domain]
    /\ LET large(job) == job.stack # NoStack
       IN runtime.topology.large_stack = 0 \/ jobs(large) <= runtime.topology.large_stack

\* What the caller asked for is honoured or refused, never dropped: a job that
\* runs has the deadline it was submitted with, an absolute one only where the
\* work can be stopped, and the Tokio context it needs; and in a runtime that was
\* built no plan ever names a capability without authority.
PlanHonoursRequest ==
  /\ \A job \in DOMAIN running :
       /\ job.deadline = job.opts.deadline
       /\ job.deadline = "CompleteBy" => job.dispatch \notin Synchronous
       /\ job.opts.response_by => job.deadline = "none"
       /\ job.dispatch = "BlockingPool" \/ job.hint = "LocalRuntime" => job.opts.tokio
       /\ job.dispatch = "CpuExecutor" /\ runtime.executor.tokio => job.opts.tokio
       /\ job.dispatch \in Dedicated <=> job.stack # NoStack
       /\ job.stack # NoStack => job.stack \in 1..MaxStack
  /\ result # "UnresolvedCapability"
=============================================================================
