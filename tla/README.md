# A TLA+ model of taskmesh

taskmesh is a governed-execution control plane. Callers submit tasks. A
*Governor* admits each one, queues it or refuses it, charges the capacity it
uses, and gives the capacity to somebody else when the work ends. A Tokio *host*
runs the admitted work and hands the capacity back. This directory holds TLA+
modules of both, the TLC configurations that check them, and proofs that TLAPS
checks.

## The system

| part | code | state | module |
|---|---|---|---|
| Governor operations | `engine/governor.rs`, `engine/governor/*` | one `GovernedState` behind one mutex | `Governor` |
| state transitions | `engine/state.rs`, `engine/state/transition.rs` | permits, tickets, queues, ledgers, identity indexes | `GovState` |
| read-only views, consistency oracle | `governor/observation.rs`, `state/transition.rs` | none | `Observation` |
| admission assessment | `features/admission/*` | none (pure) | `GovState` |
| memory governance | `features/memory`, `memory_governance.rs` | per-permit ledger, totals, sticky fault | `GovState`, `Governor` |
| fairness scheduler | `features/fairness/scheduler.rs` | virtual time, deficits, tags | `GovState` (who is runnable), `Scheduler` (who wins) |
| composite lineage | `features/composite` | recursion guard | `GovState` |
| host acquisition | `taskmesh/src/runtime/acquisition.rs`, `executor/cancel.rs` | one waiter's loop, ticket guard | `Host` |
| host lease, detached workers | `taskmesh/src/runtime.rs`, `runtime/detached.rs`, `synchronous.rs` | custody of a lease | `Host` |
| host drain | `taskmesh/src/runtime/drain.rs` | mirror flag, `Notify` | `Drain` |
| topology, inventory | `taskmesh-contract/src/{topology,validation,policy}.rs`, `features/inventory` | none (pure) | `Topology`, `Inventory` |
| builder | `taskmesh/src/builder.rs` | the builder | `Builder` |
| execution plans | `taskmesh/src/execution_plan.rs` | none (pure) | `Plans` |
| strict ingress | `taskmesh/src/ingress.rs` | none (pure) | `Ingress` |
| benchmarks, tools, fuzz targets | | | no |

A submission is *admitted* (it gets a permit), *queued* (it gets a ticket) or
*rejected*. A permit starts in `DispatchReserved`. The first `advance_phase`
mints a lease token, and from then on only that token ends the permit. Whenever
capacity may have returned, the operation runs a *promotion pass* in the same
critical section: it grants queued requests, at most `PROMOTION_BUDGET` of them,
then unlocks, wakes the waiters, and takes the lock again if runnable work was
left. A waiter *claims* its promoted permit in two critical sections, with host
code (a waker's destructor) between them.

What makes this hard:

- several threads enter between the passes of one promotion and between the two
  halves of a claim;
- host callbacks may panic at any of those points, or call the Governor again;
- the leak sweep reclaims reservations that their holder is about to use;
- memory reports arrive late, twice or out of order, and may be unrepresentable;
- parents wait for children that need the capacity their parents hold;
- one request is tracked by many indexes and counters that are updated one by one;
- a caller is answered, times out, is cancelled or dropped while its worker still
  holds the lease;
- a drain looks at gauges that the last worker is about to change.

`PROJECT.json` lists these as hazards with the line where each one bites.

## Modules

| module | what it holds |
|---|---|
| `GovPolicy` | constants, the validated policy and submissions as named assumptions, pure arithmetic |
| `GovState` | the state record, one operator per transition or assessment of the engine |
| `Observation` | snapshots, gauges and the engine's own consistency oracle |
| `Governor` | threads, the mutex, one action per operation or step, the properties |
| `PermitService` | the abstract promise: requests wait, are held, are leased, end |
| `GovernorRefinement` | the mapping from `Governor` to `PermitService` |
| `Host` | submissions, their workers, the clock and outsiders over `PermitService` |
| `Drain` | `Host` with drains |
| `Scheduler` | the disciplines, tags, credit and virtual time |
| `Topology`, `Inventory`, `Builder`, `Plans`, `Ingress` | from a document or builder calls to a running configuration and a task's plan |
| `MCGovernor`, `MCHost`, `MCDrain`, `MCScheduler`, `MCStartup` | the instances TLC checks |
| `GovChanges` | what the engine's transitions do to one state, as relations the proofs share |
| `GovernorInvariants` | the inductive invariants of `Governor` that the proofs use |
| `*Proofs` | see Proofs |

### Governor

`gov` is the `GovernedState`. Permit id, ticket and queue order of one request
are one number here, given in commit order; so a queue is a set whose deque order
is the order of its ids. The code draws those numbers before it takes the lock,
but compares only the order fixed under the lock (`queue_order`). Maps with
defaults are total functions. `pass` holds the locals of a critical section in
progress, `th` where each thread is in its operation, `tokens` the lease tokens
held by callers, `notified` the tickets whose waiter has been woken.

A request that is gone leaves default values behind, so that a state carries no
history. `issued` is what bounds a behaviour: at most `MaxIds` requests are
granted or queued.

| action | code |
|---|---|
| `Admit`, `AdmitReturn`, `AdmitPanic` | `admit_inner`: the transition; the return; the compensation if dropping the waker panics |
| `Claim`, `ClaimFinish`, `ClaimPanic` | the first and second critical section of `claim`; its compensation |
| `Abandon`, `Release`, `ReleaseLeased`, `Advance`, `CloseAdmission` | the methods of those names |
| `ReconcileMemory`, `ReleaseStageMemory` | `reconcile_memory[_at]`, `release_stage_memory[_seq]` |
| `ReapLeaks`, `Reclaim` | `reap_leaks_with`, one reclaimed permit per step |
| `ScanWaitCycles`, `PromoteOne`, `PromoteEnd` | the steps of `promote` |
| `Wake`, `Resume` | `apply_effects`, `drain_effects_captured` |

A pass takes several steps because it chooses several times. The thread that runs
it holds the mutex, and every other operation needs `LockFree`. The sampled clock
may be anything from the commit watermark on; an older sample is clamped to the
watermark by `commit_time`, so it is the same step. A callback that re-enters the
Governor is another thread's call that falls into the same gap.

### Host and Drain

A submission is one caller's future (`pc`, `answer`), the ticket it may hold
(`ticket`, `armed`), the `ExecutionLease` (`lease`: where it is), and, for four of
the five dispatch kinds, a detached worker and the channel to it (`work`, `chan`).
The engine is `PermitService`, which the Governor is shown to implement, so an
engine call is one of its steps. Between any two of them everything else may
move.

| actions | code |
|---|---|
| `Submit`, `Admit`, `Look`, `Claim`, `Poll`, `Wake`, `Finalize`, `Guard`, `Unguard` | `acquire`, `await_promotion`, the ticket guard and its drop |
| `Dispatch`, `Advance`, `Spawn`, `RunCancellable`, `Release`, `Respond`, `Receive`, `StopWaiting`, `Hangup`, `DropFuture` | the run paths, the caller's half |
| `Start`, `Finish`, `Send`, `Discard`, `Discarded`, `Boot`, `RunRuntime`, `Teardown` | the detached worker, executors that refuse or drop a job, a runtime on its own stack |
| `PromoteOne`, `Notify`, `Settle`, `Reclaim`, `Occupy`, `Intrude`, `Withdrawn`, `Tick`, `Fire` | engine, settlement waker, leak sweep, an embedder with the same Governor, clock, cancellation tokens |
| `Begin`, `CloseAdmission`, `Listen`, `LookAtGauges`, `PollNotified`, `Woken`, `Expire`, `WakeDrains` | `drain` and `DrainSignal` |

### Scheduler

Which requests may run is `GovState`'s business; `Scheduler` abstracts it to free
lanes and keeps the rest: arrival tags with rebasing, repricing after
cancellation and overtaking, the tiers, the four keys, deficit round robin in its
closed form, and what `on_request_served` and `on_unserved_removed` leave behind.
`Enqueue`, `RemoveUnserved` and `Serve` are those calls; `Tick` is the clock.

### Start-up

`Builder` has one action per builder call and `Build`, over `Inventory` (checks of
classes, pools and substrates) and `Topology` (worker counts). `Plans` is the
preflight of one submission on a built runtime. `Ingress` reads a task or
deployment document, here a bounded tree with at most one defect and any number of
limits exceeded; the error it reports is the one its earliest failing stage finds.

### What is abstracted

- In `Governor`, inside a fairness tier `select` lets any candidate win; the
  tiers, the candidate of each class and the runnable test are exact. `Scheduler`
  has the choice.
- A panic of `wake()` is caught by the code and changes nothing the model sees;
  `Wake` stands for both outcomes. A panic in the two places with a compensation is
  an action.
- Rejections keep their kind and lose their hints. `IdentityExhausted` is left out.
- `UnitDomain` and `EpochMax` stand for `u32::MAX` and `u64::MAX`. The totals are
  `u128` in the code and cannot overflow. `MaxTag` stands for the `u128::MAX` of
  virtual time, and is small so that rebasing happens.
- `BytesPerUnit` is at least 1; the code accepts 0 only where no class converts.
- `Host` sees of the engine only that permits are granted while `Slots` allows it.
- `MaxTime` is the last instant an `Instant` can hold. `checked_add` past it is an error
  for an acquire timeout and a run budget (`OutOfRange`), and no timeout for a drain.
- A lease that cannot move to a later phase answers `Violation`. Nothing but a holder of
  the same `Governor` can cause it, so it happens where an embedder is among the outsiders.

## Runs

State counts are distinct states.

| run | instance | checks | states |
|---|---|---|---|
| custody | 2 threads, 3 requests, 1 slot, ring of 1, clock 0..1 | `LedgerExact` `CustodyExact` `TicketsExact` `NoLostWakeup` `ImplementsService` | 377,614 |
| promotion | 2 threads, 5 requests, 2 classes, 2 pools, CPU 2 | `CapacityBounded` `NoRunnableStranded` `FifoWithinDomain` | 334,088 |
| nested | 2 threads, 4 requests, 3 classes, 1 pool, CPU 3 | `IdentityExact` `BoundCyclesTerminated` | 245,173 |
| memory | 1 thread, 3 requests, 3 classes, 3 units of 2 bytes | `TypeOK` `UnitsExact` `GrantsFitMemory` `FaultStops` `LedgersMoveForward` | 192,742 |
| returns | 2 threads, 4 requests, 3 classes, 1 pool, CPU 3; one return makes two runnable | `EveryCallReturns` | 102,602 |
| liveness | the nested instance, parents wait, work ends | `EveryWaiterAnswered` | 9,467 |
| host | 2 submissions in 6 pairs of plans, 1 slot, clock 0..2, sweep, faults, embedder | `TypeOK` `LeaseHasOneOwner` `WorkCharged` `NothingStranded` `ResultAfterRelease` `RefusedNeverRan` `ParkedIsWoken` `OkIsOnTime` | 2,166,184 |
| drain | 1 submission of 3 dispatch kinds, 1 drainer with timeouts 0, 1 and none, 1 tenant | `DrainedIsIdle` `DrainNotStranded` `DrainCompletes` `DrainSeesTheEnd` `DrainReturns` `BoundedCallerAnswered` `OrphanedRuntimeEnds` | 211,798 |
| scheduler | 7 mixes of disciplines, tags up to 8 | `DrrIsRingWalk` `NoWfqDebt` `CreditBounded` `NoStarvation` | 94,379 |
| startup | 3 builder calls; a parsed deployment, one more call and every plan of what it builds; small documents | `DeclaredIsLive` `WorkersNotOversubscribed` `PlanHonoursRequest` `IngressExact` | 229,016 |
| overtaking | 4 requests, 2 classes, 2 pools | `RunnableHeadFirst`, violated | |
| stranger | parent, awaited child, stranger | `NoDeclaredDeadlock`, violated | |

Bounds. One grant per pass makes every promotion of two requests a continuation.
In the returns run the end of a request that has the whole CPU leaves two others
runnable at once and a third may arrive between the passes, so a chain of two
continuations happens, and one that a removed wait cycle has asked for, with
admissions, abandonments and releases of the other thread in its gaps. A claim starts no chain
of its own and is left to the other runs.
A ring of one entry makes every second terminal answer an eviction. Two threads
put any operation into any gap of another one; two gaps open at once, with a
third thread acting in both, are covered by the proofs only. Threads are symmetric
in the safety runs; the runs of temporal properties use no symmetry. The memory
run has one thread because every memory operation is one critical section and its
continuation. Readings of 0, 5 and 7 bytes are 0, 3 and 4 units: nothing, the whole
budget, and one more than the unit domain. Two submissions on one slot make one of
them queue; the six pairs put every dispatch kind against another one, with tokens,
boundaries, budgets and timeouts before, at and after each instant, and past the last
one the clock can express. In the drain run work on the caller's task, on a pool and on
a stack of its own has a boundary its work may outlive, and a second runtime on its own
stack has none, so only the loss of its caller stops it. Tags up to 8 with
a scale of 2 overflow after a few arrivals. Three builder calls are enough for a
repetition with something in between. Work is submitted to the runtimes built from a
parsed deployment and one more call (another topology, an executor, a class, a
substrate or a limit) on every machine; what three calls alone build is only
inspected.

Every property has a mutant in `PROJECT.json`: a plausible slip in one definition
that makes TLC find the property violated.

### Fairness

*Governor.* `ThreadsRun` says that a thread inside an operation goes on and gets
the mutex eventually; `parking_lot` hands a contended mutex over fairly from time
to time, so a waiting thread is not passed over for ever. It is strong fairness
because the mutex is taken and freed again. `WorkEnds` says that live work whose
parent role allows it ends. It is used by the liveness run only, and it is an
assumption on callers. `EveryCallReturns` does not need it. `ParentsWait` restricts
callers to the nesting `TaskScope` describes: a child is submitted while its parent
is live, and a parent does not end before the children it awaits. Without it the
engine's wait cycles would not be deadlocks at all.

*Host and Drain.* Weak fairness of a ready future being polled (`Caller`), of a
started thread running (`Worker`), of the engine's own steps, of settlement wakes,
of the clock and of each drain. `Stoppable`: cooperative work reaches an await point,
so its token, deadline and hang-up reach it. That user work ends by itself is not
assumed, nor that an embedder returns a permit, nor that dropping an owned runtime ends:
it blocks on a child it cannot abort. Two properties therefore carry a condition of their
own: `OrphanedRuntimeEnds` asks that the submission's teardown does not go on for ever,
`DrainCompletes` that no work, teardown or foreign permit does.

*Scheduler.* Dispatch goes on happening while something is runnable on the full
set of lanes. `NoStarvation` leaves out behaviours that cancel for ever: after an
overflow `rebase_virtual_time` subtracts with saturation, so tags below the virtual
time lose their differences (the comments at `scheduler.rs:71` and `:103` call the
differences unchanged), and a cancellation then reprices the queue from them.

### Two statements of the documents that do not hold

*overtaking.* The library specification says that a newcomer which fits is placed
behind an earlier runnable head of its class, and that only a head blocked on
another pool may be overtaken. Between two passes of one promotion a head may be
runnable and not yet promoted. A newcomer whose pools are disjoint from those of
every queued request of its class passes the check in `admit_class`, because
`promotion_pending` counts only when the class queue is empty.

*stranger.* `TaskSpec::child_of` says that declaring a wait turns a certain
deadlock into a refusal. The cycle test looks at full capacities only. A child
can be queued because of FIFO order alone, behind a request that waits for the
child's parent.

## Proofs

Proved for every value of the constants that satisfies the named assumptions (any
number of threads, requests, classes and pools, any validated policy; any number of
submissions and drains, any plans):

| theorem | states |
|---|---|
| `TypeCorrect` | `Spec => []TypeOK` of `Governor`: no ledger becomes negative, which the saturating and checked subtractions must give |
| `Custody` | `Spec => []CustodyExact`: no sweep, abandonment, panic compensation or release by id ends work whose lease is out, and no token outlives its permit |
| `Invariance` | `Spec => []IInv`, which the two follow from |
| `Implementation` | `Spec => Service!Spec`: the Governor implements `PermitService` |
| `Tickets`, `IdentitiesExact` | `TicketsExact`, `IdentityExact`: the indexes of the state describe one lifecycle of each request |
| `Ledgers`, `Units` | `LedgerExact`, `UnitsExact`: every snapshot is conserved, every total is what the permits are charged, the engine's oracle never fires |
| `Capacity`, `Fifo` | `CapacityBounded`, `FifoWithinDomain` |
| `MemoryFits`, `LedgersForward`, `FaultIsFinal` | the action properties `GrantsFitMemory`, `LedgersMoveForward`, `FaultStops` |
| `Safety` | `Spec => [](IInv /\ Sound(gov))`, which the last four rows follow from |
| `WakeUps` | `NoLostWakeup`: an answered waiter has been woken, or some thread is about to wake it |
| `NoneStranded` | `NoRunnableStranded`: between the critical sections nothing queued could start, or a thread owes the pass |
| `OneOwner`, `ChargedWork`, `NoCapacityLost`, `NoSleeperMissed` | `LeaseHasOneOwner`, `WorkCharged`, `NothingStranded`, `ParkedIsWoken` of `Host` |
| `TypesHold` | `TypeOK` of `Host` |
| `FenceHolds`, `RefusalsHold`, `OkOnTime` | `ResultAfterRelease`, `RefusedNeverRan`, `OkIsOnTime` of `Host` |
| `DrainedStaysIdle`, `NoDrainStranded` | `DrainSpec` implies `DrainedIsIdle`, `DrainNotStranded` of `Drain` |

### Governor: custody

`CustodyExact` is not inductive. The sweep decides what to reclaim in one step
and unwinds it in later ones, so one needs to know that the list stays live and
undispatched, which holds because the sweeper holds the mutex (`MutualExclusion`,
`SweepSound`). That a permit's nonce is `None` exactly while it is reserved is
needed of every live permit, and the tokens must be the leases of exactly those
permits (`CustodySound`, `tokens = Leases(gov)`). Threads that are retiring or
claiming must name a request (`ThreadsSound`). `IInv` is the conjunction. It was
checked with TLC on the custody and memory instances before it was proved.

`GovTransitionProofs` proves each pure transition once, for an arbitrary state;
`GovernorProofs` lifts them to actions, one lemma per action, and does the case
split over `Next` and the temporal step.

### Governor: the state

Most of the other safety properties are about `gov` alone, so the threads are taken out
of the argument first. `GovChanges` lists the kinds of change a transition can make
(`Admitting`, `Queueing`, `Promoting`, `Leaving`, `Ending`, `Emptying`, `Advancing`,
`Metering`, four for tickets, and `Kept`), each with what it needs and what it leaves
alone. `GovTransitionProofs` shows that every operator of `GovState` makes one of
them, and `EveryStep` in `GovernorStepProofs` that every action is a `Step`: it commits
the time, makes one change, and perhaps takes an answer or hands over its effects.
An invariant of the state then needs one lemma per kind of change, not per action.

`SafeState` (`GovChangeProofs`) is the conjunction of

- `TicketSound`: what a ticket says is so, a ticket not issued yet is unknown, and
  the ring lists each terminal answer once;
- `IdentitySound`: no two requests in the system share an operation or a stage, and
  the three indexes are the images of the queues and the permits;
- `CapacitySound`, which is inductive because a grant needs `Room`;
- `FifoSound`: a permit is older than every queued request of its domain;
- `CustodySound`, from above.

`BooksSound` (`GovLedgerProofs`) says that every total is the sum of what the live
permits are charged: per Governor, class, phase, pool and root. It needs more than
`LedgerExact`: that the permits not yet started were not counted as started
(`started + waiting <= admitted`), and that after a fault nothing is queued. The
module develops sums over finite sets from the definition of `MapThenSumSet` (a sum
does not depend on the order, moves with the one entry that changes, and may be taken
over an image), by minimal counterexample: of the subsets for which a statement
fails one is least. It ends with what an observer adds up: the ledgers of a set of
permits are as many as the permits.

`GovSafetyProofs` puts the two together; its theorems are short.

### Governor: nobody is forgotten

Two invariants relate the state to the threads, so they are shown per action
(`GovProgressProofs` for the wake-ups, the end of `GovernorProofs` for runnable work),
from what each transition tells and lets start.

`NoLostWakeup` is not inductive: a ticket that queued without a waker is told by
nobody, so it must be in the hands of a caller that knows to ask; the effects of an
operation must be empty outside `applying`; and a claim in progress must still own its
ticket. `WakeSound` adds these. `Told` says of one transition that a ticket it answers
is among the wakes it leaves, unless it registered no waker.

`NoRunnableStranded` speaks of the whole assessment, with `promotion_pending` and the
accounting fault in it. `StrandSound` says instead that between the critical sections
`promotion_pending` is owed to a thread, and that without it no queued request is
`Startable` (first of its domain, and it fits). An operation either makes nothing
startable (`Calm`: no room appears, no queue loses a predecessor), or it ends in a pass;
a pass ends only when nothing is runnable or with `promotion_pending` set by the
thread that will resume. A newcomer that is queued does not fit, or is behind another.
Both invariants were checked with TLC on the custody, promotion, nested and memory
instances before they were proved.

### Governor: refinement

The mapping forgets the policy, the ledgers, the tickets, the threads and the mutex.
`GovernorStepProofs` says what each transition does to what is left, as one
move of the service (`Moves`), and shows that every action makes one move or none.
`IInv` is used for the tokens and for the requests a thread names.

### Host and drains

The first four theorems follow from `HInv`: what the engine knows of a request
(`Engaged`), who has its token (`Owned`), and, for each submission, which place in
the caller's and worker's code goes with which custody of the lease (`Kept`).
`FInv` adds, for each submission, that nothing was started before its answer became
a refusal (`Unstarted`), that `TryOnce` gives up what it had to queue
(`TriedOnce`), that a result travels with the lease and is answered after it was
spent (`Fenced`), and that an `Ok` was measured inside the run budget (`Timely`).
`OkIsOnTime` is an action property; it follows from `FInv` and from which actions
can answer `Ok` at all.

The drains see the host through three facts only (`Announces`): a step that ends a
request leaves its settlement wake behind, no wake is lost, and a closed engine gets
no new request. `DrainSound` says that the mirror is set before the engine is closed
and the engine is closed before a drain looks, so that a wake always finds the mirror
set, and that what `Drained` reported stays so. With `HInv`, nothing outstanding means
that no token is out, and so that no user work runs.

### Only model-checked

- Everything temporal with fairness (`EveryCallReturns`, `EveryWaiterAnswered`,
  `DrainCompletes`, `DrainSeesTheEnd`, `DrainReturns`, `BoundedCallerAnswered`, `OrphanedRuntimeEnds`,
  `NoStarvation`): liveness and `ENABLED` are out of reach of the prover.
- `BoundCyclesTerminated`: the test compares totals with sums along a wait chain, and
  needs that such a sum stays the same when the state changes elsewhere, for a charge
  that is itself an operator; the provers do not instantiate those.
- `DrrIsRingWalk` relates a closed form to a walk of any length, and `IngressExact`
  quantifies over documents of any depth: both need induction over data.
- `NoWfqDebt` and `CreditBounded` (`Scheduler`), `DeclaredIsLive`,
  `WorkersNotOversubscribed` and `PlanHonoursRequest` (start-up) have no proof; they are
  checked on the instances above.

## Not modelled

- Retry-after hints, benchmarks, fuzz targets and tooling: nothing they compute is
  read by a transition.
- The syntax of identifiers and of JSON text; the fluent setters of the contract
  types.
- The adapters over the Tokio and Rayon pools, beyond accepting, running, refusing or
  dropping a job.
- The Loom and Shuttle variants of the mutex.
