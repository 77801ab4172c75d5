-------------------------------- MODULE Host --------------------------------
(***************************************************************************)
(* The Tokio host: what one submission does from the first poll of the     *)
(* caller's future to the answer, what its detached worker does meanwhile, *)
(* and where the execution lease is (taskmesh/src/runtime.rs and runtime/  *)
(* acquisition, synchronous, detached; executor/cancel.rs).                *)
(*                                                                         *)
(* The engine is the PermitService: an engine call is one of its steps, or *)
(* a look at its state.  Between two engine calls, and wherever the caller *)
(* awaits, everything else may move: the worker, the clock, a cancellation *)
(* token, promotion, the leak sweep, an embedder who knows a permit's id,  *)
(* and the caller may drop the future.                                     *)
(***************************************************************************)
EXTENDS Integers, FiniteSets, FiniteSetsExt

CONSTANTS
  Subs,      \* submissions
  Plans,     \* Plans: the ways the submissions are planned, functions on Subs
  Slots,     \* permits the engine grants at a time
  MaxTime,   \* bound: the last instant an Instant can hold, and the clock reaches
  Outsiders, \* who else touches permits: a subset of "sweep", "fault", "embedder"
  Tenants    \* bound: permits an embedder admits for itself, by plan

Dispatches == {"CallerFuture", "BlockingPool", "CpuExecutor",
               "DedicatedStackThread", "DedicatedStackRuntime"}

Never == MaxTime + 1   \* a deadline that is not set

\* ValidatedDispatchPlan and SubmitOptions: whether a cancel token was given and
\* whether the class policy lets it stop running work; the acquire timeout (0 is
\* TryOnce); one absolute boundary (response_by of a synchronous dispatch,
\* CompleteBy of an asynchronous one); and the run budget RunFor.  The boundary
\* and the budget exclude each other.
PlanSet ==
  {p \in [dispatch: Dispatches, cancel: BOOLEAN, cooperative: BOOLEAN,
          acquire: 0..Never, by: 1..Never, run: 1..Never] :
     p.by = Never \/ p.run = Never}

ASSUME HostAssumption ==
  /\ IsFiniteSet(Subs) /\ Slots \in Nat \ {0} /\ MaxTime \in Nat
  /\ Plans \subseteq [Subs -> PlanSet] /\ Plans # {} /\ Tenants \in [Plans -> Nat]
  /\ Outsiders \subseteq {"sweep", "fault", "embedder"}

VARIABLES issued, waiting, held, leased, tokens, closed   \* the PermitService

svc == <<issued, waiting, held, leased, tokens, closed>>

Service == INSTANCE PermitService

VARIABLES
  plan,      \* the plan of each submission
  now,       \* the clock
  fired,     \* submissions whose cancellation token has fired
  pc,        \* where the caller's future is
  answer,    \* the caller's answer, or the one it is about to give
  until,     \* the instant the acquire timeout ends
  req,       \* the engine's number for the submission, None before it has one
  ticket,    \* the ticket of a queued submission: none, open, or taken
  armed,     \* submissions whose TicketGuard would abandon the ticket
  lease,     \* the ExecutionLease: where it is and what it holds
  work,      \* where the worker is
  started, completed, outcome,   \* the worker's own clock readings and result
  chan,      \* the oneshot channel from the worker to the caller
  notified,  \* submissions whose permit waker has fired
  owed,      \* permits and endings whose waker is still to be fired
  pings,     \* ended requests whose settlement wake is still to be delivered
  foreign    \* permits whose lease token an embedder took

None == 0

\* reserved: held by the caller, not dispatched.  caller, worker, channel: the
\* lease token is there.  gone: nothing left to release.
LeaseStates == {"none", "reserved", "caller", "worker", "channel", "gone"}
TokenAt == {"caller", "worker", "channel"}

CallerPcs ==
  {"submit", "admit", "finalize", "look", "claim", "poll", "park", "guard", "unguard",
   "dispatch", "advance", "spawn", "running", "await", "release", "respond",
   "hangup", "answered"}

WorkerPcs == {"none", "queued", "running", "teardown", "send", "dropping", "done"}

Answers ==
  {"none", "Ok", "TaskError", "Panicked", "Cancelled", "Deadline", "TimedOut",
   "CancelledBefore", "Rejected", "Terminated", "Reclaimed", "Violation",
   "OutOfRange", "Unavailable", "Abandoned", "Dropped"}

\* empty, an outcome that carries the lease, a terminal reply that does not,
\* the receiver is gone, or the sender is.
ChannelStates == {"empty", "outcome", "terminated", "closed", "dead"}

acquiring == <<until, req, ticket, armed>>
working == <<work, started, completed, outcome, chan>>
outside == <<plan, now, fired, foreign>>
waking == <<notified, owed>>

vars == <<svc, outside, pc, answer, acquiring, lease, working, waking, pings>>

Init ==
  /\ Service!Init
  /\ plan \in Plans /\ now = 0 /\ fired = {} /\ foreign = {}
  /\ pc = [s \in Subs |-> "submit"] /\ answer = [s \in Subs |-> "none"]
  /\ until = [s \in Subs |-> Never] /\ req = [s \in Subs |-> None]
  /\ ticket = [s \in Subs |-> "none"] /\ armed = {}
  /\ lease = [s \in Subs |-> "none"]
  /\ work = [s \in Subs |-> "none"] /\ started = [s \in Subs |-> Never]
  /\ completed = [s \in Subs |-> Never] /\ outcome = [s \in Subs |-> "none"]
  /\ chan = [s \in Subs |-> "empty"]
  /\ notified = {} /\ owed = {} /\ pings = {}

-----------------------------------------------------------------------------
\* Small steps

Goto(s, p) == pc' = [pc EXCEPT ![s] = p]
Say(s, a) == answer' = [answer EXCEPT ![s] = a]
Lease(s, l) == lease' = [lease EXCEPT ![s] = l]
Work(s, w) == work' = [work EXCEPT ![s] = w]

\* What ends the future: the answer is given.
Answer(s, a) == Goto(s, "answered") /\ Say(s, a)

\* Mutant of after: an instant beyond the clock's range is used as it is.
after_unchecked(d) == now + d

\* Instant::checked_add: Never, which no clock reading reaches, is its None.
after(d) == IF now + d <= MaxTime THEN now + d ELSE Never

\* Room for one more permit; a newcomer never overtakes a waiting request.
Room == Cardinality(held \cup leased) < Slots

sync(s) == plan[s].dispatch \in {"BlockingPool", "CpuExecutor", "DedicatedStackThread"}

\* The token that can stop running work: kept by the plan of a cooperative class.
stopped(s) == plan[s].cancel /\ plan[s].cooperative /\ s \in fired
overdue(s) == now >= plan[s].by

\* The settlement wake of the submission's own release has been delivered: the
\* engine call that ended it returns only then.
Settled(s) == req[s] \notin pings

\* AcquisitionArbiter::rejection: cancel, then the absolute boundary, then the
\* acquire timeout; TryOnce ends at the first look at a queued ticket.
rejection(s, queued) ==
  CASE plan[s].cancel /\ s \in fired -> "CancelledBefore"
    [] ~(plan[s].cancel /\ s \in fired) /\ overdue(s) -> "Deadline"
    [] OTHER -> IF (plan[s].acquire = 0 /\ queued) \/ now >= until[s]
                THEN "TimedOut" ELSE "none"

-----------------------------------------------------------------------------
\* Engine calls of the host, each one step of the service or a refusal

\* A reserved lease is returned by id; the engine may have nothing to return: the
\* sweep took the permit, or an embedder leased it.
ReleaseById(s) ==
  IF req[s] \in held
  THEN Service!Return(req[s]) /\ pings' = pings \cup {req[s]}
  ELSE UNCHANGED <<svc, pings>>

ReleaseByToken(s) ==
  IF req[s] \in leased /\ req[s] \in tokens
  THEN Service!Spend(req[s]) /\ pings' = pings \cup {req[s]}
  ELSE UNCHANGED <<svc, pings>>

\* Drop for ExecutionLease.
DropLease(s) ==
  /\ IF lease[s] = "reserved" THEN ReleaseById(s)
     ELSE IF lease[s] \in TokenAt THEN ReleaseByToken(s) ELSE UNCHANGED <<svc, pings>>
  /\ Lease(s, "gone")

\* Mutant of Abandon: a promoted permit is not returned.
AbandonQueued(s) ==
  IF req[s] \in waiting
  THEN Service!Withdraw({req[s]}) /\ pings' = pings \cup {req[s]}
  ELSE UNCHANGED <<svc, pings>>

\* Governor::abandon, as the TicketGuard calls it: a queued ticket leaves its
\* queue, a promoted and unleased one returns its permit.
Abandon(s) ==
  IF ticket[s] = "open" /\ req[s] \in waiting
  THEN Service!Withdraw({req[s]}) /\ pings' = pings \cup {req[s]}
  ELSE IF ticket[s] = "open" THEN ReleaseById(s) ELSE UNCHANGED <<svc, pings>>

-----------------------------------------------------------------------------
\* Acquisition

\* AcquisitionArbiter::new: the instant the acquire timeout ends, Never for TryOnce
\* and for an unbounded wait, or an error if the clock cannot express it.
acquire_until(s) == IF plan[s].acquire = 0 THEN Never ELSE after(plan[s].acquire)
inexpressible(s) == plan[s].acquire \notin {0, Never} /\ acquire_until(s) = Never

\* acquire_execution_lease: a timeout out of range is refused, verdicts that are
\* already decided come next, then the runtime services the dispatch needs, all
\* before any permit exists.
Submit(s) ==
  /\ pc[s] = "submit"
  /\ until' = [until EXCEPT ![s] = acquire_until(s)]
  /\ \/ inexpressible(s) /\ Answer(s, "OutOfRange")
     \/ /\ ~inexpressible(s) /\ rejection(s, FALSE) # "none"
        /\ Answer(s, rejection(s, FALSE))
     \/ /\ ~inexpressible(s) /\ rejection(s, FALSE) = "none"
        /\ Goto(s, "admit") /\ UNCHANGED answer
     \/ /\ ~inexpressible(s) /\ rejection(s, FALSE) = "none"
        /\ Answer(s, "Unavailable")
  /\ UNCHANGED <<svc, outside, req, ticket, armed, lease, working, waking, pings>>

\* acquire: one more look at the arbiter, then the engine's admission.
Admit(s) ==
  /\ pc[s] = "admit"
  /\ \/ /\ rejection(s, FALSE) # "none"
        /\ Answer(s, rejection(s, FALSE))
        /\ UNCHANGED <<svc, req, ticket, armed>>
     \/ /\ rejection(s, FALSE) = "none"
        /\ Answer(s, "Rejected")
        /\ UNCHANGED <<svc, req, ticket, armed>>
     \/ /\ rejection(s, FALSE) = "none" /\ Room /\ waiting = {}
        /\ Service!Grant
        /\ req' = [req EXCEPT ![s] = issued + 1]
        /\ Goto(s, "finalize") /\ UNCHANGED <<answer, ticket, armed>>
     \/ /\ rejection(s, FALSE) = "none" /\ ~(Room /\ waiting = {})
        /\ Service!Enqueue
        /\ req' = [req EXCEPT ![s] = issued + 1]
        /\ ticket' = [ticket EXCEPT ![s] = "open"] /\ armed' = armed \cup {s}
        /\ Goto(s, "look") /\ UNCHANGED answer
  /\ UNCHANGED <<outside, until, lease, working, waking, pings>>

\* await_promotion, top of the loop: the arbiter's verdict before the claim.
Look(s) ==
  /\ pc[s] = "look"
  /\ Say(s, rejection(s, TRUE))
  /\ Goto(s, "claim")
  /\ UNCHANGED <<svc, outside, acquiring, lease, working, waking, pings>>

\* The claim decides, whatever the arbiter said: a promoted permit goes to
\* finalize_acquired, a pending ticket ends with the verdict or waits.
Claim(s) ==
  /\ pc[s] = "claim"
  /\ \/ /\ req[s] \in held \cup leased
        /\ ticket' = [ticket EXCEPT ![s] = "taken"]
        /\ Goto(s, "finalize") /\ UNCHANGED answer
     \/ /\ req[s] \in waiting
        /\ Goto(s, IF answer[s] = "none" THEN "poll" ELSE "guard")
        /\ UNCHANGED <<ticket, answer>>
     \/ /\ req[s] \notin Service!Active
        /\ ticket' = [ticket EXCEPT ![s] = "taken"]
        /\ Goto(s, "guard") /\ Say(s, "Terminated")
  /\ UNCHANGED <<svc, outside, until, req, armed, lease, working, waking, pings>>

\* The wait is polled for the first time.
Poll(s) ==
  /\ pc[s] = "poll"
  /\ Goto(s, "park")
  /\ UNCHANGED <<svc, outside, answer, acquiring, lease, working, waking, pings>>

\* The wait ends with the token, the waker or the earliest deadline.
Wake(s) ==
  /\ pc[s] = "park"
  /\ \/ plan[s].cancel /\ s \in fired
     \/ s \in notified
     \/ overdue(s) \/ now >= until[s]
  /\ notified' = notified \ {s}
  /\ Goto(s, "look")
  /\ UNCHANGED <<svc, outside, answer, acquiring, lease, working, owed, pings>>

\* Mutant of Finalize: what was acquired is used, however late it came.
FinalizeLate(s) ==
  /\ pc[s] = "finalize"
  /\ Lease(s, "reserved") /\ Say(s, "none")
  /\ Goto(s, IF s \in armed THEN "guard" ELSE "dispatch")
  /\ UNCHANGED <<svc, outside, acquiring, working, waking, pings>>

\* finalize_acquired: a permit that arrives outside the budget is returned
\* unstarted, by a reserved lease that is dropped at once.
Finalize(s) ==
  /\ pc[s] = "finalize"
  /\ LET refused == rejection(s, s \in armed)
     IN IF refused = "none"
        THEN /\ Lease(s, "reserved") /\ Say(s, "none")
             /\ Goto(s, IF s \in armed THEN "guard" ELSE "dispatch")
             /\ UNCHANGED <<svc, pings>>
        ELSE /\ ReleaseById(s) /\ Lease(s, "gone") /\ Say(s, refused)
             /\ Goto(s, IF s \in armed THEN "guard" ELSE "hangup")
  /\ UNCHANGED <<outside, acquiring, working, waking>>

\* After the wait the guard is disarmed if the engine no longer knows the ticket
\* as queued or promoted.
Guard(s) ==
  /\ pc[s] = "guard" /\ Settled(s)
  /\ armed' = IF ticket[s] = "taken" \/ req[s] \notin Service!Active
              THEN armed \ {s} ELSE armed
  /\ Goto(s, "unguard")
  /\ UNCHANGED <<svc, outside, answer, until, req, ticket, lease, working, waking, pings>>

\* The guard goes out of scope.
Unguard(s) ==
  /\ pc[s] = "unguard"
  /\ IF s \in armed THEN Abandon(s) ELSE UNCHANGED <<svc, pings>>
  /\ armed' = armed \ {s}
  /\ ticket' = [ticket EXCEPT ![s] = "taken"]
  /\ Goto(s, IF answer[s] = "none" THEN "dispatch" ELSE "hangup")
  /\ UNCHANGED <<outside, answer, until, req, lease, working, waking>>

-----------------------------------------------------------------------------
\* Dispatch

\* A synchronous dispatch looks at its response boundary once more.
Dispatch(s) ==
  /\ pc[s] = "dispatch"
  /\ IF sync(s) /\ overdue(s)
     THEN DropLease(s) /\ Say(s, "Deadline") /\ Goto(s, "hangup")
     ELSE Goto(s, "advance") /\ UNCHANGED <<svc, pings, lease, answer>>
  /\ UNCHANGED <<outside, acquiring, working, waking>>

\* Mutant of Advance: the work goes ahead whatever the engine answers.
AdvanceAnyway(s) ==
  /\ pc[s] = "advance"
  /\ IF req[s] \in held THEN Service!Lease(req[s]) ELSE UNCHANGED svc
  /\ Lease(s, "caller")
  /\ Goto(s, IF plan[s].dispatch = "CallerFuture" THEN "running" ELSE "spawn")
  /\ started' = [started EXCEPT ![s] = IF plan[s].dispatch = "CallerFuture" THEN now ELSE Never]
  /\ UNCHANGED <<outside, answer, acquiring, work, completed, outcome, chan, waking, pings>>

\* ExecutionLease::advance out of the reservation: the engine mints the lease, or
\* the permit was reclaimed, or somebody else leased it; then nothing runs.
Advance(s) ==
  /\ pc[s] = "advance"
  /\ \/ /\ req[s] \in held
        /\ Service!Lease(req[s])
        /\ Lease(s, "caller")
        /\ Goto(s, IF plan[s].dispatch = "CallerFuture" THEN "running" ELSE "spawn")
        /\ started' = [started EXCEPT ![s] =
                         IF plan[s].dispatch = "CallerFuture" THEN now ELSE Never]
        /\ UNCHANGED answer
     \/ /\ req[s] \notin held
        /\ Lease(s, "gone")
        /\ Say(s, IF req[s] \in leased THEN "Violation" ELSE "Reclaimed")
        /\ Goto(s, "hangup")
        /\ UNCHANGED <<svc, started>>
  /\ UNCHANGED <<outside, acquiring, work, completed, outcome, chan, waking, pings>>

\* The worker closure takes the lease, or it never existed and was dropped.
HandOver(s) == /\ Work(s, "queued") /\ Lease(s, "worker")
               /\ Goto(s, "await")
               /\ UNCHANGED <<svc, pings, answer>>
NotSpawned(s, why) == /\ DropLease(s)
                      /\ Say(s, why) /\ Goto(s, "hangup")
                      /\ UNCHANGED work

run_blocking_on_pool(s) == plan[s].dispatch = "BlockingPool" /\ HandOver(s)

run_blocking_on_dedicated_thread(s) ==
  plan[s].dispatch = "DedicatedStackThread" /\ (HandOver(s) \/ NotSpawned(s, "Unavailable"))

\* An executor whose spawn panics drops the closure or keeps it queued.
run_cpu(s) ==
  /\ plan[s].dispatch = "CpuExecutor"
  /\ \/ HandOver(s)
     \/ NotSpawned(s, "Panicked")
     \/ /\ Work(s, "queued") /\ Lease(s, "worker")
        /\ Say(s, "Panicked") /\ Goto(s, "hangup")
        /\ UNCHANGED <<svc, pings>>

run_async_with_requested_stack(s) ==
  plan[s].dispatch = "DedicatedStackRuntime" /\ (HandOver(s) \/ NotSpawned(s, "Unavailable"))

Spawn(s) ==
  /\ pc[s] = "spawn"
  /\ \/ run_blocking_on_pool(s) \/ run_blocking_on_dedicated_thread(s)
     \/ run_cpu(s) \/ run_async_with_requested_stack(s)
  /\ UNCHANGED <<outside, acquiring, started, completed, outcome, chan, waking>>

\* The completion deadline of cooperative work, and a run budget whose end the
\* clock cannot express.
deadline(s) == Min({plan[s].by, started[s] + plan[s].run})
overlong(s) == plan[s].run # Never /\ started[s] + plan[s].run > MaxTime

\* run_cancellable: an error before the work is polled, the token, the deadline, or
\* the work's own end; work that ends on the deadline has missed it.
RunCancellable(s) ==
  /\ pc[s] = "running"
  /\ \/ overlong(s) /\ Say(s, "OutOfRange")
     \/ ~overlong(s) /\ stopped(s) /\ Say(s, "Cancelled")
     \/ ~overlong(s) /\ ~stopped(s) /\ now >= deadline(s) /\ Say(s, "Deadline")
     \/ /\ ~overlong(s) /\ ~stopped(s) /\ now < deadline(s)
        /\ \E r \in {"Ok", "TaskError"} : Say(s, r)
  /\ completed' = [completed EXCEPT ![s] = now]
  /\ Goto(s, "release")
  /\ UNCHANGED <<svc, outside, acquiring, lease, work, started, outcome, chan, waking, pings>>

\* Release fence: custody returns before the caller is answered.
Release(s) ==
  /\ pc[s] = "release"
  /\ DropLease(s)
  /\ Goto(s, "respond")
  /\ UNCHANGED <<outside, answer, acquiring, working, waking>>

\* Mutant of Respond: the result computed before the release is the response.
RespondStale(s) ==
  /\ pc[s] = "respond" /\ Settled(s)
  /\ Answer(s, answer[s])
  /\ UNCHANGED <<svc, outside, acquiring, lease, working, waking, pings>>

\* finalize_released_response, once the release has returned.
Respond(s) ==
  /\ pc[s] = "respond" /\ Settled(s)
  /\ Answer(s, IF stopped(s) THEN "Cancelled"
               ELSE IF overdue(s) THEN "Deadline" ELSE answer[s])
  /\ UNCHANGED <<svc, outside, acquiring, lease, working, waking, pings>>

-----------------------------------------------------------------------------
\* Waiting for a detached worker

run_expired(s, t) == sync(s) /\ t >= started[s] + plan[s].run

\* Mutant of Receive: the caller is answered and the lease dropped afterwards.
ReceiveFirst(s) ==
  /\ pc[s] = "await" /\ ~stopped(s) /\ chan[s] = "outcome"
  /\ chan' = [chan EXCEPT ![s] = "closed"] /\ Lease(s, "caller")
  /\ Answer(s, outcome[s])
  /\ UNCHANGED <<svc, outside, acquiring, work, started, completed, outcome, waking, pings>>

\* The outcome arrives with the lease.  A timer may fire late, so an outcome can
\* be taken after a deadline; what it says then is decided by the clock.
Receive(s) ==
  /\ pc[s] = "await" /\ ~stopped(s) /\ chan[s] = "outcome"
  /\ chan' = [chan EXCEPT ![s] = "closed"] /\ Lease(s, "caller")
  /\ Say(s, IF run_expired(s, completed[s]) THEN "Deadline" ELSE outcome[s])
  /\ Goto(s, "release")
  /\ UNCHANGED <<svc, outside, acquiring, work, started, completed, outcome, waking, pings>>

\* Mutant of StopWaiting: the boundary is only looked at when the worker answers.
StopWaitingUnbounded(s) ==
  /\ pc[s] = "await"
  /\ \/ stopped(s) /\ Say(s, "Cancelled")
     \/ ~stopped(s) /\ run_expired(s, now) /\ Say(s, "Deadline")
     \/ ~stopped(s) /\ chan[s] = "terminated" /\ Say(s, outcome[s])
     \/ ~stopped(s) /\ chan[s] = "dead" /\ Say(s, "Abandoned")
  /\ Goto(s, "hangup")
  /\ UNCHANGED <<svc, outside, acquiring, lease, working, waking, pings>>

\* The caller stops waiting: the token, the boundary, the run budget counted from
\* the worker's start, a terminal reply, or a worker that will never answer.
StopWaiting(s) ==
  /\ pc[s] = "await"
  /\ \/ stopped(s) /\ Say(s, "Cancelled")
     \/ ~stopped(s) /\ overdue(s) /\ Say(s, "Deadline")
     \/ ~stopped(s) /\ run_expired(s, now) /\ Say(s, "Deadline")
     \/ ~stopped(s) /\ chan[s] = "terminated" /\ Say(s, outcome[s])
     \/ ~stopped(s) /\ chan[s] = "dead" /\ Say(s, "Abandoned")
  /\ Goto(s, "hangup")
  /\ UNCHANGED <<svc, outside, acquiring, lease, working, waking, pings>>

\* Mutant of Hangup: the message in the channel is leaked.
HangupLeaking(s) ==
  /\ pc[s] = "hangup" /\ Settled(s)
  /\ chan' = [chan EXCEPT ![s] = "closed"] /\ Goto(s, "answered")
  /\ UNCHANGED <<svc, outside, answer, acquiring, lease, work, started, completed, outcome,
                 waking, pings>>

\* The call returns: its receiver is dropped, and with it an outcome that was
\* sent but not taken.
Hangup(s) ==
  /\ pc[s] = "hangup"
  /\ chan' = [chan EXCEPT ![s] = "closed"]
  /\ \/ /\ lease[s] = "channel"
        /\ DropLease(s) /\ UNCHANGED pc
     \/ /\ lease[s] # "channel" /\ Settled(s)
        /\ Goto(s, "answered") /\ UNCHANGED <<svc, pings, lease>>
  /\ UNCHANGED <<outside, answer, acquiring, work, started, completed, outcome, waking>>

\* The future is dropped, or unwinds, where it awaits.
DropFuture(s) ==
  /\ Say(s, "Dropped")
  /\ \/ pc[s] = "park" /\ Goto(s, "unguard") /\ UNCHANGED <<svc, pings, lease>>
     \/ pc[s] = "running" /\ DropLease(s) /\ Goto(s, "hangup")
     \/ pc[s] = "await" /\ Goto(s, "hangup") /\ UNCHANGED <<svc, pings, lease>>
  /\ UNCHANGED <<outside, acquiring, working, waking>>

-----------------------------------------------------------------------------
\* The worker of a synchronous dispatch

\* ExecutionLease::advance of a leased permit is refused if its phase is not
\* earlier any more: an embedder may declare phases of a permit whose id it knows.
refusals == IF "embedder" \in Outsiders THEN {"Violation"} ELSE {}

\* run_detached_job: no job starts after the response boundary, or on a lease
\* whose phase cannot move to Running.
Start(s) ==
  /\ work[s] = "queued" /\ sync(s)
  /\ \/ /\ ~overdue(s) /\ req[s] \in leased
        /\ Work(s, "running")
        /\ started' = [started EXCEPT ![s] = now]
        /\ UNCHANGED <<completed, outcome>>
     \/ /\ overdue(s) \/ req[s] \notin leased \/ refusals # {}
        /\ Work(s, "send")
        /\ completed' = [completed EXCEPT ![s] = now]
        /\ outcome' = [outcome EXCEPT ![s] =
                         IF overdue(s) THEN "Deadline"
                         ELSE IF req[s] \in leased THEN "Violation" ELSE "Reclaimed"]
        /\ UNCHANGED started
  /\ UNCHANGED <<svc, outside, pc, answer, acquiring, lease, chan, waking, pings>>

\* The job returns, fails or panics; a refused advance to CleanupPending takes
\* the place of its result.
Finish(s) ==
  /\ work[s] = "running" /\ sync(s)
  /\ \E r \in {"Ok", "TaskError", "Panicked"} \cup refusals : outcome' = [outcome EXCEPT ![s] = r]
  /\ completed' = [completed EXCEPT ![s] = now]
  /\ Work(s, "send")
  /\ UNCHANGED <<svc, outside, pc, answer, acquiring, lease, started, chan, waking, pings>>

\* The outcome travels with the lease; if nobody is there to take it the worker
\* is the one that releases.
Send(s) ==
  /\ work[s] = "send"
  /\ IF chan[s] = "empty"
     THEN /\ chan' = [chan EXCEPT ![s] = "outcome"] /\ Lease(s, "channel")
          /\ UNCHANGED <<svc, pings>>
     ELSE DropLease(s) /\ UNCHANGED chan
  /\ Work(s, "done")
  /\ UNCHANGED <<outside, pc, answer, acquiring, started, completed, outcome, waking>>

\* An executor that shuts down drops a queued closure: first the lease in it,
\* then the sender.
Discard(s) ==
  /\ work[s] = "queued" /\ plan[s].dispatch \in {"BlockingPool", "CpuExecutor"}
  /\ DropLease(s)
  /\ Work(s, "dropping")
  /\ UNCHANGED <<outside, pc, answer, acquiring, started, completed, outcome, chan, waking>>

Discarded(s) ==
  /\ work[s] = "dropping" /\ Settled(s)
  /\ chan' = [chan EXCEPT ![s] = IF chan[s] = "empty" THEN "dead" ELSE chan[s]]
  /\ Work(s, "done")
  /\ UNCHANGED <<svc, outside, pc, answer, acquiring, lease, started, completed, outcome,
                 waking, pings>>

-----------------------------------------------------------------------------
\* The worker of a dedicated stack runtime

\* A terminal reply is sent while the worker still holds the lease.
Reply(s, o) ==
  /\ outcome' = [outcome EXCEPT ![s] = o]
  /\ chan' = [chan EXCEPT ![s] = IF chan[s] = "empty" THEN "terminated" ELSE chan[s]]

Boot(s) ==
  /\ work[s] = "queued" /\ ~sync(s)
  /\ \/ /\ req[s] \in leased
        /\ Work(s, "running")
        /\ started' = [started EXCEPT ![s] = now]
        /\ UNCHANGED <<outcome, chan>>
     \/ /\ \E o \in {"Unavailable"} \cup refusals : Reply(s, o)
        /\ Work(s, "teardown") /\ UNCHANGED started
  /\ UNCHANGED <<svc, outside, pc, answer, acquiring, lease, completed, waking, pings>>

\* What goes to the caller with the lease, after the teardown.
Keep(s, o) == outcome' = [outcome EXCEPT ![s] = o] /\ UNCHANGED chan

\* Mutant of RunRuntime: the worker does not notice that its caller went away.
RunRuntimeDeaf(s) ==
  /\ work[s] = "running" /\ ~sync(s)
  /\ \/ overlong(s) /\ Keep(s, "OutOfRange")
     \/ ~overlong(s) /\ stopped(s) /\ Reply(s, "Cancelled")
     \/ ~overlong(s) /\ ~stopped(s) /\ now >= deadline(s) /\ Reply(s, "Deadline")
     \/ ~overlong(s) /\ ~stopped(s) /\ Reply(s, "Panicked")
  /\ completed' = [completed EXCEPT ![s] = now]
  /\ Work(s, "teardown")
  /\ UNCHANGED <<svc, outside, pc, answer, acquiring, lease, started, waking, pings>>

\* The work ends, or unwinds, or is stopped because the caller went away, the
\* token fired or the deadline passed; a refused advance to CleanupPending takes
\* the place of any result.
RunRuntime(s) ==
  /\ work[s] = "running" /\ ~sync(s)
  /\ LET gone == chan[s] = "closed"
         polled == ~gone /\ ~overlong(s)
     IN \/ gone /\ Reply(s, "Cancelled")
        \/ ~gone /\ overlong(s) /\ Keep(s, "OutOfRange")
        \/ polled /\ stopped(s) /\ Reply(s, "Cancelled")
        \/ polled /\ ~stopped(s) /\ now >= deadline(s) /\ Reply(s, "Deadline")
        \/ polled /\ ~stopped(s) /\ Reply(s, "Panicked")
        \/ polled /\ ~stopped(s) /\ now < deadline(s) /\ \E r \in {"Ok", "TaskError"} : Keep(s, r)
        \/ \E o \in refusals : Reply(s, o)
  /\ completed' = [completed EXCEPT ![s] = now]
  /\ Work(s, "teardown")
  /\ UNCHANGED <<svc, outside, pc, answer, acquiring, lease, started, waking, pings>>

\* The runtime is shut down before custody moves: to the caller with the result,
\* or back to the engine after a terminal reply.  It blocks on any child the
\* runtime cannot abort.
Teardown(s) ==
  /\ work[s] = "teardown"
  /\ IF outcome[s] \in {"Ok", "TaskError", "OutOfRange"}
     THEN Work(s, "send") /\ UNCHANGED <<svc, pings, lease>>
     ELSE Work(s, "done") /\ DropLease(s)
  /\ UNCHANGED <<outside, pc, answer, acquiring, started, completed, outcome, chan, waking>>

-----------------------------------------------------------------------------
\* Everything else

host == <<pc, answer, acquiring, lease, working>>

Tick == /\ now < MaxTime /\ now' = now + 1
        /\ UNCHANGED <<svc, plan, fired, foreign, host, waking, pings>>

Fire(s) == /\ plan[s].cancel /\ s \notin fired
           /\ fired' = fired \cup {s}
           /\ UNCHANGED <<svc, plan, now, foreign, host, waking, pings>>

\* The engine promotes when there is room; the waker is fired after the lock.
PromoteOne(i) == /\ Room /\ Service!Promote(i)
                 /\ owed' = owed \cup {i}
                 /\ UNCHANGED <<outside, host, notified, pings>>

\* Mutant of Notify: the wake of a request nobody has parked for yet is lost.
NotifyParked(i) == /\ i \in owed
                   /\ notified' = notified \cup {s \in Subs : req[s] = i /\ pc[s] = "park"}
                   /\ owed' = owed \ {i}
                   /\ UNCHANGED <<svc, outside, host, pings>>

\* TokioPermitWaker::wake: Notify stores a permit for a waiter yet to come.
Notify(i) == /\ i \in owed
             /\ notified' = notified \cup {s \in Subs : req[s] = i}
             /\ owed' = owed \ {i}
             /\ UNCHANGED <<svc, outside, host, pings>>

\* The settlement wake of an ended request.
Settle(i) == /\ i \in pings /\ pings' = pings \ {i}
             /\ UNCHANGED <<svc, outside, host, waking>>

\* Somebody who knows the id returns a permit that was not leased: the leak
\* sweep, or an embedder.  The waiter of an unclaimed ticket is woken.
Reclaim(i) == /\ Outsiders \cap {"sweep", "embedder"} # {}
              /\ Service!Return(i)
              /\ pings' = pings \cup {i}
              /\ owed' = owed \cup {j \in {i} : \E s \in Subs : req[s] = j /\ ticket[s] = "open"}
              /\ UNCHANGED <<outside, host, notified>>

\* The engine ends waiting requests: one of a wait cycle, or all after a fault.
Terminate(S) == /\ "fault" \in Outsiders /\ Service!Withdraw(S)
                /\ pings' = pings \cup S /\ owed' = owed \cup S
                /\ UNCHANGED <<outside, host, notified>>

\* An embedder admits work of its own, directly with the governor.
Occupy == /\ "embedder" \in Outsiders
          /\ issued < Tenants[plan] + Cardinality({s \in Subs : req[s] # None})
          /\ Room /\ waiting = {} /\ Service!Grant
          /\ UNCHANGED <<outside, host, waking, pings>>

\* An embedder leases a permit by its id, and spends the token.
Intrude(i) == /\ "embedder" \in Outsiders /\ Service!Lease(i)
              /\ foreign' = foreign \cup {i}
              /\ UNCHANGED <<plan, now, fired, host, waking, pings>>

Withdrawn(i) == /\ i \in foreign /\ Service!Spend(i)
                /\ foreign' = foreign \ {i} /\ pings' = pings \cup {i}
                /\ UNCHANGED <<plan, now, fired, host, waking>>

Engine == \/ \E i \in waiting : PromoteOne(i)
          \/ \E i \in owed : Notify(i)

Caller(s) == \/ Submit(s) \/ Admit(s) \/ Look(s) \/ Claim(s) \/ Poll(s) \/ Wake(s)
             \/ Finalize(s) \/ Guard(s) \/ Unguard(s)
             \/ Dispatch(s) \/ Advance(s) \/ Spawn(s)
             \/ Release(s) \/ Respond(s) \/ Receive(s) \/ StopWaiting(s) \/ Hangup(s)

Worker(s) == Start(s) \/ Send(s) \/ Discarded(s) \/ Boot(s)

\* The user's work, and the children it left behind in a runtime of its own:
\* nothing says that they ever end by themselves.
WorkEnds(s) == RunCancellable(s) \/ Finish(s) \/ RunRuntime(s) \/ Teardown(s)

Environment == \/ Tick \/ Occupy
               \/ \E s \in Subs : Fire(s) \/ DropFuture(s) \/ Discard(s)
               \/ \E i \in held : Reclaim(i) \/ Intrude(i)
               \/ \E i \in foreign : Withdrawn(i)
               \/ \E S \in SUBSET waiting : Terminate(S)

Finished == \A s \in Subs : pc[s] = "answered" /\ work[s] \in {"none", "done"}

Next == \/ \E s \in Subs : Caller(s) \/ Worker(s) \/ WorkEnds(s)
        \/ Engine \/ Environment
        \/ \E i \in pings : Settle(i)
        \/ Finished /\ UNCHANGED vars

Spec == Init /\ [][Next]_vars

-----------------------------------------------------------------------------
\* Properties

TypeOK ==
  /\ plan \in Plans /\ issued \in Nat
  /\ Service!Active \subseteq 1..issued /\ tokens \subseteq 1..issued
  /\ pc \in [Subs -> CallerPcs] /\ answer \in [Subs -> Answers]
  /\ req \in [Subs -> 0..issued] /\ ticket \in [Subs -> {"none", "open", "taken"}]
  /\ lease \in [Subs -> LeaseStates] /\ work \in [Subs -> WorkerPcs]
  /\ outcome \in [Subs -> Answers] /\ chan \in [Subs -> ChannelStates]
  /\ until \in [Subs -> 0..Never] /\ started \in [Subs -> 0..Never]
  /\ completed \in [Subs -> 0..Never] /\ now \in 0..MaxTime
  /\ armed \cup notified \cup fired \subseteq Subs
  /\ owed \cup pings \cup foreign \subseteq 1..issued

\* Every lease token is at exactly one place that will spend it: with a caller
\* that is on its way to release it, with a worker that has not finished, in a
\* channel whose receiver is alive, or with the embedder who took it
\* (ExecutionLease, Custody, DetachedOutcome).
LeaseHasOneOwner ==
  /\ tokens = foreign \cup {req[s] : s \in {r \in Subs : lease[r] \in TokenAt}}
  /\ \A s \in Subs :
       /\ lease[s] \in TokenAt => req[s] \notin foreign
       /\ lease[s] = "caller" => pc[s] \in {"spawn", "running", "release"}
       /\ lease[s] = "worker" => work[s] \in {"queued", "running", "teardown", "send"}
       /\ lease[s] = "channel" => chan[s] = "outcome" /\ pc[s] \in {"await", "hangup"}

\* User work runs, and an owned runtime is torn down, only on capacity the engine
\* still counts, under the submission's own lease, however long ago the caller
\* was answered.
WorkCharged ==
  \A s \in Subs :
    pc[s] = "running" \/ work[s] \in {"running", "teardown"}
    => req[s] \in leased /\ req[s] \in tokens /\ req[s] \notin foreign

\* Once the caller is answered, only its own unfinished worker can still hold
\* its permit: every early return, dropped future, late promotion and unread
\* outcome has given the capacity back.
NothingStranded ==
  \A s \in Subs :
    pc[s] = "answered" /\ req[s] \in Service!Active => lease[s] = "worker" \/ req[s] \in foreign

\* A caller that sees a result sees released capacity: the permit has ended and
\* its settlement was announced before the value was handed over.
ResultAfterRelease ==
  \A s \in Subs :
    pc[s] = "answered" /\ answer[s] \in {"Ok", "TaskError"}
    => /\ req[s] \notin Service!Active \cup pings
       /\ work[s] \in {"none", "done"}

\* No lost wake-up: a caller that sleeps although its request has left the queue
\* has been notified or still has its waker to come (await_promotion
\* looks once more before every wait; Notify keeps the permit until it is polled).
ParkedIsWoken ==
  \A s \in Subs : pc[s] \in {"poll", "park"} /\ req[s] \notin waiting
                 => s \in notified \/ req[s] \in owed

\* A submission that was refused never ran: not when its promotion raced the
\* timeout, the token or the sweep.  TryOnce never runs what had to queue.
RefusedNeverRan ==
  \A s \in Subs :
    \/ pc[s] = "answered" /\ answer[s] \in {"TimedOut", "CancelledBefore", "Rejected",
                                             "Terminated", "Reclaimed"}
    \/ plan[s].acquire = 0 /\ ticket[s] # "none"
    => started[s] = Never /\ work[s] = "none"

\* An Ok is on time: at the step that answers, the token has not fired and the
\* boundary has not passed, and the work itself ended inside its run budget,
\* whichever of worker, timer and token moved last before.
OkIsOnTime ==
  [][\A s \in Subs :
       pc[s] # "answered" /\ pc'[s] = "answered" /\ answer'[s] = "Ok"
       => /\ ~stopped(s) /\ ~overdue(s)
          /\ completed[s] < started[s] + plan[s].run]_vars
=============================================================================
