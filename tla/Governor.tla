------------------------------ MODULE Governor -----------------------------
(***************************************************************************)
(* The Governor: threads calling the engine's public operations            *)
(* (taskmesh-engine/src/engine/governor.rs and governor/).                 *)
(*                                                                         *)
(* Every operation locks the state, commits one transition, usually runs a *)
(* promotion pass in the same critical section, unlocks, applies the host  *)
(* effects it collected, and resumes promotion if the pass ran out of its  *)
(* budget.  A pass takes several steps here; while a thread is inside one  *)
(* it holds the mutex and no other operation is enabled.  Claim and a      *)
(* direct admission run host code (a waker's destructor) between two       *)
(* critical sections, so other threads' operations fall in between.  A     *)
(* host callback that re-enters the Governor is one more such thread.      *)
(***************************************************************************)
EXTENDS Observation

CONSTANTS
  Threads,
  PromotionBudget,  \* PROMOTION_BUDGET: grants per critical section
  StaleAfter,       \* staleness windows passed to the leak sweep
  Readings,         \* memory readings reported, in bytes
  Freed,            \* unit counts returned at stage boundaries
  Epochs,           \* measurement epochs passed, None for the next one
  StageSeqs,        \* stage sequence numbers passed, None for unordered
  EpochMax,         \* largest measurement epoch (u64::MAX in the code)
  MaxTime,          \* bound: the clock never passes it
  Calls,            \* operations callers of this instance use (see Next)
  Declared,         \* phases callers declare with advance_phase
  ParentsWait       \* TRUE: callers nest as TaskScope describes (see MayEnd)

ASSUME GovernorAssumption ==
  /\ IsFiniteSet(Threads) /\ PromotionBudget \in Nat \ {0}
  /\ StaleAfter \subseteq Nat /\ Readings \subseteq Nat /\ Freed \subseteq Nat
  /\ Epochs \subseteq Nat /\ StageSeqs \subseteq Nat /\ EpochMax \in Nat /\ MaxTime \in Nat
  /\ Declared \subseteq Phases /\ ParentsWait \in BOOLEAN

VARIABLES
  gov,       \* the GovernedState behind the mutex
  pass,      \* locals of the critical section in progress
  th,        \* each thread's position in the operation it runs
  tokens,    \* LeaseTokens in their holders' hands: <<permit, nonce>>
  notified   \* tickets whose holder knows to ask: its waker fired, or it
             \* registered none and polls; until it takes the answer

vars == <<gov, pass, th, tokens, notified>>

\* idle       in no operation
\* retiring   admit_inner granted a permit and is dropping the unused waker
\* claiming   claim is between its two critical sections
\* reaping, scanning, promoting   holding the mutex
\* applying   mutex released, effects not all delivered
Pcs == {"idle", "retiring", "claiming", "reaping", "scanning", "promoting", "applying"}

ThreadStates ==
  [pc: Pcs, id: Ids \cup {None}, waker: BOOLEAN, wake: SUBSET Ids, more: BOOLEAN]

PassStates == [reap: SUBSET Ids, slots: Nat, changed: BOOLEAN]

Idle == [pc |-> "idle", id |-> None, waker |-> FALSE, wake |-> {}, more |-> FALSE]
NoPass == [reap |-> {}, slots |-> 0, changed |-> FALSE]

Init == /\ gov = Empty
        /\ pass = NoPass
        /\ th = [t \in Threads |-> Idle]
        /\ tokens = {}
        /\ notified = {}

Holds(t) == th[t].pc \in {"reaping", "scanning", "promoting"}
LockFree == \A t \in Threads : ~Holds(t)

\* Thread t, not in an operation, takes the mutex and commits at time now.
Enter(t, now) == /\ th[t].pc = "idle"
                 /\ LockFree
                 /\ now \in gov.watermark..MaxTime

\* The operation ends with the unlock; it has no effects to apply.
Finish(t, s) == /\ gov' = s
                /\ th' = [th EXCEPT ![t] = Idle]
                /\ UNCHANGED pass

\* A promotion pass starts in the state s the operation has reached.
BeginPass(t, s) ==
  /\ gov' = s
  /\ pass' = NoPass
  /\ th' = [th EXCEPT ![t] = [Idle EXCEPT !.pc = "scanning"]]

\* Unlock with the effects of the critical section still to apply.
Unlock(t, s, more) ==
  /\ gov' = [s EXCEPT !.wake = {}]
  /\ pass' = NoPass
  /\ th' = [th EXCEPT ![t] =
              [Idle EXCEPT !.pc = "applying", !.wake = s.wake, !.more = more]]

\* Mutant of ReleaseWithProof: freed capacity is not offered to the queues.
ReleaseWithoutPass(t, s, i, proof) ==
  Finish(t, IF releasable(s, i, proof) THEN unwind(s, i, "Released") ELSE s)

\* release_with_proof and the promotion that follows a release; a refusal
\* changes nothing.
ReleaseWithProof(t, s, i, proof) ==
  IF releasable(s, i, proof) THEN BeginPass(t, unwind(s, i, "Released"))
  ELSE Finish(t, s)

-----------------------------------------------------------------------------
\* Admission

Admit(t, sp, now) ==
  /\ Enter(t, now)
  /\ gov.issued < MaxIds
  /\ LET s == commit_time(gov, now)
         d == admit(s, sp)
         i == gov.issued + 1
     IN \/ /\ d.verdict = "Admitted"
           /\ gov' = grant([s EXCEPT !.issued = i], i, sp, d.class,
                           parent_permit_for_scope(s, sp), FALSE)
           /\ th' = IF sp.waker
                    THEN [th EXCEPT ![t] = [Idle EXCEPT !.pc = "retiring", !.id = i]]
                    ELSE th
           /\ UNCHANGED notified
        \/ /\ d.verdict = "Queued"
           /\ gov' = enqueue(s, i, sp, d.class)
           /\ notified' = IF sp.waker THEN notified ELSE notified \cup {i}
           /\ UNCHANGED th
        \/ /\ d.verdict \notin {"Admitted", "Queued"}
           /\ gov' = s
           /\ UNCHANGED <<th, notified>>
  /\ UNCHANGED <<pass, tokens>>

\* The unused waker is dropped and the caller receives its permit.
AdmitReturn(t) ==
  /\ th[t].pc = "retiring"
  /\ Finish(t, gov)
  /\ UNCHANGED <<tokens, notified>>

\* The waker's destructor panics: the caller never learns the permit, which
\* is released unless somebody has leased it meanwhile.
AdmitPanic(t) ==
  /\ th[t].pc = "retiring"
  /\ LockFree
  /\ ReleaseWithProof(t, gov, th[t].id, None)
  /\ UNCHANGED <<tokens, notified>>

-----------------------------------------------------------------------------
\* Tickets

Claim(t, i, now) ==
  /\ Enter(t, now)
  /\ LET s == commit_time(gov, now)
         answer == gov.tickets[i]
     IN \/ /\ answer = "Granted" /\ i \in s.permits
           /\ gov' = begin_claim(s, i)
           /\ th' = [th EXCEPT ![t] = [Idle EXCEPT !.pc = "claiming", !.id = i,
                                                   !.waker = i \in gov.claim_waker]]
           /\ UNCHANGED <<pass, notified>>
        \/ /\ \/ answer \in {"Queued", "Claiming", "Unknown"}
              \/ answer = "Granted" /\ i \notin s.permits
           /\ Finish(t, s)
           /\ UNCHANGED notified
        \/ /\ answer \in TerminalReasons \cup {"Faulted"}
           /\ Finish(t, forget_terminal_ticket(s, i))
           /\ notified' = notified \ {i}
  /\ UNCHANGED tokens

\* The second critical section of claim: custody passes to the caller if the
\* ticket is still being claimed.
ClaimFinish(t) ==
  /\ th[t].pc = "claiming"
  /\ LockFree
  /\ LET i == th[t].id
         answer == gov.tickets[i]
     IN /\ Finish(t, CASE answer = "Claiming" /\ i \in gov.permits ->
                            finish_claim(gov, i)
                       [] answer = "Claiming" /\ i \notin gov.permits ->
                            record_terminal_ticket(gov, i, "Released")
                       [] answer \in TerminalReasons \cup {"Faulted"} ->
                            forget_terminal_ticket(gov, i)
                       [] OTHER -> gov)
        /\ notified' = notified \ {i}
  /\ UNCHANGED tokens

\* Dropping the claimed waker panics.  A permit still reserved is refunded; a
\* leased one stays charged and only its ticket ends.
ClaimPanic(t) ==
  /\ th[t].pc = "claiming" /\ th[t].waker
  /\ LockFree
  /\ LET i == th[t].id
     IN \/ /\ gov.tickets[i] = "Claiming" /\ releasable(gov, i, None)
           /\ BeginPass(t, unwind(gov, i, "ClaimDeliveryFailed"))
        \/ /\ gov.tickets[i] = "Claiming" /\ ~releasable(gov, i, None)
           /\ Finish(t, record_terminal_ticket(
                [gov EXCEPT !.pending_ticket = @ \ {i}], i,
                IF i \in gov.permits THEN "ClaimDeliveryFailed" ELSE "Released"))
        \/ /\ gov.tickets[i] # "Claiming"
           /\ Finish(t, gov)
  /\ UNCHANGED <<tokens, notified>>

Abandon(t, i, now) ==
  /\ Enter(t, now)
  /\ LET s == commit_time(gov, now)
         answer == gov.tickets[i]
         dequeued == remove_ticket(drop_request(
                       vacate_recursion_guard(remove_pending(s, i), s.spec[i]), i), i)
     IN \/ /\ answer \in {"Granted", "Claiming"} /\ releasable(s, i, None)
           /\ BeginPass(t, forget_terminal_ticket(unwind(s, i, "Abandoned"), i))
           /\ notified' = notified \ {i}
        \/ /\ answer \in {"Granted", "Claiming"} /\ ~releasable(s, i, None)
           /\ Finish(t, IF i \in s.permits THEN s ELSE remove_ticket(s, i))
           /\ UNCHANGED notified
        \/ /\ answer = "Queued"
           /\ BeginPass(t, dequeued)
           /\ notified' = notified \ {i}
        \/ /\ answer \in TerminalReasons \cup {"Faulted", "Unknown"}
           /\ Finish(t, forget_terminal_ticket(s, i))
           /\ notified' = notified \ {i}
  /\ UNCHANGED tokens

-----------------------------------------------------------------------------
\* Permit lifecycle

Release(t, i, now) ==
  /\ Enter(t, now)
  /\ ReleaseWithProof(t, commit_time(gov, now), i, None)
  /\ UNCHANGED <<tokens, notified>>

\* Spending a lease consumes the token whatever the outcome.
ReleaseLeased(t, token, now) ==
  /\ Enter(t, now)
  /\ ReleaseWithProof(t, commit_time(gov, now), token[1], token[2])
  /\ tokens' = tokens \ {token}
  /\ UNCHANGED notified

Advance(i, p) ==
  /\ LockFree
  /\ can_advance(gov, i, p)
  /\ gov' = advance_phase(gov, i, p)
  /\ tokens' = IF gov.nonce[i] = None THEN tokens \cup {<<i, gov'.nonce[i]>>} ELSE tokens
  /\ UNCHANGED <<pass, th, notified>>

CloseAdmission ==
  /\ LockFree
  /\ gov' = [gov EXCEPT !.closed = TRUE]
  /\ UNCHANGED <<pass, th, tokens, notified>>

-----------------------------------------------------------------------------
\* Memory governance

\* Mutant of is_fresh: a repeated epoch is taken again.
is_not_older(s, i, sequence) == s.mseq[i] < EpochMax /\ sequence >= s.mseq[i]

\* memory::reconcile takes a reading only if it is newer than the last one taken
\* and the permit's sequence is not exhausted.
is_fresh(s, i, sequence) == s.mseq[i] < EpochMax /\ sequence > s.mseq[i]

\* epoch None asks for the next sequence.  A reading that cannot be expressed
\* in units stops the Governor: the fault is sticky and every queue is emptied.
ReconcileMemory(t, i, bytes, epoch, now) ==
  /\ Enter(t, now)
  /\ LET s == commit_time(gov, now)
         sequence == IF epoch = None THEN s.mseq[i] + 1 ELSE epoch
         accepted == i \in s.permits /\ is_fresh(s, i, sequence)
         fails == conversion_fails(Policy[s.class[i]].mode, bytes)
     IN \/ /\ ~accepted
           /\ Finish(t, s)
        \/ /\ accepted /\ fails
           /\ Unlock(t, terminalize_queued_for_accounting_fault(
                          [s EXCEPT !.fault = TRUE]), FALSE)
        \/ /\ accepted /\ ~fails
           /\ BeginPass(t, reconcile(s, i, bytes, sequence))
  /\ UNCHANGED <<tokens, notified>>

\* sequence None disables the ordering of stage events.  A live permit's call
\* always runs a promotion pass, even when the release is refused.
ReleaseStageMemory(t, i, freed_units, sequence, now) ==
  /\ Enter(t, now)
  /\ LET s == commit_time(gov, now)
         refused == \/ ~stage_release_allowed(s.class[i])
                    \/ sequence # None /\ sequence <= s.sseq[i]
     IN IF i \notin s.permits THEN Finish(t, s)
        ELSE BeginPass(t, IF refused THEN s
                          ELSE release_stage_memory(s, i, freed_units, sequence))
  /\ UNCHANGED <<tokens, notified>>

\* The sweep decides what is reclaimable, then unwinds it permit by permit, and
\* promotes, all under one lock.
ReapLeaks(t, stale_after, now) ==
  /\ Enter(t, now)
  /\ gov' = commit_time(gov, now)
  /\ pass' = [NoPass EXCEPT !.reap = reclaimable(gov', stale_after)]
  /\ th' = [th EXCEPT ![t] = [Idle EXCEPT !.pc = "reaping"]]
  /\ UNCHANGED <<tokens, notified>>

Reclaim(t) ==
  /\ th[t].pc = "reaping"
  /\ \/ \E i \in pass.reap :
          /\ gov' = unwind(gov, i, "Reclaimed")
          /\ pass' = [pass EXCEPT !.reap = @ \ {i}]
          /\ UNCHANGED th
     \/ /\ pass.reap = {}
        /\ BeginPass(t, gov)
  /\ UNCHANGED <<tokens, notified>>

-----------------------------------------------------------------------------
\* The promotion pass

\* One scan for wait cycles, which removes at most one request.
ScanWaitCycles(t) ==
  /\ th[t].pc = "scanning"
  /\ \/ \E i \in first_wait_cycle(gov) :
          /\ gov' = terminalize_wait_cycle(gov, i)
          /\ pass' = [pass EXCEPT !.changed = TRUE]
     \/ /\ wait_cycles(gov) = {}
        /\ UNCHANGED <<gov, pass>>
  /\ th' = [th EXCEPT ![t].pc = "promoting"]
  /\ UNCHANGED <<tokens, notified>>

PromoteOne(t) ==
  /\ th[t].pc = "promoting"
  /\ pass.slots < PromotionBudget
  /\ \E i \in select(gov) : gov' = promote_one(gov, i)
  /\ pass' = [pass EXCEPT !.slots = @ + 1, !.changed = TRUE]
  /\ UNCHANGED <<th, tokens, notified>>

\* Unlock after a pass, recording whether it owes a continuation.
EndPass(t, s, more) == Unlock(t, [s EXCEPT !.promotion_pending = more], more)

\* Mutants of PromoteEnd: no second scan for wait cycles; and a continuation that
\* was owed once is owed for as long as anything is queued.
PromoteEndUnscanned(t) ==
  /\ th[t].pc = "promoting"
  /\ pass.slots = PromotionBudget \/ ~has_runnable(gov)
  /\ EndPass(t, gov, pass.slots = PromotionBudget /\ has_runnable(gov))
  /\ UNCHANGED <<tokens, notified>>

PromoteEndSpinning(t) ==
  /\ th[t].pc = "promoting"
  /\ pass.slots = PromotionBudget \/ ~has_runnable(gov)
  /\ EndPass(t, gov, \/ pass.slots = PromotionBudget /\ has_runnable(gov)
                     \/ gov.promotion_pending /\ Queued(gov) # {})
  /\ UNCHANGED <<tokens, notified>>

\* The pass has used its slots or found nothing runnable.  If it changed anything
\* it scans once more; a removal earns another pass, and so does runnable work
\* left by a pass without a slot to spare.
PromoteEnd(t) ==
  /\ th[t].pc = "promoting"
  /\ pass.slots = PromotionBudget \/ ~has_runnable(gov)
  /\ \/ /\ pass.changed
        /\ \E i \in first_wait_cycle(gov) :
             EndPass(t, terminalize_wait_cycle(gov, i), TRUE)
     \/ /\ pass.changed => wait_cycles(gov) = {}
        /\ EndPass(t, gov, pass.slots = PromotionBudget /\ has_runnable(gov))
  /\ UNCHANGED <<tokens, notified>>

\* apply_effects, one waker at a time, with the mutex released.
Wake(t) ==
  /\ th[t].pc = "applying"
  /\ \E i \in th[t].wake : /\ notified' = notified \cup {i}
                           /\ th' = [th EXCEPT ![t].wake = @ \ {i}]
  /\ UNCHANGED <<gov, pass, tokens>>

\* drain_effects: every waker has fired; run the owed pass, or return.
Resume(t) ==
  /\ th[t].pc = "applying" /\ th[t].wake = {}
  /\ \/ /\ th[t].more /\ LockFree
        /\ BeginPass(t, gov)
     \/ /\ ~th[t].more
        /\ Finish(t, gov)
  /\ UNCHANGED <<tokens, notified>>

-----------------------------------------------------------------------------
\* What a thread does inside an operation it has started.
Continue(t) ==
  \/ AdmitReturn(t) \/ AdmitPanic(t) \/ ClaimFinish(t) \/ ClaimPanic(t)
  \/ Reclaim(t) \/ ScanWaitCycles(t) \/ PromoteOne(t) \/ PromoteEnd(t) \/ Wake(t) \/ Resume(t)

Issued == 1..gov.issued

\* A declared parent blocks on the children it awaits, queued or live.
Awaited(i) ==
  \E j \in Queued(gov) \cup gov.permits :
    gov.spec[j].child /\ gov.spec[j].awaits /\ gov.parent[j] = i

\* Where callers nest, a child is submitted by its parent, which is live and in
\* its caller's hands, and work that awaits a child does not end before it.
MaySubmit(sp) ==
  ParentsWait /\ sp.child =>
    parent_permit_for_scope(gov, sp) \notin {None} \cup {th[t].id : t \in Threads}
MayEnd(i) == ParentsWait /\ i \in gov.permits => ~Awaited(i)

\* A call some caller makes.
Call(t, now) ==
  \/ \E sp \in Specs : MaySubmit(sp) /\ Admit(t, sp, now)
  \/ "claim" \in Calls /\ \E i \in Issued : Claim(t, i, now)
  \/ "abandon" \in Calls /\ \E i \in Issued : Abandon(t, i, now)
  \/ "release" \in Calls /\ \E i \in Issued : MayEnd(i) /\ Release(t, i, now)
  \/ \E token \in tokens : MayEnd(token[1]) /\ ReleaseLeased(t, token, now)
  \/ \E i \in Issued, bytes \in Readings, e \in Epochs : ReconcileMemory(t, i, bytes, e, now)
  \/ \E i \in Issued, f \in Freed, q \in StageSeqs : ReleaseStageMemory(t, i, f, q, now)
  \/ \E w \in StaleAfter : ReapLeaks(t, w, now)

Next ==
  \/ \E t \in Threads : Continue(t)
  \/ \E t \in Threads, now \in 0..MaxTime : Call(t, now)
  \/ \E i \in Issued, p \in Declared : Advance(i, p)
  \/ "close" \in Calls /\ CloseAdmission

Spec == Init /\ [][Next]_vars

\* A thread inside an operation keeps running, and eventually gets the mutex:
\* parking_lot hands it over under contention.
ThreadsRun == \A t \in Threads : SF_vars(Continue(t))

\* The owner of permit i ends it.
End(t, i) ==
  /\ i \in gov.permits /\ MayEnd(i)
  /\ \/ Release(t, i, gov.watermark)
     \/ \E token \in tokens : token[1] = i /\ ReleaseLeased(t, token, gov.watermark)

\* Work that may end does.
WorkEnds == \A i \in Ids : SF_vars(\E t \in Threads : End(t, i))

CallSpec == Spec /\ ThreadsRun
FairSpec == Spec /\ ThreadsRun /\ WorkEnds

-----------------------------------------------------------------------------
\* Correctness properties

\* Every variable has its type.
TypeOK ==
  /\ GovernedState(gov)
  /\ pass \in PassStates
  /\ th \in [Threads -> ThreadStates]
  /\ tokens \subseteq Ids \X Nat
  /\ notified \subseteq Ids

\* Ledgers.  Every snapshot an observer takes is conserved, and its counters are
\* what an independent count over the permit ledgers gives: the live permits per
\* class, phase and pool, and the units they are charged.
LedgerExact ==
  LET view == snapshot(gov)
      ledgers == permit_ledgers(gov)
      of_class(c) == {l \in ledgers : l.class = c}
  IN /\ conserved(view)
     /\ \A c \in Classes :
          /\ view.classes[c].inflight = Cardinality(of_class(c))
          /\ \A p \in Phases :
               view.classes[c].phases[p] = Cardinality({l \in of_class(c) : l.phase = p})
          /\ view.classes[c].cpu_units_held = cpu_sum(of_class(c))
          /\ view.classes[c].memory_units_held = memory_sum(of_class(c))
     /\ \A k \in Caps :
          view.capabilities[k].in_use = Cardinality({l \in ledgers : k \in l.capabilities})

\* Units.  The engine's own oracle never fires (assert_consistent: "permit cpu
\* sum != global held" and the rest), and what a root is attributed is what its
\* live children are charged, whatever readings and returns came in between.
UnitsExact ==
  /\ assert_consistent(gov)
  /\ \A r \in Roots :
       LET children == {l \in permit_ledgers(gov) : /\ gov.spec[l.permit_id].child
                                                   /\ gov.spec[l.permit_id].root = r}
       IN root_attribution(gov, r) =
            [child_inflight |-> Cardinality(children), cpu_units |-> cpu_sum(children),
             memory_units |-> memory_sum(children)]

\* Custody.  A permit has left DispatchReserved exactly when a lease was minted
\* for it, and the tokens in callers' hands are exactly the leases of the live
\* permits: no sweep, abandonment, compensation or bare release ends work that
\* a worker holds, and no token outlives its permit.
CustodyExact ==
  /\ \A i \in gov.permits : gov.nonce[i] # None <=> gov.phase[i] # "DispatchReserved"
  /\ tokens = {<<i, gov.nonce[i]>> : i \in {j \in gov.permits : gov.nonce[j] # None}}

\* Tickets.  The ticket index, the queues, the permits' pending tickets and the
\* terminal ring describe one lifecycle: a Queued ticket is in exactly the
\* queue of its class, a Granted or Claiming one is bound to a live permit, and
\* the ring holds the terminal answers once each and within its bound.
TicketsExact ==
  /\ \A c \in Classes : gov.queue[c] = {i \in Ids : gov.tickets[i] = "Queued" /\ gov.class[i] = c}
  /\ gov.pending_ticket = {i \in Ids : gov.tickets[i] \in {"Granted", "Claiming"}}
  /\ gov.pending_ticket \subseteq gov.permits
  /\ gov.claim_waker \subseteq {i \in Ids : gov.tickets[i] = "Granted"}
  /\ Queued(gov) \cap gov.permits = {}
  /\ {gov.terminal_order[n] : n \in DOMAIN gov.terminal_order}
       = {i \in Ids : gov.tickets[i] \in TerminalReasons}
  /\ Len(gov.terminal_order) =
       Cardinality({i \in Ids : gov.tickets[i] \in TerminalReasons})
  /\ Len(gov.terminal_order) <= MaxTerminal

\* Identities.  No two requests, queued or live, carry the same operation of
\* one root, no two children of a root occupy the same stage, and the three
\* indexes admission consults say exactly that.
IdentityExact ==
  LET held == Queued(gov) \cup gov.permits
      children == {i \in held : gov.spec[i].child}
  IN /\ \A i, j \in held : i # j => identity(gov.spec[i]) # identity(gov.spec[j])
     /\ \A i, j \in children :
          i # j => stages_of(gov.spec[i]) # stages_of(gov.spec[j])
     /\ gov.queued_ops = {identity(gov.spec[i]) : i \in Queued(gov)}
     /\ \A o \in Identities, i \in Ids :
          gov.op_permit[o] = i <=> i \in gov.permits /\ identity(gov.spec[i]) = o
     /\ gov.recursion = {<<gov.spec[i].root, gov.spec[i].stage>> : i \in children}

\* Capacity.  However admissions, promotions and releases interleave, no class
\* exceeds its inflight limit or queue depth, no pool its workers, and the CPU
\* budget is never overcommitted.
CapacityBounded ==
  /\ \A c \in Classes : /\ gov.inflight[c] <= Policy[c].max_inflight
                        /\ Cardinality(gov.queue[c]) <= Policy[c].max_queue_depth
  /\ \A k \in Caps : CapLimit[k] # 0 => gov.in_use[k] <= CapLimit[k]
  /\ MaxCpuUnits # 0 => gov.cpu <= MaxCpuUnits

\* Memory.  A measured reading may push the held memory over its budget, but no
\* step that starts work does: a grant leaves the total within the budget.
GrantsFitMemory ==
  [][~(gov'.permits \subseteq gov.permits) /\ MaxMemUnits # 0
       => gov'.mem <= MaxMemUnits]_vars

Owed == \E t \in Threads : th[t].pc = "applying" /\ th[t].more

\* No stranded work.  An observer never sees a queued ticket that nothing
\* blocks: what became runnable was promoted before the mutex was released, or
\* promotion_pending says that more is to come, and that is only ever set while
\* a thread owes the continuation it announces.
NoRunnableStranded ==
  LockFree => /\ \A i \in Queued(gov) : pending_assessment(gov, i).block # "Ok"
              /\ gov.promotion_pending => Owed

Waking == notified \cup gov.wake \cup UNION {th[t].wake : t \in Threads}

\* No lost wake-up.  A waiter whose ticket has an answer has been woken for it,
\* or the thread that made the answer is about to wake it; and a ticket is in
\* the Claiming state only while a claim that will settle it is in progress.
NoLostWakeup ==
  \A i \in Ids :
    /\ gov.tickets[i] \in TerminalReasons \cup {"Granted", "Faulted"} => i \in Waking
    /\ gov.tickets[i] = "Claiming" =>
         \E t \in Threads : th[t].pc = "claiming" /\ th[t].id = i

\* FIFO in a domain.  No request overtakes an earlier one of its class that is
\* still queued when the two need a common pool (or both need none): neither a
\* direct admission nor a promotion goes first.
FifoWithinDomain ==
  \A i \in Queued(gov), j \in gov.permits :
    gov.class[i] = gov.class[j] /\ intersects(gov.spec[i].caps, gov.spec[j].caps) => j < i

\* Wait cycles.  Between promotion passes no queued awaited child whose parent
\* permit was bound when it queued waits for capacity that only its own wait
\* chain holds: the pass that made the wait irreversible terminated the ticket.
\* The permit a request is bound to stays its parent for as long as the request
\* is held, also when that permit ends and its operation name is taken again.
BoundCyclesTerminated ==
  /\ [](LockFree /\ ~Owed => \A i \in wait_cycles(gov) : gov.parent[i] = None)
  /\ [][\A i \in Queued(gov) \cup gov.permits :
          gov.parent[i] # None /\ i \in Queued(gov') \cup gov'.permits
            => gov'.parent[i] = gov.parent[i]]_vars

\* Fail-stop.  After an accounting fault nothing is queued and nothing new is
\* granted; permits already live are only ever returned.
FaultStops ==
  [][gov.fault => /\ gov'.fault
                  /\ gov'.permits \subseteq gov.permits
                  /\ Queued(gov') = {}]_vars

\* Ledgers move forward.  While a permit lives its phase, reading epoch, stage
\* sequence and activity time never go back, what it has returned is never
\* reserved again, and its charge grows only with a newer reading: late,
\* repeated or reordered reports change nothing.
LedgersMoveForward ==
  [][\A i \in gov.permits \cap gov'.permits :
       /\ rank(gov'.phase[i]) >= rank(gov.phase[i])
       /\ gov'.mseq[i] >= gov.mseq[i] /\ gov'.sseq[i] >= gov.sseq[i]
       /\ gov'.touched[i] >= gov.touched[i]
       /\ gov'.remaining[i] <= gov.remaining[i]
       /\ gov'.units[i] > gov.units[i] => gov'.mseq[i] > gov.mseq[i]]_vars

\* Every call returns, whether or not any work ever ends: no chain of promotion
\* passes continues for ever, and no operation waits for another.
EveryCallReturns == \A t \in Threads : th[t].pc # "idle" ~> th[t].pc = "idle"

\* Every waiter is answered.  If running work ends when it can, a queued ticket
\* is granted or terminated and its waiter is told, or its holder withdraws it.
EveryWaiterAnswered ==
  \A i \in Ids :
    gov.tickets[i] = "Queued" ~> i \in notified \/ gov.tickets[i] = "Unknown"

-----------------------------------------------------------------------------
\* Statements of the documentation

\* docs/taskmesh-library-spec.md: "a newcomer that fits while an earlier runnable
\* head of its class is still queued is placed behind it": no direct admission
\* leaves a request of its class queued that was runnable before it.
RunnableHeadFirst ==
  [][\A i \in gov'.permits \ gov.permits :
       i \notin Queued(gov) =>
         \A j \in gov.queue[gov'.class[i]] : ~runnable(gov, j)]_vars

\* TaskSpec::child_of: declaring that the parent waits "is what turns an otherwise
\* certain deadlock into a typed refusal".  When every wait is declared, all
\* calls have returned and work is queued, some queued request can run or some
\* live permit is free to end.
NoDeclaredDeadlock ==
  (\A t \in Threads : th[t].pc = "idle") /\ Queued(gov) # {} =>
    has_runnable(gov) \/ \E i \in gov.permits : ~Awaited(i)
=============================================================================
