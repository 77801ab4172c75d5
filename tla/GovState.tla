----------------------------- MODULE GovState ------------------------------
(***************************************************************************)
(* GovernedState, the value behind the Governor's mutex, and the pure      *)
(* transitions and assessments of the engine.  A state is one record s;    *)
(* every transition maps a state to a state, as the methods of             *)
(* GovernedState do (taskmesh-engine/src/engine/state.rs and               *)
(* state/transition.rs, features/admission, features/memory).              *)
(*                                                                         *)
(* A request keeps one id through its life: the code's permit id, ticket   *)
(* and queue order of one admission.  Ids are numbered in commit order, so *)
(* the order of the ids of a queue is the order of its deque.              *)
(***************************************************************************)
EXTENDS GovPolicy

CONSTANTS MaxIds,       \* bound: requests admitted or queued over a behaviour
          MaxTerminal   \* MAX_TERMINAL_TICKETS

ASSUME IdsAssumption == MaxIds \in Nat /\ MaxTerminal \in Nat \ {0}

Ids == 1..MaxIds
None == 0               \* no permit, no nonce

Phases == {"DispatchReserved", "Accepted", "Running", "CleanupPending"}

rank(p) == CASE p = "DispatchReserved" -> 0 [] p = "Accepted" -> 1
             [] p = "Running" -> 2          [] p = "CleanupPending" -> 3

has_started(p) == p \in {"Running", "CleanupPending"}

TerminalReasons ==
  {"Released", "Abandoned", "Reclaimed", "ClaimDeliveryFailed", "WaitCycle"}

\* TicketState; "Unknown" is a ticket the index does not hold.
TicketStates ==
  TerminalReasons \cup {"Unknown", "Queued", "Granted", "Claiming", "Faulted"}

Identities == Roots \X Ops

AnySpec == CHOOSE sp \in Specs : TRUE
AnyClass == CHOOSE c \in Classes : TRUE

Empty ==
  [spec |-> [i \in Ids |-> AnySpec], class |-> [i \in Ids |-> AnyClass],
   parent |-> [i \in Ids |-> None], permits |-> {},
   phase |-> [i \in Ids |-> "DispatchReserved"], nonce |-> [i \in Ids |-> None],
   pending_ticket |-> {}, claim_waker |-> {}, units |-> [i \in Ids |-> 0],
   remaining |-> [i \in Ids |-> 0], mseq |-> [i \in Ids |-> 0],
   sseq |-> [i \in Ids |-> 0], touched |-> [i \in Ids |-> 0],
   tickets |-> [i \in Ids |-> "Unknown"], terminal_order |-> <<>>,
   queue |-> [c \in Classes |-> {}], inflight |-> [c \in Classes |-> 0],
   admitted |-> [c \in Classes |-> 0], started |-> [c \in Classes |-> 0],
   terminated |-> [c \in Classes |-> 0],
   gauge |-> [c \in Classes |-> [p \in Phases |-> 0]],
   cpu_held |-> [c \in Classes |-> 0], mem_held |-> [c \in Classes |-> 0],
   cpu |-> 0, mem |-> 0, in_use |-> [k \in Caps |-> 0],
   child_inflight |-> [r \in Roots |-> 0], root_cpu |-> [r \in Roots |-> 0],
   root_mem |-> [r \in Roots |-> 0], op_permit |-> [o \in Identities |-> None],
   queued_ops |-> {}, recursion |-> {}, watermark |-> 0, fault |-> FALSE,
   closed |-> FALSE, promotion_pending |-> FALSE, issued |-> 0, minted |-> 0,
   wake |-> {}]

\* A state has the fields of Empty.
GovernedState(s) ==
  /\ DOMAIN s = DOMAIN Empty
  \* the request behind an id, while it is queued or live
  /\ s.spec \in [Ids -> Specs] /\ s.class \in [Ids -> Classes]
  /\ s.parent \in [Ids -> Ids \cup {None}]
  \* PermitRecord and PermitLedger of a live permit
  /\ s.permits \subseteq Ids /\ s.phase \in [Ids -> Phases] /\ s.nonce \in [Ids -> Nat]
  /\ s.pending_ticket \subseteq Ids /\ s.claim_waker \subseteq Ids
  /\ s.units \in [Ids -> Nat] /\ s.remaining \in [Ids -> Nat]
  /\ s.mseq \in [Ids -> Nat] /\ s.sseq \in [Ids -> Nat] /\ s.touched \in [Ids -> Nat]
  \* tickets, and the retention order of the terminal ones
  /\ s.tickets \in [Ids -> TicketStates] /\ s.terminal_order \in Seq(Ids)
  \* ClassState
  /\ s.queue \in [Classes -> SUBSET Ids] /\ s.inflight \in [Classes -> Nat]
  /\ s.admitted \in [Classes -> Nat] /\ s.started \in [Classes -> Nat]
  /\ s.terminated \in [Classes -> Nat] /\ s.gauge \in [Classes -> [Phases -> Nat]]
  /\ s.cpu_held \in [Classes -> Nat] /\ s.mem_held \in [Classes -> Nat]
  \* global ledgers
  /\ s.cpu \in Nat /\ s.mem \in Nat /\ s.in_use \in [Caps -> Nat]
  /\ s.child_inflight \in [Roots -> Nat] /\ s.root_cpu \in [Roots -> Nat]
  /\ s.root_mem \in [Roots -> Nat]
  \* identity indexes
  /\ s.op_permit \in [Identities -> Ids \cup {None}] /\ s.queued_ops \subseteq Identities
  /\ s.recursion \subseteq Roots \X Stages
  \* flags and clocks
  /\ s.watermark \in Nat /\ s.fault \in BOOLEAN /\ s.closed \in BOOLEAN
  /\ s.promotion_pending \in BOOLEAN /\ s.issued \in 0..MaxIds /\ s.minted \in Nat
  \* TransitionEffects.wake of the critical section in progress
  /\ s.wake \subseteq Ids

Queued(s) == UNION {s.queue[c] : c \in Classes}

\* Live permits nobody has leased, and those a worker has the lease of.
Held(s) == {i \in s.permits : s.nonce[i] = None}
Leased(s) == {i \in s.permits : s.nonce[i] # None}

identity(sp) == <<sp.root, sp.op>>

\* The recursion-guard entry of a child; a root has none.
stages_of(sp) == IF sp.child THEN {<<sp.root, sp.stage>>} ELSE {}

-----------------------------------------------------------------------------
\* Lookups

parent_permit_for_scope(s, sp) ==
  IF sp.child THEN s.op_permit[<<sp.root, sp.parent_op>>] ELSE None

has_operation_identity(s, sp) ==
  s.op_permit[identity(sp)] # None \/ identity(sp) \in s.queued_ops

\* A child's target stage is its declared parent stage; roots never trip the
\* guard.
is_recursive(s, sp) == sp.child /\ <<sp.root, sp.stage>> \in s.recursion

has_queued_domain(s, c, caps) ==
  \E j \in s.queue[c] : intersects(caps, s.spec[j].caps)

has_queued_predecessor(s, i) ==
  \E j \in s.queue[s.class[i]] : j < i /\ intersects(s.spec[i].caps, s.spec[j].caps)

-----------------------------------------------------------------------------
\* Transitions of GovernedState

commit_time(s, now) == [s EXCEPT !.watermark = now]

\* Entry x of a map f is set to v, or of a ledger f moved by n; a subtraction
\* saturates.
put(f, x, v) == [f EXCEPT ![x] = v]
credit(f, x, n) == [f EXCEPT ![x] = @ + n]
debit(f, x, n) == [f EXCEPT ![x] = saturating_sub(@, n)]

\* The identity of a request the state no longer holds is not kept.
drop_request(s, i) ==
  [s EXCEPT !.spec = put(s.spec, i, AnySpec), !.class = put(s.class, i, AnyClass),
            !.parent = put(s.parent, i, None)]

enqueue(s, i, sp, c) ==
  [s EXCEPT !.issued = i, !.spec = put(s.spec, i, sp), !.class = put(s.class, i, c),
     !.parent = put(s.parent, i, parent_permit_for_scope(s, sp)),
     !.queue = put(s.queue, c, s.queue[c] \cup {i}),
     !.queued_ops = s.queued_ops \cup {identity(sp)},
     !.tickets = put(s.tickets, i, "Queued"), !.recursion = s.recursion \cup stages_of(sp)]

remove_pending(s, i) ==
  [s EXCEPT !.queue = put(s.queue, s.class[i], s.queue[s.class[i]] \ {i}),
            !.queued_ops = s.queued_ops \ {identity(s.spec[i])}]

\* Mutant of vacate_recursion_guard: the stage stays occupied.
vacate_nothing(s, sp) == s

vacate_recursion_guard(s, sp) == [s EXCEPT !.recursion = s.recursion \ stages_of(sp)]

grant(s, i, sp, c, parent, ticketed) ==
  LET charged(f, n) == IF sp.child THEN credit(f, sp.root, n) ELSE f
      bound == IF ticketed THEN {i} ELSE {}
  IN [s EXCEPT
        !.spec = put(s.spec, i, sp), !.class = put(s.class, i, c),
        !.parent = put(s.parent, i, parent), !.permits = s.permits \cup {i},
        !.phase = put(s.phase, i, "DispatchReserved"), !.nonce = put(s.nonce, i, None),
        !.pending_ticket = s.pending_ticket \cup bound,
        !.claim_waker = IF sp.waker THEN s.claim_waker \cup bound ELSE s.claim_waker,
        !.tickets = put(s.tickets, i, IF ticketed THEN "Granted" ELSE s.tickets[i]),
        !.units = put(s.units, i, Policy[c].mem),
        !.remaining = put(s.remaining, i, Policy[c].mem),
        !.mseq = put(s.mseq, i, 0), !.sseq = put(s.sseq, i, 0),
        !.touched = put(s.touched, i, s.watermark),
        !.inflight = credit(s.inflight, c, 1), !.admitted = credit(s.admitted, c, 1),
        !.gauge = put(s.gauge, c, credit(s.gauge[c], "DispatchReserved", 1)),
        !.cpu_held = credit(s.cpu_held, c, Policy[c].cpu),
        !.mem_held = credit(s.mem_held, c, Policy[c].mem),
        !.cpu = s.cpu + Policy[c].cpu, !.mem = s.mem + Policy[c].mem,
        !.in_use = [k \in Caps |-> s.in_use[k] + (IF k \in sp.caps THEN 1 ELSE 0)],
        !.op_permit = put(s.op_permit, identity(sp), i),
        !.child_inflight = charged(s.child_inflight, 1),
        !.root_cpu = charged(s.root_cpu, Policy[c].cpu),
        !.root_mem = charged(s.root_mem, Policy[c].mem),
        !.recursion = s.recursion \cup stages_of(sp)]

\* Mutant of can_advance: an earlier phase may be declared again.
can_redeclare(s, i, p) == i \in s.permits /\ p # s.phase[i]

\* AdvanceOutcome: a phase is only ever left for a later one, and the first
\* advance mints the lease.
can_advance(s, i, p) == i \in s.permits /\ rank(p) > rank(s.phase[i])

advance_phase(s, i, p) ==
  LET c == s.class[i]
      first == s.nonce[i] = None
      starts == ~has_started(s.phase[i]) /\ has_started(p)
  IN [s EXCEPT
        !.phase = put(s.phase, i, p),
        !.nonce = put(s.nonce, i, IF first THEN s.minted + 1 ELSE s.nonce[i]),
        !.minted = IF first THEN s.minted + 1 ELSE s.minted,
        !.gauge = put(s.gauge, c, credit(debit(s.gauge[c], s.phase[i], 1), p, 1)),
        !.started = put(s.started, c, IF starts THEN s.started[c] + 1 ELSE s.started[c])]

\* The retention order q without the entry of ticket i.
unlisted(q, i) ==
  LET k == CHOOSE n \in 1..Len(q) : q[n] = i
  IN IF \A n \in 1..Len(q) : q[n] # i THEN q
     ELSE [n \in 1..(Len(q) - 1) |-> q[IF n < k THEN n ELSE n + 1]]

\* Insert or re-insert the ticket as the youngest retained terminal answer and
\* evict the oldest answer beyond the bound.
record_terminal_ticket(s, i, reason) ==
  LET order == Append(unlisted(s.terminal_order, i), i)
      answered == put(s.tickets, i, reason)
      oldest == Head(order)
  IN IF Len(order) <= MaxTerminal
     THEN [s EXCEPT !.terminal_order = order, !.tickets = answered]
     ELSE [s EXCEPT !.terminal_order = Tail(order),
                    !.tickets = IF answered[oldest] \in TerminalReasons
                                THEN put(answered, oldest, "Unknown")
                                ELSE answered]

\* Mutant of forget_terminal_ticket: the ring keeps the observed ticket.
forget_index_only(s, i) ==
  [s EXCEPT !.tickets[i] = IF @ \in TerminalReasons \cup {"Faulted"} THEN "Unknown" ELSE @]

forget_terminal_ticket(s, i) ==
  [s EXCEPT
     !.terminal_order = unlisted(s.terminal_order, i),
     !.tickets = IF s.tickets[i] \in TerminalReasons \cup {"Faulted"}
                 THEN put(s.tickets, i, "Unknown") ELSE s.tickets]

remove_ticket(s, i) == [s EXCEPT !.tickets = put(s.tickets, i, "Unknown")]

\* last_touched_ms never goes back.
touch(s, i) == [s EXCEPT !.touched = put(s.touched, i, Max({s.touched[i], s.watermark}))]

\* The two halves of claim: the ticket and its waker are taken, then custody of
\* the permit passes to the caller.
begin_claim(s, i) ==
  [touch(s, i) EXCEPT !.tickets = put(s.tickets, i, "Claiming"),
                      !.claim_waker = s.claim_waker \ {i}]
finish_claim(s, i) ==
  [touch(s, i) EXCEPT !.tickets = put(s.tickets, i, "Unknown"),
                      !.pending_ticket = s.pending_ticket \ {i}]

\* What unwind gives back: every total the grant charged, with the units the
\* ledger holds now, and the permit record itself.
refund(s, i) ==
  LET sp == s.spec[i]
      c == s.class[i]
      returned(f, n) == CASE ~sp.child -> f
                          [] sp.child /\ s.child_inflight[sp.root] <= 1 -> put(f, sp.root, 0)
                          [] OTHER -> debit(f, sp.root, n)
  IN [s EXCEPT
        !.permits = s.permits \ {i},
        !.phase = put(s.phase, i, "DispatchReserved"), !.nonce = put(s.nonce, i, None),
        !.pending_ticket = s.pending_ticket \ {i}, !.claim_waker = s.claim_waker \ {i},
        !.units = put(s.units, i, 0), !.remaining = put(s.remaining, i, 0),
        !.mseq = put(s.mseq, i, 0), !.sseq = put(s.sseq, i, 0),
        !.touched = put(s.touched, i, 0), !.spec = put(s.spec, i, AnySpec),
        !.class = put(s.class, i, AnyClass), !.parent = put(s.parent, i, None),
        !.inflight = debit(s.inflight, c, 1), !.terminated = credit(s.terminated, c, 1),
        !.gauge = put(s.gauge, c, debit(s.gauge[c], s.phase[i], 1)),
        !.cpu_held = debit(s.cpu_held, c, Policy[c].cpu),
        !.mem_held = debit(s.mem_held, c, s.units[i]),
        !.cpu = saturating_sub(s.cpu, Policy[c].cpu),
        !.mem = saturating_sub(s.mem, s.units[i]),
        !.in_use = [k \in Caps |-> saturating_sub(s.in_use[k], IF k \in sp.caps THEN 1 ELSE 0)],
        !.op_permit = put(s.op_permit, identity(sp), None),
        !.child_inflight = returned(s.child_inflight, 1),
        !.root_cpu = returned(s.root_cpu, Policy[c].cpu),
        !.root_mem = returned(s.root_mem, s.units[i]),
        !.recursion = s.recursion \ stages_of(sp)]

\* unwind: the ticket dies with the permit, and a waiter that still holds one
\* gets a reason and a wake-up.
unwind(s, i, reason) ==
  IF i \in s.pending_ticket
  THEN LET t == record_terminal_ticket(refund(s, i), i, reason)
       IN [t EXCEPT !.wake = IF i \in s.claim_waker THEN s.wake \cup {i} ELSE s.wake]
  ELSE refund(s, i)

\* Mutant of releasable: knowing the permit's id is enough.
releasable_by_id(s, i, proof) == i \in s.permits

\* release_with_proof_reason: None for a permit still reserved for dispatch,
\* its lease nonce afterwards.
releasable(s, i, proof) == i \in s.permits /\ s.nonce[i] = proof

-----------------------------------------------------------------------------
\* features/admission/pending.rs: the one capacity assessment

BlockOrder ==
  <<"AccountingFault", "Inflight", "Capability", "Cpu", "Memory", "QueuedBehind">>

\* Mutant of full_pools: off by one.
overfull_pools(s, caps) == {k \in caps : CapLimit[k] # 0 /\ s.in_use[k] > CapLimit[k]}

full_pools(s, caps) == {k \in caps : CapLimit[k] # 0 /\ s.in_use[k] >= CapLimit[k]}

blockers_for(s, c, caps, queued_behind) ==
  {b \in {BlockOrder[n] : n \in 1..Len(BlockOrder)} :
     CASE b = "AccountingFault" -> s.fault
       [] b = "Inflight"        -> s.inflight[c] >= Policy[c].max_inflight
       [] b = "Capability"      -> full_pools(s, caps) # {}
       [] b = "Cpu"    -> MaxCpuUnits # 0 /\ s.cpu + Policy[c].cpu > MaxCpuUnits
       [] b = "Memory" -> MaxMemUnits # 0 /\ s.mem + Policy[c].mem > MaxMemUnits
       [] b = "QueuedBehind"    -> queued_behind}

primary(blockers) ==
  IF blockers = {} THEN "Ok"
  ELSE BlockOrder[Min({n \in 1..Len(BlockOrder) : BlockOrder[n] \in blockers})]

\* The live permits of the declared wait chain that starts at permit p: a
\* permit that awaits its parent is followed to the permit it was bound to.
wait_chain(s, p) ==
  LET awaiting == [j \in Ids \cup {None} |->
        IF j \in s.permits /\ s.spec[j].child /\ s.spec[j].awaits THEN s.parent[j] ELSE None]
      ancestor[n \in 0..MaxIds] == IF n = 0 THEN p ELSE awaiting[ancestor[n - 1]]
  IN {ancestor[n] : n \in 0..MaxIds} \cap s.permits

wait_chain_exclusively_holds(total, by_chain) == by_chain > 0 /\ total = by_chain

\* Dimension b of what work sp of class c needs is held by that chain alone.
held_by_chain(s, c, sp, chain, b) ==
  LET held(total, Charge(_)) ==
        wait_chain_exclusively_holds(total, MapThenSumSet(Charge, chain))
  IN CASE b = "Inflight" ->
            held(s.inflight[c], LAMBDA j : IF s.class[j] = c THEN 1 ELSE 0)
       [] b = "Capability" ->
            \E k \in full_pools(s, sp.caps) :
              held(s.in_use[k], LAMBDA j : IF k \in s.spec[j].caps THEN 1 ELSE 0)
       [] b = "Cpu"    -> held(s.cpu, LAMBDA j : Policy[s.class[j]].cpu)
       [] b = "Memory" -> held(s.mem, LAMBDA j : s.units[j])
       [] OTHER -> FALSE

\* Mutant of cycle_witness: declared wait cycles go unnoticed.
no_witness(s, c, sp, parent, blockers) == {}

\* The blocked dimensions that the wait chain of an awaited child holds alone.
cycle_witness(s, c, sp, parent, blockers) ==
  LET chain == wait_chain(s, IF parent # None THEN parent
                             ELSE parent_permit_for_scope(s, sp))
  IN {b \in blockers : sp.child /\ sp.awaits /\ held_by_chain(s, c, sp, chain, b)}

assess_scope(s, c, sp, parent, queued_behind) ==
  LET blockers == blockers_for(s, c, sp.caps, queued_behind)
      held == cycle_witness(s, c, sp, parent, blockers)
  IN [block |-> IF held # {} THEN "IrreversibleWaitCycle" ELSE primary(blockers),
      held |-> held]

assess_pending(s, i) == assess_scope(s, s.class[i], s.spec[i], s.parent[i], FALSE)

-----------------------------------------------------------------------------
\* features/admission/mod.rs: what one submission gets

Verdict(v, c) == [verdict |-> v, class |-> c]

enqueue_or_full(s, c, block) ==
  Verdict(IF Cardinality(s.queue[c]) < Policy[c].max_queue_depth THEN "Queued"
          ELSE CASE block = "Memory"     -> "MemorySaturated"
                 [] block = "Capability" -> "SubstrateSaturated"
                 [] OTHER                -> "QueueFull", c)

\* Mutant of queued_behind: only a pending continuation holds newcomers back.
queued_behind_in_gap(s, c, sp) ==
  s.promotion_pending /\ class_can_queue(c) /\ s.queue[c] = {}

queued_behind(s, c, sp) ==
  \/ has_queued_domain(s, c, sp.caps)
  \/ s.promotion_pending /\ class_can_queue(c) /\ s.queue[c] = {}

\* admit_class after the identity checks, for a class that may not degrade.
admit_block(s, c, a) ==
  CASE a.block = "Ok" -> Verdict("Admitted", c)
    [] a.block = "IrreversibleWaitCycle" -> Verdict("NestedWaitCycle", c)
    [] a.block = "AccountingFault" -> Verdict("RuntimeUnavailable", c)
    [] a.block = "QueuedBehind" -> enqueue_or_full(s, c, a.block)
    [] a.block \in {"Inflight", "Cpu", "Capability"} ->
         IF is_queueable(c) THEN enqueue_or_full(s, c, a.block)
         ELSE Verdict(IF a.block = "Capability" THEN "SubstrateSaturated"
                      ELSE "CpuSaturated", c)
    [] a.block = "Memory" ->
         IF Policy[c].overcommit = "Queue" THEN enqueue_or_full(s, c, a.block)
         ELSE Verdict("MemorySaturated", c)

\* A memory block, or a wait cycle that memory is part of, is first retried
\* against the fallback class, once.
degrades(c, a) ==
  /\ Policy[c].overcommit = "DegradeToLight"
  /\ a.block = "Memory" \/ (a.block = "IrreversibleWaitCycle" /\ "Memory" \in a.held)

admit_class(s, sp, c) ==
  LET a == assess_scope(s, c, sp, None, queued_behind(s, c, sp))
      f == Policy[c].fallback
  IN IF degrades(c, a)
     THEN admit_block(s, f, assess_scope(s, f, sp, None, queued_behind(s, f, sp)))
     ELSE admit_block(s, c, a)

admit(s, sp) ==
  CASE s.closed -> Verdict("RuntimeUnavailable", sp.class)
    [] ~s.closed /\ sp.class \notin Classes -> Verdict("UnknownClass", sp.class)
    [] ~s.closed /\ sp.class \in Classes /\ is_disabled(sp.class) ->
         Verdict("ClassDisabled", sp.class)
    [] OTHER ->
         IF has_operation_identity(s, sp) \/ is_recursive(s, sp)
         THEN Verdict("RecursiveAdmission", sp.class)
         ELSE admit_class(s, sp, sp.class)

-----------------------------------------------------------------------------
\* features/fairness/scheduler.rs: which queued request may be promoted

\* Mutant of runnable: promotion does not look at the memory budget again.
runnable_despite_memory(s, i) ==
  ~has_queued_predecessor(s, i) /\ assess_pending(s, i).block \in {"Ok", "Memory"}

runnable(s, i) == ~has_queued_predecessor(s, i) /\ assess_pending(s, i).block = "Ok"

\* The first runnable request of each class with one.
runnable_candidates(s) ==
  {i \in Queued(s) : /\ runnable(s, i)
                     /\ \A j \in s.queue[s.class[i]] : j < i => ~runnable(s, j)}

has_runnable(s) == runnable_candidates(s) # {}

\* The best-effort tier is served only when no primary class is runnable.
\* Within a tier the discipline decides; here any candidate may win.
select(s) ==
  LET all == runnable_candidates(s)
      tier(best_effort) == {i \in all : Policy[s.class[i]].best_effort = best_effort}
  IN IF tier(FALSE) # {} THEN tier(FALSE) ELSE tier(TRUE)

-----------------------------------------------------------------------------
\* engine/governor.rs: what a promotion pass does to the state

\* Mutant of promote_one: the waiter is not woken.
promote_silently(s, i) ==
  grant(remove_pending(s, i), i, s.spec[i], s.class[i], s.parent[i], TRUE)

\* One promotion: the request leaves its queue and becomes a live permit bound
\* to its ticket; its waiter is to be woken.
promote_one(s, i) ==
  LET sp == s.spec[i]
      parent == IF s.parent[i] # None THEN s.parent[i]
                ELSE parent_permit_for_scope(s, sp)
      t == grant(remove_pending(s, i), i, sp, s.class[i], parent, TRUE)
  IN [t EXCEPT !.wake = IF sp.waker THEN s.wake \cup {i} ELSE s.wake]

\* Queued awaited children that wait for capacity their own wait chain holds.
wait_cycles(s) == {i \in Queued(s) : assess_pending(s, i).block = "IrreversibleWaitCycle"}

\* The one a scan finds first, in class order and then queue order.
first_wait_cycle(s) ==
  {i \in wait_cycles(s) : \A j \in wait_cycles(s) :
     s.class[i] < s.class[j] \/ (s.class[i] = s.class[j] /\ i <= j)}

terminalize_wait_cycle(s, i) ==
  LET t == vacate_recursion_guard(remove_pending(s, i), s.spec[i])
      u == record_terminal_ticket(drop_request(t, i), i, "WaitCycle")
  IN [u EXCEPT !.wake = IF s.spec[i].waker THEN s.wake \cup {i} ELSE s.wake]

\* Mutant of terminalize_queued_for_accounting_fault: the queues stay.
fault_keeps_queues(s) == [s EXCEPT !.promotion_pending = FALSE]

\* Empty every queue after an accounting fault; each ticket keeps an answer
\* outside the terminal ring.
terminalize_queued_for_accounting_fault(s) ==
  LET gone == Queued(s)
      without(f, x) == [i \in Ids |-> IF i \in gone THEN x ELSE f[i]]
  IN [s EXCEPT
        !.queue = [c \in Classes |-> {}], !.queued_ops = {},
        !.recursion = s.recursion \ UNION {stages_of(s.spec[i]) : i \in gone},
        !.tickets = without(s.tickets, "Faulted"),
        !.wake = s.wake \cup {i \in gone : s.spec[i].waker},
        !.spec = without(s.spec, AnySpec), !.class = without(s.class, AnyClass),
        !.parent = without(s.parent, None),
        !.promotion_pending = FALSE]

-----------------------------------------------------------------------------
\* features/memory/mod.rs

\* Mutant of apply_memory_delta: the root of a child is not charged.
apply_delta_without_root(s, i, delta) ==
  [s EXCEPT !.mem = @ + delta, !.mem_held[s.class[i]] = @ + delta]

\* apply_memory_delta on the class, global and root totals; a total that would
\* go negative is kept and recorded as a sticky fault.
apply_memory_delta(s, i, delta) ==
  LET c == s.class[i]
      r == s.spec[i].root
      child == s.spec[i].child
      fits(total) == total + delta >= 0
      shifted(total) == IF fits(total) THEN total + delta ELSE total
  IN [s EXCEPT
        !.mem = shifted(s.mem), !.mem_held = put(s.mem_held, c, shifted(s.mem_held[c])),
        !.root_mem = put(s.root_mem, r, IF child THEN shifted(s.root_mem[r]) ELSE s.root_mem[r]),
        !.fault = \/ s.fault \/ ~fits(s.mem) \/ ~fits(s.mem_held[c])
                  \/ child /\ ~fits(s.root_mem[r])]

\* An accepted reading replaces the permit's charge.
reconcile(s, i, bytes, sequence) ==
  LET units == effective_units(Policy[s.class[i]].mode, s.remaining[i], bytes)
  IN apply_memory_delta(
       [touch(s, i) EXCEPT !.mseq = put(s.mseq, i, sequence),
                           !.units = put(s.units, i, units)],
       i, units - s.units[i])

\* Mutant of release_stage_memory: what is freed is not capped by what is held.
release_stage_uncapped(s, i, freed_units, sequence) ==
  apply_memory_delta([s EXCEPT !.sseq[i] = sequence, !.units[i] = @ - freed_units],
                     i, 0 - freed_units)

\* A stage boundary returns units and shrinks the reservation with them.
release_stage_memory(s, i, freed_units, sequence) ==
  LET freed == Min({freed_units, s.units[i]})
  IN apply_memory_delta(
       [touch(s, i) EXCEPT
          !.sseq = put(s.sseq, i, IF sequence # None THEN sequence ELSE s.sseq[i]),
          !.units = put(s.units, i, s.units[i] - freed),
          !.remaining = put(s.remaining, i, saturating_sub(s.remaining[i], freed))],
       i, 0 - freed)

\* reap_leaks: stale, opted in, and never handed to an executor.
reclaimable(s, stale_after) ==
  {i \in s.permits : /\ Policy[s.class[i]].release = "LeakDetecting"
                     /\ is_stale(s.touched[i], s.watermark, stale_after)
                     /\ s.phase[i] = "DispatchReserved"}
=============================================================================
