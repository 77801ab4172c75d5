----------------------------- MODULE GovChanges -----------------------------
(***************************************************************************)
(* The ways the operations of GovState change the state, as relations between *)
(* the state before and the state after.  An operation is a composition of *)
(* record updates; what the proofs use of it is stated here once: which fields *)
(* stay, which change, and how.                                            *)
(***************************************************************************)
EXTENDS GovState

-----------------------------------------------------------------------------
\* The groups of fields

SameRequests(g, s) == g.spec = s.spec /\ g.class = s.class /\ g.parent = s.parent

SamePermits(g, s) ==
  /\ g.permits = s.permits /\ g.phase = s.phase /\ g.nonce = s.nonce /\ g.minted = s.minted
  /\ g.pending_ticket = s.pending_ticket /\ g.claim_waker = s.claim_waker

SameLedgers(g, s) ==
  /\ g.units = s.units /\ g.remaining = s.remaining /\ g.mseq = s.mseq
  /\ g.sseq = s.sseq /\ g.touched = s.touched

SameTickets(g, s) == g.tickets = s.tickets /\ g.terminal_order = s.terminal_order

SameQueues(g, s) == g.queue = s.queue /\ g.queued_ops = s.queued_ops

SameTotals(g, s) ==
  /\ g.inflight = s.inflight /\ g.admitted = s.admitted /\ g.started = s.started
  /\ g.terminated = s.terminated /\ g.gauge = s.gauge /\ g.cpu_held = s.cpu_held
  /\ g.mem_held = s.mem_held /\ g.cpu = s.cpu /\ g.mem = s.mem /\ g.in_use = s.in_use
  /\ g.child_inflight = s.child_inflight /\ g.root_cpu = s.root_cpu
  /\ g.root_mem = s.root_mem

SameIndexes(g, s) == g.op_permit = s.op_permit /\ g.recursion = s.recursion

SameFlags(g, s) ==
  /\ g.watermark = s.watermark /\ g.fault = s.fault /\ g.closed = s.closed
  /\ g.promotion_pending = s.promotion_pending

-----------------------------------------------------------------------------
\* Permits: a grant, its refund and its progress

\* Permit i is opened for sp in class c and charged.
Opened(g, s, i, sp, c) ==
  /\ g.spec = put(s.spec, i, sp) /\ g.class = put(s.class, i, c)
  /\ g.permits = s.permits \cup {i} /\ g.phase = put(s.phase, i, "DispatchReserved")
  /\ g.units = put(s.units, i, Policy[c].mem) /\ g.remaining = put(s.remaining, i, Policy[c].mem)
  /\ g.mseq = put(s.mseq, i, 0) /\ g.sseq = put(s.sseq, i, 0)
  /\ \E w \in Nat : g.touched = put(s.touched, i, w)
  /\ g.op_permit = put(s.op_permit, identity(sp), i)
  /\ g.recursion = s.recursion \cup stages_of(sp)
  /\ g.inflight = credit(s.inflight, c, 1) /\ g.admitted = credit(s.admitted, c, 1)
  /\ g.started = s.started /\ g.terminated = s.terminated
  /\ g.gauge = put(s.gauge, c, credit(s.gauge[c], "DispatchReserved", 1))
  /\ g.cpu_held = credit(s.cpu_held, c, Policy[c].cpu)
  /\ g.mem_held = credit(s.mem_held, c, Policy[c].mem)
  /\ g.cpu = s.cpu + Policy[c].cpu /\ g.mem = s.mem + Policy[c].mem
  /\ g.in_use = [k \in Caps |-> s.in_use[k] + (IF k \in sp.caps THEN 1 ELSE 0)]
  /\ g.child_inflight = (IF sp.child THEN credit(s.child_inflight, sp.root, 1)
                         ELSE s.child_inflight)
  /\ g.root_cpu = (IF sp.child THEN credit(s.root_cpu, sp.root, Policy[c].cpu) ELSE s.root_cpu)
  /\ g.root_mem = (IF sp.child THEN credit(s.root_mem, sp.root, Policy[c].mem) ELSE s.root_mem)

\* What is given back to the root r of a permit from its total f.
given_back(s, sp, f, n) ==
  CASE ~sp.child -> f
    [] sp.child /\ s.child_inflight[sp.root] <= 1 -> put(f, sp.root, 0)
    [] OTHER -> debit(f, sp.root, n)

\* Permit i is ended and what it was charged is given back.
Ended(g, s, i) ==
  LET sp == s.spec[i]
      c == s.class[i]
  IN /\ g.spec = put(s.spec, i, AnySpec) /\ g.class = put(s.class, i, AnyClass)
     /\ g.parent = put(s.parent, i, None)
     /\ g.permits = s.permits \ {i} /\ g.phase = put(s.phase, i, "DispatchReserved")
     /\ g.units = put(s.units, i, 0) /\ g.remaining = put(s.remaining, i, 0)
     /\ g.mseq = put(s.mseq, i, 0) /\ g.sseq = put(s.sseq, i, 0)
     /\ g.touched = put(s.touched, i, 0)
     /\ g.pending_ticket = s.pending_ticket \ {i} /\ g.claim_waker = s.claim_waker \ {i}
     /\ g.op_permit = put(s.op_permit, identity(sp), None)
     /\ g.recursion = s.recursion \ stages_of(sp)
     /\ g.inflight = debit(s.inflight, c, 1) /\ g.terminated = credit(s.terminated, c, 1)
     /\ g.started = s.started /\ g.admitted = s.admitted
     /\ g.gauge = put(s.gauge, c, debit(s.gauge[c], s.phase[i], 1))
     /\ g.cpu_held = debit(s.cpu_held, c, Policy[c].cpu)
     /\ g.mem_held = debit(s.mem_held, c, s.units[i])
     /\ g.cpu = saturating_sub(s.cpu, Policy[c].cpu)
     /\ g.mem = saturating_sub(s.mem, s.units[i])
     /\ g.in_use = [k \in Caps |-> saturating_sub(s.in_use[k], IF k \in sp.caps THEN 1 ELSE 0)]
     /\ g.child_inflight = given_back(s, sp, s.child_inflight, 1)
     /\ g.root_cpu = given_back(s, sp, s.root_cpu, Policy[c].cpu)
     /\ g.root_mem = given_back(s, sp, s.root_mem, s.units[i])

\* Permit i moves to phase p.
Advanced(g, s, i, p) ==
  LET c == s.class[i]
  IN /\ SameRequests(g, s) /\ SameLedgers(g, s) /\ SameIndexes(g, s) /\ g.permits = s.permits
     /\ g.phase = put(s.phase, i, p)
     /\ g.gauge = put(s.gauge, c, credit(debit(s.gauge[c], s.phase[i], 1), p, 1))
     /\ g.started = put(s.started, c, IF ~has_started(s.phase[i]) /\ has_started(p)
                                      THEN s.started[c] + 1 ELSE s.started[c])
     /\ g.inflight = s.inflight /\ g.admitted = s.admitted /\ g.terminated = s.terminated
     /\ g.cpu_held = s.cpu_held /\ g.mem_held = s.mem_held /\ g.cpu = s.cpu /\ g.mem = s.mem
     /\ g.in_use = s.in_use /\ g.child_inflight = s.child_inflight
     /\ g.root_cpu = s.root_cpu /\ g.root_mem = s.root_mem

\* A permit opened for a queued request is bound to its ticket and to its waker; one
\* opened directly is not.
Bound(g, s, i, sp, ticketed) ==
  LET bound == IF ticketed THEN {i} ELSE {}
  IN /\ g.pending_ticket = s.pending_ticket \cup bound
     /\ g.claim_waker = IF sp.waker THEN s.claim_waker \cup bound ELSE s.claim_waker
     /\ g.tickets = put(s.tickets, i, IF ticketed THEN "Granted" ELSE s.tickets[i])
     /\ g.terminal_order = s.terminal_order

\* What grant does.
Granting(g, s, i, sp, c, parent, ticketed) ==
  /\ Opened(g, s, i, sp, c) /\ Bound(g, s, i, sp, ticketed)
  /\ g.parent = put(s.parent, i, parent) /\ g.nonce = put(s.nonce, i, None)
  /\ SameQueues(g, s) /\ SameFlags(g, s)
  /\ g.issued = s.issued /\ g.minted = s.minted /\ g.wake = s.wake

-----------------------------------------------------------------------------
\* Queues, tickets, memory readings

\* GovernedState::enqueue: the id joins the queue of its class.
EnqueuedAs(g, s, i, sp, c) ==
  /\ g.spec = put(s.spec, i, sp) /\ g.class = put(s.class, i, c)
  /\ g.parent = put(s.parent, i, parent_permit_for_scope(s, sp))
  /\ g.queue = put(s.queue, c, s.queue[c] \cup {i})
  /\ g.queued_ops = s.queued_ops \cup {identity(sp)}
  /\ g.recursion = s.recursion \cup stages_of(sp) /\ g.op_permit = s.op_permit
  /\ g.tickets = put(s.tickets, i, "Queued") /\ g.terminal_order = s.terminal_order
  /\ g.issued = i
  /\ SamePermits(g, s) /\ SameLedgers(g, s) /\ SameTotals(g, s) /\ SameFlags(g, s)
  /\ g.wake = s.wake

\* What the ticket transitions leave alone.
SameButTickets(g, s) ==
  /\ SameRequests(g, s) /\ SameQueues(g, s) /\ SameTotals(g, s) /\ SameIndexes(g, s)
  /\ SameFlags(g, s) /\ g.permits = s.permits /\ g.phase = s.phase /\ g.nonce = s.nonce
  /\ g.issued = s.issued /\ g.minted = s.minted /\ g.wake = s.wake

\* The four ticket fields.
TicketFields(g, f, q, P, W) ==
  /\ g.tickets = f /\ g.terminal_order = q
  /\ g.pending_ticket = P /\ g.claim_waker = W

\* The permits a ticket is bound to, and those with a registered waker.
SameBindings(g, s) == g.pending_ticket = s.pending_ticket /\ g.claim_waker = s.claim_waker

\* Ticket i gets a terminal answer, the youngest of the ring, and the oldest answer
\* goes if there are too many.
Recorded(g, s, i, reason) ==
  LET order == Append(unlisted(s.terminal_order, i), i)
      answered == put(s.tickets, i, reason)
      oldest == Head(order)
  IN IF Len(order) <= MaxTerminal
     THEN g.terminal_order = order /\ g.tickets = answered
     ELSE /\ g.terminal_order = Tail(order)
          /\ g.tickets = IF answered[oldest] \in TerminalReasons
                         THEN put(answered, oldest, "Unknown") ELSE answered

\* Ticket i is no longer retained, if it had an answer.
Forgotten(g, s, i) ==
  /\ g.terminal_order = unlisted(s.terminal_order, i)
  /\ g.tickets = IF s.tickets[i] \in TerminalReasons \cup {"Faulted"}
                 THEN put(s.tickets, i, "Unknown") ELSE s.tickets

\* What unwind does, whether or not a ticket was bound.
Unwound(g, s, i, reason) ==
  /\ Ended(g, s, i)
  /\ g.nonce = put(s.nonce, i, None) /\ SameQueues(g, s) /\ SameFlags(g, s)
  /\ g.issued = s.issued /\ g.minted = s.minted
  /\ IF i \in s.pending_ticket THEN Recorded(g, s, i, reason) ELSE SameTickets(g, s)
  /\ g.wake = IF i \in s.pending_ticket \cap s.claim_waker THEN s.wake \cup {i} ELSE s.wake

\* A promoted request leaves its queue and becomes a permit without a lease, bound to
\* its ticket.
PromotedAs(g, s, i) ==
  /\ Opened(g, s, i, s.spec[i], s.class[i])
  /\ g.queue = put(s.queue, s.class[i], s.queue[s.class[i]] \ {i})
  /\ g.queued_ops = s.queued_ops \ {identity(s.spec[i])}
  /\ g.nonce = put(s.nonce, i, None)
  /\ g.tickets = put(s.tickets, i, "Granted") /\ g.terminal_order = s.terminal_order
  /\ g.pending_ticket = s.pending_ticket \cup {i}
  /\ g.claim_waker = IF s.spec[i].waker THEN s.claim_waker \cup {i} ELSE s.claim_waker
  /\ SameFlags(g, s) /\ g.issued = s.issued /\ g.minted = s.minted
  /\ g.wake = IF s.spec[i].waker THEN s.wake \cup {i} ELSE s.wake

\* The queued request i and its identity leave the state.
Unqueued(g, s, i) ==
  /\ g.spec = put(s.spec, i, AnySpec) /\ g.class = put(s.class, i, AnyClass)
  /\ g.parent = put(s.parent, i, None)
  /\ g.queue = put(s.queue, s.class[i], s.queue[s.class[i]] \ {i})
  /\ g.queued_ops = s.queued_ops \ {identity(s.spec[i])}
  /\ g.recursion = s.recursion \ stages_of(s.spec[i]) /\ g.op_permit = s.op_permit
  /\ SamePermits(g, s) /\ SameLedgers(g, s) /\ SameTotals(g, s)

\* terminalize_wait_cycle: the request leaves its queue; permits are untouched.
CycleEnded(g, s, i) ==
  /\ Unqueued(g, s, i) /\ Recorded(g, s, i, "WaitCycle")
  /\ SameFlags(g, s) /\ g.issued = s.issued
  /\ g.wake = IF s.spec[i].waker THEN s.wake \cup {i} ELSE s.wake

\* Every queue is emptied; each ticket keeps an answer outside the terminal ring.
Emptied(g, s) ==
  LET gone == Queued(s)
      without(f, x) == [i \in Ids |-> IF i \in gone THEN x ELSE f[i]]
  IN /\ g.queue = [c \in Classes |-> {}] /\ g.queued_ops = {}
     /\ g.recursion = s.recursion \ UNION {stages_of(s.spec[i]) : i \in gone}
     /\ g.tickets = without(s.tickets, "Faulted")
     /\ g.spec = without(s.spec, AnySpec) /\ g.class = without(s.class, AnyClass)
     /\ g.parent = without(s.parent, None)
     /\ g.op_permit = s.op_permit /\ g.terminal_order = s.terminal_order
     /\ SamePermits(g, s) /\ SameLedgers(g, s) /\ SameTotals(g, s)

\* What the memory transitions leave alone.
SameWork(g, s) ==
  /\ SameRequests(g, s) /\ SamePermits(g, s) /\ SameTickets(g, s) /\ SameQueues(g, s)
  /\ g.issued = s.issued /\ g.wake = s.wake

\* The totals that contain the charge of permit i move by delta; one that would go
\* negative stays, and that is a fault.
Shifted(g, s, i, delta) ==
  LET c == s.class[i]
      r == s.spec[i].root
      child == s.spec[i].child
      fits(total) == total + delta >= 0
      shifted(total) == IF fits(total) THEN total + delta ELSE total
  IN /\ g.mem = shifted(s.mem) /\ g.mem_held = put(s.mem_held, c, shifted(s.mem_held[c]))
     /\ g.root_mem = put(s.root_mem, r, IF child THEN shifted(s.root_mem[r]) ELSE s.root_mem[r])
     /\ g.fault = (\/ s.fault \/ ~fits(s.mem) \/ ~fits(s.mem_held[c])
                   \/ child /\ ~fits(s.root_mem[r]))
     /\ g.inflight = s.inflight /\ g.admitted = s.admitted /\ g.started = s.started
     /\ g.terminated = s.terminated /\ g.gauge = s.gauge /\ g.cpu_held = s.cpu_held
     /\ g.cpu = s.cpu /\ g.in_use = s.in_use /\ g.child_inflight = s.child_inflight
     /\ g.root_cpu = s.root_cpu /\ SameIndexes(g, s)

\* The fields of the permit ledgers.
LedgerFields(g, units, remaining, mseq, sseq, touched) ==
  /\ g.units = units /\ g.remaining = remaining /\ g.mseq = mseq /\ g.sseq = sseq
  /\ g.touched = touched

\* memory::reconcile: the reading is taken, and the charge follows it.
Reconciled(g, s, i, sequence, units) ==
  /\ SameWork(g, s) /\ Shifted(g, s, i, units - s.units[i])
  /\ g.units = put(s.units, i, units) /\ g.mseq = put(s.mseq, i, sequence)
  /\ g.remaining = s.remaining /\ g.sseq = s.sseq
  /\ \E w \in Nat : w >= s.touched[i] /\ g.touched = put(s.touched, i, w)

\* memory::release_stage_memory: a stage boundary returns units and shrinks the
\* reservation with them.
StageReturned(g, s, i, sequence, freed) ==
  /\ SameWork(g, s) /\ Shifted(g, s, i, 0 - freed)
  /\ g.units = put(s.units, i, s.units[i] - freed) /\ g.mseq = s.mseq
  /\ g.remaining = put(s.remaining, i, saturating_sub(s.remaining[i], freed))
  /\ g.sseq = put(s.sseq, i, IF sequence # None THEN sequence ELSE s.sseq[i])
  /\ \E w \in Nat : w >= s.touched[i] /\ g.touched = put(s.touched, i, w)

-----------------------------------------------------------------------------
\* Custody

\* The leases of the live permits.
Leases(s) == {<<i, s.nonce[i]>> : i \in {j \in s.permits : s.nonce[j] # None}}

\* A live permit has been issued, and has left DispatchReserved exactly when its
\* lease was minted.  What is queued has been issued, is in the queue of its class
\* and is not live: this is what keeps a promotion from granting a permit twice.
CustodySound(s) ==
  /\ GovernedState(s)
  /\ \A i \in s.permits :
       i <= s.issued /\ (s.nonce[i] # None <=> s.phase[i] # "DispatchReserved")
  /\ \A c \in Classes : \A i \in s.queue[c] :
       s.class[i] = c /\ i \notin s.permits /\ i <= s.issued

\* The fields CustodySound and Leases look at.
SameCustody(g, s) ==
  /\ g.permits = s.permits /\ g.phase = s.phase /\ g.nonce = s.nonce
  /\ g.class = s.class /\ g.queue = s.queue /\ g.issued = s.issued

\* One more permit of class c with capabilities caps fits every limit.
Room(s, c, caps) ==
  /\ ~s.fault /\ s.inflight[c] < Policy[c].max_inflight
  /\ \A k \in caps : CapLimit[k] # 0 => s.in_use[k] < CapLimit[k]
  /\ MaxCpuUnits # 0 => s.cpu + Policy[c].cpu <= MaxCpuUnits
  /\ MaxMemUnits # 0 => s.mem + Policy[c].mem <= MaxMemUnits

\* The admission indexes know neither the operation nor the stage of sp.
Fresh(s, sp) == ~has_operation_identity(s, sp) /\ ~is_recursive(s, sp)

-----------------------------------------------------------------------------
\* The kinds of change a step of the Governor is made of

\* Not at all, as far as the invariants are concerned.
Kept(g, s) ==
  /\ SameRequests(g, s) /\ SamePermits(g, s) /\ SameLedgers(g, s) /\ SameTickets(g, s)
  /\ SameQueues(g, s) /\ SameTotals(g, s) /\ SameIndexes(g, s)
  /\ g.issued = s.issued /\ g.fault = s.fault

\* A newcomer is granted a permit.
Admitting(g, s, i, sp, c) ==
  /\ i = s.issued + 1 /\ i \in Ids /\ sp \in Specs /\ c \in Classes
  /\ Opened(g, s, i, sp, c) /\ SameQueues(g, s) /\ SameTickets(g, s) /\ SameBindings(g, s)
  /\ g.issued = i /\ g.fault = s.fault
  /\ Fresh(s, sp) /\ Room(s, c, sp.caps) /\ ~has_queued_domain(s, c, sp.caps)

\* A newcomer is queued.
Queueing(g, s, i, sp, c) ==
  /\ i = s.issued + 1 /\ i \in Ids /\ sp \in Specs /\ c \in Classes
  /\ EnqueuedAs(g, s, i, sp, c) /\ ~s.fault
  /\ Fresh(s, sp) /\ Cardinality(s.queue[c]) < Policy[c].max_queue_depth

\* A queued request is granted its permit.
Promoting(g, s, i) ==
  /\ i \in Queued(s) /\ i \in Ids /\ PromotedAs(g, s, i)
  /\ Room(s, s.class[i], s.spec[i].caps) /\ ~has_queued_predecessor(s, i)

\* A queued request is withdrawn by its holder or ended as a wait cycle.
Leaving(g, s, i) ==
  /\ i \in Queued(s) /\ i \in Ids /\ Unqueued(g, s, i)
  /\ g.issued = s.issued /\ g.fault = s.fault
  /\ \/ Recorded(g, s, i, "WaitCycle")
     \/ g.tickets = put(s.tickets, i, "Unknown") /\ g.terminal_order = s.terminal_order

\* An accounting fault empties the queues.
Emptying(g, s) == Emptied(g, s) /\ g.issued = s.issued /\ g.fault = TRUE

\* A permit ends.
Ending(g, s, i) ==
  i \in s.permits /\ i \in Ids /\ \E reason \in TerminalReasons : Unwound(g, s, i, reason)

\* A permit enters a later phase.
Advancing(g, s, i, p) ==
  /\ i \in s.permits /\ p \in Phases /\ rank(p) > rank(s.phase[i])
  /\ Advanced(g, s, i, p) /\ SameQueues(g, s) /\ SameTickets(g, s) /\ SameBindings(g, s)
  /\ g.issued = s.issued /\ g.fault = s.fault

\* A permit's charge follows a newer reading, or shrinks at a stage boundary.
Metering(g, s, i) ==
  /\ i \in s.permits
  /\ \/ \E sequence \in Nat, u \in Nat :
          sequence > s.mseq[i] /\ Reconciled(g, s, i, sequence, u)
     \/ \E sequence \in Nat, freed \in 0..s.units[i] :
          (sequence # None => sequence > s.sseq[i]) /\ StageReturned(g, s, i, sequence, freed)

\* Of the ledgers only the activity time of permit i may have moved, forward.
Touched(g, s, i) ==
  /\ g.units = s.units /\ g.remaining = s.remaining /\ g.mseq = s.mseq /\ g.sseq = s.sseq
  /\ \E w \in Nat : w >= s.touched[i] /\ g.touched = put(s.touched, i, w)

\* The two halves of claim.
Claiming(g, s, i) ==
  /\ i \in Ids /\ s.tickets[i] = "Granted" /\ SameButTickets(g, s) /\ Touched(g, s, i)
  /\ g.tickets = put(s.tickets, i, "Claiming") /\ g.terminal_order = s.terminal_order
  /\ g.pending_ticket = s.pending_ticket /\ g.claim_waker = s.claim_waker \ {i}

Claimed(g, s, i) ==
  /\ i \in Ids /\ s.tickets[i] = "Claiming" /\ SameButTickets(g, s) /\ Touched(g, s, i)
  /\ g.tickets = put(s.tickets, i, "Unknown") /\ g.terminal_order = s.terminal_order
  /\ g.pending_ticket = s.pending_ticket \ {i} /\ g.claim_waker = s.claim_waker

\* A claim fails and its permit stays: only the ticket ends.
Failing(g, s, i) ==
  /\ i \in Ids /\ s.tickets[i] = "Claiming" /\ SameButTickets(g, s) /\ SameLedgers(g, s)
  /\ \E reason \in TerminalReasons : Recorded(g, s, i, reason)
  /\ g.pending_ticket = s.pending_ticket \ {i} /\ g.claim_waker = s.claim_waker

\* A retained answer is taken.
Forgetting(g, s, i) ==
  /\ i \in Ids /\ SameButTickets(g, s) /\ SameLedgers(g, s) /\ SameBindings(g, s)
  /\ Forgotten(g, s, i)

Change(g, s) ==
  \/ Kept(g, s) \/ Emptying(g, s)
  \/ \E i, sp, c : Admitting(g, s, i, sp, c) \/ Queueing(g, s, i, sp, c)
  \/ \E i : \/ Promoting(g, s, i) \/ Leaving(g, s, i) \/ Ending(g, s, i) \/ Metering(g, s, i)
            \/ Claiming(g, s, i) \/ Claimed(g, s, i) \/ Failing(g, s, i)
            \/ Forgetting(g, s, i)
  \/ \E i, p : Advancing(g, s, i, p)

-----------------------------------------------------------------------------
\* What a step of a thread makes of the state

\* A step commits the time, makes one change, and may take an answer or hand over
\* its effects.
Step(g, s) ==
  \E r, m : /\ CustodySound(r) /\ CustodySound(m) /\ Kept(r, s) /\ Change(m, r)
            /\ Kept(g, m) \/ \E i : Forgetting(g, m, i)

-----------------------------------------------------------------------------
\* Tickets

\* No ticket is in the ring twice.
Once(q) == \A m, n \in 1..Len(q) : q[m] = q[n] => m = n

\* The ring q holds exactly the tickets with a terminal answer in f, once each, and
\* no more than its bound.
RingSound(q, f) ==
  /\ \A n \in 1..Len(q) : f[q[n]] \in TerminalReasons
  /\ \A i \in Ids : f[i] \in TerminalReasons => \E n \in 1..Len(q) : q[n] = i
  /\ Once(q) /\ Len(q) <= MaxTerminal

\* What ticket j says is so: a Queued one is queued, a Granted or Claiming one is bound
\* to a live permit, only a Granted one has a waker registered with its permit, and
\* one not issued yet is unknown.
TicketOf(s, j) ==
  /\ j \in Queued(s) <=> s.tickets[j] = "Queued"
  /\ j \in s.pending_ticket <=> s.tickets[j] \in {"Granted", "Claiming"}
  /\ j \in s.pending_ticket => j \in s.permits
  /\ j \in s.claim_waker => s.tickets[j] = "Granted"
  /\ j > s.issued => s.tickets[j] = "Unknown"

TicketSound(s) ==
  (\A j \in Ids : TicketOf(s, j)) /\ RingSound(s.terminal_order, s.tickets)

\* Ticket i has an answer, or a claim is taking it.
Settled(s, i) == s.tickets[i] \notin {"Unknown", "Queued"}

-----------------------------------------------------------------------------
\* Runnable work

\* Nothing of its domain is queued before request i, and it fits.
Startable(s, i) == ~has_queued_predecessor(s, i) /\ Room(s, s.class[i], s.spec[i].caps)

=============================================================================
