---------------------------- MODULE Observation -----------------------------
(***************************************************************************)
(* What a Governor lets others see of its state                            *)
(* (engine/governor/observation.rs, taskmesh-contract/src/snapshot.rs) and *)
(* its own consistency oracle (state/transition.rs, assert_consistent).    *)
(* Each is a function of the state s that the mutex protects: an observer  *)
(* locks, reads and unlocks.                                               *)
(***************************************************************************)
EXTENDS GovState

\* Governor::snapshot: the incrementally maintained counters of every class and
\* the occupancy of every pool.
class_snapshot(s, c) ==
  [inflight |-> s.inflight[c], queued |-> Cardinality(s.queue[c]),
   cpu_units_held |-> s.cpu_held[c], memory_units_held |-> s.mem_held[c],
   phases |-> s.gauge[c], admitted_total |-> s.admitted[c],
   started_total |-> s.started[c], terminated_total |-> s.terminated[c]]

capability_usage(s, k) == [in_use |-> s.in_use[k], limit |-> CapLimit[k]]

snapshot(s) == [classes |-> [c \in Classes |-> class_snapshot(s, c)],
                capabilities |-> [k \in Caps |-> capability_usage(s, k)]]

\* ClassSnapshot::conservation_violation and Snapshot::conservation_violation.
class_conserved(v) ==
  LET phase_sum(P) == MapThenSumSet(LAMBDA p : v.phases[p], P)
  IN /\ v.inflight = phase_sum(Phases)
     /\ v.admitted_total = v.inflight + v.terminated_total
     /\ v.started_total <= v.admitted_total
     /\ v.started_total >= phase_sum({p \in Phases : has_started(p)})

conserved(view) ==
  /\ \A c \in DOMAIN view.classes : class_conserved(view.classes[c])
  /\ \A k \in DOMAIN view.capabilities :
       LET usage == view.capabilities[k] IN usage.limit # 0 => usage.in_use <= usage.limit

\* Governor::permit_ledgers: the ledger of every live permit.
permit_ledger(s, i) ==
  [permit_id |-> i, class |-> s.class[i], capabilities |-> s.spec[i].caps,
   phase |-> s.phase[i], cpu_units |-> Policy[s.class[i]].cpu,
   effective_units |-> s.units[i], remaining_reservation_units |-> s.remaining[i],
   measurement_epoch |-> s.mseq[i], last_touched_ms |-> s.touched[i]]

permit_ledgers(s) == {permit_ledger(s, i) : i \in s.permits}

cpu_sum(ledgers) == MapThenSumSet(LAMBDA ledger : ledger.cpu_units, ledgers)
memory_sum(ledgers) == MapThenSumSet(LAMBDA ledger : ledger.effective_units, ledgers)

\* Governor::root_attribution.
root_attribution(s, r) ==
  [child_inflight |-> s.child_inflight[r], cpu_units |-> s.root_cpu[r],
   memory_units |-> s.root_mem[r]]

\* Governor::pending_assessment of a queued ticket.
pending_assessment(s, i) ==
  assess_scope(s, s.class[i], s.spec[i], s.parent[i],
               s.promotion_pending \/ has_queued_predecessor(s, i))

\* GovernedState::assert_consistent: every total recomputed from the permits.
assert_consistent(s) ==
  LET ledgers == permit_ledgers(s)
      sum(total) == MapThenSumSet(LAMBDA c : total[c], Classes)
  IN /\ s.cpu = sum(s.cpu_held) /\ s.mem = sum(s.mem_held)
     /\ s.cpu = cpu_sum(ledgers) /\ s.mem = memory_sum(ledgers)
     /\ \A i \in s.permits : s.nonce[i] # None <=> s.phase[i] # "DispatchReserved"
     /\ \A c \in Classes :
          /\ s.inflight[c] = Cardinality({l \in ledgers : l.class = c})
          /\ s.inflight[c] = MapThenSumSet(LAMBDA p : s.gauge[c][p], Phases)
          /\ s.admitted[c] = s.inflight[c] + s.terminated[c]
     /\ \A k \in Caps : s.in_use[k] = Cardinality({l \in ledgers : k \in l.capabilities})
     /\ \A i \in Ids : s.tickets[i] \in {"Granted", "Claiming"} => i \in s.permits
=============================================================================
