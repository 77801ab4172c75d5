-------------------------- MODULE GovSafetyProofs ---------------------------
(***************************************************************************)
(* Every action of the Governor is one change of the state between two that *)
(* keep it: the theorems about tickets, wake-ups, identities, ledgers,     *)
(* capacity and order.                                                     *)
(***************************************************************************)
EXTENDS GovernorStepProofs, GovProgressProofs, GovChangeProofs, GovLedgerProofs

\* A leaf is for Zenon unless it names another prover.
USE Zenon

\* What holds of the state in every reachable state: it is safe and its books are in
\* order.
Sound(s) == SafeState(s) /\ BooksSound(s)

\* An action of the Governor is a step of its state, and a step keeps it sound.
LEMMA StaysSound ==
  ASSUME IInv, IInv', Sound(gov), [Next]_vars
  PROVE  Sound(gov') /\ Step(gov', gov)
<1>1. CustodySound(gov) /\ CustodySound(gov') /\ Step(gov', gov)
  BY EveryStep DEF IInv, Sound, SafeState
<1> QED BY <1>1, SafeStep, BooksStep DEF Sound

\* The invariant of the state holds in every reachable state.
THEOREM Safety == Spec => [](IInv /\ Sound(gov))
<1>1. Init => IInv /\ Sound(gov)
  <2>1. ASSUME Init PROVE IInv /\ gov = Empty
    BY <2>1, InvariantInit DEF Init
  <2>2. ASSUME IInv, gov = Empty PROVE Sound(gov)
    BY <2>2, SafeEmpty, BooksEmpty DEF IInv, CustodySound, Sound
  <2> QED BY <2>1, <2>2
<1>2. IInv /\ Sound(gov) /\ [Next]_vars => IInv' /\ Sound(gov)'
  BY InvariantStep, StaysSound
<1> QED BY <1>1, <1>2, PTL DEF Spec

\* Tickets are exact: the index, the queues, the bound permits and the terminal ring
\* describe one lifecycle, whatever the threads do.
THEOREM Tickets == Spec => []TicketsExact
<1>1. Sound(gov) => TicketsExact
  BY SafeTickets DEF Sound, TicketsExact
<1> QED BY <1>1, Safety, PTL

\* Identities are exact: no operation of a root, and no stage of its children, is
\* ever carried twice, and the indexes admission consults say exactly that.
THEOREM IdentitiesExact == Spec => []IdentityExact
<1>1. ASSUME Sound(gov) PROVE IdentityExact
  <2>1. SafeState(gov)
    BY <1>1 DEF Sound
  <2> QED BY <2>1, SafeIdentities, SMT DEF IdentityExact
<1> QED BY <1>1, Safety, PTL

\* Every snapshot is conserved and its counters are what an independent count over the
\* permit ledgers gives.
THEOREM Ledgers == Spec => []LedgerExact
<1>1. ASSUME Sound(gov) PROVE LedgerExact
  <2>1. /\ GovernedState(gov) /\ LedgerSound(gov)
        /\ \A k \in Caps : CapLimit[k] # 0 => gov.in_use[k] <= CapLimit[k]
    BY <1>1 DEF Sound, SafeState, CustodySound, CapacitySound, BooksSound
  <2>2. conserved(snapshot(gov))
    BY <2>1, ObservedConserved
  <2>3. /\ \A c \in Classes :
             /\ snapshot(gov).classes[c].inflight = gov.inflight[c]
             /\ \A p \in Phases : snapshot(gov).classes[c].phases[p] = gov.gauge[c][p]
             /\ snapshot(gov).classes[c].cpu_units_held = gov.cpu_held[c]
             /\ snapshot(gov).classes[c].memory_units_held = gov.mem_held[c]
        /\ \A k \in Caps : snapshot(gov).capabilities[k].in_use = gov.in_use[k]
    BY SMT DEF snapshot, class_snapshot, capability_usage
  <2> QED BY <2>1, <2>2, <2>3, ObservedCounts, SMT DEF LedgerExact
<1> QED BY <1>1, Safety, PTL

\* The engine's own oracle never fires, and what a root is attributed is what its live
\* children are charged.
THEOREM Units == Spec => []UnitsExact
<1>1. ASSUME Sound(gov) PROVE UnitsExact
  <2>1. CustodySound(gov) /\ GovernedState(gov) /\ LedgerSound(gov) /\ SafeState(gov)
    BY <1>1 DEF Sound, SafeState, CustodySound, BooksSound
  <2>2. \A i \in Ids : gov.tickets[i] \in {"Granted", "Claiming"} => i \in gov.permits
    BY <2>1, SafeTickets
  <2>3. assert_consistent(gov)
    BY <2>1, <2>2, OracleHolds
  <2> QED BY <2>1, <2>3, ObservedCounts, SMT DEF UnitsExact, root_attribution
<1> QED BY <1>1, Safety, PTL

\* No limit is ever exceeded, for every policy and every budget.
THEOREM Capacity == Spec => []CapacityBounded
<1>1. Sound(gov) => CapacityBounded
  BY DEF Sound, SafeState, CapacitySound, CapacityBounded
<1> QED BY <1>1, Safety, PTL

\* No request overtakes an earlier one of its class and domain.
THEOREM Fifo == Spec => []FifoWithinDomain
<1>1. Sound(gov) => FifoWithinDomain
  BY DEF Sound, SafeState, FifoSound, Ordered, FifoWithinDomain
<1> QED BY <1>1, Safety, PTL

\* No grant leaves the held memory over its budget.
THEOREM MemoryFits == Spec => GrantsFitMemory
<1>1. ASSUME IInv, IInv', Sound(gov), [Next]_vars
      PROVE  ~(gov'.permits \subseteq gov.permits) /\ MaxMemUnits # 0 => gov'.mem <= MaxMemUnits
  <2>1. FitsMemory(gov', gov)
    BY <1>1, StaysSound, StepIsForward DEF IInv
  <2> QED BY <2>1 DEF FitsMemory
<1> QED BY <1>1, Safety, PTL DEF Spec, GrantsFitMemory

\* The ledger of a live permit never moves back.
THEOREM LedgersForward == Spec => LedgersMoveForward
<1>1. ASSUME IInv, IInv', Sound(gov), [Next]_vars
      PROVE  \A i \in gov.permits \cap gov'.permits :
               /\ rank(gov'.phase[i]) >= rank(gov.phase[i])
               /\ gov'.mseq[i] >= gov.mseq[i] /\ gov'.sseq[i] >= gov.sseq[i]
               /\ gov'.touched[i] >= gov.touched[i]
               /\ gov'.remaining[i] <= gov.remaining[i]
               /\ gov'.units[i] > gov.units[i] => gov'.mseq[i] > gov.mseq[i]
  <2>1. \A i \in gov.permits \cap gov'.permits : Forward(gov', gov, i)
    BY <1>1, StaysSound, StepIsForward DEF IInv
  <2> QED BY <2>1 DEF Forward
<1> QED BY <1>1, Safety, PTL DEF Spec, LedgersMoveForward

\* Fail-stop: after an accounting fault nothing is queued and nothing new is granted.
THEOREM FaultIsFinal == Spec => FaultStops
<1>1. ASSUME IInv, IInv', Sound(gov), [Next]_vars
      PROVE  gov.fault => gov'.fault /\ gov'.permits \subseteq gov.permits /\ Queued(gov') = {}
  <2>1. Step(gov', gov) /\ Sound(gov') /\ CustodySound(gov) /\ CustodySound(gov')
    BY <1>1, StaysSound DEF IInv
  <2> QED BY <1>1, <2>1, BooksStep DEF Sound, BooksSound, Stopped
<1> QED BY <1>1, Safety, PTL DEF Spec, FaultStops

\* No wake-up is lost: a waiter whose ticket has an answer has been woken for it or is
\* about to be, and a ticket is being claimed only while a claim that will settle it is
\* in progress.
THEOREM WakeUps == Spec => []NoLostWakeup
<1>1. Init => WakeSound
  BY WakeInit
<1>2. ASSUME IInv, IInv', Sound(gov), WakeSound, [Next]_vars PROVE WakeSound'
  <2>1. gov'.issued >= gov.issued
    <3>1. GovernedState(gov) /\ Step(gov', gov) /\ gov.issued \in 0..MaxIds
      BY <1>2, StaysSound DEF IInv, CustodySound, GovernedState
    <3>2. gov'.issued = gov.issued \/ gov'.issued = gov.issued + 1
      BY <3>1, StepIssues
    <3> QED BY <3>1, <3>2, SMT
  <2>2. TicketSound(gov)
    BY <1>2 DEF Sound, SafeState
  <2> QED BY <1>2, <2>1, <2>2, WakeStep
<1>3. ASSUME WakeSound PROVE NoLostWakeup
  <2>1. ASSUME NEW i \in Ids, gov.tickets[i] \in TerminalReasons \cup {"Granted", "Faulted"}
        PROVE  i \in Waking
    <3>1. Settled(gov, i)
      BY <2>1, SMT DEF Settled, TerminalReasons
    <3> QED BY <1>3, <3>1 DEF WakeSound
  <2>2. \A i \in Ids : gov.tickets[i] = "Claiming" =>
          \E t \in Threads : th[t].pc = "claiming" /\ th[t].id = i
    BY <1>3 DEF WakeSound
  <2> QED BY <2>1, <2>2 DEF NoLostWakeup
<1> QED BY <1>1, <1>2, <1>3, Safety, PTL DEF Spec
=============================================================================
