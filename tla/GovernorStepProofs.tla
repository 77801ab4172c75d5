------------------------- MODULE GovernorStepProofs -------------------------
(***************************************************************************)
(* What every action of the Governor does to its state: it is one Step, made *)
(* of the kinds of change that GovChanges lists, and it is one step of the *)
(* PermitService that the Governor implements, or hides behind one.        *)
(***************************************************************************)
EXTENDS GovernorProofs, GovernorRefinement

\* A leaf is for Zenon unless it names another prover.
USE Zenon

-----------------------------------------------------------------------------
\* Every action is a change

\* Entering an operation commits its time.
LEMMA EnteredTime ==
  ASSUME IInv, NEW t \in Threads, NEW now, Enter(t, now)
  PROVE  LET s == commit_time(gov, now) IN
         CustodySound(s) /\ Kept(s, gov) /\ s.tickets = gov.tickets /\ s.issued = gov.issued
<1>1. now \in Nat
  <2>1. gov.watermark \in Nat
    BY CustodyTypes DEF IInv, CustodySound
  <2> QED BY <2>1, GovernorAssumption, SMT DEF Enter
<1>2. CustodySound(commit_time(gov, now)) /\ Kept(commit_time(gov, now), gov)
  BY <1>1, Entered, KeptTime DEF IInv, CustodySound
<1> QED BY <1>2 DEF Kept, SameTickets

\* One change after the commit of the time.
LEMMA StepEntered ==
  ASSUME IInv, NEW t \in Threads, NEW now, Enter(t, now), NEW g, CustodySound(g),
         Change(g, commit_time(gov, now))
  PROVE  Step(g, gov)
<1>1. CustodySound(commit_time(gov, now)) /\ Kept(commit_time(gov, now), gov)
  BY EnteredTime
<1> QED BY <1>1, KeptItself DEF Step

\* Unlock hands over the effects.
LEMMA UnlockStep ==
  ASSUME NEW t, NEW more, NEW r, NEW s, NEW m, CustodySound(r), Kept(r, s), CustodySound(m),
         Change(m, r), Unlock(t, m, more)
  PROVE  Step(gov', s)
<1>1. {} \in SUBSET Ids /\ GovernedState(m)
  BY DEF CustodySound
<1>2. Kept([m EXCEPT !.wake = {}], m)
  BY <1>1, KeptWake
<1>3. gov' = [m EXCEPT !.wake = {}]
  BY DEF Unlock
<1>4. Kept(gov', m)
  BY <1>2, <1>3
<1> QED BY <1>4 DEF Step

\* A release ends its permit, or changes nothing.
LEMMA ReleaseWithProofChange ==
  ASSUME NEW t, NEW s, CustodySound(s), NEW i, NEW proof, ReleaseWithProof(t, s, i, proof)
  PROVE  Change(gov', s)
<1>1. CASE releasable(s, i, proof) /\ gov' = unwind(s, i, "Released")
  <2>1. i \in s.permits /\ "Released" \in TerminalReasons
    BY <1>1 DEF releasable, TerminalReasons
  <2> QED BY <1>1, <2>1, UnwindChange
<1>2. CASE gov' = s
  BY <1>2, KeptItself DEF Change
<1> QED BY <1>1, <1>2 DEF ReleaseWithProof, BeginPass, Finish

\* admit_inner: a grant, a queued ticket or nothing.
LEMMA AdmitChanges ==
  ASSUME IInv, IInv', NEW t \in Threads, NEW sp \in Specs, NEW now, Admit(t, sp, now)
  PROVE  Step(gov', gov)
<1> DEFINE s == commit_time(gov, now)
           d == admit(s, sp)
<1>1. Enter(t, now) /\ gov.issued < MaxIds
  BY DEF Admit
<1>2. CustodySound(s) /\ s.issued = gov.issued /\ CustodySound(gov')
  BY <1>1, EnteredTime DEF IInv
<1>3. \/ /\ d.verdict = "Admitted"
         /\ gov' = grant([s EXCEPT !.issued = gov.issued + 1], gov.issued + 1, sp, d.class,
                         parent_permit_for_scope(s, sp), FALSE)
      \/ d.verdict = "Queued" /\ gov' = enqueue(s, gov.issued + 1, sp, d.class)
      \/ gov' = s
  BY DEF Admit
<1> HIDE DEF s
<1>4. CASE /\ d.verdict = "Admitted"
           /\ gov' = grant([s EXCEPT !.issued = gov.issued + 1], gov.issued + 1, sp, d.class,
                           parent_permit_for_scope(s, sp), FALSE)
  <2>1. Change(grant([s EXCEPT !.issued = s.issued + 1], s.issued + 1, sp, d.class,
                     parent_permit_for_scope(s, sp), FALSE), s)
    BY <1>1, <1>2, <1>4, AdmitChange
  <2>2. Change(gov', s)
    <3> HIDE DEF d
    <3> QED BY <1>2, <1>4, <2>1
  <2> QED BY <1>1, <1>2, <2>2, StepEntered DEF s
<1>5. CASE d.verdict = "Queued" /\ gov' = enqueue(s, gov.issued + 1, sp, d.class)
  <2>1. Change(enqueue(s, s.issued + 1, sp, d.class), s)
    BY <1>1, <1>2, <1>5, EnqueueChange
  <2>2. Change(gov', s)
    <3> HIDE DEF d
    <3> QED BY <1>2, <1>5, <2>1
  <2> QED BY <1>1, <1>2, <2>2, StepEntered DEF s
<1>6. CASE gov' = s
  <2>1. Change(gov', s)
    BY <1>6, KeptItself DEF Change
  <2> QED BY <1>1, <1>2, <2>1, StepEntered DEF s
<1> QED BY <1>3, <1>4, <1>5, <1>6

\* The return of admit, and its compensation.
LEMMA RetiringChanges ==
  ASSUME IInv, IInv', NEW t \in Threads, AdmitReturn(t) \/ AdmitPanic(t)
  PROVE  Step(gov', gov)
<1>1. CustodySound(gov) /\ CustodySound(gov')
  BY DEF IInv
<1>2. CASE AdmitReturn(t)
  BY <1>1, <1>2, StepKept, KeptItself DEF AdmitReturn, Finish
<1>3. CASE AdmitPanic(t)
  BY <1>1, <1>3, ReleaseWithProofChange, StepOne DEF AdmitPanic
<1> QED BY <1>2, <1>3

\* An answer is taken after the commit of the time.
LEMMA StepForgets ==
  ASSUME NEW s, NEW r, NEW g, CustodySound(r), Kept(r, s), NEW i, Forgetting(g, r, i)
  PROVE  Step(g, s)
BY KeptItself DEF Step, Change

\* The first half of claim.
LEMMA ClaimChanges ==
  ASSUME IInv, IInv', NEW t \in Threads, NEW i \in Ids, NEW now, Claim(t, i, now)
  PROVE  Step(gov', gov)
<1> DEFINE s == commit_time(gov, now)
<1>1. Enter(t, now)
  BY DEF Claim
<1>2. CustodySound(s) /\ Kept(s, gov) /\ s.tickets = gov.tickets /\ CustodySound(gov')
  BY <1>1, EnteredTime DEF IInv
<1>3. \/ gov.tickets[i] = "Granted" /\ gov' = begin_claim(s, i)
      \/ gov' = s
      \/ gov' = forget_terminal_ticket(s, i)
  BY DEF Claim, Finish
<1> HIDE DEF s
<1>4. CASE gov.tickets[i] = "Granted" /\ gov' = begin_claim(s, i)
  <2>1. Change(gov', s)
    BY <1>2, <1>4, ClaimChange
  <2> QED BY <1>1, <1>2, <2>1, StepEntered DEF s
<1>5. CASE gov' = s
  <2>1. Change(gov', s)
    BY <1>5, KeptItself DEF Change
  <2> QED BY <1>1, <1>2, <2>1, StepEntered DEF s
<1>6. CASE gov' = forget_terminal_ticket(s, i)
  BY <1>2, <1>6, ClaimChange, StepForgets
<1> QED BY <1>3, <1>4, <1>5, <1>6

\* A ticket being claimed is bound to a live permit.
LEMMA ClaimedIsLive ==
  ASSUME NEW s, TicketSound(s), NEW i \in Ids, s.tickets[i] \in {"Granted", "Claiming"}
  PROVE  i \in s.permits
BY DEF TicketSound, TicketOf

\* Its second half.
LEMMA ClaimFinishChanges ==
  ASSUME IInv, IInv', TicketSound(gov), NEW t \in Threads, ClaimFinish(t)
  PROVE  Step(gov', gov)
<1> DEFINE i == th[t].id
<1>1. CustodySound(gov) /\ CustodySound(gov') /\ i \in Ids
  BY DEF ClaimFinish, IInv, ThreadsSound
<1>2. gov.tickets[i] = "Claiming" => i \in gov.permits
  BY <1>1, ClaimedIsLive
<1>3. \/ gov.tickets[i] = "Claiming" /\ gov' = finish_claim(gov, i)
      \/ gov' = forget_terminal_ticket(gov, i)
      \/ gov' = gov
  <2>1. gov' = CASE gov.tickets[i] = "Claiming" /\ i \in gov.permits -> finish_claim(gov, i)
                 [] gov.tickets[i] = "Claiming" /\ i \notin gov.permits ->
                      record_terminal_ticket(gov, i, "Released")
                 [] gov.tickets[i] \in TerminalReasons \cup {"Faulted"} ->
                      forget_terminal_ticket(gov, i)
                 [] OTHER -> gov
    BY DEF ClaimFinish, Finish
  <2> HIDE DEF i
  <2> QED BY <1>2, <2>1, SMT
<1> HIDE DEF i
<1>4. CASE gov.tickets[i] = "Claiming" /\ gov' = finish_claim(gov, i)
  BY <1>1, <1>4, ClaimChange, StepOne
<1>5. CASE gov' = forget_terminal_ticket(gov, i)
  BY <1>1, <1>5, ClaimChange, StepForgets, KeptItself
<1>6. CASE gov' = gov
  BY <1>1, <1>6, StepKept, KeptItself
<1> QED BY <1>3, <1>4, <1>5, <1>6

\* Its compensation.
LEMMA ClaimPanicChanges ==
  ASSUME IInv, IInv', NEW t \in Threads, ClaimPanic(t)
  PROVE  Step(gov', gov)
<1> DEFINE i == th[t].id
           reason == IF i \in gov.permits THEN "ClaimDeliveryFailed" ELSE "Released"
<1>1. CustodySound(gov) /\ CustodySound(gov') /\ i \in Ids
  BY DEF ClaimPanic, IInv, ThreadsSound
<1>2. \/ releasable(gov, i, None) /\ gov' = unwind(gov, i, "ClaimDeliveryFailed")
      \/ /\ gov.tickets[i] = "Claiming"
         /\ gov' = record_terminal_ticket(
                     [gov EXCEPT !.pending_ticket = gov.pending_ticket \ {i}], i, reason)
      \/ gov' = gov
  BY DEF ClaimPanic, BeginPass, Finish
<1>3. "ClaimDeliveryFailed" \in TerminalReasons /\ reason \in TerminalReasons
  BY DEF TerminalReasons
<1> HIDE DEF i, reason
<1>4. CASE releasable(gov, i, None) /\ gov' = unwind(gov, i, "ClaimDeliveryFailed")
  <2>1. i \in gov.permits
    BY <1>4 DEF releasable
  <2> QED BY <1>1, <1>3, <1>4, <2>1, UnwindChange, StepOne
<1>5. CASE /\ gov.tickets[i] = "Claiming"
           /\ gov' = record_terminal_ticket(
                       [gov EXCEPT !.pending_ticket = gov.pending_ticket \ {i}], i, reason)
  <2>1. Change(gov', gov)
    BY <1>1, <1>3, <1>5, FailChange
  <2> QED BY <1>1, <2>1, StepOne
<1>6. CASE gov' = gov
  BY <1>1, <1>6, StepKept, KeptItself
<1> QED BY <1>2, <1>4, <1>5, <1>6

\* abandon: a queued ticket leaves, or a granted permit ends.
LEMMA AbandonChanges ==
  ASSUME IInv, IInv', TicketSound(gov), NEW t \in Threads, NEW i \in Ids, NEW now,
         Abandon(t, i, now)
  PROVE  Step(gov', gov)
<1> DEFINE s == commit_time(gov, now)
           ended == unwind(s, i, "Abandoned")
           dequeued == remove_ticket(drop_request(
                         vacate_recursion_guard(remove_pending(s, i), s.spec[i]), i), i)
<1>1. Enter(t, now)
  BY DEF Abandon
<1>2. CustodySound(s) /\ Kept(s, gov) /\ s.tickets = gov.tickets /\ CustodySound(gov')
  BY <1>1, EnteredTime DEF IInv
<1>3. \/ releasable(s, i, None) /\ gov' = forget_terminal_ticket(ended, i)
      \/ gov' = s
      \/ gov.tickets[i] \in {"Granted", "Claiming"} /\ i \notin s.permits
      \/ gov.tickets[i] = "Queued" /\ gov' = dequeued
      \/ gov' = forget_terminal_ticket(s, i)
  BY DEF Abandon, BeginPass, Finish
<1>4. gov.tickets[i] \in {"Granted", "Claiming"} => i \in s.permits
  BY <1>2, ClaimedIsLive DEF Kept, SamePermits
<1>5. gov.tickets[i] = "Queued" => i \in Queued(s)
  BY <1>2 DEF TicketSound, TicketOf, Kept, SameQueues, Queued
<1> HIDE DEF s, ended, dequeued
<1>6. CASE releasable(s, i, None) /\ gov' = forget_terminal_ticket(ended, i)
  <2>1. i \in s.permits /\ "Abandoned" \in TerminalReasons
    BY <1>6 DEF releasable, TerminalReasons
  <2>2. Change(ended, s) /\ CustodySound(ended)
    BY <1>2, <2>1, UnwindChange, CustodyUnwind DEF ended
  <2>3. Forgetting(gov', ended, i)
    BY <1>6, <2>2, ClaimChange
  <2> QED BY <1>2, <2>2, <2>3 DEF Step
<1>7. CASE gov' = s
  BY <1>2, <1>7, StepKept DEF IInv
<1>8. CASE gov.tickets[i] = "Queued" /\ gov' = dequeued
  <2>1. Change(gov', s)
    BY <1>2, <1>5, <1>8, WithdrawChange DEF dequeued
  <2> QED BY <1>1, <1>2, <2>1, StepEntered DEF s
<1>9. CASE gov' = forget_terminal_ticket(s, i)
  BY <1>2, <1>9, ClaimChange, StepForgets
<1> QED BY <1>3, <1>4, <1>6, <1>7, <1>8, <1>9

\* The two releases.
LEMMA ReleaseChanges ==
  ASSUME IInv, IInv', NEW t \in Threads, NEW i, NEW proof, NEW now, Enter(t, now),
         ReleaseWithProof(t, commit_time(gov, now), i, proof)
  PROVE  Step(gov', gov)
<1>1. CustodySound(commit_time(gov, now)) /\ CustodySound(gov')
  BY EnteredTime DEF IInv
<1>2. Change(gov', commit_time(gov, now))
  BY <1>1, ReleaseWithProofChange
<1> QED BY <1>1, <1>2, StepEntered

\* advance_phase.
LEMMA AdvanceChanges ==
  ASSUME IInv, IInv', NEW i \in Ids, NEW p \in Phases, Advance(i, p)
  PROVE  Step(gov', gov)
BY AdvanceChange, StepOne DEF Advance, IInv

\* close_admission.
LEMMA CloseChanges ==
  ASSUME IInv, IInv', CloseAdmission
  PROVE  Step(gov', gov)
<1>1. gov' = [gov EXCEPT !.closed = TRUE] /\ CustodySound(gov) /\ CustodySound(gov')
  BY DEF CloseAdmission, IInv
<1>2. Kept([gov EXCEPT !.closed = TRUE], gov)
  BY <1>1, KeptFlags DEF CustodySound
<1>3. Kept(gov', gov)
  BY <1>1, <1>2
<1> QED BY <1>1, <1>3, StepKept

\* reconcile_memory: a measurement, or the fault.
LEMMA ReconcileChanges ==
  ASSUME IInv, IInv', NEW t \in Threads, NEW i \in Ids, NEW bytes \in Nat, NEW epoch \in Nat,
         NEW now, ReconcileMemory(t, i, bytes, epoch, now)
  PROVE  Step(gov', gov)
<1> DEFINE s == commit_time(gov, now)
           sequence == IF epoch = None THEN s.mseq[i] + 1 ELSE epoch
           emptied == terminalize_queued_for_accounting_fault([s EXCEPT !.fault = TRUE])
<1>1. Enter(t, now)
  BY DEF ReconcileMemory
<1>2. CustodySound(s) /\ Kept(s, gov) /\ CustodySound(gov')
  BY <1>1, EnteredTime DEF IInv
<1>3. \/ gov' = s
      \/ Unlock(t, emptied, FALSE)
      \/ /\ i \in s.permits /\ sequence > s.mseq[i]
         /\ gov' = reconcile(s, i, bytes, sequence)
  BY DEF ReconcileMemory, BeginPass, Finish, is_fresh
<1>4. sequence \in Nat
  <2> HIDE DEF s
  <2>1. s.mseq \in [Ids -> Nat]
    BY <1>2 DEF GovernedState, CustodySound
  <2> QED BY <2>1, SMT
<1> HIDE DEF s, sequence
<1>5. CASE gov' = s
  BY <1>2, <1>5, StepKept DEF IInv
<1>6. CASE Unlock(t, emptied, FALSE)
  <2>1. TRUE \in BOOLEAN /\ {} \in SUBSET Ids
    BY SMT
  <2>2. CustodySound([s EXCEPT !.fault = TRUE])
    BY <1>2, <2>1, CustodyFlags
  <2>3. CustodySound(emptied) /\ Change(emptied, s)
    BY <1>2, <2>2, CustodyFault, FaultChange
  <2> HIDE DEF emptied
  <2> QED BY <1>2, <1>6, <2>3, UnlockStep
<1>7. CASE /\ i \in s.permits /\ sequence > s.mseq[i]
           /\ gov' = reconcile(s, i, bytes, sequence)
  <2>1. Change(gov', s)
    BY <1>2, <1>4, <1>7, ReconcileChange
  <2> QED BY <1>1, <1>2, <2>1, StepEntered DEF s
<1> QED BY <1>3, <1>5, <1>6, <1>7

\* release_stage_memory.
LEMMA ReleaseStageChanges ==
  ASSUME IInv, IInv', NEW t \in Threads, NEW i \in Ids, NEW n \in Nat, NEW sequence \in Nat,
         NEW now, ReleaseStageMemory(t, i, n, sequence, now)
  PROVE  Step(gov', gov)
<1> DEFINE s == commit_time(gov, now)
<1>1. Enter(t, now)
  BY DEF ReleaseStageMemory
<1>2. CustodySound(s) /\ Kept(s, gov) /\ CustodySound(gov')
  BY <1>1, EnteredTime DEF IInv
<1>3. \/ gov' = s
      \/ /\ i \in s.permits /\ ~(sequence # None /\ sequence <= s.sseq[i])
         /\ gov' = release_stage_memory(s, i, n, sequence)
  BY DEF ReleaseStageMemory, BeginPass, Finish
<1> HIDE DEF s
<1>4. s.sseq[i] \in Nat
  <2>1. s.sseq \in [Ids -> Nat]
    BY <1>2 DEF GovernedState, CustodySound
  <2> QED BY <2>1
<1>5. CASE gov' = s
  BY <1>2, <1>5, StepKept DEF IInv
<1>6. CASE /\ i \in s.permits /\ ~(sequence # None /\ sequence <= s.sseq[i])
           /\ gov' = release_stage_memory(s, i, n, sequence)
  <2>1. sequence # None => sequence > s.sseq[i]
    BY <1>4, <1>6, SMT
  <2>2. Change(gov', s)
    BY <1>2, <1>6, <2>1, ReleaseStageChange
  <2> QED BY <1>1, <1>2, <2>2, StepEntered DEF s
<1> QED BY <1>3, <1>5, <1>6

\* The leak sweep: its decision, and each permit it reclaims.
LEMMA SweepChanges ==
  ASSUME IInv, IInv', NEW t \in Threads,
         Reclaim(t) \/ \E w \in StaleAfter, now \in 0..MaxTime : ReapLeaks(t, w, now)
  PROVE  Step(gov', gov)
<1>0. CustodySound(gov) /\ CustodySound(gov')
  BY DEF IInv
<1>1. ASSUME NEW w, NEW now, ReapLeaks(t, w, now) PROVE Step(gov', gov)
  <2>1. gov' = commit_time(gov, now) /\ Enter(t, now)
    BY <1>1 DEF ReapLeaks
  <2>2. Kept(gov', gov)
    BY <2>1, EnteredTime
  <2> QED BY <1>0, <2>2, StepKept
<1>2. CASE gov' = gov
  BY <1>0, <1>2, StepKept, KeptItself
<1>3. ASSUME NEW i \in pass.reap, gov' = unwind(gov, i, "Reclaimed") PROVE Step(gov', gov)
  <2>1. i \in gov.permits /\ "Reclaimed" \in TerminalReasons
    BY DEF IInv, ThreadsSound, SweepSound, TerminalReasons
  <2> QED BY <1>0, <1>3, <2>1, UnwindChange, StepOne
<1> QED BY <1>1, <1>2, <1>3 DEF Reclaim, BeginPass

\* A pass: a wait cycle ended, or a grant.
LEMMA PassChanges ==
  ASSUME IInv, IInv', NEW t \in Threads, ScanWaitCycles(t) \/ PromoteOne(t)
  PROVE  Step(gov', gov)
<1>1. CustodySound(gov) /\ CustodySound(gov')
  BY DEF IInv
<1>2. CASE ScanWaitCycles(t)
  <2>1. \A i \in first_wait_cycle(gov) : i \in Queued(gov)
    BY DEF first_wait_cycle, wait_cycles
  <2>2. gov' = gov \/ \E i \in first_wait_cycle(gov) : gov' = terminalize_wait_cycle(gov, i)
    BY <1>2 DEF ScanWaitCycles
  <2> QED BY <1>1, <2>1, <2>2, WaitCycleChange, StepOne, StepKept, KeptItself
<1>3. CASE PromoteOne(t)
  <2>1. PICK i \in select(gov) : gov' = promote_one(gov, i)
    BY <1>3 DEF PromoteOne
  <2> QED BY <1>1, <2>1, PromoteChange, StepOne
<1> QED BY <1>2, <1>3

\* The end of a pass: Unlock after the flag is set.
LEMMA EndPassStep ==
  ASSUME NEW t, NEW s, CustodySound(s), NEW m, CustodySound(m), Change(m, s),
         NEW more \in BOOLEAN, EndPass(t, m, more), CustodySound(gov')
  PROVE  Step(gov', s)
<1> DEFINE g == [m EXCEPT !.promotion_pending = more]
<1>1. {} \in SUBSET Ids /\ GovernedState(m)
  BY DEF CustodySound
<1>2. CustodySound(g) /\ Kept(g, m)
  BY <1>1, CustodyFlags, KeptFlags
<1>3. gov' = [g EXCEPT !.wake = {}]
  BY DEF EndPass, Unlock
<1> HIDE DEF g
<1>4. Kept(gov', g)
  BY <1>1, <1>2, <1>3, KeptWake DEF CustodySound
<1>5. Kept(gov', m)
  BY <1>2, <1>4 DEF Kept, SameRequests, SamePermits, SameLedgers, SameTickets, SameQueues,
     SameTotals, SameIndexes
<1> QED BY <1>5, KeptItself DEF Step

\* The end of a pass, which hands the wakes over.
LEMMA PromoteEndChanges ==
  ASSUME IInv, IInv', NEW t \in Threads, PromoteEnd(t)
  PROVE  Step(gov', gov)
<1>1. CustodySound(gov) /\ CustodySound(gov')
  BY DEF IInv
<1>2. CASE \E i \in first_wait_cycle(gov) : EndPass(t, terminalize_wait_cycle(gov, i), TRUE)
  <2>1. PICK i \in first_wait_cycle(gov) : EndPass(t, terminalize_wait_cycle(gov, i), TRUE)
    BY <1>2
  <2>2. i \in Queued(gov)
    BY DEF first_wait_cycle, wait_cycles
  <2> DEFINE m == terminalize_wait_cycle(gov, i)
  <2>3. CustodySound(m) /\ Change(m, gov) /\ TRUE \in BOOLEAN
    BY <1>1, <2>2, CustodyWaitCycle, WaitCycleChange
  <2> HIDE DEF m
  <2> QED BY <1>1, <2>1, <2>3, EndPassStep DEF m
<1>3. CASE EndPass(t, gov, pass.slots = PromotionBudget /\ has_runnable(gov))
  <2>1. (pass.slots = PromotionBudget /\ has_runnable(gov)) \in BOOLEAN /\ Change(gov, gov)
    BY KeptItself DEF Change
  <2> QED BY <1>1, <1>3, <2>1, EndPassStep
<1> QED BY <1>2, <1>3 DEF PromoteEnd

\* Every step of the Governor is such a step of its state.
LEMMA EveryStep ==
  ASSUME IInv, IInv', TicketSound(gov), [Next]_vars
  PROVE  Step(gov', gov)
<1>0. Issued \subseteq Ids
  <2>1. gov.issued \in 0..MaxIds
    BY CustodyTypes DEF IInv, CustodySound
  <2> QED BY <2>1, IdsAssumption, SMT DEF Issued, Ids
<1>1. CASE gov' = gov
  BY <1>1, StepKept, KeptItself DEF IInv
<1>2. ASSUME NEW t \in Threads, Continue(t) PROVE Step(gov', gov)
  <2>1. CASE Wake(t) \/ Resume(t)
    BY <1>1, <2>1 DEF Wake, Resume, BeginPass, Finish
  <2> QED BY <1>2, <2>1, RetiringChanges, ClaimFinishChanges, ClaimPanicChanges, SweepChanges,
             PassChanges, PromoteEndChanges DEF Continue
<1>3. ASSUME NEW t \in Threads, NEW now \in 0..MaxTime, Call(t, now) PROVE Step(gov', gov)
  <2>1. CASE \E sp \in Specs : Admit(t, sp, now)
    BY <2>1, AdmitChanges
  <2>2. CASE \E i \in Issued : Claim(t, i, now)
    BY <1>0, <2>2, ClaimChanges
  <2>3. CASE \E i \in Issued : Abandon(t, i, now)
    BY <1>0, <2>3, AbandonChanges
  <2>4. CASE \E i \in Issued : Release(t, i, now)
    BY <2>4, ReleaseChanges DEF Release
  <2>5. CASE \E token \in tokens : ReleaseLeased(t, token, now)
    BY <2>5, ReleaseChanges DEF ReleaseLeased
  <2>6. CASE \E i \in Issued, bytes \in Readings, e \in Epochs :
               ReconcileMemory(t, i, bytes, e, now)
    BY <1>0, <2>6, ReconcileChanges, GovernorAssumption
  <2>7. CASE \E i \in Issued, f \in Freed, q \in StageSeqs : ReleaseStageMemory(t, i, f, q, now)
    BY <1>0, <2>7, ReleaseStageChanges, GovernorAssumption
  <2>8. CASE \E w \in StaleAfter : ReapLeaks(t, w, now)
    BY <2>8, SweepChanges
  <2> QED BY <1>3, <2>1, <2>2, <2>3, <2>4, <2>5, <2>6, <2>7, <2>8 DEF Call
<1>4. ASSUME NEW i \in Issued, NEW p \in Declared, Advance(i, p) PROVE Step(gov', gov)
  BY <1>0, <1>4, AdvanceChanges, GovernorAssumption
<1>5. ASSUME CloseAdmission PROVE Step(gov', gov)
  BY <1>5, CloseChanges
<1>6. CASE UNCHANGED vars
  BY <1>1, <1>6 DEF vars
<1> QED BY <1>2, <1>3, <1>4, <1>5, <1>6 DEF Next

-----------------------------------------------------------------------------
\* Moves of what callers see

\* A caller sees as much of g as of s.
Looks(g, s) ==
  /\ g.issued = s.issued /\ g.closed = s.closed
  /\ Queued(g) = Queued(s) /\ Held(g) = Held(s) /\ Leased(g) = Leased(s)

Granted(g, s) ==
  /\ ~s.closed /\ g.closed = s.closed /\ g.issued = s.issued + 1
  /\ Queued(g) = Queued(s) /\ Held(g) = Held(s) \cup {s.issued + 1} /\ Leased(g) = Leased(s)

Enqueued(g, s) ==
  /\ ~s.closed /\ g.closed = s.closed /\ g.issued = s.issued + 1
  /\ Queued(g) = Queued(s) \cup {s.issued + 1} /\ Held(g) = Held(s) /\ Leased(g) = Leased(s)

Promoted(g, s, i) ==
  /\ g.issued = s.issued /\ g.closed = s.closed /\ i \in Queued(s)
  /\ Queued(g) = Queued(s) \ {i} /\ Held(g) = Held(s) \cup {i} /\ Leased(g) = Leased(s)

Withdrawn(g, s, S) ==
  /\ g.issued = s.issued /\ g.closed = s.closed /\ S \subseteq Queued(s)
  /\ Queued(g) = Queued(s) \ S /\ Held(g) = Held(s) /\ Leased(g) = Leased(s)

Taken(g, s, i) ==
  /\ g.issued = s.issued /\ g.closed = s.closed /\ i \in Held(s)
  /\ Queued(g) = Queued(s) /\ Held(g) = Held(s) \ {i} /\ Leased(g) = Leased(s) \cup {i}

Returned(g, s, i) ==
  /\ g.issued = s.issued /\ g.closed = s.closed /\ i \in Held(s)
  /\ Queued(g) = Queued(s) /\ Held(g) = Held(s) \ {i} /\ Leased(g) = Leased(s)

Spent(g, s, i) ==
  /\ g.issued = s.issued /\ g.closed = s.closed /\ i \in Leased(s)
  /\ Queued(g) = Queued(s) /\ Held(g) = Held(s) /\ Leased(g) = Leased(s) \ {i}

Closed(g, s) ==
  /\ g.issued = s.issued /\ g.closed = TRUE
  /\ Queued(g) = Queued(s) /\ Held(g) = Held(s) /\ Leased(g) = Leased(s)

Moves(g, s) ==
  \/ Looks(g, s) \/ Granted(g, s) \/ Enqueued(g, s) \/ Closed(g, s)
  \/ \E S : Withdrawn(g, s, S)
  \/ \E i : Promoted(g, s, i) \/ Taken(g, s, i) \/ Returned(g, s, i) \/ Spent(g, s, i)

\* Steps nobody sees may come before and after a move.
LEMMA MovesBetween ==
  ASSUME NEW s, NEW a, NEW b, NEW g, Looks(a, s), Moves(b, a), Looks(g, b)
  PROVE  Moves(g, s)
<1>1. CASE Looks(b, a)
  BY <1>1 DEF Moves, Looks
<1>2. CASE Granted(b, a)
  BY <1>2 DEF Moves, Looks, Granted
<1>3. CASE Enqueued(b, a)
  BY <1>3 DEF Moves, Looks, Enqueued
<1>4. CASE Closed(b, a)
  BY <1>4 DEF Moves, Looks, Closed
<1>5. ASSUME NEW S, Withdrawn(b, a, S) PROVE Moves(g, s)
  <2>1. Withdrawn(g, s, S)
    BY <1>5 DEF Looks, Withdrawn
  <2> QED BY <2>1 DEF Moves
<1>6. ASSUME NEW i, Promoted(b, a, i) \/ Taken(b, a, i) \/ Returned(b, a, i) \/ Spent(b, a, i)
      PROVE  Moves(g, s)
  <2>1. Promoted(g, s, i) \/ Taken(g, s, i) \/ Returned(g, s, i) \/ Spent(g, s, i)
    BY <1>6 DEF Looks, Promoted, Taken, Returned, Spent
  <2> QED BY <2>1 DEF Moves
<1> QED BY <1>1, <1>2, <1>3, <1>4, <1>5, <1>6 DEF Moves

\* Nothing seen by the service has changed.
LEMMA LooksItself == ASSUME NEW s PROVE Looks(s, s)
BY DEF Looks

\* What callers see is the requests, the queues, the permits, their nonces and
\* whether admission is closed.
LEMMA LooksSame ==
  ASSUME NEW s, NEW g, SameCustody(g, s), g.closed = s.closed
  PROVE  Looks(g, s)
BY DEF SameCustody, Looks, Queued, Held, Leased

-----------------------------------------------------------------------------
\* What the transitions move

\* The fields callers see are fields of every state.
LEMMA SeenFields ==
  ASSUME NEW s, GovernedState(s)
  PROVE  {"permits", "nonce", "queue", "issued", "closed"} \subseteq DOMAIN s
BY FieldNames DEF GovernedState

\* Two such changes are one.
LEMMA LooksThrough ==
  ASSUME NEW s, NEW a, NEW g, Looks(a, s), Looks(g, a)
  PROVE  Looks(g, s)
BY DEF Looks

\* Nobody sees the clock, the fault, a continuation, wakers or ticket bindings.
LEMMA HiddenFields ==
  ASSUME NEW s, GovernedState(s), NEW v
  PROVE  /\ Looks(commit_time(s, v), s)
         /\ Looks([s EXCEPT !.fault = v], s)
         /\ Looks([s EXCEPT !.promotion_pending = v], s)
         /\ Looks([s EXCEPT !.wake = v], s)
         /\ Looks([s EXCEPT !.pending_ticket = v], s)
<1>1. {"permits", "nonce", "queue", "issued", "closed"} \subseteq DOMAIN s
  BY SeenFields
<1> QED BY <1>1 DEF commit_time, Looks, Queued, Held, Leased

\* Nobody sees a ticket change.
LEMMA TicketsHidden ==
  ASSUME NEW s, NEW g, SameButTickets(g, s)
  PROVE  Looks(g, s)
BY SameIsSameCustody, LooksSame DEF SameButTickets, SameFlags

\* Nobody sees memory move.
LEMMA MemoryHidden ==
  ASSUME NEW s, GovernedState(s), NEW i \in Ids, NEW n \in Nat, NEW sequence \in Nat
  PROVE  Looks(reconcile(s, i, n, sequence), s) /\ Looks(release_stage_memory(s, i, n, sequence), s)
<1>1. {"permits", "nonce", "queue", "issued", "closed"} \subseteq DOMAIN s
  BY SeenFields
<1>2. Looks(reconcile(s, i, n, sequence), s)
  BY <1>1 DEF reconcile, apply_memory_delta, touch, Looks, Queued, Held, Leased
<1>3. Looks(release_stage_memory(s, i, n, sequence), s)
  BY <1>1 DEF release_stage_memory, apply_memory_delta, touch, Looks, Queued, Held, Leased
<1> QED BY <1>2, <1>3

\* Ending a permit returns it, or spends its lease.
LEMMA UnwindMoves ==
  ASSUME NEW s, CustodySound(s), NEW i \in s.permits, NEW reason \in TerminalReasons
  PROVE  Moves(unwind(s, i, reason), s)
<1> DEFINE g == unwind(s, i, reason)
<1>1. GovernedState(s) /\ i \in Ids /\ s.permits \subseteq Ids /\ s.nonce \in [Ids -> Nat]
  BY CustodyTypes DEF CustodySound
<1>2. /\ g.permits = s.permits \ {i} /\ g.nonce = put(s.nonce, i, None)
      /\ g.queue = s.queue /\ g.issued = s.issued /\ g.closed = s.closed
  <2>1. Unwound(g, s, i, reason)
    BY <1>1, Unwind
  <2> HIDE DEF g
  <2> QED BY <2>1 DEF Unwound, Ended, SameQueues, SameFlags
<1> HIDE DEF g
<1>3. \A j \in g.permits : g.nonce[j] = s.nonce[j]
  BY <1>1, <1>2, PutAt, SMT
<1>4. /\ Queued(g) = Queued(s) /\ Held(g) = Held(s) \ {i} /\ Leased(g) = Leased(s) \ {i}
  BY <1>2, <1>3 DEF Queued, Held, Leased
<1>5. CASE s.nonce[i] = None
  <2>1. i \in Held(s) /\ Leased(s) \ {i} = Leased(s)
    BY <1>5 DEF Held, Leased
  <2>2. Returned(g, s, i)
    BY <1>2, <1>4, <2>1 DEF Returned
  <2> QED BY <2>2 DEF Moves, g
<1>6. CASE s.nonce[i] # None
  <2>1. i \in Leased(s) /\ Held(s) \ {i} = Held(s)
    BY <1>6 DEF Held, Leased
  <2>2. Spent(g, s, i)
    BY <1>2, <1>4, <2>1 DEF Spent
  <2> QED BY <2>2 DEF Moves, g
<1> QED BY <1>5, <1>6

\* A request leaves the queue of its class, the only one it can be in.
LEMMA QueueWithout ==
  ASSUME NEW s, CustodySound(s), NEW i \in Ids, NEW g,
         g.queue = put(s.queue, s.class[i], s.queue[s.class[i]] \ {i})
  PROVE  Queued(g) = Queued(s) \ {i}
<1>1. s.queue \in [Classes -> SUBSET Ids] /\ s.class[i] \in Classes
  BY CustodyTypes, SMT DEF CustodySound
<1>2. \A c \in Classes : g.queue[c] = IF c = s.class[i] THEN s.queue[c] \ {i} ELSE s.queue[c]
  BY <1>1 DEF put
<1>3. \A c \in Classes : i \in s.queue[c] => c = s.class[i]
  BY DEF CustodySound
<1>4. \A c \in Classes : g.queue[c] = s.queue[c] \ {i}
  BY <1>2, <1>3
<1> QED BY <1>4, SMT DEF Queued

\* Leaving a queue without a permit is a withdrawal.
LEMMA DequeueMoves ==
  ASSUME NEW s, CustodySound(s), NEW i \in Ids, NEW g,
         g.queue = put(s.queue, s.class[i], s.queue[s.class[i]] \ {i}),
         g.permits = s.permits, g.nonce = s.nonce, g.issued = s.issued, g.closed = s.closed
  PROVE  Moves(g, s)
<1> DEFINE S == {i} \cap Queued(s)
<1>1. Queued(g) = Queued(s) \ S
  BY QueueWithout, SMT
<1>2. Held(g) = Held(s) /\ Leased(g) = Leased(s)
  BY DEF Held, Leased
<1>3. Withdrawn(g, s, S)
  BY <1>1, <1>2 DEF Withdrawn
<1> QED BY <1>3 DEF Moves

\* Ending a wait cycle withdraws a waiting request.
LEMMA WaitCycleMoves ==
  ASSUME NEW s, CustodySound(s), NEW i \in Queued(s)
  PROVE  Moves(terminalize_wait_cycle(s, i), s)
<1> DEFINE g == terminalize_wait_cycle(s, i)
<1>1. GovernedState(s) /\ i \in Ids
  BY QueuedIn DEF CustodySound
<1>2. /\ g.queue = put(s.queue, s.class[i], s.queue[s.class[i]] \ {i})
      /\ g.permits = s.permits /\ g.nonce = s.nonce /\ g.issued = s.issued
      /\ g.closed = s.closed
  <2>1. CycleEnded(g, s, i)
    BY <1>1, TerminalizeWaitCycle
  <2> HIDE DEF g
  <2> QED BY <2>1 DEF CycleEnded, Unqueued, SamePermits, SameFlags
<1> HIDE DEF g
<1>3. Moves(g, s)
  BY <1>1, <1>2, DequeueMoves, ZenonT(30), SMT
<1> QED BY <1>3 DEF g

\* Withdrawing a queued ticket ends a waiting request.
LEMMA WithdrawMoves ==
  ASSUME NEW s, CustodySound(s), NEW i \in Ids
  PROVE  Moves(remove_ticket(drop_request(
                 vacate_recursion_guard(remove_pending(s, i), s.spec[i]), i), i), s)
<1> DEFINE d == drop_request(vacate_recursion_guard(remove_pending(s, i), s.spec[i]), i)
<1>1. GovernedState(s)
  BY DEF CustodySound
<1>2. /\ GovernedState(d)
      /\ d.queue = put(s.queue, s.class[i], s.queue[s.class[i]] \ {i})
      /\ SamePermits(d, s) /\ SameFlags(d, s) /\ d.issued = s.issued
  BY <1>1, Dequeue, ZenonT(30), SMT
<1> HIDE DEF d
<1>3. Moves(d, s)
  BY <1>2, DequeueMoves DEF SamePermits, SameFlags
<1>4. Looks(remove_ticket(d, i), d)
  BY <1>2, RemoveTicket, TicketsHidden
<1>5. Moves(remove_ticket(d, i), s)
  BY <1>3, <1>4, LooksItself, MovesBetween
<1> QED BY <1>5 DEF d

\* An accounting fault withdraws everything that waits.
LEMMA FaultMoves ==
  ASSUME NEW s, CustodySound(s)
  PROVE  Moves(terminalize_queued_for_accounting_fault(s), s)
<1> DEFINE g == terminalize_queued_for_accounting_fault(s)
<1>1. {"permits", "nonce", "queue", "issued", "closed"} \subseteq DOMAIN s
  BY SeenFields DEF CustodySound
<1>2. /\ g.queue = [c \in Classes |-> {}] /\ g.permits = s.permits /\ g.nonce = s.nonce
      /\ g.issued = s.issued /\ g.closed = s.closed
  BY <1>1 DEF terminalize_queued_for_accounting_fault
<1> HIDE DEF g
<1>3. Queued(g) = {} /\ Held(g) = Held(s) /\ Leased(g) = Leased(s)
  BY <1>2, SMT DEF Queued, Held, Leased
<1>4. Withdrawn(g, s, Queued(s))
  BY <1>2, <1>3 DEF Withdrawn
<1> QED BY <1>4 DEF Moves, g

\* A promotion makes a waiting request a held one.
LEMMA PromoteMoves ==
  ASSUME NEW s, CustodySound(s), NEW i \in Queued(s)
  PROVE  Moves(promote_one(s, i), s)
<1> DEFINE g == promote_one(s, i)
<1>1. /\ GovernedState(s) /\ i \in Ids /\ s.permits \subseteq Ids /\ s.nonce \in [Ids -> Nat]
      /\ i \notin s.permits
  BY QueuedIn, CustodyTypes DEF CustodySound
<1>2. /\ g.queue = put(s.queue, s.class[i], s.queue[s.class[i]] \ {i})
      /\ g.permits = s.permits \cup {i} /\ g.nonce = put(s.nonce, i, None)
      /\ g.issued = s.issued /\ g.closed = s.closed
  <2>1. PromotedAs(g, s, i)
    BY <1>1, PromoteOne_
  <2> HIDE DEF g
  <2> QED BY <2>1 DEF PromotedAs, Opened, SameFlags
<1> HIDE DEF g
<1>3. Queued(g) = Queued(s) \ {i}
  BY <1>1, <1>2, QueueWithout
<1>4. g.nonce[i] = None /\ \A j \in s.permits : g.nonce[j] = s.nonce[j]
  BY <1>1, <1>2, PutAt, SMT
<1>5. Held(g) = Held(s) \cup {i} /\ Leased(g) = Leased(s)
  BY <1>1, <1>2, <1>4 DEF Held, Leased
<1>6. Promoted(g, s, i)
  BY <1>2, <1>3, <1>5 DEF Promoted
<1> QED BY <1>6 DEF Moves, g

\* A newcomer that is admitted is held, with the next number.
LEMMA AdmitMoves ==
  ASSUME NEW s, CustodySound(s), s.issued < MaxIds, ~s.closed, NEW sp \in Specs,
         NEW c \in Classes
  PROVE  Moves(grant([s EXCEPT !.issued = s.issued + 1], s.issued + 1, sp, c,
                     parent_permit_for_scope(s, sp), FALSE), s)
<1> DEFINE i == s.issued + 1
           n == [s EXCEPT !.issued = i]
           p == parent_permit_for_scope(s, sp)
           g == grant(n, i, sp, c, p, FALSE)
<1>1. /\ s.issued \in 0..MaxIds /\ s.permits \subseteq Ids /\ s.nonce \in [Ids -> Nat]
      /\ GovernedState(s)
  BY CustodyTypes DEF CustodySound
<1>2. i \in Ids /\ i \in 0..MaxIds /\ s.issued < i
  BY <1>1, IdsAssumption, SMT DEF Ids
<1>3. p \in Ids \cup {None}
  BY <1>1, ParentType
<1>4. n.closed = s.closed
  <2>1. "closed" \in DOMAIN s
    BY <1>1, SeenFields
  <2> QED BY <2>1
<1>5. i \notin s.permits
  <2>1. \A j \in s.permits : j <= s.issued
    BY DEF CustodySound
  <2> QED BY <1>1, <2>1, SMT
<1> HIDE DEF i, p
<1>6. /\ GovernedState(n) /\ n.issued = i
      /\ n.permits = s.permits /\ n.nonce = s.nonce /\ n.queue = s.queue
  BY <1>1, <1>2, SetIssued
<1> HIDE DEF n
<1>7. ASSUME NEW b \in BOOLEAN
      PROVE  LET h == grant(n, i, sp, c, p, b) IN
             GovernedState(h) /\ Granting(h, n, i, sp, c, p, b)
  BY <1>2, <1>3, <1>6, Grant
<1>8. /\ g.permits = s.permits \cup {i} /\ g.nonce = put(s.nonce, i, None)
      /\ g.queue = s.queue /\ g.issued = i /\ g.closed = s.closed
  <2>1. Granting(g, n, i, sp, c, p, FALSE)
    BY <1>7
  <2> HIDE DEF g
  <2> QED BY <1>4, <1>6, <2>1 DEF Granting, Opened, SameQueues, SameFlags
<1> HIDE DEF g
<1>9. g.nonce[i] = None /\ \A j \in s.permits : g.nonce[j] = s.nonce[j]
  <2>1. \A j \in s.permits : j \in Ids /\ j # i
    BY <1>1, <1>5
  <2> QED BY <1>1, <1>2, <1>8, <2>1 DEF put
<1>10. /\ Queued(g) = Queued(s) /\ Held(g) = Held(s) \cup {i} /\ Leased(g) = Leased(s)
  BY <1>5, <1>8, <1>9 DEF Queued, Held, Leased
<1>11. Granted(g, s)
  BY <1>8, <1>10 DEF Granted, i
<1> QED BY <1>11, ZenonT(30), SMT DEF Moves, g, n, i, p

\* One that is queued waits, with the next number.
LEMMA EnqueueMoves ==
  ASSUME NEW s, CustodySound(s), s.issued < MaxIds, ~s.closed, NEW sp \in Specs,
         NEW c \in Classes
  PROVE  Moves(enqueue(s, s.issued + 1, sp, c), s)
<1> DEFINE i == s.issued + 1
           g == enqueue(s, i, sp, c)
<1>1. /\ s.issued \in 0..MaxIds /\ s.queue \in [Classes -> SUBSET Ids] /\ GovernedState(s)
  BY CustodyTypes DEF CustodySound
<1>2. i \in Ids
  BY <1>1, IdsAssumption, SMT DEF Ids
<1> HIDE DEF i
<1>3. /\ g.queue = put(s.queue, c, s.queue[c] \cup {i}) /\ g.issued = i
      /\ SamePermits(g, s) /\ SameFlags(g, s)
  <2>1. EnqueuedAs(g, s, i, sp, c)
    BY <1>1, <1>2, Enqueue
  <2> HIDE DEF g
  <2> QED BY <2>1 DEF EnqueuedAs
<1> HIDE DEF g
<1>4. \A d \in Classes : g.queue[d] = IF d = c THEN s.queue[d] \cup {i} ELSE s.queue[d]
  BY <1>1, <1>3 DEF put
<1>5. Queued(g) = Queued(s) \cup {i}
  BY <1>4, ZenonT(30), SMT DEF Queued
<1>6. Held(g) = Held(s) /\ Leased(g) = Leased(s)
  BY <1>3 DEF SamePermits, Held, Leased
<1>7. Enqueued(g, s)
  BY <1>3, <1>5, <1>6 DEF Enqueued, SameFlags, i
<1> QED BY <1>7 DEF Moves, g, i

\* The first advance leases a held permit; a later one shows nothing new.
LEMMA AdvanceMoves ==
  ASSUME NEW s, CustodySound(s), NEW i \in Ids, NEW p \in Phases, can_advance(s, i, p)
  PROVE  Moves(advance_phase(s, i, p), s)
<1> DEFINE g == advance_phase(s, i, p)
<1>1. /\ s.permits \subseteq Ids /\ s.nonce \in [Ids -> Nat] /\ s.minted \in Nat
      /\ GovernedState(s) /\ i \in s.permits
  BY CustodyTypes DEF CustodySound, can_advance
<1>2. /\ g.nonce = put(s.nonce, i, IF s.nonce[i] = None THEN s.minted + 1 ELSE s.nonce[i])
      /\ g.permits = s.permits /\ g.queue = s.queue /\ g.issued = s.issued
      /\ g.closed = s.closed
  BY <1>1, AdvancePhase, SMT DEF SameQueues, SameFlags
<1> HIDE DEF g
<1>3. Queued(g) = Queued(s)
  BY <1>2 DEF Queued
<1>4. \A j \in s.permits \ {i} : g.nonce[j] = s.nonce[j]
  BY <1>1, <1>2 DEF put
<1>5. CASE s.nonce[i] = None
  <2>1. g.nonce[i] # None
    BY <1>1, <1>2, <1>5, NoneNat, SMT DEF put
  <2>2. i \in Held(s) /\ Held(g) = Held(s) \ {i} /\ Leased(g) = Leased(s) \cup {i}
    BY <1>1, <1>2, <1>4, <1>5, <2>1 DEF Held, Leased
  <2>3. Taken(g, s, i)
    BY <1>2, <1>3, <2>2 DEF Taken
  <2> QED BY <2>3 DEF Moves, g
<1>6. CASE s.nonce[i] # None
  <2>1. g.nonce[i] = s.nonce[i]
    BY <1>1, <1>2, <1>6 DEF put
  <2>2. Held(g) = Held(s) /\ Leased(g) = Leased(s)
    BY <1>2, <1>4, <2>1 DEF Held, Leased
  <2>3. Looks(g, s)
    BY <1>2, <1>3, <2>2 DEF Looks
  <2> QED BY <2>3 DEF Moves, g
<1> QED BY <1>5, <1>6

-----------------------------------------------------------------------------
\* Moves are steps of the service

\* The tokens that are out are those of the leased permits.
LEMMA TokensAreLeases ==
  ASSUME NEW s, NEW T, T = Leases(s)
  PROVE  {token[1] : token \in T} = Leased(s)
<1>1. ASSUME NEW token \in T PROVE token[1] \in Leased(s)
  BY <1>1, SMT DEF Leases, Leased
<1>2. ASSUME NEW i \in Leased(s) PROVE \E token \in T : token[1] = i
  <2>1. <<i, s.nonce[i]>> \in T
    BY DEF Leases, Leased
  <2> QED BY <2>1
<1> QED BY <1>1, <1>2

\* A move of the state is a step of the service.
LEMMA MovesAreSteps ==
  ASSUME IInv, IInv', Moves(gov', gov)
  PROVE  [Service!Next]_(Service!vars)
<1>1. /\ {token[1] : token \in tokens} = Leased(gov)
      /\ {token[1] : token \in tokens'} = Leased(gov')
  BY TokensAreLeases DEF IInv
<1>2. CASE Looks(gov', gov)
  BY <1>1, <1>2, ZenonT(30), SMT DEF Looks, Service!vars
<1>3. CASE Granted(gov', gov)
  BY <1>1, <1>3 DEF Granted, Service!Next, Service!Grant
<1>4. CASE Enqueued(gov', gov)
  BY <1>1, <1>4 DEF Enqueued, Service!Next, Service!Enqueue
<1>5. CASE Closed(gov', gov)
  BY <1>1, <1>5, ZenonT(30), SMT DEF Closed, Service!Next, Service!Close
<1>6. ASSUME NEW S, Withdrawn(gov', gov, S) PROVE [Service!Next]_(Service!vars)
  <2>1. CASE S = {}
    BY <1>1, <1>6, <2>1 DEF Withdrawn, Service!vars
  <2>2. CASE S # {}
    BY <1>1, <1>6, <2>2 DEF Withdrawn, Service!Next, Service!Withdraw
  <2> QED BY <2>1, <2>2
<1>7. ASSUME NEW i, Promoted(gov', gov, i) PROVE Service!Next
  BY <1>1, <1>7 DEF Promoted, Service!Next, Service!Promote, Service!Active
<1>8. ASSUME NEW i, Taken(gov', gov, i) PROVE Service!Next
  BY <1>1, <1>8, ZenonT(30), SMT DEF Taken, Service!Next, Service!Lease, Service!Active
<1>9. ASSUME NEW i, Returned(gov', gov, i) PROVE Service!Next
  BY <1>1, <1>9 DEF Returned, Service!Next, Service!Return, Service!Active
<1>10. ASSUME NEW i, Spent(gov', gov, i) PROVE Service!Next
  BY <1>1, <1>10 DEF Spent, Service!Next, Service!Spend, Service!Active
<1> QED BY <1>2, <1>3, <1>4, <1>5, <1>6, <1>7, <1>8, <1>9, <1>10 DEF Moves

-----------------------------------------------------------------------------
\* Every action moves what callers see as the service may

\* After the commit of the time nothing has moved yet.
LEMMA EnteredMoves ==
  ASSUME IInv, NEW now, NEW g, Moves(g, commit_time(gov, now))
  PROVE  Moves(g, gov)
<1> DEFINE s == commit_time(gov, now)
<1>1. Looks(s, gov) /\ Moves(g, s)
  BY HiddenFields, ZenonT(30), SMT DEF IInv, CustodySound
<1> HIDE DEF s
<1> QED BY <1>1, LooksItself, MovesBetween

\* A change the service does not see is a move.
LEMMA HiddenIsMove == ASSUME NEW s, NEW g, Looks(g, s) PROVE Moves(g, s)
BY DEF Moves

\* Nor does the unlock move anything.
LEMMA UnlockMoves ==
  ASSUME NEW t, NEW s, GovernedState(s), Moves(s, gov), NEW more, Unlock(t, s, more)
  PROVE  Moves(gov', gov)
<1>1. Looks([s EXCEPT !.wake = {}], s)
  BY HiddenFields, ZenonT(30), SMT
<1>2. gov' = [s EXCEPT !.wake = {}]
  BY DEF Unlock
<1>3. Looks(gov', s)
  BY <1>1, <1>2
<1> QED BY <1>3, LooksItself, MovesBetween

\* A release ends its request, or is refused.
LEMMA ReleaseMoves ==
  ASSUME NEW t, NEW s, CustodySound(s), NEW i, NEW proof, ReleaseWithProof(t, s, i, proof)
  PROVE  Moves(gov', s)
<1>1. CASE releasable(s, i, proof) /\ gov' = unwind(s, i, "Released")
  <2>1. i \in s.permits /\ "Released" \in TerminalReasons
    BY <1>1 DEF releasable, TerminalReasons
  <2>2. Moves(unwind(s, i, "Released"), s)
    BY <2>1, UnwindMoves
  <2> QED BY <1>1, <2>2
<1>2. CASE gov' = s
  BY <1>2, LooksItself, HiddenIsMove
<1> QED BY <1>1, <1>2 DEF ReleaseWithProof, BeginPass, Finish

\* admit_inner.
LEMMA AdmitStep ==
  ASSUME IInv, NEW t \in Threads, NEW sp \in Specs, NEW now, Admit(t, sp, now)
  PROVE  Moves(gov', gov)
<1> DEFINE s == commit_time(gov, now)
           d == admit(s, sp)
<1>1. Enter(t, now) /\ gov.issued < MaxIds
  BY DEF Admit
<1>2. CustodySound(s) /\ s.issued = gov.issued
  BY <1>1, Entered DEF SameCustody
<1>3. \/ /\ d.verdict = "Admitted"
         /\ gov' = grant([s EXCEPT !.issued = gov.issued + 1], gov.issued + 1, sp, d.class,
                         parent_permit_for_scope(s, sp), FALSE)
      \/ d.verdict = "Queued" /\ gov' = enqueue(s, gov.issued + 1, sp, d.class)
      \/ gov' = s
  BY DEF Admit
<1>4. d.verdict \in {"Admitted", "Queued"} => d.class \in Classes /\ ~s.closed
  <2>1. d.verdict \in {"Admitted", "Queued"} => ~s.closed
    BY DEF admit, Verdict
  <2> QED BY <2>1, AdmitClass
<1> HIDE DEF s, d
<1>5. CASE /\ d.verdict = "Admitted"
           /\ gov' = grant([s EXCEPT !.issued = gov.issued + 1], gov.issued + 1, sp, d.class,
                           parent_permit_for_scope(s, sp), FALSE)
  <2>1. Moves(grant([s EXCEPT !.issued = s.issued + 1], s.issued + 1, sp, d.class,
                    parent_permit_for_scope(s, sp), FALSE), s)
    BY <1>1, <1>2, <1>4, <1>5, AdmitMoves
  <2>2. Moves(gov', s)
    BY <1>2, <1>5, <2>1
  <2> QED BY <2>2, EnteredMoves DEF s
<1>6. CASE d.verdict = "Queued" /\ gov' = enqueue(s, gov.issued + 1, sp, d.class)
  <2>1. Moves(enqueue(s, s.issued + 1, sp, d.class), s)
    BY <1>1, <1>2, <1>4, <1>6, EnqueueMoves
  <2>2. Moves(gov', s)
    BY <1>2, <1>6, <2>1
  <2> QED BY <2>2, EnteredMoves DEF s
<1>7. CASE gov' = s
  <2>1. Moves(gov', s)
    BY <1>7, LooksItself, HiddenIsMove
  <2> QED BY <2>1, EnteredMoves DEF s
<1> QED BY <1>3, <1>5, <1>6, <1>7

\* The return of admit, and its compensation.
LEMMA RetiringStep ==
  ASSUME IInv, NEW t \in Threads, AdmitReturn(t) \/ AdmitPanic(t)
  PROVE  Moves(gov', gov)
<1>1. CASE AdmitReturn(t)
  BY <1>1, LooksItself, HiddenIsMove DEF AdmitReturn, Finish
<1>2. CASE AdmitPanic(t)
  BY <1>2, ReleaseMoves DEF AdmitPanic, IInv
<1> QED BY <1>1, <1>2

\* The first half of claim.
LEMMA ClaimStep ==
  ASSUME IInv, NEW t \in Threads, NEW i \in Ids, NEW now, Claim(t, i, now)
  PROVE  Moves(gov', gov)
<1> DEFINE s == commit_time(gov, now)
<1>1. GovernedState(s)
  BY Entered DEF Claim, CustodySound
<1>2. gov' \in {begin_claim(s, i), s, forget_terminal_ticket(s, i)}
  BY DEF Claim, Finish
<1> HIDE DEF s
<1>3. Looks(gov', s)
  BY <1>1, <1>2, ClaimHalves, ForgetTerminalTicket, TicketsHidden, LooksItself
<1> QED BY <1>3, HiddenIsMove, EnteredMoves DEF s

\* Its second half.
LEMMA ClaimFinishStep ==
  ASSUME IInv, NEW t \in Threads, ClaimFinish(t)
  PROVE  Moves(gov', gov)
<1> DEFINE i == th[t].id
<1>1. GovernedState(gov) /\ i \in Ids
  BY DEF ClaimFinish, IInv, ThreadsSound, CustodySound
<1>2. gov' \in {finish_claim(gov, i), record_terminal_ticket(gov, i, "Released"),
                forget_terminal_ticket(gov, i), gov}
  BY DEF ClaimFinish, Finish
<1>3. "Released" \in TerminalReasons
  BY DEF TerminalReasons
<1> HIDE DEF i
<1>4. Looks(gov', gov)
  BY <1>1, <1>2, <1>3, ClaimHalves, RecordTerminalTicket, ForgetTerminalTicket, TicketsHidden,
     LooksItself
<1> QED BY <1>4, HiddenIsMove

\* Its compensation.
LEMMA ClaimPanicStep ==
  ASSUME IInv, NEW t \in Threads, ClaimPanic(t)
  PROVE  Moves(gov', gov)
<1> DEFINE i == th[t].id
           reason == IF i \in gov.permits THEN "ClaimDeliveryFailed" ELSE "Released"
           unbound == [gov EXCEPT !.pending_ticket = gov.pending_ticket \ {i}]
<1>1. CustodySound(gov) /\ GovernedState(gov) /\ i \in Ids
  BY DEF ClaimPanic, IInv, ThreadsSound, CustodySound
<1>2. \/ releasable(gov, i, None) /\ gov' = unwind(gov, i, "ClaimDeliveryFailed")
      \/ gov' = record_terminal_ticket(unbound, i, reason)
      \/ gov' = gov
  BY DEF ClaimPanic, BeginPass, Finish
<1>3. "ClaimDeliveryFailed" \in TerminalReasons /\ reason \in TerminalReasons
  BY DEF TerminalReasons
<1>4. GovernedState(unbound) /\ Looks(unbound, gov)
  <2>1. TRUE \in BOOLEAN /\ gov.pending_ticket \ {i} \in SUBSET Ids
    BY <1>1, ZenonT(30), SMT DEF GovernedState
  <2>2. CustodySound(unbound)
    BY <1>1, <2>1, CustodyFlags
  <2> QED BY <1>1, <2>2, HiddenFields DEF CustodySound
<1> HIDE DEF i, reason, unbound
<1>5. CASE releasable(gov, i, None) /\ gov' = unwind(gov, i, "ClaimDeliveryFailed")
  <2>1. i \in gov.permits
    BY <1>5 DEF releasable
  <2> QED BY <1>1, <1>3, <1>5, <2>1, UnwindMoves
<1>6. CASE gov' = record_terminal_ticket(unbound, i, reason)
  <2>1. Looks(gov', unbound)
    BY <1>1, <1>3, <1>4, <1>6, RecordTerminalTicket, TicketsHidden
  <2> QED BY <1>4, <2>1, LooksThrough, HiddenIsMove
<1>7. CASE gov' = gov
  BY <1>7, LooksItself, HiddenIsMove
<1> QED BY <1>2, <1>5, <1>6, <1>7

\* abandon.
LEMMA AbandonStep ==
  ASSUME IInv, NEW t \in Threads, NEW i \in Ids, NEW now, Abandon(t, i, now)
  PROVE  Moves(gov', gov)
<1> DEFINE s == commit_time(gov, now)
           ended == unwind(s, i, "Abandoned")
           dequeued == remove_ticket(drop_request(
                         vacate_recursion_guard(remove_pending(s, i), s.spec[i]), i), i)
<1>1. CustodySound(s) /\ GovernedState(s)
  BY Entered DEF Abandon, CustodySound
<1>2. \/ releasable(s, i, None) /\ gov' = forget_terminal_ticket(ended, i)
      \/ gov' = s \/ gov' = remove_ticket(s, i)
      \/ gov' = dequeued
      \/ gov' = forget_terminal_ticket(s, i)
  BY DEF Abandon, BeginPass, Finish
<1>3. Moves(dequeued, s)
  BY <1>1, WithdrawMoves
<1>4. releasable(s, i, None) => Moves(ended, s) /\ GovernedState(ended)
  <2> HAVE releasable(s, i, None)
  <2>1. i \in s.permits /\ "Abandoned" \in TerminalReasons
    BY DEF releasable, TerminalReasons
  <2> QED BY <1>1, <2>1, UnwindMoves, Unwind
<1> HIDE DEF s, ended, dequeued
<1>5. CASE releasable(s, i, None) /\ gov' = forget_terminal_ticket(ended, i)
  <2>1. Looks(gov', ended)
    BY <1>4, <1>5, ForgetTerminalTicket, TicketsHidden
  <2>2. Moves(gov', s)
    BY <1>4, <1>5, <2>1, LooksItself, MovesBetween
  <2> QED BY <2>2, EnteredMoves DEF s
<1>6. CASE gov' \in {s, remove_ticket(s, i), forget_terminal_ticket(s, i)}
  <2>1. Looks(gov', s)
    BY <1>1, <1>6, RemoveTicket, ForgetTerminalTicket, TicketsHidden, LooksItself
  <2> QED BY <2>1, HiddenIsMove, EnteredMoves DEF s
<1>7. CASE gov' = dequeued
  <2>1. Moves(gov', s)
    BY <1>3, <1>7
  <2> QED BY <2>1, EnteredMoves DEF s
<1> QED BY <1>2, <1>5, <1>6, <1>7

\* The two releases.
LEMMA ReleaseStep ==
  ASSUME IInv, NEW t \in Threads, NEW i, NEW proof, NEW now, Enter(t, now),
         ReleaseWithProof(t, commit_time(gov, now), i, proof)
  PROVE  Moves(gov', gov)
<1> DEFINE s == commit_time(gov, now)
<1>1. CustodySound(s)
  BY Entered
<1>2. Moves(gov', s)
  BY <1>1, ReleaseMoves
<1> QED BY <1>2, EnteredMoves

\* advance_phase.
LEMMA AdvanceStep ==
  ASSUME IInv, NEW i \in Ids, NEW p \in Phases, Advance(i, p)
  PROVE  Moves(gov', gov)
BY AdvanceMoves DEF Advance, IInv

\* close_admission.
LEMMA CloseStep ==
  ASSUME IInv, CloseAdmission
  PROVE  Moves(gov', gov)
<1>1. {"permits", "nonce", "queue", "issued", "closed"} \subseteq DOMAIN gov
  BY SeenFields DEF IInv, CustodySound
<1>2. gov' = [gov EXCEPT !.closed = TRUE]
  BY DEF CloseAdmission
<1>3. Closed(gov', gov)
  BY <1>1, <1>2 DEF Closed, Queued, Held, Leased
<1> QED BY <1>3 DEF Moves

\* reconcile_memory.
LEMMA ReconcileStep ==
  ASSUME IInv, NEW t \in Threads, NEW i \in Ids, NEW bytes \in Nat, NEW epoch \in Nat, NEW now,
         ReconcileMemory(t, i, bytes, epoch, now)
  PROVE  Moves(gov', gov)
<1> DEFINE s == commit_time(gov, now)
           sequence == IF epoch = None THEN s.mseq[i] + 1 ELSE epoch
           faulted == [s EXCEPT !.fault = TRUE]
           emptied == terminalize_queued_for_accounting_fault(faulted)
<1>1. CustodySound(s) /\ GovernedState(s)
  BY Entered DEF ReconcileMemory, CustodySound
<1>2. \/ gov' = s \/ Unlock(t, emptied, FALSE) \/ gov' = reconcile(s, i, bytes, sequence)
  BY DEF ReconcileMemory, BeginPass, Finish
<1>3. sequence \in Nat
  <2>1. s.mseq[i] \in Nat
    BY <1>1 DEF GovernedState
  <2> HIDE DEF s
  <2> QED BY <2>1, SMT
<1>4. CustodySound(faulted) /\ Looks(faulted, s)
  <2> HIDE DEF s
  <2>1. ASSUME NEW b \in BOOLEAN PROVE CustodySound([s EXCEPT !.fault = b])
    <3>1. {} \in SUBSET Ids
      BY SMT
    <3> QED BY <1>1, <3>1, CustodyFlags
  <2> QED BY <1>1, <2>1, HiddenFields, ZenonT(30), SMT
<1> HIDE DEF s, sequence, faulted
<1>5. Moves(emptied, faulted) /\ GovernedState(emptied)
  BY <1>4, FaultMoves, TerminalizeQueued DEF CustodySound
<1> HIDE DEF emptied
<1>6. CASE gov' = s
  BY <1>6, LooksItself, HiddenIsMove, EnteredMoves DEF s
<1>7. CASE Unlock(t, emptied, FALSE)
  <2>1. Moves(emptied, s)
    BY <1>4, <1>5, LooksItself, MovesBetween
  <2>2. Moves(emptied, gov)
    BY <2>1, EnteredMoves DEF s
  <2> QED BY <1>5, <1>7, <2>2, UnlockMoves, ZenonT(30), SMT
<1>8. CASE gov' = reconcile(s, i, bytes, sequence)
  <2>1. Looks(gov', s)
    BY <1>1, <1>3, <1>8, MemoryHidden
  <2> QED BY <2>1, HiddenIsMove, EnteredMoves DEF s
<1> QED BY <1>2, <1>6, <1>7, <1>8, ZenonT(30), SMT

\* release_stage_memory.
LEMMA ReleaseStageStep ==
  ASSUME IInv, NEW t \in Threads, NEW i \in Ids, NEW n \in Nat, NEW sequence \in Nat, NEW now,
         ReleaseStageMemory(t, i, n, sequence, now)
  PROVE  Moves(gov', gov)
<1> DEFINE s == commit_time(gov, now)
<1>1. GovernedState(s)
  BY Entered, ZenonT(30), SMT DEF ReleaseStageMemory, CustodySound
<1>2. gov' \in {s, release_stage_memory(s, i, n, sequence)}
  BY DEF ReleaseStageMemory, BeginPass, Finish
<1> HIDE DEF s
<1>3. Looks(gov', s)
  BY <1>1, <1>2, MemoryHidden, LooksItself
<1> QED BY <1>3, HiddenIsMove, EnteredMoves DEF s

\* The leak sweep.
LEMMA SweepStep ==
  ASSUME IInv, NEW t \in Threads,
         Reclaim(t) \/ \E w \in StaleAfter, now \in 0..MaxTime : ReapLeaks(t, w, now)
  PROVE  Moves(gov', gov)
<1>1. ASSUME NEW w, NEW now, ReapLeaks(t, w, now) PROVE Moves(gov', gov)
  <2>1. gov' = commit_time(gov, now)
    BY <1>1 DEF ReapLeaks
  <2> QED BY <2>1, HiddenFields, HiddenIsMove, ZenonT(30), SMT DEF IInv, CustodySound
<1>2. CASE gov' = gov
  BY <1>2, LooksItself, HiddenIsMove
<1>3. ASSUME NEW i \in pass.reap, gov' = unwind(gov, i, "Reclaimed") PROVE Moves(gov', gov)
  <2>1. CustodySound(gov) /\ i \in gov.permits /\ "Reclaimed" \in TerminalReasons
    BY DEF IInv, ThreadsSound, SweepSound, TerminalReasons
  <2> QED BY <1>3, <2>1, UnwindMoves
<1> QED BY <1>1, <1>2, <1>3 DEF Reclaim, BeginPass

\* A pass.
LEMMA PassStep ==
  ASSUME IInv, NEW t \in Threads, ScanWaitCycles(t) \/ PromoteOne(t)
  PROVE  Moves(gov', gov)
<1>1. CustodySound(gov)
  BY DEF IInv
<1>2. CASE ScanWaitCycles(t)
  <2>1. \A i \in first_wait_cycle(gov) : i \in Queued(gov)
    BY DEF first_wait_cycle, wait_cycles
  <2>2. gov' = gov \/ \E i \in first_wait_cycle(gov) : gov' = terminalize_wait_cycle(gov, i)
    BY <1>2 DEF ScanWaitCycles
  <2> QED BY <1>1, <2>1, <2>2, WaitCycleMoves, LooksItself, HiddenIsMove
<1>3. CASE PromoteOne(t)
  <2>1. PICK i \in select(gov) : gov' = promote_one(gov, i)
    BY <1>3 DEF PromoteOne
  <2>2. i \in Queued(gov)
    BY <2>1 DEF select, runnable_candidates
  <2> QED BY <1>1, <2>1, <2>2, PromoteMoves
<1> QED BY <1>2, <1>3

\* The end of a pass.
LEMMA PromoteEndStep ==
  ASSUME IInv, NEW t \in Threads, PromoteEnd(t)
  PROVE  Moves(gov', gov)
<1>1. CustodySound(gov)
  BY DEF IInv
<1>2. \E s, more : EndPass(t, s, more) /\ CustodySound(s) /\ Moves(s, gov) /\ more \in BOOLEAN
  <2>1. CASE \E i \in first_wait_cycle(gov) : EndPass(t, terminalize_wait_cycle(gov, i), TRUE)
    <3>1. PICK i \in first_wait_cycle(gov) : EndPass(t, terminalize_wait_cycle(gov, i), TRUE)
      BY <2>1
    <3>2. i \in Queued(gov)
      BY DEF first_wait_cycle, wait_cycles
    <3>3. /\ CustodySound(terminalize_wait_cycle(gov, i))
          /\ Moves(terminalize_wait_cycle(gov, i), gov) /\ TRUE \in BOOLEAN
      BY <1>1, <3>2, CustodyWaitCycle, WaitCycleMoves
    <3> QED BY <3>1, <3>3
  <2>2. CASE EndPass(t, gov, pass.slots = PromotionBudget /\ has_runnable(gov))
    <3>1. (pass.slots = PromotionBudget /\ has_runnable(gov)) \in BOOLEAN /\ Moves(gov, gov)
      BY LooksItself, HiddenIsMove
    <3> QED BY <1>1, <2>2, <3>1
  <2> QED BY <2>1, <2>2 DEF PromoteEnd
<1>3. PICK s, more : EndPass(t, s, more) /\ CustodySound(s) /\ Moves(s, gov) /\ more \in BOOLEAN
  BY <1>2
<1> DEFINE g == [s EXCEPT !.promotion_pending = more]
<1>4. Unlock(t, g, more)
  BY <1>3 DEF EndPass
<1>5. GovernedState(g) /\ Looks(g, s)
  <2>1. {} \in SUBSET Ids
    BY SMT
  <2>2. CustodySound(g)
    BY <1>3, <2>1, CustodyFlags
  <2> QED BY <1>3, <2>2, HiddenFields DEF CustodySound
<1> HIDE DEF g
<1>6. Moves(g, gov)
  BY <1>3, <1>5, LooksItself, MovesBetween
<1> QED BY <1>4, <1>5, <1>6, UnlockMoves

\* Every step of the Governor is a step of the service, or shows its callers nothing.
LEMMA StepRefines == IInv /\ IInv' /\ [Next]_vars => [Service!Next]_(Service!vars)
<1> SUFFICES ASSUME IInv, IInv', [Next]_vars PROVE Moves(gov', gov)
  BY MovesAreSteps
<1>0. Issued \subseteq Ids
  <2>1. gov.issued \in 0..MaxIds
    BY CustodyTypes DEF IInv, CustodySound
  <2> QED BY <2>1, IdsAssumption, SMT DEF Issued, Ids
<1>1. CASE gov' = gov
  BY <1>1, LooksItself, HiddenIsMove
<1>2. ASSUME NEW t \in Threads, Continue(t) PROVE Moves(gov', gov)
  <2>1. CASE Wake(t) \/ Resume(t)
    BY <1>1, <2>1 DEF Wake, Resume, BeginPass, Finish
  <2> QED BY <1>2, <2>1, RetiringStep, ClaimFinishStep, ClaimPanicStep, SweepStep, PassStep,
             PromoteEndStep DEF Continue
<1>3. ASSUME NEW t \in Threads, NEW now \in 0..MaxTime, Call(t, now) PROVE Moves(gov', gov)
  <2>1. CASE \E sp \in Specs : Admit(t, sp, now)
    BY <2>1, AdmitStep
  <2>2. CASE \E i \in Issued : Claim(t, i, now)
    BY <1>0, <2>2, ClaimStep
  <2>3. CASE \E i \in Issued : Abandon(t, i, now)
    BY <1>0, <2>3, AbandonStep
  <2>4. CASE \E i \in Issued : Release(t, i, now)
    BY <2>4, ReleaseStep DEF Release
  <2>5. CASE \E token \in tokens : ReleaseLeased(t, token, now)
    BY <2>5, ReleaseStep DEF ReleaseLeased
  <2>6. CASE \E i \in Issued, bytes \in Readings, e \in Epochs :
               ReconcileMemory(t, i, bytes, e, now)
    BY <1>0, <2>6, ReconcileStep, GovernorAssumption
  <2>7. CASE \E i \in Issued, f \in Freed, q \in StageSeqs : ReleaseStageMemory(t, i, f, q, now)
    BY <1>0, <2>7, ReleaseStageStep, GovernorAssumption
  <2>8. CASE \E w \in StaleAfter : ReapLeaks(t, w, now)
    BY <2>8, SweepStep
  <2> QED BY <1>3, <2>1, <2>2, <2>3, <2>4, <2>5, <2>6, <2>7, <2>8 DEF Call
<1>4. ASSUME NEW i \in Issued, NEW p \in Declared, Advance(i, p) PROVE Moves(gov', gov)
  BY <1>0, <1>4, AdvanceStep, GovernorAssumption
<1>5. ASSUME CloseAdmission PROVE Moves(gov', gov)
  BY <1>5, CloseStep
<1>6. CASE UNCHANGED vars
  BY <1>1, <1>6 DEF vars
<1> QED BY <1>2, <1>3, <1>4, <1>5, <1>6 DEF Next

\* The initial states map to initial states.
LEMMA InitRefines == Init => Service!Init
<1> SUFFICES ASSUME Init PROVE Service!Init
  BY SMT
<1>1. /\ gov.issued = 0 /\ gov.closed = FALSE /\ gov.permits = {}
      /\ gov.queue = [c \in Classes |-> {}] /\ tokens = {}
  BY DEF Init, Empty
<1>2. Queued(gov) = {} /\ Held(gov) = {} /\ Leased(gov) = {}
  BY <1>1 DEF Queued, Held, Leased
<1> QED BY <1>1, <1>2 DEF Service!Init

\* The Governor implements PermitService for every policy, set of submissions,
\* number of threads and bound: whatever its threads do, its callers see only
\* grants, promotions, leases, returns and withdrawals the service allows.
THEOREM Implementation == Spec => ImplementsService
<1>1. Init => Service!Init
  BY InitRefines
<1>2. IInv /\ IInv' /\ [Next]_vars => [Service!Next]_(Service!vars)
  BY StepRefines
<1> QED BY <1>1, <1>2, Invariance, PTL DEF Spec, ImplementsService, Service!Spec

=============================================================================
