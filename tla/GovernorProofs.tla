--------------------------- MODULE GovernorProofs ---------------------------
(***************************************************************************)
(* The inductive invariant of the Governor, IInv: the ways a step ends (Finish, *)
(* BeginPass, Unlock) keep its part about the threads, every action keeps it. *)
(* The theorems about types, custody and stranded work follow.             *)
(***************************************************************************)
EXTENDS GovernorInvariants, GovTransitionProofs

\* A leaf is for Zenon unless it names another prover.
USE Zenon

\* The invariant implies the properties it was made for.
LEMMA InvariantSuffices == IInv => TypeOK /\ CustodyExact /\ MutualExclusion
<1> SUFFICES ASSUME IInv PROVE TypeOK /\ CustodyExact /\ MutualExclusion
  BY SMT
<1>1. GovernedState(gov) /\ gov.permits \subseteq Ids /\ gov.nonce \in [Ids -> Nat]
  BY CustodyTypes DEF IInv, CustodySound
<1>2. tokens \subseteq Ids \X Nat
  BY <1>1, SMT DEF IInv, Leases
<1>3. TypeOK
  BY <1>1, <1>2 DEF IInv, ThreadsSound, TypeOK
<1>4. CustodyExact
  BY DEF IInv, CustodySound, Leases, CustodyExact
<1> QED BY <1>3, <1>4 DEF IInv, ThreadsSound

\* It holds initially.
LEMMA InvariantInit == Init => IInv
<1> SUFFICES ASSUME Init PROVE IInv
  BY SMT
<1>1. /\ gov.permits = {} /\ gov.queue = [c \in Classes |-> {}]
  BY DEF Init, Empty
<1>2. GovernedState(gov)
  BY EmptyType DEF Init
<1>3. CustodySound(gov)
  BY <1>1, <1>2 DEF CustodySound
<1>4. Leases(gov) = {}
  BY <1>1 DEF Leases
<1>5. Idle \in ThreadStates /\ Idle.pc = "idle"
  BY DEF Idle, ThreadStates, Pcs
<1>6. NoPass \in PassStates /\ NoPass.reap = {}
  BY DEF NoPass, PassStates
<1>7. /\ th \in [Threads -> ThreadStates] /\ \A t \in Threads : th[t].pc = "idle"
  BY <1>5 DEF Init
<1>8. ThreadsSound
  BY <1>6, <1>7 DEF Init, ThreadsSound, MutualExclusion, SweepSound, Holds
<1> QED BY <1>3, <1>4, <1>8 DEF Init, IInv

-----------------------------------------------------------------------------
\* How an operation ends

\* While nobody is inside a critical section no sweep is pending.
LEMMA FreeMeansNoSweep == ASSUME ThreadsSound, LockFree PROVE pass.reap = {}
BY DEF ThreadsSound, SweepSound, LockFree, Holds

\* Outside a sweep nothing is left to reclaim.
LEMMA NoSweepElsewhere ==
  ASSUME ThreadsSound, NEW t \in Threads, th[t].pc \in {"scanning", "promoting"}
  PROVE  pass.reap = {}
BY DEF ThreadsSound, SweepSound, MutualExclusion, Holds

\* Finish: the thread leaves, with nobody else's critical section disturbed.
LEMMA FinishSound ==
  ASSUME ThreadsSound, NEW t \in Threads, NEW s, Finish(t, s), pass.reap = {} \/ s = gov,
         th[t].pc # "reaping"
  PROVE  ThreadsSound'
<1>1. Idle \in ThreadStates /\ Idle.pc = "idle"
  BY DEF Idle, ThreadStates, Pcs
<1>2. /\ th' \in [Threads -> ThreadStates] /\ pass' = pass /\ gov' = s
      /\ th'[t].pc = "idle" /\ \A u \in Threads \ {t} : th'[u] = th[u]
  BY <1>1 DEF Finish, ThreadsSound
<1>3. MutualExclusion'
  BY <1>2 DEF ThreadsSound, MutualExclusion, Holds
<1>4. SweepSound'
  BY <1>2 DEF ThreadsSound, SweepSound
<1>5. \A u \in Threads : th'[u].pc \in {"retiring", "claiming"} => th'[u].id \in Ids
  BY <1>2 DEF ThreadsSound
<1> QED BY <1>2, <1>3, <1>4, <1>5 DEF ThreadsSound

\* BeginPass: the thread that has the lock keeps it for a promotion pass.
LEMMA BeginPassSound ==
  ASSUME ThreadsSound, NEW t \in Threads, NEW s, BeginPass(t, s), LockFree \/ Holds(t)
  PROVE  ThreadsSound'
<1> DEFINE r == [Idle EXCEPT !.pc = "scanning"]
<1>1. r \in ThreadStates /\ r.pc = "scanning"
  BY DEF Idle, ThreadStates, Pcs
<1>2. NoPass \in PassStates /\ NoPass.reap = {}
  BY DEF NoPass, PassStates
<1> HIDE DEF r
<1>3. /\ th' \in [Threads -> ThreadStates] /\ pass' = NoPass
      /\ th'[t].pc = "scanning" /\ \A u \in Threads \ {t} : th'[u] = th[u]
  BY <1>1 DEF BeginPass, ThreadsSound, r
<1>4. \A u \in Threads \ {t} : ~Holds(u)
  BY DEF LockFree, ThreadsSound, MutualExclusion
<1>5. MutualExclusion'
  BY <1>3, <1>4 DEF MutualExclusion, Holds
<1>6. SweepSound'
  BY <1>2, <1>3 DEF SweepSound
<1>7. \A u \in Threads : th'[u].pc \in {"retiring", "claiming"} => th'[u].id \in Ids
  BY <1>3 DEF ThreadsSound
<1> QED BY <1>2, <1>3, <1>5, <1>6, <1>7 DEF ThreadsSound

\* Unlock: the thread leaves the critical section with its effects in hand.
LEMMA UnlockSound ==
  ASSUME ThreadsSound, NEW t \in Threads, NEW s, CustodySound(s), NEW more \in BOOLEAN,
         Unlock(t, s, more)
  PROVE  ThreadsSound' /\ CustodySound(gov') /\ Leases(gov') = Leases(s)
<1> DEFINE r == [Idle EXCEPT !.pc = "applying", !.wake = s.wake, !.more = more]
<1>1. GovernedState(s) /\ s.wake \subseteq Ids
  BY CustodyTypes DEF CustodySound
<1>2. r \in ThreadStates /\ r.pc = "applying"
  BY <1>1 DEF Idle, ThreadStates, Pcs
<1>3. NoPass \in PassStates /\ NoPass.reap = {}
  BY DEF NoPass, PassStates
<1> HIDE DEF r
<1>4. /\ th' \in [Threads -> ThreadStates] /\ pass' = NoPass
      /\ th'[t].pc = "applying" /\ \A u \in Threads \ {t} : th'[u] = th[u]
  BY <1>2 DEF Unlock, ThreadsSound, r
<1>5. MutualExclusion'
  BY <1>4 DEF ThreadsSound, MutualExclusion, Holds
<1>6. SweepSound'
  BY <1>3, <1>4 DEF SweepSound
<1>7. \A u \in Threads : th'[u].pc \in {"retiring", "claiming"} => th'[u].id \in Ids
  BY <1>4 DEF ThreadsSound
<1>8. ThreadsSound'
  BY <1>3, <1>4, <1>5, <1>6, <1>7 DEF ThreadsSound
<1> DEFINE g == [s EXCEPT !.wake = {}]
<1>9. GovernedState(g) /\ SameCustody(g, s)
  <2>1. /\ GovernedState(g) /\ SameRequests(g, s) /\ SamePermits(g, s) /\ SameQueues(g, s)
        /\ g.issued = s.issued
    <3>1. {} \in SUBSET Ids
      BY SMT
    <3> QED BY <1>1, <3>1, SetWake
  <2> QED BY <2>1 DEF SameCustody, SameRequests, SamePermits, SameQueues
<1> HIDE DEF g
<1>10. CustodySound(g) /\ Leases(g) = Leases(s)
  BY <1>9, CustodySame
<1>11. gov' = g
  BY DEF Unlock, g
<1> QED BY <1>8, <1>10, <1>11

\* Entering an operation moves the watermark and nothing custody is about.
LEMMA Entered ==
  ASSUME IInv, NEW t \in Threads, NEW now, Enter(t, now)
  PROVE  LET s == commit_time(gov, now) IN
         /\ CustodySound(s) /\ Leases(s) = tokens /\ SameCustody(s, gov)
         /\ SameTickets(s, gov) /\ SamePermits(s, gov) /\ SameLedgers(s, gov)
         /\ ThreadsSound /\ LockFree /\ pass.reap = {} /\ th[t].pc = "idle"
<1> DEFINE s == commit_time(gov, now)
<1>1. GovernedState(gov) /\ gov.watermark \in Nat
  BY CustodyTypes DEF IInv, CustodySound
<1>2. now \in Nat /\ LockFree /\ th[t].pc = "idle"
  BY <1>1, GovernorAssumption, SMT DEF Enter
<1>3. /\ GovernedState(s) /\ SameRequests(s, gov) /\ SamePermits(s, gov)
      /\ SameTickets(s, gov) /\ SameQueues(s, gov) /\ SameLedgers(s, gov)
      /\ s.issued = gov.issued
  BY <1>1, <1>2, CommitTime
<1> HIDE DEF s
<1>4. SameCustody(s, gov)
  BY <1>3 DEF SameCustody, SameRequests, SamePermits, SameQueues
<1>5. CustodySound(s) /\ Leases(s) = tokens
  BY <1>3, <1>4, CustodySame DEF IInv
<1>6. pass.reap = {} /\ ThreadsSound
  BY <1>2, FreeMeansNoSweep DEF IInv
<1> QED BY <1>2, <1>3, <1>4, <1>5, <1>6 DEF s

-----------------------------------------------------------------------------
\* The invariant after each way to end a step

\* Finish with the leases the callers hold.
LEMMA FinishInv ==
  ASSUME IInv, NEW t \in Threads, NEW s, CustodySound(s), Leases(s) = tokens, Finish(t, s),
         pass.reap = {} \/ s = gov, th[t].pc # "reaping",
         tokens' = tokens, notified' \subseteq Ids
  PROVE  IInv'
<1>1. ThreadsSound'
  BY FinishSound DEF IInv
<1>2. gov' = s
  BY DEF Finish
<1> QED BY <1>1, <1>2 DEF IInv

\* BeginPass with the leases the callers hold.
LEMMA BeginPassInv ==
  ASSUME IInv, NEW t \in Threads, NEW s, CustodySound(s), Leases(s) = tokens',
         BeginPass(t, s), LockFree \/ Holds(t), notified' \subseteq Ids
  PROVE  IInv'
<1>1. ThreadsSound'
  BY BeginPassSound DEF IInv
<1>2. gov' = s
  BY DEF BeginPass
<1> QED BY <1>1, <1>2 DEF IInv

\* Unlock with the leases the callers hold.
LEMMA UnlockInv ==
  ASSUME IInv, NEW t \in Threads, NEW s, CustodySound(s), Leases(s) = tokens,
         NEW more \in BOOLEAN, Unlock(t, s, more), tokens' = tokens, notified' = notified
  PROVE  IInv'
<1>1. ThreadsSound' /\ CustodySound(gov') /\ Leases(gov') = Leases(s)
  BY UnlockSound DEF IInv
<1> QED BY <1>1 DEF IInv

\* A release without a lease spends none; refused, it changes nothing.
LEMMA BareReleaseInv ==
  ASSUME IInv, NEW t \in Threads, NEW s, CustodySound(s), Leases(s) = tokens, NEW i,
         ReleaseWithProof(t, s, i, None), LockFree, tokens' = tokens, notified' = notified
  PROVE  IInv'
<1>1. pass.reap = {} /\ th[t].pc # "reaping" /\ notified' \subseteq Ids
  BY FreeMeansNoSweep DEF IInv, LockFree, Holds
<1>2. CASE releasable(s, i, None)
  <2> DEFINE g == unwind(s, i, "Released")
  <2>1. i \in s.permits /\ s.nonce[i] = None
    BY <1>2 DEF releasable
  <2>2. "Released" \in TerminalReasons
    BY DEF TerminalReasons
  <2>3. CustodySound(g) /\ Leases(g) = Leases(s) \ {<<i, s.nonce[i]>>}
    BY <2>1, <2>2, CustodyUnwind, SMT
  <2>4. BeginPass(t, g)
    BY <1>2 DEF ReleaseWithProof
  <2> HIDE DEF g
  <2>5. Leases(g) = tokens'
    BY <2>1, <2>3, NoLease
  <2> QED BY <1>1, <2>3, <2>4, <2>5, BeginPassInv
<1>3. CASE ~releasable(s, i, None)
  <2>1. Finish(t, s)
    BY <1>3 DEF ReleaseWithProof
  <2> QED BY <1>1, <2>1, FinishInv
<1> QED BY <1>2, <1>3

\* One lemma per action

\* Admit mints no lease and never reuses an id.
LEMMA AdmitInv ==
  ASSUME IInv, NEW t \in Threads, NEW sp \in Specs, NEW now, Admit(t, sp, now)
  PROVE  IInv'
<1> DEFINE s == commit_time(gov, now)
           d == admit(s, sp)
           i == gov.issued + 1
           r == [Idle EXCEPT !.pc = "retiring", !.id = i]
<1>1. Enter(t, now) /\ gov.issued < MaxIds /\ pass' = pass /\ tokens' = tokens
  BY DEF Admit
<1>2. /\ CustodySound(s) /\ Leases(s) = tokens /\ SameCustody(s, gov)
      /\ ThreadsSound /\ LockFree /\ pass.reap = {} /\ th[t].pc = "idle"
  BY <1>1, Entered
<1>3. s.issued = gov.issued /\ gov.issued \in 0..MaxIds
  BY <1>2, CustodyTypes DEF SameCustody, IInv, CustodySound
<1>4. i \in Ids
  BY <1>1, <1>3, IdsAssumption, SMT DEF Ids
<1>5. r \in ThreadStates /\ r.pc = "retiring" /\ r.id = i
  BY <1>4 DEF Idle, ThreadStates, Pcs
<1>6. \/ /\ d.verdict = "Admitted"
         /\ gov' = grant([s EXCEPT !.issued = i], i, sp, d.class,
                         parent_permit_for_scope(s, sp), FALSE)
         /\ th' = IF sp.waker THEN [th EXCEPT ![t] = r] ELSE th
         /\ notified' = notified
      \/ /\ d.verdict = "Queued" /\ gov' = enqueue(s, i, sp, d.class)
         /\ notified' = (IF sp.waker THEN notified ELSE notified \cup {i})
         /\ th' = th
      \/ gov' = s /\ th' = th /\ notified' = notified
  BY DEF Admit
<1>7. d.verdict \in {"Admitted", "Queued"} => d.class \in Classes
  BY AdmitClass
<1> HIDE DEF s, d, r
<1>8. CustodySound(gov') /\ Leases(gov') = tokens
  <2>1. CASE /\ d.verdict = "Admitted"
             /\ gov' = grant([s EXCEPT !.issued = i], i, sp, d.class,
                             parent_permit_for_scope(s, sp), FALSE)
    <3>1. LET g == grant([s EXCEPT !.issued = s.issued + 1], s.issued + 1, sp, d.class,
                         parent_permit_for_scope(s, sp), FALSE)
          IN CustodySound(g) /\ Leases(g) = Leases(s)
      BY <1>1, <1>2, <1>3, <1>7, <2>1, CustodyAdmit
    <3> QED BY <1>2, <1>3, <2>1, <3>1
  <2>2. CASE d.verdict = "Queued" /\ gov' = enqueue(s, i, sp, d.class)
    <3>1. LET g == enqueue(s, s.issued + 1, sp, d.class)
          IN CustodySound(g) /\ Leases(g) = Leases(s)
      BY <1>1, <1>2, <1>3, <1>7, <2>2, CustodyEnqueue
    <3> QED BY <1>2, <1>3, <2>2, <3>1
  <2>3. CASE gov' = s
    BY <1>2, <2>3
  <2> QED BY <1>6, <2>1, <2>2, <2>3, ZenonT(30), SMT
<1>9. notified' \subseteq Ids
  BY <1>4, <1>6, ZenonT(30), SMT DEF IInv
<1>10. ThreadsSound'
  <2>1. th' = th \/ th' = [th EXCEPT ![t] = r]
    BY <1>6, ZenonT(30), SMT
  <2>2. /\ th' \in [Threads -> ThreadStates]
        /\ \A u \in Threads : th'[u] = th[u] \/ th'[u] = r
    BY <1>2, <1>5, <2>1 DEF ThreadsSound
  <2>3. \A u \in Threads : th'[u].pc \notin {"reaping", "scanning", "promoting"}
    BY <1>2, <1>5, <2>2 DEF LockFree, Holds
  <2>4. MutualExclusion'
    BY <2>3 DEF MutualExclusion, Holds
  <2>5. SweepSound'
    BY <1>1, <1>2 DEF SweepSound
  <2>6. \A u \in Threads : th'[u].pc \in {"retiring", "claiming"} => th'[u].id \in Ids
    BY <1>2, <1>4, <1>5, <2>2 DEF ThreadsSound
  <2> QED BY <1>1, <1>2, <2>2, <2>4, <2>5, <2>6 DEF ThreadsSound
<1> QED BY <1>1, <1>8, <1>9, <1>10 DEF IInv

\* The end of a direct admission, whether or not the waker's destructor panics.
LEMMA RetiringInv ==
  ASSUME IInv, NEW t \in Threads, AdmitReturn(t) \/ AdmitPanic(t)
  PROVE  IInv'
<1>0. CustodySound(gov) /\ Leases(gov) = tokens /\ notified \subseteq Ids
  BY DEF IInv
<1>1. CASE AdmitReturn(t)
  <2>1. th[t].pc # "reaping" /\ Finish(t, gov) /\ tokens' = tokens /\ notified' = notified
    BY <1>1 DEF AdmitReturn
  <2> QED BY <1>0, <2>1, FinishInv
<1>2. CASE AdmitPanic(t)
  <2>1. /\ LockFree /\ ReleaseWithProof(t, gov, th[t].id, None)
        /\ tokens' = tokens /\ notified' = notified
    BY <1>2 DEF AdmitPanic
  <2> QED BY <1>0, <2>1, BareReleaseInv
<1> QED BY <1>1, <1>2

\* The first critical section of claim.
LEMMA ClaimInv ==
  ASSUME IInv, NEW t \in Threads, NEW i \in Ids, NEW now, Claim(t, i, now)
  PROVE  IInv'
<1> DEFINE s == commit_time(gov, now)
           r == [Idle EXCEPT !.pc = "claiming", !.id = i, !.waker = i \in gov.claim_waker]
<1>1. Enter(t, now) /\ tokens' = tokens
  BY DEF Claim
<1>2. /\ CustodySound(s) /\ Leases(s) = tokens
      /\ ThreadsSound /\ LockFree /\ pass.reap = {} /\ th[t].pc = "idle"
  BY <1>1, Entered
<1>3. r \in ThreadStates /\ r.pc = "claiming" /\ r.id = i
  <2>1. ASSUME NEW b \in BOOLEAN
        PROVE  LET x == [Idle EXCEPT !.pc = "claiming", !.id = i, !.waker = b] IN
               x \in ThreadStates /\ x.pc = "claiming" /\ x.id = i
    BY ZenonT(30), SMT DEF Idle, ThreadStates, Pcs
  <2>2. (i \in gov.claim_waker) \in BOOLEAN
    BY SMT
  <2> QED BY <2>1, <2>2
<1>4. notified \subseteq Ids
  BY DEF IInv
<1>5. \/ gov' = begin_claim(s, i) /\ th' = [th EXCEPT ![t] = r] /\ UNCHANGED <<pass, notified>>
      \/ Finish(t, s) /\ notified' = notified
      \/ Finish(t, forget_terminal_ticket(s, i)) /\ notified' = notified \ {i}
  BY DEF Claim
<1> HIDE DEF s, r
<1>6. CASE gov' = begin_claim(s, i) /\ th' = [th EXCEPT ![t] = r] /\ UNCHANGED <<pass, notified>>
  <2>1. CustodySound(gov') /\ Leases(gov') = tokens
    BY <1>2, <1>6, CustodyTickets
  <2>2. /\ th' \in [Threads -> ThreadStates]
        /\ \A u \in Threads : th'[u] = th[u] \/ th'[u] = r
    BY <1>2, <1>3, <1>6 DEF ThreadsSound
  <2>3. \A u \in Threads : th'[u].pc \notin {"reaping", "scanning", "promoting"}
    BY <1>2, <1>3, <2>2 DEF LockFree, Holds
  <2>4. MutualExclusion'
    BY <2>3 DEF MutualExclusion, Holds
  <2>5. SweepSound'
    BY <1>2, <1>6 DEF SweepSound
  <2>6. \A u \in Threads : th'[u].pc \in {"retiring", "claiming"} => th'[u].id \in Ids
    BY <1>2, <1>3, <2>2 DEF ThreadsSound
  <2>7. ThreadsSound'
    BY <1>2, <1>6, <2>2, <2>4, <2>5, <2>6 DEF ThreadsSound
  <2> QED BY <1>1, <1>4, <1>6, <2>1, <2>7 DEF IInv
<1>7. CASE Finish(t, s) /\ notified' = notified
  BY <1>1, <1>2, <1>4, <1>7, FinishInv
<1>8. CASE Finish(t, forget_terminal_ticket(s, i)) /\ notified' = notified \ {i}
  <2> DEFINE g == forget_terminal_ticket(s, i)
  <2>1. CustodySound(g) /\ Leases(g) = tokens
    BY <1>2, CustodyTickets
  <2>2. Finish(t, g) /\ notified' \subseteq Ids
    BY <1>4, <1>8
  <2> HIDE DEF g
  <2> QED BY <1>1, <1>2, <2>1, <2>2, FinishInv
<1> QED BY <1>5, <1>6, <1>7, <1>8

\* The second critical section of claim: the ticket ends, the permit stays.
LEMMA ClaimFinishInv ==
  ASSUME IInv, NEW t \in Threads, ClaimFinish(t)
  PROVE  IInv'
<1> DEFINE i == th[t].id
<1>1. /\ th[t].pc = "claiming" /\ LockFree /\ tokens' = tokens /\ notified' = notified \ {i}
  BY DEF ClaimFinish
<1>2. i \in Ids /\ pass.reap = {}
  BY <1>1, FreeMeansNoSweep DEF IInv, ThreadsSound
<1>3. CustodySound(gov) /\ Leases(gov) = tokens /\ notified' \subseteq Ids
  BY <1>1 DEF IInv
<1>4. \/ Finish(t, finish_claim(gov, i))
      \/ Finish(t, record_terminal_ticket(gov, i, "Released"))
      \/ Finish(t, forget_terminal_ticket(gov, i))
      \/ Finish(t, gov)
  <2>1. CASE gov.tickets[i] = "Claiming" /\ i \in gov.permits
    BY <2>1 DEF ClaimFinish, TerminalReasons
  <2>2. CASE gov.tickets[i] = "Claiming" /\ i \notin gov.permits
    BY <2>2 DEF ClaimFinish, TerminalReasons
  <2>3. CASE gov.tickets[i] \in TerminalReasons \cup {"Faulted"}
    BY <2>3 DEF ClaimFinish, TerminalReasons
  <2>4. CASE gov.tickets[i] # "Claiming" /\ gov.tickets[i] \notin TerminalReasons \cup {"Faulted"}
    BY <2>4 DEF ClaimFinish, TerminalReasons
  <2> QED BY <2>1, <2>2, <2>3, <2>4
<1>5. "Released" \in TerminalReasons
  BY DEF TerminalReasons
<1> HIDE DEF i
<1>6. PICK g : CustodySound(g) /\ Leases(g) = tokens /\ Finish(t, g)
  <2>1. CASE Finish(t, finish_claim(gov, i))
    BY <1>2, <1>3, <2>1, CustodyTickets
  <2>2. CASE Finish(t, record_terminal_ticket(gov, i, "Released"))
    BY <1>2, <1>3, <1>5, <2>2, CustodyTerminal
  <2>3. CASE Finish(t, forget_terminal_ticket(gov, i))
    BY <1>2, <1>3, <2>3, CustodyTickets
  <2> QED BY <1>3, <1>4, <2>1, <2>2, <2>3
<1> QED BY <1>1, <1>2, <1>3, <1>6, FinishInv

-----------------------------------------------------------------------------
\* Abandonment, the permit lifecycle, memory governance and the sweep

\* A panic while the claimed waker is dropped ends unleased work only.
LEMMA ClaimPanicInv ==
  ASSUME IInv, NEW t \in Threads, ClaimPanic(t)
  PROVE  IInv'
<1> DEFINE i == th[t].id
           reason == IF i \in gov.permits THEN "ClaimDeliveryFailed" ELSE "Released"
           unbound == [gov EXCEPT !.pending_ticket = gov.pending_ticket \ {i}]
<1>1. th[t].pc = "claiming" /\ LockFree /\ tokens' = tokens /\ notified' = notified
  BY DEF ClaimPanic
<1>2. i \in Ids /\ pass.reap = {}
  BY <1>1, FreeMeansNoSweep DEF IInv, ThreadsSound
<1>3. /\ CustodySound(gov) /\ Leases(gov) = tokens /\ notified' \subseteq Ids
      /\ gov.pending_ticket \ {i} \in SUBSET Ids
  BY <1>1, ZenonT(30), SMT DEF IInv, CustodySound, GovernedState
<1>4. \/ releasable(gov, i, None) /\ BeginPass(t, unwind(gov, i, "ClaimDeliveryFailed"))
      \/ Finish(t, record_terminal_ticket(unbound, i, reason))
      \/ Finish(t, gov)
  BY DEF ClaimPanic
<1>5. "ClaimDeliveryFailed" \in TerminalReasons /\ reason \in TerminalReasons
  BY DEF TerminalReasons
<1>6. CustodySound(unbound) /\ Leases(unbound) = tokens
  <2>1. TRUE \in BOOLEAN
    BY SMT
  <2> QED BY <1>3, <2>1, CustodyFlags
<1> HIDE DEF i, reason, unbound
<1>7. CASE releasable(gov, i, None) /\ BeginPass(t, unwind(gov, i, "ClaimDeliveryFailed"))
  <2> DEFINE g == unwind(gov, i, "ClaimDeliveryFailed")
  <2>1. i \in gov.permits /\ gov.nonce[i] = None
    BY <1>7 DEF releasable
  <2>2. CustodySound(g) /\ Leases(g) = Leases(gov) \ {<<i, gov.nonce[i]>>}
    BY <1>3, <1>5, <2>1, CustodyUnwind, SMT
  <2>3. BeginPass(t, g)
    BY <1>7
  <2> HIDE DEF g
  <2>4. Leases(g) = tokens'
    BY <1>1, <1>3, <2>1, <2>2, NoLease
  <2> QED BY <1>1, <1>3, <2>2, <2>3, <2>4, BeginPassInv
<1>8. CASE Finish(t, record_terminal_ticket(unbound, i, reason))
  <2> DEFINE g == record_terminal_ticket(unbound, i, reason)
  <2>1. CustodySound(g) /\ Leases(g) = tokens
    BY <1>2, <1>5, <1>6, CustodyTerminal
  <2>2. Finish(t, g)
    BY <1>8
  <2> HIDE DEF g
  <2> QED BY <1>1, <1>2, <1>3, <2>1, <2>2, FinishInv
<1>9. CASE Finish(t, gov)
  BY <1>1, <1>3, <1>9, FinishInv
<1> QED BY <1>4, <1>7, <1>8, <1>9

\* Abandonment refunds unleased work only.
LEMMA AbandonInv ==
  ASSUME IInv, NEW t \in Threads, NEW i \in Ids, NEW now, Abandon(t, i, now)
  PROVE  IInv'
<1> DEFINE s == commit_time(gov, now)
           ended == unwind(s, i, "Abandoned")
           dequeued == remove_ticket(drop_request(
                         vacate_recursion_guard(remove_pending(s, i), s.spec[i]), i), i)
<1>1. Enter(t, now) /\ tokens' = tokens
  BY DEF Abandon
<1>2. /\ CustodySound(s) /\ Leases(s) = tokens
      /\ ThreadsSound /\ LockFree /\ pass.reap = {} /\ th[t].pc = "idle"
  BY <1>1, Entered
<1>3. notified' \subseteq Ids
  BY DEF Abandon, IInv
<1>4. \/ releasable(s, i, None) /\ BeginPass(t, forget_terminal_ticket(ended, i))
      \/ Finish(t, s) \/ Finish(t, remove_ticket(s, i))
      \/ BeginPass(t, dequeued)
      \/ Finish(t, forget_terminal_ticket(s, i))
  BY DEF Abandon
<1>5. CustodySound(dequeued) /\ Leases(dequeued) = tokens
  BY <1>2, CustodyWithdraw
<1>6. releasable(s, i, None) => CustodySound(ended) /\ Leases(ended) = tokens
  <2> HAVE releasable(s, i, None)
  <2>1. i \in s.permits /\ s.nonce[i] = None /\ "Abandoned" \in TerminalReasons
    BY DEF releasable, TerminalReasons
  <2>2. CustodySound(ended) /\ Leases(ended) = Leases(s) \ {<<i, s.nonce[i]>>}
    BY <1>2, <2>1, CustodyUnwind, SMT
  <2> HIDE DEF s, ended
  <2> QED BY <1>2, <2>1, <2>2, NoLease
<1> HIDE DEF s, ended, dequeued
<1>7. CASE releasable(s, i, None) /\ BeginPass(t, forget_terminal_ticket(ended, i))
  <2> DEFINE g == forget_terminal_ticket(ended, i)
  <2>1. CustodySound(g) /\ Leases(g) = tokens'
    BY <1>1, <1>6, <1>7, CustodyTickets
  <2>2. BeginPass(t, g)
    BY <1>7
  <2> HIDE DEF g
  <2> QED BY <1>2, <1>3, <2>1, <2>2, BeginPassInv
<1>8. CASE BeginPass(t, dequeued)
  BY <1>1, <1>2, <1>3, <1>5, <1>8, BeginPassInv
<1>9. CASE \E g : CustodySound(g) /\ Leases(g) = tokens /\ Finish(t, g)
  BY <1>1, <1>2, <1>3, <1>9, FinishInv
<1>10. /\ CustodySound(remove_ticket(s, i)) /\ Leases(remove_ticket(s, i)) = tokens
       /\ CustodySound(forget_terminal_ticket(s, i))
       /\ Leases(forget_terminal_ticket(s, i)) = tokens
  BY <1>2, CustodyTickets
<1> QED BY <1>2, <1>4, <1>7, <1>8, <1>9, <1>10

\* A bare release ends unleased work only.
LEMMA ReleaseInv ==
  ASSUME IInv, NEW t \in Threads, NEW i, NEW now, Release(t, i, now)
  PROVE  IInv'
<1> DEFINE s == commit_time(gov, now)
<1>1. /\ Enter(t, now) /\ ReleaseWithProof(t, s, i, None)
      /\ tokens' = tokens /\ notified' = notified
  BY DEF Release
<1>2. CustodySound(s) /\ Leases(s) = tokens /\ LockFree
  BY <1>1, Entered
<1> HIDE DEF s
<1> QED BY <1>1, <1>2, BareReleaseInv

\* Spending a lease ends exactly the permit it was minted for.
LEMMA ReleaseLeasedInv ==
  ASSUME IInv, NEW t \in Threads, NEW token \in tokens, NEW now, ReleaseLeased(t, token, now)
  PROVE  IInv'
<1> DEFINE s == commit_time(gov, now)
           i == token[1]
           g == unwind(s, i, "Released")
<1>1. /\ Enter(t, now) /\ ReleaseWithProof(t, s, i, token[2])
      /\ tokens' = tokens \ {token} /\ notified' = notified
  BY DEF ReleaseLeased
<1>2. CustodySound(s) /\ Leases(s) = tokens /\ LockFree
  BY <1>1, Entered
<1>3. token = <<i, s.nonce[i]>> /\ i \in s.permits /\ s.nonce[i] = token[2]
  BY <1>2, SMT DEF Leases
<1>4. BeginPass(t, g)
  BY <1>1, <1>3 DEF ReleaseWithProof, releasable
<1>5. CustodySound(g) /\ Leases(g) = Leases(s) \ {<<i, s.nonce[i]>>}
  <2>1. "Released" \in TerminalReasons
    BY DEF TerminalReasons
  <2> QED BY <1>2, <1>3, <2>1, CustodyUnwind, SMT
<1> HIDE DEF s, g, i
<1>6. Leases(g) = tokens' /\ notified' \subseteq Ids
  BY <1>1, <1>2, <1>3, <1>5 DEF IInv
<1> QED BY <1>2, <1>4, <1>5, <1>6, BeginPassInv

\* The first advance mints the permit's lease and hands it out.
LEMMA AdvanceInv ==
  ASSUME IInv, NEW i \in Ids, NEW p \in Phases, Advance(i, p)
  PROVE  IInv'
<1> DEFINE g == advance_phase(gov, i, p)
<1>1. /\ LockFree /\ can_advance(gov, i, p) /\ gov' = g /\ pass' = pass /\ th' = th
      /\ notified' = notified
      /\ tokens' = IF gov.nonce[i] = None THEN tokens \cup {<<i, gov'.nonce[i]>>} ELSE tokens
  BY DEF Advance
<1>2. /\ CustodySound(gov) /\ Leases(gov) = tokens /\ ThreadsSound /\ notified \subseteq Ids
  BY DEF IInv
<1>3. /\ CustodySound(g)
      /\ Leases(g) = IF gov.nonce[i] = None THEN Leases(gov) \cup {<<i, g.nonce[i]>>}
                     ELSE Leases(gov)
  BY <1>1, <1>2, CustodyAdvance
<1> HIDE DEF g
<1>4. ThreadsSound'
  <2>1. pass.reap = {}
    BY <1>1, <1>2, FreeMeansNoSweep
  <2>2. SweepSound' /\ MutualExclusion'
    BY <1>1, <1>2, <2>1 DEF ThreadsSound, SweepSound, MutualExclusion, Holds
  <2> QED BY <1>1, <1>2, <2>2 DEF ThreadsSound
<1>5. tokens' = Leases(gov')
  BY <1>1, <1>2, <1>3
<1> QED BY <1>1, <1>2, <1>3, <1>4, <1>5 DEF IInv

\* Closing admission touches no permit.
LEMMA CloseInv ==
  ASSUME IInv, CloseAdmission
  PROVE  IInv'
<1> DEFINE g == [gov EXCEPT !.closed = TRUE]
<1>1. /\ LockFree /\ gov' = g /\ pass' = pass /\ th' = th /\ notified' = notified
      /\ tokens' = tokens
  BY DEF CloseAdmission
<1>2. /\ CustodySound(gov) /\ Leases(gov) = tokens /\ ThreadsSound /\ notified \subseteq Ids
  BY DEF IInv
<1>3. CustodySound(g) /\ Leases(g) = Leases(gov)
  <2>1. ASSUME NEW b \in BOOLEAN
        PROVE  LET h == [gov EXCEPT !.closed = b] IN CustodySound(h) /\ Leases(h) = Leases(gov)
    <3>1. {} \in SUBSET Ids
      BY SMT
    <3> QED BY <1>2, <3>1, CustodyFlags
  <2> QED BY <2>1
<1> HIDE DEF g
<1>4. ThreadsSound'
  <2>1. pass.reap = {}
    BY <1>1, <1>2, FreeMeansNoSweep
  <2>2. SweepSound' /\ MutualExclusion'
    BY <1>1, <1>2, <2>1 DEF ThreadsSound, SweepSound, MutualExclusion, Holds
  <2> QED BY <1>1, <1>2, <2>2 DEF ThreadsSound
<1> QED BY <1>1, <1>2, <1>3, <1>4 DEF IInv

\* A reading moves units only; a reading that cannot be converted empties the
\* queues and touches no permit.
LEMMA ReconcileInv ==
  ASSUME IInv, NEW t \in Threads, NEW i \in Ids, NEW bytes \in Nat, NEW epoch \in Nat, NEW now,
         ReconcileMemory(t, i, bytes, epoch, now)
  PROVE  IInv'
<1> DEFINE s == commit_time(gov, now)
           sequence == IF epoch = None THEN s.mseq[i] + 1 ELSE epoch
           faulted == [s EXCEPT !.fault = TRUE]
<1>1. Enter(t, now) /\ tokens' = tokens /\ notified' = notified
  BY DEF ReconcileMemory
<1>2. /\ CustodySound(s) /\ Leases(s) = tokens
      /\ ThreadsSound /\ LockFree /\ pass.reap = {} /\ th[t].pc = "idle"
  BY <1>1, Entered
<1>3. notified' = notified /\ notified \subseteq Ids
  BY <1>1 DEF IInv
<1>4. \/ Finish(t, s)
      \/ Unlock(t, terminalize_queued_for_accounting_fault(faulted), FALSE)
      \/ BeginPass(t, reconcile(s, i, bytes, sequence))
  BY DEF ReconcileMemory
<1>5. sequence \in Nat
  <2>1. s.mseq[i] \in Nat
    BY <1>2 DEF CustodySound, GovernedState
  <2> HIDE DEF s
  <2> QED BY <2>1, SMT
<1>6. CustodySound(faulted) /\ Leases(faulted) = tokens
  <2>1. ASSUME NEW b \in BOOLEAN
        PROVE  LET h == [s EXCEPT !.fault = b] IN CustodySound(h) /\ Leases(h) = Leases(s)
    <3>1. {} \in SUBSET Ids
      BY SMT
    <3> HIDE DEF s
    <3> QED BY <1>2, <3>1, CustodyFlags
  <2> HIDE DEF s
  <2> QED BY <1>2, <2>1, ZenonT(30), SMT
<1> HIDE DEF s, sequence, faulted
<1>7. CASE Finish(t, s)
  BY <1>1, <1>2, <1>3, <1>7, FinishInv
<1>8. CASE Unlock(t, terminalize_queued_for_accounting_fault(faulted), FALSE)
  <2> DEFINE g == terminalize_queued_for_accounting_fault(faulted)
  <2>1. CustodySound(g) /\ Leases(g) = tokens
    BY <1>6, CustodyFault
  <2>2. Unlock(t, g, FALSE)
    BY <1>8, ZenonT(30), SMT
  <2> HIDE DEF g
  <2>3. ASSUME NEW more \in BOOLEAN, Unlock(t, g, more) PROVE IInv'
    BY <1>1, <1>3, <2>1, <2>3, UnlockInv
  <2> QED BY <2>2, <2>3, ZenonT(30), SMT
<1>9. CASE BeginPass(t, reconcile(s, i, bytes, sequence))
  <2> DEFINE g == reconcile(s, i, bytes, sequence)
  <2>1. CustodySound(g) /\ Leases(g) = tokens'
    BY <1>1, <1>2, <1>5, CustodyMemory
  <2>2. BeginPass(t, g)
    BY <1>9
  <2> HIDE DEF g
  <2> QED BY <1>2, <1>3, <2>1, <2>2, BeginPassInv
<1> QED BY <1>4, <1>7, <1>8, <1>9, ZenonT(30), SMT

\* A stage boundary moves units only.
LEMMA ReleaseStageInv ==
  ASSUME IInv, NEW t \in Threads, NEW i \in Ids, NEW n \in Nat, NEW sequence \in Nat, NEW now,
         ReleaseStageMemory(t, i, n, sequence, now)
  PROVE  IInv'
<1> DEFINE s == commit_time(gov, now)
<1>1. Enter(t, now) /\ tokens' = tokens /\ notified' = notified
  BY DEF ReleaseStageMemory
<1>2. /\ CustodySound(s) /\ Leases(s) = tokens
      /\ ThreadsSound /\ LockFree /\ pass.reap = {} /\ th[t].pc = "idle"
  BY <1>1, Entered
<1>3. notified' = notified /\ notified \subseteq Ids
  BY <1>1 DEF IInv
<1>4. \/ Finish(t, s) \/ BeginPass(t, s)
      \/ BeginPass(t, release_stage_memory(s, i, n, sequence))
  BY DEF ReleaseStageMemory
<1> HIDE DEF s
<1>5. CASE Finish(t, s)
  BY <1>1, <1>2, <1>3, <1>5, FinishInv
<1>6. CASE BeginPass(t, s)
  BY <1>1, <1>2, <1>3, <1>6, BeginPassInv
<1>7. CASE BeginPass(t, release_stage_memory(s, i, n, sequence))
  <2> DEFINE g == release_stage_memory(s, i, n, sequence)
  <2>1. CustodySound(g) /\ Leases(g) = tokens'
    BY <1>1, <1>2, CustodyMemory
  <2>2. BeginPass(t, g)
    BY <1>7
  <2> HIDE DEF g
  <2> QED BY <1>2, <1>3, <2>1, <2>2, BeginPassInv
<1> QED BY <1>4, <1>5, <1>6, <1>7

\* A sweep selects live permits still reserved for dispatch.
LEMMA ReapInv ==
  ASSUME IInv, NEW t \in Threads, NEW w, NEW now, ReapLeaks(t, w, now)
  PROVE  IInv'
<1> DEFINE s == commit_time(gov, now)
           r == [Idle EXCEPT !.pc = "reaping"]
           doomed == reclaimable(s, w)
           p == [NoPass EXCEPT !.reap = doomed]
<1>1. /\ Enter(t, now) /\ gov' = s /\ pass' = p /\ th' = [th EXCEPT ![t] = r]
      /\ tokens' = tokens /\ notified' = notified
  BY DEF ReapLeaks
<1>2. /\ CustodySound(s) /\ Leases(s) = tokens
      /\ ThreadsSound /\ LockFree /\ pass.reap = {} /\ th[t].pc = "idle"
  BY <1>1, Entered
<1>3. \A i \in doomed : i \in s.permits /\ s.phase[i] = "DispatchReserved"
  BY DEF reclaimable
<1>4. s.permits \subseteq Ids
  BY <1>2, CustodyTypes DEF CustodySound
<1>5. doomed \subseteq Ids
  BY <1>3, <1>4
<1> HIDE DEF s, doomed
<1>6. p \in PassStates /\ p.reap = doomed
  BY <1>5 DEF NoPass, PassStates
<1>7. r \in ThreadStates /\ r.pc = "reaping"
  BY ZenonT(30), SMT DEF Idle, ThreadStates, Pcs
<1> HIDE DEF p, r
<1>8. /\ th' \in [Threads -> ThreadStates] /\ th'[t] = r
      /\ \A u \in Threads \ {t} : th'[u] = th[u]
  BY <1>1, <1>2, <1>7 DEF ThreadsSound
<1>9. \A u \in Threads \ {t} : th'[u].pc \notin {"reaping", "scanning", "promoting"}
  BY <1>2, <1>8 DEF LockFree, Holds
<1>10. MutualExclusion'
  BY <1>9 DEF MutualExclusion, Holds
<1>11. SweepSound'
  BY <1>1, <1>3, <1>6, <1>7, <1>8 DEF SweepSound
<1>12. \A u \in Threads : th'[u].pc \in {"retiring", "claiming"} => th'[u].id \in Ids
  BY <1>2, <1>7, <1>8 DEF ThreadsSound
<1>13. ThreadsSound'
  BY <1>1, <1>6, <1>8, <1>10, <1>11, <1>12 DEF ThreadsSound
<1> QED BY <1>1, <1>2, <1>13 DEF IInv

\* Reclaiming spends no lease: nothing it ends has one.
LEMMA ReclaimInv ==
  ASSUME IInv, NEW t \in Threads, Reclaim(t)
  PROVE  IInv'
<1>1. /\ th[t].pc = "reaping" /\ tokens' = tokens /\ notified' = notified
  BY DEF Reclaim
<1>2. /\ CustodySound(gov) /\ Leases(gov) = tokens /\ ThreadsSound /\ notified \subseteq Ids
  BY DEF IInv
<1>3. ASSUME NEW i \in pass.reap, gov' = unwind(gov, i, "Reclaimed"),
             pass' = [pass EXCEPT !.reap = pass.reap \ {i}], th' = th
      PROVE  IInv'
  <2> DEFINE g == unwind(gov, i, "Reclaimed")
  <2>1. i \in gov.permits /\ gov.phase[i] = "DispatchReserved"
    BY <1>2 DEF ThreadsSound, SweepSound
  <2>2. gov.nonce[i] = None
    BY <1>2, <2>1 DEF CustodySound
  <2>3. "Reclaimed" \in TerminalReasons
    BY DEF TerminalReasons
  <2>4. /\ CustodySound(g) /\ g.permits = gov.permits \ {i}
        /\ Leases(g) = Leases(gov) \ {<<i, gov.nonce[i]>>}
        /\ \A j \in g.permits : g.phase[j] = gov.phase[j]
    BY <1>2, <2>1, <2>3, CustodyUnwind, SMT
  <2>5. gov' = g
    BY <1>3
  <2> HIDE DEF g
  <2>6. Leases(g) = tokens
    BY <1>2, <2>2, <2>4, NoLease
  <2>7. pass' \in PassStates /\ pass'.reap = pass.reap \ {i}
    BY <1>2, <1>3 DEF ThreadsSound, PassStates
  <2>8. SweepSound'
    <3>1. \A j \in pass'.reap : j \in g.permits /\ g.phase[j] = "DispatchReserved"
      BY <1>2, <2>4, <2>7 DEF ThreadsSound, SweepSound
    <3> QED BY <1>1, <1>3, <2>5, <3>1 DEF SweepSound
  <2>9. ThreadsSound'
    BY <1>2, <1>3, <2>7, <2>8 DEF ThreadsSound, MutualExclusion, Holds
  <2> QED BY <1>1, <1>2, <2>4, <2>5, <2>6, <2>9 DEF IInv
<1>4. CASE BeginPass(t, gov)
  <2>1. Holds(t)
    BY <1>1 DEF Holds
  <2> QED BY <1>1, <1>2, <1>4, <2>1, BeginPassInv
<1> QED BY <1>3, <1>4 DEF Reclaim

\* A step of the pass that keeps the lock and reclaims nothing.
LEMMA PassStepInv ==
  ASSUME IInv, NEW t \in Threads, th[t].pc \in {"scanning", "promoting"}, NEW s,
         CustodySound(s), Leases(s) = tokens, gov' = s,
         pass' \in PassStates, pass'.reap = pass.reap,
         th' = th \/ th' = [th EXCEPT ![t].pc = "promoting"],
         tokens' = tokens, notified' = notified
  PROVE  IInv'
<1>1. ThreadsSound /\ notified \subseteq Ids /\ pass.reap = {}
  BY NoSweepElsewhere DEF IInv
<1>2. SweepSound'
  BY <1>1 DEF SweepSound
<1>3. /\ th' \in [Threads -> ThreadStates]
      /\ th'[t].pc \in {"scanning", "promoting"}
      /\ \A u \in Threads \ {t} : th'[u] = th[u]
  BY <1>1, SMT DEF ThreadsSound, ThreadStates, Pcs
<1>4. MutualExclusion'
  BY <1>1, <1>3 DEF ThreadsSound, MutualExclusion, Holds
<1>5. \A u \in Threads : th'[u].pc \in {"retiring", "claiming"} => th'[u].id \in Ids
  BY <1>1, <1>3 DEF ThreadsSound
<1>6. ThreadsSound'
  BY <1>2, <1>3, <1>4, <1>5 DEF ThreadsSound
<1> QED BY <1>1, <1>6 DEF IInv

-----------------------------------------------------------------------------
\* The promotion pass

\* A scan removes only what is queued.
LEMMA ScanInv ==
  ASSUME IInv, NEW t \in Threads, ScanWaitCycles(t)
  PROVE  IInv'
<1>1. /\ th[t].pc = "scanning" /\ th' = [th EXCEPT ![t].pc = "promoting"]
      /\ tokens' = tokens /\ notified' = notified
  BY DEF ScanWaitCycles
<1>2. /\ CustodySound(gov) /\ Leases(gov) = tokens /\ pass \in PassStates
  BY DEF IInv, ThreadsSound
<1>3. ASSUME NEW i \in first_wait_cycle(gov), gov' = terminalize_wait_cycle(gov, i),
             pass' = [pass EXCEPT !.changed = TRUE]
      PROVE  IInv'
  <2> DEFINE g == terminalize_wait_cycle(gov, i)
  <2>1. i \in Queued(gov)
    BY DEF first_wait_cycle, wait_cycles
  <2>2. CustodySound(g) /\ Leases(g) = tokens
    BY <1>2, <2>1, CustodyWaitCycle
  <2>3. gov' = g
    BY <1>3
  <2> HIDE DEF g
  <2>4. pass' \in PassStates /\ pass'.reap = pass.reap
    BY <1>2, <1>3 DEF PassStates
  <2> QED BY <1>1, <2>2, <2>3, <2>4, PassStepInv
<1>4. CASE gov' = gov /\ pass' = pass
  BY <1>1, <1>2, <1>4, PassStepInv
<1> QED BY <1>3, <1>4 DEF ScanWaitCycles

\* A promotion grants what is queued, which is never already live.
LEMMA PromoteOneInv ==
  ASSUME IInv, NEW t \in Threads, PromoteOne(t)
  PROVE  IInv'
<1>1. /\ th[t].pc = "promoting" /\ th' = th /\ tokens' = tokens /\ notified' = notified
      /\ pass' = [pass EXCEPT !.slots = pass.slots + 1, !.changed = TRUE]
  BY DEF PromoteOne
<1>2. /\ CustodySound(gov) /\ Leases(gov) = tokens /\ pass \in PassStates
  BY DEF IInv, ThreadsSound
<1>3. PICK i \in select(gov) : gov' = promote_one(gov, i)
  BY DEF PromoteOne
<1> DEFINE g == promote_one(gov, i)
<1>4. i \in Queued(gov)
  BY <1>3 DEF select, runnable_candidates
<1>5. CustodySound(g) /\ Leases(g) = tokens
  BY <1>2, <1>4, CustodyPromote
<1>6. gov' = g
  BY <1>3
<1> HIDE DEF g
<1>7. pass' \in PassStates /\ pass'.reap = pass.reap
  <2>1. pass.slots + 1 \in Nat
    BY <1>2, SMT DEF PassStates
  <2>2. ASSUME NEW n \in Nat, NEW b \in BOOLEAN
        PROVE  LET q == [pass EXCEPT !.slots = n, !.changed = b] IN
               q \in PassStates /\ q.reap = pass.reap
    BY <1>2 DEF PassStates
  <2> QED BY <1>1, <2>1, <2>2
<1> QED BY <1>1, <1>5, <1>6, <1>7, PassStepInv

\* Unlocking after a pass, with or without a continuation owed.
LEMMA EndPassInv ==
  ASSUME IInv, NEW t \in Threads, NEW s, CustodySound(s), Leases(s) = tokens,
         NEW more \in BOOLEAN, EndPass(t, s, more), tokens' = tokens, notified' = notified
  PROVE  IInv'
<1> DEFINE g == [s EXCEPT !.promotion_pending = more]
<1>1. CustodySound(g) /\ Leases(g) = tokens
  <2>1. {} \in SUBSET Ids
    BY SMT
  <2> QED BY <2>1, CustodyFlags
<1>2. Unlock(t, g, more)
  BY DEF EndPass
<1> HIDE DEF g
<1> QED BY <1>1, <1>2, UnlockInv

\* The end of a pass removes at most one queued request.
LEMMA PromoteEndInv ==
  ASSUME IInv, NEW t \in Threads, PromoteEnd(t)
  PROVE  IInv'
<1>1. tokens' = tokens /\ notified' = notified /\ CustodySound(gov) /\ Leases(gov) = tokens
  BY DEF PromoteEnd, IInv
<1>2. ASSUME NEW i \in first_wait_cycle(gov), NEW more \in BOOLEAN,
             EndPass(t, terminalize_wait_cycle(gov, i), more)
      PROVE  IInv'
  <2> DEFINE g == terminalize_wait_cycle(gov, i)
  <2>1. i \in Queued(gov)
    BY DEF first_wait_cycle, wait_cycles
  <2>2. CustodySound(g) /\ Leases(g) = tokens
    BY <1>1, <2>1, CustodyWaitCycle
  <2>3. EndPass(t, g, more)
    BY <1>2
  <2> HIDE DEF g
  <2> QED BY <1>1, <1>2, <2>2, <2>3, EndPassInv
<1>3. ASSUME NEW more \in BOOLEAN, EndPass(t, gov, more)
      PROVE  IInv'
  BY <1>1, <1>3, EndPassInv
<1>4. \/ \E i \in first_wait_cycle(gov) : EndPass(t, terminalize_wait_cycle(gov, i), TRUE)
      \/ EndPass(t, gov, pass.slots = PromotionBudget /\ has_runnable(gov))
  BY DEF PromoteEnd
<1>5. CASE \E i \in first_wait_cycle(gov) : EndPass(t, terminalize_wait_cycle(gov, i), TRUE)
  <2>1. TRUE \in BOOLEAN
    BY SMT
  <2> QED BY <1>2, <1>5, <2>1
<1>6. CASE EndPass(t, gov, pass.slots = PromotionBudget /\ has_runnable(gov))
  <2>1. (pass.slots = PromotionBudget /\ has_runnable(gov)) \in BOOLEAN
    BY SMT
  <2> QED BY <1>3, <1>6, <2>1
<1> QED BY <1>4, <1>5, <1>6, ZenonT(30), SMT

\* Delivering effects happens outside the state.
LEMMA WakeInv ==
  ASSUME IInv, NEW t \in Threads, Wake(t)
  PROVE  IInv'
<1>1. PICK i \in th[t].wake : /\ notified' = notified \cup {i}
                              /\ th' = [th EXCEPT ![t].wake = @ \ {i}]
  BY ZenonT(30), SMT DEF Wake
<1>2. th[t].pc = "applying" /\ gov' = gov /\ pass' = pass /\ tokens' = tokens
  BY DEF Wake
<1>3. ThreadsSound /\ notified \subseteq Ids /\ CustodySound(gov) /\ tokens = Leases(gov)
  BY DEF IInv
<1>4. /\ th' \in [Threads -> ThreadStates] /\ i \in Ids
      /\ \A u \in Threads : th'[u].pc = th[u].pc /\ th'[u].id = th[u].id
  BY <1>1, <1>3 DEF ThreadsSound, ThreadStates
<1>5. MutualExclusion'
  BY <1>3, <1>4 DEF ThreadsSound, MutualExclusion, Holds
<1>6. SweepSound'
  BY <1>2, <1>3, <1>4 DEF ThreadsSound, SweepSound
<1>7. ThreadsSound'
  BY <1>2, <1>3, <1>4, <1>5, <1>6 DEF ThreadsSound
<1> QED BY <1>1, <1>2, <1>3, <1>4, <1>7 DEF IInv

\* An owed pass starts from the state as it is.
LEMMA ResumeInv ==
  ASSUME IInv, NEW t \in Threads, Resume(t)
  PROVE  IInv'
<1>1. th[t].pc = "applying" /\ tokens' = tokens /\ notified' = notified
  BY DEF Resume
<1>2. /\ CustodySound(gov) /\ Leases(gov) = tokens /\ notified \subseteq Ids
  BY DEF IInv
<1>3. CASE LockFree /\ BeginPass(t, gov)
  BY <1>1, <1>2, <1>3, BeginPassInv
<1>4. CASE Finish(t, gov)
  BY <1>1, <1>2, <1>4, FinishInv
<1> QED BY <1>3, <1>4 DEF Resume

-----------------------------------------------------------------------------
\* The theorems

\* Every step keeps the invariant.
LEMMA InvariantStep == IInv /\ [Next]_vars => IInv'
<1> SUFFICES ASSUME IInv, [Next]_vars PROVE IInv'
  BY SMT
<1>0. Issued \subseteq Ids
  <2>1. gov.issued \in 0..MaxIds
    BY CustodyTypes DEF IInv, CustodySound
  <2> QED BY <2>1, IdsAssumption, SMT DEF Issued, Ids
<1>1. ASSUME NEW t \in Threads, Continue(t) PROVE IInv'
  BY <1>1, RetiringInv, ClaimFinishInv, ClaimPanicInv, ReclaimInv, ScanInv, PromoteOneInv,
     PromoteEndInv, WakeInv, ResumeInv DEF Continue
<1>2. ASSUME NEW t \in Threads, NEW now, Call(t, now) PROVE IInv'
  <2>1. CASE \E sp \in Specs : Admit(t, sp, now)
    BY <2>1, AdmitInv
  <2>2. CASE \E i \in Issued : Claim(t, i, now)
    BY <1>0, <2>2, ClaimInv
  <2>3. CASE \E i \in Issued : Abandon(t, i, now)
    BY <1>0, <2>3, AbandonInv
  <2>4. CASE \E i \in Issued : Release(t, i, now)
    BY <2>4, ReleaseInv
  <2>5. CASE \E token \in tokens : ReleaseLeased(t, token, now)
    BY <2>5, ReleaseLeasedInv
  <2>6. CASE \E i \in Issued, bytes \in Readings, e \in Epochs :
               ReconcileMemory(t, i, bytes, e, now)
    BY <1>0, <2>6, ReconcileInv, GovernorAssumption
  <2>7. CASE \E i \in Issued, f \in Freed, q \in StageSeqs : ReleaseStageMemory(t, i, f, q, now)
    BY <1>0, <2>7, ReleaseStageInv, GovernorAssumption
  <2>8. CASE \E w \in StaleAfter : ReapLeaks(t, w, now)
    BY <2>8, ReapInv
  <2> QED BY <1>2, <2>1, <2>2, <2>3, <2>4, <2>5, <2>6, <2>7, <2>8 DEF Call
<1>3. ASSUME NEW i \in Issued, NEW p \in Declared, Advance(i, p) PROVE IInv'
  BY <1>0, <1>3, AdvanceInv, GovernorAssumption
<1>4. ASSUME CloseAdmission PROVE IInv'
  BY <1>4, CloseInv
<1>5. CASE UNCHANGED vars
  <2>1. gov' = gov /\ pass' = pass /\ th' = th /\ tokens' = tokens /\ notified' = notified
    BY <1>5 DEF vars
  <2>2. ThreadsSound'
    BY <2>1 DEF IInv, ThreadsSound, MutualExclusion, SweepSound, Holds
  <2> QED BY <2>1, <2>2 DEF IInv
<1> QED BY <1>1, <1>2, <1>3, <1>4, <1>5 DEF Next

\* The invariant holds in every reachable state.
THEOREM Invariance == Spec => []IInv
<1>1. Init => IInv
  BY InvariantInit
<1>2. IInv /\ [Next]_vars => IInv'
  BY InvariantStep
<1> QED BY <1>1, <1>2, PTL DEF Spec

\* Every variable keeps its type, for every policy, set of submissions, number of
\* threads and bound.
THEOREM TypeCorrect == Spec => []TypeOK
<1>1. IInv => TypeOK
  BY InvariantSuffices
<1> QED BY <1>1, Invariance, PTL

\* Custody is exact, whatever the threads do: the tokens in callers' hands are the
\* leases of the live permits, so nothing but its own token ends leased work and
\* no token outlives its permit.
THEOREM Custody == Spec => []CustodyExact
<1>1. IInv => CustodyExact
  BY InvariantSuffices
<1> QED BY <1>1, Invariance, PTL

-----------------------------------------------------------------------------
\* Runnable work

\* While a thread is in a critical section of several steps nobody looks.
LEMMA StrandBusy ==
  ASSUME NEW t \in Threads, th'[t].pc \in {"reaping", "scanning", "promoting"}
  PROVE  StrandSound'
BY DEF StrandSound, LockFree, Holds

\* A step of a thread that owes no pass and is in no such section.
LEMMA StrandKept ==
  ASSUME StrandSound, NEW t \in Threads, ~Holds(t), th[t].pc = "applying" => ~th[t].more,
         \A u \in Threads \ {t} : th'[u] = th[u], Calm(gov', gov)
  PROVE  StrandSound'
<1>1. ASSUME LockFree' PROVE LockFree
  BY <1>1 DEF LockFree, Holds
<1>2. ASSUME Owed PROVE Owed'
  <2>1. PICK u \in Threads : th[u].pc = "applying" /\ th[u].more
    BY <1>2 DEF Owed
  <2>2. th'[u] = th[u]
    BY <2>1
  <2> QED BY <2>1, <2>2 DEF Owed
<1> QED BY <1>1, <1>2 DEF StrandSound, Calm

\* Starting a pass, and ending an operation that changes nothing for the queues.
LEMMA StrandEnd ==
  ASSUME IInv, StrandSound, NEW t \in Threads, ~Holds(t), th[t].pc = "applying" => ~th[t].more,
         NEW g, (Finish(t, g) /\ Calm(g, gov)) \/ BeginPass(t, g)
  PROVE  StrandSound'
<1>1. th \in [Threads -> ThreadStates]
  BY DEF IInv, ThreadsSound
<1>2. CASE BeginPass(t, g)
  <2>1. th' = [th EXCEPT ![t] = [Idle EXCEPT !.pc = "scanning"]]
    BY <1>2 DEF BeginPass
  <2>2. th'[t].pc = "scanning"
    BY <1>1, <2>1, SMT DEF Idle
  <2> QED BY <2>2, StrandBusy
<1>3. CASE Finish(t, g) /\ Calm(g, gov)
  <2>1. th' = [th EXCEPT ![t] = Idle] /\ gov' = g
    BY <1>3 DEF Finish
  <2>2. \A u \in Threads \ {t} : th'[u] = th[u]
    BY <1>1, <2>1, SMT
  <2> QED BY <1>3, <2>1, <2>2, StrandKept
<1> QED BY <1>2, <1>3

\* A thread that enters an operation is in no critical section and owes no pass.
EntersCalmly(t, s) ==
  /\ CustodySound(s) /\ GovernedState(s) /\ Calm(s, gov) /\ s.issued = gov.issued
  /\ ~Holds(t) /\ (th[t].pc = "applying" => ~th[t].more)

\* Enter: the commit of the time changes nothing for the queues.
LEMMA CalmEntry ==
  ASSUME IInv, NEW t \in Threads, NEW now, Enter(t, now)
  PROVE  EntersCalmly(t, commit_time(gov, now))
<1> DEFINE s == commit_time(gov, now)
<1>1. CustodySound(gov) /\ GovernedState(gov) /\ now \in Nat
  <2>1. CustodySound(gov) /\ GovernedState(gov) /\ gov.watermark \in Nat
    BY DEF IInv, CustodySound, GovernedState
  <2>2. now \in Nat
    BY <2>1, GovernorAssumption, SMT DEF Enter
  <2> QED BY <2>1, <2>2
<1>2. GovernedState(s) /\ Kept(s, gov) /\ s.promotion_pending = gov.promotion_pending
  BY <1>1, CommitTime, KeptTime
<1>3. CustodySound(s)
  BY <1>1, <1>2, CustodySame DEF Kept, SamePermits, SameRequests, SameQueues, SameCustody
<1> HIDE DEF s
<1>4. Calm(s, gov) /\ s.issued = gov.issued
  BY <1>2, CalmSame DEF Kept
<1>5. th[t].pc = "idle" /\ "idle" # "applying" /\ ~Holds(t)
  BY SMT DEF Enter, Holds
<1> QED BY <1>2, <1>3, <1>4, <1>5 DEF EntersCalmly, s

\* An admission charges what it grants, and queues only what cannot start.
LEMMA AdmitStrands ==
  ASSUME IInv, StrandSound, NEW t \in Threads, NEW sp \in Specs, NEW now, Admit(t, sp, now)
  PROVE  StrandSound'
<1> DEFINE s == commit_time(gov, now)
           i == gov.issued + 1
           d == admit(s, sp)
           p == parent_permit_for_scope(s, sp)
           r == [s EXCEPT !.issued = i]
<1>1. EntersCalmly(t, s)
  BY CalmEntry DEF Admit
<1>2. \/ /\ d.verdict = "Admitted" /\ gov' = grant(r, i, sp, d.class, p, FALSE)
         /\ th' = th \/ th' = [th EXCEPT ![t] = [Idle EXCEPT !.pc = "retiring", !.id = i]]
      \/ d.verdict = "Queued" /\ gov' = enqueue(s, i, sp, d.class) /\ th' = th
      \/ gov' = s /\ th' = th
  BY DEF Admit
<1>3. /\ d.verdict = "Admitted" => Admissible(s, sp, d.class)
      /\ d.verdict = "Queued" => Queueable(s, sp, d.class)
  BY <1>1, Admission DEF EntersCalmly
<1>4. i \in Ids /\ i = s.issued + 1 /\ i \in 0..MaxIds
  <2>1. gov.issued \in 0..MaxIds /\ gov.issued < MaxIds /\ MaxIds \in Nat
    BY IdsAssumption DEF IInv, CustodySound, GovernedState, Admit
  <2>2. i \in Ids /\ i \in 0..MaxIds
    BY <2>1, SMT DEF Ids
  <2> QED BY <1>1, <2>2 DEF EntersCalmly
<1> HIDE DEF s, i, d
<1>5. ASSUME NEW j \in Queued(s) PROVE j # i
  <2>1. PICK c \in Classes : j \in s.queue[c]
    BY <1>1, <1>5, QueuedIn DEF EntersCalmly
  <2>2. j <= s.issued /\ j \in Ids /\ s.issued \in 0..MaxIds
    BY <1>1, <1>5, <2>1, QueuedIn DEF EntersCalmly, CustodySound, GovernedState
  <2> QED BY <1>4, <2>2, NoneNat, SMT
<1>6. Calm(gov', s)
  <2>1. CASE d.verdict = "Admitted" /\ gov' = grant(r, i, sp, d.class, p, FALSE)
    <3>1. /\ GovernedState(r) /\ SameRequests(r, s) /\ SamePermits(r, s) /\ SameLedgers(r, s)
          /\ SameQueues(r, s) /\ SameTotals(r, s) /\ SameIndexes(r, s) /\ SameFlags(r, s)
      BY <1>1, <1>4, SetIssued, NextId DEF EntersCalmly
    <3>2. p \in Ids \cup {None} /\ FALSE \in BOOLEAN /\ d.class \in Classes
      BY <1>1, <1>3, <2>1, ParentType DEF EntersCalmly, Admissible
    <3> HIDE DEF r, p
    <3>3. Granting(gov', r, i, sp, d.class, p, FALSE)
      BY <1>4, <2>1, <3>1, <3>2, Grant
    <3>4. Opened(gov', r, i, sp, d.class) /\ SameQueues(gov', r) /\ SameFlags(gov', r)
      BY <3>3 DEF Granting
    <3>5. Opened(gov', s, i, sp, d.class)
      BY <3>1, <3>4, OpenedFrom
    <3>6. /\ SameQueues(gov', s) /\ gov'.fault = s.fault
          /\ gov'.promotion_pending = s.promotion_pending
      BY <3>1, <3>4 DEF SameQueues, SameFlags
    <3> QED BY <1>1, <1>4, <1>5, <3>2, <3>5, <3>6, CalmOpened DEF EntersCalmly
  <2>2. CASE d.verdict = "Queued" /\ gov' = enqueue(s, i, sp, d.class)
    <3>1. Queueable(s, sp, d.class) /\ d.class \in Classes
      BY <1>3, <2>2 DEF Queueable
    <3>2. EnqueuedAs(gov', s, i, sp, d.class)
      BY <1>1, <1>4, <2>2, <3>1, Enqueue DEF EntersCalmly
    <3> QED BY <1>1, <1>4, <3>1, <3>2, CalmEnqueued DEF EntersCalmly
  <2>3. CASE gov' = s
    BY <2>3 DEF Calm
  <2> QED BY <1>2, <2>1, <2>2, <2>3
<1>7. Calm(gov', gov)
  BY <1>1, <1>6, CalmTwice DEF EntersCalmly
<1>8. \A u \in Threads \ {t} : th'[u] = th[u]
  <2>1. th \in [Threads -> ThreadStates]
    BY DEF IInv, ThreadsSound
  <2>2. CASE th' = th
    BY <2>2
  <2>3. CASE th' = [th EXCEPT ![t] = [Idle EXCEPT !.pc = "retiring", !.id = i]]
    BY <2>1, <2>3, SMT
  <2> QED BY <1>2, <2>2, <2>3
<1> QED BY <1>1, <1>7, <1>8, StrandKept DEF EntersCalmly

\* Releases start a pass, and so does whatever else gives capacity back or withdraws a
\* request.
LEMMA ReleaseStrands ==
  ASSUME IInv, StrandSound, NEW t \in Threads, NEW s, Calm(s, gov), ~Holds(t),
         th[t].pc = "applying" => ~th[t].more, NEW i, NEW proof, ReleaseWithProof(t, s, i, proof)
  PROVE  StrandSound'
<1>1. BeginPass(t, unwind(s, i, "Released")) \/ Finish(t, s)
  BY DEF ReleaseWithProof
<1> QED BY <1>1, StrandEnd

\* The end of a direct admission.
LEMMA RetiringStrands ==
  ASSUME IInv, StrandSound, NEW t \in Threads, AdmitReturn(t) \/ AdmitPanic(t)
  PROVE  StrandSound'
<1>1. ~Holds(t) /\ (th[t].pc = "applying" => ~th[t].more)
  BY SMT DEF AdmitReturn, AdmitPanic, Holds
<1>2. Calm(gov, gov)
  BY DEF Calm
<1>3. CASE AdmitReturn(t)
  <2>1. Finish(t, gov)
    BY <1>3 DEF AdmitReturn
  <2> QED BY <1>1, <1>2, <2>1, StrandEnd
<1>4. CASE AdmitPanic(t)
  <2>1. ReleaseWithProof(t, gov, th[t].id, None)
    BY <1>4 DEF AdmitPanic
  <2> QED BY <1>1, <1>2, <2>1, ReleaseStrands
<1> QED BY <1>3, <1>4

\* The first half of claim.
LEMMA ClaimStrands ==
  ASSUME IInv, StrandSound, NEW t \in Threads, NEW i \in Ids, NEW now, Claim(t, i, now)
  PROVE  StrandSound'
<1> DEFINE s == commit_time(gov, now)
           claimed == [Idle EXCEPT !.pc = "claiming", !.id = i, !.waker = i \in gov.claim_waker]
<1>1. EntersCalmly(t, s) /\ "Released" \in TerminalReasons
  BY CalmEntry DEF Claim, TerminalReasons
<1>2. \/ gov' = begin_claim(s, i) /\ th' = [th EXCEPT ![t] = claimed]
      \/ Finish(t, s) \/ Finish(t, forget_terminal_ticket(s, i))
  BY DEF Claim
<1> HIDE DEF s
<1>3. Calm(begin_claim(s, i), gov) /\ Calm(forget_terminal_ticket(s, i), gov)
  BY <1>1, TicketsCalm, CalmTwice DEF EntersCalmly
<1>4. CASE gov' = begin_claim(s, i) /\ th' = [th EXCEPT ![t] = claimed]
  <2>1. th \in [Threads -> ThreadStates]
    BY DEF IInv, ThreadsSound
  <2>2. \A u \in Threads \ {t} : th'[u] = th[u]
    BY <1>4, <2>1, SMT
  <2> QED BY <1>1, <1>3, <1>4, <2>2, StrandKept DEF EntersCalmly
<1>5. CASE Finish(t, s) \/ Finish(t, forget_terminal_ticket(s, i))
  BY <1>1, <1>3, <1>5, StrandEnd DEF EntersCalmly
<1> QED BY <1>2, <1>4, <1>5

\* The second half of claim.
LEMMA ClaimFinishStrands ==
  ASSUME IInv, StrandSound, NEW t \in Threads, ClaimFinish(t)
  PROVE  StrandSound'
<1> DEFINE i == th[t].id
<1>1. /\ i \in Ids /\ GovernedState(gov) /\ ~Holds(t) /\ (th[t].pc = "applying" => ~th[t].more)
      /\ "Released" \in TerminalReasons
  <2>1. th[t].pc = "claiming"
    BY DEF ClaimFinish
  <2>2. ~Holds(t) /\ th[t].pc # "applying" /\ "Released" \in TerminalReasons
    BY <2>1, SMT DEF Holds, TerminalReasons
  <2> QED BY <2>1, <2>2 DEF IInv, ThreadsSound, CustodySound
<1>2. \/ Finish(t, finish_claim(gov, i)) \/ Finish(t, record_terminal_ticket(gov, i, "Released"))
      \/ Finish(t, forget_terminal_ticket(gov, i)) \/ Finish(t, gov)
  <2>1. CASE gov.tickets[i] = "Claiming"
    <3>1. gov.tickets[i] \notin TerminalReasons \cup {"Faulted"}
      BY <2>1, SMT DEF TerminalReasons
    <3>2. CASE i \in gov.permits
      <4>1. Finish(t, finish_claim(gov, i))
        BY <2>1, <3>1, <3>2 DEF ClaimFinish
      <4> QED BY <4>1
    <3>3. CASE i \notin gov.permits
      <4>1. Finish(t, record_terminal_ticket(gov, i, "Released"))
        BY <2>1, <3>1, <3>3 DEF ClaimFinish
      <4> QED BY <4>1
    <3> QED BY <3>2, <3>3
  <2>2. CASE gov.tickets[i] \in TerminalReasons \cup {"Faulted"}
    <3>1. gov.tickets[i] # "Claiming"
      BY <2>2, SMT DEF TerminalReasons
    <3>2. Finish(t, forget_terminal_ticket(gov, i))
      BY <2>2, <3>1 DEF ClaimFinish
    <3> QED BY <3>2
  <2>3. CASE gov.tickets[i] \notin {"Claiming"} \cup TerminalReasons \cup {"Faulted"}
    <3>1. Finish(t, gov)
      BY <2>3 DEF ClaimFinish
    <3> QED BY <3>1
  <2> QED BY <2>1, <2>2, <2>3
<1>3. /\ Calm(finish_claim(gov, i), gov) /\ Calm(forget_terminal_ticket(gov, i), gov)
      /\ Calm(record_terminal_ticket(gov, i, "Released"), gov) /\ Calm(gov, gov)
  <2>1. Calm(gov, gov)
    BY DEF Calm
  <2> QED BY <1>1, <2>1, TicketsCalm
<1> HIDE DEF i
<1> QED BY <1>1, <1>2, <1>3, StrandEnd

\* A claim that panics refunds its permit and starts a pass, or ends a ticket only.
LEMMA ClaimPanicStrands ==
  ASSUME IInv, StrandSound, NEW t \in Threads, ClaimPanic(t)
  PROVE  StrandSound'
<1> DEFINE i == th[t].id
           r == [gov EXCEPT !.pending_ticket = @ \ {i}]
           reason == IF i \in gov.permits THEN "ClaimDeliveryFailed" ELSE "Released"
<1>1. /\ i \in Ids /\ CustodySound(gov) /\ ~Holds(t) /\ (th[t].pc = "applying" => ~th[t].more)
      /\ reason \in TerminalReasons
  <2>1. th[t].pc = "claiming"
    BY DEF ClaimPanic
  <2>2. ~Holds(t) /\ th[t].pc # "applying" /\ reason \in TerminalReasons
    BY <2>1, SMT DEF Holds, TerminalReasons
  <2> QED BY <2>1, <2>2 DEF IInv, ThreadsSound
<1>2. \/ BeginPass(t, unwind(gov, i, "ClaimDeliveryFailed"))
      \/ Finish(t, record_terminal_ticket(r, i, reason)) \/ Finish(t, gov)
  BY DEF ClaimPanic
<1>3. Calm(gov, gov)
  BY DEF Calm
<1>4. Calm(r, gov) /\ GovernedState(r)
  <2>1. DOMAIN gov = DOMAIN Empty /\ gov.pending_ticket \in SUBSET Ids
    BY <1>1 DEF CustodySound, GovernedState
  <2>2. /\ SameRequests(r, gov) /\ SameQueues(r, gov) /\ SameTotals(r, gov)
        /\ r.fault = gov.fault /\ r.promotion_pending = gov.promotion_pending
    BY <2>1, FieldNames, ZenonT(30) DEF SameRequests, SameQueues, SameTotals
  <2>3. gov.pending_ticket \ {i} \in SUBSET Ids /\ TRUE \in BOOLEAN
    BY <2>1, SMT
  <2>4. CustodySound([gov EXCEPT !.pending_ticket = gov.pending_ticket \ {i}])
    BY <1>1, <2>3, CustodyFlags
  <2> HIDE DEF i
  <2>5. CustodySound(r)
    BY <2>4
  <2> HIDE DEF r
  <2> QED BY <2>2, <2>5, CalmSame DEF CustodySound
<1> HIDE DEF i, r, reason
<1>5. Calm(record_terminal_ticket(r, i, reason), gov)
  BY <1>1, <1>4, TicketsCalm, CalmTwice
<1> QED BY <1>1, <1>2, <1>3, <1>5, StrandEnd

\* Abandoning starts a pass, or ends a ticket only.
LEMMA AbandonStrands ==
  ASSUME IInv, StrandSound, NEW t \in Threads, NEW i \in Ids, NEW now, Abandon(t, i, now)
  PROVE  StrandSound'
<1> DEFINE s == commit_time(gov, now)
<1>1. EntersCalmly(t, s) /\ "Released" \in TerminalReasons
  BY CalmEntry DEF Abandon, TerminalReasons
<1>2. \/ \E g : BeginPass(t, g)
      \/ Finish(t, s) \/ Finish(t, remove_ticket(s, i)) \/ Finish(t, forget_terminal_ticket(s, i))
  BY DEF Abandon
<1> HIDE DEF s
<1>3. Calm(remove_ticket(s, i), gov) /\ Calm(forget_terminal_ticket(s, i), gov)
  BY <1>1, TicketsCalm, CalmTwice DEF EntersCalmly
<1> QED BY <1>1, <1>2, <1>3, StrandEnd DEF EntersCalmly

\* A release by id or by lease.
LEMMA ReleasesStrand ==
  ASSUME IInv, StrandSound, NEW t \in Threads, NEW now,
         (\E i \in Ids : Release(t, i, now)) \/ \E token \in tokens : ReleaseLeased(t, token, now)
  PROVE  StrandSound'
<1> DEFINE s == commit_time(gov, now)
<1>1. Enter(t, now) /\ \E i, proof : ReleaseWithProof(t, s, i, proof)
  BY DEF Release, ReleaseLeased
<1>2. EntersCalmly(t, s)
  BY <1>1, CalmEntry
<1> HIDE DEF s
<1> QED BY <1>1, <1>2, ReleaseStrands DEF EntersCalmly

\* Progress of a permit and the closing of admission change nothing for the queues.
LEMMA AdvanceStrands ==
  ASSUME IInv, StrandSound, th' = th, Calm(gov', gov)
  PROVE  StrandSound'
<1>1. (LockFree' <=> LockFree) /\ (Owed' <=> Owed)
  BY DEF LockFree, Holds, Owed
<1> QED BY <1>1 DEF StrandSound, Calm

\* Operations that touch neither a queue nor a ledger.
LEMMA LifecycleStrands ==
  ASSUME IInv, StrandSound,
         \/ CloseAdmission
         \/ \E i \in Ids, p \in Phases : Advance(i, p)
  PROVE  StrandSound'
<1>1. GovernedState(gov)
  BY DEF IInv, CustodySound
<1>2. ASSUME NEW i \in Ids, NEW p \in Phases, Advance(i, p) PROVE StrandSound'
  <2>1. gov' = advance_phase(gov, i, p) /\ th' = th
    BY <1>2 DEF Advance
  <2>2. Advanced(gov', gov, i, p) /\ SameQueues(gov', gov) /\ SameFlags(gov', gov)
    BY <1>1, <2>1, AdvancePhase
  <2>3. SameRequests(gov', gov)
    BY <2>2 DEF Advanced
  <2>4. Queued(gov') = Queued(gov)
    BY <2>2 DEF Queued, SameQueues
  <2>5. \A j : has_queued_predecessor(gov', j) <=> has_queued_predecessor(gov, j)
    BY <2>2, <2>3 DEF has_queued_predecessor, SameRequests, SameQueues
  <2>6. \A j : Room(gov', gov'.class[j], gov'.spec[j].caps) <=> Room(gov, gov.class[j], gov.spec[j].caps)
    BY <2>2, <2>3 DEF Room, SameRequests, Advanced, SameFlags
  <2>7. Calm(gov', gov)
    BY <2>2, <2>4, <2>5, <2>6 DEF Calm, Startable, SameFlags
  <2> QED BY <2>1, <2>7, AdvanceStrands
<1>3. CASE CloseAdmission
  <2>1. gov' = [gov EXCEPT !.closed = TRUE] /\ th' = th /\ DOMAIN gov = DOMAIN Empty
    BY <1>1, <1>3 DEF CloseAdmission, GovernedState
  <2>2. Kept(gov', gov)
    BY <1>1, <2>1, KeptFlags
  <2>3. gov'.promotion_pending = gov.promotion_pending
    BY <2>1, FieldNames, ZenonT(30)
  <2>4. Calm(gov', gov)
    BY <2>2, <2>3, CalmSame DEF Kept
  <2> QED BY <2>1, <2>4, AdvanceStrands
<1> QED BY <1>2, <1>3

\* A reading or a stage boundary starts a pass, changes nothing, or stops the Governor,
\* and then nothing is queued.
LEMMA MeterStrands ==
  ASSUME IInv, StrandSound, NEW t \in Threads, NEW i \in Ids, NEW now, NEW n, NEW sequence,
         ReconcileMemory(t, i, n, sequence, now) \/ ReleaseStageMemory(t, i, n, sequence, now)
  PROVE  StrandSound'
<1> DEFINE s == commit_time(gov, now)
           r == [s EXCEPT !.fault = TRUE]
           f == terminalize_queued_for_accounting_fault(r)
<1>1. EntersCalmly(t, s)
  BY CalmEntry DEF ReconcileMemory, ReleaseStageMemory
<1>2. Finish(t, s) \/ (\E g : BeginPass(t, g)) \/ Unlock(t, f, FALSE)
  BY DEF ReconcileMemory, ReleaseStageMemory
<1> HIDE DEF s
<1>3. CASE Finish(t, s) \/ \E g : BeginPass(t, g)
  BY <1>1, <1>3, StrandEnd DEF EntersCalmly
<1>4. CASE Unlock(t, f, FALSE)
  <2>1. CustodySound(r)
    <3>1. TRUE \in BOOLEAN /\ {} \in SUBSET Ids
      BY SMT
    <3> QED BY <1>1, <3>1, CustodyFlags DEF EntersCalmly
  <2>2. GovernedState(r) /\ DOMAIN r = DOMAIN Empty
    BY <2>1 DEF CustodySound, GovernedState
  <2> HIDE DEF r
  <2>3. /\ GovernedState(f) /\ f.queue = [c \in Classes |-> {}]
        /\ f.promotion_pending = FALSE
    <3>1. GovernedState(f) /\ f.queue = [c \in Classes |-> {}]
      BY <2>2, TerminalizeQueued
    <3>2. f.promotion_pending = FALSE
      BY <2>2, FieldNames, SMT DEF terminalize_queued_for_accounting_fault
    <3> QED BY <3>1, <3>2
  <2>4. gov' = [f EXCEPT !.wake = {}]
    BY <1>4 DEF Unlock
  <2> HIDE DEF f
  <2>5. gov'.queue = f.queue /\ gov'.promotion_pending = f.promotion_pending
    <3>1. DOMAIN f = DOMAIN Empty
      BY <2>3 DEF GovernedState
    <3> QED BY <2>4, <3>1, FieldNames, ZenonT(30)
  <2>6. Queued(gov') = {}
    BY <2>3, <2>5, SMT DEF Queued
  <2> QED BY <2>3, <2>5, <2>6 DEF StrandSound
<1> QED BY <1>2, <1>3, <1>4

\* A sweep and a pass, up to the end of the pass.
LEMMA PassStrands ==
  ASSUME IInv, NEW t \in Threads,
         \/ \E w, now : ReapLeaks(t, w, now)
         \/ Reclaim(t) \/ ScanWaitCycles(t) \/ PromoteOne(t)
  PROVE  StrandSound'
<1>1. th \in [Threads -> ThreadStates]
  BY DEF IInv, ThreadsSound
<1>2. CASE \E w, now : ReapLeaks(t, w, now)
  <2>1. th' = [th EXCEPT ![t] = [Idle EXCEPT !.pc = "reaping"]]
    BY <1>2 DEF ReapLeaks
  <2>2. th'[t].pc = "reaping"
    BY <1>1, <2>1, SMT DEF Idle
  <2> QED BY <2>2, StrandBusy
<1>3. CASE Reclaim(t)
  <2>1. CASE th' = th
    BY <1>3, <2>1, StrandBusy DEF Reclaim
  <2>2. CASE th' = [th EXCEPT ![t] = [Idle EXCEPT !.pc = "scanning"]]
    <3>1. th'[t].pc = "scanning"
      BY <1>1, <2>2, SMT DEF Idle
    <3> QED BY <3>1, StrandBusy
  <2> QED BY <1>3, <2>1, <2>2 DEF Reclaim, BeginPass
<1>4. CASE ScanWaitCycles(t)
  <2>1. th' = [th EXCEPT ![t].pc = "promoting"]
    BY <1>4 DEF ScanWaitCycles
  <2>2. th'[t].pc = "promoting"
    BY <1>1, <2>1, SMT DEF ThreadStates
  <2> QED BY <2>2, StrandBusy
<1>5. CASE PromoteOne(t)
  BY <1>5, StrandBusy DEF PromoteOne
<1> QED BY <1>2, <1>3, <1>4, <1>5

\* A pass ends owing a continuation, or with nothing that could start.
LEMMA PromoteEndStrands ==
  ASSUME IInv, NEW t \in Threads, PromoteEnd(t)
  PROVE  StrandSound'
<1>1. th \in [Threads -> ThreadStates] /\ CustodySound(gov)
  BY DEF IInv, ThreadsSound
<1>2. ASSUME NEW s, CustodySound(s), EndPass(t, s, TRUE) PROVE StrandSound'
  <2>1. th' = [th EXCEPT ![t] = [Idle EXCEPT !.pc = "applying",
                                   !.wake = [s EXCEPT !.promotion_pending = TRUE].wake, !.more = TRUE]]
        /\ gov' = [[s EXCEPT !.promotion_pending = TRUE] EXCEPT !.wake = {}]
    BY <1>2 DEF EndPass, Unlock
  <2>2. th'[t].pc = "applying" /\ th'[t].more
    BY <1>1, <2>1, SMT DEF Idle
  <2>3. gov'.promotion_pending = TRUE
    <3>1. DOMAIN s = DOMAIN Empty
      BY <1>2 DEF CustodySound, GovernedState
    <3> QED BY <2>1, <3>1, FieldNames, ZenonT(30)
  <2> QED BY <2>2, <2>3 DEF StrandSound, Owed
<1>3. ASSUME EndPass(t, gov, FALSE), ~has_runnable(gov) PROVE StrandSound'
  <2> DEFINE r == [gov EXCEPT !.promotion_pending = FALSE]
  <2>1. gov' = [r EXCEPT !.wake = {}]
    BY <1>3 DEF EndPass, Unlock
  <2>2. GovernedState(r) /\ Kept(r, gov) /\ {} \in SUBSET Ids
    <3>1. FALSE \in BOOLEAN /\ {} \in SUBSET Ids
      BY SMT
    <3> QED BY <1>1, <3>1, CustodyFlags, KeptFlags DEF CustodySound
  <2>3. r.promotion_pending = FALSE
    <3>1. DOMAIN gov = DOMAIN Empty
      BY <1>1 DEF CustodySound, GovernedState
    <3> QED BY <3>1, FieldNames, ZenonT(30)
  <2> HIDE DEF r
  <2>4. Kept(gov', r) /\ gov'.promotion_pending = r.promotion_pending
    BY <2>1, <2>2, KeptWake, SetWake DEF SameFlags
  <2>5. Calm(gov', r)
    BY <2>4, CalmSame DEF Kept
  <2>6. ASSUME NEW i \in Queued(gov'), Startable(gov', i) PROVE FALSE
    <3>1. i \in Queued(r) /\ Startable(r, i)
      BY <2>3, <2>5, <2>6 DEF Calm
    <3>2. i \in Queued(gov)
      BY <2>2, <3>1 DEF Kept, SameQueues, Queued
    <3>3. has_queued_predecessor(gov, i) <=> has_queued_predecessor(r, i)
      BY <2>2 DEF Kept, has_queued_predecessor, SameRequests, SameQueues
    <3>4. Room(r, r.class[i], r.spec[i].caps) <=> Room(gov, gov.class[i], gov.spec[i].caps)
      BY <2>2 DEF Kept, Room, SameRequests, SameTotals
    <3>5. Startable(gov, i)
      BY <3>1, <3>3, <3>4 DEF Startable
    <3> QED BY <1>1, <1>3, <3>2, <3>5, StartableIsRunnable
  <2> QED BY <2>3, <2>4, <2>6 DEF StrandSound
<1>4. CASE \E i \in first_wait_cycle(gov) : EndPass(t, terminalize_wait_cycle(gov, i), TRUE)
  <2>1. PICK i \in first_wait_cycle(gov) : EndPass(t, terminalize_wait_cycle(gov, i), TRUE)
    BY <1>4
  <2>2. i \in Queued(gov)
    BY <2>1 DEF first_wait_cycle, wait_cycles
  <2> QED BY <1>1, <1>2, <2>1, <2>2, CustodyWaitCycle
<1>5. CASE EndPass(t, gov, pass.slots = PromotionBudget /\ has_runnable(gov))
  <2> DEFINE more == pass.slots = PromotionBudget /\ has_runnable(gov)
  <2>1. EndPass(t, gov, more) /\ more \in BOOLEAN
    BY <1>5
  <2>2. ~more => ~has_runnable(gov)
    BY DEF PromoteEnd
  <2> HIDE DEF more
  <2>3. more = TRUE \/ more = FALSE
    BY <2>1
  <2> QED BY <1>1, <1>2, <1>3, <2>1, <2>2, <2>3
<1> QED BY <1>4, <1>5 DEF PromoteEnd

\* Firing a waker changes nothing for the queues; who owes a pass starts it.
LEMMA EffectsStrand ==
  ASSUME IInv, StrandSound, NEW t \in Threads, Wake(t) \/ Resume(t)
  PROVE  StrandSound'
<1>1. th \in [Threads -> ThreadStates] /\ Calm(gov, gov)
  BY DEF IInv, ThreadsSound, Calm
<1>2. CASE Wake(t)
  <2>1. PICK i \in th[t].wake : th' = [th EXCEPT ![t].wake = @ \ {i}]
    BY <1>2 DEF Wake
  <2>2. \A u \in Threads : th'[u].pc = th[u].pc /\ th'[u].more = th[u].more
    BY <1>1, <2>1, SMT DEF ThreadStates
  <2>3. gov' = gov
    BY <1>2 DEF Wake
  <2> QED BY <2>2, <2>3 DEF StrandSound, LockFree, Holds, Owed
<1>3. CASE Resume(t)
  <2>1. CASE BeginPass(t, gov)
    <3>1. th' = [th EXCEPT ![t] = [Idle EXCEPT !.pc = "scanning"]]
      BY <2>1 DEF BeginPass
    <3>2. th'[t].pc = "scanning"
      BY <1>1, <3>1, SMT DEF Idle
    <3> QED BY <3>2, StrandBusy
  <2>2. CASE ~th[t].more /\ Finish(t, gov)
    <3>1. ~Holds(t)
      BY <1>3, SMT DEF Resume, Holds
    <3> QED BY <1>1, <2>2, <3>1, StrandEnd
  <2> QED BY <1>3, <2>1, <2>2 DEF Resume
<1> QED BY <1>2, <1>3

\* Nothing is queued at first.
LEMMA StrandInit == ASSUME Init PROVE StrandSound
<1>1. gov = Empty
  BY DEF Init
<1>2. Empty.promotion_pending = FALSE /\ Empty.queue = [c \in Classes |-> {}]
  BY SMT DEF Empty
<1>3. Queued(gov) = {}
  BY <1>1, <1>2, SMT DEF Queued
<1> QED BY <1>1, <1>2, <1>3 DEF StrandSound

\* No step of the Governor strands work that could start.
LEMMA StrandStep ==
  ASSUME IInv, StrandSound, [Next]_vars
  PROVE  StrandSound'
<1>1. Issued \subseteq Ids
  <2>1. gov.issued \in 0..MaxIds
    BY DEF IInv, CustodySound, GovernedState
  <2> QED BY <2>1, IdsAssumption, SMT DEF Issued, Ids
<1>2. CASE UNCHANGED vars
  <2>1. th' = th /\ gov' = gov
    BY <1>2 DEF vars
  <2>2. Calm(gov', gov)
    BY <2>1 DEF Calm
  <2> QED BY <2>1, <2>2, AdvanceStrands
<1>3. ASSUME NEW t \in Threads, Continue(t) PROVE StrandSound'
  BY <1>3, RetiringStrands, ClaimFinishStrands, ClaimPanicStrands, PassStrands,
     PromoteEndStrands, EffectsStrand DEF Continue
<1>4. ASSUME NEW t \in Threads, NEW now \in 0..MaxTime, Call(t, now) PROVE StrandSound'
  <2>1. CASE \E sp \in Specs : Admit(t, sp, now)
    BY <2>1, AdmitStrands
  <2>2. CASE \E i \in Issued : Claim(t, i, now)
    BY <1>1, <2>2, ClaimStrands
  <2>3. CASE \E i \in Issued : Abandon(t, i, now)
    BY <1>1, <2>3, AbandonStrands
  <2>4. CASE (\E i \in Issued : Release(t, i, now)) \/ \E token \in tokens : ReleaseLeased(t, token, now)
    BY <1>1, <2>4, ReleasesStrand
  <2>5. CASE \E i \in Issued, bytes \in Readings, e \in Epochs :
               ReconcileMemory(t, i, bytes, e, now)
    BY <1>1, <2>5, MeterStrands
  <2>6. CASE \E i \in Issued, f \in Freed, q \in StageSeqs : ReleaseStageMemory(t, i, f, q, now)
    BY <1>1, <2>6, MeterStrands
  <2>7. CASE \E w \in StaleAfter : ReapLeaks(t, w, now)
    BY <2>7, PassStrands
  <2> QED BY <1>4, <2>1, <2>2, <2>3, <2>4, <2>5, <2>6, <2>7 DEF Call
<1>5. ASSUME NEW i \in Issued, NEW p \in Declared, Advance(i, p) PROVE StrandSound'
  BY <1>1, <1>5, LifecycleStrands, GovernorAssumption
<1>6. ASSUME CloseAdmission PROVE StrandSound'
  BY <1>6, LifecycleStrands
<1> QED BY <1>2, <1>3, <1>4, <1>5, <1>6 DEF Next

\* What an observer is told of a queued ticket is what the scheduler goes by.
LEMMA StrandSoundIsEnough ==
  ASSUME CustodySound(gov), StrandSound
  PROVE  NoRunnableStranded
<1>1. ASSUME LockFree, NEW i \in Queued(gov), pending_assessment(gov, i).block = "Ok"
      PROVE  FALSE
  <2> DEFINE behind == gov.promotion_pending \/ has_queued_predecessor(gov, i)
  <2>1. /\ GovernedState(gov) /\ i \in Ids /\ gov.class[i] \in Classes /\ gov.spec[i] \in Specs
    <3>1. GovernedState(gov) /\ i \in Ids
      BY QueuedIn DEF CustodySound
    <3> QED BY <3>1 DEF GovernedState
  <2>2. behind \in BOOLEAN
    BY DEF has_queued_predecessor
  <2>3. assess_scope(gov, gov.class[i], gov.spec[i], gov.parent[i], behind).block = "Ok"
    BY <1>1 DEF pending_assessment
  <2>4. Room(gov, gov.class[i], gov.spec[i].caps) /\ ~behind
    <3> HIDE DEF behind
    <3> QED BY <2>1, <2>2, <2>3, AssessedOk
  <2> QED BY <1>1, <2>4 DEF StrandSound, Startable
<1>2. LockFree /\ gov.promotion_pending => Owed
  BY DEF StrandSound
<1> QED BY <1>1, <1>2 DEF NoRunnableStranded

\* No queued ticket that nothing blocks is ever left behind: what could start was
\* promoted before the mutex was released, or a thread owes the pass that
\* promotion_pending announces.
THEOREM NoneStranded == Spec => []NoRunnableStranded
<1>1. Init => StrandSound
  BY StrandInit
<1>2. IInv /\ StrandSound /\ [Next]_vars => StrandSound'
  BY StrandStep
<1>3. IInv /\ StrandSound => NoRunnableStranded
  BY StrandSoundIsEnough DEF IInv
<1>4. Spec => []IInv
  BY Invariance
<1> QED BY <1>1, <1>2, <1>3, <1>4, PTL DEF Spec
=============================================================================
