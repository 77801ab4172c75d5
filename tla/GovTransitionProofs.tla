------------------------ MODULE GovTransitionProofs -------------------------
(***************************************************************************)
(* Every operation of GovState is one of the changes of GovChanges: it keeps *)
(* the type of the state, changes what its relation says, keeps the custody of *)
(* the leases, and decides on the verdict its assessment gives.            *)
(***************************************************************************)
EXTENDS GovChanges, SequenceTheorems, WellFoundedInduction, TLAPS

\* A leaf is for Zenon unless it names another prover.
USE Zenon

-----------------------------------------------------------------------------
\* The constants, the policy and the helper operators

\* The placeholder of an id that is not in use is itself a submission.
LEMMA AnyInSpecs == AnySpec \in Specs /\ AnyClass \in Classes
BY SpecsAssumption, ClassesAssumption DEF AnySpec, AnyClass

\* No id is None.
LEMMA NoneNat == None = 0 /\ Ids \subseteq Nat /\ None \notin Ids
BY IdsAssumption, SMT DEF None, Ids

\* The fields of a class policy that the transitions read.
LEMMA PolicyFields ==
  ASSUME NEW c \in Classes
  PROVE  /\ Policy[c].cpu \in Nat /\ Policy[c].mem \in Nat
         /\ Policy[c].fallback \in Classes
         /\ Policy[c].mode \in {"Estimated", "Measured", "Hybrid"}
BY ClassesAssumption DEF ClassPolicies

\* The fields of a submission that the transitions read.
LEMMA SpecFields ==
  ASSUME NEW sp \in Specs
  PROVE  /\ sp.root \in Roots /\ sp.op \in Ops /\ sp.parent_op \in Ops
         /\ sp.stage \in Stages /\ sp.caps \subseteq Caps
         /\ sp.child \in BOOLEAN /\ sp.waker \in BOOLEAN
BY SpecsAssumption DEF TaskSpecs

\* The identity and the recursion-guard entry of a submission.
LEMMA IdentityType ==
  ASSUME NEW sp \in Specs
  PROVE  identity(sp) \in Identities /\ stages_of(sp) \subseteq Roots \X Stages
BY SpecFields, SMT DEF identity, stages_of, Identities

\* Setting one entry of a map keeps its type.
LEMMA PutType ==
  ASSUME NEW S, NEW T, NEW f \in [S -> T], NEW x, NEW v \in T
  PROVE  put(f, x, v) \in [S -> T]
BY DEF put

\* What a map holds after one entry is set.
LEMMA PutAt ==
  ASSUME NEW S, NEW T, NEW f \in [S -> T], NEW x \in S, NEW v, NEW y \in S
  PROVE  put(f, x, v)[y] = IF y = x THEN v ELSE f[y]
BY DEF put

\* Moving one entry of a ledger keeps it a ledger of counts.
LEMMA CreditType ==
  ASSUME NEW S, NEW f \in [S -> Nat], NEW x \in S, NEW n \in Nat
  PROVE  credit(f, x, n) \in [S -> Nat] /\ debit(f, x, n) \in [S -> Nat]
BY SMT DEF credit, debit, saturating_sub

\* A saturating subtraction never goes below zero.
LEMMA SaturatingType ==
  ASSUME NEW a \in Nat, NEW b \in Nat
  PROVE  saturating_sub(a, b) \in Nat
BY SMT DEF saturating_sub

\* The library's Max and Min of two numbers.
LEMMA Extrema ==
  ASSUME NEW a \in Int, NEW b \in Int
  PROVE  /\ Max({a, b}) = IF a >= b THEN a ELSE b
         /\ Min({a, b}) = IF a <= b THEN a ELSE b
BY SMT DEF Max, Min

\* The answers the transitions record are ticket states.
LEMMA TicketNames ==
  /\ TerminalReasons \subseteq TicketStates
  /\ "Unknown" \in TicketStates /\ "Faulted" \in TicketStates /\ "Claiming" \in TicketStates
BY DEF TicketStates

\* What is queued is in the queue of some class.
LEMMA QueuedIn ==
  ASSUME NEW s, GovernedState(s), NEW i
  PROVE  /\ i \in Queued(s) => i \in Ids
         /\ i \in Queued(s) <=> \E c \in Classes : i \in s.queue[c]
<1>1. s.queue \in [Classes -> SUBSET Ids]
  BY DEF GovernedState
<1> QED BY <1>1 DEF Queued

\* The types of the fields custody is about.
LEMMA CustodyTypes ==
  ASSUME NEW s, GovernedState(s)
  PROVE  /\ s.permits \subseteq Ids /\ s.phase \in [Ids -> Phases]
         /\ s.nonce \in [Ids -> Nat] /\ s.class \in [Ids -> Classes]
         /\ s.queue \in [Classes -> SUBSET Ids] /\ s.issued \in 0..MaxIds
         /\ s.minted \in Nat /\ s.watermark \in Nat /\ s.wake \subseteq Ids
BY DEF GovernedState

\* A non-empty set of counts has a least member.
LEMMA MinInSet ==
  ASSUME NEW I \in SUBSET Nat, I # {}
  PROVE  Min(I) \in I /\ \A n \in I : Min(I) <= n
<1> DEFINE R == {ss \in Nat \X Nat : ss[1] < ss[2]}
<1>1. IsWellFoundedOn(R, Nat)
  BY NatLessThanWellFounded DEF OpToRel
<1> HIDE DEF R
<1>2. PICK m \in I : \A n \in I : ~(<<n, m>> \in R)
  <2>1. I \subseteq Nat
    BY SMT
  <2>2. \E x \in I : \A y \in I : ~(<<y, x>> \in R)
    BY <1>1, <2>1, WFMin
  <2> QED BY <2>2
<1>3. ASSUME NEW n \in I PROVE m <= n
  <2>1. n \in Nat /\ m \in Nat
    BY SMT
  <2>2. n < m => <<n, m>> \in R
    BY <2>1 DEF R
  <2> QED BY <1>2, <2>1, <2>2, SMT
<1> QED BY <1>3 DEF Min

\* Removing a ticket from the terminal ring leaves a ring of tickets.
LEMMA UnlistedType ==
  ASSUME NEW q \in Seq(Ids), NEW i
  PROVE  unlisted(q, i) \in Seq(Ids)
<1> DEFINE k == CHOOSE n \in 1..Len(q) : q[n] = i
           r == [n \in 1..(Len(q) - 1) |-> q[IF n < k THEN n ELSE n + 1]]
<1>1. CASE \A n \in 1..Len(q) : q[n] # i
  BY <1>1 DEF unlisted
<1>2. CASE ~ \A n \in 1..Len(q) : q[n] # i
  <2>1. unlisted(q, i) = r
    BY <1>2 DEF unlisted
  <2>2. k \in 1..Len(q)
    BY <1>2
  <2> HIDE DEF k
  <2>3. Len(q) \in Nat /\ Len(q) - 1 \in Nat /\ \A n \in 1..Len(q) : q[n] \in Ids
    BY <2>2, LenProperties, SMT
  <2>4. \A n \in 1..(Len(q) - 1) : (IF n < k THEN n ELSE n + 1) \in 1..Len(q)
    BY <2>2, <2>3, SMT
  <2>5. \A n \in 1..(Len(q) - 1) : r[n] \in Ids
    BY <2>3, <2>4
  <2>6. r \in [1..(Len(q) - 1) -> Ids]
    BY <2>5
  <2>7. Seq(Ids) = UNION {[1..n -> Ids] : n \in Nat}
    BY SeqDef
  <2> HIDE DEF r
  <2> QED BY <2>1, <2>3, <2>6, <2>7
<1> QED BY <1>1, <1>2

\* The fields of a GovernedState.
LEMMA FieldNames ==
  DOMAIN Empty =
    {"spec", "class", "parent", "permits", "phase", "nonce", "pending_ticket", "claim_waker",
     "units", "remaining", "mseq", "sseq", "touched", "tickets", "terminal_order", "queue",
     "inflight", "admitted", "started", "terminated", "gauge", "cpu_held", "mem_held", "cpu",
     "mem", "in_use", "child_inflight", "root_cpu", "root_mem", "op_permit", "queued_ops",
     "recursion", "watermark", "fault", "closed", "promotion_pending", "issued", "minted",
     "wake"}
BY DEF Empty

\* The initial state is well typed.
LEMMA EmptyType == GovernedState(Empty)
<1>1. [c \in Classes |-> [p \in Phases |-> 0]] \in [Classes -> [Phases -> Nat]]
  BY SMT
<1>2. [i \in Ids |-> "DispatchReserved"] \in [Ids -> Phases]
  BY DEF Phases
<1>3. [i \in Ids |-> "Unknown"] \in [Ids -> TicketStates]
  BY DEF TicketStates
<1>4. [i \in Ids |-> None] \in [Ids -> Nat] /\ 0 \in 0..MaxIds
  BY NoneNat, IdsAssumption, SMT
<1>5. << >> \in Seq(Ids)
  BY SMT
<1> QED
  BY <1>1, <1>2, <1>3, <1>4, <1>5, AnyInSpecs DEF Empty, GovernedState

-----------------------------------------------------------------------------
\* Permits

\* GovernedState::grant: the id becomes a permit reserved for dispatch and unleased.
LEMMA Grant ==
  ASSUME NEW s, GovernedState(s), NEW i \in Ids, NEW sp \in Specs, NEW c \in Classes,
         NEW parent \in Ids \cup {None}, NEW ticketed \in BOOLEAN
  PROVE  LET g == grant(s, i, sp, c, parent, ticketed) IN
         GovernedState(g) /\ Granting(g, s, i, sp, c, parent, ticketed)
<1> DEFINE g == grant(s, i, sp, c, parent, ticketed)
<1>1. DOMAIN s = DOMAIN Empty
  BY DEF GovernedState
<1>2. DOMAIN g = DOMAIN Empty
  BY <1>1, FieldNames DEF grant
<1>3. /\ g.spec = put(s.spec, i, sp) /\ g.class = put(s.class, i, c)
      /\ g.parent = put(s.parent, i, parent) /\ g.permits = s.permits \cup {i}
      /\ g.phase = put(s.phase, i, "DispatchReserved") /\ g.nonce = put(s.nonce, i, None)
      /\ g.units = put(s.units, i, Policy[c].mem)
      /\ g.remaining = put(s.remaining, i, Policy[c].mem)
      /\ g.mseq = put(s.mseq, i, 0) /\ g.sseq = put(s.sseq, i, 0)
      /\ g.touched = put(s.touched, i, s.watermark)
  BY <1>1, FieldNames, SMT DEF grant
<1>4. /\ g.pending_ticket = s.pending_ticket \cup (IF ticketed THEN {i} ELSE {})
      /\ g.claim_waker = IF sp.waker THEN s.claim_waker \cup (IF ticketed THEN {i} ELSE {})
                         ELSE s.claim_waker
      /\ g.tickets = put(s.tickets, i, IF ticketed THEN "Granted" ELSE s.tickets[i])
      /\ g.op_permit = put(s.op_permit, identity(sp), i)
      /\ g.recursion = s.recursion \cup stages_of(sp)
  BY <1>1, FieldNames, SMT DEF grant
<1>5. /\ g.inflight = credit(s.inflight, c, 1) /\ g.admitted = credit(s.admitted, c, 1)
      /\ g.gauge = put(s.gauge, c, credit(s.gauge[c], "DispatchReserved", 1))
      /\ g.cpu_held = credit(s.cpu_held, c, Policy[c].cpu)
      /\ g.mem_held = credit(s.mem_held, c, Policy[c].mem)
      /\ g.cpu = s.cpu + Policy[c].cpu /\ g.mem = s.mem + Policy[c].mem
      /\ g.in_use = [k \in Caps |-> s.in_use[k] + (IF k \in sp.caps THEN 1 ELSE 0)]
  BY <1>1, FieldNames, SMT DEF grant
<1>6. /\ g.child_inflight = (IF sp.child THEN credit(s.child_inflight, sp.root, 1)
                             ELSE s.child_inflight)
      /\ g.root_cpu = (IF sp.child THEN credit(s.root_cpu, sp.root, Policy[c].cpu)
                       ELSE s.root_cpu)
      /\ g.root_mem = (IF sp.child THEN credit(s.root_mem, sp.root, Policy[c].mem)
                       ELSE s.root_mem)
  BY <1>1, FieldNames, SMT DEF grant
<1>7. /\ SameQueues(g, s) /\ SameFlags(g, s) /\ g.terminal_order = s.terminal_order
      /\ g.started = s.started /\ g.terminated = s.terminated
      /\ g.issued = s.issued /\ g.minted = s.minted /\ g.wake = s.wake
  BY <1>1, FieldNames, SMT DEF grant, SameQueues, SameFlags
<1> HIDE DEF g
<1>8. /\ g.spec \in [Ids -> Specs] /\ g.class \in [Ids -> Classes]
      /\ g.parent \in [Ids -> Ids \cup {None}] /\ g.permits \subseteq Ids
  <2>1. /\ s.spec \in [Ids -> Specs] /\ s.class \in [Ids -> Classes]
        /\ s.parent \in [Ids -> Ids \cup {None}] /\ s.permits \subseteq Ids
    BY DEF GovernedState
  <2> QED BY <1>3, <2>1, SMT DEF put
<1>9. /\ g.phase \in [Ids -> Phases] /\ g.nonce \in [Ids -> Nat]
  <2>1. s.phase \in [Ids -> Phases] /\ s.nonce \in [Ids -> Nat]
    BY DEF GovernedState
  <2>2. "DispatchReserved" \in Phases
    BY DEF Phases
  <2> QED BY <1>3, <2>1, <2>2, NoneNat, SMT DEF put
<1>10. /\ g.units \in [Ids -> Nat] /\ g.remaining \in [Ids -> Nat]
       /\ g.mseq \in [Ids -> Nat] /\ g.sseq \in [Ids -> Nat] /\ g.touched \in [Ids -> Nat]
  <2>1. /\ s.units \in [Ids -> Nat] /\ s.remaining \in [Ids -> Nat] /\ s.mseq \in [Ids -> Nat]
        /\ s.sseq \in [Ids -> Nat] /\ s.touched \in [Ids -> Nat] /\ s.watermark \in Nat
    BY DEF GovernedState
  <2>2. Policy[c].mem \in Nat
    BY PolicyFields
  <2> QED BY <1>3, <2>1, <2>2, SMT DEF put
<1>11. g.pending_ticket \subseteq Ids /\ g.claim_waker \subseteq Ids
  <2>1. s.pending_ticket \subseteq Ids /\ s.claim_waker \subseteq Ids
    BY DEF GovernedState
  <2> QED BY <1>4, <2>1
<1>12. g.tickets \in [Ids -> TicketStates]
  <2>1. s.tickets \in [Ids -> TicketStates] /\ "Granted" \in TicketStates
    BY DEF GovernedState, TicketStates
  <2> QED BY <1>4, <2>1 DEF put
<1>13. g.op_permit \in [Identities -> Ids \cup {None}] /\ g.recursion \subseteq Roots \X Stages
  <2>1. s.op_permit \in [Identities -> Ids \cup {None}] /\ s.recursion \subseteq Roots \X Stages
    BY DEF GovernedState
  <2> QED BY <1>4, <2>1, IdentityType DEF put
<1>14. /\ g.inflight \in [Classes -> Nat] /\ g.admitted \in [Classes -> Nat]
       /\ g.cpu_held \in [Classes -> Nat] /\ g.mem_held \in [Classes -> Nat]
       /\ g.gauge \in [Classes -> [Phases -> Nat]]
  <2>1. /\ s.inflight \in [Classes -> Nat] /\ s.admitted \in [Classes -> Nat]
        /\ s.cpu_held \in [Classes -> Nat] /\ s.mem_held \in [Classes -> Nat]
    BY DEF GovernedState
  <2>2. s.gauge \in [Classes -> [Phases -> Nat]]
    BY DEF GovernedState
  <2>3. Policy[c].mem \in Nat /\ Policy[c].cpu \in Nat
    BY PolicyFields
  <2>4. credit(s.gauge[c], "DispatchReserved", 1) \in [Phases -> Nat]
    BY <2>2, CreditType, ZenonT(30), SMT DEF Phases
  <2>5. g.gauge \in [Classes -> [Phases -> Nat]]
    BY <1>5, <2>2, <2>4 DEF put
  <2>6. g.inflight \in [Classes -> Nat] /\ g.admitted \in [Classes -> Nat]
    BY <1>5, <2>1, SMT DEF credit
  <2>7. g.cpu_held \in [Classes -> Nat] /\ g.mem_held \in [Classes -> Nat]
    BY <1>5, <2>1, <2>3, SMT DEF credit
  <2> QED BY <2>5, <2>6, <2>7
<1>15. g.cpu \in Nat /\ g.mem \in Nat /\ g.in_use \in [Caps -> Nat]
  <2>1. s.cpu \in Nat /\ s.mem \in Nat /\ s.in_use \in [Caps -> Nat]
    BY DEF GovernedState
  <2>2. Policy[c].mem \in Nat /\ Policy[c].cpu \in Nat
    BY PolicyFields
  <2> QED BY <1>5, <2>1, <2>2, SMT
<1>16. /\ g.child_inflight \in [Roots -> Nat] /\ g.root_cpu \in [Roots -> Nat]
       /\ g.root_mem \in [Roots -> Nat]
  <2>1. /\ s.child_inflight \in [Roots -> Nat] /\ s.root_cpu \in [Roots -> Nat]
        /\ s.root_mem \in [Roots -> Nat]
    BY DEF GovernedState
  <2>2. Policy[c].mem \in Nat /\ Policy[c].cpu \in Nat /\ sp.root \in Roots
    BY PolicyFields, SpecFields
  <2> QED BY <1>6, <2>1, <2>2, SMT DEF credit
<1>17. GovernedState(g)
  BY <1>2, <1>7, <1>8, <1>9, <1>10, <1>11, <1>12, <1>13, <1>14, <1>15, <1>16
     DEF GovernedState, SameQueues, SameFlags
<1>18. Opened(g, s, i, sp, c)
  <2>1. \E w \in Nat : g.touched = put(s.touched, i, w)
    BY <1>3 DEF GovernedState
  <2> QED BY <1>3, <1>4, <1>5, <1>6, <1>7, <2>1 DEF Opened
<1>19. Bound(g, s, i, sp, ticketed)
  BY <1>4, <1>7 DEF Bound
<1> QED BY <1>3, <1>7, <1>17, <1>18, <1>19 DEF g, Granting

\* GovernedState::advance_phase: the phase moves, and the first advance mints the
\* lease.
LEMMA AdvancePhase ==
  ASSUME NEW s, GovernedState(s), NEW i \in Ids, NEW p \in Phases
  PROVE  LET g == advance_phase(s, i, p) IN
         /\ GovernedState(g) /\ Advanced(g, s, i, p)
         /\ g.phase = put(s.phase, i, p)
         /\ g.nonce = put(s.nonce, i, IF s.nonce[i] = None THEN s.minted + 1 ELSE s.nonce[i])
         /\ SameRequests(g, s) /\ SameQueues(g, s) /\ SameTickets(g, s) /\ SameFlags(g, s)
         /\ g.permits = s.permits /\ g.issued = s.issued /\ g.wake = s.wake
         /\ g.pending_ticket = s.pending_ticket /\ g.claim_waker = s.claim_waker
<1> DEFINE g == advance_phase(s, i, p)
<1>1. DOMAIN s = DOMAIN Empty
  BY DEF GovernedState
<1>2. DOMAIN g = DOMAIN Empty
  BY <1>1, FieldNames DEF advance_phase
<1>3. /\ g.phase = put(s.phase, i, p)
      /\ g.nonce = put(s.nonce, i, IF s.nonce[i] = None THEN s.minted + 1 ELSE s.nonce[i])
      /\ g.minted = IF s.nonce[i] = None THEN s.minted + 1 ELSE s.minted
      /\ g.gauge = put(s.gauge, s.class[i],
                       credit(debit(s.gauge[s.class[i]], s.phase[i], 1), p, 1))
  BY <1>1, FieldNames, SMT DEF advance_phase
<1>4. g.started = put(s.started, s.class[i],
                      IF ~has_started(s.phase[i]) /\ has_started(p)
                      THEN s.started[s.class[i]] + 1 ELSE s.started[s.class[i]])
  BY <1>1, FieldNames, SMT DEF advance_phase
<1>5. /\ SameRequests(g, s) /\ SameLedgers(g, s) /\ SameQueues(g, s) /\ SameTickets(g, s)
      /\ SameIndexes(g, s) /\ SameFlags(g, s)
      /\ g.permits = s.permits /\ g.issued = s.issued /\ g.wake = s.wake
      /\ g.pending_ticket = s.pending_ticket /\ g.claim_waker = s.claim_waker
      /\ g.inflight = s.inflight /\ g.admitted = s.admitted /\ g.terminated = s.terminated
      /\ g.cpu_held = s.cpu_held /\ g.mem_held = s.mem_held /\ g.cpu = s.cpu /\ g.mem = s.mem
      /\ g.in_use = s.in_use /\ g.child_inflight = s.child_inflight
      /\ g.root_cpu = s.root_cpu /\ g.root_mem = s.root_mem
  BY <1>1, FieldNames, SMT
     DEF advance_phase, SameRequests, SameLedgers, SameQueues, SameTickets, SameIndexes,
         SameFlags
<1> HIDE DEF g
<1>6. /\ g.phase \in [Ids -> Phases] /\ g.nonce \in [Ids -> Nat] /\ g.minted \in Nat
  <2>1. s.phase \in [Ids -> Phases] /\ s.nonce \in [Ids -> Nat] /\ s.minted \in Nat
    BY DEF GovernedState
  <2> QED BY <1>3, <2>1, SMT DEF put
<1>7. g.gauge \in [Classes -> [Phases -> Nat]] /\ g.started \in [Classes -> Nat]
  <2>1. /\ s.gauge \in [Classes -> [Phases -> Nat]] /\ s.started \in [Classes -> Nat]
        /\ s.class[i] \in Classes /\ s.phase[i] \in Phases
    BY DEF GovernedState
  <2>2. debit(s.gauge[s.class[i]], s.phase[i], 1) \in [Phases -> Nat]
    BY <2>1, CreditType, ZenonT(30), SMT
  <2>3. credit(debit(s.gauge[s.class[i]], s.phase[i], 1), p, 1) \in [Phases -> Nat]
    BY <2>2, CreditType
  <2>4. g.gauge \in [Classes -> [Phases -> Nat]]
    BY <1>3, <2>1, <2>3 DEF put
  <2>5. g.started \in [Classes -> Nat]
    BY <1>4, <2>1, SMT DEF put
  <2> QED BY <2>4, <2>5
<1>8. GovernedState(g)
  BY <1>2, <1>5, <1>6, <1>7, ZenonT(30), SMT
     DEF GovernedState, SameRequests, SameLedgers, SameQueues, SameTickets, SameIndexes,
         SameFlags
<1>9. Advanced(g, s, i, p)
  BY <1>3, <1>4, <1>5 DEF Advanced
<1> QED BY <1>3, <1>5, <1>8, <1>9 DEF g

\* The refund half of unwind: the permit, its phase and its lease are gone.
LEMMA Refund ==
  ASSUME NEW s, GovernedState(s), NEW i \in Ids
  PROVE  LET g == refund(s, i) IN
         /\ GovernedState(g) /\ Ended(g, s, i)
         /\ g.class = put(s.class, i, AnyClass) /\ g.permits = s.permits \ {i}
         /\ g.phase = put(s.phase, i, "DispatchReserved") /\ g.nonce = put(s.nonce, i, None)
         /\ SameQueues(g, s) /\ SameTickets(g, s) /\ SameFlags(g, s)
         /\ g.issued = s.issued /\ g.minted = s.minted /\ g.wake = s.wake
<1> DEFINE g == refund(s, i)
           sp == s.spec[i]
           c == s.class[i]
           returned(f, n) == given_back(s, sp, f, n)
<1>1. DOMAIN s = DOMAIN Empty
  BY DEF GovernedState
<1>2. DOMAIN g = DOMAIN Empty
  BY <1>1, FieldNames DEF refund
<1>3. /\ g.spec = put(s.spec, i, AnySpec) /\ g.class = put(s.class, i, AnyClass)
      /\ g.parent = put(s.parent, i, None) /\ g.permits = s.permits \ {i}
      /\ g.phase = put(s.phase, i, "DispatchReserved") /\ g.nonce = put(s.nonce, i, None)
      /\ g.units = put(s.units, i, 0) /\ g.remaining = put(s.remaining, i, 0)
      /\ g.mseq = put(s.mseq, i, 0) /\ g.sseq = put(s.sseq, i, 0)
      /\ g.touched = put(s.touched, i, 0)
  BY <1>1, FieldNames, SMT DEF refund
<1>4. /\ g.pending_ticket = s.pending_ticket \ {i} /\ g.claim_waker = s.claim_waker \ {i}
      /\ g.op_permit = put(s.op_permit, identity(sp), None)
      /\ g.recursion = s.recursion \ stages_of(sp)
  BY <1>1, FieldNames, SMT DEF refund
<1>5. /\ g.inflight = debit(s.inflight, c, 1) /\ g.terminated = credit(s.terminated, c, 1)
      /\ g.gauge = put(s.gauge, c, debit(s.gauge[c], s.phase[i], 1))
      /\ g.cpu_held = debit(s.cpu_held, c, Policy[c].cpu)
      /\ g.mem_held = debit(s.mem_held, c, s.units[i])
      /\ g.cpu = saturating_sub(s.cpu, Policy[c].cpu)
      /\ g.mem = saturating_sub(s.mem, s.units[i])
      /\ g.in_use = [k \in Caps |-> saturating_sub(s.in_use[k], IF k \in sp.caps THEN 1 ELSE 0)]
  BY <1>1, FieldNames, SMT DEF refund
<1>6. /\ g.child_inflight = returned(s.child_inflight, 1)
      /\ g.root_cpu = returned(s.root_cpu, Policy[c].cpu)
      /\ g.root_mem = returned(s.root_mem, s.units[i])
  BY <1>1, FieldNames, SMT DEF refund, given_back
<1>7. /\ SameQueues(g, s) /\ SameTickets(g, s) /\ SameFlags(g, s)
      /\ g.started = s.started /\ g.admitted = s.admitted
      /\ g.issued = s.issued /\ g.minted = s.minted /\ g.wake = s.wake
  BY <1>1, FieldNames, SMT DEF refund, SameQueues, SameTickets, SameFlags
<1>18. Ended(g, s, i)
  BY <1>3, <1>4, <1>5, <1>6, <1>7 DEF Ended
<1> HIDE DEF g
<1>8. /\ g.spec \in [Ids -> Specs] /\ g.class \in [Ids -> Classes]
      /\ g.parent \in [Ids -> Ids \cup {None}] /\ g.permits \subseteq Ids
  <2>1. /\ s.spec \in [Ids -> Specs] /\ s.class \in [Ids -> Classes]
        /\ s.parent \in [Ids -> Ids \cup {None}] /\ s.permits \subseteq Ids
    BY DEF GovernedState
  <2> QED BY <1>3, <2>1, AnyInSpecs, SMT DEF put
<1>9. /\ g.phase \in [Ids -> Phases] /\ g.nonce \in [Ids -> Nat]
  <2>1. s.phase \in [Ids -> Phases] /\ s.nonce \in [Ids -> Nat]
    BY DEF GovernedState
  <2>2. "DispatchReserved" \in Phases
    BY DEF Phases
  <2> QED BY <1>3, <2>1, <2>2, NoneNat, SMT DEF put
<1>10. /\ g.units \in [Ids -> Nat] /\ g.remaining \in [Ids -> Nat]
       /\ g.mseq \in [Ids -> Nat] /\ g.sseq \in [Ids -> Nat] /\ g.touched \in [Ids -> Nat]
  <2>1. /\ s.units \in [Ids -> Nat] /\ s.remaining \in [Ids -> Nat] /\ s.mseq \in [Ids -> Nat]
        /\ s.sseq \in [Ids -> Nat] /\ s.touched \in [Ids -> Nat]
    BY DEF GovernedState
  <2> QED BY <1>3, <2>1, SMT DEF put
<1>11. /\ g.pending_ticket \subseteq Ids /\ g.claim_waker \subseteq Ids
       /\ g.recursion \subseteq Roots \X Stages
       /\ g.op_permit \in [Identities -> Ids \cup {None}]
  <2>1. /\ s.pending_ticket \subseteq Ids /\ s.claim_waker \subseteq Ids
        /\ s.recursion \subseteq Roots \X Stages
        /\ s.op_permit \in [Identities -> Ids \cup {None}]
    BY DEF GovernedState
  <2> QED BY <1>4, <2>1 DEF put
<1>12. /\ sp \in Specs /\ c \in Classes /\ s.phase[i] \in Phases /\ s.units[i] \in Nat
       /\ sp.root \in Roots /\ Policy[c].cpu \in Nat
  <2>1. sp \in Specs /\ c \in Classes /\ s.phase[i] \in Phases /\ s.units[i] \in Nat
    BY DEF GovernedState
  <2> QED BY <2>1, SpecFields, PolicyFields
<1> HIDE DEF sp, c
<1>13. /\ g.inflight \in [Classes -> Nat] /\ g.terminated \in [Classes -> Nat]
       /\ g.cpu_held \in [Classes -> Nat] /\ g.mem_held \in [Classes -> Nat]
  <2>1. /\ s.inflight \in [Classes -> Nat] /\ s.terminated \in [Classes -> Nat]
        /\ s.cpu_held \in [Classes -> Nat] /\ s.mem_held \in [Classes -> Nat]
    BY DEF GovernedState
  <2>2. /\ debit(s.inflight, c, 1) \in [Classes -> Nat]
        /\ credit(s.terminated, c, 1) \in [Classes -> Nat]
    BY <1>12, <2>1, CreditType
  <2>3. /\ debit(s.cpu_held, c, Policy[c].cpu) \in [Classes -> Nat]
        /\ debit(s.mem_held, c, s.units[i]) \in [Classes -> Nat]
    BY <1>12, <2>1, CreditType
  <2> QED BY <1>5, <2>2, <2>3
<1>14. g.gauge \in [Classes -> [Phases -> Nat]]
  <2>1. s.gauge \in [Classes -> [Phases -> Nat]]
    BY DEF GovernedState
  <2>2. debit(s.gauge[c], s.phase[i], 1) \in [Phases -> Nat]
    BY <1>12, <2>1, CreditType
  <2> QED BY <1>5, <2>1, <2>2 DEF put
<1>15. g.cpu \in Nat /\ g.mem \in Nat /\ g.in_use \in [Caps -> Nat]
  <2>1. s.cpu \in Nat /\ s.mem \in Nat /\ s.in_use \in [Caps -> Nat]
    BY DEF GovernedState
  <2> QED BY <1>5, <1>12, <2>1, SMT DEF saturating_sub
<1>16. /\ g.child_inflight \in [Roots -> Nat] /\ g.root_cpu \in [Roots -> Nat]
       /\ g.root_mem \in [Roots -> Nat]
  <2>1. /\ s.child_inflight \in [Roots -> Nat] /\ s.root_cpu \in [Roots -> Nat]
        /\ s.root_mem \in [Roots -> Nat]
    BY ZenonT(30), SMT DEF GovernedState
  <2>2. ASSUME NEW f \in [Roots -> Nat], NEW n \in Nat
        PROVE  returned(f, n) \in [Roots -> Nat]
    BY <1>12, CreditType DEF put, given_back
  <2> QED BY <1>6, <1>12, <2>1, <2>2
<1>17. GovernedState(g)
  BY <1>2, <1>7, <1>8, <1>9, <1>10, <1>11, <1>13, <1>14, <1>15, <1>16
     DEF GovernedState, SameQueues, SameTickets, SameFlags
<1> QED BY <1>3, <1>7, <1>17, <1>18 DEF g

-----------------------------------------------------------------------------
\* The transitions

-----------------------------------------------------------------------------
\* Requests and queues

\* commit_time moves the watermark and nothing else.
LEMMA CommitTime ==
  ASSUME NEW s, GovernedState(s), NEW now \in Nat
  PROVE  LET g == commit_time(s, now) IN
         /\ GovernedState(g) /\ g.watermark = now
         /\ SameRequests(g, s) /\ SamePermits(g, s) /\ SameLedgers(g, s)
         /\ SameTickets(g, s) /\ SameQueues(g, s) /\ SameTotals(g, s) /\ SameIndexes(g, s)
         /\ g.fault = s.fault /\ g.issued = s.issued /\ g.wake = s.wake
         /\ g.closed = s.closed /\ g.promotion_pending = s.promotion_pending
<1> DEFINE g == commit_time(s, now)
<1>1. DOMAIN s = DOMAIN Empty
  BY DEF GovernedState
<1>2. /\ DOMAIN g = DOMAIN Empty /\ g.watermark = now
      /\ g.fault = s.fault /\ g.closed = s.closed /\ g.issued = s.issued /\ g.wake = s.wake
      /\ g.promotion_pending = s.promotion_pending
  BY <1>1, FieldNames DEF commit_time
<1>3. SameRequests(g, s) /\ SamePermits(g, s) /\ SameLedgers(g, s) /\ SameTickets(g, s)
  BY <1>1, FieldNames, SMT
     DEF commit_time, SameRequests, SamePermits, SameLedgers, SameTickets
<1>4. SameQueues(g, s) /\ SameTotals(g, s) /\ SameIndexes(g, s)
  BY <1>1, FieldNames, SMT DEF commit_time, SameQueues, SameTotals, SameIndexes
<1> HIDE DEF g
<1>5. GovernedState(g)
  BY <1>2, <1>3, <1>4
     DEF GovernedState, SameRequests, SamePermits, SameLedgers, SameTickets, SameQueues,
         SameTotals, SameIndexes
<1> QED BY <1>2, <1>3, <1>4, <1>5 DEF g

\* The parent permit of a submission is an id or None.
LEMMA ParentType ==
  ASSUME NEW s, GovernedState(s), NEW sp \in Specs
  PROVE  parent_permit_for_scope(s, sp) \in Ids \cup {None}
<1>1. <<sp.root, sp.parent_op>> \in Identities
  BY SpecFields DEF Identities
<1>2. s.op_permit \in [Identities -> Ids \cup {None}]
  BY DEF GovernedState
<1> QED BY <1>1, <1>2 DEF parent_permit_for_scope

\* Forgetting the request behind an id.
LEMMA DropRequest ==
  ASSUME NEW s, GovernedState(s), NEW i
  PROVE  LET g == drop_request(s, i) IN
         /\ GovernedState(g) /\ g.spec = put(s.spec, i, AnySpec)
         /\ g.class = put(s.class, i, AnyClass) /\ g.parent = put(s.parent, i, None)
         /\ SamePermits(g, s) /\ SameTickets(g, s) /\ SameQueues(g, s) /\ SameFlags(g, s)
         /\ SameLedgers(g, s) /\ SameTotals(g, s) /\ SameIndexes(g, s)
         /\ g.issued = s.issued /\ g.wake = s.wake
<1> DEFINE g == drop_request(s, i)
<1>1. DOMAIN s = DOMAIN Empty
  BY DEF GovernedState
<1>2. /\ DOMAIN g = DOMAIN Empty /\ g.spec = put(s.spec, i, AnySpec)
      /\ g.class = put(s.class, i, AnyClass) /\ g.parent = put(s.parent, i, None)
      /\ g.issued = s.issued /\ g.wake = s.wake
  BY <1>1, FieldNames DEF drop_request
<1>3. SamePermits(g, s) /\ SameTickets(g, s) /\ SameQueues(g, s) /\ SameFlags(g, s)
  BY <1>1, FieldNames, SMT DEF drop_request, SamePermits, SameTickets, SameQueues, SameFlags
<1>4. SameLedgers(g, s) /\ SameTotals(g, s) /\ SameIndexes(g, s)
  BY <1>1, FieldNames, SMT DEF drop_request, SameLedgers, SameTotals, SameIndexes
<1> HIDE DEF g
<1>5. /\ s.spec \in [Ids -> Specs] /\ s.class \in [Ids -> Classes]
      /\ s.parent \in [Ids -> Ids \cup {None}]
  BY DEF GovernedState
<1>6. /\ g.spec \in [Ids -> Specs] /\ g.class \in [Ids -> Classes]
      /\ g.parent \in [Ids -> Ids \cup {None}]
  BY <1>2, <1>5, AnyInSpecs, ZenonT(30), SMT DEF put
<1>7. GovernedState(g)
  BY <1>2, <1>3, <1>4, <1>6
     DEF GovernedState, SamePermits, SameLedgers, SameTickets, SameQueues, SameTotals,
         SameIndexes, SameFlags
<1> QED BY <1>2, <1>3, <1>4, <1>7 DEF g

\* A request joins the queue of its class.
LEMMA Enqueue ==
  ASSUME NEW s, GovernedState(s), NEW i \in Ids, NEW sp \in Specs, NEW c \in Classes
  PROVE  LET g == enqueue(s, i, sp, c) IN GovernedState(g) /\ EnqueuedAs(g, s, i, sp, c)
<1> DEFINE g == enqueue(s, i, sp, c)
<1>1. DOMAIN s = DOMAIN Empty
  BY DEF GovernedState
<1>2. DOMAIN g = DOMAIN Empty
  BY <1>1, FieldNames DEF enqueue
<1>3. /\ g.spec = put(s.spec, i, sp) /\ g.class = put(s.class, i, c) /\ g.issued = i
      /\ g.parent = put(s.parent, i, parent_permit_for_scope(s, sp))
      /\ g.queue = put(s.queue, c, s.queue[c] \cup {i})
      /\ g.queued_ops = s.queued_ops \cup {identity(sp)}
      /\ g.tickets = put(s.tickets, i, "Queued")
      /\ g.recursion = s.recursion \cup stages_of(sp)
  BY <1>1, FieldNames, SMT DEF enqueue
<1>4. /\ SamePermits(g, s) /\ SameLedgers(g, s) /\ SameTotals(g, s) /\ SameFlags(g, s)
      /\ g.op_permit = s.op_permit /\ g.terminal_order = s.terminal_order /\ g.wake = s.wake
  BY <1>1, FieldNames, SMT DEF enqueue, SamePermits, SameLedgers, SameTotals, SameFlags
<1> HIDE DEF g
<1>5. /\ s.spec \in [Ids -> Specs] /\ s.class \in [Ids -> Classes]
      /\ s.parent \in [Ids -> Ids \cup {None}] /\ s.queue \in [Classes -> SUBSET Ids]
      /\ s.tickets \in [Ids -> TicketStates]
  BY DEF GovernedState
<1>6. /\ g.spec \in [Ids -> Specs] /\ g.class \in [Ids -> Classes]
      /\ g.parent \in [Ids -> Ids \cup {None}]
  BY <1>3, <1>5, ParentType, SMT DEF put
<1>7. g.queue \in [Classes -> SUBSET Ids]
  BY <1>3, <1>5, SMT DEF put
<1>8. g.tickets \in [Ids -> TicketStates] /\ g.issued \in 0..MaxIds
  <2>1. "Queued" \in TicketStates /\ i \in 0..MaxIds
    BY IdsAssumption, SMT DEF TicketStates, Ids
  <2> QED BY <1>3, <1>5, <2>1, SMT DEF put
<1>9. g.queued_ops \subseteq Identities /\ g.recursion \subseteq Roots \X Stages
  BY <1>3, IdentityType DEF GovernedState
<1>10. GovernedState(g)
  BY <1>2, <1>4, <1>6, <1>7, <1>8, <1>9
     DEF GovernedState, SamePermits, SameLedgers, SameTotals, SameFlags
<1> QED BY <1>3, <1>4, <1>10 DEF g, EnqueuedAs

\* GovernedState::remove_pending: the id leaves the queue of its class.
LEMMA RemovePending ==
  ASSUME NEW s, GovernedState(s), NEW i \in Ids
  PROVE  LET g == remove_pending(s, i) IN
         /\ GovernedState(g)
         /\ g.queue = put(s.queue, s.class[i], s.queue[s.class[i]] \ {i})
         /\ g.queued_ops = s.queued_ops \ {identity(s.spec[i])}
         /\ SameRequests(g, s) /\ SamePermits(g, s) /\ SameTickets(g, s) /\ SameFlags(g, s)
         /\ SameLedgers(g, s) /\ SameTotals(g, s) /\ SameIndexes(g, s)
         /\ g.issued = s.issued /\ g.wake = s.wake
<1> DEFINE g == remove_pending(s, i)
<1>1. DOMAIN s = DOMAIN Empty
  BY DEF GovernedState
<1>2. /\ DOMAIN g = DOMAIN Empty
      /\ g.queue = put(s.queue, s.class[i], s.queue[s.class[i]] \ {i})
      /\ g.queued_ops = s.queued_ops \ {identity(s.spec[i])}
      /\ g.issued = s.issued /\ g.wake = s.wake
  BY <1>1, FieldNames DEF remove_pending
<1>3. SameRequests(g, s) /\ SamePermits(g, s) /\ SameTickets(g, s) /\ SameFlags(g, s)
  BY <1>1, FieldNames, SMT DEF remove_pending, SameRequests, SamePermits, SameTickets, SameFlags
<1>4. SameLedgers(g, s) /\ SameTotals(g, s) /\ SameIndexes(g, s)
  BY <1>1, FieldNames, SMT DEF remove_pending, SameLedgers, SameTotals, SameIndexes
<1> HIDE DEF g
<1>5. /\ s.queue \in [Classes -> SUBSET Ids] /\ s.class[i] \in Classes
      /\ s.queued_ops \subseteq Identities
  BY DEF GovernedState
<1>6. g.queue \in [Classes -> SUBSET Ids]
  BY <1>2, <1>5 DEF put
<1>7. g.queued_ops \subseteq Identities
  BY <1>2, <1>5
<1>8. GovernedState(g)
  BY <1>2, <1>3, <1>4, <1>6, <1>7
     DEF GovernedState, SameRequests, SamePermits, SameLedgers, SameTickets, SameTotals,
         SameIndexes, SameFlags
<1> QED BY <1>2, <1>3, <1>4, <1>8 DEF g

\* vacate_recursion_guard touches only the recursion index.
LEMMA VacateRecursionGuard ==
  ASSUME NEW s, GovernedState(s), NEW sp
  PROVE  LET g == vacate_recursion_guard(s, sp) IN
         /\ GovernedState(g)
         /\ g.recursion = s.recursion \ stages_of(sp) /\ g.op_permit = s.op_permit
         /\ SameRequests(g, s) /\ SamePermits(g, s) /\ SameTickets(g, s) /\ SameQueues(g, s)
         /\ SameLedgers(g, s) /\ SameTotals(g, s)
         /\ SameFlags(g, s) /\ g.issued = s.issued /\ g.wake = s.wake
<1> DEFINE g == vacate_recursion_guard(s, sp)
<1>1. DOMAIN s = DOMAIN Empty
  BY DEF GovernedState
<1>2. /\ DOMAIN g = DOMAIN Empty /\ g.recursion = s.recursion \ stages_of(sp)
      /\ g.op_permit = s.op_permit /\ g.issued = s.issued /\ g.wake = s.wake
  BY <1>1, FieldNames DEF vacate_recursion_guard
<1>3. /\ SameRequests(g, s) /\ SamePermits(g, s) /\ SameTickets(g, s) /\ SameQueues(g, s)
      /\ SameFlags(g, s)
  BY <1>1, FieldNames
     DEF vacate_recursion_guard, SameRequests, SamePermits, SameTickets, SameQueues, SameFlags
<1>4. SameLedgers(g, s) /\ SameTotals(g, s)
  BY <1>1, FieldNames DEF vacate_recursion_guard, SameLedgers, SameTotals
<1> HIDE DEF g
<1>5. g.recursion \subseteq Roots \X Stages
  <2>1. s.recursion \subseteq Roots \X Stages
    BY DEF GovernedState
  <2> QED BY <1>2, <2>1
<1>6. GovernedState(g)
  BY <1>2, <1>3, <1>4, <1>5
     DEF GovernedState, SameRequests, SamePermits, SameLedgers, SameTickets, SameQueues,
         SameTotals, SameFlags
<1> QED BY <1>2, <1>3, <1>4, <1>6 DEF g

\* A well-typed state stays so if only ticket fields change and are well typed.
LEMMA TicketsRetyped ==
  ASSUME NEW s, NEW g, GovernedState(s), DOMAIN g = DOMAIN Empty,
         SameButTickets(g, s), SameLedgers(g, s),
         g.tickets \in [Ids -> TicketStates], g.terminal_order \in Seq(Ids),
         g.pending_ticket \subseteq Ids, g.claim_waker \subseteq Ids
  PROVE  GovernedState(g)
BY DEF GovernedState, SameButTickets, SameRequests, SameQueues, SameLedgers, SameTotals,
       SameIndexes, SameFlags

\* Replacing the ticket index and the terminal ring by well-typed ones.
LEMMA SetTerminal ==
  ASSUME NEW s, GovernedState(s), NEW f \in [Ids -> TicketStates], NEW q \in Seq(Ids)
  PROVE  LET g == [s EXCEPT !.terminal_order = q, !.tickets = f] IN
         /\ GovernedState(g) /\ SameButTickets(g, s) /\ SameLedgers(g, s)
         /\ TicketFields(g, f, q, s.pending_ticket, s.claim_waker)
<1> DEFINE g == [s EXCEPT !.terminal_order = q, !.tickets = f]
<1>1. DOMAIN s = DOMAIN Empty
  BY DEF GovernedState
<1>2. /\ DOMAIN g = DOMAIN Empty
      /\ g.tickets = f /\ g.terminal_order = q
      /\ g.pending_ticket = s.pending_ticket /\ g.claim_waker = s.claim_waker
      /\ SameLedgers(g, s)
  BY <1>1, FieldNames DEF SameLedgers
<1>3. SameButTickets(g, s)
  BY <1>1, FieldNames, SMT DEF SameButTickets, SameRequests, SameQueues, SameTotals, SameIndexes,
                          SameFlags
<1> HIDE DEF g
<1>4. GovernedState(g)
  <2>1. /\ s.tickets \in [Ids -> TicketStates] /\ s.terminal_order \in Seq(Ids)
        /\ s.pending_ticket \subseteq Ids /\ s.claim_waker \subseteq Ids
    BY DEF GovernedState
  <2>2. /\ g.tickets \in [Ids -> TicketStates] /\ g.terminal_order \in Seq(Ids)
        /\ g.pending_ticket \subseteq Ids /\ g.claim_waker \subseteq Ids
    BY <1>2, <2>1
  <2> QED BY <1>2, <1>3, <2>2, TicketsRetyped
<1>5. TicketFields(g, g.tickets, g.terminal_order, g.pending_ticket, g.claim_waker)
  BY DEF TicketFields
<1> QED BY <1>2, <1>3, <1>4, <1>5 DEF g

\* Replacing the ticket index and the registered wakers by well-typed ones.
LEMMA SetClaimWaker ==
  ASSUME NEW s, GovernedState(s), NEW f \in [Ids -> TicketStates], NEW P \in SUBSET Ids
  PROVE  LET g == [s EXCEPT !.tickets = f, !.claim_waker = P] IN
         /\ GovernedState(g) /\ SameButTickets(g, s) /\ SameLedgers(g, s)
         /\ TicketFields(g, f, s.terminal_order, s.pending_ticket, P)
<1> DEFINE g == [s EXCEPT !.tickets = f, !.claim_waker = P]
<1>1. DOMAIN s = DOMAIN Empty
  BY DEF GovernedState
<1>2. /\ DOMAIN g = DOMAIN Empty
      /\ g.tickets = f /\ g.terminal_order = s.terminal_order
      /\ g.pending_ticket = s.pending_ticket /\ g.claim_waker = P
      /\ SameLedgers(g, s)
  BY <1>1, FieldNames DEF SameLedgers
<1>3. SameButTickets(g, s)
  BY <1>1, FieldNames, SMT DEF SameButTickets, SameRequests, SameQueues, SameTotals, SameIndexes,
                          SameFlags
<1> HIDE DEF g
<1>4. GovernedState(g)
  <2>1. /\ s.tickets \in [Ids -> TicketStates] /\ s.terminal_order \in Seq(Ids)
        /\ s.pending_ticket \subseteq Ids /\ s.claim_waker \subseteq Ids
    BY DEF GovernedState
  <2>2. /\ g.tickets \in [Ids -> TicketStates] /\ g.terminal_order \in Seq(Ids)
        /\ g.pending_ticket \subseteq Ids /\ g.claim_waker \subseteq Ids
    BY <1>2, <2>1
  <2> QED BY <1>2, <1>3, <2>2, TicketsRetyped
<1>5. TicketFields(g, g.tickets, g.terminal_order, g.pending_ticket, g.claim_waker)
  BY DEF TicketFields
<1> QED BY <1>2, <1>3, <1>4, <1>5 DEF g

\* Replacing the ticket index and the bound tickets by well-typed ones.
LEMMA SetPendingTicket ==
  ASSUME NEW s, GovernedState(s), NEW f \in [Ids -> TicketStates], NEW P \in SUBSET Ids
  PROVE  LET g == [s EXCEPT !.tickets = f, !.pending_ticket = P] IN
         /\ GovernedState(g) /\ SameButTickets(g, s) /\ SameLedgers(g, s)
         /\ TicketFields(g, f, s.terminal_order, P, s.claim_waker)
<1> DEFINE g == [s EXCEPT !.tickets = f, !.pending_ticket = P]
<1>1. DOMAIN s = DOMAIN Empty
  BY DEF GovernedState
<1>2. /\ DOMAIN g = DOMAIN Empty
      /\ g.tickets = f /\ g.terminal_order = s.terminal_order
      /\ g.pending_ticket = P /\ g.claim_waker = s.claim_waker
      /\ SameLedgers(g, s)
  BY <1>1, FieldNames DEF SameLedgers
<1>3. SameButTickets(g, s)
  BY <1>1, FieldNames, SMT DEF SameButTickets, SameRequests, SameQueues, SameTotals, SameIndexes,
                          SameFlags
<1> HIDE DEF g
<1>4. GovernedState(g)
  <2>1. /\ s.tickets \in [Ids -> TicketStates] /\ s.terminal_order \in Seq(Ids)
        /\ s.pending_ticket \subseteq Ids /\ s.claim_waker \subseteq Ids
    BY DEF GovernedState
  <2>2. /\ g.tickets \in [Ids -> TicketStates] /\ g.terminal_order \in Seq(Ids)
        /\ g.pending_ticket \subseteq Ids /\ g.claim_waker \subseteq Ids
    BY <1>2, <2>1
  <2> QED BY <1>2, <1>3, <2>2, TicketsRetyped
<1>5. TicketFields(g, g.tickets, g.terminal_order, g.pending_ticket, g.claim_waker)
  BY DEF TicketFields
<1> QED BY <1>2, <1>3, <1>4, <1>5 DEF g

\* record_terminal_ticket, with or without an eviction, changes tickets only.
LEMMA RecordTerminalTicket ==
  ASSUME NEW s, GovernedState(s), NEW i \in Ids, NEW reason \in TerminalReasons
  PROVE  LET g == record_terminal_ticket(s, i, reason) IN
         /\ GovernedState(g) /\ SameButTickets(g, s) /\ SameLedgers(g, s)
         /\ Recorded(g, s, i, reason) /\ SameBindings(g, s)
<1> DEFINE g == record_terminal_ticket(s, i, reason)
           order == Append(unlisted(s.terminal_order, i), i)
           answered == put(s.tickets, i, reason)
           oldest == Head(order)
           evicted == IF answered[oldest] \in TerminalReasons
                      THEN put(answered, oldest, "Unknown") ELSE answered
<1>1. s.terminal_order \in Seq(Ids) /\ s.tickets \in [Ids -> TicketStates]
  BY DEF GovernedState
<1>2. order \in Seq(Ids) /\ order # << >>
  BY <1>1, UnlistedType, AppendProperties, SMT
<1> HIDE DEF order
<1>3. Tail(order) \in Seq(Ids)
  BY <1>2, HeadTailProperties
<1>4. answered \in [Ids -> TicketStates]
  BY <1>1, TicketNames DEF put
<1> HIDE DEF answered
<1>5. evicted \in [Ids -> TicketStates]
  BY <1>4, TicketNames DEF put
<1> HIDE DEF evicted
<1>6. /\ Len(order) <= MaxTerminal =>
           g = [s EXCEPT !.terminal_order = order, !.tickets = answered]
      /\ ~(Len(order) <= MaxTerminal) =>
           g = [s EXCEPT !.terminal_order = Tail(order), !.tickets = evicted]
  BY DEF record_terminal_ticket, order, answered, evicted
<1> HIDE DEF g
<1>7. CASE Len(order) <= MaxTerminal
  <2> DEFINE n == [s EXCEPT !.terminal_order = order, !.tickets = answered]
  <2>1. /\ GovernedState(n) /\ SameButTickets(n, s) /\ SameLedgers(n, s)
        /\ TicketFields(n, answered, order, s.pending_ticket, s.claim_waker)
    BY <1>2, <1>4, SetTerminal
  <2>2. g = n
    BY <1>6, <1>7
  <2> HIDE DEF n
  <2>3. Recorded(g, s, i, reason)
    BY <1>7, <2>1, <2>2, SMT DEF Recorded, TicketFields, order, answered
  <2> QED BY <2>1, <2>2, <2>3 DEF g, TicketFields, SameBindings
<1>8. CASE ~(Len(order) <= MaxTerminal)
  <2> DEFINE n == [s EXCEPT !.terminal_order = Tail(order), !.tickets = evicted]
  <2>1. /\ GovernedState(n) /\ SameButTickets(n, s) /\ SameLedgers(n, s)
        /\ TicketFields(n, evicted, Tail(order), s.pending_ticket, s.claim_waker)
    BY <1>3, <1>5, SetTerminal
  <2>2. g = n
    BY <1>6, <1>8
  <2> HIDE DEF n
  <2>3. Recorded(g, s, i, reason)
    BY <1>8, <2>1, <2>2, SMT DEF Recorded, TicketFields, order, answered, evicted
  <2> QED BY <2>1, <2>2, <2>3 DEF g, TicketFields, SameBindings
<1> QED BY <1>7, <1>8

\* forget_terminal_ticket changes tickets only.
LEMMA ForgetTerminalTicket ==
  ASSUME NEW s, GovernedState(s), NEW i \in Ids
  PROVE  LET g == forget_terminal_ticket(s, i) IN
         /\ GovernedState(g) /\ SameButTickets(g, s) /\ SameLedgers(g, s)
         /\ Forgotten(g, s, i) /\ SameBindings(g, s)
<1> DEFINE q == unlisted(s.terminal_order, i)
           f == IF s.tickets[i] \in TerminalReasons \cup {"Faulted"}
                THEN put(s.tickets, i, "Unknown") ELSE s.tickets
           g == [s EXCEPT !.terminal_order = q, !.tickets = f]
<1>1. s.terminal_order \in Seq(Ids) /\ s.tickets \in [Ids -> TicketStates]
  BY DEF GovernedState
<1>2. q \in Seq(Ids)
  BY <1>1, UnlistedType
<1>3. f \in [Ids -> TicketStates]
  BY <1>1, TicketNames DEF put
<1>4. forget_terminal_ticket(s, i) = g
  BY DEF forget_terminal_ticket
<1> HIDE DEF q, f
<1>5. /\ GovernedState(g) /\ SameButTickets(g, s) /\ SameLedgers(g, s)
      /\ TicketFields(g, f, q, s.pending_ticket, s.claim_waker)
  BY <1>2, <1>3, SetTerminal
<1> HIDE DEF g
<1>6. Forgotten(g, s, i) /\ SameBindings(g, s)
  BY <1>5 DEF Forgotten, SameBindings, TicketFields, q, f
<1> QED BY <1>4, <1>5, <1>6

\* Removing a ticket from the index changes tickets only.
LEMMA RemoveTicket ==
  ASSUME NEW s, GovernedState(s), NEW i \in Ids
  PROVE  LET g == remove_ticket(s, i) IN
         /\ GovernedState(g) /\ SameButTickets(g, s) /\ SameLedgers(g, s)
         /\ g.tickets = put(s.tickets, i, "Unknown") /\ g.terminal_order = s.terminal_order
         /\ SameBindings(g, s)
<1> DEFINE f == put(s.tickets, i, "Unknown")
           q == s.terminal_order
<1>1. s.tickets \in [Ids -> TicketStates] /\ q \in Seq(Ids) /\ DOMAIN s = DOMAIN Empty
  BY DEF GovernedState
<1>2. f \in [Ids -> TicketStates]
  BY <1>1, TicketNames DEF put
<1>3. remove_ticket(s, i) = [s EXCEPT !.tickets = f]
  BY DEF remove_ticket
<1> HIDE DEF f
<1>4. [s EXCEPT !.tickets = f] = [s EXCEPT !.terminal_order = q, !.tickets = f]
  BY <1>1, FieldNames
<1> HIDE DEF q
<1>5. LET g == [s EXCEPT !.terminal_order = q, !.tickets = f] IN
      /\ GovernedState(g) /\ SameButTickets(g, s) /\ SameLedgers(g, s)
      /\ TicketFields(g, f, q, s.pending_ticket, s.claim_waker)
  BY <1>1, <1>2, SetTerminal
<1> QED BY <1>3, <1>4, <1>5 DEF TicketFields, SameBindings, f, q

\* Refreshing a permit's activity time changes nothing else.
LEMMA TouchType ==
  ASSUME NEW s, GovernedState(s), NEW i \in Ids
  PROVE  LET g == touch(s, i) IN
         /\ GovernedState(g) /\ SameButTickets(g, s) /\ SameTickets(g, s) /\ SamePermits(g, s)
         /\ g.units = s.units /\ g.remaining = s.remaining /\ g.mseq = s.mseq
         /\ g.sseq = s.sseq
         /\ \E w \in Nat : w >= s.touched[i] /\ g.touched = put(s.touched, i, w)
<1> DEFINE g == touch(s, i)
           w == Max({s.touched[i], s.watermark})
<1>1. /\ put(s.touched, i, w) \in [Ids -> Nat]
      /\ w \in Nat /\ w >= s.touched[i]
  <2>1. s.touched \in [Ids -> Nat] /\ s.touched[i] \in Nat /\ s.watermark \in Nat
    BY DEF GovernedState
  <2>2. w \in Nat /\ w >= s.touched[i]
    BY <2>1, Extrema, SMT
  <2> QED BY <2>1, <2>2 DEF put
<1>2. DOMAIN s = DOMAIN Empty
  BY DEF GovernedState
<1>3. /\ DOMAIN g = DOMAIN Empty
      /\ g.touched = put(s.touched, i, w)
      /\ g.units = s.units /\ g.remaining = s.remaining /\ g.mseq = s.mseq
      /\ g.sseq = s.sseq
  BY <1>2, FieldNames DEF touch
<1>4. SameButTickets(g, s)
  BY <1>2, FieldNames, SMT DEF touch, SameButTickets, SameRequests, SameQueues, SameTotals,
                          SameIndexes, SameFlags
<1>5. SameTickets(g, s) /\ SamePermits(g, s)
  BY <1>2, FieldNames DEF touch, SameTickets, SamePermits
<1> HIDE DEF g, w
<1>6. GovernedState(g)
  BY <1>1, <1>3, <1>4, <1>5
     DEF GovernedState, SameButTickets, SameRequests, SameQueues, SameTotals, SameIndexes,
         SameFlags, SameTickets, SamePermits
<1> QED BY <1>1, <1>3, <1>4, <1>5, <1>6 DEF g

\* The first half of claim takes the ticket and its waker.
LEMMA BeginClaim ==
  ASSUME NEW s, GovernedState(s), NEW i \in Ids
  PROVE  LET g == begin_claim(s, i) IN
         /\ GovernedState(g) /\ SameButTickets(g, s)
         /\ g.tickets = put(s.tickets, i, "Claiming") /\ g.terminal_order = s.terminal_order
         /\ g.pending_ticket = s.pending_ticket /\ g.claim_waker = s.claim_waker \ {i}
         /\ g.units = s.units /\ g.remaining = s.remaining /\ g.mseq = s.mseq
         /\ g.sseq = s.sseq
         /\ \E w \in Nat : w >= s.touched[i] /\ g.touched = put(s.touched, i, w)
<1> DEFINE t == touch(s, i)
           f == put(s.tickets, i, "Claiming")
           P == s.claim_waker \ {i}
           g == [t EXCEPT !.tickets = f, !.claim_waker = P]
<1>1. /\ GovernedState(t) /\ SameButTickets(t, s) /\ SameTickets(t, s) /\ SamePermits(t, s)
      /\ t.units = s.units /\ t.remaining = s.remaining /\ t.mseq = s.mseq
      /\ t.sseq = s.sseq
      /\ \E w \in Nat : w >= s.touched[i] /\ t.touched = put(s.touched, i, w)
  BY TouchType
<1>2. f \in [Ids -> TicketStates] /\ P \in SUBSET Ids
  BY TicketNames DEF put, GovernedState
<1>3. begin_claim(s, i) = g
  BY DEF begin_claim
<1> HIDE DEF t, f, P
<1>4. /\ GovernedState(g) /\ SameButTickets(g, t) /\ SameLedgers(g, t)
      /\ TicketFields(g, f, t.terminal_order, t.pending_ticket, P)
  <2>1. GovernedState(t)
    BY <1>1
  <2> QED BY <1>2, <2>1, SetClaimWaker
<1> HIDE DEF g
<1>5. SameButTickets(g, s)
  BY <1>1, <1>4
     DEF SameButTickets, SameRequests, SameQueues, SameTotals, SameIndexes, SameFlags
<1> QED BY <1>1, <1>3, <1>4, <1>5
           DEF TicketFields, SameLedgers, SameTickets, SamePermits, f, P

\* The second half passes custody of the permit to the caller.
LEMMA FinishClaim ==
  ASSUME NEW s, GovernedState(s), NEW i \in Ids
  PROVE  LET g == finish_claim(s, i) IN
         /\ GovernedState(g) /\ SameButTickets(g, s)
         /\ g.tickets = put(s.tickets, i, "Unknown") /\ g.terminal_order = s.terminal_order
         /\ g.pending_ticket = s.pending_ticket \ {i} /\ g.claim_waker = s.claim_waker
         /\ g.units = s.units /\ g.remaining = s.remaining /\ g.mseq = s.mseq
         /\ g.sseq = s.sseq
         /\ \E w \in Nat : w >= s.touched[i] /\ g.touched = put(s.touched, i, w)
<1> DEFINE t == touch(s, i)
           f == put(s.tickets, i, "Unknown")
           P == s.pending_ticket \ {i}
           g == [t EXCEPT !.tickets = f, !.pending_ticket = P]
<1>1. /\ GovernedState(t) /\ SameButTickets(t, s) /\ SameTickets(t, s) /\ SamePermits(t, s)
      /\ t.units = s.units /\ t.remaining = s.remaining /\ t.mseq = s.mseq
      /\ t.sseq = s.sseq
      /\ \E w \in Nat : w >= s.touched[i] /\ t.touched = put(s.touched, i, w)
  BY TouchType
<1>2. f \in [Ids -> TicketStates] /\ P \in SUBSET Ids
  BY TicketNames DEF put, GovernedState
<1>3. finish_claim(s, i) = g
  BY DEF finish_claim
<1> HIDE DEF t, f, P
<1>4. /\ GovernedState(g) /\ SameButTickets(g, t) /\ SameLedgers(g, t)
      /\ TicketFields(g, f, t.terminal_order, P, t.claim_waker)
  <2>1. GovernedState(t)
    BY <1>1
  <2> QED BY <1>2, <2>1, SetPendingTicket
<1> HIDE DEF g
<1>5. SameButTickets(g, s)
  BY <1>1, <1>4
     DEF SameButTickets, SameRequests, SameQueues, SameTotals, SameIndexes, SameFlags
<1> QED BY <1>1, <1>3, <1>4, <1>5
           DEF TicketFields, SameLedgers, SameTickets, SamePermits, f, P

\* Neither half of claim touches permits, phases, leases or queues.
LEMMA ClaimHalves ==
  ASSUME NEW s, GovernedState(s), NEW i \in Ids
  PROVE  /\ GovernedState(begin_claim(s, i)) /\ SameButTickets(begin_claim(s, i), s)
         /\ GovernedState(finish_claim(s, i)) /\ SameButTickets(finish_claim(s, i), s)
BY BeginClaim, FinishClaim

\* The effects collected for the host are separate from everything else.
LEMMA SetWake ==
  ASSUME NEW s, GovernedState(s), NEW W \in SUBSET Ids
  PROVE  LET g == [s EXCEPT !.wake = W] IN
         /\ GovernedState(g)
         /\ SameRequests(g, s) /\ SamePermits(g, s) /\ SameTickets(g, s) /\ SameQueues(g, s)
         /\ SameLedgers(g, s) /\ SameFlags(g, s) /\ g.issued = s.issued
         /\ SameTotals(g, s) /\ SameIndexes(g, s) /\ g.wake = W
<1> DEFINE g == [s EXCEPT !.wake = W]
<1>1. DOMAIN s = DOMAIN Empty
  BY DEF GovernedState
<1>2. /\ SameRequests(g, s) /\ SamePermits(g, s) /\ SameTickets(g, s) /\ SameQueues(g, s)
      /\ SameLedgers(g, s) /\ SameFlags(g, s) /\ g.issued = s.issued
  BY <1>1, FieldNames, SMT DEF SameRequests, SamePermits, SameTickets, SameQueues, SameLedgers,
                          SameFlags
<1>3. SameTotals(g, s) /\ SameIndexes(g, s) /\ g.wake = W
  BY <1>1, FieldNames, SMT DEF SameTotals, SameIndexes
<1>4. GovernedState(g)
  BY FieldNames, ZenonT(30), SMT DEF GovernedState
<1> QED BY <1>2, <1>3, <1>4

\* A permit ends without a lease, and its ticket is answered.
LEMMA Unwind ==
  ASSUME NEW s, GovernedState(s), NEW i \in Ids, NEW reason \in TerminalReasons
  PROVE  LET g == unwind(s, i, reason) IN GovernedState(g) /\ Unwound(g, s, i, reason)
<1> DEFINE f == refund(s, i)
           r == record_terminal_ticket(f, i, reason)
           w == IF i \in s.claim_waker THEN s.wake \cup {i} ELSE s.wake
           g == [r EXCEPT !.wake = w]
<1>1. /\ GovernedState(f) /\ Ended(f, s, i)
      /\ f.class = put(s.class, i, AnyClass) /\ f.permits = s.permits \ {i}
      /\ f.phase = put(s.phase, i, "DispatchReserved") /\ f.nonce = put(s.nonce, i, None)
      /\ SameQueues(f, s) /\ SameFlags(f, s) /\ SameTickets(f, s)
      /\ f.issued = s.issued /\ f.minted = s.minted /\ f.wake = s.wake
  BY Refund
<1>2. w \in SUBSET Ids
  BY DEF GovernedState
<1>3. i \in s.pending_ticket => unwind(s, i, reason) = g
  BY DEF unwind
<1>4. i \notin s.pending_ticket => unwind(s, i, reason) = f
  BY DEF unwind
<1> HIDE DEF f
<1>5. /\ GovernedState(r) /\ SameButTickets(r, f) /\ SameLedgers(r, f)
      /\ Recorded(r, f, i, reason) /\ SameBindings(r, f)
  BY <1>1, RecordTerminalTicket
<1> HIDE DEF r, w
<1>6. /\ GovernedState(g) /\ SameRequests(g, r) /\ SamePermits(g, r) /\ SameTickets(g, r)
      /\ SameQueues(g, r) /\ SameLedgers(g, r) /\ SameFlags(g, r) /\ g.issued = r.issued
      /\ SameTotals(g, r) /\ SameIndexes(g, r) /\ g.wake = w
  BY <1>2, <1>5, SetWake
<1> HIDE DEF g
<1>7. /\ SameRequests(g, f) /\ SameLedgers(g, f) /\ SameTotals(g, f) /\ SameIndexes(g, f)
      /\ SamePermits(g, f)
  BY <1>5, <1>6
     DEF SameButTickets, SameBindings, SameRequests, SamePermits, SameLedgers, SameTotals,
         SameIndexes
<1>8. Ended(g, s, i)
  BY <1>1, <1>7
     DEF Ended, SameRequests, SamePermits, SameLedgers, SameTotals, SameIndexes
<1>9. Recorded(g, s, i, reason)
  BY <1>1, <1>5, <1>6 DEF Recorded, SameTickets
<1>10. SameQueues(g, s) /\ SameFlags(g, s) /\ g.issued = s.issued
  BY <1>1, <1>5, <1>6 DEF SameButTickets, SameQueues, SameFlags
<1>11. CASE i \in s.pending_ticket
  BY <1>1, <1>3, <1>6, <1>7, <1>8, <1>9, <1>10, <1>11
     DEF Unwound, SameRequests, SamePermits, w
<1>12. CASE i \notin s.pending_ticket
  BY <1>1, <1>4, <1>12 DEF Unwound
<1> QED BY <1>11, <1>12

\* A queued request is granted.
LEMMA PromoteOne_ ==
  ASSUME NEW s, GovernedState(s), NEW i \in Ids
  PROVE  LET g == promote_one(s, i) IN GovernedState(g) /\ PromotedAs(g, s, i)
<1> DEFINE sp == s.spec[i]
           c == s.class[i]
           parent == IF s.parent[i] # None THEN s.parent[i]
                     ELSE parent_permit_for_scope(s, sp)
           r == remove_pending(s, i)
           t == grant(r, i, sp, c, parent, TRUE)
           w == IF sp.waker THEN s.wake \cup {i} ELSE s.wake
           g == [t EXCEPT !.wake = w]
<1>1. /\ sp \in Specs /\ c \in Classes /\ s.parent[i] \in Ids \cup {None}
      /\ w \in SUBSET Ids
  BY DEF GovernedState
<1>2. parent \in Ids \cup {None}
  BY <1>1, ParentType
<1>3. /\ GovernedState(r) /\ SameRequests(r, s) /\ SamePermits(r, s) /\ SameFlags(r, s)
      /\ SameTickets(r, s) /\ SameLedgers(r, s) /\ SameTotals(r, s) /\ SameIndexes(r, s)
      /\ r.queue = put(s.queue, c, s.queue[c] \ {i}) /\ r.issued = s.issued
      /\ r.queued_ops = s.queued_ops \ {identity(sp)}
  BY RemovePending
<1>4. promote_one(s, i) = g
  BY DEF promote_one
<1> HIDE DEF r, parent, w, sp, c
<1>5. /\ GovernedState(t) /\ Opened(t, r, i, sp, c)
      /\ t.nonce = put(r.nonce, i, None)
      /\ SameQueues(t, r) /\ SameFlags(t, r) /\ t.issued = r.issued /\ t.minted = r.minted
      /\ Bound(t, r, i, sp, TRUE)
  <2>1. ASSUME NEW b \in BOOLEAN
        PROVE  LET h == grant(r, i, sp, c, parent, b) IN
               GovernedState(h) /\ Granting(h, r, i, sp, c, parent, b)
    <3>1. GovernedState(r)
      BY <1>3
    <3>2. sp \in Specs /\ c \in Classes
      BY <1>1
    <3> QED BY <1>2, <3>1, <3>2, Grant
  <2>2. GovernedState(t) /\ Granting(t, r, i, sp, c, parent, TRUE)
    BY <2>1
  <2> QED BY <2>2 DEF Granting
<1>6. /\ t.tickets = put(r.tickets, i, "Granted") /\ t.terminal_order = r.terminal_order
      /\ t.pending_ticket = r.pending_ticket \cup {i}
      /\ t.claim_waker = IF sp.waker THEN r.claim_waker \cup {i} ELSE r.claim_waker
  <2> HIDE DEF t
  <2> QED BY <1>5, ZenonT(30), SMT DEF Bound
<1> HIDE DEF t
<1>7. /\ GovernedState(g) /\ SameRequests(g, t) /\ SamePermits(g, t) /\ SameQueues(g, t)
      /\ SameTickets(g, t) /\ SameLedgers(g, t) /\ SameTotals(g, t) /\ SameIndexes(g, t)
      /\ SameFlags(g, t) /\ g.issued = t.issued /\ g.wake = w
  BY <1>1, <1>5, SetWake
<1> HIDE DEF g
<1>8. Opened(g, r, i, sp, c)
  BY <1>5, <1>7
     DEF Opened, SameRequests, SamePermits, SameLedgers, SameTotals, SameIndexes
<1>9. Opened(g, s, i, sp, c)
  BY <1>3, <1>8
     DEF Opened, SameRequests, SamePermits, SameLedgers, SameTotals, SameIndexes
<1>11. /\ g.queue = put(s.queue, c, s.queue[c] \ {i})
       /\ g.queued_ops = s.queued_ops \ {identity(sp)}
       /\ SameFlags(g, s) /\ g.issued = s.issued
  BY <1>3, <1>5, <1>7 DEF SameQueues, SameFlags
<1>12. /\ g.nonce = put(s.nonce, i, None) /\ g.minted = s.minted
       /\ g.tickets = put(s.tickets, i, "Granted") /\ g.terminal_order = s.terminal_order
       /\ g.pending_ticket = s.pending_ticket \cup {i}
       /\ g.claim_waker = IF sp.waker THEN s.claim_waker \cup {i} ELSE s.claim_waker
  BY <1>3, <1>5, <1>6, <1>7 DEF SamePermits, SameTickets
<1> QED BY <1>4, <1>7, <1>9, <1>11, <1>12 DEF PromotedAs, sp, c, w

\* A queued request is dropped from every index.
LEMMA Dequeue ==
  ASSUME NEW s, GovernedState(s), NEW i \in Ids
  PROVE  LET g == drop_request(vacate_recursion_guard(remove_pending(s, i), s.spec[i]), i) IN
         /\ GovernedState(g) /\ Unqueued(g, s, i) /\ SameTickets(g, s)
         /\ g.queue = put(s.queue, s.class[i], s.queue[s.class[i]] \ {i})
         /\ g.class = put(s.class, i, AnyClass)
         /\ SamePermits(g, s) /\ SameFlags(g, s) /\ g.issued = s.issued /\ g.wake = s.wake
<1> DEFINE sp == s.spec[i]
           r == remove_pending(s, i)
           v == vacate_recursion_guard(r, sp)
           d == drop_request(v, i)
<1>1. /\ GovernedState(r) /\ SameRequests(r, s) /\ SamePermits(r, s) /\ SameFlags(r, s)
      /\ SameTickets(r, s) /\ SameLedgers(r, s) /\ SameTotals(r, s) /\ SameIndexes(r, s)
      /\ r.queue = put(s.queue, s.class[i], s.queue[s.class[i]] \ {i})
      /\ r.queued_ops = s.queued_ops \ {identity(sp)}
      /\ r.issued = s.issued /\ r.wake = s.wake
  BY RemovePending
<1> HIDE DEF r, sp
<1>2. /\ GovernedState(v) /\ SameRequests(v, r) /\ SamePermits(v, r) /\ SameQueues(v, r)
      /\ v.recursion = r.recursion \ stages_of(sp) /\ v.op_permit = r.op_permit
      /\ SameTickets(v, r) /\ SameLedgers(v, r) /\ SameTotals(v, r)
      /\ SameFlags(v, r) /\ v.issued = r.issued /\ v.wake = r.wake
  BY <1>1, VacateRecursionGuard
<1> HIDE DEF v
<1>3. /\ GovernedState(d) /\ d.class = put(v.class, i, AnyClass)
      /\ d.spec = put(v.spec, i, AnySpec) /\ d.parent = put(v.parent, i, None)
      /\ SamePermits(d, v) /\ SameQueues(d, v) /\ SameFlags(d, v)
      /\ SameTickets(d, v) /\ SameLedgers(d, v) /\ SameTotals(d, v) /\ SameIndexes(d, v)
      /\ d.issued = v.issued /\ d.wake = v.wake
  BY <1>2, DropRequest
<1> HIDE DEF d
<1>4. /\ SamePermits(d, s) /\ SameFlags(d, s) /\ SameTickets(d, s)
      /\ d.issued = s.issued /\ d.wake = s.wake
  BY <1>1, <1>2, <1>3 DEF SamePermits, SameFlags, SameTickets
<1>5. SameLedgers(d, s) /\ SameTotals(d, s)
  BY <1>1, <1>2, <1>3 DEF SameLedgers, SameTotals
<1>6. /\ d.spec = put(s.spec, i, AnySpec) /\ d.class = put(s.class, i, AnyClass)
      /\ d.parent = put(s.parent, i, None)
      /\ d.queue = put(s.queue, s.class[i], s.queue[s.class[i]] \ {i})
      /\ d.queued_ops = s.queued_ops \ {identity(sp)}
      /\ d.recursion = s.recursion \ stages_of(sp) /\ d.op_permit = s.op_permit
  BY <1>1, <1>2, <1>3 DEF SameRequests, SameQueues, SameIndexes
<1>7. Unqueued(d, s, i)
  BY <1>4, <1>5, <1>6 DEF Unqueued, sp
<1> QED BY <1>3, <1>4, <1>6, <1>7 DEF d, v, r, sp

\* A queued request whose wait closes a cycle is answered.
LEMMA TerminalizeWaitCycle ==
  ASSUME NEW s, GovernedState(s), NEW i \in Ids
  PROVE  LET g == terminalize_wait_cycle(s, i) IN GovernedState(g) /\ CycleEnded(g, s, i)
<1> DEFINE d == drop_request(vacate_recursion_guard(remove_pending(s, i), s.spec[i]), i)
           u == record_terminal_ticket(d, i, "WaitCycle")
           w == IF s.spec[i].waker THEN s.wake \cup {i} ELSE s.wake
           g == [u EXCEPT !.wake = w]
<1>1. /\ GovernedState(d) /\ Unqueued(d, s, i) /\ SameTickets(d, s)
      /\ SameFlags(d, s) /\ d.issued = s.issued
  BY Dequeue
<1>2. w \in SUBSET Ids
  BY DEF GovernedState
<1>3. terminalize_wait_cycle(s, i) = g
  BY DEF terminalize_wait_cycle
<1> HIDE DEF d, w
<1>4. /\ GovernedState(u) /\ SameButTickets(u, d) /\ SameLedgers(u, d)
      /\ Recorded(u, d, i, "WaitCycle") /\ SameBindings(u, d)
  <2>1. "WaitCycle" \in TerminalReasons
    BY DEF TerminalReasons
  <2> QED BY <1>1, <2>1, RecordTerminalTicket
<1> HIDE DEF u
<1>5. /\ GovernedState(g) /\ SameRequests(g, u) /\ SamePermits(g, u) /\ SameQueues(g, u)
      /\ SameTickets(g, u) /\ SameLedgers(g, u) /\ SameTotals(g, u) /\ SameIndexes(g, u)
      /\ SameFlags(g, u) /\ g.issued = u.issued /\ g.wake = w
  BY <1>2, <1>4, SetWake
<1> HIDE DEF g
<1>6. SamePermits(g, s) /\ SameLedgers(g, s) /\ SameTotals(g, s)
  BY <1>1, <1>4, <1>5
     DEF Unqueued, SameButTickets, SameBindings, SamePermits, SameLedgers, SameTotals
<1>7. Unqueued(g, s, i)
  BY <1>1, <1>4, <1>5, <1>6
     DEF Unqueued, SameButTickets, SameRequests, SameQueues, SameIndexes
<1>8. Recorded(g, s, i, "WaitCycle")
  BY <1>1, <1>4, <1>5 DEF Recorded, SameTickets
<1>9. SameFlags(g, s) /\ g.issued = s.issued
  BY <1>1, <1>4, <1>5 DEF SameButTickets, SameFlags
<1> QED BY <1>3, <1>5, <1>6, <1>7, <1>8, <1>9 DEF CycleEnded, w

\* terminalize_queued_for_accounting_fault empties the queues; permits are untouched.
LEMMA TerminalizeQueued ==
  ASSUME NEW s, GovernedState(s)
  PROVE  LET g == terminalize_queued_for_accounting_fault(s) IN
         /\ GovernedState(g) /\ Emptied(g, s)
         /\ g.queue = [c \in Classes |-> {}] /\ SamePermits(g, s)
         /\ g.fault = s.fault /\ g.issued = s.issued
         /\ g.wake = s.wake \cup {i \in Queued(s) : s.spec[i].waker}
<1> DEFINE g == terminalize_queued_for_accounting_fault(s)
           gone == Queued(s)
           without(f, x) == [i \in Ids |-> IF i \in gone THEN x ELSE f[i]]
<1>1. DOMAIN s = DOMAIN Empty
  BY DEF GovernedState
<1>2. DOMAIN g = DOMAIN Empty
  BY <1>1, FieldNames DEF terminalize_queued_for_accounting_fault
<1>3. /\ g.queue = [c \in Classes |-> {}] /\ g.queued_ops = {}
      /\ g.recursion = s.recursion \ UNION {stages_of(s.spec[i]) : i \in gone}
      /\ g.tickets = without(s.tickets, "Faulted")
      /\ g.wake = s.wake \cup {i \in gone : s.spec[i].waker}
      /\ g.spec = without(s.spec, AnySpec) /\ g.class = without(s.class, AnyClass)
      /\ g.parent = without(s.parent, None) /\ g.promotion_pending = FALSE
  BY <1>1, FieldNames, SMT DEF terminalize_queued_for_accounting_fault
<1>4. /\ SamePermits(g, s) /\ SameLedgers(g, s) /\ SameTotals(g, s)
      /\ g.op_permit = s.op_permit /\ g.terminal_order = s.terminal_order
      /\ g.watermark = s.watermark /\ g.fault = s.fault /\ g.closed = s.closed
      /\ g.issued = s.issued
  BY <1>1, FieldNames, SMT
     DEF terminalize_queued_for_accounting_fault, SamePermits, SameLedgers, SameTotals
<1> HIDE DEF g
<1>5. /\ s.spec \in [Ids -> Specs] /\ s.class \in [Ids -> Classes]
      /\ s.parent \in [Ids -> Ids \cup {None}] /\ s.tickets \in [Ids -> TicketStates]
      /\ s.wake \subseteq Ids /\ s.recursion \subseteq Roots \X Stages
  BY DEF GovernedState
<1>6. gone \subseteq Ids
  BY QueuedIn
<1>7. Emptied(g, s)
  BY <1>3, <1>4 DEF Emptied
<1> HIDE DEF gone
<1>8. /\ g.spec \in [Ids -> Specs] /\ g.class \in [Ids -> Classes]
      /\ g.parent \in [Ids -> Ids \cup {None}]
  BY <1>3, <1>5, AnyInSpecs, SMT
<1>9. g.tickets \in [Ids -> TicketStates]
  BY <1>3, <1>5, TicketNames, SMT
<1>10. g.wake \subseteq Ids /\ g.recursion \subseteq Roots \X Stages
  BY <1>3, <1>5, <1>6
<1>11. GovernedState(g)
  BY <1>2, <1>3, <1>4, <1>8, <1>9, <1>10
     DEF GovernedState, SamePermits, SameLedgers, SameTotals
<1> QED BY <1>3, <1>4, <1>7, <1>11 DEF g, gone

\* memory::effective_units is a unit count.
LEMMA UnitsType ==
  ASSUME NEW c \in Classes, NEW remaining \in Nat, NEW bytes \in Nat
  PROVE  effective_units(Policy[c].mode, remaining, bytes) \in Nat
<1>1. units_for(bytes) \in Nat
  BY BudgetAssumption, SMT DEF units_for, div_ceil
<1>2. Max({remaining, units_for(bytes)}) \in Nat
  BY <1>1, Extrema, SMT
<1>3. Policy[c].mode \in {"Estimated", "Measured", "Hybrid"}
  BY PolicyFields
<1> QED BY <1>1, <1>2, <1>3 DEF effective_units

\* memory::apply_memory_delta keeps every total a count: one that would go negative
\* stays.
LEMMA ApplyMemoryDelta ==
  ASSUME NEW s, GovernedState(s), NEW i \in Ids, NEW delta \in Int
  PROVE  LET g == apply_memory_delta(s, i, delta) IN
         GovernedState(g) /\ SameWork(g, s) /\ SameLedgers(g, s) /\ Shifted(g, s, i, delta)
<1> DEFINE g == apply_memory_delta(s, i, delta)
           c == s.class[i]
           r == s.spec[i].root
           child == s.spec[i].child
           fits(total) == total + delta >= 0
           shifted(total) == IF fits(total) THEN total + delta ELSE total
           root == IF child THEN shifted(s.root_mem[r]) ELSE s.root_mem[r]
<1>1. DOMAIN s = DOMAIN Empty
  BY DEF GovernedState
<1>2. DOMAIN g = DOMAIN Empty
  BY <1>1, FieldNames DEF apply_memory_delta
<1>3. /\ g.mem = shifted(s.mem) /\ g.mem_held = put(s.mem_held, c, shifted(s.mem_held[c]))
      /\ g.root_mem = put(s.root_mem, r, root)
      /\ g.fault = (\/ s.fault \/ ~fits(s.mem) \/ ~fits(s.mem_held[c])
                    \/ child /\ ~fits(s.root_mem[r]))
  BY <1>1, FieldNames DEF apply_memory_delta
<1>4. /\ SameWork(g, s) /\ SameLedgers(g, s) /\ SameIndexes(g, s)
      /\ g.inflight = s.inflight /\ g.admitted = s.admitted /\ g.started = s.started
      /\ g.terminated = s.terminated /\ g.gauge = s.gauge /\ g.cpu_held = s.cpu_held
      /\ g.cpu = s.cpu /\ g.in_use = s.in_use /\ g.child_inflight = s.child_inflight
      /\ g.root_cpu = s.root_cpu /\ g.watermark = s.watermark /\ g.closed = s.closed
      /\ g.promotion_pending = s.promotion_pending
  BY <1>1, FieldNames, SMT
     DEF apply_memory_delta, SameWork, SameRequests, SamePermits, SameTickets, SameQueues,
         SameLedgers, SameIndexes
<1>5. /\ s.mem \in Nat /\ s.mem_held \in [Classes -> Nat] /\ s.root_mem \in [Roots -> Nat]
      /\ c \in Classes /\ s.spec[i] \in Specs
  BY DEF GovernedState
<1>6. r \in Roots
  BY <1>5, SpecFields
<1>12. Shifted(g, s, i, delta)
  <2> HIDE DEF g
  <2> QED BY <1>3, <1>4 DEF Shifted
<1> HIDE DEF g, c, r, child
<1>7. ASSUME NEW total \in Nat PROVE shifted(total) \in Nat
  BY SMT
<1>8. shifted(s.mem) \in Nat /\ shifted(s.mem_held[c]) \in Nat /\ root \in Nat
  BY <1>5, <1>6, <1>7
<1> HIDE DEF shifted, root
<1>9. /\ g.mem \in Nat /\ g.mem_held \in [Classes -> Nat] /\ g.root_mem \in [Roots -> Nat]
  BY <1>3, <1>5, <1>8 DEF put
<1>10. g.fault \in BOOLEAN
  BY <1>3
<1>11. GovernedState(g)
  BY <1>2, <1>4, <1>9, <1>10
     DEF GovernedState, SameWork, SameRequests, SamePermits, SameTickets, SameQueues,
         SameLedgers, SameIndexes
<1> QED BY <1>4, <1>11, <1>12 DEF g

\* Replacing the reading sequence and the charge of the ledgers by well-typed ones.
LEMMA SetReading ==
  ASSUME NEW s, GovernedState(s), NEW m \in [Ids -> Nat], NEW n \in [Ids -> Nat]
  PROVE  LET g == [s EXCEPT !.mseq = m, !.units = n] IN
         /\ GovernedState(g) /\ SameWork(g, s)
         /\ LedgerFields(g, n, s.remaining, m, s.sseq, s.touched)
         /\ SameTotals(g, s) /\ SameIndexes(g, s) /\ SameFlags(g, s)
<1> DEFINE g == [s EXCEPT !.mseq = m, !.units = n]
<1>1. DOMAIN s = DOMAIN Empty
  BY DEF GovernedState
<1>2. DOMAIN g = DOMAIN Empty
  BY <1>1
<1>3. /\ g.mseq = m /\ g.units = n /\ g.remaining = s.remaining /\ g.sseq = s.sseq
      /\ g.touched = s.touched
      /\ SameTotals(g, s) /\ SameIndexes(g, s) /\ SameFlags(g, s)
  BY <1>1, FieldNames, SMT DEF SameTotals, SameIndexes, SameFlags
<1>4. SameWork(g, s)
  BY <1>1, FieldNames DEF SameWork, SameRequests, SamePermits, SameTickets, SameQueues
<1> HIDE DEF g
<1>5. GovernedState(g)
  BY <1>2, <1>3, <1>4
     DEF GovernedState, SameWork, SameRequests, SamePermits, SameTickets, SameQueues,
         SameTotals, SameIndexes, SameFlags
<1>6. LedgerFields(g, g.units, g.remaining, g.mseq, g.sseq, g.touched)
  BY DEF LedgerFields
<1> QED BY <1>3, <1>4, <1>5, <1>6 DEF g

\* Replacing the stage sequence, charge and reservation by well-typed ones.
LEMMA SetStage ==
  ASSUME NEW s, GovernedState(s), NEW q \in [Ids -> Nat], NEW n \in [Ids -> Nat],
         NEW m \in [Ids -> Nat]
  PROVE  LET g == [s EXCEPT !.sseq = q, !.units = n, !.remaining = m] IN
         /\ GovernedState(g) /\ SameWork(g, s)
         /\ LedgerFields(g, n, m, s.mseq, q, s.touched)
         /\ SameTotals(g, s) /\ SameIndexes(g, s) /\ SameFlags(g, s)
<1> DEFINE g == [s EXCEPT !.sseq = q, !.units = n, !.remaining = m]
<1>1. DOMAIN s = DOMAIN Empty
  BY DEF GovernedState
<1>2. DOMAIN g = DOMAIN Empty
  BY <1>1
<1>3. /\ g.mseq = s.mseq /\ g.units = n /\ g.remaining = m /\ g.sseq = q
      /\ g.touched = s.touched
      /\ SameTotals(g, s) /\ SameIndexes(g, s) /\ SameFlags(g, s)
  BY <1>1, FieldNames, SMT DEF SameTotals, SameIndexes, SameFlags
<1>4. SameWork(g, s)
  BY <1>1, FieldNames DEF SameWork, SameRequests, SamePermits, SameTickets, SameQueues
<1> HIDE DEF g
<1>5. GovernedState(g)
  BY <1>2, <1>3, <1>4
     DEF GovernedState, SameWork, SameRequests, SamePermits, SameTickets, SameQueues,
         SameTotals, SameIndexes, SameFlags
<1>6. LedgerFields(g, g.units, g.remaining, g.mseq, g.sseq, g.touched)
  BY DEF LedgerFields
<1> QED BY <1>3, <1>4, <1>5, <1>6 DEF g

\* The shift starts from the totals of any state with the same ones.
LEMMA ShiftedFrom ==
  ASSUME NEW g, NEW l, NEW s, NEW i, NEW delta, Shifted(g, l, i, delta),
         SameTotals(l, s), SameIndexes(l, s), SameRequests(l, s), l.fault = s.fault
  PROVE  Shifted(g, s, i, delta)
BY DEF Shifted, SameTotals, SameIndexes, SameRequests

\* memory::reconcile moves memory and nothing else.
LEMMA ReconcileType ==
  ASSUME NEW s, GovernedState(s), NEW i \in Ids, NEW bytes \in Nat, NEW sequence \in Nat
  PROVE  LET g == reconcile(s, i, bytes, sequence) IN
         /\ GovernedState(g) /\ SameWork(g, s)
         /\ \E u \in Nat : Reconciled(g, s, i, sequence, u)
<1> DEFINE t == touch(s, i)
           units == effective_units(Policy[s.class[i]].mode, s.remaining[i], bytes)
           m == put(s.mseq, i, sequence)
           n == put(s.units, i, units)
           l == [t EXCEPT !.mseq = m, !.units = n]
           delta == units - s.units[i]
<1>1. /\ GovernedState(t) /\ SameButTickets(t, s) /\ SameTickets(t, s) /\ SamePermits(t, s)
      /\ t.remaining = s.remaining /\ t.sseq = s.sseq
      /\ \E w \in Nat : w >= s.touched[i] /\ t.touched = put(s.touched, i, w)
  BY TouchType
<1>2. /\ s.class[i] \in Classes /\ s.remaining[i] \in Nat /\ s.units[i] \in Nat
      /\ s.mseq \in [Ids -> Nat] /\ s.units \in [Ids -> Nat]
  BY DEF GovernedState
<1>3. units \in Nat
  BY <1>2, UnitsType
<1> DEFINE g == apply_memory_delta(l, i, delta)
<1>4. reconcile(s, i, bytes, sequence) = g
  BY DEF reconcile
<1> HIDE DEF t, units
<1>5. m \in [Ids -> Nat] /\ n \in [Ids -> Nat] /\ delta \in Int
  BY <1>2, <1>3, SMT DEF put
<1> HIDE DEF m, n, delta
<1>6. /\ GovernedState(l) /\ SameWork(l, t)
      /\ LedgerFields(l, n, t.remaining, m, t.sseq, t.touched)
      /\ SameTotals(l, t) /\ SameIndexes(l, t) /\ SameFlags(l, t)
  <2>1. GovernedState(t)
    BY <1>1
  <2> QED BY <1>5, <2>1, SetReading
<1>7. SameWork(t, s)
  BY <1>1 DEF SameWork, SameButTickets
<1> HIDE DEF l
<1>8. /\ GovernedState(g) /\ SameWork(g, l) /\ SameLedgers(g, l) /\ Shifted(g, l, i, delta)
  BY <1>5, <1>6, ApplyMemoryDelta
<1> HIDE DEF g
<1>9. SameWork(l, s) /\ SameWork(g, s)
  BY <1>6, <1>7, <1>8
     DEF SameWork, SameRequests, SamePermits, SameTickets, SameQueues
<1>10. SameTotals(l, s) /\ SameIndexes(l, s) /\ l.fault = s.fault
  BY <1>1, <1>6 DEF SameButTickets, SameTotals, SameIndexes, SameFlags
<1>11. Shifted(g, s, i, delta)
  BY <1>8, <1>9, <1>10, ShiftedFrom DEF SameWork
<1>12. Reconciled(g, s, i, sequence, units)
  BY <1>1, <1>6, <1>8, <1>9, <1>11 DEF Reconciled, LedgerFields, SameLedgers, m, n, delta
<1> QED BY <1>3, <1>4, <1>8, <1>9, <1>12

\* memory::release_stage_memory moves memory and nothing else.
LEMMA ReleaseStageType ==
  ASSUME NEW s, GovernedState(s), NEW i \in Ids, NEW freed_units \in Nat,
         NEW sequence \in Nat
  PROVE  LET g == release_stage_memory(s, i, freed_units, sequence) IN
         /\ GovernedState(g) /\ SameWork(g, s)
         /\ \E freed \in 0..s.units[i] : StageReturned(g, s, i, sequence, freed)
<1> DEFINE t == touch(s, i)
           freed == Min({freed_units, s.units[i]})
           q == put(s.sseq, i, IF sequence # None THEN sequence ELSE s.sseq[i])
           n == put(s.units, i, s.units[i] - freed)
           m == put(s.remaining, i, saturating_sub(s.remaining[i], freed))
           l == [t EXCEPT !.sseq = q, !.units = n, !.remaining = m]
           delta == 0 - freed
<1>1. /\ GovernedState(t) /\ SameButTickets(t, s) /\ SameTickets(t, s) /\ SamePermits(t, s)
      /\ t.mseq = s.mseq
      /\ \E w \in Nat : w >= s.touched[i] /\ t.touched = put(s.touched, i, w)
  BY TouchType
<1>2. /\ s.remaining[i] \in Nat /\ s.units[i] \in Nat /\ s.sseq \in [Ids -> Nat]
      /\ s.units \in [Ids -> Nat] /\ s.remaining \in [Ids -> Nat]
  BY DEF GovernedState
<1>3. freed \in Nat /\ freed <= s.units[i]
  <2>1. freed_units \in Int /\ s.units[i] \in Int
    BY <1>2, SMT
  <2>2. freed = IF freed_units <= s.units[i] THEN freed_units ELSE s.units[i]
    BY <2>1, Extrema
  <2> HIDE DEF freed
  <2> QED BY <1>2, <2>2, SMT
<1> DEFINE g == apply_memory_delta(l, i, delta)
<1>4. release_stage_memory(s, i, freed_units, sequence) = g
  BY DEF release_stage_memory
<1> HIDE DEF t, freed
<1>5. s.units[i] - freed \in Nat /\ saturating_sub(s.remaining[i], freed) \in Nat
  BY <1>2, <1>3, SMT DEF saturating_sub
<1>6. q \in [Ids -> Nat] /\ n \in [Ids -> Nat] /\ m \in [Ids -> Nat] /\ delta \in Int
  BY <1>2, <1>3, <1>5, SMT DEF put
<1> HIDE DEF m, n, q, delta
<1>7. /\ GovernedState(l) /\ SameWork(l, t)
      /\ LedgerFields(l, n, m, t.mseq, q, t.touched)
      /\ SameTotals(l, t) /\ SameIndexes(l, t) /\ SameFlags(l, t)
  <2>1. GovernedState(t)
    BY <1>1
  <2> QED BY <1>6, <2>1, SetStage
<1>8. SameWork(t, s)
  BY <1>1 DEF SameWork, SameButTickets
<1> HIDE DEF l
<1>9. /\ GovernedState(g) /\ SameWork(g, l) /\ SameLedgers(g, l) /\ Shifted(g, l, i, delta)
  BY <1>6, <1>7, ApplyMemoryDelta
<1> HIDE DEF g
<1>10. SameWork(l, s) /\ SameWork(g, s)
  BY <1>7, <1>8, <1>9
     DEF SameWork, SameRequests, SamePermits, SameTickets, SameQueues
<1>11. SameTotals(l, s) /\ SameIndexes(l, s) /\ l.fault = s.fault
  BY <1>1, <1>7 DEF SameButTickets, SameTotals, SameIndexes, SameFlags
<1>12. Shifted(g, s, i, delta)
  BY <1>9, <1>10, <1>11, ShiftedFrom DEF SameWork
<1>13. StageReturned(g, s, i, sequence, freed)
  BY <1>1, <1>7, <1>9, <1>10, <1>12 DEF StageReturned, LedgerFields, SameLedgers, m, n, q, delta
<1>14. freed \in 0..s.units[i]
  BY <1>2, <1>3, SMT
<1> QED BY <1>4, <1>9, <1>10, <1>13, <1>14

-----------------------------------------------------------------------------
\* Custody

\* A step that leaves those fields alone keeps custody.
LEMMA CustodySame ==
  ASSUME NEW s, NEW g, CustodySound(s), GovernedState(g), SameCustody(g, s)
  PROVE  CustodySound(g) /\ Leases(g) = Leases(s)
BY SMT DEF CustodySound, SameCustody, Leases

\* So do the transitions that touch tickets or memory only.
LEMMA SameIsSameCustody ==
  ASSUME NEW s, NEW g
  PROVE  /\ SameButTickets(g, s) => SameCustody(g, s)
         /\ SameWork(g, s) => SameCustody(g, s)
BY DEF SameButTickets, SameWork, SameCustody, SameRequests, SamePermits, SameQueues

\* A fresh or dequeued request that becomes a permit mints no lease.
LEMMA CustodyGrant ==
  ASSUME NEW s, CustodySound(s), NEW g, GovernedState(g), NEW i \in Ids, NEW c \in Classes,
         i \notin s.permits, i <= g.issued, s.issued <= g.issued,
         g.permits = s.permits \cup {i}, g.class = put(s.class, i, c),
         g.phase = put(s.phase, i, "DispatchReserved"), g.nonce = put(s.nonce, i, None),
         \A d \in Classes : g.queue[d] \subseteq s.queue[d] \ {i}
  PROVE  CustodySound(g) /\ Leases(g) = Leases(s)
<1>1. /\ s.permits \subseteq Ids /\ s.phase \in [Ids -> Phases] /\ s.nonce \in [Ids -> Nat]
      /\ s.class \in [Ids -> Classes] /\ s.queue \in [Classes -> SUBSET Ids]
      /\ s.issued \in Nat /\ g.issued \in Nat /\ Ids \subseteq Nat
  <2>1. GovernedState(s)
    BY DEF CustodySound
  <2>2. s.issued \in 0..MaxIds /\ g.issued \in 0..MaxIds
    BY <2>1, CustodyTypes
  <2>3. s.issued \in Nat /\ g.issued \in Nat /\ Ids \subseteq Nat
    BY <2>2, IdsAssumption, SMT DEF Ids
  <2> QED BY <2>1, <2>3, CustodyTypes
<1>2. /\ g.nonce[i] = None /\ g.phase[i] = "DispatchReserved"
      /\ \A j \in Ids \ {i} : /\ g.nonce[j] = s.nonce[j] /\ g.phase[j] = s.phase[j]
                              /\ g.class[j] = s.class[j]
  BY <1>1, SMT DEF put
<1>3. ASSUME NEW j \in g.permits
      PROVE  j <= g.issued /\ (g.nonce[j] # None <=> g.phase[j] # "DispatchReserved")
  <2>1. CASE j = i
    BY <1>2, <2>1
  <2>2. CASE j # i
    <3>1. j \in s.permits /\ j \in Ids \ {i}
      BY <1>1, <2>2
    <3>2. j <= s.issued /\ (s.nonce[j] # None <=> s.phase[j] # "DispatchReserved")
      BY <3>1 DEF CustodySound
    <3>3. j <= g.issued
      BY <1>1, <3>1, <3>2, SMT
    <3> QED BY <1>2, <3>1, <3>2, <3>3
  <2> QED BY <2>1, <2>2
<1>4. ASSUME NEW d \in Classes, NEW j \in g.queue[d]
      PROVE  g.class[j] = d /\ j \notin g.permits /\ j <= g.issued
  <2>1. j \in s.queue[d] /\ j # i /\ j \in Ids
    BY <1>1
  <2> QED BY <1>1, <1>2, <2>1, SMT DEF CustodySound
<1>5. CustodySound(g)
  BY <1>3, <1>4 DEF CustodySound
<1>6. Leases(g) = Leases(s)
  <2>1. {j \in g.permits : g.nonce[j] # None} = {j \in s.permits : s.nonce[j] # None}
    BY <1>1, <1>2
  <2>2. \A j \in {j \in s.permits : s.nonce[j] # None} : g.nonce[j] = s.nonce[j]
    BY <1>1, <1>2, ZenonT(30), SMT
  <2> QED BY <2>1, <2>2, SMT DEF Leases
<1> QED BY <1>5, <1>6

\* Ending a permit ends its lease and no other.
LEMMA CustodyUnwind ==
  ASSUME NEW s, CustodySound(s), NEW i \in s.permits, NEW reason \in TerminalReasons
  PROVE  LET g == unwind(s, i, reason) IN
         /\ CustodySound(g) /\ g.permits = s.permits \ {i}
         /\ Leases(g) = Leases(s) \ {<<i, s.nonce[i]>>}
         /\ \A j \in g.permits : g.phase[j] = s.phase[j]
<1> DEFINE g == unwind(s, i, reason)
<1>1. /\ s.permits \subseteq Ids /\ s.phase \in [Ids -> Phases] /\ s.nonce \in [Ids -> Nat]
      /\ s.class \in [Ids -> Classes] /\ s.queue \in [Classes -> SUBSET Ids]
  BY CustodyTypes DEF CustodySound
<1>2. /\ GovernedState(g)
      /\ g.class = put(s.class, i, AnyClass) /\ g.permits = s.permits \ {i}
      /\ g.phase = put(s.phase, i, "DispatchReserved") /\ g.nonce = put(s.nonce, i, None)
      /\ g.queue = s.queue /\ g.issued = s.issued
  <2>1. i \in Ids /\ GovernedState(s)
    BY <1>1 DEF CustodySound
  <2>2. GovernedState(g) /\ Unwound(g, s, i, reason)
    BY <2>1, Unwind
  <2> HIDE DEF g
  <2> QED BY <2>2 DEF Unwound, Ended, SameQueues
<1> HIDE DEF g
<1>3. \A j \in Ids \ {i} : /\ g.nonce[j] = s.nonce[j] /\ g.phase[j] = s.phase[j]
                           /\ g.class[j] = s.class[j]
  BY <1>1, <1>2 DEF put
<1>4. ASSUME NEW j \in g.permits
      PROVE  j <= g.issued /\ (g.nonce[j] # None <=> g.phase[j] # "DispatchReserved")
  BY <1>1, <1>2, <1>3 DEF CustodySound
<1>5. ASSUME NEW d \in Classes, NEW j \in g.queue[d]
      PROVE  g.class[j] = d /\ j \notin g.permits /\ j <= g.issued
  <2>1. j \in s.queue[d] /\ j \in Ids
    BY <1>1, <1>2
  <2>2. s.class[j] = d /\ j \notin s.permits /\ j <= s.issued
    BY <2>1 DEF CustodySound
  <2> QED BY <1>2, <1>3, <2>1, <2>2
<1>6. CustodySound(g)
  BY <1>2, <1>4, <1>5 DEF CustodySound
<1>7. Leases(g) = Leases(s) \ {<<i, s.nonce[i]>>}
  BY <1>1, <1>2, <1>3, SMT DEF Leases
<1>8. \A j \in g.permits : g.phase[j] = s.phase[j]
  BY <1>1, <1>2, <1>3
<1> QED BY <1>2, <1>6, <1>7, <1>8 DEF g

\* A permit that is still unleased leaves no trace among the leases.
LEMMA NoLease ==
  ASSUME NEW s, NEW i, s.nonce[i] = None
  PROVE  Leases(s) \ {<<i, s.nonce[i]>>} = Leases(s)
BY SMT DEF Leases

\* A request that leaves its queue for good takes no lease with it.
LEMMA CustodyDequeue ==
  ASSUME NEW s, CustodySound(s), NEW g, GovernedState(g), NEW i \in Ids,
         g.queue = put(s.queue, s.class[i], s.queue[s.class[i]] \ {i}),
         g.class = put(s.class, i, AnyClass), g.permits = s.permits,
         g.phase = s.phase, g.nonce = s.nonce, g.issued = s.issued
  PROVE  CustodySound(g) /\ Leases(g) = Leases(s)
<1>1. /\ s.class \in [Ids -> Classes] /\ s.queue \in [Classes -> SUBSET Ids]
  BY CustodyTypes DEF CustodySound
<1>2. ASSUME NEW d \in Classes, NEW j \in g.queue[d]
      PROVE  g.class[j] = d /\ j \notin g.permits /\ j <= g.issued
  <2>1. j \in s.queue[d] /\ (d = s.class[i] => j # i)
    BY <1>1, SMT DEF put
  <2>2. s.class[j] = d /\ j \notin s.permits /\ j <= s.issued /\ j \in Ids
    BY <1>1, <2>1 DEF CustodySound
  <2>3. j # i
    BY <2>1, <2>2
  <2>4. g.class[j] = s.class[j]
    BY <1>1, <2>2, <2>3 DEF put
  <2> QED BY <2>2, <2>4
<1>3. CustodySound(g)
  BY <1>2 DEF CustodySound
<1> QED BY <1>3 DEF Leases

\* Promotion turns the chosen queued request into an unleased permit.
LEMMA CustodyPromote ==
  ASSUME NEW s, CustodySound(s), NEW i \in Queued(s)
  PROVE  LET g == promote_one(s, i) IN CustodySound(g) /\ Leases(g) = Leases(s)
<1> DEFINE g == promote_one(s, i)
<1>1. /\ GovernedState(s) /\ s.class \in [Ids -> Classes]
      /\ s.queue \in [Classes -> SUBSET Ids] /\ i \in Ids
  BY CustodyTypes, QueuedIn DEF CustodySound
<1>2. PICK c \in Classes : i \in s.queue[c]
  BY <1>1, QueuedIn
<1>3. s.class[i] = c /\ i \notin s.permits /\ i <= s.issued
  BY <1>2 DEF CustodySound
<1>4. /\ GovernedState(g)
      /\ g.queue = put(s.queue, c, s.queue[c] \ {i})
      /\ g.class = put(s.class, i, c) /\ g.permits = s.permits \cup {i}
      /\ g.phase = put(s.phase, i, "DispatchReserved") /\ g.nonce = put(s.nonce, i, None)
      /\ g.issued = s.issued
  <2>1. GovernedState(g) /\ PromotedAs(g, s, i)
    BY <1>1, PromoteOne_
  <2> HIDE DEF g
  <2> QED BY <1>3, <2>1 DEF PromotedAs, Opened
<1> HIDE DEF g
<1>5. \A d \in Classes : g.queue[d] \subseteq s.queue[d] \ {i}
  <2> TAKE d \in Classes
  <2>1. CASE d = c
    BY <1>1, <1>4, <2>1 DEF put
  <2>2. CASE d # c
    <3>1. g.queue[d] = s.queue[d]
      BY <1>1, <1>4, <2>2 DEF put
    <3>2. i \notin s.queue[d]
      BY <1>3, <2>2 DEF CustodySound
    <3> QED BY <3>1, <3>2
  <2> QED BY <2>1, <2>2
<1>6. i <= g.issued /\ s.issued <= g.issued
  <2>1. s.issued \in 0..MaxIds
    BY <1>1, CustodyTypes
  <2> QED BY <1>3, <1>4, <2>1, SMT
<1>7. CustodySound(g) /\ Leases(g) = Leases(s)
  BY <1>1, <1>3, <1>4, <1>5, <1>6, CustodyGrant
<1> QED BY <1>7 DEF g

\* The wait-cycle scan ends a queued request and touches no permit.
LEMMA CustodyWaitCycle ==
  ASSUME NEW s, CustodySound(s), NEW i \in Queued(s)
  PROVE  LET g == terminalize_wait_cycle(s, i) IN CustodySound(g) /\ Leases(g) = Leases(s)
<1> DEFINE g == terminalize_wait_cycle(s, i)
<1>1. GovernedState(s) /\ i \in Ids
  BY QueuedIn DEF CustodySound
<1>2. PICK c \in Classes : i \in s.queue[c]
  BY <1>1, QueuedIn
<1>3. i \notin s.permits
  BY <1>2 DEF CustodySound
<1>4. /\ GovernedState(g)
      /\ g.queue = put(s.queue, s.class[i], s.queue[s.class[i]] \ {i})
      /\ g.class = put(s.class, i, AnyClass)
      /\ g.permits = s.permits /\ g.phase = s.phase /\ g.nonce = s.nonce
      /\ g.issued = s.issued
  <2>1. GovernedState(g) /\ CycleEnded(g, s, i)
    BY <1>1, TerminalizeWaitCycle
  <2> HIDE DEF g
  <2> QED BY <2>1 DEF CycleEnded, Unqueued, SamePermits
<1> HIDE DEF g
<1>5. CustodySound(g) /\ Leases(g) = Leases(s)
  BY <1>1, <1>3, <1>4, CustodyDequeue
<1> QED BY <1>5 DEF g

\* An accounting fault empties the queues and touches no permit.
LEMMA CustodyFault ==
  ASSUME NEW s, CustodySound(s)
  PROVE  LET g == terminalize_queued_for_accounting_fault(s) IN
         CustodySound(g) /\ Leases(g) = Leases(s)
<1> DEFINE g == terminalize_queued_for_accounting_fault(s)
<1>1. /\ GovernedState(g) /\ g.queue = [c \in Classes |-> {}] /\ SamePermits(g, s)
      /\ g.issued = s.issued
  BY TerminalizeQueued DEF CustodySound
<1> HIDE DEF g
<1>2. CustodySound(g) /\ Leases(g) = Leases(s)
  BY <1>1, SMT DEF CustodySound, Leases, SamePermits
<1> QED BY <1>2 DEF g

\* A queued newcomer has the next id, which nothing live or queued carries.
LEMMA CustodyEnqueue ==
  ASSUME NEW s, CustodySound(s), s.issued < MaxIds, NEW sp \in Specs, NEW c \in Classes
  PROVE  LET g == enqueue(s, s.issued + 1, sp, c) IN
         CustodySound(g) /\ Leases(g) = Leases(s)
<1> DEFINE i == s.issued + 1
           g == enqueue(s, i, sp, c)
<1>1. /\ s.class \in [Ids -> Classes] /\ s.queue \in [Classes -> SUBSET Ids]
      /\ s.issued \in 0..MaxIds /\ s.permits \subseteq Ids /\ GovernedState(s)
  BY CustodyTypes DEF CustodySound
<1>2. i \in Ids /\ s.issued < i /\ s.issued \in Nat /\ Ids \subseteq Nat
  BY <1>1, IdsAssumption, SMT DEF Ids
<1> HIDE DEF i
<1>3. /\ GovernedState(g) /\ g.issued = i /\ SamePermits(g, s)
      /\ g.class = put(s.class, i, c) /\ g.queue = put(s.queue, c, s.queue[c] \cup {i})
  <2>1. GovernedState(g) /\ EnqueuedAs(g, s, i, sp, c)
    BY <1>1, <1>2, Enqueue
  <2> HIDE DEF g
  <2> QED BY <2>1 DEF EnqueuedAs
<1> HIDE DEF g
<1>4. g.permits = s.permits /\ g.phase = s.phase /\ g.nonce = s.nonce
  BY <1>3 DEF SamePermits
<1>5. \A j \in s.permits :
        j <= s.issued /\ (s.nonce[j] # None <=> s.phase[j] # "DispatchReserved")
  BY DEF CustodySound
<1>6. ASSUME NEW j \in g.permits
      PROVE  j <= g.issued /\ (g.nonce[j] # None <=> g.phase[j] # "DispatchReserved")
  <2>1. j \in s.permits /\ j \in Nat /\ i \in Nat
    BY <1>1, <1>2, <1>4, ZenonT(30), SMT
  <2> QED BY <1>2, <1>3, <1>4, <1>5, <2>1, SMT
<1>7. ASSUME NEW d \in Classes, NEW j \in g.queue[d]
      PROVE  g.class[j] = d /\ j \notin g.permits /\ j <= g.issued
  <2>1. CASE j = i
    <3>1. d = c
      <4>1. i \notin s.queue[d]
        <5>1. \A k \in s.queue[d] : k <= s.issued
          BY DEF CustodySound
        <5> QED BY <1>2, <5>1, SMT
      <4> QED BY <1>1, <1>3, <2>1, <4>1 DEF put
    <3>2. g.class[i] = c
      BY <1>1, <1>2, <1>3 DEF put
    <3>3. i \notin g.permits
      BY <1>2, <1>4, <1>5, SMT
    <3> QED BY <1>2, <1>3, <2>1, <3>1, <3>2, <3>3, SMT
  <2>2. CASE j # i
    <3>1. j \in s.queue[d] /\ j \in Ids
      BY <1>1, <1>3, <2>2, SMT DEF put
    <3>2. s.class[j] = d /\ j \notin s.permits /\ j <= s.issued
      BY <3>1 DEF CustodySound
    <3>3. g.class[j] = s.class[j]
      BY <1>1, <1>3, <2>2, <3>1 DEF put
    <3> QED BY <1>2, <1>3, <1>4, <3>1, <3>2, <3>3, SMT
  <2> QED BY <2>1, <2>2
<1>8. CustodySound(g)
  BY <1>3, <1>6, <1>7 DEF CustodySound
<1>9. Leases(g) = Leases(s)
  BY <1>4 DEF Leases
<1> QED BY <1>8, <1>9 DEF g, i

\* Taking the next id.
LEMMA SetIssued ==
  ASSUME NEW s, GovernedState(s), NEW i \in 0..MaxIds
  PROVE  LET g == [s EXCEPT !.issued = i] IN
         /\ GovernedState(g) /\ g.issued = i
         /\ g.permits = s.permits /\ g.phase = s.phase /\ g.nonce = s.nonce
         /\ g.class = s.class /\ g.queue = s.queue
BY FieldNames, ZenonT(30), SMT DEF GovernedState

\* A direct grant has the next id, too.
LEMMA CustodyAdmit ==
  ASSUME NEW s, CustodySound(s), s.issued < MaxIds, NEW sp \in Specs, NEW c \in Classes
  PROVE  LET g == grant([s EXCEPT !.issued = s.issued + 1], s.issued + 1, sp, c,
                        parent_permit_for_scope(s, sp), FALSE)
         IN CustodySound(g) /\ Leases(g) = Leases(s)
<1> DEFINE i == s.issued + 1
           n == [s EXCEPT !.issued = i]
           p == parent_permit_for_scope(s, sp)
           g == grant(n, i, sp, c, p, FALSE)
<1>1. /\ s.queue \in [Classes -> SUBSET Ids] /\ s.issued \in 0..MaxIds
      /\ s.permits \subseteq Ids /\ GovernedState(s) /\ DOMAIN s = DOMAIN Empty
  BY CustodyTypes DEF CustodySound, GovernedState
<1>2. i \in Ids /\ i \in 0..MaxIds /\ s.issued < i /\ s.issued \in Nat /\ Ids \subseteq Nat
  BY <1>1, IdsAssumption, SMT DEF Ids
<1>3. p \in Ids \cup {None}
  BY <1>1, ParentType
<1> HIDE DEF i, p
<1>4. GovernedState(n) /\ n.issued = i
  BY <1>1, <1>2, SetIssued
<1>5. /\ n.permits = s.permits /\ n.phase = s.phase /\ n.nonce = s.nonce
      /\ n.class = s.class /\ n.queue = s.queue
  BY <1>1, <1>2, SetIssued
<1> HIDE DEF n
<1>6. ASSUME NEW b \in BOOLEAN
      PROVE  LET h == grant(n, i, sp, c, p, b) IN
             GovernedState(h) /\ Granting(h, n, i, sp, c, p, b)
  BY <1>2, <1>3, <1>4, Grant
<1>7. /\ GovernedState(g) /\ g.class = put(s.class, i, c) /\ g.permits = s.permits \cup {i}
      /\ g.phase = put(s.phase, i, "DispatchReserved") /\ g.nonce = put(s.nonce, i, None)
      /\ g.queue = s.queue /\ g.issued = i
  <2>1. GovernedState(g) /\ Granting(g, n, i, sp, c, p, FALSE)
    BY <1>6
  <2> HIDE DEF g
  <2> QED BY <1>4, <1>5, <2>1 DEF Granting, Opened, SameQueues
<1> HIDE DEF g
<1>8. i \notin s.permits
  BY <1>1, <1>2, SMT DEF CustodySound
<1>9. \A d \in Classes : g.queue[d] \subseteq s.queue[d] \ {i}
  <2>1. ASSUME NEW d \in Classes PROVE i \notin s.queue[d]
    <3>1. \A k \in s.queue[d] : k <= s.issued
      BY DEF CustodySound
    <3> QED BY <1>2, <3>1, SMT
  <2> QED BY <1>7, <2>1
<1>10. i <= g.issued /\ s.issued <= g.issued
  BY <1>2, <1>7, SMT
<1>11. CustodySound(g) /\ Leases(g) = Leases(s)
  BY <1>2, <1>7, <1>8, <1>9, <1>10, CustodyGrant
<1> QED BY <1>11 DEF g, n, i, p

\* The first advance of a permit mints its lease, and no later one does.
LEMMA CustodyAdvance ==
  ASSUME NEW s, CustodySound(s), NEW i \in Ids, NEW p \in Phases, can_advance(s, i, p)
  PROVE  LET g == advance_phase(s, i, p) IN
         /\ CustodySound(g) /\ g.nonce[i] \in Nat
         /\ Leases(g) = IF s.nonce[i] = None THEN Leases(s) \cup {<<i, g.nonce[i]>>}
                        ELSE Leases(s)
<1> DEFINE g == advance_phase(s, i, p)
           n == IF s.nonce[i] = None THEN s.minted + 1 ELSE s.nonce[i]
<1>1. /\ s.permits \subseteq Ids /\ s.phase \in [Ids -> Phases] /\ s.nonce \in [Ids -> Nat]
      /\ s.minted \in Nat /\ GovernedState(s)
  BY CustodyTypes DEF CustodySound
<1>2. /\ GovernedState(g) /\ g.phase = put(s.phase, i, p) /\ g.nonce = put(s.nonce, i, n)
      /\ g.class = s.class /\ g.queue = s.queue /\ g.permits = s.permits
      /\ g.issued = s.issued
  BY <1>1, AdvancePhase, SMT DEF SameRequests, SameQueues
<1>3. i \in s.permits /\ p # "DispatchReserved"
  <2>1. i \in s.permits /\ rank(p) > rank(s.phase[i]) /\ s.phase[i] \in Phases
    BY <1>1 DEF can_advance
  <2>2. rank(s.phase[i]) \in Nat
    BY <2>1 DEF rank, Phases
  <2>3. rank("DispatchReserved") = 0
    BY DEF rank
  <2>4. p # "DispatchReserved"
    BY <2>1, <2>2, <2>3, SMT
  <2> QED BY <2>1, <2>4
<1>4. n \in Nat /\ n # None
  BY <1>1, NoneNat, SMT
<1> HIDE DEF g, n
<1>5. /\ g.phase[i] = p /\ g.nonce[i] = n
      /\ \A j \in Ids \ {i} : g.phase[j] = s.phase[j] /\ g.nonce[j] = s.nonce[j]
  BY <1>1, <1>2 DEF put
<1>6. ASSUME NEW j \in g.permits
      PROVE  j <= g.issued /\ (g.nonce[j] # None <=> g.phase[j] # "DispatchReserved")
  <2>1. j \in s.permits /\ j <= g.issued
    BY <1>2 DEF CustodySound
  <2>2. CASE j = i
    BY <1>3, <1>4, <1>5, <2>1, <2>2
  <2>3. CASE j # i
    <3>1. s.nonce[j] # None <=> s.phase[j] # "DispatchReserved"
      BY <2>1 DEF CustodySound
    <3> QED BY <1>1, <1>5, <2>1, <2>3, <3>1
  <2> QED BY <2>2, <2>3
<1>7. CustodySound(g)
  BY <1>2, <1>6, SMT DEF CustodySound
<1>8. s.nonce[i] = None => Leases(g) = Leases(s) \cup {<<i, g.nonce[i]>>}
  <2> HAVE s.nonce[i] = None
  <2>1. {j \in g.permits : g.nonce[j] # None} = {j \in s.permits : s.nonce[j] # None} \cup {i}
    BY <1>1, <1>2, <1>3, <1>4, <1>5
  <2>2. \A j \in {j \in s.permits : s.nonce[j] # None} : g.nonce[j] = s.nonce[j]
    BY <1>1, <1>5
  <2> QED BY <2>1, <2>2 DEF Leases
<1>9. s.nonce[i] # None => Leases(g) = Leases(s)
  <2> HAVE s.nonce[i] # None
  <2>1. g.nonce[i] = s.nonce[i]
    BY <1>5 DEF n
  <2>2. \A j \in s.permits : g.nonce[j] = s.nonce[j]
    BY <1>1, <1>5, <2>1
  <2> QED BY <1>2, <2>2 DEF Leases
<1>10. g.nonce[i] \in Nat
  BY <1>4, <1>5
<1> QED BY <1>7, <1>8, <1>9, <1>10 DEF g

-----------------------------------------------------------------------------
\* Admission

\* The reason an assessment reports is the first of the blockers, or none.
LEMMA PrimaryBlock ==
  ASSUME NEW B, B \subseteq {BlockOrder[n] : n \in 1..Len(BlockOrder)}
  PROVE  primary(B) \in {"Ok", "AccountingFault", "Inflight", "Capability", "Cpu", "Memory",
                         "QueuedBehind"}
<1>1. Len(BlockOrder) = 6
  BY DEF BlockOrder
<1>2. \A n \in 1..6 : BlockOrder[n] \in {"AccountingFault", "Inflight", "Capability", "Cpu",
                                         "Memory", "QueuedBehind"}
  BY SMT DEF BlockOrder
<1> DEFINE N == {n \in 1..Len(BlockOrder) : BlockOrder[n] \in B}
<1>3. CASE B # {}
  <2>1. N \in SUBSET Nat /\ N # {}
    BY <1>1, <1>3, SMT
  <2>2. Min(N) \in 1..6
    BY <1>1, <2>1, MinInSet
  <2>3. primary(B) = BlockOrder[Min(N)]
    BY <1>3 DEF primary
  <2> QED BY <1>2, <2>2, <2>3
<1>4. CASE B = {}
  BY <1>4 DEF primary
<1> QED BY <1>3, <1>4

Blocks ==
  {"IrreversibleWaitCycle", "Ok", "AccountingFault", "Inflight", "Capability", "Cpu", "Memory",
   "QueuedBehind"}

\* An assessment names one of the blocks the admission decides on.
LEMMA AssessBlock ==
  ASSUME NEW s, NEW c, NEW sp, NEW parent, NEW behind
  PROVE  assess_scope(s, c, sp, parent, behind).block \in Blocks
<1> DEFINE B == blockers_for(s, c, sp.caps, behind)
<1>1. B \subseteq {BlockOrder[n] : n \in 1..Len(BlockOrder)}
  BY DEF blockers_for
<1> HIDE DEF B
<1>2. primary(B) \in {"Ok", "AccountingFault", "Inflight", "Capability", "Cpu", "Memory",
                      "QueuedBehind"}
  BY <1>1, PrimaryBlock
<1>3. assess_scope(s, c, sp, parent, behind).block \in {"IrreversibleWaitCycle", primary(B)}
  BY DEF assess_scope, B
<1> QED BY <1>2, <1>3 DEF Blocks

\* A submission is decided for the class it is assessed against.
LEMMA BlockClass ==
  ASSUME NEW s, NEW c, NEW a, a.block \in Blocks
  PROVE  admit_block(s, c, a).class = c
<1>1. \A b : enqueue_or_full(s, c, b).class = c
  BY DEF enqueue_or_full, Verdict
<1>2. \A v : Verdict(v, c).class = c
  BY DEF Verdict
<1> QED BY <1>1, <1>2 DEF admit_block, Blocks

\* Only an enabled class of the policy admits or queues, degraded or not.
LEMMA AdmitClass ==
  ASSUME NEW s, NEW sp \in Specs, admit(s, sp).verdict \in {"Admitted", "Queued"}
  PROVE  admit(s, sp).class \in Classes
<1>1. ~s.closed /\ sp.class \in Classes /\ admit(s, sp) = admit_class(s, sp, sp.class)
  BY DEF admit, Verdict
<1>2. Policy[sp.class].fallback \in Classes
  BY <1>1, PolicyFields
<1>3. admit_class(s, sp, sp.class).class \in {sp.class, Policy[sp.class].fallback}
  BY AssessBlock, BlockClass, SMT DEF admit_class
<1> QED BY <1>1, <1>2, <1>3

-----------------------------------------------------------------------------
\* Small updates

\* The two halves of claim, and forgetting a ticket, leave custody alone.
LEMMA CustodyTickets ==
  ASSUME NEW s, CustodySound(s), NEW i \in Ids
  PROVE  /\ CustodySound(begin_claim(s, i)) /\ Leases(begin_claim(s, i)) = Leases(s)
         /\ CustodySound(finish_claim(s, i)) /\ Leases(finish_claim(s, i)) = Leases(s)
         /\ CustodySound(forget_terminal_ticket(s, i))
         /\ Leases(forget_terminal_ticket(s, i)) = Leases(s)
         /\ CustodySound(remove_ticket(s, i)) /\ Leases(remove_ticket(s, i)) = Leases(s)
<1>1. GovernedState(s)
  BY DEF CustodySound
<1>2. \A g : GovernedState(g) /\ SameButTickets(g, s) => CustodySound(g) /\ Leases(g) = Leases(s)
  BY CustodySame, SameIsSameCustody
<1>3. CustodySound(begin_claim(s, i)) /\ Leases(begin_claim(s, i)) = Leases(s)
  BY <1>1, <1>2, ClaimHalves
<1>4. CustodySound(finish_claim(s, i)) /\ Leases(finish_claim(s, i)) = Leases(s)
  BY <1>1, <1>2, ClaimHalves
<1>5. /\ CustodySound(forget_terminal_ticket(s, i))
      /\ Leases(forget_terminal_ticket(s, i)) = Leases(s)
  BY <1>1, <1>2, ForgetTerminalTicket
<1>6. CustodySound(remove_ticket(s, i)) /\ Leases(remove_ticket(s, i)) = Leases(s)
  BY <1>1, <1>2, RemoveTicket
<1> QED BY <1>3, <1>4, <1>5, <1>6

\* So does a terminal answer.
LEMMA CustodyTerminal ==
  ASSUME NEW s, CustodySound(s), NEW i \in Ids, NEW reason \in TerminalReasons
  PROVE  LET g == record_terminal_ticket(s, i, reason) IN
         CustodySound(g) /\ Leases(g) = Leases(s)
<1> DEFINE g == record_terminal_ticket(s, i, reason)
<1>1. GovernedState(s)
  BY DEF CustodySound
<1>2. GovernedState(g) /\ SameButTickets(g, s)
  BY <1>1, RecordTerminalTicket
<1> HIDE DEF g
<1>3. CustodySound(g) /\ Leases(g) = Leases(s)
  BY <1>2, CustodySame, SameIsSameCustody
<1> QED BY <1>3 DEF g

\* Setting one flag, or the set of bound tickets, leaves custody alone.
LEMMA CustodyFlags ==
  ASSUME NEW s, CustodySound(s), NEW b \in BOOLEAN, NEW P \in SUBSET Ids
  PROVE  /\ LET g == [s EXCEPT !.closed = b] IN CustodySound(g) /\ Leases(g) = Leases(s)
         /\ LET g == [s EXCEPT !.fault = b] IN CustodySound(g) /\ Leases(g) = Leases(s)
         /\ LET g == [s EXCEPT !.promotion_pending = b] IN
            CustodySound(g) /\ Leases(g) = Leases(s)
         /\ LET g == [s EXCEPT !.pending_ticket = P] IN
            CustodySound(g) /\ Leases(g) = Leases(s)
<1>1. GovernedState(s)
  BY DEF CustodySound
<1>2. DOMAIN s = DOMAIN Empty
  BY <1>1 DEF GovernedState
<1>3. \A g : GovernedState(g) /\ SameCustody(g, s) => CustodySound(g) /\ Leases(g) = Leases(s)
  BY CustodySame
<1>4. LET g == [s EXCEPT !.closed = b] IN CustodySound(g) /\ Leases(g) = Leases(s)
  <2> DEFINE g == [s EXCEPT !.closed = b]
  <2>1. GovernedState(g)
    BY <1>1, FieldNames, ZenonT(30), SMT DEF GovernedState
  <2>2. SameCustody(g, s)
    BY <1>2, FieldNames DEF SameCustody
  <2> HIDE DEF g
  <2>3. CustodySound(g) /\ Leases(g) = Leases(s)
    BY <1>3, <2>1, <2>2
  <2> QED BY <2>3 DEF g
<1>5. LET g == [s EXCEPT !.fault = b] IN CustodySound(g) /\ Leases(g) = Leases(s)
  <2> DEFINE g == [s EXCEPT !.fault = b]
  <2>1. GovernedState(g)
    BY <1>1, FieldNames, ZenonT(30), SMT DEF GovernedState
  <2>2. SameCustody(g, s)
    BY <1>2, FieldNames DEF SameCustody
  <2> HIDE DEF g
  <2>3. CustodySound(g) /\ Leases(g) = Leases(s)
    BY <1>3, <2>1, <2>2
  <2> QED BY <2>3 DEF g
<1>6. LET g == [s EXCEPT !.promotion_pending = b] IN CustodySound(g) /\ Leases(g) = Leases(s)
  <2> DEFINE g == [s EXCEPT !.promotion_pending = b]
  <2>1. GovernedState(g)
    BY <1>1, FieldNames, ZenonT(30), SMT DEF GovernedState
  <2>2. SameCustody(g, s)
    BY <1>2, FieldNames DEF SameCustody
  <2> HIDE DEF g
  <2>3. CustodySound(g) /\ Leases(g) = Leases(s)
    BY <1>3, <2>1, <2>2
  <2> QED BY <2>3 DEF g
<1>7. LET g == [s EXCEPT !.pending_ticket = P] IN CustodySound(g) /\ Leases(g) = Leases(s)
  <2> DEFINE g == [s EXCEPT !.pending_ticket = P]
  <2>1. GovernedState(g)
    BY <1>1, FieldNames, ZenonT(30), SMT DEF GovernedState
  <2>2. SameCustody(g, s)
    BY <1>2, FieldNames DEF SameCustody
  <2> HIDE DEF g
  <2>3. CustodySound(g) /\ Leases(g) = Leases(s)
    BY <1>3, <2>1, <2>2
  <2> QED BY <2>3 DEF g
<1> QED BY <1>4, <1>5, <1>6, <1>7

\* Withdrawing a queued request leaves custody alone.
LEMMA CustodyWithdraw ==
  ASSUME NEW s, CustodySound(s), NEW i \in Ids
  PROVE  LET g == remove_ticket(drop_request(
                    vacate_recursion_guard(remove_pending(s, i), s.spec[i]), i), i)
         IN CustodySound(g) /\ Leases(g) = Leases(s)
<1> DEFINE g == drop_request(vacate_recursion_guard(remove_pending(s, i), s.spec[i]), i)
<1>1. GovernedState(s)
  BY DEF CustodySound
<1>2. /\ GovernedState(g)
      /\ g.queue = put(s.queue, s.class[i], s.queue[s.class[i]] \ {i})
      /\ g.class = put(s.class, i, AnyClass) /\ SamePermits(g, s) /\ g.issued = s.issued
  BY <1>1, Dequeue
<1> HIDE DEF g
<1>3. CustodySound(g) /\ Leases(g) = Leases(s)
  BY <1>2, CustodyDequeue DEF SamePermits
<1>4. CustodySound(remove_ticket(g, i)) /\ Leases(remove_ticket(g, i)) = Leases(s)
  BY <1>3, CustodyTickets
<1> QED BY <1>4 DEF g

\* The memory operations leave custody alone.
LEMMA CustodyMemory ==
  ASSUME NEW s, CustodySound(s), NEW i \in Ids, NEW n \in Nat, NEW sequence \in Nat
  PROVE  /\ CustodySound(reconcile(s, i, n, sequence))
         /\ Leases(reconcile(s, i, n, sequence)) = Leases(s)
         /\ CustodySound(release_stage_memory(s, i, n, sequence))
         /\ Leases(release_stage_memory(s, i, n, sequence)) = Leases(s)
<1>1. GovernedState(s)
  BY DEF CustodySound
<1>2. \A g : GovernedState(g) /\ SameWork(g, s) => CustodySound(g) /\ Leases(g) = Leases(s)
  BY CustodySame, SameIsSameCustody
<1>3. /\ CustodySound(reconcile(s, i, n, sequence))
      /\ Leases(reconcile(s, i, n, sequence)) = Leases(s)
  BY <1>1, <1>2, ReconcileType
<1>4. /\ CustodySound(release_stage_memory(s, i, n, sequence))
      /\ Leases(release_stage_memory(s, i, n, sequence)) = Leases(s)
  BY <1>1, <1>2, ReleaseStageType
<1> QED BY <1>3, <1>4

-----------------------------------------------------------------------------
\* Assessment and selection

\* Only an assessment without blockers is reported as Ok.
LEMMA PrimaryOk ==
  ASSUME NEW B, B \subseteq {BlockOrder[n] : n \in 1..Len(BlockOrder)}, primary(B) = "Ok"
  PROVE  B = {}
<1>1. Len(BlockOrder) = 6
  BY DEF BlockOrder
<1>2. \A n \in 1..6 : BlockOrder[n] # "Ok"
  BY SMT DEF BlockOrder
<1> DEFINE N == {n \in 1..Len(BlockOrder) : BlockOrder[n] \in B}
<1> SUFFICES ASSUME B # {} PROVE FALSE
  BY SMT
<1>3. N \in SUBSET Nat /\ N # {}
  BY <1>1, SMT
<1>4. Min(N) \in 1..6
  BY <1>1, <1>3, MinInSet
<1>5. primary(B) = BlockOrder[Min(N)]
  BY DEF primary
<1> QED BY <1>2, <1>4, <1>5

\* blockers_for names every limit the class would exceed.
LEMMA NoBlockers ==
  ASSUME NEW s, GovernedState(s), NEW c \in Classes, NEW caps \in SUBSET Caps,
         NEW behind \in BOOLEAN, blockers_for(s, c, caps, behind) = {}
  PROVE  Room(s, c, caps) /\ ~behind
<1>1. {"AccountingFault", "Inflight", "Capability", "Cpu", "Memory", "QueuedBehind"}
        \subseteq {BlockOrder[n] : n \in 1..Len(BlockOrder)}
  <2>1. Len(BlockOrder) = 6
    BY DEF BlockOrder
  <2>2. /\ BlockOrder[1] = "AccountingFault" /\ BlockOrder[2] = "Inflight"
        /\ BlockOrder[3] = "Capability" /\ BlockOrder[4] = "Cpu"
        /\ BlockOrder[5] = "Memory" /\ BlockOrder[6] = "QueuedBehind"
    BY DEF BlockOrder
  <2>3. {1, 2, 3, 4, 5, 6} \subseteq 1..Len(BlockOrder)
    BY <2>1, SMT
  <2> QED BY <2>2, <2>3
<1>2. /\ ~s.fault /\ ~(s.inflight[c] >= Policy[c].max_inflight)
      /\ full_pools(s, caps) = {} /\ ~behind
      /\ ~(MaxCpuUnits # 0 /\ s.cpu + Policy[c].cpu > MaxCpuUnits)
      /\ ~(MaxMemUnits # 0 /\ s.mem + Policy[c].mem > MaxMemUnits)
  BY <1>1 DEF blockers_for
<1>3. /\ s.inflight[c] \in Nat /\ s.cpu \in Nat /\ s.mem \in Nat /\ s.in_use \in [Caps -> Nat]
      /\ Policy[c].max_inflight \in Nat /\ Policy[c].cpu \in Nat /\ Policy[c].mem \in Nat
  BY ClassesAssumption DEF GovernedState, ClassPolicies
<1>4. \A k \in caps : CapLimit[k] # 0 => s.in_use[k] < CapLimit[k]
  BY <1>2, <1>3, BudgetAssumption, SMT DEF full_pools
<1> HIDE DEF full_pools
<1>5. /\ s.inflight[c] < Policy[c].max_inflight
      /\ MaxCpuUnits # 0 => s.cpu + Policy[c].cpu <= MaxCpuUnits
      /\ MaxMemUnits # 0 => s.mem + Policy[c].mem <= MaxMemUnits
  BY <1>2, <1>3, BudgetAssumption, SMT
<1> QED BY <1>2, <1>4, <1>5 DEF Room

\* assess_scope reports Ok only for work that fits.
LEMMA AssessedOk ==
  ASSUME NEW s, GovernedState(s), NEW c \in Classes, NEW sp \in Specs, NEW parent,
         NEW behind \in BOOLEAN, assess_scope(s, c, sp, parent, behind).block = "Ok"
  PROVE  Room(s, c, sp.caps) /\ ~behind
<1> DEFINE B == blockers_for(s, c, sp.caps, behind)
<1>1. B \subseteq {BlockOrder[n] : n \in 1..Len(BlockOrder)}
  BY DEF blockers_for
<1>2. primary(B) = "Ok"
  <2> HIDE DEF B
  <2>1. assess_scope(s, c, sp, parent, behind).block \in {"IrreversibleWaitCycle", primary(B)}
    BY DEF assess_scope, B
  <2> QED BY <2>1
<1>3. B = {}
  <2> HIDE DEF B
  <2> QED BY <1>1, <1>2, PrimaryOk
<1>4. sp.caps \in SUBSET Caps
  BY SpecFields
<1> QED BY <1>3, <1>4, NoBlockers

\* A verdict for class c follows from an assessment of that class.
LEMMA BlockVerdict ==
  ASSUME NEW s, NEW c, NEW a, a.block \in Blocks
  PROVE  /\ admit_block(s, c, a).verdict = "Admitted" => a.block = "Ok"
         /\ admit_block(s, c, a).verdict = "Queued" =>
              /\ a.block \notin {"Ok", "AccountingFault", "IrreversibleWaitCycle"}
              /\ Cardinality(s.queue[c]) < Policy[c].max_queue_depth
<1>1. \A b : /\ enqueue_or_full(s, c, b).verdict # "Admitted"
             /\ enqueue_or_full(s, c, b).verdict = "Queued" =>
                  Cardinality(s.queue[c]) < Policy[c].max_queue_depth
  BY DEF enqueue_or_full, Verdict
<1>2. \A v : Verdict(v, c).verdict = v
  BY DEF Verdict
<1> QED BY <1>1, <1>2, ZenonT(60), SMT DEF admit_block, Blocks

\* Either way the request was assessed against the class it ends up in.
LEMMA ClassVerdict ==
  ASSUME NEW s, NEW sp, NEW c0
  PROVE  \E c \in {c0, Policy[c0].fallback} :
           admit_class(s, sp, c0) =
             admit_block(s, c, assess_scope(s, c, sp, None, queued_behind(s, c, sp)))
BY DEF admit_class

\* An admitted submission is new, finds room, and nothing of its domain is queued
\* ahead of it.
Admissible(s, sp, c) ==
  /\ c \in Classes /\ ~s.closed /\ Fresh(s, sp)
  /\ Room(s, c, sp.caps) /\ ~queued_behind(s, c, sp)

\* A queued one is new and finds a place.
Queueable(s, sp, c) ==
  /\ c \in Classes /\ ~s.closed /\ Fresh(s, sp)
  /\ assess_scope(s, c, sp, None, queued_behind(s, c, sp)).block
       \notin {"Ok", "AccountingFault", "IrreversibleWaitCycle"}
  /\ Cardinality(s.queue[c]) < Policy[c].max_queue_depth

\* features/admission: what a verdict says.
LEMMA Admission ==
  ASSUME NEW s, GovernedState(s), NEW sp \in Specs
  PROVE  LET d == admit(s, sp) IN
         /\ d.verdict = "Admitted" => Admissible(s, sp, d.class)
         /\ d.verdict = "Queued" => Queueable(s, sp, d.class)
<1> DEFINE d == admit(s, sp)
<1> SUFFICES ASSUME d.verdict \in {"Admitted", "Queued"}
             PROVE  /\ d.verdict = "Admitted" => Admissible(s, sp, d.class)
                    /\ d.verdict = "Queued" => Queueable(s, sp, d.class)
  BY SMT
<1>1. ~s.closed /\ sp.class \in Classes /\ Fresh(s, sp) /\ d = admit_class(s, sp, sp.class)
  BY DEF admit, Verdict, Fresh
<1>2. Policy[sp.class].fallback \in Classes
  BY <1>1, PolicyFields
<1>3. PICK c \in Classes :
        d = admit_block(s, c, assess_scope(s, c, sp, None, queued_behind(s, c, sp)))
  BY <1>1, <1>2, ClassVerdict
<1> DEFINE behind == queued_behind(s, c, sp)
           a == assess_scope(s, c, sp, None, behind)
<1>4. a.block \in Blocks
  BY AssessBlock
<1>9. d = admit_block(s, c, a)
  BY <1>3
<1> HIDE DEF d, a, behind
<1>5. d.class = c
  BY <1>4, <1>9, BlockClass
<1>6. behind \in BOOLEAN
  BY DEF behind, queued_behind
<1>7. CASE d.verdict = "Admitted"
  <2>1. a.block = "Ok"
    BY <1>4, <1>7, <1>9, BlockVerdict
  <2>2. Room(s, c, sp.caps) /\ ~behind
    BY <1>6, <2>1, AssessedOk DEF a
  <2> QED BY <1>1, <1>5, <1>7, <2>2 DEF Admissible, behind
<1>8. CASE d.verdict = "Queued"
  <2>1. /\ a.block \notin {"Ok", "AccountingFault", "IrreversibleWaitCycle"}
        /\ Cardinality(s.queue[c]) < Policy[c].max_queue_depth
    BY <1>4, <1>8, <1>9, BlockVerdict
  <2> QED BY <1>1, <1>5, <1>8, <2>1 DEF Queueable, a, behind
<1> QED BY <1>7, <1>8

\* Nothing queues after an accounting fault.
LEMMA FaultBlocks ==
  ASSUME NEW s, NEW sp, NEW c, Queueable(s, sp, c)
  PROVE  ~s.fault
<1> DEFINE behind == queued_behind(s, c, sp)
           B == blockers_for(s, c, sp.caps, behind)
           N == {n \in 1..Len(BlockOrder) : BlockOrder[n] \in B}
<1> SUFFICES ASSUME s.fault PROVE FALSE
  BY SMT
<1>1. Len(BlockOrder) = 6 /\ BlockOrder[1] = "AccountingFault"
  BY DEF BlockOrder
<1>2. 1 \in 1..Len(BlockOrder)
  BY <1>1, SMT
<1>3. "AccountingFault" \in B
  BY <1>1, <1>2 DEF blockers_for
<1>4. assess_scope(s, c, sp, None, behind).block \in {"IrreversibleWaitCycle", primary(B)}
  <2> HIDE DEF B
  <2> QED BY DEF assess_scope, B
<1> HIDE DEF B
<1>5. N \in SUBSET Nat /\ 1 \in N
  BY <1>1, <1>2, <1>3, SMT
<1>6. Min(N) = 1
  <2>1. N # {}
    BY <1>5
  <2>2. Min(N) \in N /\ Min(N) <= 1
    BY <1>5, <2>1, MinInSet
  <2>3. N \subseteq 1..6
    BY <1>1, SMT
  <2>4. \A m \in 1..6 : m <= 1 => m = 1
    BY SMT
  <2> QED BY <2>2, <2>3, <2>4
<1>7. primary(B) = "AccountingFault"
  BY <1>1, <1>3, <1>6 DEF primary
<1> QED BY <1>4, <1>7 DEF Queueable

\* features/fairness: a promoted request has no queued predecessor and fits.
LEMMA Selection ==
  ASSUME NEW s, GovernedState(s), NEW i \in select(s)
  PROVE  /\ i \in Queued(s) /\ i \in Ids /\ ~has_queued_predecessor(s, i)
         /\ Room(s, s.class[i], s.spec[i].caps)
<1>1. i \in Queued(s) /\ runnable(s, i)
  BY DEF select, runnable_candidates
<1>2. i \in Ids
  BY <1>1, QueuedIn
<1>3. s.class[i] \in Classes /\ s.spec[i] \in Specs
  BY <1>2 DEF GovernedState
<1>4. assess_scope(s, s.class[i], s.spec[i], s.parent[i], FALSE).block = "Ok"
  BY <1>1 DEF runnable, assess_pending
<1>5. FALSE \in BOOLEAN
  BY SMT
<1>6. Room(s, s.class[i], s.spec[i].caps)
  BY <1>3, <1>4, <1>5, AssessedOk
<1> QED BY <1>1, <1>2, <1>6 DEF runnable

-----------------------------------------------------------------------------
\* The operations of GovState are changes

\* The watermark, the effects and the flags are not what the invariants are about.
LEMMA KeptTime ==
  ASSUME NEW s, GovernedState(s), NEW now \in Nat
  PROVE  Kept(commit_time(s, now), s)
BY CommitTime DEF Kept

\* The wakes to deliver are no part of what is kept.
LEMMA KeptWake ==
  ASSUME NEW s, GovernedState(s), NEW W \in SUBSET Ids
  PROVE  Kept([s EXCEPT !.wake = W], s)
<1> DEFINE g == [s EXCEPT !.wake = W]
<1>1. /\ SameRequests(g, s) /\ SamePermits(g, s) /\ SameTickets(g, s) /\ SameQueues(g, s)
      /\ SameLedgers(g, s) /\ SameFlags(g, s) /\ g.issued = s.issued
      /\ SameTotals(g, s) /\ SameIndexes(g, s)
  BY SetWake
<1> QED BY <1>1 DEF Kept, SameFlags

\* Closing the admission and announcing a pass keep everything else.
LEMMA KeptFlags ==
  ASSUME NEW s, GovernedState(s), NEW b
  PROVE  Kept([s EXCEPT !.closed = b], s) /\ Kept([s EXCEPT !.promotion_pending = b], s)
<1>1. DOMAIN s = DOMAIN Empty
  BY DEF GovernedState
<1> QED BY <1>1, FieldNames, ZenonT(30), SMT DEF Kept, SameRequests, SamePermits, SameLedgers,
      SameTickets, SameQueues, SameTotals, SameIndexes

\* Nothing happens.
LEMMA KeptItself == ASSUME NEW s PROVE Kept(s, s)
BY DEF Kept, SameRequests, SamePermits, SameLedgers, SameTickets, SameQueues, SameTotals,
     SameIndexes

\* Taking the next id changes nothing else.
LEMMA NextId ==
  ASSUME NEW s, GovernedState(s), NEW i
  PROVE  LET g == [s EXCEPT !.issued = i] IN
         /\ SameRequests(g, s) /\ SamePermits(g, s) /\ SameLedgers(g, s) /\ SameTickets(g, s)
         /\ SameQueues(g, s) /\ SameTotals(g, s) /\ SameIndexes(g, s) /\ SameFlags(g, s)
         /\ g.issued = i
<1>1. DOMAIN s = DOMAIN Empty
  BY DEF GovernedState
<1> QED BY <1>1, FieldNames, ZenonT(30), SMT DEF SameRequests, SamePermits, SameLedgers, SameTickets,
      SameQueues, SameTotals, SameIndexes, SameFlags

\* A grant is described by the groups of fields it starts from.
LEMMA OpenedFrom ==
  ASSUME NEW g, NEW r, NEW s, NEW i, NEW sp, NEW c, Opened(g, r, i, sp, c),
         SameRequests(r, s), SamePermits(r, s), SameLedgers(r, s), SameTotals(r, s),
         SameIndexes(r, s)
  PROVE  Opened(g, s, i, sp, c)
BY ZenonT(60), SMT DEF Opened, SameRequests, SamePermits, SameLedgers, SameTotals, SameIndexes

\* Admission grants only what Admissible describes.
LEMMA AdmitChange ==
  ASSUME NEW s, CustodySound(s), s.issued < MaxIds, NEW sp \in Specs,
         admit(s, sp).verdict = "Admitted"
  PROVE  Change(grant([s EXCEPT !.issued = s.issued + 1], s.issued + 1, sp,
                      admit(s, sp).class, parent_permit_for_scope(s, sp), FALSE), s)
<1> DEFINE i == s.issued + 1
           c == admit(s, sp).class
           r == [s EXCEPT !.issued = i]
           p == parent_permit_for_scope(s, sp)
           g == grant(r, i, sp, c, p, FALSE)
<1>1. i \in Ids /\ i \in 0..MaxIds
  <2>1. s.issued \in 0..MaxIds
    BY CustodyTypes DEF CustodySound
  <2> QED BY <2>1, IdsAssumption, SMT DEF Ids
<1>2. Admissible(s, sp, c)
  BY Admission DEF CustodySound
<1>3. p \in Ids \cup {None} /\ GovernedState(s) /\ c \in Classes
  BY <1>2, ParentType DEF CustodySound, Admissible
<1>4. GovernedState(r)
  BY <1>1, <1>3, SetIssued
<1>5. /\ SameRequests(r, s) /\ SamePermits(r, s) /\ SameLedgers(r, s) /\ SameTickets(r, s)
      /\ SameQueues(r, s) /\ SameTotals(r, s) /\ SameIndexes(r, s) /\ SameFlags(r, s)
      /\ r.issued = i
  BY <1>3, NextId
<1> HIDE DEF r, p, c
<1>6. Granting(g, r, i, sp, c, p, FALSE)
  BY <1>1, <1>3, <1>4, Grant
<1> HIDE DEF g
<1>7. Opened(g, s, i, sp, c)
  BY <1>5, <1>6, OpenedFrom DEF Granting
<1>8. SameQueues(g, s) /\ g.fault = s.fault /\ g.issued = i
  BY <1>5, <1>6 DEF Granting, SameQueues, SameFlags
<1>9. SameTickets(g, s) /\ SameBindings(g, s)
  <2>1. /\ g.pending_ticket = r.pending_ticket \cup {}
        /\ g.claim_waker = IF sp.waker THEN r.claim_waker \cup {} ELSE r.claim_waker
        /\ g.tickets = put(r.tickets, i, r.tickets[i])
        /\ g.terminal_order = r.terminal_order
    BY <1>6 DEF Granting, Bound
  <2>2. r.tickets \in [Ids -> TicketStates]
    BY <1>4 DEF GovernedState
  <2>3. put(r.tickets, i, r.tickets[i]) = r.tickets
    BY <2>2, SMT DEF put
  <2>4. r.pending_ticket \cup {} = r.pending_ticket /\ r.claim_waker \cup {} = r.claim_waker
    BY SMT
  <2>5. /\ g.pending_ticket = r.pending_ticket /\ g.claim_waker = r.claim_waker
        /\ g.tickets = r.tickets /\ g.terminal_order = r.terminal_order
    BY <2>1, <2>3, <2>4
  <2> QED BY <1>5, <2>5 DEF SameTickets, SameBindings, SamePermits
<1>10. Fresh(s, sp) /\ Room(s, c, sp.caps) /\ ~has_queued_domain(s, c, sp.caps)
  BY <1>2 DEF Admissible, queued_behind
<1>11. Admitting(g, s, i, sp, c)
  BY <1>1, <1>3, <1>7, <1>8, <1>9, <1>10 DEF Admitting
<1> QED BY <1>11 DEF Change, g, c, r, p

\* Admission queues only what Queueable describes.
LEMMA EnqueueChange ==
  ASSUME NEW s, CustodySound(s), s.issued < MaxIds, NEW sp \in Specs,
         admit(s, sp).verdict = "Queued"
  PROVE  Change(enqueue(s, s.issued + 1, sp, admit(s, sp).class), s)
<1> DEFINE i == s.issued + 1
           c == admit(s, sp).class
           g == enqueue(s, i, sp, c)
<1>1. i \in Ids
  <2>1. s.issued \in 0..MaxIds
    BY CustodyTypes DEF CustodySound
  <2> QED BY <2>1, IdsAssumption, SMT DEF Ids
<1>2. Queueable(s, sp, c)
  BY Admission DEF CustodySound
<1>3. /\ c \in Classes /\ Fresh(s, sp)
      /\ Cardinality(s.queue[c]) < Policy[c].max_queue_depth
  BY <1>2 DEF Queueable
<1>4. ~s.fault
  BY <1>2, FaultBlocks
<1> HIDE DEF c
<1>5. EnqueuedAs(g, s, i, sp, c)
  BY <1>1, <1>3, Enqueue DEF CustodySound
<1>6. Queueing(g, s, i, sp, c)
  BY <1>1, <1>3, <1>4, <1>5 DEF Queueing
<1> QED BY <1>6 DEF Change, c

\* The scheduler promotes only what fits and has no queued predecessor.
LEMMA PromoteChange ==
  ASSUME NEW s, CustodySound(s), NEW i \in select(s)
  PROVE  Change(promote_one(s, i), s)
<1>1. /\ i \in Queued(s) /\ i \in Ids /\ ~has_queued_predecessor(s, i)
      /\ Room(s, s.class[i], s.spec[i].caps)
  BY Selection DEF CustodySound
<1>2. PromotedAs(promote_one(s, i), s, i)
  BY <1>1, PromoteOne_ DEF CustodySound
<1>3. Promoting(promote_one(s, i), s, i)
  BY <1>1, <1>2 DEF Promoting
<1> QED BY <1>3 DEF Change

\* A wait cycle ends as a queued request that leaves.
LEMMA WaitCycleChange ==
  ASSUME NEW s, CustodySound(s), NEW i \in Queued(s)
  PROVE  Change(terminalize_wait_cycle(s, i), s)
<1> DEFINE g == terminalize_wait_cycle(s, i)
<1>1. i \in Ids
  BY QueuedIn DEF CustodySound
<1>2. CycleEnded(g, s, i)
  BY <1>1, TerminalizeWaitCycle DEF CustodySound
<1> HIDE DEF g
<1>3. Leaving(g, s, i)
  BY <1>1, <1>2 DEF CycleEnded, Leaving, SameFlags
<1> QED BY <1>3 DEF Change, g

\* So does a request its holder withdraws.
LEMMA WithdrawChange ==
  ASSUME NEW s, CustodySound(s), NEW i \in Queued(s)
  PROVE  Change(remove_ticket(drop_request(
                  vacate_recursion_guard(remove_pending(s, i), s.spec[i]), i), i), s)
<1> DEFINE m == drop_request(vacate_recursion_guard(remove_pending(s, i), s.spec[i]), i)
           g == remove_ticket(m, i)
<1>1. i \in Ids
  BY QueuedIn DEF CustodySound
<1>2. /\ GovernedState(m) /\ Unqueued(m, s, i) /\ SameTickets(m, s)
      /\ SameFlags(m, s) /\ m.issued = s.issued
  BY <1>1, Dequeue DEF CustodySound
<1> HIDE DEF m
<1>3. /\ SameButTickets(g, m) /\ SameLedgers(g, m)
      /\ g.tickets = put(m.tickets, i, "Unknown") /\ g.terminal_order = m.terminal_order
      /\ SameBindings(g, m)
  BY <1>1, <1>2, RemoveTicket
<1> HIDE DEF g
<1>4. /\ SameRequests(g, m) /\ SamePermits(g, m) /\ SameQueues(g, m) /\ SameTotals(g, m)
      /\ SameIndexes(g, m)
  BY <1>3 DEF SameButTickets, SamePermits, SameBindings
<1>5. Unqueued(g, s, i)
  BY <1>2, <1>3, <1>4, ZenonT(60), SMT DEF Unqueued, SameRequests, SamePermits, SameQueues, SameTotals,
     SameIndexes, SameLedgers
<1>6. /\ g.issued = s.issued /\ g.fault = s.fault
      /\ g.tickets = put(s.tickets, i, "Unknown") /\ g.terminal_order = s.terminal_order
  BY <1>2, <1>3 DEF SameButTickets, SameFlags, SameTickets
<1>7. Leaving(g, s, i)
  BY <1>1, <1>5, <1>6 DEF Leaving
<1> QED BY <1>7 DEF Change, g, m

\* The fault is set, then the queues are emptied.
LEMMA FaultChange ==
  ASSUME NEW s, CustodySound(s)
  PROVE  Change(terminalize_queued_for_accounting_fault([s EXCEPT !.fault = TRUE]), s)
<1> DEFINE r == [s EXCEPT !.fault = TRUE]
           g == terminalize_queued_for_accounting_fault(r)
<1>1. GovernedState(r)
  <2>1. TRUE \in BOOLEAN /\ {} \in SUBSET Ids
    BY SMT
  <2> QED BY <2>1, CustodyFlags DEF CustodySound
<1>2. /\ SameRequests(r, s) /\ SamePermits(r, s) /\ SameLedgers(r, s) /\ SameTickets(r, s)
      /\ SameQueues(r, s) /\ SameTotals(r, s) /\ SameIndexes(r, s)
      /\ r.issued = s.issued /\ r.fault = TRUE
  <2>1. DOMAIN s = DOMAIN Empty
    BY DEF GovernedState, CustodySound
  <2> QED BY <2>1, FieldNames, ZenonT(30), SMT DEF SameRequests, SamePermits, SameLedgers, SameTickets,
        SameQueues, SameTotals, SameIndexes
<1> HIDE DEF r
<1>3. Emptied(g, r) /\ g.fault = r.fault /\ g.issued = r.issued
  BY <1>1, TerminalizeQueued
<1> HIDE DEF g
<1>4. Queued(r) = Queued(s)
  BY <1>2 DEF Queued, SameQueues
<1> DEFINE without(h, G, x) == [i \in Ids |-> IF i \in G THEN x ELSE h[i]]
           vacated(h, G) == UNION {stages_of(h[i]) : i \in G}
           emptied(q) == /\ g.recursion = q.recursion \ vacated(q.spec, Queued(q))
                         /\ g.tickets = without(q.tickets, Queued(q), "Faulted")
                         /\ g.spec = without(q.spec, Queued(q), AnySpec)
                         /\ g.class = without(q.class, Queued(q), AnyClass)
                         /\ g.parent = without(q.parent, Queued(q), None)
<1>5. Emptied(g, s)
  <2>1. emptied(r)
    BY <1>3 DEF Emptied
  <2>2. emptied(s)
    <3> HIDE DEF without, vacated
    <3> QED BY <1>2, <1>4, <2>1 DEF SameRequests, SameTickets, SameIndexes
  <2>3. /\ g.queue = [c \in Classes |-> {}] /\ g.queued_ops = {}
        /\ g.op_permit = r.op_permit /\ g.terminal_order = r.terminal_order
        /\ SamePermits(g, r) /\ SameLedgers(g, r) /\ SameTotals(g, r)
    BY <1>3 DEF Emptied
  <2>4. /\ g.op_permit = s.op_permit /\ g.terminal_order = s.terminal_order
        /\ SamePermits(g, s) /\ SameLedgers(g, s) /\ SameTotals(g, s)
    BY <1>2, <2>3 DEF SamePermits, SameLedgers, SameTickets, SameTotals, SameIndexes
  <2> QED BY <2>2, <2>3, <2>4 DEF Emptied
<1>6. Emptying(g, s)
  BY <1>2, <1>3, <1>5 DEF Emptying
<1> QED BY <1>6 DEF Change, g, r

\* A release, a refund or a reclamation ends a permit.
LEMMA UnwindChange ==
  ASSUME NEW s, CustodySound(s), NEW i \in s.permits, NEW reason \in TerminalReasons
  PROVE  Change(unwind(s, i, reason), s)
<1>1. i \in Ids
  BY CustodyTypes DEF CustodySound
<1>2. Unwound(unwind(s, i, reason), s, i, reason)
  BY <1>1, Unwind DEF CustodySound
<1>3. Ending(unwind(s, i, reason), s, i)
  BY <1>1, <1>2 DEF Ending
<1> QED BY <1>3 DEF Change

\* A declared phase.
LEMMA AdvanceChange ==
  ASSUME NEW s, CustodySound(s), NEW i \in Ids, NEW p \in Phases, can_advance(s, i, p)
  PROVE  Change(advance_phase(s, i, p), s)
<1> DEFINE g == advance_phase(s, i, p)
<1>0. GovernedState(s)
  BY DEF CustodySound
<1>1. /\ Advanced(g, s, i, p) /\ SameQueues(g, s) /\ SameTickets(g, s) /\ SameFlags(g, s)
      /\ g.issued = s.issued
      /\ g.pending_ticket = s.pending_ticket /\ g.claim_waker = s.claim_waker
  BY <1>0, AdvancePhase
<1> HIDE DEF g
<1>2. Advancing(g, s, i, p)
  BY <1>1 DEF Advancing, can_advance, SameFlags, SameBindings
<1> QED BY <1>2 DEF Change, g

\* A newer reading.
LEMMA ReconcileChange ==
  ASSUME NEW s, CustodySound(s), NEW i \in s.permits, NEW bytes \in Nat, NEW sequence \in Nat,
         sequence > s.mseq[i]
  PROVE  Change(reconcile(s, i, bytes, sequence), s)
<1>1. i \in Ids
  BY CustodyTypes DEF CustodySound
<1>2. \E u \in Nat : Reconciled(reconcile(s, i, bytes, sequence), s, i, sequence, u)
  BY <1>1, ReconcileType DEF CustodySound
<1>3. Metering(reconcile(s, i, bytes, sequence), s, i)
  BY <1>2 DEF Metering
<1> QED BY <1>3 DEF Change

\* A stage boundary.
LEMMA ReleaseStageChange ==
  ASSUME NEW s, CustodySound(s), NEW i \in s.permits, NEW n \in Nat, NEW sequence \in Nat,
         sequence # None => sequence > s.sseq[i]
  PROVE  Change(release_stage_memory(s, i, n, sequence), s)
<1>1. i \in Ids
  BY CustodyTypes DEF CustodySound
<1>2. \E freed \in 0..s.units[i] :
        StageReturned(release_stage_memory(s, i, n, sequence), s, i, sequence, freed)
  BY <1>1, ReleaseStageType DEF CustodySound
<1>3. Metering(release_stage_memory(s, i, n, sequence), s, i)
  BY <1>2 DEF Metering
<1> QED BY <1>3 DEF Change

\* The two halves of claim, and an answer that is taken.
LEMMA ClaimChange ==
  ASSUME NEW s, CustodySound(s), NEW i \in Ids
  PROVE  /\ s.tickets[i] = "Granted" => Change(begin_claim(s, i), s)
         /\ s.tickets[i] = "Claiming" => Change(finish_claim(s, i), s)
         /\ Forgetting(forget_terminal_ticket(s, i), s, i)
<1>0. GovernedState(s)
  BY DEF CustodySound
<1>1. ASSUME s.tickets[i] = "Granted" PROVE Claiming(begin_claim(s, i), s, i)
  <2> DEFINE g == begin_claim(s, i)
  <2>1. /\ SameButTickets(g, s)
        /\ g.tickets = put(s.tickets, i, "Claiming") /\ g.terminal_order = s.terminal_order
        /\ g.pending_ticket = s.pending_ticket /\ g.claim_waker = s.claim_waker \ {i}
        /\ g.units = s.units /\ g.remaining = s.remaining /\ g.mseq = s.mseq
        /\ g.sseq = s.sseq
        /\ \E w \in Nat : w >= s.touched[i] /\ g.touched = put(s.touched, i, w)
    BY <1>0, BeginClaim, SMT
  <2> HIDE DEF g
  <2> QED BY <1>1, <2>1 DEF Claiming, Touched, g
<1>2. ASSUME s.tickets[i] = "Claiming" PROVE Claimed(finish_claim(s, i), s, i)
  <2> DEFINE g == finish_claim(s, i)
  <2>1. /\ SameButTickets(g, s)
        /\ g.tickets = put(s.tickets, i, "Unknown") /\ g.terminal_order = s.terminal_order
        /\ g.pending_ticket = s.pending_ticket \ {i} /\ g.claim_waker = s.claim_waker
        /\ g.units = s.units /\ g.remaining = s.remaining /\ g.mseq = s.mseq
        /\ g.sseq = s.sseq
        /\ \E w \in Nat : w >= s.touched[i] /\ g.touched = put(s.touched, i, w)
    BY <1>0, FinishClaim, SMT
  <2> HIDE DEF g
  <2> QED BY <1>2, <2>1 DEF Claimed, Touched, g
<1>3. Forgetting(forget_terminal_ticket(s, i), s, i)
  BY ForgetTerminalTicket DEF Forgetting, CustodySound
<1> QED BY <1>1, <1>2, <1>3 DEF Change

\* A claim that fails while a worker holds the lease ends the ticket only.
LEMMA FailChange ==
  ASSUME NEW s, CustodySound(s), NEW i \in Ids, s.tickets[i] = "Claiming",
         NEW reason \in TerminalReasons
  PROVE  Change(record_terminal_ticket(
                  [s EXCEPT !.pending_ticket = s.pending_ticket \ {i}], i, reason), s)
<1> DEFINE P == s.pending_ticket \ {i}
           r == [s EXCEPT !.pending_ticket = P]
           g == record_terminal_ticket(r, i, reason)
<1>1. GovernedState(r)
  <2>1. TRUE \in BOOLEAN /\ P \in SUBSET Ids
    BY ZenonT(30), SMT DEF GovernedState, CustodySound
  <2> QED BY <2>1, CustodyFlags DEF CustodySound
<1>2. /\ SameButTickets(r, s) /\ SameLedgers(r, s) /\ SameTickets(r, s)
      /\ r.pending_ticket = P /\ r.claim_waker = s.claim_waker
  <2>1. DOMAIN s = DOMAIN Empty
    BY DEF GovernedState, CustodySound
  <2> QED BY <2>1, FieldNames, ZenonT(30), SMT DEF SameButTickets, SameRequests, SameLedgers,
        SameTickets, SameQueues, SameTotals, SameIndexes, SameFlags
<1> HIDE DEF r
<1>3. /\ SameButTickets(g, r) /\ SameLedgers(g, r)
      /\ Recorded(g, r, i, reason) /\ SameBindings(g, r)
  BY <1>1, RecordTerminalTicket
<1> HIDE DEF g
<1>4. SameButTickets(g, s) /\ SameLedgers(g, s)
  BY <1>2, <1>3, ZenonT(60), SMT DEF SameButTickets, SameRequests, SameLedgers, SameQueues, SameTotals,
     SameIndexes, SameFlags
<1>5. Recorded(g, s, i, reason)
  BY <1>2, <1>3 DEF Recorded, SameTickets
<1>6. Failing(g, s, i)
  BY <1>2, <1>3, <1>4, <1>5 DEF Failing, SameBindings
<1> QED BY <1>6 DEF Change, g, r

\* A change alone is a step.
LEMMA StepOne ==
  ASSUME NEW s, NEW g, CustodySound(s), CustodySound(g), Change(g, s)
  PROVE  Step(g, s)
BY KeptItself DEF Step

\* So is none.
LEMMA StepKept ==
  ASSUME NEW s, NEW g, CustodySound(s), CustodySound(g), Kept(g, s)
  PROVE  Step(g, s)
BY KeptItself DEF Step, Change

-----------------------------------------------------------------------------
\* What a transition lets start

\* assess_scope reports Ok for work that fits and waits for nobody.
LEMMA FitsIsOk ==
  ASSUME NEW s, GovernedState(s), NEW c \in Classes, NEW sp \in Specs, NEW parent,
         Room(s, c, sp.caps)
  PROVE  assess_scope(s, c, sp, parent, FALSE).block = "Ok"
<1> DEFINE B == blockers_for(s, c, sp.caps, FALSE)
<1>1. /\ s.inflight[c] \in Nat /\ s.cpu \in Nat /\ s.mem \in Nat /\ s.in_use \in [Caps -> Nat]
      /\ Policy[c].max_inflight \in Nat /\ Policy[c].cpu \in Nat /\ Policy[c].mem \in Nat
      /\ sp.caps \subseteq Caps
  BY ClassesAssumption, SpecFields DEF GovernedState, ClassPolicies
<1>2. full_pools(s, sp.caps) = {}
  BY <1>1, BudgetAssumption, SMT DEF Room, full_pools
<1>3. /\ ~s.fault /\ ~(s.inflight[c] >= Policy[c].max_inflight)
      /\ ~(MaxCpuUnits # 0 /\ s.cpu + Policy[c].cpu > MaxCpuUnits)
      /\ ~(MaxMemUnits # 0 /\ s.mem + Policy[c].mem > MaxMemUnits)
  BY <1>1, BudgetAssumption, SMT DEF Room
<1>4. B = {}
  <2>1. {BlockOrder[n] : n \in 1..Len(BlockOrder)} \subseteq
          {"AccountingFault", "Inflight", "Capability", "Cpu", "Memory", "QueuedBehind"}
    BY SMT DEF BlockOrder
  <2>2. /\ "AccountingFault" \notin B /\ "Inflight" \notin B /\ "Capability" \notin B
        /\ "Cpu" \notin B /\ "Memory" \notin B /\ "QueuedBehind" \notin B
    BY <1>2, <1>3 DEF blockers_for
  <2>3. B \subseteq {BlockOrder[n] : n \in 1..Len(BlockOrder)}
    BY DEF blockers_for
  <2> HIDE DEF B
  <2> QED BY <2>1, <2>2, <2>3
<1>5. cycle_witness(s, c, sp, parent, {}) = {} /\ primary({}) = "Ok"
  BY DEF cycle_witness, primary
<1> HIDE DEF B
<1> QED BY <1>4, <1>5 DEF assess_scope, B

\* If something queued could start, the scheduler has a candidate.
LEMMA StartableIsRunnable ==
  ASSUME NEW s, CustodySound(s), NEW i \in Queued(s), Startable(s, i)
  PROVE  has_runnable(s)
<1> DEFINE c == s.class[i]
           I == {j \in s.queue[c] : runnable(s, j)}
<1>1. /\ GovernedState(s) /\ i \in Ids /\ c \in Classes /\ s.spec[i] \in Specs
      /\ i \in s.queue[c] /\ s.queue[c] \in SUBSET Ids
  <2>1. GovernedState(s) /\ i \in Ids
    BY QueuedIn DEF CustodySound
  <2>2. c \in Classes /\ s.spec[i] \in Specs /\ s.queue \in [Classes -> SUBSET Ids]
    BY <2>1 DEF GovernedState
  <2>3. PICK d \in Classes : i \in s.queue[d]
    BY <2>1, QueuedIn
  <2>4. d = c
    BY <2>3 DEF CustodySound
  <2> QED BY <2>1, <2>2, <2>3, <2>4
<1>2. runnable(s, i)
  BY <1>1, FitsIsOk DEF Startable, runnable, assess_pending
<1>3. I \in SUBSET Nat /\ I # {}
  BY <1>1, <1>2, NoneNat
<1>4. Min(I) \in I /\ \A n \in I : Min(I) <= n
  <2> HIDE DEF I
  <2> QED BY <1>3, MinInSet
<1>5. PICK m \in I : \A n \in I : m <= n
  BY <1>4
<1>6. /\ m \in Queued(s) /\ s.class[m] = c /\ m \in Nat
  BY <1>1, <1>3, <1>5, QueuedIn DEF CustodySound
<1>7. ASSUME NEW j \in s.queue[c], j < m PROVE ~runnable(s, j)
  <2>1. j \in Nat
    BY <1>1, NoneNat
  <2>2. ~(m <= j)
    BY <1>6, <1>7, <2>1, SMT
  <2> QED BY <1>5, <2>2
<1> QED BY <1>5, <1>6, <1>7 DEF has_runnable, runnable_candidates

\* Nothing that was blocked can start.
Calm(g, s) ==
  /\ g.promotion_pending = s.promotion_pending
  /\ ~s.promotion_pending =>
       \A i \in Queued(g) : Startable(g, i) => i \in Queued(s) /\ Startable(s, i)

\* Two such changes are one.
LEMMA CalmTwice ==
  ASSUME NEW s, NEW g, NEW h, Calm(g, s), Calm(h, g)
  PROVE  Calm(h, s)
BY DEF Calm

\* The requests, the queues and the totals stay.
LEMMA CalmSame ==
  ASSUME NEW s, NEW g, SameRequests(g, s), SameQueues(g, s), SameTotals(g, s),
         g.fault = s.fault, g.promotion_pending = s.promotion_pending
  PROVE  Calm(g, s)
<1>1. Queued(g) = Queued(s)
  BY DEF Queued, SameQueues
<1>2. \A i : has_queued_predecessor(g, i) <=> has_queued_predecessor(s, i)
  BY DEF has_queued_predecessor, SameRequests, SameQueues
<1>3. \A i : Room(g, g.class[i], g.spec[i].caps) <=> Room(s, s.class[i], s.spec[i].caps)
  BY DEF Room, SameRequests, SameTotals
<1> QED BY <1>1, <1>2, <1>3 DEF Calm, Startable

\* So it is for the transitions that touch tickets only.
LEMMA CalmTickets ==
  ASSUME NEW s, NEW g, SameButTickets(g, s)
  PROVE  Calm(g, s)
BY CalmSame DEF SameButTickets, SameFlags

\* Of the queued requests, one that is not i is what it was.
LEMMA CalmOpened ==
  ASSUME NEW s, GovernedState(s), NEW i \in Ids, i \notin Queued(s), NEW sp \in Specs,
         NEW c \in Classes, NEW g, Opened(g, s, i, sp, c), SameQueues(g, s),
         g.fault = s.fault, g.promotion_pending = s.promotion_pending
  PROVE  Calm(g, s)
<1>1. Queued(g) = Queued(s)
  BY DEF Queued, SameQueues
<1>2. \A j \in Queued(s) : g.class[j] = s.class[j] /\ g.spec[j] = s.spec[j]
                           /\ s.class[j] \in Classes /\ s.spec[j].caps \subseteq Caps
  <2>1. ASSUME NEW j \in Queued(s) PROVE j \in Ids /\ j # i
    BY <2>1, QueuedIn
  <2>2. /\ s.class \in [Ids -> Classes] /\ s.spec \in [Ids -> Specs]
        /\ g.class = put(s.class, i, c) /\ g.spec = put(s.spec, i, sp)
    BY DEF GovernedState, Opened
  <2>3. \A j \in Ids : j # i => g.class[j] = s.class[j] /\ g.spec[j] = s.spec[j]
    BY <2>2, SMT DEF put
  <2>4. \A j \in Ids : s.class[j] \in Classes /\ s.spec[j].caps \subseteq Caps
    BY <2>2, SpecFields
  <2> QED BY <2>1, <2>3, <2>4
<1>3. ASSUME NEW j \in Queued(s), has_queued_predecessor(s, j)
      PROVE  has_queued_predecessor(g, j)
  <2>1. PICK k \in s.queue[s.class[j]] : k < j /\ intersects(s.spec[j].caps, s.spec[k].caps)
    BY <1>3 DEF has_queued_predecessor
  <2>2. k \in Queued(s) /\ k \in g.queue[g.class[j]]
    BY <1>2, <1>3, <2>1, QueuedIn DEF SameQueues
  <2> QED BY <1>2, <1>3, <2>1, <2>2 DEF has_queued_predecessor
<1>4. ASSUME NEW d \in Classes, NEW caps \in SUBSET Caps, Room(g, d, caps) PROVE Room(s, d, caps)
  <2>1. /\ s.inflight \in [Classes -> Nat] /\ s.in_use \in [Caps -> Nat]
        /\ s.cpu \in Nat /\ s.mem \in Nat
        /\ Policy[c].cpu \in Nat /\ Policy[c].mem \in Nat
        /\ Policy[d].cpu \in Nat /\ Policy[d].mem \in Nat /\ Policy[d].max_inflight \in Nat
    BY ClassesAssumption DEF GovernedState, ClassPolicies
  <2>2. /\ g.inflight = credit(s.inflight, c, 1)
        /\ g.cpu = s.cpu + Policy[c].cpu /\ g.mem = s.mem + Policy[c].mem
        /\ g.in_use = [k \in Caps |-> s.in_use[k] + (IF k \in sp.caps THEN 1 ELSE 0)]
    BY DEF Opened
  <2>3. s.inflight[d] < Policy[d].max_inflight
    <3>1. g.inflight[d] < Policy[d].max_inflight
      BY <1>4 DEF Room
    <3> QED BY <2>1, <2>2, <3>1, SMT DEF credit
  <2>4. ASSUME NEW k \in caps, CapLimit[k] # 0 PROVE s.in_use[k] < CapLimit[k]
    <3>1. g.in_use[k] < CapLimit[k] /\ k \in Caps /\ CapLimit[k] \in Nat
      BY <1>4, <2>4, BudgetAssumption DEF Room
    <3> QED BY <2>1, <2>2, <3>1, SMT
  <2>5. /\ MaxCpuUnits # 0 => s.cpu + Policy[d].cpu <= MaxCpuUnits
        /\ MaxMemUnits # 0 => s.mem + Policy[d].mem <= MaxMemUnits
    <3>1. /\ MaxCpuUnits # 0 => g.cpu + Policy[d].cpu <= MaxCpuUnits
          /\ MaxMemUnits # 0 => g.mem + Policy[d].mem <= MaxMemUnits
      BY <1>4 DEF Room
    <3> QED BY <2>1, <2>2, <3>1, BudgetAssumption, SMT
  <2>6. ~s.fault
    BY <1>4 DEF Room
  <2> QED BY <2>3, <2>4, <2>5, <2>6 DEF Room
<1>5. ASSUME NEW j \in Queued(s), Startable(g, j) PROVE Startable(s, j)
  <2>1. Room(g, s.class[j], s.spec[j].caps) /\ ~has_queued_predecessor(g, j)
    BY <1>2, <1>5 DEF Startable
  <2>2. Room(s, s.class[j], s.spec[j].caps)
    BY <1>2, <1>4, <1>5, <2>1
  <2> QED BY <1>3, <1>5, <2>1, <2>2 DEF Startable
<1> QED BY <1>1, <1>5 DEF Calm

\* A newcomer is queued because it does not fit, waits for another, or a pass is owed.
LEMMA CalmEnqueued ==
  ASSUME NEW s, CustodySound(s), NEW i \in Ids, i = s.issued + 1, NEW sp \in Specs,
         NEW c \in Classes, Queueable(s, sp, c), NEW g, EnqueuedAs(g, s, i, sp, c)
  PROVE  Calm(g, s)
<1>1. /\ g.promotion_pending = s.promotion_pending /\ g.fault = s.fault /\ SameTotals(g, s)
      /\ g.queue = put(s.queue, c, s.queue[c] \cup {i})
      /\ g.class = put(s.class, i, c) /\ g.spec = put(s.spec, i, sp)
  BY DEF EnqueuedAs, SameFlags
<1>2. GovernedState(s) /\ s.queue \in [Classes -> SUBSET Ids] /\ s.class \in [Ids -> Classes]
      /\ s.spec \in [Ids -> Specs] /\ s.issued \in Nat
  <2>1. /\ GovernedState(s) /\ s.queue \in [Classes -> SUBSET Ids] /\ s.class \in [Ids -> Classes]
        /\ s.spec \in [Ids -> Specs] /\ s.issued \in 0..MaxIds
    BY DEF CustodySound, GovernedState
  <2> QED BY <2>1, SMT
<1>3. ASSUME NEW d \in Classes, NEW k \in s.queue[d]
      PROVE  k \in Ids /\ k < i /\ k # i /\ k \in Queued(s) /\ s.class[k] = d
  <2>1. k \in Ids /\ k <= s.issued /\ k \in Queued(s) /\ s.class[k] = d
    BY <1>2, <1>3, QueuedIn DEF CustodySound
  <2> QED BY <1>2, <2>1, NoneNat, SMT
<1>4. /\ \A d \in Classes : s.queue[d] \subseteq g.queue[d] /\ g.queue[d] \subseteq s.queue[d] \cup {i}
      /\ g.class[i] = c /\ g.spec[i] = sp
      /\ \A j \in Ids : j # i => g.class[j] = s.class[j] /\ g.spec[j] = s.spec[j]
  BY <1>1, <1>2, SMT DEF put
<1>5. \A d, caps : Room(g, d, caps) <=> Room(s, d, caps)
  BY <1>1 DEF Room, SameTotals
<1>6. ASSUME ~s.promotion_pending, Room(s, c, sp.caps) PROVE has_queued_predecessor(g, i)
  <2>1. queued_behind(s, c, sp)
    <3>1. ASSUME ~queued_behind(s, c, sp) PROVE FALSE
      <4>1. queued_behind(s, c, sp) = FALSE
        BY <3>1 DEF queued_behind
      <4>2. assess_scope(s, c, sp, None, FALSE).block # "Ok"
        BY <4>1 DEF Queueable
      <4> QED BY <1>2, <1>6, <4>2, FitsIsOk
    <3> QED BY <3>1
  <2>2. PICK k \in s.queue[c] : intersects(sp.caps, s.spec[k].caps)
    BY <1>6, <2>1 DEF queued_behind, has_queued_domain
  <2>3. k \in Ids /\ k < i /\ k # i /\ k \in g.queue[c] /\ g.spec[k] = s.spec[k]
    BY <1>3, <1>4, <2>2
  <2> QED BY <1>4, <2>2, <2>3 DEF has_queued_predecessor
<1>7. ASSUME NEW j \in Queued(g), Startable(g, j), ~s.promotion_pending
      PROVE  j \in Queued(s) /\ Startable(s, j)
  <2>1. j # i
    BY <1>4, <1>5, <1>6, <1>7 DEF Startable
  <2>2. j \in Queued(s)
    <3>1. PICK d \in Classes : j \in g.queue[d]
      BY <1>7 DEF Queued
    <3> QED BY <1>3, <1>4, <2>1, <3>1
  <2>3. j \in Ids /\ s.class[j] \in Classes
    BY <1>2, <2>2, QueuedIn
  <2>4. g.class[j] = s.class[j] /\ g.spec[j] = s.spec[j]
    BY <1>4, <2>1, <2>3
  <2>5. ASSUME has_queued_predecessor(s, j) PROVE has_queued_predecessor(g, j)
    <3>1. PICK k \in s.queue[s.class[j]] : k < j /\ intersects(s.spec[j].caps, s.spec[k].caps)
      BY <2>5 DEF has_queued_predecessor
    <3>2. k \in Ids /\ k # i /\ k \in g.queue[g.class[j]]
      BY <1>3, <1>4, <2>3, <2>4, <3>1
    <3>3. g.spec[k] = s.spec[k]
      BY <1>4, <3>2
    <3> QED BY <2>4, <3>1, <3>2, <3>3 DEF has_queued_predecessor
  <2>6. Room(s, s.class[j], s.spec[j].caps)
    BY <1>5, <1>7, <2>4 DEF Startable
  <2> QED BY <1>7, <2>2, <2>5, <2>6 DEF Startable
<1> QED BY <1>1, <1>7 DEF Calm

\* A ticket that is claimed, answered or forgotten makes no room.
LEMMA TicketsCalm ==
  ASSUME NEW s, GovernedState(s), NEW i \in Ids, NEW reason \in TerminalReasons
  PROVE  /\ Calm(begin_claim(s, i), s) /\ Calm(finish_claim(s, i), s)
         /\ Calm(forget_terminal_ticket(s, i), s) /\ Calm(remove_ticket(s, i), s)
         /\ Calm(record_terminal_ticket(s, i, reason), s)
<1>1. SameButTickets(begin_claim(s, i), s) /\ SameButTickets(finish_claim(s, i), s)
  BY ClaimHalves
<1>2. SameButTickets(forget_terminal_ticket(s, i), s)
  BY ForgetTerminalTicket
<1>3. SameButTickets(remove_ticket(s, i), s)
  BY RemoveTicket
<1>4. SameButTickets(record_terminal_ticket(s, i, reason), s)
  BY RecordTerminalTicket
<1> QED BY <1>1, <1>2, <1>3, <1>4, CalmTickets

=============================================================================
