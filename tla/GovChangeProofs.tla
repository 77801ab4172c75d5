-------------------------- MODULE GovChangeProofs ---------------------------
(***************************************************************************)
(* Each kind of change keeps the invariants of the state: capacity, FIFO order *)
(* within a domain, identities and lineages, tickets and their ring.       *)
(***************************************************************************)
EXTENDS GovChanges, SequenceTheorems, FiniteSetTheorems, TLAPS

\* A leaf is for Zenon unless it names another prover.
USE Zenon

\* No id is None.
LEMMA NoIdIsNone == None = 0 /\ Ids \subseteq Nat /\ None \notin Ids
BY IdsAssumption, SMT DEF None, Ids

\* What is queued is in the queue of some class.
LEMMA WhereQueued ==
  ASSUME NEW s, GovernedState(s), NEW i
  PROVE  /\ i \in Queued(s) => i \in Ids
         /\ i \in Queued(s) <=> \E c \in Classes : i \in s.queue[c]
<1>1. s.queue \in [Classes -> SUBSET Ids]
  BY DEF GovernedState
<1> QED BY <1>1 DEF Queued

-----------------------------------------------------------------------------
\* The ring of terminal tickets


\* r is q without its entry k.
Without(r, q, k) ==
  /\ Len(r) = Len(q) - 1
  /\ \A n \in 1..Len(r) : r[n] = IF n < k THEN q[n] ELSE q[n + 1]


\* Taking a ticket out of a ring that holds it once closes the gap.
LEMMA UnlistedAt ==
  ASSUME NEW q \in Seq(Ids), NEW i, NEW k \in 1..Len(q), q[k] = i, Once(q)
  PROVE  Without(unlisted(q, i), q, k)
<1> DEFINE r == [n \in 1..(Len(q) - 1) |-> q[IF n < k THEN n ELSE n + 1]]
<1>1. (CHOOSE n \in 1..Len(q) : q[n] = i) = k
  BY DEF Once
<1>2. unlisted(q, i) = r
  BY <1>1 DEF unlisted
<1>3. Len(q) \in Nat /\ Len(q) - 1 \in Nat /\ \A n \in 1..Len(q) : q[n] \in Ids
  BY LenProperties, SMT
<1>4. \A n \in 1..(Len(q) - 1) : (IF n < k THEN n ELSE n + 1) \in 1..Len(q)
  BY <1>3, SMT
<1>5. \A n \in 1..(Len(q) - 1) : r[n] \in Ids
  BY <1>3, <1>4
<1>6. r \in Seq(Ids)
  <2>1. r \in [1..(Len(q) - 1) -> Ids]
    BY <1>5
  <2>2. Seq(Ids) = UNION {[1..n -> Ids] : n \in Nat}
    BY SeqDef
  <2> HIDE DEF r
  <2> QED BY <1>3, <2>1, <2>2
<1>7. DOMAIN r = 1..(Len(q) - 1)
  BY SMT
<1>8. Len(r) = Len(q) - 1
  <2> HIDE DEF r
  <2>1. Len(r) \in Nat /\ DOMAIN r = 1..Len(r)
    BY <1>6, LenProperties
  <2> QED BY <1>3, <1>7, <2>1, SMT
<1>9. \A n \in 1..Len(r) : r[n] = IF n < k THEN q[n] ELSE q[n + 1]
  BY <1>8
<1> QED BY <1>2, <1>8, <1>9 DEF Without

\* A ring without the ticket is left as it is.
LEMMA UnlistedOther ==
  ASSUME NEW q, NEW i, \A n \in 1..Len(q) : q[n] # i
  PROVE  unlisted(q, i) = q
BY DEF unlisted

\* A ticket that has no terminal answer and gets none does not concern the ring.
LEMMA RingPut ==
  ASSUME NEW q \in Seq(Ids), NEW f \in [Ids -> TicketStates], RingSound(q, f), NEW i \in Ids,
         f[i] \notin TerminalReasons, NEW v, v \notin TerminalReasons
  PROVE  RingSound(q, put(f, i, v))
<1>1. \A n \in 1..Len(q) : q[n] \in Ids
  BY LenProperties
<1>2. \A j \in Ids : put(f, i, v)[j] = IF j = i THEN v ELSE f[j]
  BY SMT DEF put
<1> QED BY <1>1, <1>2 DEF RingSound

\* Ticket i has a terminal answer now, and at most one other answer is gone.
Answered(g, s, i) ==
  /\ RingSound(g.terminal_order, g.tickets)
  /\ g.tickets[i] \in TerminalReasons \cup {"Unknown"}
  /\ \A j \in Ids \ {i} :
       g.tickets[j] = s.tickets[j] \/ (s.tickets[j] \in TerminalReasons /\ g.tickets[j] = "Unknown")

\* record_terminal_ticket on a ticket without a terminal answer.
LEMMA RingRecorded ==
  ASSUME NEW s, GovernedState(s), NEW g, NEW i \in Ids, NEW reason \in TerminalReasons,
         RingSound(s.terminal_order, s.tickets), s.tickets[i] \notin TerminalReasons,
         Recorded(g, s, i, reason)
  PROVE  Answered(g, s, i)
<1> DEFINE q == s.terminal_order
           f == s.tickets
           order == Append(q, i)
           answered == put(f, i, reason)
<1>1. q \in Seq(Ids) /\ f \in [Ids -> TicketStates]
  BY DEF GovernedState
<1>2. Len(q) \in Nat /\ \A n \in 1..Len(q) : q[n] \in Ids
  BY <1>1, LenProperties
<1>3. \A n \in 1..Len(q) : q[n] # i
  BY DEF RingSound
<1>4. unlisted(q, i) = q
  BY <1>3, UnlistedOther
<1>5. \A j \in Ids : answered[j] = IF j = i THEN reason ELSE f[j]
  BY <1>1, SMT DEF put
<1>6. /\ order \in Seq(Ids) /\ Len(order) = Len(q) + 1 /\ order[Len(q) + 1] = i
      /\ \A n \in 1..Len(q) : order[n] = q[n]
  BY <1>1, AppendProperties, SMT
<1>7. IF Len(order) <= MaxTerminal
      THEN g.terminal_order = order /\ g.tickets = answered
      ELSE /\ g.terminal_order = Tail(order)
           /\ g.tickets = IF answered[Head(order)] \in TerminalReasons
                          THEN put(answered, Head(order), "Unknown") ELSE answered
  BY <1>4 DEF Recorded
<1>8. "Unknown" \notin TerminalReasons
  BY DEF TerminalReasons
<1>9. /\ \A n \in 1..Len(q) : f[q[n]] \in TerminalReasons
      /\ \A j \in Ids : f[j] \in TerminalReasons => \E n \in 1..Len(q) : q[n] = j
      /\ \A m, n \in 1..Len(q) : q[m] = q[n] => m = n
      /\ Len(q) <= MaxTerminal
  BY DEF RingSound, Once
<1> HIDE DEF q, f, order, answered
<1>10. 1..Len(order) = 1..Len(q) \cup {Len(q) + 1} /\ Len(q) + 1 \notin 1..Len(q)
  BY <1>2, <1>6, SMT
<1>11. \A n \in 1..Len(order) : order[n] \in Ids /\ answered[order[n]] \in TerminalReasons
  BY <1>2, <1>5, <1>6, <1>9, <1>10, SMT
<1>12. \A j \in Ids : answered[j] \in TerminalReasons => \E n \in 1..Len(order) : order[n] = j
  BY <1>5, <1>6, <1>9, <1>10, SMT
<1>13. \A m, n \in 1..Len(order) : order[m] = order[n] => m = n
  BY <1>3, <1>6, <1>9, <1>10, SMT
<1>14. CASE Len(order) <= MaxTerminal
  <2>1. g.terminal_order = order /\ g.tickets = answered
    BY <1>7, <1>14
  <2>2. RingSound(order, answered)
    BY <1>11, <1>12, <1>13, <1>14 DEF RingSound, Once
  <2>3. \A j \in Ids \ {i} : answered[j] = s.tickets[j]
    BY <1>5 DEF f
  <2>4. answered[i] \in TerminalReasons \cup {"Unknown"}
    BY <1>5
  <2> QED BY <2>1, <2>2, <2>3, <2>4 DEF Answered
<1>15. CASE ~(Len(order) <= MaxTerminal)
  <2> DEFINE o == Head(order)
             rest == Tail(order)
  <2>1. o = order[1] /\ 1 \in 1..Len(order)
    BY <1>2, <1>6, SMT
  <2>2. /\ Len(rest) = Len(q) /\ \A n \in 1..Len(q) : rest[n] = order[n + 1]
    BY <1>2, <1>6, <1>10, SMT
  <2> HIDE DEF o, rest
  <2>3. o \in Ids /\ answered[o] \in TerminalReasons
    BY <1>11, <2>1
  <2>4. g.terminal_order = rest /\ g.tickets = put(answered, o, "Unknown")
    BY <1>7, <1>15, <2>3 DEF o, rest
  <2>5. \A j \in Ids : g.tickets[j] = IF j = o THEN "Unknown" ELSE answered[j]
    <3>1. answered \in [Ids -> TicketStates]
      BY <1>1 DEF answered, f, put, TicketStates
    <3> QED BY <2>3, <2>4, <3>1, SMT DEF put
  <2>6. \A n \in 1..Len(q) : n + 1 \in 1..Len(order) /\ n + 1 # 1
    BY <1>2, <1>6, SMT
  <2>7. \A n \in 1..Len(order) : n # 1 => n - 1 \in 1..Len(q) /\ (n - 1) + 1 = n
    BY <1>2, <1>6, SMT
  <2>8. \A n \in 1..Len(rest) : g.tickets[rest[n]] \in TerminalReasons
    <3> SUFFICES ASSUME NEW n \in 1..Len(q) PROVE g.tickets[order[n + 1]] \in TerminalReasons
      BY <2>2
    <3>1. n + 1 \in 1..Len(order) /\ n + 1 # 1
      BY <2>6
    <3>2. order[n + 1] # o
      BY <1>13, <2>1, <3>1
    <3>3. order[n + 1] \in Ids /\ answered[order[n + 1]] \in TerminalReasons
      BY <1>11, <3>1
    <3> QED BY <2>5, <3>2, <3>3
  <2>9. \A j \in Ids : g.tickets[j] \in TerminalReasons => \E n \in 1..Len(rest) : rest[n] = j
    <3> SUFFICES ASSUME NEW j \in Ids, g.tickets[j] \in TerminalReasons
                 PROVE  \E n \in 1..Len(rest) : rest[n] = j
      BY SMT
    <3>1. j # o /\ answered[j] \in TerminalReasons
      BY <1>8, <2>5
    <3>2. PICK n \in 1..Len(order) : order[n] = j
      BY <1>12, <3>1
    <3>3. n # 1
      BY <2>1, <3>1, <3>2
    <3>4. n - 1 \in 1..Len(rest) /\ rest[n - 1] = order[n]
      BY <2>2, <2>7, <3>3
    <3> QED BY <3>2, <3>4
  <2>10. \A m, n \in 1..Len(rest) : rest[m] = rest[n] => m = n
    <3> SUFFICES ASSUME NEW m \in 1..Len(q), NEW n \in 1..Len(q), rest[m] = rest[n]
                 PROVE  m = n
      BY <2>2
    <3>1. m + 1 = n + 1
      BY <1>13, <2>2, <2>6
    <3> QED BY <1>2, <3>1, SMT
  <2>11. RingSound(g.terminal_order, g.tickets)
    BY <1>9, <2>2, <2>4, <2>8, <2>9, <2>10 DEF RingSound, Once
  <2>12. g.tickets[i] \in TerminalReasons \cup {"Unknown"}
    BY <1>5, <2>5
  <2>13. ASSUME NEW j \in Ids \ {i}
         PROVE  \/ g.tickets[j] = f[j]
                \/ f[j] \in TerminalReasons /\ g.tickets[j] = "Unknown"
    BY <1>5, <2>3, <2>5
  <2> QED BY <2>11, <2>12, <2>13 DEF Answered, f
<1> QED BY <1>14, <1>15

\* forget_terminal_ticket takes the ticket out of the index and out of the ring.
LEMMA RingForgotten ==
  ASSUME NEW s, GovernedState(s), NEW g, NEW i \in Ids,
         RingSound(s.terminal_order, s.tickets), Forgotten(g, s, i)
  PROVE  /\ RingSound(g.terminal_order, g.tickets)
         /\ g.tickets[i] = IF s.tickets[i] \in TerminalReasons \cup {"Faulted"} THEN "Unknown"
                           ELSE s.tickets[i]
         /\ \A j \in Ids \ {i} : g.tickets[j] = s.tickets[j]
<1> DEFINE q == s.terminal_order
           f == s.tickets
           r == unlisted(q, i)
<1>1. q \in Seq(Ids) /\ f \in [Ids -> TicketStates]
  BY DEF GovernedState
<1>2. Len(q) \in Nat /\ \A n \in 1..Len(q) : q[n] \in Ids
  BY <1>1, LenProperties
<1>3. g.terminal_order = r
  BY DEF Forgotten
<1>4. /\ g.tickets[i] = IF f[i] \in TerminalReasons \cup {"Faulted"} THEN "Unknown" ELSE f[i]
      /\ \A j \in Ids \ {i} : g.tickets[j] = f[j]
  BY <1>1, SMT DEF Forgotten, put
<1>5. "Unknown" \notin TerminalReasons
  BY DEF TerminalReasons
<1>6. /\ \A n \in 1..Len(q) : f[q[n]] \in TerminalReasons
      /\ \A j \in Ids : f[j] \in TerminalReasons => \E n \in 1..Len(q) : q[n] = j
      /\ \A m, n \in 1..Len(q) : q[m] = q[n] => m = n
      /\ Len(q) <= MaxTerminal
  BY DEF RingSound, Once
<1>7. CASE \A n \in 1..Len(q) : q[n] # i
  <2>1. r = q
    BY <1>7, UnlistedOther
  <2> HIDE DEF r, q, f
  <2>2. f[i] \notin TerminalReasons /\ g.tickets[i] \notin TerminalReasons
    BY <1>4, <1>5, <1>6, <1>7
  <2>3. RingSound(g.terminal_order, g.tickets)
    BY <1>2, <1>3, <1>4, <1>6, <1>7, <2>1, <2>2, SMT DEF RingSound, Once
  <2> QED BY <1>4, <2>3 DEF f
<1>8. ASSUME NEW k \in 1..Len(q), q[k] = i PROVE RingSound(g.terminal_order, g.tickets)
  <2>1. /\ Len(r) = Len(q) - 1
        /\ \A n \in 1..Len(r) : r[n] = IF n < k THEN q[n] ELSE q[n + 1]
    <3>1. Once(q)
      BY DEF RingSound
    <3> QED BY <1>1, <1>8, <3>1, UnlistedAt DEF Without
  <2>2. g.tickets[i] \notin TerminalReasons
    BY <1>4, <1>5, <1>6, <1>8
  <2> HIDE DEF r, q, f
  <2> DEFINE at(n) == IF n < k THEN n ELSE n + 1
  <2>3. \A n \in 1..Len(r) : at(n) \in 1..Len(q) /\ at(n) # k /\ r[n] = q[at(n)]
    BY <1>2, <2>1, SMT
  <2>4. \A m, n \in 1..Len(r) : at(m) = at(n) => m = n
    BY <1>2, <2>1, SMT
  <2>5. \A m \in 1..Len(q) : m # k => \E n \in 1..Len(r) : at(n) = m
    <3> SUFFICES ASSUME NEW m \in 1..Len(q), m # k PROVE \E n \in 1..Len(r) : at(n) = m
      BY SMT
    <3>1. CASE m < k
      <4>1. m \in 1..Len(r) /\ at(m) = m
        BY <1>2, <2>1, <3>1, SMT
      <4> QED BY <4>1
    <3>2. CASE ~(m < k)
      <4>1. m - 1 \in 1..Len(r) /\ at(m - 1) = m
        BY <1>2, <2>1, <3>2, SMT
      <4> QED BY <4>1
    <3> QED BY <3>1, <3>2
  <2> HIDE DEF at
  <2>6. Len(r) <= MaxTerminal
    BY <1>2, <1>6, <2>1, IdsAssumption, SMT
  <2>7. \A n \in 1..Len(r) : r[n] # i
    BY <1>6, <1>8, <2>3, SMT
  <2>8. \A n \in 1..Len(r) : g.tickets[r[n]] \in TerminalReasons
    BY <1>2, <1>4, <1>6, <2>3, <2>7, SMT
  <2>9. \A j \in Ids : g.tickets[j] \in TerminalReasons => \E n \in 1..Len(r) : r[n] = j
    <3> SUFFICES ASSUME NEW j \in Ids, g.tickets[j] \in TerminalReasons
                 PROVE  \E n \in 1..Len(r) : r[n] = j
      BY SMT
    <3>1. j # i /\ f[j] \in TerminalReasons
      BY <1>4, <2>2
    <3>2. PICK m \in 1..Len(q) : q[m] = j
      BY <1>6, <3>1
    <3> QED BY <1>8, <2>3, <2>5, <3>1, <3>2
  <2>10. \A m, n \in 1..Len(r) : r[m] = r[n] => m = n
    BY <1>6, <2>3, <2>4, SMT
  <2> QED BY <1>3, <2>6, <2>8, <2>9, <2>10 DEF RingSound, Once
<1> QED BY <1>4, <1>7, <1>8

-----------------------------------------------------------------------------
\* What a change does to the requests

\* Queues, permits and what admission has checked against them stay.
Quiet(g, s) ==
  /\ SameRequests(g, s) /\ SameQueues(g, s) /\ SameIndexes(g, s) /\ g.permits = s.permits
  /\ g.inflight = s.inflight /\ g.in_use = s.in_use /\ g.cpu = s.cpu /\ g.issued = s.issued

\* The kinds of change that leave queues, permits and counts alone.
LEMMA QuietKinds ==
  ASSUME NEW g, NEW s, NEW i, NEW p,
         \/ Kept(g, s) \/ Advancing(g, s, i, p) \/ Metering(g, s, i) \/ Claiming(g, s, i)
         \/ Claimed(g, s, i) \/ Failing(g, s, i) \/ Forgetting(g, s, i)
  PROVE  Quiet(g, s)
<1>1. CASE Kept(g, s)
  BY <1>1 DEF Kept, Quiet, SamePermits, SameTotals
<1>2. CASE Advancing(g, s, i, p)
  BY <1>2 DEF Advancing, Advanced, Quiet
<1>3. CASE Metering(g, s, i)
  <2>1. SameWork(g, s) /\ \E delta : Shifted(g, s, i, delta)
    BY <1>3 DEF Metering, Reconciled, StageReturned
  <2> QED BY <2>1 DEF SameWork, Shifted, Quiet, SamePermits
<1>4. CASE Claiming(g, s, i) \/ Claimed(g, s, i) \/ Failing(g, s, i) \/ Forgetting(g, s, i)
  <2>1. SameButTickets(g, s)
    BY <1>4 DEF Claiming, Claimed, Failing, Forgetting
  <2> QED BY <2>1 DEF SameButTickets, Quiet, SameTotals
<1> QED BY <1>1, <1>2, <1>3, <1>4

\* Every request but i is what it was, and i is sp in class c.
OnlyRequest(g, s, i, sp, c) ==
  /\ g.spec[i] = sp /\ g.class[i] = c
  /\ \A j \in Ids \ {i} : g.spec[j] = s.spec[j] /\ g.class[j] = s.class[j]

\* One request is written.
LEMMA PutRequest ==
  ASSUME NEW s, GovernedState(s), NEW g, NEW i \in Ids, NEW sp, NEW c,
         g.spec = put(s.spec, i, sp), g.class = put(s.class, i, c)
  PROVE  OnlyRequest(g, s, i, sp, c)
<1>1. s.spec \in [Ids -> Specs] /\ s.class \in [Ids -> Classes]
  BY DEF GovernedState
<1> QED BY <1>1 DEF put, OnlyRequest

\* The next id is carried by nothing queued or live.
LEMMA NextUnused ==
  ASSUME NEW s, CustodySound(s), NEW i, i = s.issued + 1
  PROVE  i \notin s.permits /\ i \notin Queued(s)
<1>1. s.issued \in 0..MaxIds
  BY DEF CustodySound, GovernedState
<1>2. ~(i <= s.issued)
  BY <1>1, SMT
<1> QED BY <1>2 DEF CustodySound, Queued

\* A queued request is in the queue of its class and in no other.
LEMMA QueuedOnce ==
  ASSUME NEW s, CustodySound(s), NEW i \in Queued(s)
  PROVE  /\ i \in Ids /\ s.class[i] \in Classes /\ s.spec[i] \in Specs
         /\ i \in s.queue[s.class[i]] /\ i \notin s.permits /\ i <= s.issued
<1>1. GovernedState(s)
  BY DEF CustodySound
<1>2. PICK c \in Classes : i \in s.queue[c]
  BY <1>1, WhereQueued
<1>3. i \in Ids
  BY <1>1, WhereQueued
<1>4. s.class[i] \in Classes /\ s.spec[i] \in Specs
  BY <1>1, <1>3 DEF GovernedState
<1> QED BY <1>2, <1>3, <1>4 DEF CustodySound

\* A request that joins or leaves a queue joins or leaves what is queued.
LEMMA QueueJoined ==
  ASSUME NEW s, GovernedState(s), NEW i, NEW c \in Classes, NEW g,
         g.queue = put(s.queue, c, s.queue[c] \cup {i})
  PROVE  Queued(g) = Queued(s) \cup {i}
<1>1. s.queue \in [Classes -> SUBSET Ids]
  BY DEF GovernedState
<1>2. ASSUME NEW d \in Classes PROVE g.queue[d] = IF d = c THEN s.queue[c] \cup {i} ELSE s.queue[d]
  BY <1>1, SMT DEF put
<1> QED BY <1>2 DEF Queued

LeftQueue(g, s, i) ==
  Queued(g) = Queued(s) \ {i} /\ \A c \in Classes : g.queue[c] = s.queue[c] \ {i}

\* A request leaves the queue of its class.
LEMMA QueueLeft ==
  ASSUME NEW s, CustodySound(s), NEW i \in Ids, NEW g,
         g.queue = put(s.queue, s.class[i], s.queue[s.class[i]] \ {i})
  PROVE  LeftQueue(g, s, i)
<1>1. s.queue \in [Classes -> SUBSET Ids]
  BY DEF GovernedState, CustodySound
<1>2. ASSUME NEW c \in Classes PROVE g.queue[c] = s.queue[c] \ {i}
  <2>1. CASE c = s.class[i]
    BY <1>1, <2>1, SMT DEF put
  <2>2. CASE c # s.class[i]
    <3>1. g.queue[c] = s.queue[c]
      BY <1>1, <2>2 DEF put
    <3>2. i \notin s.queue[c]
      BY <2>2 DEF CustodySound
    <3> QED BY <3>1, <3>2
  <2> QED BY <2>1, <2>2
<1>3. ASSUME NEW j PROVE j \in Queued(g) <=> j \in Queued(s) /\ j # i
  <2>1. j \in Queued(g) <=> \E c \in Classes : j \in g.queue[c]
    BY DEF Queued
  <2>2. j \in Queued(s) <=> \E c \in Classes : j \in s.queue[c]
    BY DEF Queued
  <2> QED BY <1>2, <2>1, <2>2
<1> QED BY <1>2, <1>3 DEF LeftQueue

-----------------------------------------------------------------------------
\* Capacity

\* No class exceeds its inflight limit or queue depth, no pool its workers, and the
\* CPU budget is never overcommitted.
CapacitySound(s) ==
  /\ \A c \in Classes : /\ s.inflight[c] <= Policy[c].max_inflight
                        /\ Cardinality(s.queue[c]) <= Policy[c].max_queue_depth
  /\ \A k \in Caps : CapLimit[k] # 0 => s.in_use[k] <= CapLimit[k]
  /\ MaxCpuUnits # 0 => s.cpu <= MaxCpuUnits

\* A class has limits.
LEMMA LimitFields ==
  ASSUME NEW c \in Classes
  PROVE  Policy[c].max_inflight \in Nat /\ Policy[c].max_queue_depth \in Nat
BY ClassesAssumption, SMT DEF ClassPolicies

\* The totals are counts.
LEMMA TotalTypes ==
  ASSUME NEW s, GovernedState(s)
  PROVE  /\ s.inflight \in [Classes -> Nat] /\ s.in_use \in [Caps -> Nat] /\ s.cpu \in Nat
         /\ s.mem \in Nat /\ s.queue \in [Classes -> SUBSET Ids]
BY DEF GovernedState

\* A queue is a finite set.
LEMMA QueueFinite ==
  ASSUME NEW s, GovernedState(s), NEW c \in Classes
  PROVE  IsFiniteSet(s.queue[c]) /\ Cardinality(s.queue[c]) \in Nat
<1>1. IsFiniteSet(Ids)
  BY FS_Interval, IdsAssumption, SMT DEF Ids
<1>2. s.queue[c] \subseteq Ids
  BY TotalTypes
<1> QED BY <1>1, <1>2, FS_Subset, FS_CardinalityType

\* A permit opened where there is room fits.
LEMMA OpenedFits ==
  ASSUME NEW s, GovernedState(s), NEW g, NEW i, NEW sp \in Specs, NEW c \in Classes,
         Opened(g, s, i, sp, c), Room(s, c, sp.caps), CapacitySound(s)
  PROVE  /\ \A d \in Classes : g.inflight[d] <= Policy[d].max_inflight
         /\ \A k \in Caps : CapLimit[k] # 0 => g.in_use[k] <= CapLimit[k]
         /\ MaxCpuUnits # 0 => g.cpu <= MaxCpuUnits
         /\ MaxMemUnits # 0 => g.mem <= MaxMemUnits
<1>1. /\ g.inflight = credit(s.inflight, c, 1) /\ g.cpu = s.cpu + Policy[c].cpu
      /\ g.mem = s.mem + Policy[c].mem
      /\ g.in_use = [k \in Caps |-> s.in_use[k] + (IF k \in sp.caps THEN 1 ELSE 0)]
  BY DEF Opened
<1>2. ASSUME NEW d \in Classes PROVE g.inflight[d] <= Policy[d].max_inflight
  BY <1>1, TotalTypes, LimitFields, SMT DEF credit, Room, CapacitySound
<1>3. ASSUME NEW k \in Caps, CapLimit[k] # 0 PROVE g.in_use[k] <= CapLimit[k]
  <2>1. s.in_use[k] \in Nat /\ CapLimit[k] \in Nat
    BY TotalTypes, BudgetAssumption
  <2>2. s.in_use[k] <= CapLimit[k] /\ (k \in sp.caps => s.in_use[k] < CapLimit[k])
    BY <1>3 DEF Room, CapacitySound
  <2> QED BY <1>1, <2>1, <2>2, SMT
<1> QED BY <1>1, <1>2, <1>3 DEF Room

\* Ending a permit only lowers the totals.
LEMMA EndedFits ==
  ASSUME NEW s, GovernedState(s), NEW g, NEW i \in Ids, Ended(g, s, i), CapacitySound(s)
  PROVE  /\ \A d \in Classes : g.inflight[d] <= Policy[d].max_inflight
         /\ \A k \in Caps : CapLimit[k] # 0 => g.in_use[k] <= CapLimit[k]
         /\ MaxCpuUnits # 0 => g.cpu <= MaxCpuUnits
<1> DEFINE c == s.class[i]
           caps == s.spec[i].caps
<1>1. /\ g.inflight = debit(s.inflight, c, 1) /\ g.cpu = saturating_sub(s.cpu, Policy[c].cpu)
      /\ g.in_use = [k \in Caps |-> saturating_sub(s.in_use[k], IF k \in caps THEN 1 ELSE 0)]
  BY DEF Ended
<1>2. c \in Classes /\ Policy[c].cpu \in Nat
  BY ClassesAssumption DEF GovernedState, ClassPolicies
<1> HIDE DEF c, caps
<1>3. ASSUME NEW d \in Classes PROVE g.inflight[d] <= Policy[d].max_inflight
  BY <1>1, <1>2, TotalTypes, LimitFields, SMT DEF debit, saturating_sub, CapacitySound
<1>4. ASSUME NEW k \in Caps, CapLimit[k] # 0 PROVE g.in_use[k] <= CapLimit[k]
  <2>1. s.in_use[k] \in Nat /\ CapLimit[k] \in Nat
    BY TotalTypes, BudgetAssumption
  <2>2. s.in_use[k] <= CapLimit[k]
    BY <1>4 DEF CapacitySound
  <2> QED BY <1>1, <2>1, <2>2, SMT DEF saturating_sub
<1>5. MaxCpuUnits # 0 => g.cpu <= MaxCpuUnits
  BY <1>1, <1>2, TotalTypes, BudgetAssumption, SMT DEF saturating_sub, CapacitySound
<1> QED BY <1>3, <1>4, <1>5

\* A queue that only lost requests stays within its depth.
LEMMA ShorterFits ==
  ASSUME NEW s, GovernedState(s), NEW g, CapacitySound(s),
         \A c \in Classes : g.queue[c] \subseteq s.queue[c]
  PROVE  \A c \in Classes : Cardinality(g.queue[c]) <= Policy[c].max_queue_depth
<1> SUFFICES ASSUME NEW c \in Classes
             PROVE  Cardinality(g.queue[c]) <= Policy[c].max_queue_depth
  BY SMT
<1>1. IsFiniteSet(s.queue[c]) /\ g.queue[c] \subseteq s.queue[c]
  BY QueueFinite
<1>2. Cardinality(g.queue[c]) <= Cardinality(s.queue[c]) /\ Cardinality(g.queue[c]) \in Nat
  BY <1>1, FS_Subset, FS_CardinalityType
<1>3. Cardinality(s.queue[c]) <= Policy[c].max_queue_depth /\ Cardinality(s.queue[c]) \in Nat
  BY QueueFinite DEF CapacitySound
<1> QED BY <1>2, <1>3, LimitFields, SMT

\* The limits an admission or a promotion has checked hold afterwards.
LEMMA CapacityKept ==
  ASSUME NEW s, CustodySound(s), NEW g, Change(g, s), CapacitySound(s)
  PROVE  CapacitySound(g)
<1>0. GovernedState(s)
  BY DEF CustodySound
<1>1. ASSUME Quiet(g, s) PROVE CapacitySound(g)
  BY <1>1 DEF Quiet, SameQueues, CapacitySound
<1>2. ASSUME Emptying(g, s) PROVE CapacitySound(g)
  <2>1. SameTotals(g, s) /\ g.queue = [c \in Classes |-> {}]
    BY <1>2 DEF Emptying, Emptied
  <2>2. \A c \in Classes : g.queue[c] \subseteq s.queue[c]
    BY <2>1
  <2> QED BY <1>0, <2>1, <2>2, ShorterFits DEF SameTotals, CapacitySound
<1>3. ASSUME NEW i, NEW sp, NEW c, Admitting(g, s, i, sp, c) PROVE CapacitySound(g)
  <2>1. Opened(g, s, i, sp, c) /\ Room(s, c, sp.caps) /\ g.queue = s.queue
        /\ sp \in Specs /\ c \in Classes
    BY <1>3 DEF Admitting, SameQueues
  <2> QED BY <1>0, <2>1, OpenedFits DEF CapacitySound
<1>4. ASSUME NEW i, NEW sp, NEW c, Queueing(g, s, i, sp, c) PROVE CapacitySound(g)
  <2>1. /\ c \in Classes /\ SameTotals(g, s) /\ g.queue = put(s.queue, c, s.queue[c] \cup {i})
        /\ Cardinality(s.queue[c]) < Policy[c].max_queue_depth
    BY <1>4 DEF Queueing, EnqueuedAs
  <2>2. Cardinality(s.queue[c] \cup {i}) <= Policy[c].max_queue_depth
    <3>1. IsFiniteSet(s.queue[c]) /\ Cardinality(s.queue[c]) \in Nat
      BY <1>0, <2>1, QueueFinite
    <3>2. Cardinality(s.queue[c] \cup {i}) =
            IF i \in s.queue[c] THEN Cardinality(s.queue[c]) ELSE Cardinality(s.queue[c]) + 1
      BY <3>1, FS_AddElement
    <3> QED BY <2>1, <3>1, <3>2, LimitFields, SMT
  <2>3. ASSUME NEW d \in Classes PROVE Cardinality(g.queue[d]) <= Policy[d].max_queue_depth
    <3>1. g.queue[d] = IF d = c THEN s.queue[c] \cup {i} ELSE s.queue[d]
      BY <1>0, <2>1, TotalTypes, SMT DEF put
    <3> QED BY <2>2, <3>1 DEF CapacitySound
  <2> QED BY <2>1, <2>3 DEF SameTotals, CapacitySound
<1>5. ASSUME NEW i, Promoting(g, s, i) PROVE CapacitySound(g)
  <2>1. /\ Opened(g, s, i, s.spec[i], s.class[i]) /\ Room(s, s.class[i], s.spec[i].caps)
        /\ g.queue = put(s.queue, s.class[i], s.queue[s.class[i]] \ {i}) /\ i \in Ids
        /\ i \in Queued(s)
    BY <1>5 DEF Promoting, PromotedAs
  <2>2. s.spec[i] \in Specs /\ s.class[i] \in Classes
    BY <2>1, QueuedOnce
  <2>3. LeftQueue(g, s, i)
    BY <2>1, QueueLeft
  <2>4. \A c \in Classes : g.queue[c] \subseteq s.queue[c]
    BY <2>3 DEF LeftQueue
  <2> QED BY <1>0, <2>1, <2>2, <2>4, OpenedFits, ShorterFits DEF CapacitySound
<1>6. ASSUME NEW i, Leaving(g, s, i) PROVE CapacitySound(g)
  <2>1. /\ i \in Ids /\ SameTotals(g, s)
        /\ g.queue = put(s.queue, s.class[i], s.queue[s.class[i]] \ {i})
    BY <1>6 DEF Leaving, Unqueued
  <2>2. LeftQueue(g, s, i)
    BY <2>1, QueueLeft
  <2>3. \A c \in Classes : g.queue[c] \subseteq s.queue[c]
    BY <2>2 DEF LeftQueue
  <2> QED BY <1>0, <2>1, <2>3, ShorterFits DEF SameTotals, CapacitySound
<1>7. ASSUME NEW i, Ending(g, s, i) PROVE CapacitySound(g)
  <2>1. i \in Ids /\ Ended(g, s, i) /\ g.queue = s.queue
    BY <1>7 DEF Ending, Unwound, SameQueues
  <2> QED BY <1>0, <2>1, EndedFits DEF CapacitySound
<1> QED BY <1>1, <1>2, <1>3, <1>4, <1>5, <1>6, <1>7, QuietKinds DEF Change

-----------------------------------------------------------------------------
\* Order within a domain

\* Request i does not wait behind a younger permit of its class and domain.
Ordered(s, i, j) ==
  s.class[i] = s.class[j] /\ intersects(s.spec[i].caps, s.spec[j].caps) => j < i

FifoSound(s) == \A i \in Queued(s), j \in s.permits : Ordered(s, i, j)

\* Sharing a pool is symmetric.
LEMMA IntersectsSym == ASSUME NEW a, NEW b PROVE intersects(a, b) <=> intersects(b, a)
BY DEF intersects

\* Two requests that are what they were stay in order.
LEMMA OrderedStill ==
  ASSUME NEW s, NEW g, NEW i, NEW j, Ordered(s, i, j), g.spec[i] = s.spec[i],
         g.spec[j] = s.spec[j], g.class[i] = s.class[i], g.class[j] = s.class[j]
  PROVE  Ordered(g, i, j)
BY DEF Ordered

\* Ids of queued and live requests.
LEMMA CarriedIds ==
  ASSUME NEW s, CustodySound(s)
  PROVE  Queued(s) \subseteq Ids /\ s.permits \subseteq Ids
BY WhereQueued DEF CustodySound, GovernedState

\* When requests leave, those that stay keep their order.
LEMMA FifoFewer ==
  ASSUME NEW s, NEW g, FifoSound(s), Queued(g) \subseteq Queued(s), g.permits \subseteq s.permits,
         \A j \in Queued(g) \cup g.permits : g.spec[j] = s.spec[j] /\ g.class[j] = s.class[j]
  PROVE  FifoSound(g)
<1> SUFFICES ASSUME NEW i \in Queued(g), NEW j \in g.permits PROVE Ordered(g, i, j)
  BY DEF FifoSound
<1>1. Ordered(s, i, j)
  BY DEF FifoSound
<1>2. /\ g.spec[i] = s.spec[i] /\ g.spec[j] = s.spec[j]
      /\ g.class[i] = s.class[i] /\ g.class[j] = s.class[j]
  OBVIOUS
<1> QED BY <1>1, <1>2, OrderedStill

\* Neither an admission nor a promotion goes before an earlier request of its domain.
LEMMA FifoKept ==
  ASSUME NEW s, CustodySound(s), NEW g, Change(g, s), FifoSound(s)
  PROVE  FifoSound(g)
<1>0. GovernedState(s) /\ Queued(s) \subseteq Ids /\ s.permits \subseteq Ids
  BY CarriedIds DEF CustodySound
<1>1. ASSUME Quiet(g, s) PROVE FifoSound(g)
  <2>1. Queued(g) = Queued(s) /\ g.permits = s.permits /\ g.spec = s.spec /\ g.class = s.class
    BY <1>1 DEF Quiet, SameQueues, SameRequests, Queued
  <2>2. Queued(g) \subseteq Queued(s) /\ g.permits \subseteq s.permits
    BY <2>1
  <2>3. \A j \in Queued(g) \cup g.permits : g.spec[j] = s.spec[j] /\ g.class[j] = s.class[j]
    BY <2>1
  <2> QED BY <2>2, <2>3, FifoFewer
<1>2. ASSUME Emptying(g, s) PROVE FifoSound(g)
  <2>1. g.queue = [c \in Classes |-> {}]
    BY <1>2 DEF Emptying, Emptied
  <2>2. Queued(g) = {}
    BY <2>1 DEF Queued
  <2> QED BY <2>2 DEF FifoSound
<1>3. ASSUME NEW n, NEW sp, NEW c, Admitting(g, s, n, sp, c) PROVE FifoSound(g)
  <2>1. /\ n = s.issued + 1 /\ n \in Ids /\ Opened(g, s, n, sp, c) /\ g.queue = s.queue
        /\ c \in Classes /\ ~has_queued_domain(s, c, sp.caps)
    BY <1>3 DEF Admitting, SameQueues
  <2>2. OnlyRequest(g, s, n, sp, c) /\ g.permits = s.permits \cup {n}
    BY <1>0, <2>1, PutRequest DEF Opened
  <2>3. Queued(g) = Queued(s)
    BY <2>1 DEF Queued
  <2>4. n \notin Queued(s) /\ n \notin s.permits
    BY <2>1, NextUnused
  <2> SUFFICES ASSUME NEW i \in Queued(s), NEW j \in g.permits PROVE Ordered(g, i, j)
    BY <2>3 DEF FifoSound
  <2>5. i \in Ids \ {n}
    BY <1>0, <2>4
  <2>6. CASE j = n
    <3>1. CASE s.class[i] = c
      <4>1. i \in s.queue[c]
        BY <3>1, QueuedOnce
      <4>2. ~intersects(sp.caps, s.spec[i].caps)
        BY <2>1, <4>1 DEF has_queued_domain
      <4>3. ~intersects(g.spec[i].caps, g.spec[j].caps)
        BY <2>2, <2>5, <2>6, <4>2, IntersectsSym DEF OnlyRequest
      <4> QED BY <4>3 DEF Ordered
    <3>2. CASE s.class[i] # c
      BY <2>2, <2>5, <2>6, <3>2 DEF OnlyRequest, Ordered
    <3> QED BY <3>1, <3>2
  <2>7. CASE j # n
    <3>1. j \in s.permits /\ j \in Ids \ {n}
      BY <1>0, <2>2, <2>7
    <3>2. Ordered(s, i, j)
      BY <3>1 DEF FifoSound
    <3>3. /\ g.spec[i] = s.spec[i] /\ g.class[i] = s.class[i]
          /\ g.spec[j] = s.spec[j] /\ g.class[j] = s.class[j]
      BY <2>2, <2>5, <3>1 DEF OnlyRequest
    <3> QED BY <3>2, <3>3, OrderedStill
  <2> QED BY <2>6, <2>7
<1>4. ASSUME NEW n, NEW sp, NEW c, Queueing(g, s, n, sp, c) PROVE FifoSound(g)
  <2>1. /\ n = s.issued + 1 /\ n \in Ids /\ c \in Classes /\ g.permits = s.permits
        /\ g.queue = put(s.queue, c, s.queue[c] \cup {n})
        /\ g.spec = put(s.spec, n, sp) /\ g.class = put(s.class, n, c)
    BY <1>4 DEF Queueing, EnqueuedAs, SamePermits
  <2>2. OnlyRequest(g, s, n, sp, c)
    BY <1>0, <2>1, PutRequest
  <2>3. Queued(g) = Queued(s) \cup {n}
    BY <1>0, <2>1, QueueJoined
  <2>4. n \notin Queued(s) /\ n \notin s.permits
    BY <2>1, NextUnused
  <2> SUFFICES ASSUME NEW i \in Queued(g), NEW j \in s.permits PROVE Ordered(g, i, j)
    BY <2>1 DEF FifoSound
  <2>5. CASE i = n
    <3>1. j <= s.issued /\ s.issued \in Nat /\ j \in Nat
      <4>1. j <= s.issued /\ s.issued \in 0..MaxIds /\ j \in Ids
        BY <1>0 DEF CustodySound, GovernedState
      <4> QED BY <4>1, SMT DEF Ids
    <3>2. j < i
      BY <2>1, <2>5, <3>1, SMT
    <3> QED BY <3>2 DEF Ordered
  <2>6. CASE i # n
    <3>1. i \in Queued(s) /\ i \in Ids \ {n} /\ j \in Ids \ {n}
      BY <1>0, <2>3, <2>4, <2>6
    <3>2. Ordered(s, i, j)
      BY <3>1 DEF FifoSound
    <3>3. /\ g.spec[i] = s.spec[i] /\ g.class[i] = s.class[i]
          /\ g.spec[j] = s.spec[j] /\ g.class[j] = s.class[j]
      BY <2>2, <3>1 DEF OnlyRequest
    <3> QED BY <3>2, <3>3, OrderedStill
  <2> QED BY <2>5, <2>6
<1>5. ASSUME NEW n, Promoting(g, s, n) PROVE FifoSound(g)
  <2>1. /\ n \in Queued(s) /\ n \in Ids /\ Opened(g, s, n, s.spec[n], s.class[n])
        /\ g.queue = put(s.queue, s.class[n], s.queue[s.class[n]] \ {n})
        /\ ~has_queued_predecessor(s, n)
    BY <1>5 DEF Promoting, PromotedAs
  <2>2. OnlyRequest(g, s, n, s.spec[n], s.class[n]) /\ g.permits = s.permits \cup {n}
    BY <1>0, <2>1, PutRequest DEF Opened
  <2>3. LeftQueue(g, s, n)
    BY <2>1, QueueLeft
  <2> SUFFICES ASSUME NEW i \in Queued(g), NEW j \in g.permits PROVE Ordered(g, i, j)
    BY DEF FifoSound
  <2>4. i \in Queued(s) /\ i \in Ids \ {n}
    BY <1>0, <2>3 DEF LeftQueue
  <2>5. j \in Ids
    BY <1>0, <2>1, <2>2
  <2>6. /\ g.spec[i] = s.spec[i] /\ g.class[i] = s.class[i]
        /\ g.spec[j] = s.spec[j] /\ g.class[j] = s.class[j]
    BY <2>2, <2>4, <2>5 DEF OnlyRequest
  <2>7. CASE j = n
    <3>1. CASE s.class[i] = s.class[n] /\ intersects(s.spec[i].caps, s.spec[n].caps)
      <4>1. i \in s.queue[s.class[n]] /\ intersects(s.spec[n].caps, s.spec[i].caps)
        BY <2>4, <3>1, QueuedOnce, IntersectsSym
      <4>2. ~(i < n)
        BY <2>1, <4>1 DEF has_queued_predecessor
      <4>3. i \in Nat /\ n \in Nat /\ i # n
        BY <2>1, <2>4, NoIdIsNone
      <4>4. j < i
        BY <2>7, <4>2, <4>3, SMT
      <4> QED BY <4>4 DEF Ordered
    <3>2. CASE ~(s.class[i] = s.class[n] /\ intersects(s.spec[i].caps, s.spec[n].caps))
      BY <2>6, <2>7, <3>2 DEF Ordered
    <3> QED BY <3>1, <3>2
  <2>8. CASE j # n
    <3>1. Ordered(s, i, j)
      BY <2>2, <2>4, <2>8 DEF FifoSound
    <3> QED BY <2>6, <3>1, OrderedStill
  <2> QED BY <2>7, <2>8
<1>6. ASSUME NEW n, Leaving(g, s, n) PROVE FifoSound(g)
  <2>1. /\ n \in Ids /\ n \in Queued(s) /\ g.permits = s.permits
        /\ g.spec = put(s.spec, n, AnySpec) /\ g.class = put(s.class, n, AnyClass)
        /\ g.queue = put(s.queue, s.class[n], s.queue[s.class[n]] \ {n})
    BY <1>6 DEF Leaving, Unqueued, SamePermits
  <2>2. OnlyRequest(g, s, n, AnySpec, AnyClass) /\ LeftQueue(g, s, n)
    BY <1>0, <2>1, PutRequest, QueueLeft
  <2>3. n \notin s.permits
    BY <2>1, QueuedOnce
  <2>4. Queued(g) \subseteq Queued(s) /\ g.permits \subseteq s.permits
    BY <2>1, <2>2 DEF LeftQueue
  <2>5. Queued(g) \cup g.permits \subseteq Ids \ {n}
    BY <1>0, <2>1, <2>2, <2>3 DEF LeftQueue
  <2>6. \A j \in Queued(g) \cup g.permits : g.spec[j] = s.spec[j] /\ g.class[j] = s.class[j]
    BY <2>2, <2>5 DEF OnlyRequest
  <2> QED BY <2>4, <2>6, FifoFewer
<1>7. ASSUME NEW n, Ending(g, s, n) PROVE FifoSound(g)
  <2>1. /\ n \in Ids /\ n \in s.permits /\ g.permits = s.permits \ {n} /\ g.queue = s.queue
        /\ g.spec = put(s.spec, n, AnySpec) /\ g.class = put(s.class, n, AnyClass)
    BY <1>7 DEF Ending, Unwound, Ended, SameQueues
  <2>2. OnlyRequest(g, s, n, AnySpec, AnyClass) /\ Queued(g) = Queued(s)
    BY <1>0, <2>1, PutRequest DEF Queued
  <2>3. n \notin Queued(s)
    BY <2>1, QueuedOnce
  <2>4. Queued(g) \subseteq Queued(s) /\ g.permits \subseteq s.permits
    BY <2>1, <2>2
  <2>5. Queued(g) \cup g.permits \subseteq Ids \ {n}
    BY <1>0, <2>1, <2>2, <2>3
  <2>6. \A j \in Queued(g) \cup g.permits : g.spec[j] = s.spec[j] /\ g.class[j] = s.class[j]
    BY <2>2, <2>5 DEF OnlyRequest
  <2> QED BY <2>4, <2>6, FifoFewer
<1> QED BY <1>1, <1>2, <1>3, <1>4, <1>5, <1>6, <1>7, QuietKinds DEF Change

-----------------------------------------------------------------------------
\* Identities

\* The requests the state holds, queued or live.
Carried(s) == Queued(s) \cup s.permits

\* Two submissions share neither their operation nor, as children, their stage.
Apart(sp, sq) ==
  /\ identity(sp) # identity(sq)
  /\ sp.child /\ sq.child => stages_of(sp) # stages_of(sq)

\* The requests are apart, and the recursion index holds the stages of the children.
LineageSound(s) ==
  /\ \A i, j \in Carried(s) : i # j => Apart(s.spec[i], s.spec[j])
  /\ \A e : e \in s.recursion <=> \E i \in Carried(s) : e \in stages_of(s.spec[i])

\* The operation indexes hold the operations of the requests.
QueuedOps(s) ==
  \A o : o \in s.queued_ops <=> \E i \in Queued(s) : identity(s.spec[i]) = o

PermitOps(s) ==
  \A o \in Identities, i \in Ids :
    s.op_permit[o] = i <=> i \in s.permits /\ identity(s.spec[i]) = o

IdentitySound(s) == LineageSound(s) /\ QueuedOps(s) /\ PermitOps(s)

\* A child occupies one stage.
LEMMA StageOf ==
  ASSUME NEW sp, sp.child PROVE stages_of(sp) = {<<sp.root, sp.stage>>}
BY DEF stages_of

\* The requests are those they were, with the submissions they had.
LEMMA LineageSame ==
  ASSUME NEW s, NEW g, LineageSound(s), Carried(g) = Carried(s),
         \A j \in Carried(s) : g.spec[j] = s.spec[j],
         \A e : e \in g.recursion <=> e \in s.recursion
  PROVE  LineageSound(g)
<1>1. ASSUME NEW i \in Carried(g), NEW j \in Carried(g), i # j PROVE Apart(g.spec[i], g.spec[j])
  <2>1. Apart(s.spec[i], s.spec[j]) /\ g.spec[i] = s.spec[i] /\ g.spec[j] = s.spec[j]
    BY <1>1 DEF LineageSound
  <2> QED BY <2>1
<1>2. ASSUME NEW e
      PROVE  e \in g.recursion <=> \E i \in Carried(g) : e \in stages_of(g.spec[i])
  BY DEF LineageSound
<1> QED BY <1>1, <1>2 DEF LineageSound

\* A newcomer the indexes do not know is apart from every request they describe.
LEMMA FreshIsApart ==
  ASSUME NEW s, GovernedState(s), IdentitySound(s), NEW sp \in Specs, Fresh(s, sp),
         NEW j \in Carried(s), j \in Ids
  PROVE  Apart(sp, s.spec[j]) /\ Apart(s.spec[j], sp)
<1>1. identity(s.spec[j]) # identity(sp)
  <2>1. CASE j \in Queued(s)
    <3>1. identity(s.spec[j]) \in s.queued_ops
      BY <2>1 DEF IdentitySound, QueuedOps
    <3> QED BY <3>1 DEF Fresh, has_operation_identity
  <2>2. CASE j \in s.permits
    <3>1. s.spec[j] \in Specs
      BY DEF GovernedState
    <3>2. s.op_permit[identity(s.spec[j])] = j
      <4>1. identity(s.spec[j]) \in Identities
        BY <3>1, SpecsAssumption, SMT DEF TaskSpecs, identity, Identities
      <4> QED BY <2>2, <4>1 DEF IdentitySound, PermitOps
    <3>3. s.op_permit[identity(s.spec[j])] # None
      BY <3>2, NoIdIsNone
    <3> QED BY <3>3 DEF Fresh, has_operation_identity
  <2> QED BY <2>1, <2>2 DEF Carried
<1>2. ASSUME sp.child, s.spec[j].child PROVE stages_of(sp) # stages_of(s.spec[j])
  <2>1. <<sp.root, sp.stage>> \notin s.recursion
    BY <1>2 DEF Fresh, is_recursive
  <2>2. <<sp.root, sp.stage>> \notin stages_of(s.spec[j])
    BY <2>1 DEF IdentitySound, LineageSound
  <2> QED BY <1>2, <2>2, StageOf
<1> QED BY <1>1, <1>2 DEF Apart

\* A fresh request joins.
LEMMA LineageNewcomer ==
  ASSUME NEW s, CustodySound(s), IdentitySound(s), NEW g, NEW n, NEW sp \in Specs, Fresh(s, sp),
         n \notin Carried(s), Carried(g) = Carried(s) \cup {n}, g.spec[n] = sp,
         \A j \in Carried(s) : g.spec[j] = s.spec[j],
         g.recursion = s.recursion \cup stages_of(sp)
  PROVE  LineageSound(g)
<1>0. GovernedState(s) /\ Carried(s) \subseteq Ids
  BY CarriedIds DEF CustodySound, Carried
<1>1. ASSUME NEW i \in Carried(g), NEW j \in Carried(g), i # j PROVE Apart(g.spec[i], g.spec[j])
  <2>1. CASE i = n
    <3>1. j \in Carried(s) /\ j \in Ids /\ g.spec[j] = s.spec[j]
      BY <1>0, <1>1, <2>1
    <3>2. Apart(sp, s.spec[j])
      BY <1>0, <3>1, FreshIsApart
    <3> QED BY <2>1, <3>1, <3>2
  <2>2. CASE j = n
    <3>1. i \in Carried(s) /\ i \in Ids /\ g.spec[i] = s.spec[i]
      BY <1>0, <1>1, <2>2
    <3>2. Apart(s.spec[i], sp)
      BY <1>0, <3>1, FreshIsApart
    <3> QED BY <2>2, <3>1, <3>2
  <2>3. CASE i # n /\ j # n
    <3>1. i \in Carried(s) /\ j \in Carried(s) /\ g.spec[i] = s.spec[i] /\ g.spec[j] = s.spec[j]
      BY <2>3
    <3>2. Apart(s.spec[i], s.spec[j])
      BY <1>1, <3>1 DEF IdentitySound, LineageSound
    <3> QED BY <3>1, <3>2
  <2> QED BY <2>1, <2>2, <2>3
<1>2. ASSUME NEW e
      PROVE  e \in g.recursion <=> \E i \in Carried(g) : e \in stages_of(g.spec[i])
  <2>1. e \in s.recursion <=> \E i \in Carried(s) : e \in stages_of(g.spec[i])
    BY DEF IdentitySound, LineageSound
  <2> QED BY <2>1
<1> QED BY <1>1, <1>2 DEF LineageSound

\* Requests that leave take their stages with them, and nobody else's.
LEMMA LineageGone ==
  ASSUME NEW s, LineageSound(s), NEW g, NEW G, Carried(g) = Carried(s) \ G, G \subseteq Carried(s),
         \A j \in Carried(g) : g.spec[j] = s.spec[j],
         \A e : e \in g.recursion <=>
                  e \in s.recursion /\ ~\E i \in G : e \in stages_of(s.spec[i])
  PROVE  LineageSound(g)
<1>1. ASSUME NEW i \in Carried(g), NEW j \in Carried(g), i # j PROVE Apart(g.spec[i], g.spec[j])
  <2>1. Apart(s.spec[i], s.spec[j]) /\ g.spec[i] = s.spec[i] /\ g.spec[j] = s.spec[j]
    BY <1>1 DEF LineageSound
  <2> QED BY <2>1
<1>2. ASSUME NEW e, e \in g.recursion
      PROVE  \E i \in Carried(g) : e \in stages_of(g.spec[i])
  <2>1. PICK i \in Carried(s) : e \in stages_of(s.spec[i])
    BY <1>2 DEF LineageSound
  <2>2. i \in Carried(g) /\ g.spec[i] = s.spec[i]
    BY <1>2, <2>1
  <2> QED BY <2>1, <2>2
<1>3. ASSUME NEW e, NEW i \in Carried(g), e \in stages_of(g.spec[i]) PROVE e \in g.recursion
  <2>1. i \in Carried(s) /\ i \notin G /\ e \in stages_of(s.spec[i])
    BY <1>3
  <2>2. e \in s.recursion
    BY <2>1 DEF LineageSound
  <2>3. ASSUME NEW j \in G, e \in stages_of(s.spec[j]) PROVE FALSE
    <3>1. Apart(s.spec[i], s.spec[j])
      BY <2>1 DEF LineageSound
    <3>2. s.spec[i].child /\ s.spec[j].child
      BY <2>1, <2>3 DEF stages_of
    <3>3. stages_of(s.spec[i]) = {e} /\ stages_of(s.spec[j]) = {e}
      BY <2>1, <2>3, <3>2, StageOf
    <3> QED BY <3>1, <3>2, <3>3 DEF Apart
  <2> QED BY <2>2, <2>3
<1> QED BY <1>1, <1>2, <1>3 DEF LineageSound

\* The queued operations follow the queues.
LEMMA QueuedOpsSame ==
  ASSUME NEW s, QueuedOps(s), NEW g, g.queued_ops = s.queued_ops, Queued(g) = Queued(s),
         \A j \in Queued(s) : g.spec[j] = s.spec[j]
  PROVE  QueuedOps(g)
BY DEF QueuedOps

\* Its operation is listed when it queues.
LEMMA QueuedOpsJoined ==
  ASSUME NEW s, QueuedOps(s), NEW g, NEW n, Queued(g) = Queued(s) \cup {n},
         \A j \in Queued(s) : g.spec[j] = s.spec[j],
         g.queued_ops = s.queued_ops \cup {identity(g.spec[n])}
  PROVE  QueuedOps(g)
<1> SUFFICES ASSUME NEW o
             PROVE  o \in g.queued_ops <=> \E i \in Queued(g) : identity(g.spec[i]) = o
  BY DEF QueuedOps
<1>1. o \in s.queued_ops <=> \E i \in Queued(s) : identity(g.spec[i]) = o
  BY DEF QueuedOps
<1> QED BY <1>1

\* Its operation is struck out when it leaves the queue.
LEMMA QueuedOpsLeft ==
  ASSUME NEW s, QueuedOps(s), LineageSound(s), NEW g, NEW n \in Queued(s),
         Queued(g) = Queued(s) \ {n}, \A j \in Queued(g) : g.spec[j] = s.spec[j],
         g.queued_ops = s.queued_ops \ {identity(s.spec[n])}
  PROVE  QueuedOps(g)
<1> SUFFICES ASSUME NEW o
             PROVE  o \in g.queued_ops <=> \E i \in Queued(g) : identity(g.spec[i]) = o
  BY DEF QueuedOps
<1>1. ASSUME o \in g.queued_ops PROVE \E i \in Queued(g) : identity(g.spec[i]) = o
  <2>1. o \in s.queued_ops /\ o # identity(s.spec[n])
    BY <1>1
  <2>2. PICK i \in Queued(s) : identity(s.spec[i]) = o
    BY <2>1 DEF QueuedOps
  <2>3. i \in Queued(g) /\ g.spec[i] = s.spec[i]
    BY <2>1, <2>2
  <2> QED BY <2>2, <2>3
<1>2. ASSUME NEW i \in Queued(g), identity(g.spec[i]) = o PROVE o \in g.queued_ops
  <2>1. i \in Queued(s) /\ i # n /\ identity(s.spec[i]) = o
    BY <1>2
  <2>2. o \in s.queued_ops
    BY <2>1 DEF QueuedOps
  <2>3. Apart(s.spec[i], s.spec[n])
    BY <2>1 DEF LineageSound, Carried
  <2> QED BY <2>1, <2>2, <2>3 DEF Apart
<1> QED BY <1>1, <1>2

\* The live operations follow the permits.
LEMMA PermitOpsSame ==
  ASSUME NEW s, PermitOps(s), NEW g, g.op_permit = s.op_permit, g.permits = s.permits,
         \A j \in s.permits : g.spec[j] = s.spec[j]
  PROVE  PermitOps(g)
<1> SUFFICES ASSUME NEW o \in Identities, NEW i \in Ids
             PROVE  g.op_permit[o] = i <=> i \in g.permits /\ identity(g.spec[i]) = o
  BY DEF PermitOps
<1>1. s.op_permit[o] = i <=> i \in s.permits /\ identity(s.spec[i]) = o
  BY DEF PermitOps
<1> QED BY <1>1

\* Its operation points to the permit that opens.
LEMMA PermitOpsOpened ==
  ASSUME NEW s, GovernedState(s), PermitOps(s), NEW g, NEW n \in Ids, NEW sp \in Specs,
         n \notin s.permits, g.permits = s.permits \cup {n}, g.spec[n] = sp,
         \A j \in s.permits : g.spec[j] = s.spec[j] /\ identity(s.spec[j]) # identity(sp),
         g.op_permit = put(s.op_permit, identity(sp), n)
  PROVE  PermitOps(g)
<1> SUFFICES ASSUME NEW o \in Identities, NEW i \in Ids
             PROVE  g.op_permit[o] = i <=> i \in g.permits /\ identity(g.spec[i]) = o
  BY DEF PermitOps
<1>1. g.op_permit[o] = IF o = identity(sp) THEN n ELSE s.op_permit[o]
  <2>1. s.op_permit \in [Identities -> Ids \cup {None}]
    BY DEF GovernedState
  <2> QED BY <2>1 DEF put
<1>2. s.op_permit[o] = i <=> i \in s.permits /\ identity(s.spec[i]) = o
  BY DEF PermitOps
<1>3. CASE o = identity(sp)
  BY <1>1, <1>3
<1>4. CASE o # identity(sp)
  BY <1>1, <1>2, <1>4
<1> QED BY <1>3, <1>4

\* Its operation points nowhere once the permit ends.
LEMMA PermitOpsEnded ==
  ASSUME NEW s, GovernedState(s), PermitOps(s), LineageSound(s), NEW g, NEW n \in s.permits,
         g.permits = s.permits \ {n}, \A j \in g.permits : g.spec[j] = s.spec[j],
         g.op_permit = put(s.op_permit, identity(s.spec[n]), None)
  PROVE  PermitOps(g)
<1> SUFFICES ASSUME NEW o \in Identities, NEW i \in Ids
             PROVE  g.op_permit[o] = i <=> i \in g.permits /\ identity(g.spec[i]) = o
  BY DEF PermitOps
<1>1. g.op_permit[o] = IF o = identity(s.spec[n]) THEN None ELSE s.op_permit[o]
  <2>1. s.op_permit \in [Identities -> Ids \cup {None}]
    BY DEF GovernedState
  <2> QED BY <2>1 DEF put
<1>2. s.op_permit[o] = i <=> i \in s.permits /\ identity(s.spec[i]) = o
  BY DEF PermitOps
<1>3. CASE o = identity(s.spec[n])
  <2>1. g.op_permit[o] # i
    BY <1>1, <1>3, NoIdIsNone
  <2>2. ASSUME i \in g.permits PROVE identity(g.spec[i]) # o
    <3>1. Apart(s.spec[i], s.spec[n])
      BY <2>2 DEF LineageSound, Carried
    <3> QED BY <1>3, <2>2, <3>1 DEF Apart
  <2> QED BY <2>1, <2>2
<1>4. CASE o # identity(s.spec[n])
  BY <1>1, <1>2, <1>4
<1> QED BY <1>3, <1>4

\* Admission and promotion keep the requests apart and the indexes exact.
LEMMA IdentityKept ==
  ASSUME NEW s, CustodySound(s), NEW g, Change(g, s), IdentitySound(s)
  PROVE  IdentitySound(g)
<1>0. /\ GovernedState(s) /\ Queued(s) \subseteq Ids /\ s.permits \subseteq Ids
      /\ Carried(s) \subseteq Ids
      /\ LineageSound(s) /\ QueuedOps(s) /\ PermitOps(s)
  BY CarriedIds DEF CustodySound, IdentitySound, Carried
<1>1. ASSUME Quiet(g, s) PROVE IdentitySound(g)
  <2>1. /\ Queued(g) = Queued(s) /\ g.permits = s.permits /\ g.spec = s.spec
        /\ g.queued_ops = s.queued_ops /\ g.op_permit = s.op_permit /\ g.recursion = s.recursion
    BY <1>1 DEF Quiet, SameQueues, SameRequests, SameIndexes, Queued
  <2>2. Carried(g) = Carried(s)
    BY <2>1 DEF Carried
  <2>3. \A j : g.spec[j] = s.spec[j]
    BY <2>1
  <2>4. LineageSound(g)
    BY <1>0, <2>1, <2>2, <2>3, LineageSame
  <2>5. QueuedOps(g) /\ PermitOps(g)
    BY <1>0, <2>1, <2>3, QueuedOpsSame, PermitOpsSame
  <2> QED BY <2>4, <2>5 DEF IdentitySound
<1>2. ASSUME Emptying(g, s) PROVE IdentitySound(g)
  <2> DEFINE gone == Queued(s)
  <2>1. /\ g.queue = [c \in Classes |-> {}] /\ g.queued_ops = {} /\ g.permits = s.permits
        /\ g.recursion = s.recursion \ UNION {stages_of(s.spec[i]) : i \in gone}
        /\ g.spec = [i \in Ids |-> IF i \in gone THEN AnySpec ELSE s.spec[i]]
        /\ g.op_permit = s.op_permit
    BY <1>2 DEF Emptying, Emptied, SamePermits
  <2>2. Queued(g) = {}
    <3>1. \A c \in Classes : g.queue[c] = {}
      BY <2>1
    <3> QED BY <3>1 DEF Queued
  <2>3. \A i \in s.permits : i \notin gone
    BY QueuedOnce
  <2>4. \A j \in s.permits : g.spec[j] = s.spec[j]
    BY <1>0, <2>1, <2>3
  <2>5. Carried(g) = Carried(s) \ gone /\ gone \subseteq Carried(s) /\ Carried(g) = s.permits
    BY <2>1, <2>2, <2>3 DEF Carried
  <2>6. \A e : e \in g.recursion <=>
                 e \in s.recursion /\ ~\E i \in gone : e \in stages_of(s.spec[i])
    <3> SUFFICES ASSUME NEW e
                 PROVE  e \in g.recursion <=>
                          e \in s.recursion /\ ~\E i \in gone : e \in stages_of(s.spec[i])
      BY SMT
    <3> DEFINE U == UNION {stages_of(s.spec[i]) : i \in gone}
    <3>1. e \in U <=> \E i \in gone : e \in stages_of(s.spec[i])
      OBVIOUS
    <3>2. g.recursion = s.recursion \ U
      BY <2>1
    <3> HIDE DEF U
    <3> QED BY <3>1, <3>2
  <2> HIDE DEF gone
  <2>7. LineageSound(g)
    BY <1>0, <2>4, <2>5, <2>6, LineageGone
  <2>8. PermitOps(g)
    BY <1>0, <2>1, <2>4, PermitOpsSame
  <2>9. QueuedOps(g)
    BY <2>1, <2>2 DEF QueuedOps
  <2> QED BY <2>7, <2>8, <2>9 DEF IdentitySound
<1>3. ASSUME NEW n, NEW sp, NEW c, Admitting(g, s, n, sp, c) PROVE IdentitySound(g)
  <2>1. /\ n = s.issued + 1 /\ n \in Ids /\ sp \in Specs /\ Opened(g, s, n, sp, c)
        /\ g.queue = s.queue /\ g.queued_ops = s.queued_ops /\ Fresh(s, sp)
    BY <1>3 DEF Admitting, SameQueues
  <2>2. /\ OnlyRequest(g, s, n, sp, c) /\ g.permits = s.permits \cup {n}
        /\ g.op_permit = put(s.op_permit, identity(sp), n)
        /\ g.recursion = s.recursion \cup stages_of(sp)
    BY <1>0, <2>1, PutRequest DEF Opened
  <2>3. n \notin Queued(s) /\ n \notin s.permits /\ Queued(g) = Queued(s)
    BY <2>1, NextUnused DEF Queued
  <2>4. n \notin Carried(s) /\ Carried(g) = Carried(s) \cup {n}
    BY <2>2, <2>3 DEF Carried
  <2>5. g.spec[n] = sp /\ \A j \in Carried(s) : g.spec[j] = s.spec[j]
    BY <1>0, <2>2, <2>4 DEF OnlyRequest
  <2>6. LineageSound(g)
    BY <2>1, <2>2, <2>4, <2>5, LineageNewcomer
  <2>7. QueuedOps(g)
    <3>1. \A j \in Queued(s) : g.spec[j] = s.spec[j]
      BY <2>5 DEF Carried
    <3> QED BY <1>0, <2>1, <2>3, <3>1, QueuedOpsSame
  <2>8. PermitOps(g)
    <3>1. \A j \in s.permits : g.spec[j] = s.spec[j] /\ identity(s.spec[j]) # identity(sp)
      <4> SUFFICES ASSUME NEW j \in s.permits
                   PROVE  g.spec[j] = s.spec[j] /\ identity(s.spec[j]) # identity(sp)
        BY SMT
      <4>1. j \in Carried(s) /\ j \in Ids
        BY <1>0 DEF Carried
      <4>2. Apart(s.spec[j], sp)
        BY <1>0, <2>1, <4>1, FreshIsApart
      <4> QED BY <2>5, <4>1, <4>2 DEF Apart
    <3> QED BY <1>0, <2>1, <2>2, <2>3, <2>5, <3>1, PermitOpsOpened
  <2> QED BY <2>6, <2>7, <2>8 DEF IdentitySound
<1>4. ASSUME NEW n, NEW sp, NEW c, Queueing(g, s, n, sp, c) PROVE IdentitySound(g)
  <2>1. /\ n = s.issued + 1 /\ n \in Ids /\ sp \in Specs /\ c \in Classes
        /\ g.permits = s.permits /\ g.queue = put(s.queue, c, s.queue[c] \cup {n})
        /\ g.spec = put(s.spec, n, sp) /\ g.class = put(s.class, n, c) /\ Fresh(s, sp)
        /\ g.queued_ops = s.queued_ops \cup {identity(sp)} /\ g.op_permit = s.op_permit
        /\ g.recursion = s.recursion \cup stages_of(sp)
    BY <1>4 DEF Queueing, EnqueuedAs, SamePermits
  <2>2. OnlyRequest(g, s, n, sp, c) /\ Queued(g) = Queued(s) \cup {n}
    <3>1. OnlyRequest(g, s, n, sp, c)
      BY <1>0, <2>1, PutRequest
    <3>2. g.queue = put(s.queue, c, s.queue[c] \cup {n}) /\ c \in Classes /\ GovernedState(s)
      BY <1>0, <2>1
    <3>3. Queued(g) = Queued(s) \cup {n}
      BY <3>2, QueueJoined
    <3> QED BY <3>1, <3>3
  <2>3. n \notin Carried(s)
    BY <2>1, NextUnused DEF Carried
  <2>4. Carried(g) = Carried(s) \cup {n}
    BY <2>1, <2>2 DEF Carried
  <2>5. g.spec[n] = sp /\ \A j \in Carried(s) : g.spec[j] = s.spec[j]
    BY <1>0, <2>2, <2>3 DEF OnlyRequest
  <2>6. LineageSound(g)
    BY <2>1, <2>3, <2>4, <2>5, LineageNewcomer
  <2>7. /\ \A j \in Queued(s) : g.spec[j] = s.spec[j]
        /\ \A j \in s.permits : g.spec[j] = s.spec[j]
    BY <2>5 DEF Carried
  <2>8. QueuedOps(g)
    <3>1. g.queued_ops = s.queued_ops \cup {identity(g.spec[n])}
      BY <2>1, <2>5
    <3> QED BY <1>0, <2>2, <2>7, <3>1, QueuedOpsJoined
  <2>9. PermitOps(g)
    BY <1>0, <2>1, <2>7, PermitOpsSame
  <2> QED BY <2>6, <2>8, <2>9 DEF IdentitySound
<1>5. ASSUME NEW n, Promoting(g, s, n) PROVE IdentitySound(g)
  <2> DEFINE sp == s.spec[n]
  <2>1. /\ n \in Queued(s) /\ n \in Ids /\ Opened(g, s, n, sp, s.class[n])
        /\ g.queue = put(s.queue, s.class[n], s.queue[s.class[n]] \ {n})
        /\ g.queued_ops = s.queued_ops \ {identity(sp)}
    BY <1>5 DEF Promoting, PromotedAs
  <2>2. /\ OnlyRequest(g, s, n, sp, s.class[n]) /\ g.permits = s.permits \cup {n}
        /\ g.op_permit = put(s.op_permit, identity(sp), n)
        /\ g.recursion = s.recursion \cup stages_of(sp)
    BY <1>0, <2>1, PutRequest DEF Opened
  <2>3. LeftQueue(g, s, n) /\ n \notin s.permits /\ sp \in Specs
    BY <2>1, QueueLeft, QueuedOnce
  <2>4. Carried(g) = Carried(s) /\ n \in Carried(s)
    BY <2>1, <2>2, <2>3 DEF Carried, LeftQueue
  <2>5. \A j \in Carried(s) : g.spec[j] = s.spec[j]
    BY <1>0, <2>2 DEF OnlyRequest
  <2>6. LineageSound(g)
    <3>1. \A e : e \in g.recursion <=> e \in s.recursion
      BY <1>0, <2>2, <2>4 DEF LineageSound
    <3> QED BY <1>0, <2>4, <2>5, <3>1, LineageSame
  <2>7. QueuedOps(g)
    <3>1. Queued(g) = Queued(s) \ {n}
      BY <2>3 DEF LeftQueue
    <3>2. \A j \in Queued(g) : g.spec[j] = s.spec[j]
      BY <2>5, <3>1 DEF Carried
    <3> QED BY <1>0, <2>1, <3>1, <3>2, QueuedOpsLeft
  <2>8. PermitOps(g)
    <3>1. \A j \in s.permits : g.spec[j] = s.spec[j] /\ identity(s.spec[j]) # identity(sp)
      <4> SUFFICES ASSUME NEW j \in s.permits
                   PROVE  g.spec[j] = s.spec[j] /\ identity(s.spec[j]) # identity(sp)
        BY SMT
      <4>1. j \in Carried(s) /\ j # n
        BY <2>3 DEF Carried
      <4>2. Apart(s.spec[j], sp)
        BY <1>0, <2>4, <4>1 DEF LineageSound
      <4> QED BY <2>5, <4>1, <4>2 DEF Apart
    <3>2. g.spec[n] = sp
      BY <2>2 DEF OnlyRequest
    <3> HIDE DEF sp
    <3> QED BY <1>0, <2>1, <2>2, <2>3, <3>1, <3>2, PermitOpsOpened
  <2> QED BY <2>6, <2>7, <2>8 DEF IdentitySound
<1>6. ASSUME NEW n, Leaving(g, s, n) PROVE IdentitySound(g)
  <2>1. /\ n \in Ids /\ n \in Queued(s) /\ g.permits = s.permits
        /\ g.spec = put(s.spec, n, AnySpec) /\ g.class = put(s.class, n, AnyClass)
        /\ g.queue = put(s.queue, s.class[n], s.queue[s.class[n]] \ {n})
        /\ g.queued_ops = s.queued_ops \ {identity(s.spec[n])} /\ g.op_permit = s.op_permit
        /\ g.recursion = s.recursion \ stages_of(s.spec[n])
    BY <1>6 DEF Leaving, Unqueued, SamePermits
  <2>2. OnlyRequest(g, s, n, AnySpec, AnyClass) /\ LeftQueue(g, s, n) /\ n \notin s.permits
    BY <1>0, <2>1, PutRequest, QueueLeft, QueuedOnce
  <2>3. Carried(g) = Carried(s) \ {n} /\ {n} \subseteq Carried(s)
    BY <2>1, <2>2 DEF Carried, LeftQueue
  <2>4. \A j \in Carried(g) : g.spec[j] = s.spec[j]
    BY <1>0, <2>2, <2>3 DEF OnlyRequest
  <2>5. \A e : e \in g.recursion <=>
                 e \in s.recursion /\ ~\E i \in {n} : e \in stages_of(s.spec[i])
    BY <2>1
  <2>6. LineageSound(g)
    BY <1>0, <2>3, <2>4, <2>5, LineageGone
  <2>7. QueuedOps(g)
    <3>1. Queued(g) = Queued(s) \ {n}
      BY <2>2 DEF LeftQueue
    <3>2. \A j \in Queued(g) : g.spec[j] = s.spec[j]
      BY <2>4 DEF Carried
    <3> QED BY <1>0, <2>1, <3>1, <3>2, QueuedOpsLeft
  <2>8. PermitOps(g)
    <3>1. \A j \in s.permits : g.spec[j] = s.spec[j]
      BY <2>1, <2>4 DEF Carried
    <3> QED BY <1>0, <2>1, <3>1, PermitOpsSame
  <2> QED BY <2>6, <2>7, <2>8 DEF IdentitySound
<1>7. ASSUME NEW n, Ending(g, s, n) PROVE IdentitySound(g)
  <2>1. /\ n \in Ids /\ n \in s.permits /\ g.permits = s.permits \ {n} /\ g.queue = s.queue
        /\ g.queued_ops = s.queued_ops
        /\ g.spec = put(s.spec, n, AnySpec) /\ g.class = put(s.class, n, AnyClass)
        /\ g.op_permit = put(s.op_permit, identity(s.spec[n]), None)
        /\ g.recursion = s.recursion \ stages_of(s.spec[n])
    BY <1>7 DEF Ending, Unwound, Ended, SameQueues
  <2>2. OnlyRequest(g, s, n, AnySpec, AnyClass) /\ Queued(g) = Queued(s)
    BY <1>0, <2>1, PutRequest DEF Queued
  <2>3. n \notin Queued(s)
    BY <2>1, QueuedOnce
  <2>4. Carried(g) = Carried(s) \ {n} /\ {n} \subseteq Carried(s)
    BY <2>1, <2>2, <2>3 DEF Carried
  <2>5. \A j \in Carried(g) : g.spec[j] = s.spec[j]
    BY <1>0, <2>2, <2>4 DEF OnlyRequest
  <2>6. \A e : e \in g.recursion <=>
                 e \in s.recursion /\ ~\E i \in {n} : e \in stages_of(s.spec[i])
    BY <2>1
  <2>7. LineageSound(g)
    BY <1>0, <2>4, <2>5, <2>6, LineageGone
  <2>8. QueuedOps(g)
    <3>1. \A j \in Queued(s) : g.spec[j] = s.spec[j]
      BY <2>2, <2>5 DEF Carried
    <3> QED BY <1>0, <2>1, <2>2, <3>1, QueuedOpsSame
  <2>9. PermitOps(g)
    <3>1. \A j \in g.permits : g.spec[j] = s.spec[j]
      BY <2>5 DEF Carried
    <3> QED BY <1>0, <2>1, <3>1, PermitOpsEnded
  <2> QED BY <2>7, <2>8, <2>9 DEF IdentitySound
<1> QED BY <1>1, <1>2, <1>3, <1>4, <1>5, <1>6, <1>7, QuietKinds DEF Change

-----------------------------------------------------------------------------
\* Tickets



\* Nothing happened to ticket j, or its terminal answer was evicted.
Undisturbed(g, s, j) ==
  /\ j \in Queued(g) <=> j \in Queued(s)
  /\ j \in g.pending_ticket <=> j \in s.pending_ticket
  /\ j \in g.claim_waker => j \in s.claim_waker
  /\ j \in s.pending_ticket /\ j \in s.permits => j \in g.permits
  /\ \/ g.tickets[j] = s.tickets[j]
     \/ s.tickets[j] \in TerminalReasons /\ g.tickets[j] = "Unknown"
  /\ j > g.issued => j > s.issued

\* The answers that are not terminal.
LEMMA NotTerminal ==
  /\ "Unknown" \notin TerminalReasons /\ "Queued" \notin TerminalReasons
  /\ "Granted" \notin TerminalReasons /\ "Claiming" \notin TerminalReasons
  /\ "Faulted" \notin TerminalReasons
BY SMT DEF TerminalReasons

\* A ticket that is not disturbed still says what is so.
LEMMA TicketStill ==
  ASSUME NEW s, NEW g, NEW j, TicketOf(s, j), Undisturbed(g, s, j)
  PROVE  TicketOf(g, j)
<1>1. CASE g.tickets[j] = s.tickets[j]
  BY <1>1 DEF TicketOf, Undisturbed
<1>2. CASE s.tickets[j] \in TerminalReasons /\ g.tickets[j] = "Unknown"
  <2>1. s.tickets[j] \notin {"Queued", "Granted", "Claiming"}
    BY <1>2, NotTerminal
  <2>2. j \notin Queued(g) /\ j \notin g.pending_ticket /\ j \notin g.claim_waker
    BY <2>1 DEF TicketOf, Undisturbed
  <2> QED BY <1>2, <2>2 DEF TicketOf
<1> QED BY <1>1, <1>2 DEF Undisturbed

\* Ticket n says v, and the others say what they did.
OnlyTicket(g, s, n, v) ==
  g.tickets[n] = v /\ \A j \in Ids \ {n} : g.tickets[j] = s.tickets[j]

\* One ticket is written.
LEMMA PutTicket ==
  ASSUME NEW s, GovernedState(s), NEW g, NEW n \in Ids, NEW v, g.tickets = put(s.tickets, n, v)
  PROVE  OnlyTicket(g, s, n, v)
<1>1. s.tickets \in [Ids -> TicketStates]
  BY DEF GovernedState
<1> QED BY <1>1 DEF put, OnlyTicket

\* An id is at most the number issued, or is yet to be issued.
LEMMA LaterId ==
  ASSUME NEW s, GovernedState(s), NEW j \in Ids
  PROVE  ~(j > s.issued) <=> j <= s.issued
<1>1. s.issued \in 0..MaxIds
  BY DEF GovernedState
<1> QED BY <1>1, SMT DEF Ids

\* Tickets, bindings, queues and permits stay.
TicketsKept(g, s) ==
  /\ SameTickets(g, s) /\ SameBindings(g, s) /\ SameQueues(g, s)
  /\ g.permits = s.permits /\ g.issued = s.issued

\* Changes that touch no ticket.
LEMMA TicketsKeptSound ==
  ASSUME NEW s, NEW g, TicketSound(s), TicketsKept(g, s)
  PROVE  TicketSound(g)
<1>1. \A j : Undisturbed(g, s, j)
  BY DEF TicketsKept, SameTickets, SameBindings, SameQueues, Queued, Undisturbed
<1> QED BY <1>1, TicketStill DEF TicketSound, TicketsKept, SameTickets

\* Queueing, promoting and granting.
LEMMA TicketsAdmitting ==
  ASSUME NEW s, CustodySound(s), TicketSound(s), NEW g, NEW n, NEW sp, NEW c,
         Admitting(g, s, n, sp, c)
  PROVE  TicketSound(g)
<1>1. /\ n = s.issued + 1 /\ g.permits = s.permits \cup {n} /\ g.issued = n
      /\ SameQueues(g, s) /\ SameTickets(g, s) /\ SameBindings(g, s)
  BY DEF Admitting, Opened
<1>2. ASSUME NEW j \in Ids, j > g.issued PROVE j > s.issued
  <2>1. s.issued \in 0..MaxIds
    BY DEF CustodySound, GovernedState
  <2> QED BY <1>1, <1>2, <2>1, SMT DEF Ids
<1>3. \A j \in Ids : Undisturbed(g, s, j)
  BY <1>1, <1>2 DEF SameTickets, SameBindings, SameQueues, Queued, Undisturbed
<1> QED BY <1>1, <1>3, TicketStill DEF TicketSound, SameTickets

\* A new ticket is queued.
LEMMA TicketsQueueing ==
  ASSUME NEW s, CustodySound(s), TicketSound(s), NEW g, NEW n, NEW sp, NEW c,
         Queueing(g, s, n, sp, c)
  PROVE  TicketSound(g)
<1>1. /\ n = s.issued + 1 /\ n \in Ids /\ c \in Classes /\ g.issued = n
      /\ g.queue = put(s.queue, c, s.queue[c] \cup {n}) /\ SamePermits(g, s)
      /\ g.tickets = put(s.tickets, n, "Queued") /\ g.terminal_order = s.terminal_order
  BY DEF Queueing, EnqueuedAs
<1>2. GovernedState(s) /\ s.issued \in 0..MaxIds
  BY DEF CustodySound, GovernedState
<1>3. n > s.issued /\ \A j \in Ids : j > g.issued => j > s.issued
  BY <1>1, <1>2, SMT DEF Ids
<1>4. s.tickets[n] = "Unknown" /\ n \notin s.pending_ticket /\ n \notin s.claim_waker
  BY <1>1, <1>3 DEF TicketSound, TicketOf
<1>5. Queued(g) = Queued(s) \cup {n}
  <2>1. g.queue = put(s.queue, c, s.queue[c] \cup {n}) /\ c \in Classes
    BY <1>1
  <2> QED BY <1>2, <2>1, QueueJoined
<1>6. OnlyTicket(g, s, n, "Queued")
  BY <1>1, <1>2, PutTicket
<1>7. ASSUME NEW j \in Ids \ {n} PROVE TicketOf(g, j)
  <2>1. Undisturbed(g, s, j)
    BY <1>1, <1>3, <1>5, <1>6 DEF SamePermits, Undisturbed, OnlyTicket
  <2> QED BY <2>1, TicketStill DEF TicketSound
<1>8. TicketOf(g, n)
  <2>1. ~(n > g.issued)
    BY <1>1, <1>2, SMT
  <2>2. n \notin g.pending_ticket /\ n \notin g.claim_waker /\ n \in Queued(g)
    BY <1>1, <1>4, <1>5 DEF SamePermits
  <2> QED BY <1>6, <2>1, <2>2 DEF TicketOf, OnlyTicket
<1>9. RingSound(g.terminal_order, g.tickets)
  <2>1. s.terminal_order \in Seq(Ids) /\ s.tickets \in [Ids -> TicketStates]
    BY <1>2 DEF GovernedState
  <2>2. RingSound(s.terminal_order, put(s.tickets, n, "Queued"))
    BY <1>1, <1>4, <2>1, NotTerminal, RingPut DEF TicketSound
  <2> QED BY <1>1, <2>2
<1> QED BY <1>7, <1>8, <1>9 DEF TicketSound

\* A queued ticket is granted.
LEMMA TicketsPromoting ==
  ASSUME NEW s, CustodySound(s), TicketSound(s), NEW g, NEW n, Promoting(g, s, n)
  PROVE  TicketSound(g)
<1>1. /\ n \in Queued(s) /\ n \in Ids /\ g.permits = s.permits \cup {n} /\ g.issued = s.issued
      /\ g.queue = put(s.queue, s.class[n], s.queue[s.class[n]] \ {n})
      /\ g.tickets = put(s.tickets, n, "Granted") /\ g.terminal_order = s.terminal_order
      /\ g.pending_ticket = s.pending_ticket \cup {n}
      /\ g.claim_waker = IF s.spec[n].waker THEN s.claim_waker \cup {n} ELSE s.claim_waker
  BY DEF Promoting, PromotedAs, Opened
<1>2. GovernedState(s) /\ n <= s.issued
  BY <1>1, QueuedOnce DEF CustodySound
<1>3. s.tickets[n] = "Queued"
  BY <1>1 DEF TicketSound, TicketOf
<1>4. Queued(g) = Queued(s) \ {n}
  BY <1>1, QueueLeft DEF LeftQueue
<1>5. OnlyTicket(g, s, n, "Granted")
  BY <1>1, <1>2, PutTicket
<1>6. ASSUME NEW j \in Ids \ {n} PROVE TicketOf(g, j)
  <2>1. j \in g.claim_waker => j \in s.claim_waker
    BY <1>1
  <2>2. Undisturbed(g, s, j)
    BY <1>1, <1>4, <1>5, <2>1 DEF Undisturbed, OnlyTicket
  <2> QED BY <2>2, TicketStill DEF TicketSound
<1>7. TicketOf(g, n)
  <2>1. ~(n > g.issued)
    BY <1>1, <1>2, LaterId
  <2>2. n \in g.pending_ticket /\ n \in g.permits /\ n \notin Queued(g)
    BY <1>1, <1>4
  <2> QED BY <1>5, <2>1, <2>2 DEF TicketOf, OnlyTicket
<1>8. RingSound(g.terminal_order, g.tickets)
  <2>1. s.terminal_order \in Seq(Ids) /\ s.tickets \in [Ids -> TicketStates]
    BY <1>2 DEF GovernedState
  <2>2. RingSound(s.terminal_order, put(s.tickets, n, "Granted"))
    BY <1>1, <1>3, <2>1, NotTerminal, RingPut DEF TicketSound
  <2> QED BY <1>1, <2>2
<1> QED BY <1>6, <1>7, <1>8 DEF TicketSound

\* Ticket n has a terminal answer, or none, and is neither queued nor bound.
LEMMA TicketClosed ==
  ASSUME NEW g, NEW n, n \notin Queued(g), n \notin g.pending_ticket, n \notin g.claim_waker,
         g.tickets[n] \in TerminalReasons \cup {"Unknown"}, ~(n > g.issued)
  PROVE  TicketOf(g, n)
<1>1. g.tickets[n] \notin {"Queued", "Granted", "Claiming"}
  BY NotTerminal
<1> QED BY <1>1 DEF TicketOf

\* Leaving a queue, faulting and ending a permit.
LEMMA TicketsLeaving ==
  ASSUME NEW s, CustodySound(s), TicketSound(s), NEW g, NEW n, Leaving(g, s, n)
  PROVE  TicketSound(g)
<1>1. /\ n \in Queued(s) /\ n \in Ids /\ SamePermits(g, s) /\ g.issued = s.issued
      /\ g.queue = put(s.queue, s.class[n], s.queue[s.class[n]] \ {n})
      /\ \/ Recorded(g, s, n, "WaitCycle")
         \/ g.tickets = put(s.tickets, n, "Unknown") /\ g.terminal_order = s.terminal_order
  BY DEF Leaving, Unqueued
<1>2. GovernedState(s) /\ n <= s.issued
  BY <1>1, QueuedOnce DEF CustodySound
<1>3. /\ s.tickets[n] = "Queued" /\ n \notin s.pending_ticket /\ n \notin s.claim_waker
      /\ s.tickets[n] \notin TerminalReasons /\ RingSound(s.terminal_order, s.tickets)
  BY <1>1, NotTerminal DEF TicketSound, TicketOf
<1>4. Queued(g) = Queued(s) \ {n}
  BY <1>1, QueueLeft DEF LeftQueue
<1>5. Answered(g, s, n)
  <2>1. CASE Recorded(g, s, n, "WaitCycle")
    <3>1. "WaitCycle" \in TerminalReasons
      BY SMT DEF TerminalReasons
    <3> QED BY <1>1, <1>2, <1>3, <2>1, <3>1, RingRecorded
  <2>2. CASE g.tickets = put(s.tickets, n, "Unknown") /\ g.terminal_order = s.terminal_order
    <3>1. s.terminal_order \in Seq(Ids) /\ s.tickets \in [Ids -> TicketStates]
      BY <1>2 DEF GovernedState
    <3>2. RingSound(s.terminal_order, put(s.tickets, n, "Unknown"))
      BY <1>1, <1>3, <3>1, NotTerminal, RingPut
    <3>3. OnlyTicket(g, s, n, "Unknown")
      BY <1>1, <1>2, <2>2, PutTicket
    <3> QED BY <2>2, <3>2, <3>3 DEF Answered, OnlyTicket
  <2> QED BY <1>1, <2>1, <2>2
<1>6. ASSUME NEW j \in Ids \ {n} PROVE TicketOf(g, j)
  <2>1. Undisturbed(g, s, j)
    BY <1>1, <1>4, <1>5 DEF Undisturbed, Answered, SamePermits
  <2> QED BY <2>1, TicketStill DEF TicketSound
<1>7. TicketOf(g, n)
  <2>1. ~(n > g.issued)
    BY <1>1, <1>2, LaterId
  <2>2. n \notin g.pending_ticket /\ n \notin g.claim_waker /\ n \notin Queued(g)
    BY <1>1, <1>3, <1>4 DEF SamePermits
  <2> QED BY <1>5, <2>1, <2>2, TicketClosed DEF Answered
<1> QED BY <1>5, <1>6, <1>7 DEF TicketSound, Answered

\* A permit ends and its ticket is answered.
LEMMA TicketsEnding ==
  ASSUME NEW s, CustodySound(s), TicketSound(s), NEW g, NEW n, Ending(g, s, n)
  PROVE  TicketSound(g)
<1>1. PICK reason \in TerminalReasons : Unwound(g, s, n, reason)
  BY DEF Ending
<1>2. /\ n \in s.permits /\ n \in Ids /\ g.issued = s.issued /\ g.queue = s.queue
      /\ g.permits = s.permits \ {n} /\ g.pending_ticket = s.pending_ticket \ {n}
      /\ g.claim_waker = s.claim_waker \ {n}
  BY <1>1 DEF Ending, Unwound, Ended, SameQueues
<1>3. GovernedState(s) /\ n <= s.issued /\ n \notin Queued(s) /\ Queued(g) = Queued(s)
  <2>1. Queued(g) = Queued(s)
    BY <1>2 DEF Queued
  <2> QED BY <1>2, <2>1, QueuedOnce DEF CustodySound
<1>4. RingSound(s.terminal_order, s.tickets) /\ TicketOf(s, n)
  BY <1>2 DEF TicketSound
<1>5. ASSUME NEW j \in Ids \ {n}, \/ g.tickets[j] = s.tickets[j]
                                  \/ s.tickets[j] \in TerminalReasons /\ g.tickets[j] = "Unknown"
      PROVE  TicketOf(g, j)
  <2>1. Undisturbed(g, s, j)
    BY <1>2, <1>3, <1>5 DEF Undisturbed
  <2> QED BY <2>1, TicketStill DEF TicketSound
<1>6. ~(n > g.issued) /\ n \notin g.pending_ticket /\ n \notin g.claim_waker /\ n \notin Queued(g)
  BY <1>2, <1>3, LaterId
<1>7. CASE n \in s.pending_ticket
  <2>1. s.tickets[n] \notin TerminalReasons
    BY <1>4, <1>7, NotTerminal DEF TicketOf
  <2>2. Recorded(g, s, n, reason)
    BY <1>1, <1>7 DEF Unwound
  <2>3. Answered(g, s, n)
    BY <1>2, <1>3, <1>4, <2>1, <2>2, RingRecorded
  <2>4. TicketOf(g, n)
    BY <1>6, <2>3, TicketClosed DEF Answered
  <2> QED BY <1>5, <2>3, <2>4 DEF TicketSound, Answered
<1>8. CASE n \notin s.pending_ticket
  <2>1. SameTickets(g, s)
    BY <1>1, <1>8 DEF Unwound
  <2>2. TicketOf(g, n)
    BY <1>3, <1>4, <1>6, <1>8, <2>1 DEF TicketOf, SameTickets
  <2> QED BY <1>4, <1>5, <2>1, <2>2 DEF TicketSound, SameTickets
<1> QED BY <1>7, <1>8

\* A fault answers every queued ticket.
LEMMA TicketsEmptying ==
  ASSUME NEW s, CustodySound(s), TicketSound(s), NEW g, Emptying(g, s)
  PROVE  TicketSound(g)
<1>1. /\ g.queue = [c \in Classes |-> {}] /\ SamePermits(g, s) /\ g.issued = s.issued
      /\ g.tickets = [i \in Ids |-> IF i \in Queued(s) THEN "Faulted" ELSE s.tickets[i]]
      /\ g.terminal_order = s.terminal_order
  BY DEF Emptying, Emptied
<1>2. Queued(g) = {}
  <2>1. \A c \in Classes : g.queue[c] = {}
    BY <1>1
  <2> QED BY <2>1 DEF Queued
<1>3. ASSUME NEW j \in Ids PROVE TicketOf(g, j)
  <2>1. CASE j \in Queued(s)
    <3>1. g.tickets[j] = "Faulted"
      BY <1>1, <2>1
    <3>2. s.tickets[j] = "Queued" /\ j \notin s.pending_ticket /\ j \notin s.claim_waker
      BY <2>1 DEF TicketSound, TicketOf
    <3>3. ~(j > g.issued)
      BY <1>1, <2>1, QueuedOnce, LaterId DEF CustodySound
    <3> QED BY <1>1, <1>2, <3>1, <3>2, <3>3 DEF TicketOf, SamePermits
  <2>2. CASE j \notin Queued(s)
    <3>1. g.tickets[j] = s.tickets[j]
      BY <1>1, <2>2
    <3>2. Undisturbed(g, s, j)
      BY <1>1, <1>2, <2>2, <3>1 DEF Undisturbed, SamePermits
    <3> QED BY <3>2, TicketStill DEF TicketSound
  <2> QED BY <2>1, <2>2
<1>4. \A j \in Ids : g.tickets[j] \in TerminalReasons <=> s.tickets[j] \in TerminalReasons
  <2> SUFFICES ASSUME NEW j \in Ids
               PROVE  g.tickets[j] \in TerminalReasons <=> s.tickets[j] \in TerminalReasons
    BY SMT
  <2>1. CASE j \in Queued(s)
    <3>1. g.tickets[j] = "Faulted" /\ s.tickets[j] = "Queued"
      BY <1>1, <2>1 DEF TicketSound, TicketOf
    <3> QED BY <3>1, NotTerminal
  <2>2. CASE j \notin Queued(s)
    BY <1>1, <2>2
  <2> QED BY <2>1, <2>2
<1>5. RingSound(g.terminal_order, g.tickets)
  <2>1. \A n \in 1..Len(s.terminal_order) : s.terminal_order[n] \in Ids
    <3>1. s.terminal_order \in Seq(Ids)
      BY DEF CustodySound, GovernedState
    <3> QED BY <3>1, ElementOfSeq
  <2> QED BY <1>1, <1>4, <2>1 DEF TicketSound, RingSound
<1> QED BY <1>3, <1>5 DEF TicketSound

\* Claiming, and taking an answer.
LEMMA SameQueued == ASSUME NEW s, NEW g, SameQueues(g, s) PROVE Queued(g) = Queued(s)
BY DEF SameQueues, Queued

\* A claim takes the permit of its ticket.
LEMMA TicketsClaimed ==
  ASSUME NEW s, CustodySound(s), TicketSound(s), NEW g, NEW n,
         Claiming(g, s, n) \/ Claimed(g, s, n)
  PROVE  TicketSound(g)
<1>1. /\ n \in Ids /\ SameButTickets(g, s) /\ g.terminal_order = s.terminal_order
      /\ s.tickets[n] \in {"Granted", "Claiming"}
      /\ \/ /\ g.tickets = put(s.tickets, n, "Claiming")
            /\ g.pending_ticket = s.pending_ticket /\ g.claim_waker = s.claim_waker \ {n}
         \/ /\ g.tickets = put(s.tickets, n, "Unknown") /\ s.tickets[n] = "Claiming"
            /\ g.pending_ticket = s.pending_ticket \ {n} /\ g.claim_waker = s.claim_waker
  BY DEF Claiming, Claimed
<1>2. PICK v \in {"Claiming", "Unknown"} : g.tickets = put(s.tickets, n, v)
  BY <1>1
<1>3. /\ GovernedState(s) /\ g.permits = s.permits /\ g.issued = s.issued /\ Queued(g) = Queued(s)
      /\ TicketOf(s, n)
  BY <1>1, SameQueued DEF CustodySound, SameButTickets, TicketSound
<1>4. OnlyTicket(g, s, n, v) /\ v \notin TerminalReasons /\ s.tickets[n] \notin TerminalReasons
  <2>1. OnlyTicket(g, s, n, v)
    BY <1>1, <1>2, <1>3, PutTicket
  <2> QED BY <1>1, <1>2, <2>1, NotTerminal
<1>5. ASSUME NEW j \in Ids \ {n} PROVE TicketOf(g, j)
  <2>1. /\ j \in g.pending_ticket <=> j \in s.pending_ticket
        /\ j \in g.claim_waker => j \in s.claim_waker
    BY <1>1
  <2>2. Undisturbed(g, s, j)
    BY <1>3, <1>4, <2>1 DEF Undisturbed, OnlyTicket
  <2> QED BY <2>2, TicketStill DEF TicketSound
<1>6. TicketOf(g, n)
  <2>1. n \notin Queued(s) /\ n \in s.pending_ticket /\ n \in s.permits /\ ~(n > s.issued)
    BY <1>1, <1>3 DEF TicketOf
  <2>2. CASE /\ g.tickets = put(s.tickets, n, "Claiming")
             /\ g.pending_ticket = s.pending_ticket /\ g.claim_waker = s.claim_waker \ {n}
    <3>1. OnlyTicket(g, s, n, "Claiming")
      BY <1>1, <1>3, <2>2, PutTicket
    <3> QED BY <1>3, <2>1, <2>2, <3>1 DEF TicketOf, OnlyTicket
  <2>3. CASE /\ g.tickets = put(s.tickets, n, "Unknown") /\ s.tickets[n] = "Claiming"
             /\ g.pending_ticket = s.pending_ticket \ {n} /\ g.claim_waker = s.claim_waker
    <3>1. OnlyTicket(g, s, n, "Unknown")
      BY <1>1, <1>3, <2>3, PutTicket
    <3>2. n \notin s.claim_waker
      BY <1>3, <2>3 DEF TicketOf
    <3> QED BY <1>3, <2>1, <2>3, <3>1, <3>2 DEF TicketOf, OnlyTicket
  <2> QED BY <1>1, <2>2, <2>3
<1>7. RingSound(g.terminal_order, g.tickets)
  <2>1. s.terminal_order \in Seq(Ids) /\ s.tickets \in [Ids -> TicketStates]
    BY <1>3 DEF GovernedState
  <2>2. RingSound(s.terminal_order, put(s.tickets, n, v))
    BY <1>1, <1>4, <2>1, RingPut DEF TicketSound
  <2> QED BY <1>1, <1>2, <2>2
<1> QED BY <1>5, <1>6, <1>7 DEF TicketSound

\* A failed claim answers its ticket.
LEMMA TicketsFailing ==
  ASSUME NEW s, CustodySound(s), TicketSound(s), NEW g, NEW n, Failing(g, s, n)
  PROVE  TicketSound(g)
<1>1. PICK reason \in TerminalReasons : Recorded(g, s, n, reason)
  BY DEF Failing
<1>2. /\ n \in Ids /\ s.tickets[n] = "Claiming"
      /\ g.pending_ticket = s.pending_ticket \ {n} /\ g.claim_waker = s.claim_waker
  BY DEF Failing
<1>3. /\ GovernedState(s) /\ g.permits = s.permits /\ g.issued = s.issued /\ Queued(g) = Queued(s)
      /\ TicketOf(s, n) /\ RingSound(s.terminal_order, s.tickets)
  BY <1>2, SameQueued DEF CustodySound, Failing, SameButTickets, TicketSound
<1>4. s.tickets[n] \notin TerminalReasons
  BY <1>2, NotTerminal
<1>5. Answered(g, s, n)
  BY <1>1, <1>2, <1>3, <1>4, RingRecorded
<1>6. ASSUME NEW j \in Ids \ {n} PROVE TicketOf(g, j)
  <2>1. Undisturbed(g, s, j)
    BY <1>2, <1>3, <1>5 DEF Undisturbed, Answered
  <2> QED BY <2>1, TicketStill DEF TicketSound
<1>7. TicketOf(g, n)
  <2>1. ~(n > g.issued) /\ n \notin g.pending_ticket /\ n \notin g.claim_waker /\ n \notin Queued(g)
    BY <1>2, <1>3 DEF TicketOf
  <2> QED BY <1>5, <2>1, TicketClosed DEF Answered
<1> QED BY <1>5, <1>6, <1>7 DEF TicketSound, Answered

\* An answer is taken.
LEMMA TicketsForgetting ==
  ASSUME NEW s, CustodySound(s), TicketSound(s), NEW g, NEW n, Forgetting(g, s, n)
  PROVE  TicketSound(g)
<1>1. /\ n \in Ids /\ Forgotten(g, s, n)
      /\ g.pending_ticket = s.pending_ticket /\ g.claim_waker = s.claim_waker
  BY DEF Forgetting, SameBindings
<1>2. /\ GovernedState(s) /\ g.permits = s.permits /\ g.issued = s.issued /\ Queued(g) = Queued(s)
      /\ RingSound(s.terminal_order, s.tickets) /\ TicketOf(s, n)
  BY <1>1, SameQueued DEF CustodySound, Forgetting, SameButTickets, TicketSound
<1>3. /\ RingSound(g.terminal_order, g.tickets)
      /\ g.tickets[n] = IF s.tickets[n] \in TerminalReasons \cup {"Faulted"} THEN "Unknown"
                        ELSE s.tickets[n]
      /\ \A j \in Ids \ {n} : g.tickets[j] = s.tickets[j]
  BY <1>1, <1>2, RingForgotten, SMT
<1>4. ASSUME NEW j \in Ids \ {n} PROVE TicketOf(g, j)
  <2>1. Undisturbed(g, s, j)
    BY <1>1, <1>2, <1>3 DEF Undisturbed
  <2> QED BY <2>1, TicketStill DEF TicketSound
<1>5. TicketOf(g, n)
  <2>1. CASE s.tickets[n] \in TerminalReasons \cup {"Faulted"}
    <3>1. g.tickets[n] = "Unknown" /\ s.tickets[n] \notin {"Queued", "Granted", "Claiming"}
      BY <1>3, <2>1, NotTerminal
    <3>2. n \notin g.pending_ticket /\ n \notin g.claim_waker /\ n \notin Queued(g)
      BY <1>1, <1>2, <3>1 DEF TicketOf
    <3> QED BY <3>1, <3>2 DEF TicketOf
  <2>2. CASE s.tickets[n] \notin TerminalReasons \cup {"Faulted"}
    BY <1>1, <1>2, <1>3, <2>2 DEF TicketOf
  <2> QED BY <2>1, <2>2
<1>6. \A j \in Ids : TicketOf(g, j)
  BY <1>4, <1>5
<1> QED BY <1>3, <1>6 DEF TicketSound

\* Every change keeps the tickets true to the queues, the permits and the ring.
LEMMA TicketKept ==
  ASSUME NEW s, CustodySound(s), NEW g, Change(g, s), TicketSound(s)
  PROVE  TicketSound(g)
<1>1. ASSUME Kept(g, s) PROVE TicketSound(g)
  <2>1. TicketsKept(g, s)
    BY <1>1 DEF Kept, SamePermits, SameBindings, TicketsKept
  <2> QED BY <2>1, TicketsKeptSound
<1>2. ASSUME NEW n, NEW p, Advancing(g, s, n, p) PROVE TicketSound(g)
  <2>1. TicketsKept(g, s)
    BY <1>2 DEF Advancing, Advanced, TicketsKept
  <2> QED BY <2>1, TicketsKeptSound
<1>3. ASSUME NEW n, Metering(g, s, n) PROVE TicketSound(g)
  <2>1. SameWork(g, s)
    BY <1>3 DEF Metering, Reconciled, StageReturned
  <2>2. TicketsKept(g, s)
    BY <2>1 DEF SameWork, SamePermits, SameBindings, TicketsKept
  <2> QED BY <2>2, TicketsKeptSound
<1> QED BY <1>1, <1>2, <1>3, TicketsAdmitting, TicketsQueueing, TicketsPromoting,
           TicketsLeaving, TicketsEnding, TicketsEmptying, TicketsClaimed, TicketsFailing,
           TicketsForgetting DEF Change

-----------------------------------------------------------------------------
\* The safety invariants of one state

SafeState(s) ==
  CustodySound(s) /\ TicketSound(s) /\ IdentitySound(s) /\ CapacitySound(s) /\ FifoSound(s)

\* A change keeps the conjunction.
LEMMA SafeKept ==
  ASSUME NEW s, SafeState(s), NEW g, CustodySound(g), Change(g, s)
  PROVE  SafeState(g)
BY TicketKept, IdentityKept, CapacityKept, FifoKept DEF SafeState

\* A step keeps them.
LEMMA SafeStep ==
  ASSUME NEW s, SafeState(s), NEW g, CustodySound(g), Step(g, s)
  PROVE  SafeState(g)
<1>1. PICK r, m : /\ CustodySound(r) /\ CustodySound(m) /\ Kept(r, s) /\ Change(m, r)
                  /\ Kept(g, m) \/ \E i : Forgetting(g, m, i)
  BY DEF Step
<1>2. Change(r, s) /\ Change(g, m)
  BY <1>1 DEF Change
<1>3. SafeState(r)
  BY <1>1, <1>2, SafeKept
<1>4. SafeState(m)
  BY <1>1, <1>3, SafeKept
<1> QED BY <1>2, <1>4, SafeKept

\* Nothing is queued or live in the initial state.
LEMMA SafeEmpty ==
  ASSUME NEW s, s = Empty, CustodySound(s)
  PROVE  SafeState(s)
<1>2. /\ s.permits = {} /\ s.queue = [c \in Classes |-> {}]
      /\ s.pending_ticket = {} /\ s.claim_waker = {} /\ s.terminal_order = <<>>
      /\ s.tickets = [i \in Ids |-> "Unknown"] /\ s.queued_ops = {} /\ s.recursion = {}
      /\ s.op_permit = [o \in Identities |-> None]
      /\ s.inflight = [c \in Classes |-> 0] /\ s.in_use = [k \in Caps |-> 0] /\ s.cpu = 0
  BY DEF Empty
<1>3. Queued(s) = {} /\ Carried(s) = {}
  <2>1. \A c \in Classes : s.queue[c] = {}
    BY <1>2
  <2>2. Queued(s) = {}
    BY <2>1 DEF Queued
  <2> QED BY <1>2, <2>2 DEF Carried
<1>4. TicketSound(s)
  <2>1. \A j \in Ids : s.tickets[j] = "Unknown"
    BY <1>2
  <2>2. \A j \in Ids : TicketOf(s, j)
    BY <1>2, <1>3, <2>1 DEF TicketOf
  <2>3. Len(s.terminal_order) = 0
    BY <1>2, SMT
  <2>4. RingSound(s.terminal_order, s.tickets)
    <3>1. 1..0 = {} /\ 0 <= MaxTerminal
      BY IdsAssumption, SMT
    <3> QED BY <2>1, <2>3, <3>1, NotTerminal DEF RingSound, Once
  <2> QED BY <2>2, <2>4 DEF TicketSound
<1>5. IdentitySound(s)
  BY <1>2, <1>3, NoIdIsNone DEF IdentitySound, LineageSound, QueuedOps, PermitOps
<1>6. CapacitySound(s)
  <2>1. \A c \in Classes : s.inflight[c] = 0 /\ Cardinality(s.queue[c]) = 0
    BY <1>2, FS_EmptySet
  <2>2. \A k \in Caps : s.in_use[k] = 0
    BY <1>2
  <2>3. \A n \in Nat : 0 <= n
    BY SMT
  <2>4. MaxCpuUnits \in Nat /\ \A k \in Caps : CapLimit[k] \in Nat
    BY BudgetAssumption
  <2>5. ASSUME NEW c \in Classes
        PROVE  /\ s.inflight[c] <= Policy[c].max_inflight
               /\ Cardinality(s.queue[c]) <= Policy[c].max_queue_depth
    BY <2>1, <2>3, LimitFields
  <2>6. s.cpu <= MaxCpuUnits /\ \A k \in Caps : s.in_use[k] <= CapLimit[k]
    BY <1>2, <2>2, <2>3, <2>4
  <2> QED BY <2>5, <2>6 DEF CapacitySound
<1>7. FifoSound(s)
  BY <1>3 DEF FifoSound
<1> QED BY <1>4, <1>5, <1>6, <1>7 DEF SafeState

\* The ring holds each terminal answer once, so its length counts them.
LEMMA RingCounts ==
  ASSUME NEW q \in Seq(Ids), NEW f, RingSound(q, f)
  PROVE  LET T == {i \in Ids : f[i] \in TerminalReasons} IN
         {q[n] : n \in DOMAIN q} = T /\ Len(q) = Cardinality(T)
<1> DEFINE T == {i \in Ids : f[i] \in TerminalReasons}
<1>1. DOMAIN q = 1..Len(q) /\ Len(q) \in Nat /\ \A n \in 1..Len(q) : q[n] \in Ids
  BY SMT
<1>2. \A n \in 1..Len(q) : q[n] \in T
  BY <1>1 DEF RingSound
<1>3. \A i \in T : \E n \in 1..Len(q) : q[n] = i
  BY DEF RingSound
<1>4. {q[n] : n \in DOMAIN q} = T
  <2> HIDE DEF T
  <2> QED BY <1>1, <1>2, <1>3
<1>5. q \in Bijection(1..Len(q), T)
  <2>1. q = [n \in 1..Len(q) |-> q[n]]
    BY SMT
  <2>2. q \in [1..Len(q) -> T]
    <3> HIDE DEF T
    <3> QED BY <1>2, <2>1
  <2>3. \A m, n \in 1..Len(q) : q[m] = q[n] => m = n
    BY DEF RingSound, Once
  <2> HIDE DEF T
  <2> QED BY <1>3, <2>2, <2>3 DEF Bijection, Injection, Surjection, IsInjective
<1> HIDE DEF T
<1>6. ExistsBijection(1..Len(q), T)
  BY <1>5 DEF ExistsBijection
<1>7. Cardinality(T) = Len(q)
  BY <1>1, <1>6, FS_CountingElements
<1> QED BY <1>4, <1>7 DEF T

\* The index, the queues, the bound permits and the ring describe one lifecycle.
LEMMA SafeTickets ==
  ASSUME NEW s, SafeState(s)
  PROVE  /\ \A c \in Classes :
              s.queue[c] = {i \in Ids : s.tickets[i] = "Queued" /\ s.class[i] = c}
         /\ s.pending_ticket = {i \in Ids : s.tickets[i] \in {"Granted", "Claiming"}}
         /\ s.pending_ticket \subseteq s.permits
         /\ s.claim_waker \subseteq {i \in Ids : s.tickets[i] = "Granted"}
         /\ Queued(s) \cap s.permits = {}
         /\ {s.terminal_order[n] : n \in DOMAIN s.terminal_order}
              = {i \in Ids : s.tickets[i] \in TerminalReasons}
         /\ Len(s.terminal_order) = Cardinality({i \in Ids : s.tickets[i] \in TerminalReasons})
         /\ Len(s.terminal_order) <= MaxTerminal
<1>1. CustodySound(s) /\ GovernedState(s)
  BY DEF SafeState, CustodySound
<1>2. (\A j \in Ids : TicketOf(s, j)) /\ RingSound(s.terminal_order, s.tickets)
  BY DEF SafeState, TicketSound
<1>3. /\ s.pending_ticket \subseteq Ids /\ s.claim_waker \subseteq Ids
      /\ s.terminal_order \in Seq(Ids) /\ s.queue \in [Classes -> SUBSET Ids]
  BY <1>1 DEF GovernedState
<1>4. ASSUME NEW c \in Classes
      PROVE  s.queue[c] = {i \in Ids : s.tickets[i] = "Queued" /\ s.class[i] = c}
  <2>1. ASSUME NEW i \in s.queue[c]
        PROVE  i \in Ids /\ s.tickets[i] = "Queued" /\ s.class[i] = c
    <3>1. i \in Ids /\ i \in Queued(s)
      BY <1>1, <1>3, WhereQueued
    <3> QED BY <1>1, <1>2, <3>1 DEF TicketOf, CustodySound
  <2>2. ASSUME NEW i \in Ids, s.tickets[i] = "Queued", s.class[i] = c
        PROVE  i \in s.queue[c]
    <3>1. i \in Queued(s)
      BY <1>2, <2>2 DEF TicketOf
    <3>2. PICK d \in Classes : i \in s.queue[d]
      BY <1>1, <3>1, WhereQueued
    <3>3. s.class[i] = d
      BY <1>1, <3>2 DEF CustodySound
    <3> QED BY <2>2, <3>2, <3>3
  <2> QED BY <2>1, <2>2
<1>5. s.pending_ticket = {i \in Ids : s.tickets[i] \in {"Granted", "Claiming"}}
  BY <1>2, <1>3 DEF TicketOf
<1>6. s.pending_ticket \subseteq s.permits
  BY <1>2, <1>3 DEF TicketOf
<1>7. s.claim_waker \subseteq {i \in Ids : s.tickets[i] = "Granted"}
  BY <1>2, <1>3 DEF TicketOf
<1>8. Queued(s) \cap s.permits = {}
  BY <1>1, WhereQueued DEF CustodySound
<1>9. /\ {s.terminal_order[n] : n \in DOMAIN s.terminal_order}
           = {i \in Ids : s.tickets[i] \in TerminalReasons}
      /\ Len(s.terminal_order) = Cardinality({i \in Ids : s.tickets[i] \in TerminalReasons})
  BY <1>2, <1>3, RingCounts
<1>10. Len(s.terminal_order) <= MaxTerminal
  BY <1>2 DEF RingSound
<1> QED BY <1>4, <1>5, <1>6, <1>7, <1>8, <1>9, <1>10

\* No operation of a root and no stage of its children is carried twice, and the
\* indexes say so.
LEMMA SafeIdentities ==
  ASSUME NEW s, SafeState(s)
  PROVE  LET held == Queued(s) \cup s.permits
             children == {i \in held : s.spec[i].child}
         IN /\ \A i, j \in held : i # j => identity(s.spec[i]) # identity(s.spec[j])
            /\ \A i, j \in children : i # j => stages_of(s.spec[i]) # stages_of(s.spec[j])
            /\ s.queued_ops = {identity(s.spec[i]) : i \in Queued(s)}
            /\ \A o \in Identities, i \in Ids :
                 s.op_permit[o] = i <=> i \in s.permits /\ identity(s.spec[i]) = o
            /\ s.recursion = {<<s.spec[i].root, s.spec[i].stage>> : i \in children}
<1>1. LineageSound(s) /\ QueuedOps(s) /\ PermitOps(s)
  BY DEF SafeState, IdentitySound
<1> DEFINE held == Queued(s) \cup s.permits
           children == {i \in held : s.spec[i].child}
<1>2. \A i, j \in held : i # j => identity(s.spec[i]) # identity(s.spec[j])
  BY <1>1 DEF LineageSound, Carried, Apart
<1>3. \A i, j \in children : i # j => stages_of(s.spec[i]) # stages_of(s.spec[j])
  BY <1>1 DEF LineageSound, Carried, Apart
<1>4. s.queued_ops = {identity(s.spec[i]) : i \in Queued(s)}
  BY <1>1 DEF QueuedOps
<1>5. s.recursion = {<<s.spec[i].root, s.spec[i].stage>> : i \in children}
  <2>1. \A e : e \in s.recursion <=> \E i \in held : e \in stages_of(s.spec[i])
    BY <1>1 DEF LineageSound, Carried
  <2>2. ASSUME NEW e, NEW i \in held, e \in stages_of(s.spec[i])
        PROVE  i \in children /\ e = <<s.spec[i].root, s.spec[i].stage>>
    BY <2>2 DEF stages_of
  <2>3. ASSUME NEW i \in children
        PROVE  <<s.spec[i].root, s.spec[i].stage>> \in stages_of(s.spec[i])
    BY StageOf
  <2> QED BY <2>1, <2>2, <2>3
<1> QED BY <1>1, <1>2, <1>3, <1>4, <1>5 DEF PermitOps

-----------------------------------------------------------------------------
\* What a step may never do

\* Work starts only where the memory budget has room for its reservation.
FitsMemory(g, s) ==
  g.permits \subseteq s.permits \/ (MaxMemUnits # 0 => g.mem <= MaxMemUnits)

\* A change that opens a permit fits the memory budget.
LEMMA GrantFits ==
  ASSUME NEW s, NEW g, Change(g, s)
  PROVE  FitsMemory(g, s)
<1>1. ASSUME NEW i, NEW sp, NEW c, Opened(g, s, i, sp, c), Room(s, c, sp.caps)
      PROVE  FitsMemory(g, s)
  BY <1>1 DEF Opened, Room, FitsMemory
<1>2. CASE Kept(g, s) \/ Emptying(g, s)
  BY <1>2 DEF Kept, Emptying, Emptied, SamePermits, FitsMemory
<1>3. ASSUME NEW i, NEW sp, NEW c, Admitting(g, s, i, sp, c) \/ Queueing(g, s, i, sp, c)
      PROVE  FitsMemory(g, s)
  BY <1>1, <1>3 DEF Admitting, Queueing, EnqueuedAs, SamePermits, FitsMemory
<1>4. ASSUME NEW i, Promoting(g, s, i) PROVE FitsMemory(g, s)
  BY <1>1, <1>4 DEF Promoting, PromotedAs
<1>5. ASSUME NEW i, Leaving(g, s, i) \/ Ending(g, s, i) PROVE FitsMemory(g, s)
  BY <1>5 DEF Leaving, Unqueued, SamePermits, Ending, Unwound, Ended, FitsMemory
<1>6. ASSUME NEW i, \/ Metering(g, s, i) \/ Claiming(g, s, i) \/ Claimed(g, s, i)
                    \/ Failing(g, s, i) \/ Forgetting(g, s, i)
      PROVE  FitsMemory(g, s)
  BY <1>6, QuietKinds DEF Quiet, FitsMemory
<1>7. ASSUME NEW i, NEW p, Advancing(g, s, i, p) PROVE FitsMemory(g, s)
  BY <1>7, QuietKinds DEF Quiet, FitsMemory
<1> QED BY <1>2, <1>3, <1>4, <1>5, <1>6, <1>7 DEF Change

\* The ledger of a permit moves forward.
Forward(g, s, i) ==
  /\ rank(g.phase[i]) >= rank(s.phase[i])
  /\ g.mseq[i] >= s.mseq[i] /\ g.sseq[i] >= s.sseq[i] /\ g.touched[i] >= s.touched[i]
  /\ g.remaining[i] <= s.remaining[i]
  /\ g.units[i] > s.units[i] => g.mseq[i] > s.mseq[i]

\* The entries of permit i are the same.
SameEntry(g, s, i) ==
  /\ g.phase[i] = s.phase[i] /\ g.units[i] = s.units[i] /\ g.remaining[i] = s.remaining[i]
  /\ g.mseq[i] = s.mseq[i] /\ g.sseq[i] = s.sseq[i] /\ g.touched[i] = s.touched[i]

\* The types of the permit ledgers.
LEMMA EntryTypes ==
  ASSUME NEW s, CustodySound(s), NEW i \in Ids
  PROVE  /\ s.phase[i] \in Phases /\ rank(s.phase[i]) \in Nat /\ s.units[i] \in Nat
         /\ s.remaining[i] \in Nat /\ s.mseq[i] \in Nat /\ s.sseq[i] \in Nat
         /\ s.touched[i] \in Nat
<1>1. /\ s.phase \in [Ids -> Phases] /\ s.units \in [Ids -> Nat] /\ s.remaining \in [Ids -> Nat]
      /\ s.mseq \in [Ids -> Nat] /\ s.sseq \in [Ids -> Nat] /\ s.touched \in [Ids -> Nat]
  BY DEF CustodySound, GovernedState
<1>2. \A p \in Phases : rank(p) \in Nat
  BY SMT DEF Phases, rank
<1> QED BY <1>1, <1>2

\* An entry that stays as it is moves forward.
LEMMA SameIsForward ==
  ASSUME NEW s, CustodySound(s), NEW g, NEW i \in Ids, SameEntry(g, s, i)
  PROVE  Forward(g, s, i)
<1>1. \A n \in Nat : n >= n /\ n <= n /\ ~(n > n)
  BY SMT
<1> QED BY <1>1, EntryTypes DEF SameEntry, Forward

\* Setting the entries of another permit.
LEMMA OtherEntries ==
  ASSUME NEW s, CustodySound(s), NEW i \in Ids, NEW j \in Ids, i # j, NEW g,
         \E p : g.phase = put(s.phase, j, p), \E u : g.units = put(s.units, j, u),
         \E n : g.remaining = put(s.remaining, j, n), \E m : g.mseq = put(s.mseq, j, m),
         \E q : g.sseq = put(s.sseq, j, q), \E w : g.touched = put(s.touched, j, w)
  PROVE  SameEntry(g, s, i)
<1>1. ASSUME NEW f, i \in DOMAIN f, NEW h, \E x : h = put(f, j, x) PROVE h[i] = f[i]
  BY <1>1, SMT DEF put
<1>2. /\ i \in DOMAIN s.phase /\ i \in DOMAIN s.units /\ i \in DOMAIN s.remaining
      /\ i \in DOMAIN s.mseq /\ i \in DOMAIN s.sseq /\ i \in DOMAIN s.touched
  BY DEF CustodySound, GovernedState
<1>3. g.phase[i] = s.phase[i] /\ g.units[i] = s.units[i]
  BY <1>1, <1>2
<1>4. g.remaining[i] = s.remaining[i] /\ g.mseq[i] = s.mseq[i]
  BY <1>1, <1>2
<1>5. g.sseq[i] = s.sseq[i] /\ g.touched[i] = s.touched[i]
  BY <1>1, <1>2
<1> QED BY <1>3, <1>4, <1>5 DEF SameEntry

\* A reading raises the epoch; a stage boundary lowers charge and reservation.
LEMMA MeteringIsForward ==
  ASSUME NEW s, CustodySound(s), NEW g, NEW j, Metering(g, s, j), NEW i \in Ids
  PROVE  Forward(g, s, i)
<1>1. /\ s.phase \in [Ids -> Phases] /\ s.units \in [Ids -> Nat] /\ s.remaining \in [Ids -> Nat]
      /\ s.mseq \in [Ids -> Nat] /\ s.sseq \in [Ids -> Nat] /\ s.touched \in [Ids -> Nat]
  BY DEF CustodySound, GovernedState
<1>2. j \in Ids
  BY DEF Metering, CustodySound, GovernedState
<1>3. g.phase = s.phase
  BY DEF Metering, Reconciled, StageReturned, SameWork, SamePermits
<1>4. rank(g.phase[i]) >= rank(s.phase[i])
  <2>1. rank(s.phase[i]) \in Nat
    BY EntryTypes
  <2>2. \A n \in Nat : n >= n
    BY SMT
  <2> QED BY <1>3, <2>1, <2>2
<1>5. \E w \in Nat : w >= s.touched[j] /\ g.touched = put(s.touched, j, w)
  BY DEF Metering, Reconciled, StageReturned
<1>6. g.touched[i] >= s.touched[i]
  BY <1>1, <1>2, <1>5, SMT DEF put
<1>7. ASSUME NEW sequence \in Nat, NEW u \in Nat, sequence > s.mseq[j],
             Reconciled(g, s, j, sequence, u)
      PROVE  Forward(g, s, i)
  <2>1. /\ g.units = put(s.units, j, u) /\ g.mseq = put(s.mseq, j, sequence)
        /\ g.remaining = s.remaining /\ g.sseq = s.sseq
    BY <1>7 DEF Reconciled
  <2>2. g.mseq[i] >= s.mseq[i] /\ (g.units[i] > s.units[i] => g.mseq[i] > s.mseq[i])
    BY <1>1, <1>2, <1>7, <2>1, SMT DEF put
  <2>3. g.sseq[i] >= s.sseq[i] /\ g.remaining[i] <= s.remaining[i]
    BY <1>1, <2>1, SMT
  <2> QED BY <1>4, <1>6, <2>2, <2>3 DEF Forward
<1>8. ASSUME NEW sequence \in Nat, NEW freed \in 0..s.units[j],
             sequence # None => sequence > s.sseq[j], StageReturned(g, s, j, sequence, freed)
      PROVE  Forward(g, s, i)
  <2>1. /\ g.units = put(s.units, j, s.units[j] - freed) /\ g.mseq = s.mseq
        /\ g.remaining = put(s.remaining, j, saturating_sub(s.remaining[j], freed))
        /\ g.sseq = put(s.sseq, j, IF sequence # None THEN sequence ELSE s.sseq[j])
    BY <1>8 DEF StageReturned
  <2>2. s.units[j] \in Nat /\ s.remaining[j] \in Nat /\ s.sseq[j] \in Nat
    BY <1>1, <1>2
  <2>3. s.units[j] - freed <= s.units[j] /\ freed \in Nat
    BY <2>2, SMT
  <2>4. saturating_sub(s.remaining[j], freed) <= s.remaining[j]
    BY <2>2, <2>3, SMT DEF saturating_sub
  <2>5. ~(g.units[i] > s.units[i])
    BY <1>1, <1>2, <2>1, <2>2, <2>3, SMT DEF put
  <2>6. g.remaining[i] <= s.remaining[i]
    BY <1>1, <1>2, <2>1, <2>4, SMT DEF put
  <2>7. (IF sequence # None THEN sequence ELSE s.sseq[j]) >= s.sseq[j]
    BY <1>8, <2>2, SMT
  <2>8. g.sseq[i] >= s.sseq[i]
    BY <1>1, <1>2, <2>1, <2>7, SMT DEF put
  <2>9. g.mseq[i] >= s.mseq[i]
    BY <1>1, <2>1, SMT
  <2> QED BY <1>4, <1>6, <2>5, <2>6, <2>8, <2>9 DEF Forward
<1> QED BY <1>7, <1>8 DEF Metering

\* A change moves every entry that survives it forward.
LEMMA ChangeIsForward ==
  ASSUME NEW s, CustodySound(s), NEW g, CustodySound(g), Change(g, s),
         NEW i \in s.permits, i \in g.permits
  PROVE  Forward(g, s, i)
<1>0. i \in Ids /\ GovernedState(s)
  BY DEF CustodySound, GovernedState
<1>1. ASSUME SameLedgers(g, s), g.phase = s.phase PROVE Forward(g, s, i)
  BY <1>0, <1>1, SameIsForward DEF SameLedgers, SameEntry
<1>2. ASSUME NEW j \in Ids, NEW sp, NEW c, Opened(g, s, j, sp, c), j # i PROVE Forward(g, s, i)
  <2>1. SameEntry(g, s, i)
    <3>1. /\ \E p : g.phase = put(s.phase, j, p) /\ \E u : g.units = put(s.units, j, u)
          /\ \E n : g.remaining = put(s.remaining, j, n) /\ \E m : g.mseq = put(s.mseq, j, m)
          /\ \E q : g.sseq = put(s.sseq, j, q) /\ \E w : g.touched = put(s.touched, j, w)
      BY <1>2 DEF Opened
    <3> QED BY <1>0, <1>2, <3>1, OtherEntries
  <2> QED BY <1>0, <2>1, SameIsForward
<1>3. CASE Kept(g, s) \/ Emptying(g, s)
  BY <1>1, <1>3 DEF Kept, Emptying, Emptied, SamePermits
<1>4. ASSUME NEW j, NEW sp, NEW c, Admitting(g, s, j, sp, c) PROVE Forward(g, s, i)
  <2>1. j \in Ids /\ j \notin s.permits /\ Opened(g, s, j, sp, c)
    BY <1>4, NextUnused DEF Admitting
  <2> QED BY <1>2, <2>1
<1>5. ASSUME NEW j, NEW sp, NEW c, Queueing(g, s, j, sp, c) PROVE Forward(g, s, i)
  BY <1>1, <1>5 DEF Queueing, EnqueuedAs, SamePermits
<1>6. ASSUME NEW j, Promoting(g, s, j) PROVE Forward(g, s, i)
  <2>1. j \in Ids /\ j \notin s.permits /\ \E sp, c : Opened(g, s, j, sp, c)
    BY <1>6, QueuedOnce DEF Promoting, PromotedAs
  <2> QED BY <1>2, <2>1
<1>7. ASSUME NEW j, Leaving(g, s, j) PROVE Forward(g, s, i)
  BY <1>1, <1>7 DEF Leaving, Unqueued, SamePermits
<1>8. ASSUME NEW j, Ending(g, s, j) PROVE Forward(g, s, i)
  <2>1. Ended(g, s, j) /\ j \in Ids
    BY <1>8 DEF Ending, Unwound
  <2>2. i # j
    BY <2>1 DEF Ended
  <2>3. /\ \E p : g.phase = put(s.phase, j, p) /\ \E u : g.units = put(s.units, j, u)
        /\ \E n : g.remaining = put(s.remaining, j, n) /\ \E m : g.mseq = put(s.mseq, j, m)
        /\ \E q : g.sseq = put(s.sseq, j, q) /\ \E w : g.touched = put(s.touched, j, w)
    BY <2>1 DEF Ended
  <2>4. SameEntry(g, s, i)
    BY <1>0, <2>1, <2>2, <2>3, OtherEntries
  <2> QED BY <1>0, <2>4, SameIsForward
<1>9. ASSUME NEW j, NEW p, Advancing(g, s, j, p) PROVE Forward(g, s, i)
  <2>1. SameLedgers(g, s) /\ g.phase = put(s.phase, j, p) /\ rank(p) > rank(s.phase[j])
    BY <1>9 DEF Advancing, Advanced
  <2>2. s.phase \in [Ids -> Phases]
    BY <1>0 DEF GovernedState
  <2>3. g.phase[i] = s.phase[i] \/ (i = j /\ g.phase[i] = p)
    BY <1>0, <2>1, <2>2, SMT DEF put
  <2>4. CASE g.phase[i] = s.phase[i]
    BY <1>0, <2>1, <2>4, SameIsForward DEF SameLedgers, SameEntry
  <2>5. CASE i = j /\ g.phase[i] = p
    <3>1. rank(g.phase[i]) \in Nat /\ rank(s.phase[i]) \in Nat
      BY <1>0, EntryTypes
    <3>2. \A m, n \in Nat : m > n => m >= n
      BY SMT
    <3>3. rank(g.phase[i]) >= rank(s.phase[i])
      BY <2>1, <2>5, <3>1, <3>2
    <3>4. \A n \in Nat : n >= n /\ n <= n /\ ~(n > n)
      BY SMT
    <3> QED BY <1>0, <2>1, <3>3, <3>4, EntryTypes DEF SameLedgers, Forward
  <2> QED BY <2>3, <2>4, <2>5
<1>10. ASSUME NEW j, Claiming(g, s, j) \/ Claimed(g, s, j) PROVE Forward(g, s, i)
  <2>1. Touched(g, s, j) /\ g.phase = s.phase
    BY <1>10 DEF Claiming, Claimed, SameButTickets
  <2>2. PICK w \in Nat : w >= s.touched[j] /\ g.touched = put(s.touched, j, w)
    BY <2>1 DEF Touched
  <2>3. s.touched \in [Ids -> Nat]
    BY <1>0 DEF GovernedState
  <2>4. g.touched[i] >= s.touched[i]
    BY <1>0, <2>2, <2>3, SMT DEF put
  <2>5. \A n \in Nat : n >= n /\ n <= n /\ ~(n > n)
    BY SMT
  <2> QED BY <1>0, <2>1, <2>4, <2>5, EntryTypes DEF Touched, Forward
<1>11. ASSUME NEW j, Failing(g, s, j) \/ Forgetting(g, s, j) PROVE Forward(g, s, i)
  BY <1>1, <1>11 DEF Failing, Forgetting, SameButTickets
<1>12. ASSUME NEW j, Metering(g, s, j) PROVE Forward(g, s, i)
  BY <1>0, <1>12, MeteringIsForward
<1> QED BY <1>3, <1>4, <1>5, <1>6, <1>7, <1>8, <1>9, <1>10, <1>11, <1>12 DEF Change

\* So does a step.
LEMMA StepIsForward ==
  ASSUME NEW s, CustodySound(s), NEW g, CustodySound(g), Step(g, s)
  PROVE  FitsMemory(g, s) /\ \A i \in s.permits \cap g.permits : Forward(g, s, i)
<1>1. PICK r, m : /\ CustodySound(r) /\ CustodySound(m) /\ Kept(r, s) /\ Change(m, r)
                  /\ Kept(g, m) \/ \E i : Forgetting(g, m, i)
  BY DEF Step
<1>2. FitsMemory(m, r)
  BY <1>1, GrantFits
<1>3. \A i \in r.permits : i \in m.permits => Forward(m, r, i)
  BY <1>1, ChangeIsForward
<1>4. r.permits = s.permits /\ r.phase = s.phase /\ SameLedgers(r, s)
  BY <1>1 DEF Kept, SamePermits
<1>5. g.permits = m.permits /\ g.phase = m.phase /\ SameLedgers(g, m) /\ g.mem = m.mem
  BY <1>1 DEF Kept, SamePermits, SameTotals, Forgetting, SameButTickets
<1>6. FitsMemory(g, s)
  BY <1>2, <1>4, <1>5 DEF FitsMemory
<1>7. ASSUME NEW i \in s.permits \cap g.permits PROVE Forward(g, s, i)
  <2>1. Forward(m, r, i)
    BY <1>3, <1>4, <1>5
  <2> QED BY <1>4, <1>5, <2>1 DEF SameLedgers, Forward
<1> QED BY <1>6, <1>7

\* Ids are issued one by one and never taken back.
LEMMA StepIssues ==
  ASSUME NEW s, GovernedState(s), NEW g, Step(g, s)
  PROVE  g.issued = s.issued \/ g.issued = s.issued + 1
<1>1. PICK r, m : /\ Kept(r, s) /\ Change(m, r)
                  /\ Kept(g, m) \/ \E i : Forgetting(g, m, i)
  BY DEF Step
<1>2. r.issued = s.issued /\ g.issued = m.issued
  BY <1>1 DEF Kept, Forgetting, SameButTickets
<1>3. m.issued = r.issued \/ m.issued = r.issued + 1
  <2>1. CASE Kept(m, r) \/ Emptying(m, r)
    BY <2>1 DEF Kept, Emptying
  <2>2. ASSUME NEW i, NEW sp, NEW c, Admitting(m, r, i, sp, c) \/ Queueing(m, r, i, sp, c)
        PROVE  m.issued = r.issued + 1
    BY <2>2 DEF Admitting, Queueing, EnqueuedAs
  <2>3. ASSUME NEW i, \/ Promoting(m, r, i) \/ Leaving(m, r, i) \/ Ending(m, r, i)
                      \/ Metering(m, r, i) \/ Claiming(m, r, i) \/ Claimed(m, r, i)
                      \/ Failing(m, r, i) \/ Forgetting(m, r, i)
        PROVE  m.issued = r.issued
    BY <2>3 DEF Promoting, PromotedAs, Leaving, Ending, Unwound, Metering, Reconciled,
       StageReturned, SameWork, Claiming, Claimed, Failing, Forgetting, SameButTickets
  <2>4. ASSUME NEW i, NEW p, Advancing(m, r, i, p) PROVE m.issued = r.issued
    BY <2>4 DEF Advancing
  <2> QED BY <1>1, <2>1, <2>2, <2>3, <2>4 DEF Change
<1> QED BY <1>2, <1>3

=============================================================================
