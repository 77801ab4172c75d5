------------------------- MODULE GovProgressProofs --------------------------
(***************************************************************************)
(* Nobody is forgotten: the invariant that every answered waiter is told or *)
(* about to be, kept by every action of the Governor.                      *)
(***************************************************************************)
EXTENDS GovernorInvariants, GovTransitionProofs

\* A leaf is for Zenon unless it names another prover.
USE Zenon

-----------------------------------------------------------------------------
\* What a transition tells

\* Ticket i is queued or claimed only if it was, and an answer it did not have was
\* given to a queued request whose waker, if it has one, is to be called.
Retold(g, s, i) ==
  /\ g.tickets[i] = "Queued" => s.tickets[i] = "Queued" /\ g.spec[i] = s.spec[i]
  /\ g.tickets[i] = "Claiming" => s.tickets[i] = "Claiming"
  /\ g.tickets[i] = "Granted" => s.tickets[i] \in {"Granted", "Queued"}
  /\ Settled(g, i) => \/ Settled(s, i)
                      \/ s.tickets[i] = "Queued" /\ (s.spec[i].waker => i \in g.wake)

\* No answer is given silently.
Told(g, s) == s.wake \subseteq g.wake /\ \A i \in Ids : Retold(g, s, i)

\* Nor by two changes that do not.
LEMMA ToldTwice ==
  ASSUME NEW s, NEW g, NEW h, Told(g, s), Told(h, g)
  PROVE  Told(h, s)
<1>1. s.wake \subseteq h.wake
  BY DEF Told
<1>2. ASSUME NEW i \in Ids PROVE Retold(h, s, i)
  <2>1. Retold(g, s, i) /\ Retold(h, g, i) /\ (i \in g.wake => i \in h.wake)
    BY DEF Told
  <2> QED BY <2>1 DEF Retold, Settled
<1> QED BY <1>1, <1>2 DEF Told

\* A ticket that says what it did, or that is forgotten.
LEMMA RetoldSame ==
  ASSUME NEW s, NEW g, NEW i,
         \/ g.tickets[i] = s.tickets[i] /\ g.spec[i] = s.spec[i]
         \/ g.tickets[i] = s.tickets[i] /\ s.tickets[i] # "Queued"
         \/ g.tickets[i] = "Unknown"
  PROVE  Retold(g, s, i)
<1>1. "Unknown" # "Queued" /\ "Unknown" # "Claiming" /\ "Unknown" # "Granted"
  BY SMT
<1> QED BY <1>1 DEF Retold, Settled

\* The tickets and the submissions stay.
LEMMA ToldSame ==
  ASSUME NEW s, NEW g, g.tickets = s.tickets, g.spec = s.spec, g.wake = s.wake
  PROVE  Told(g, s)
BY RetoldSame DEF Told

\* record_terminal_ticket answers one ticket, which a claim was taking or which was
\* already granted, and may forget another.
AnsweredAt(g, s, i) ==
  /\ g.tickets[i] \in TerminalReasons \cup {"Unknown"}
  /\ \A j \in Ids \ {i} : g.tickets[j] = s.tickets[j] \/ g.tickets[j] = "Unknown"

\* Recording an answer leaves every other ticket, or evicts its answer.
LEMMA RecordedTickets ==
  ASSUME NEW s, GovernedState(s), NEW g, NEW i \in Ids, NEW reason \in TerminalReasons,
         Recorded(g, s, i, reason)
  PROVE  AnsweredAt(g, s, i)
<1> DEFINE answered == put(s.tickets, i, reason)
<1>1. s.tickets \in [Ids -> TicketStates]
  BY DEF GovernedState
<1>2. \A j \in Ids : answered[j] = IF j = i THEN reason ELSE s.tickets[j]
  BY <1>1, SMT DEF put
<1>3. answered \in [Ids -> TicketStates]
  BY <1>1, PutType DEF TicketStates
<1>4. g.tickets = answered \/ \E o : g.tickets = put(answered, o, "Unknown")
  BY DEF Recorded
<1> HIDE DEF answered
<1>5. \A j \in Ids : g.tickets[j] = answered[j] \/ g.tickets[j] = "Unknown"
  BY <1>3, <1>4 DEF put
<1> QED BY <1>2, <1>5 DEF AnsweredAt

\* The answers of a request in progress are not terminal.
LEMMA InProgress ==
  \A v \in TerminalReasons \cup {"Unknown"} : v # "Queued" /\ v # "Claiming" /\ v # "Granted"
BY SMT DEF TerminalReasons

\* Two maps agree but for the entry of i.
AgreeBut(f, h, i) == \A j \in Ids \ {i} : f[j] = h[j]

\* The ticket of i says v, and no other ticket has changed.
TicketSet(g, s, i, v) == g.tickets[i] = v /\ AgreeBut(g.tickets, s.tickets, i)

\* The submission of another request stays.
LEMMA OtherSpecs ==
  ASSUME NEW s, GovernedState(s), NEW g, NEW i \in Ids, NEW sp, g.spec = put(s.spec, i, sp)
  PROVE  AgreeBut(g.spec, s.spec, i)
<1>1. s.spec \in [Ids -> Specs]
  BY DEF GovernedState
<1> QED BY <1>1, SMT DEF put, AgreeBut

\* So does its ticket.
LEMMA OtherTickets ==
  ASSUME NEW s, GovernedState(s), NEW g, NEW i \in Ids, NEW v, g.tickets = put(s.tickets, i, v)
  PROVE  TicketSet(g, s, i, v)
<1>1. s.tickets \in [Ids -> TicketStates]
  BY DEF GovernedState
<1> QED BY <1>1, SMT DEF put, AgreeBut, TicketSet

\* What is queued is not live, and its ticket says so.
LEMMA QueuedTicket ==
  ASSUME NEW s, CustodySound(s), TicketSound(s), NEW i
  PROVE  /\ i \in Queued(s) => i \in Ids /\ i \notin s.permits /\ s.tickets[i] = "Queued"
         /\ i \in s.permits => i \in Ids
<1>1. GovernedState(s)
  BY DEF CustodySound
<1>2. i \in Queued(s) => i \in Ids /\ \E c \in Classes : i \in s.queue[c]
  BY <1>1, QueuedIn
<1> QED BY <1>1, <1>2, CustodyTypes DEF CustodySound, TicketSound, TicketOf

\* A terminal answer to a ticket that had one, or that is queued and woken.
LEMMA RetoldTerminal ==
  ASSUME NEW s, NEW g, NEW i, g.tickets[i] \in TerminalReasons \cup {"Unknown"},
         \/ Settled(s, i)
         \/ s.tickets[i] = "Queued" /\ (s.spec[i].waker => i \in g.wake)
  PROVE  Retold(g, s, i)
<1>1. g.tickets[i] # "Queued" /\ g.tickets[i] # "Claiming" /\ g.tickets[i] # "Granted"
  BY InProgress
<1> QED BY <1>1 DEF Retold

\* The end of a permit bound to a ticket answers a claim, or a grant already told.
LEMMA ToldUnwound ==
  ASSUME NEW s, CustodySound(s), TicketSound(s), NEW i \in s.permits, NEW g,
         NEW reason \in TerminalReasons, Unwound(g, s, i, reason)
  PROVE  Told(g, s)
<1>1. GovernedState(s) /\ i \in Ids /\ i \notin Queued(s) /\ TicketOf(s, i)
  BY QueuedTicket DEF CustodySound, TicketSound
<1>2. s.wake \subseteq g.wake
  BY DEF Unwound
<1>3. AgreeBut(g.spec, s.spec, i)
  <2>1. g.spec = put(s.spec, i, AnySpec)
    BY DEF Unwound, Ended
  <2> QED BY <1>1, <2>1, OtherSpecs
<1>4. CASE i \in s.pending_ticket
  <2>1. s.tickets[i] \in {"Granted", "Claiming"} /\ Recorded(g, s, i, reason)
    BY <1>1, <1>4 DEF TicketOf, Unwound
  <2>2. Settled(s, i)
    BY <2>1, SMT DEF Settled
  <2>3. AnsweredAt(g, s, i)
    BY <1>1, <2>1, RecordedTickets
  <2>4. ASSUME NEW j \in Ids PROVE Retold(g, s, j)
    BY <1>3, <2>2, <2>3, RetoldSame, RetoldTerminal DEF AgreeBut, AnsweredAt
  <2> QED BY <1>2, <2>4 DEF Told
<1>5. CASE i \notin s.pending_ticket
  <2>1. g.tickets = s.tickets /\ s.tickets[i] # "Queued"
    BY <1>1, <1>5 DEF TicketOf, Unwound, SameTickets
  <2>2. ASSUME NEW j \in Ids PROVE Retold(g, s, j)
    BY <1>3, <2>1, RetoldSame DEF AgreeBut
  <2> QED BY <1>2, <2>2 DEF Told
<1> QED BY <1>4, <1>5

\* A promotion wakes the waiter it grants.
LEMMA ToldPromoted ==
  ASSUME NEW s, CustodySound(s), TicketSound(s), NEW i \in Queued(s), NEW g, PromotedAs(g, s, i)
  PROVE  Told(g, s)
<1>1. GovernedState(s) /\ i \in Ids /\ s.tickets[i] = "Queued"
  BY QueuedTicket DEF CustodySound
<1>2. s.wake \subseteq g.wake /\ (s.spec[i].waker => i \in g.wake)
  BY DEF PromotedAs
<1>3. g.spec = put(s.spec, i, s.spec[i]) /\ g.tickets = put(s.tickets, i, "Granted")
  BY DEF PromotedAs, Opened
<1>4. TicketSet(g, s, i, "Granted") /\ AgreeBut(g.spec, s.spec, i)
  BY <1>1, <1>3, OtherSpecs, OtherTickets
<1>5. Retold(g, s, i)
  <2>1. g.tickets[i] = "Granted" /\ "Granted" # "Queued" /\ "Granted" # "Claiming"
    BY <1>4, SMT DEF TicketSet
  <2> QED BY <1>1, <1>2, <2>1 DEF Retold
<1>6. ASSUME NEW j \in Ids PROVE Retold(g, s, j)
  BY <1>4, <1>5, RetoldSame DEF AgreeBut, TicketSet
<1> QED BY <1>2, <1>6 DEF Told

\* A wait cycle wakes the waiter it ends.
LEMMA ToldCycleEnded ==
  ASSUME NEW s, CustodySound(s), TicketSound(s), NEW i \in Queued(s), NEW g, CycleEnded(g, s, i)
  PROVE  Told(g, s)
<1>1. GovernedState(s) /\ i \in Ids /\ s.tickets[i] = "Queued"
  BY QueuedTicket DEF CustodySound
<1>2. s.wake \subseteq g.wake /\ (s.spec[i].waker => i \in g.wake)
  BY DEF CycleEnded
<1>3. AgreeBut(g.spec, s.spec, i)
  <2>1. g.spec = put(s.spec, i, AnySpec)
    BY DEF CycleEnded, Unqueued
  <2> QED BY <1>1, <2>1, OtherSpecs
<1>4. AnsweredAt(g, s, i)
  <2>1. Recorded(g, s, i, "WaitCycle")
    BY DEF CycleEnded
  <2>2. "WaitCycle" \in TerminalReasons
    BY SMT DEF TerminalReasons
  <2> QED BY <1>1, <2>1, <2>2, RecordedTickets
<1>5. Retold(g, s, i)
  BY <1>1, <1>2, <1>4, RetoldTerminal DEF AnsweredAt
<1>6. ASSUME NEW j \in Ids PROVE Retold(g, s, j)
  BY <1>3, <1>4, <1>5, RetoldSame DEF AgreeBut, AnsweredAt
<1> QED BY <1>2, <1>6 DEF Told

\* A ticket withdrawn by its holder says nothing more.
LEMMA ToldWithdrawn ==
  ASSUME NEW s, GovernedState(s), NEW i \in Ids, NEW g, g.wake = s.wake,
         g.spec = s.spec \/ g.spec = put(s.spec, i, AnySpec),
         g.tickets = put(s.tickets, i, "Unknown")
  PROVE  Told(g, s) /\ g.tickets[i] = "Unknown"
<1>1. TicketSet(g, s, i, "Unknown")
  BY OtherTickets
<1>2. AgreeBut(g.spec, s.spec, i)
  <2>1. CASE g.spec = s.spec
    BY <2>1 DEF AgreeBut
  <2>2. CASE g.spec = put(s.spec, i, AnySpec)
    BY <2>2, OtherSpecs
  <2> QED BY <2>1, <2>2
<1>3. ASSUME NEW j \in Ids PROVE Retold(g, s, j)
  BY <1>1, <1>2, RetoldSame DEF AgreeBut, TicketSet
<1> QED BY <1>1, <1>3 DEF Told, TicketSet

\* An accounting fault wakes every waiter it answers.
LEMMA ToldEmptied ==
  ASSUME NEW s, CustodySound(s), TicketSound(s), NEW g, Emptied(g, s),
         g.wake = s.wake \cup {i \in Queued(s) : s.spec[i].waker}
  PROVE  Told(g, s)
<1>1. s.wake \subseteq g.wake
  OBVIOUS
<1>2. ASSUME NEW j \in Ids PROVE Retold(g, s, j)
  <2>1. /\ g.tickets[j] = IF j \in Queued(s) THEN "Faulted" ELSE s.tickets[j]
        /\ g.spec[j] = IF j \in Queued(s) THEN AnySpec ELSE s.spec[j]
    BY DEF Emptied
  <2>2. CASE j \in Queued(s)
    <3>1. s.tickets[j] = "Queued" /\ (s.spec[j].waker => j \in g.wake)
      BY <2>2 DEF TicketSound, TicketOf
    <3>2. /\ g.tickets[j] = "Faulted" /\ "Faulted" # "Queued" /\ "Faulted" # "Claiming"
          /\ "Faulted" # "Granted"
      BY <2>1, <2>2, SMT
    <3> QED BY <3>1, <3>2 DEF Retold
  <2>3. CASE j \notin Queued(s)
    BY <2>1, <2>3, RetoldSame
  <2> QED BY <2>2, <2>3
<1> QED BY <1>1, <1>2 DEF Told

\* An answer that is taken is forgotten.
LEMMA ToldForgotten ==
  ASSUME NEW s, GovernedState(s), NEW i \in Ids, NEW g,
         Forgotten(g, s, i), g.spec = s.spec, g.wake = s.wake
  PROVE  /\ Told(g, s)
         /\ s.tickets[i] \in TerminalReasons \cup {"Faulted"} => g.tickets[i] = "Unknown"
         /\ s.tickets[i] \notin TerminalReasons \cup {"Faulted"} => g.tickets[i] = s.tickets[i]
<1>1. /\ g.tickets[i] = IF s.tickets[i] \in TerminalReasons \cup {"Faulted"} THEN "Unknown"
                        ELSE s.tickets[i]
      /\ \A j \in Ids \ {i} : g.tickets[j] = s.tickets[j]
  <2>1. s.tickets \in [Ids -> TicketStates]
    BY DEF GovernedState
  <2>2. g.tickets = IF s.tickets[i] \in TerminalReasons \cup {"Faulted"}
                    THEN put(s.tickets, i, "Unknown") ELSE s.tickets
    BY DEF Forgotten
  <2> QED BY <2>1, <2>2, SMT DEF put
<1>2. ASSUME NEW j \in Ids PROVE Retold(g, s, j)
  <2>1. g.tickets[j] = s.tickets[j] \/ g.tickets[j] = "Unknown"
    BY <1>1
  <2> QED BY <2>1, RetoldSame
<1> QED BY <1>1, <1>2 DEF Told

\* A claim that fails answers the ticket it was taking.
LEMMA ToldFailed ==
  ASSUME NEW s, GovernedState(s), NEW i \in Ids, NEW g,
         s.tickets[i] = "Claiming", NEW reason \in TerminalReasons, Recorded(g, s, i, reason),
         g.spec = s.spec, g.wake = s.wake
  PROVE  Told(g, s) /\ g.tickets[i] # "Claiming"
<1>1. Settled(s, i)
  BY SMT DEF Settled
<1>2. AnsweredAt(g, s, i)
  BY RecordedTickets
<1>3. ASSUME NEW j \in Ids PROVE Retold(g, s, j)
  BY <1>1, <1>2, RetoldSame, RetoldTerminal DEF AnsweredAt
<1>4. g.tickets[i] # "Claiming"
  BY <1>2, InProgress DEF AnsweredAt
<1> QED BY <1>3, <1>4 DEF Told

\* A permit granted directly is bound to no ticket.
LEMMA ToldAdmitted ==
  ASSUME NEW s, GovernedState(s), NEW i \in Ids, s.tickets[i] # "Queued", NEW g, NEW sp,
         g.spec = put(s.spec, i, sp), g.wake = s.wake, g.tickets = put(s.tickets, i, s.tickets[i])
  PROVE  Told(g, s)
<1>1. TicketSet(g, s, i, s.tickets[i])
  BY OtherTickets
<1>2. AgreeBut(g.spec, s.spec, i)
  BY OtherSpecs
<1>3. ASSUME NEW j \in Ids PROVE Retold(g, s, j)
  BY <1>1, <1>2, RetoldSame DEF AgreeBut, TicketSet
<1> QED BY <1>3 DEF Told

-----------------------------------------------------------------------------
\* Wake-ups

\* Initially there is nothing to tell.
LEMMA WakeInit == ASSUME Init PROVE WakeSound
<1>1. /\ \A i \in Ids : gov.tickets[i] = "Unknown"
      /\ \A t \in Threads : th[t].wake = {} /\ th[t].pc = "idle"
  BY DEF Init, Empty, Idle
<1>2. "Unknown" # "Queued" /\ "Unknown" # "Claiming" /\ "idle" # "claiming"
  BY SMT
<1> QED BY <1>1, <1>2 DEF WakeSound, Settled

\* Thread t has reached the state s and handed over what it has to tell.
HandedOver(t, s) ==
  /\ gov'.tickets = s.tickets /\ gov'.spec = s.spec
  /\ \A i : i \in s.wake \/ (\E u \in Threads : i \in th[u].wake) => i \in Waking'
  /\ \A u \in Threads : th'[u].wake # {} => th'[u].pc = "applying"
  /\ \A u \in Threads \ {t} : th'[u] = th[u]
  /\ th'[t].pc # "claiming"

\* A step that tells what it answers, and ends no claim it has not settled.
LEMMA WakeLeft ==
  ASSUME IInv, IInv', WakeSound, gov'.issued >= gov.issued, NEW t \in Threads, NEW s, HandedOver(t, s),
         Told(s, gov), \A i \in notified : i \in notified' \/ gov'.tickets[i] = "Unknown",
         th[t].pc = "claiming" => s.tickets[th[t].id] # "Claiming"
  PROVE  WakeSound'
<1>1. /\ gov'.tickets = s.tickets /\ gov'.spec = s.spec
      /\ \A i \in Ids : Retold(s, gov, i)
      /\ "Unknown" # "Queued"
  BY DEF HandedOver, Told
<1>2. ASSUME NEW i \in Ids, Settled(gov', i) PROVE i \in Waking'
  <2>1. Settled(s, i) /\ gov'.tickets[i] # "Unknown"
    BY <1>1, <1>2 DEF Settled
  <2>2. CASE Settled(gov, i)
    <3>1. i \in gov.wake \/ (\E u \in Threads : i \in th[u].wake) \/ i \in notified
      <4>1. i \in Waking
        BY <2>2 DEF WakeSound
      <4> QED BY <4>1 DEF Waking
    <3>2. i \in notified => i \in Waking'
      BY <2>1 DEF Waking
    <3> QED BY <3>1, <3>2 DEF HandedOver, Told
  <2>3. CASE gov.tickets[i] = "Queued" /\ (gov.spec[i].waker => i \in s.wake)
    <3>1. i \in s.wake \/ i \in notified
      BY <2>3 DEF WakeSound
    <3>2. i \in notified => i \in Waking'
      BY <2>1 DEF Waking
    <3> QED BY <3>1, <3>2 DEF HandedOver
  <2> QED BY <1>1, <2>1, <2>2, <2>3 DEF Retold
<1>3. ASSUME NEW i \in Ids, gov'.tickets[i] = "Queued", ~gov'.spec[i].waker
      PROVE  i \in notified'
  <2>1. gov.tickets[i] = "Queued" /\ gov.spec[i] = gov'.spec[i]
    BY <1>1, <1>3 DEF Retold
  <2>2. i \in notified
    BY <1>3, <2>1 DEF WakeSound
  <2> QED BY <1>1, <1>3, <2>2
<1>4. ASSUME NEW u \in Threads, th'[u].pc = "claiming"
      PROVE  th'[u].id <= gov'.issued /\ gov'.tickets[th'[u].id] \notin {"Queued", "Granted"}
  <2>1. th'[u] = th[u]
    BY <1>4 DEF HandedOver
  <2>2. th[u].id \in Ids /\ th[u].id <= gov.issued
        /\ gov.tickets[th[u].id] \notin {"Queued", "Granted"}
    BY <1>4, <2>1 DEF IInv, ThreadsSound, WakeSound
  <2>3. gov.issued \in Int /\ gov'.issued \in Int
    <3>1. gov.issued \in 0..MaxIds /\ gov'.issued \in 0..MaxIds
      BY DEF IInv, CustodySound, GovernedState
    <3> QED BY <3>1, SMT
  <2>4. th'[u].id <= gov'.issued
    BY <2>1, <2>2, <2>3, SMT DEF Ids
  <2>5. s.tickets[th[u].id] \notin {"Queued", "Granted"}
    BY <1>1, <2>2 DEF Retold
  <2> QED BY <1>1, <2>1, <2>4, <2>5
<1>5. ASSUME NEW i \in Ids, gov'.tickets[i] = "Claiming"
      PROVE  \E u \in Threads : th'[u].pc = "claiming" /\ th'[u].id = i
  <2>1. gov.tickets[i] = "Claiming"
    BY <1>1, <1>5 DEF Retold
  <2>2. PICK u \in Threads : th[u].pc = "claiming" /\ th[u].id = i
    BY <2>1 DEF WakeSound
  <2>3. u # t
    BY <1>1, <1>5, <2>2
  <2> QED BY <2>2, <2>3 DEF HandedOver
<1> QED BY <1>2, <1>3, <1>4, <1>5 DEF WakeSound, HandedOver

\* However an operation ends, its effects are handed over.
LEMMA EndLeaves ==
  ASSUME IInv, WakeSound, NEW t \in Threads, th[t].wake = {}, NEW s, GovernedState(s),
         Finish(t, s) \/ BeginPass(t, s) \/ \E more : Unlock(t, s, more)
  PROVE  HandedOver(t, s)
<1>1. th \in [Threads -> ThreadStates]
  BY DEF IInv, ThreadsSound
<1>2. /\ \A u \in Threads \ {t} : th'[u] = th[u]
      /\ th'[t].pc \in {"idle", "scanning", "applying"}
      /\ th'[t].wake # {} => th'[t].pc = "applying"
  <2>1. PICK x : /\ th' = [th EXCEPT ![t] = x] /\ x.pc \in {"idle", "scanning", "applying"}
                 /\ x.wake # {} => x.pc = "applying"
    <3>1. /\ Idle.pc = "idle" /\ Idle.wake = {}
          /\ [Idle EXCEPT !.pc = "scanning"].pc = "scanning"
          /\ [Idle EXCEPT !.pc = "scanning"].wake = {}
          /\ \A W, more :
               [Idle EXCEPT !.pc = "applying", !.wake = W, !.more = more].pc = "applying"
      BY SMT DEF Idle
    <3>2. CASE Finish(t, s)
      <4>1. th' = [th EXCEPT ![t] = Idle]
        BY <3>2 DEF Finish
      <4> QED BY <3>1, <4>1
    <3>3. CASE BeginPass(t, s)
      <4>1. th' = [th EXCEPT ![t] = [Idle EXCEPT !.pc = "scanning"]]
        BY <3>3 DEF BeginPass
      <4> QED BY <3>1, <4>1
    <3>4. ASSUME NEW more, Unlock(t, s, more)
          PROVE  \E x : th' = [th EXCEPT ![t] = x] /\ x.pc = "applying"
      <4> DEFINE y == [Idle EXCEPT !.pc = "applying", !.wake = s.wake, !.more = more]
      <4>1. th' = [th EXCEPT ![t] = y] /\ y.pc = "applying"
        BY <3>1, <3>4 DEF Unlock
      <4> QED BY <4>1
    <3> QED BY <3>2, <3>3, <3>4
  <2>2. th'[t] = x /\ \A u \in Threads \ {t} : th'[u] = th[u]
    BY <1>1, <2>1, SMT
  <2> QED BY <2>1, <2>2
<1>3. gov'.tickets = s.tickets /\ gov'.spec = s.spec
  <2>1. CASE gov' = s
    BY <2>1
  <2>2. CASE gov' = [s EXCEPT !.wake = {}]
    BY <2>2, SetWake DEF SameTickets, SameRequests
  <2> QED BY <2>1, <2>2 DEF Finish, BeginPass, Unlock
<1>4. \A u \in Threads : th'[u].wake # {} => th'[u].pc = "applying"
  <2>1. \A u \in Threads : th[u].wake # {} => th[u].pc = "applying"
    BY DEF WakeSound
  <2> QED BY <1>2, <2>1
<1>5. ASSUME NEW i \in s.wake PROVE i \in Waking'
  <2>1. i \in gov'.wake \/ i \in th'[t].wake
    <3>1. CASE gov' = s
      BY <3>1
    <3>2. CASE \E more : Unlock(t, s, more)
      BY <1>1, <3>2 DEF Unlock, Idle
    <3> QED BY <3>1, <3>2 DEF Finish, BeginPass
  <2> QED BY <2>1 DEF Waking
<1>6. ASSUME NEW i, NEW u \in Threads, i \in th[u].wake PROVE i \in Waking'
  <2>1. u # t
    BY <1>6
  <2>2. i \in th'[u].wake
    BY <1>2, <1>6, <2>1
  <2> QED BY <2>2 DEF Waking
<1>7. th'[t].pc # "claiming"
  BY <1>2, SMT
<1> QED BY <1>2, <1>3, <1>4, <1>5, <1>6, <1>7 DEF HandedOver

\* A step of a pass or of a sweep keeps its effects.
LEMMA PassLeaves ==
  ASSUME IInv, WakeSound, NEW t \in Threads, th[t].wake = {}, th[t].pc # "claiming", NEW s,
         gov' = s, th' = th \/ th' = [th EXCEPT ![t].pc = "promoting"]
  PROVE  HandedOver(t, s)
<1>1. th \in [Threads -> ThreadStates]
  BY DEF IInv, ThreadsSound
<1>2. /\ \A u \in Threads \ {t} : th'[u] = th[u]
      /\ th'[t].wake = {} /\ th'[t].pc # "claiming"
  BY <1>1, SMT DEF ThreadStates
<1>3. \A u \in Threads : th'[u].wake # {} => th'[u].pc = "applying"
  <2>1. \A u \in Threads : th[u].wake # {} => th[u].pc = "applying"
    BY DEF WakeSound
  <2> QED BY <1>2, <2>1
<1>4. ASSUME NEW i, i \in s.wake \/ \E u \in Threads : i \in th[u].wake PROVE i \in Waking'
  <2>1. i \in gov'.wake \/ \E u \in Threads : i \in th'[u].wake
    BY <1>2, <1>4
  <2> QED BY <2>1 DEF Waking
<1> QED BY <1>2, <1>3, <1>4 DEF HandedOver

\* What is told when an operation ends.
LEMMA WakeEnd ==
  ASSUME IInv, IInv', WakeSound, gov'.issued >= gov.issued, NEW t \in Threads,
         th[t].wake = {}, NEW s, GovernedState(s),
         Finish(t, s) \/ BeginPass(t, s) \/ \E more : Unlock(t, s, more),
         Told(s, gov), \A i \in notified : i \in notified' \/ s.tickets[i] = "Unknown",
         th[t].pc = "claiming" => s.tickets[th[t].id] # "Claiming"
  PROVE  WakeSound'
<1>1. HandedOver(t, s)
  BY EndLeaves
<1>2. \A i \in notified : i \in notified' \/ gov'.tickets[i] = "Unknown"
  BY <1>1 DEF HandedOver
<1> QED BY <1>1, <1>2, WakeLeft

\* Entering an operation tells nothing and gives no answer.
EnteredAs(t, s) ==
  /\ CustodySound(s) /\ TicketSound(s) /\ GovernedState(s) /\ Told(s, gov)
  /\ s.tickets = gov.tickets /\ s.issued = gov.issued /\ s.spec = gov.spec
  /\ s.wake = gov.wake /\ s.permits = gov.permits
  /\ th[t].wake = {} /\ th[t].pc = "idle" /\ th[t].pc # "claiming"

\* Entering commits the time and tells nothing.
LEMMA EnterTells ==
  ASSUME IInv, WakeSound, TicketSound(gov), NEW t \in Threads, NEW now, Enter(t, now)
  PROVE  EnteredAs(t, commit_time(gov, now))
<1> DEFINE s == commit_time(gov, now)
<1>0. CustodySound(gov) /\ GovernedState(gov) /\ now \in Nat
  <2>1. CustodySound(gov) /\ GovernedState(gov) /\ gov.watermark \in Nat
    BY DEF IInv, CustodySound, GovernedState
  <2>2. now \in Nat
    BY <2>1, GovernorAssumption, SMT DEF Enter
  <2> QED BY <2>1, <2>2
<1>1. /\ GovernedState(s) /\ Kept(s, gov) /\ s.wake = gov.wake
  BY <1>0, CommitTime, KeptTime
<1>2. CustodySound(s)
  BY <1>0, <1>1, CustodySame DEF Kept, SamePermits, SameRequests, SameQueues, SameCustody
<1> HIDE DEF s
<1>3. /\ s.tickets = gov.tickets /\ s.issued = gov.issued /\ s.spec = gov.spec
      /\ s.permits = gov.permits
  BY <1>1 DEF Kept, SameTickets, SameRequests, SamePermits
<1>4. TicketSound(s)
  <2>1. /\ s.tickets = gov.tickets /\ s.terminal_order = gov.terminal_order
        /\ s.pending_ticket = gov.pending_ticket /\ s.claim_waker = gov.claim_waker
        /\ s.permits = gov.permits /\ s.issued = gov.issued /\ Queued(s) = Queued(gov)
    BY <1>1 DEF Kept, SameTickets, SamePermits, SameQueues, Queued
  <2> QED BY <2>1 DEF TicketSound, TicketOf
<1>5. Told(s, gov)
  BY <1>1, <1>3, ToldSame
<1>6. th[t].pc = "idle" /\ "idle" # "applying" /\ "idle" # "claiming"
  BY SMT DEF Enter
<1>7. th[t].wake = {}
  BY <1>6 DEF WakeSound
<1> QED BY <1>1, <1>2, <1>3, <1>4, <1>5, <1>6, <1>7 DEF EnteredAs, s

\* The operations of GovState give no answer silently.
LEMMA UnwindTells ==
  ASSUME NEW s, CustodySound(s), TicketSound(s), NEW i \in s.permits, NEW reason \in TerminalReasons
  PROVE  GovernedState(unwind(s, i, reason)) /\ Told(unwind(s, i, reason), s)
<1>1. GovernedState(s) /\ i \in Ids
  BY QueuedTicket DEF CustodySound
<1> DEFINE g == unwind(s, i, reason)
<1>2. GovernedState(g) /\ Unwound(g, s, i, reason)
  BY <1>1, Unwind
<1> HIDE DEF g
<1>3. Told(g, s)
  BY <1>2, ToldUnwound
<1> QED BY <1>2, <1>3 DEF g

\* The two things a pass does to a queued ticket: it ends it, or grants it.
LEMMA WaitCycleTells ==
  ASSUME NEW s, CustodySound(s), TicketSound(s), NEW i \in Queued(s)
  PROVE  /\ GovernedState(terminalize_wait_cycle(s, i)) /\ Told(terminalize_wait_cycle(s, i), s)
         /\ GovernedState(promote_one(s, i)) /\ Told(promote_one(s, i), s)
<1>1. GovernedState(s) /\ i \in Ids
  BY QueuedTicket DEF CustodySound
<1> DEFINE g == terminalize_wait_cycle(s, i)
           h == promote_one(s, i)
<1>2. GovernedState(g) /\ CycleEnded(g, s, i) /\ GovernedState(h) /\ PromotedAs(h, s, i)
  BY <1>1, TerminalizeWaitCycle, PromoteOne_
<1> HIDE DEF g, h
<1>3. Told(g, s) /\ Told(h, s)
  BY <1>2, ToldCycleEnded, ToldPromoted
<1> QED BY <1>2, <1>3 DEF g, h

\* A direct admission answers no ticket; a newcomer that is queued and registered no
\* waker knows to ask.
LEMMA AdmitTells ==
  ASSUME IInv, IInv', WakeSound, TicketSound(gov), gov'.issued >= gov.issued,
         NEW t \in Threads, NEW sp \in Specs, NEW now, Admit(t, sp, now)
  PROVE  WakeSound'
<1> DEFINE s == commit_time(gov, now)
           i == gov.issued + 1
           d == admit(s, sp)
           granted == grant([s EXCEPT !.issued = i], i, sp, d.class,
                            parent_permit_for_scope(s, sp), FALSE)
           queued == enqueue(s, i, sp, d.class)
<1>1. EnteredAs(t, s)
  BY EnterTells DEF Admit
<1>2. i \in Ids /\ s.tickets[i] = "Unknown" /\ i \in 0..MaxIds /\ i > gov.issued
  <2>1. gov.issued \in 0..MaxIds /\ gov.issued < MaxIds /\ MaxIds \in Nat
    BY <1>1, IdsAssumption DEF EnteredAs, GovernedState, Admit
  <2>2. i \in Ids /\ i > s.issued /\ i \in 0..MaxIds
    BY <1>1, <2>1, SMT DEF Ids, EnteredAs
  <2> QED BY <1>1, <2>2 DEF EnteredAs, TicketSound, TicketOf
<1>3. \/ /\ d.verdict = "Admitted" /\ gov' = granted /\ notified' = notified
         /\ th' = th \/ th' = [th EXCEPT ![t] = [Idle EXCEPT !.pc = "retiring", !.id = i]]
      \/ /\ d.verdict = "Queued" /\ gov' = queued /\ th' = th
         /\ notified' = IF sp.waker THEN notified ELSE notified \cup {i}
      \/ gov' = s /\ th' = th /\ notified' = notified
  BY DEF Admit
<1>4. d.verdict \in {"Admitted", "Queued"} => d.class \in Classes
  BY AdmitClass
<1> HIDE DEF s, i, d
<1>5. CASE d.verdict = "Admitted" /\ gov' = granted /\ notified' = notified
           /\ (th' = th \/ th' = [th EXCEPT ![t] = [Idle EXCEPT !.pc = "retiring", !.id = i]])
  <2> DEFINE r == [s EXCEPT !.issued = i]
             p == parent_permit_for_scope(s, sp)
  <2>1. GovernedState(r) /\ SameRequests(r, s) /\ SameTickets(r, s) /\ r.wake = s.wake
    <3>1. GovernedState(s)
      BY <1>1 DEF EnteredAs
    <3>2. GovernedState(r)
      BY <1>2, <3>1, SetIssued
    <3>3. SameRequests(r, s) /\ SameTickets(r, s)
      BY <3>1, NextId
    <3>4. r.wake = s.wake
      BY <3>1, FieldNames, ZenonT(30), SMT DEF GovernedState
    <3> QED BY <3>2, <3>3, <3>4
  <2>2. p \in Ids \cup {None} /\ FALSE \in BOOLEAN /\ d.class \in Classes
    BY <1>1, <1>4, <1>5, ParentType DEF EnteredAs
  <2> HIDE DEF r, p
  <2>3. Granting(gov', r, i, sp, d.class, p, FALSE)
    BY <1>2, <1>5, <2>1, <2>2, Grant DEF r, p
  <2>4. /\ gov'.spec = put(s.spec, i, sp) /\ gov'.wake = s.wake
        /\ gov'.tickets = put(s.tickets, i, s.tickets[i])
    BY <2>1, <2>3 DEF Granting, Opened, Bound, SameRequests, SameTickets
  <2>5. Told(gov', s) /\ s.tickets[i] # "Queued"
    <3>1. s.tickets[i] # "Queued"
      BY <1>2, SMT
    <3> QED BY <1>1, <1>2, <2>4, <3>1, ToldAdmitted DEF EnteredAs
  <2>6. Told(gov', gov)
    BY <1>1, <2>5, ToldTwice DEF EnteredAs
  <2>7. HandedOver(t, gov')
    <3>1. th \in [Threads -> ThreadStates]
      BY DEF IInv, ThreadsSound
    <3>2. /\ \A u \in Threads \ {t} : th'[u] = th[u]
          /\ th'[t].wake = {} /\ th'[t].pc # "claiming"
      <4>1. th[t].wake = {} /\ th[t].pc # "claiming"
        BY <1>1 DEF EnteredAs
      <4>2. CASE th' = th
        BY <4>1, <4>2
      <4>3. CASE th' = [th EXCEPT ![t] = [Idle EXCEPT !.pc = "retiring", !.id = i]]
        BY <3>1, <4>3, SMT DEF Idle
      <4> QED BY <1>5, <4>2, <4>3
    <3>3. \A u \in Threads : th'[u].wake # {} => th'[u].pc = "applying"
      <4>1. \A u \in Threads : th[u].wake # {} => th[u].pc = "applying"
        BY DEF WakeSound
      <4> QED BY <3>2, <4>1
    <3>4. ASSUME NEW j, j \in gov'.wake \/ \E u \in Threads : j \in th[u].wake
          PROVE  j \in Waking'
      <4>1. j \in gov'.wake \/ \E u \in Threads : j \in th'[u].wake
        BY <1>1, <3>2, <3>4 DEF EnteredAs
      <4> QED BY <4>1 DEF Waking
    <3> QED BY <3>2, <3>3, <3>4 DEF HandedOver
  <2> QED BY <1>1, <1>5, <2>6, <2>7, WakeLeft DEF EnteredAs
<1>6. CASE gov' = s /\ th' = th /\ notified' = notified
  <2>1. HandedOver(t, s)
    BY <1>1, <1>6, PassLeaves DEF EnteredAs
  <2> QED BY <1>1, <1>6, <2>1, WakeLeft DEF EnteredAs
<1>7. CASE /\ d.verdict = "Queued" /\ gov' = queued /\ th' = th
           /\ notified' = IF sp.waker THEN notified ELSE notified \cup {i}
  <2>1. EnqueuedAs(gov', s, i, sp, d.class)
    BY <1>1, <1>2, <1>4, <1>7, Enqueue DEF EnteredAs
  <2>2. /\ gov'.spec = put(s.spec, i, sp) /\ gov'.tickets = put(s.tickets, i, "Queued")
        /\ gov'.wake = gov.wake
    BY <1>1, <2>1 DEF EnqueuedAs, EnteredAs
  <2>3. /\ gov'.tickets[i] = "Queued" /\ gov'.spec[i] = sp
        /\ \A j \in Ids \ {i} : gov'.tickets[j] = gov.tickets[j] /\ gov'.spec[j] = gov.spec[j]
    <3>1. s.spec \in [Ids -> Specs] /\ s.tickets \in [Ids -> TicketStates]
      BY <1>1 DEF EnteredAs, GovernedState
    <3> QED BY <1>1, <1>2, <2>2, <3>1, SMT DEF put, EnteredAs
  <2>4. notified \subseteq notified' /\ (~sp.waker => i \in notified')
    BY <1>7
  <2>5. Waking \subseteq Waking'
    BY <1>7, <2>2, <2>4 DEF Waking
  <2>6. ASSUME NEW j \in Ids, Settled(gov', j) PROVE j \in Waking'
    <3>1. j # i
      BY <2>3, <2>6 DEF Settled
    <3>2. Settled(gov, j)
      BY <2>3, <2>6, <3>1 DEF Settled
    <3> QED BY <2>5, <3>2 DEF WakeSound
  <2>7. ASSUME NEW j \in Ids, gov'.tickets[j] = "Queued", ~gov'.spec[j].waker
        PROVE  j \in notified'
    BY <2>3, <2>4, <2>7 DEF WakeSound
  <2>8. ASSUME NEW u \in Threads, th'[u].pc = "claiming"
        PROVE  th'[u].id <= gov'.issued /\ gov'.tickets[th'[u].id] \notin {"Queued", "Granted"}
    <3>1. /\ th[u].id \in Ids /\ th[u].id <= gov.issued
          /\ gov.tickets[th[u].id] \notin {"Queued", "Granted"}
      BY <1>7, <2>8 DEF IInv, ThreadsSound, WakeSound
    <3>2. gov.issued \in Nat /\ gov'.issued \in Nat /\ th[u].id \in Nat
      <4>1. gov.issued \in 0..MaxIds /\ gov'.issued \in 0..MaxIds
        BY DEF IInv, CustodySound, GovernedState
      <4> QED BY <3>1, <4>1, SMT DEF Ids
    <3>3. th[u].id # i /\ th[u].id <= gov'.issued
      BY <3>1, <3>2, SMT DEF i
    <3> QED BY <1>7, <2>3, <3>1, <3>3
  <2>9. ASSUME NEW j \in Ids, gov'.tickets[j] = "Claiming"
        PROVE  \E u \in Threads : th'[u].pc = "claiming" /\ th'[u].id = j
    <3>1. gov.tickets[j] = "Claiming"
      <4>1. j # i
        BY <2>3, <2>9, SMT
      <4> QED BY <2>3, <2>9, <4>1
    <3> QED BY <1>7, <3>1 DEF WakeSound
  <2>10. \A u \in Threads : th'[u].wake # {} => th'[u].pc = "applying"
    BY <1>7 DEF WakeSound
  <2> QED BY <2>6, <2>7, <2>8, <2>9, <2>10 DEF WakeSound
<1> QED BY <1>3, <1>5, <1>6, <1>7

\* Only a thread that applies effects has any.
LEMMA NoEffects ==
  ASSUME WakeSound, NEW t \in Threads, th[t].pc # "applying" PROVE th[t].wake = {}
BY DEF WakeSound

\* A release tells the waiter whose reservation it ends.
LEMMA ReleaseTells ==
  ASSUME IInv, IInv', WakeSound, gov'.issued >= gov.issued, NEW t \in Threads,
         th[t].wake = {}, th[t].pc # "claiming", notified' = notified,
         NEW s, CustodySound(s), TicketSound(s), Told(s, gov),
         NEW i, NEW proof, ReleaseWithProof(t, s, i, proof)
  PROVE  WakeSound'
<1>1. CASE releasable(s, i, proof) /\ BeginPass(t, unwind(s, i, "Released"))
  <2>1. i \in s.permits /\ "Released" \in TerminalReasons
    BY <1>1 DEF releasable, TerminalReasons
  <2>2. GovernedState(unwind(s, i, "Released")) /\ Told(unwind(s, i, "Released"), s)
    BY <2>1, UnwindTells
  <2>3. Told(unwind(s, i, "Released"), gov)
    BY <2>2, ToldTwice
  <2> QED BY <1>1, <2>2, <2>3, WakeEnd
<1>2. CASE Finish(t, s)
  <2>1. GovernedState(s)
    BY DEF CustodySound
  <2> QED BY <1>2, <2>1, WakeEnd
<1> QED BY <1>1, <1>2 DEF ReleaseWithProof

\* The end of a direct admission.
LEMMA RetiringTells ==
  ASSUME IInv, IInv', WakeSound, TicketSound(gov), gov'.issued >= gov.issued,
         NEW t \in Threads, AdmitReturn(t) \/ AdmitPanic(t)
  PROVE  WakeSound'
<1>1. /\ th[t].pc = "retiring" /\ th[t].pc # "applying" /\ th[t].pc # "claiming"
      /\ notified' = notified
  <2>1. th[t].pc = "retiring" /\ notified' = notified
    BY DEF AdmitReturn, AdmitPanic
  <2> QED BY <2>1, SMT
<1>2. th[t].wake = {}
  BY <1>1, NoEffects
<1>3. Told(gov, gov) /\ CustodySound(gov) /\ GovernedState(gov)
  BY ToldSame DEF IInv, CustodySound
<1>4. CASE Finish(t, gov)
  BY <1>1, <1>2, <1>3, <1>4, WakeEnd
<1>5. CASE ReleaseWithProof(t, gov, th[t].id, None)
  BY <1>1, <1>2, <1>3, <1>5, ReleaseTells
<1> QED BY <1>4, <1>5 DEF AdmitReturn, AdmitPanic

\* Forgetting an answer tells nobody anything.
LEMMA ForgetTells ==
  ASSUME NEW s, GovernedState(s), NEW i \in Ids
  PROVE  LET g == forget_terminal_ticket(s, i) IN
         /\ GovernedState(g) /\ Told(g, s)
         /\ s.tickets[i] \in TerminalReasons \cup {"Faulted"} => g.tickets[i] = "Unknown"
         /\ s.tickets[i] \notin TerminalReasons \cup {"Faulted"} => g.tickets[i] = s.tickets[i]
<1> DEFINE g == forget_terminal_ticket(s, i)
<1>2. GovernedState(g) /\ SameButTickets(g, s) /\ Forgotten(g, s, i)
  BY ForgetTerminalTicket
<1> HIDE DEF g
<1>3. g.spec = s.spec /\ g.wake = s.wake
  BY <1>2 DEF SameButTickets, SameRequests
<1>4. /\ GovernedState(g) /\ Told(g, s)
      /\ s.tickets[i] \in TerminalReasons \cup {"Faulted"} => g.tickets[i] = "Unknown"
      /\ s.tickets[i] \notin TerminalReasons \cup {"Faulted"} => g.tickets[i] = s.tickets[i]
  BY <1>2, <1>3, ToldForgotten
<1> QED BY <1>4 DEF g

\* The first half of claim: the ticket is being claimed by this thread, or its answer
\* is taken.
LEMMA ClaimTells ==
  ASSUME IInv, IInv', WakeSound, TicketSound(gov), gov'.issued >= gov.issued,
         NEW t \in Threads, NEW i \in Ids, i <= gov.issued, NEW now, Claim(t, i, now)
  PROVE  WakeSound'
<1> DEFINE s == commit_time(gov, now)
           claimed == [Idle EXCEPT !.pc = "claiming", !.id = i, !.waker = i \in gov.claim_waker]
<1>1. EnteredAs(t, s)
  BY EnterTells DEF Claim
<1>2. \/ /\ gov.tickets[i] = "Granted" /\ gov' = begin_claim(s, i)
         /\ th' = [th EXCEPT ![t] = claimed] /\ notified' = notified
      \/ Finish(t, s) /\ notified' = notified
      \/ /\ gov.tickets[i] \in TerminalReasons \cup {"Faulted"}
         /\ Finish(t, forget_terminal_ticket(s, i)) /\ notified' = notified \ {i}
  BY DEF Claim
<1> HIDE DEF s
<1>3. CASE Finish(t, s) /\ notified' = notified
  BY <1>1, <1>3, WakeEnd DEF EnteredAs
<1>4. CASE /\ gov.tickets[i] \in TerminalReasons \cup {"Faulted"}
           /\ Finish(t, forget_terminal_ticket(s, i)) /\ notified' = notified \ {i}
  <2> DEFINE g == forget_terminal_ticket(s, i)
  <2>1. GovernedState(g) /\ Told(g, s) /\ g.tickets[i] = "Unknown"
    BY <1>1, <1>4, ForgetTells DEF EnteredAs
  <2>2. Told(g, gov)
    BY <1>1, <2>1, ToldTwice DEF EnteredAs
  <2> HIDE DEF g
  <2>3. \A j \in notified : j \in notified' \/ g.tickets[j] = "Unknown"
    BY <1>4, <2>1
  <2>4. Finish(t, g)
    BY <1>4 DEF g
  <2> QED BY <1>1, <2>1, <2>2, <2>3, <2>4, WakeEnd DEF EnteredAs
<1>5. CASE /\ gov.tickets[i] = "Granted" /\ gov' = begin_claim(s, i)
           /\ th' = [th EXCEPT ![t] = claimed] /\ notified' = notified
  <2>1. SameButTickets(gov', s) /\ gov'.tickets = put(s.tickets, i, "Claiming")
    <3>1. GovernedState(s)
      BY <1>1 DEF EnteredAs
    <3> QED BY <1>5, <3>1, BeginClaim, SMT
  <2>2. gov'.spec = gov.spec /\ gov'.wake = gov.wake
    BY <1>1, <2>1 DEF EnteredAs, SameButTickets, SameRequests
  <2>3. gov'.tickets[i] = "Claiming" /\ \A j \in Ids \ {i} : gov'.tickets[j] = gov.tickets[j]
    <3>1. s.tickets \in [Ids -> TicketStates]
      BY <1>1 DEF EnteredAs, GovernedState
    <3> QED BY <1>1, <2>1, <3>1, SMT DEF put, EnteredAs
  <2>4. th \in [Threads -> ThreadStates]
    BY DEF IInv, ThreadsSound
  <2>5. /\ th'[t].pc = "claiming" /\ th'[t].id = i /\ th'[t].wake = {}
        /\ \A u \in Threads \ {t} : th'[u] = th[u]
    BY <1>5, <2>4, SMT DEF Idle
  <2>6. Waking \subseteq Waking'
    <3>1. ASSUME NEW j \in Waking PROVE j \in Waking'
      <4>1. CASE j \in gov.wake \/ j \in notified
        BY <1>5, <2>2, <4>1 DEF Waking
      <4>2. CASE \E u \in Threads : j \in th[u].wake
        <5>1. PICK u \in Threads : j \in th[u].wake
          BY <4>2
        <5>2. u # t
          BY <1>1, <5>1 DEF EnteredAs
        <5> QED BY <2>5, <5>1, <5>2 DEF Waking
      <4> QED BY <3>1, <4>1, <4>2 DEF Waking
    <3> QED BY <3>1
  <2>7. ASSUME NEW j \in Ids, Settled(gov', j) PROVE j \in Waking'
    <3>1. Settled(gov, j)
      <4>1. CASE j = i
        BY <1>5, <4>1, SMT DEF Settled
      <4>2. CASE j # i
        BY <2>3, <2>7, <4>2 DEF Settled
      <4> QED BY <4>1, <4>2
    <3> QED BY <2>6, <3>1 DEF WakeSound
  <2>8. ASSUME NEW j \in Ids, gov'.tickets[j] = "Queued", ~gov'.spec[j].waker
        PROVE  j \in notified'
    <3>1. j # i
      BY <2>3, <2>8, SMT
    <3> QED BY <1>5, <2>2, <2>3, <2>8, <3>1 DEF WakeSound
  <2>9. ASSUME NEW u \in Threads, th'[u].pc = "claiming"
        PROVE  th'[u].id <= gov'.issued /\ gov'.tickets[th'[u].id] \notin {"Queued", "Granted"}
    <3>1. gov'.issued = gov.issued
      BY <1>1, <2>1 DEF EnteredAs, SameButTickets
    <3>2. CASE u = t
      BY <2>3, <2>5, <3>1, <3>2, SMT
    <3>3. CASE u # t
      <4>1. /\ th'[u] = th[u] /\ th[u].id \in Ids /\ th[u].id <= gov.issued
            /\ gov.tickets[th[u].id] \notin {"Queued", "Granted"}
        BY <2>5, <2>9, <3>3 DEF IInv, ThreadsSound, WakeSound
      <4>2. th[u].id # i
        BY <1>5, <4>1
      <4> QED BY <2>3, <3>1, <4>1, <4>2
    <3> QED BY <3>2, <3>3
  <2>10. ASSUME NEW j \in Ids, gov'.tickets[j] = "Claiming"
         PROVE  \E u \in Threads : th'[u].pc = "claiming" /\ th'[u].id = j
    <3>1. CASE j = i
      BY <2>5, <3>1
    <3>2. CASE j # i
      <4>1. PICK u \in Threads : th[u].pc = "claiming" /\ th[u].id = j
        BY <2>3, <2>10, <3>2 DEF WakeSound
      <4>2. u # t
        BY <1>1, <4>1 DEF EnteredAs
      <4> QED BY <2>5, <4>1, <4>2
    <3> QED BY <3>1, <3>2
  <2>11. \A u \in Threads : th'[u].wake # {} => th'[u].pc = "applying"
    BY <2>5 DEF WakeSound
  <2> QED BY <2>7, <2>8, <2>9, <2>10, <2>11 DEF WakeSound
<1> QED BY <1>2, <1>3, <1>4, <1>5

\* The second half of claim settles the ticket: it is handed over, or its answer is
\* taken.
LEMMA FinishTells ==
  ASSUME NEW s, GovernedState(s), NEW i \in Ids, s.tickets[i] = "Claiming"
  PROVE  GovernedState(finish_claim(s, i)) /\ Told(finish_claim(s, i), s)
         /\ finish_claim(s, i).tickets[i] = "Unknown"
<1> DEFINE g == finish_claim(s, i)
<1>1. GovernedState(g) /\ SameButTickets(g, s) /\ g.tickets = put(s.tickets, i, "Unknown")
  BY FinishClaim
<1> HIDE DEF g
<1>2. g.spec = s.spec /\ g.wake = s.wake
  BY <1>1 DEF SameButTickets, SameRequests
<1>3. Told(g, s) /\ g.tickets[i] = "Unknown"
  BY <1>1, <1>2, ToldWithdrawn
<1> QED BY <1>1, <1>3 DEF g

\* The second half of claim takes the answer.
LEMMA ClaimFinishTells ==
  ASSUME IInv, IInv', WakeSound, TicketSound(gov), gov'.issued >= gov.issued,
         NEW t \in Threads, ClaimFinish(t)
  PROVE  WakeSound'
<1> DEFINE i == th[t].id
<1>1. /\ th[t].pc = "claiming" /\ i \in Ids /\ th[t].wake = {} /\ notified' = notified \ {i}
      /\ gov.tickets[i] \notin {"Queued", "Granted"}
  <2>1. th[t].pc = "claiming" /\ notified' = notified \ {i}
    BY DEF ClaimFinish
  <2>2. th[t].pc # "applying"
    BY <2>1, SMT
  <2> QED BY <2>1, <2>2 DEF IInv, ThreadsSound, WakeSound
<1>2. GovernedState(gov) /\ TicketOf(gov, i) /\ gov.tickets[i] \in TicketStates
  BY <1>1 DEF IInv, CustodySound, TicketSound, GovernedState
<1>3. \E s : GovernedState(s) /\ Told(s, gov) /\ s.tickets[i] = "Unknown" /\ Finish(t, s)
  <2>1. CASE gov.tickets[i] = "Claiming"
    <3>1. i \in gov.permits
      BY <1>2, <2>1 DEF TicketOf
    <3>2. gov.tickets[i] \notin TerminalReasons \cup {"Faulted"}
      BY <2>1, SMT DEF TerminalReasons
    <3>3. Finish(t, finish_claim(gov, i))
      BY <2>1, <3>1, <3>2 DEF ClaimFinish
    <3> QED BY <1>1, <1>2, <2>1, <3>3, FinishTells
  <2>2. CASE gov.tickets[i] \in TerminalReasons \cup {"Faulted"}
    <3>1. gov.tickets[i] # "Claiming"
      BY <2>2, SMT DEF TerminalReasons
    <3>2. Finish(t, forget_terminal_ticket(gov, i))
      BY <2>2, <3>1 DEF ClaimFinish
    <3> QED BY <1>1, <1>2, <2>2, <3>2, ForgetTells
  <2>3. CASE gov.tickets[i] \notin {"Claiming"} \cup TerminalReasons \cup {"Faulted"}
    <3>1. gov.tickets[i] = "Unknown"
      BY <1>1, <1>2, <2>3, SMT DEF TicketStates
    <3>2. Finish(t, gov)
      BY <2>3 DEF ClaimFinish
    <3> QED BY <1>2, <3>1, <3>2, ToldSame
  <2> QED BY <2>1, <2>2, <2>3
<1>4. PICK s : GovernedState(s) /\ Told(s, gov) /\ s.tickets[i] = "Unknown" /\ Finish(t, s)
  BY <1>3
<1>5. \A j \in notified : j \in notified' \/ s.tickets[j] = "Unknown"
  BY <1>1, <1>4
<1>6. s.tickets[i] # "Claiming"
  BY <1>4, SMT
<1> QED BY <1>1, <1>4, <1>5, <1>6, WakeEnd

\* A claim that panics ends its ticket, or finds that somebody has.
LEMMA FailTells ==
  ASSUME NEW s, CustodySound(s), NEW i \in Ids, s.tickets[i] = "Claiming",
         NEW reason \in TerminalReasons
  PROVE  LET g == record_terminal_ticket([s EXCEPT !.pending_ticket = @ \ {i}], i, reason) IN
         GovernedState(g) /\ Told(g, s) /\ g.tickets[i] # "Claiming"
<1> DEFINE r == [s EXCEPT !.pending_ticket = @ \ {i}]
           g == record_terminal_ticket(r, i, reason)
<1>1. GovernedState(s) /\ s.pending_ticket \in SUBSET Ids
  BY DEF CustodySound, GovernedState
<1>2. GovernedState(r)
  <2>1. s.pending_ticket \ {i} \in SUBSET Ids
    BY <1>1
  <2> QED BY <2>1, CustodyFlags DEF CustodySound
<1>3. r.tickets = s.tickets /\ r.spec = s.spec /\ r.wake = s.wake
  BY <1>1, FieldNames, ZenonT(30) DEF GovernedState
<1> HIDE DEF r
<1>4. GovernedState(g) /\ SameButTickets(g, r) /\ Recorded(g, r, i, reason)
  BY <1>2, RecordTerminalTicket
<1> HIDE DEF g
<1>5. g.spec = r.spec /\ g.wake = r.wake
  BY <1>4 DEF SameButTickets, SameRequests
<1>6. Told(g, r) /\ g.tickets[i] # "Claiming"
  BY <1>2, <1>3, <1>4, <1>5, ToldFailed
<1>7. Told(g, s)
  BY <1>3, <1>6, ToldSame, ToldTwice
<1> QED BY <1>4, <1>6, <1>7 DEF g, r

\* The compensation of claim fails the ticket and ends its permit.
LEMMA ClaimPanicTells ==
  ASSUME IInv, IInv', WakeSound, TicketSound(gov), gov'.issued >= gov.issued,
         NEW t \in Threads, ClaimPanic(t)
  PROVE  WakeSound'
<1> DEFINE i == th[t].id
<1>1. /\ th[t].pc = "claiming" /\ i \in Ids /\ th[t].wake = {} /\ notified' = notified
      /\ CustodySound(gov) /\ GovernedState(gov)
  <2>1. th[t].pc = "claiming" /\ notified' = notified
    BY DEF ClaimPanic
  <2>2. th[t].pc # "applying"
    BY <2>1, SMT
  <2> QED BY <2>1, <2>2 DEF IInv, ThreadsSound, WakeSound, CustodySound
<1>2. "ClaimDeliveryFailed" \in TerminalReasons /\ "Released" \in TerminalReasons
  BY SMT DEF TerminalReasons
<1>3. CASE gov.tickets[i] = "Claiming" /\ releasable(gov, i, None)
           /\ BeginPass(t, unwind(gov, i, "ClaimDeliveryFailed"))
  <2> DEFINE s == unwind(gov, i, "ClaimDeliveryFailed")
  <2>1. i \in gov.permits
    BY <1>3 DEF releasable
  <2>2. GovernedState(s) /\ Told(s, gov)
    BY <1>1, <1>2, <2>1, UnwindTells
  <2>3. s.tickets[i] # "Claiming"
    <3>1. Unwound(s, gov, i, "ClaimDeliveryFailed")
      BY <1>1, <1>2, Unwind
    <3>2. i \in gov.pending_ticket
      BY <1>1, <1>3 DEF TicketSound, TicketOf
    <3> HIDE DEF s
    <3>3. Recorded(s, gov, i, "ClaimDeliveryFailed")
      BY <3>1, <3>2 DEF Unwound
    <3> QED BY <1>1, <1>2, <3>3, RecordedTickets, InProgress DEF AnsweredAt
  <2> QED BY <1>1, <1>3, <2>2, <2>3, WakeEnd
<1>4. CASE gov.tickets[i] = "Claiming"
           /\ Finish(t, record_terminal_ticket(
                [gov EXCEPT !.pending_ticket = @ \ {i}], i,
                IF i \in gov.permits THEN "ClaimDeliveryFailed" ELSE "Released"))
  <2> DEFINE reason == IF i \in gov.permits THEN "ClaimDeliveryFailed" ELSE "Released"
             s == record_terminal_ticket([gov EXCEPT !.pending_ticket = @ \ {i}], i, reason)
  <2>1. reason \in TerminalReasons
    BY <1>2
  <2>2. Finish(t, s)
    BY <1>4
  <2> HIDE DEF reason
  <2>3. GovernedState(s) /\ Told(s, gov) /\ s.tickets[i] # "Claiming"
    BY <1>1, <1>4, <2>1, FailTells
  <2> QED BY <1>1, <2>2, <2>3, WakeEnd
<1>5. CASE gov.tickets[i] # "Claiming" /\ Finish(t, gov)
  BY <1>1, <1>5, ToldSame, WakeEnd
<1> QED BY <1>3, <1>4, <1>5 DEF ClaimPanic

\* A ticket that is withdrawn answers nobody.
LEMMA WithdrawTells ==
  ASSUME NEW s, GovernedState(s), NEW i \in Ids
  PROVE  LET g == remove_ticket(drop_request(
                    vacate_recursion_guard(remove_pending(s, i), s.spec[i]), i), i)
         IN GovernedState(g) /\ Told(g, s) /\ g.tickets[i] = "Unknown"
<1> DEFINE m == drop_request(vacate_recursion_guard(remove_pending(s, i), s.spec[i]), i)
           g == remove_ticket(m, i)
<1>1. GovernedState(m) /\ Unqueued(m, s, i) /\ SameTickets(m, s) /\ m.wake = s.wake
  BY Dequeue
<1> HIDE DEF m
<1>2. GovernedState(g) /\ SameButTickets(g, m) /\ g.tickets = put(m.tickets, i, "Unknown")
  BY <1>1, RemoveTicket
<1> HIDE DEF g
<1>3. /\ g.spec = put(s.spec, i, AnySpec) /\ g.wake = s.wake
      /\ g.tickets = put(s.tickets, i, "Unknown")
  BY <1>1, <1>2 DEF SameButTickets, SameRequests, Unqueued, SameTickets
<1>4. Told(g, s) /\ g.tickets[i] = "Unknown"
  BY <1>3, ToldWithdrawn
<1> QED BY <1>2, <1>4 DEF g, m

\* Abandoning: the holder of the ticket no longer waits for it.
LEMMA AbandonTells ==
  ASSUME IInv, IInv', WakeSound, TicketSound(gov), gov'.issued >= gov.issued,
         NEW t \in Threads, NEW i \in Ids, NEW now, Abandon(t, i, now)
  PROVE  WakeSound'
<1> DEFINE s == commit_time(gov, now)
           u == unwind(s, i, "Abandoned")
           w == remove_ticket(drop_request(
                  vacate_recursion_guard(remove_pending(s, i), s.spec[i]), i), i)
<1>1. EnteredAs(t, s)
  BY EnterTells DEF Abandon
<1>2. \/ /\ releasable(s, i, None) /\ gov.tickets[i] \in {"Granted", "Claiming"}
         /\ BeginPass(t, forget_terminal_ticket(u, i)) /\ notified' = notified \ {i}
      \/ /\ gov.tickets[i] \in {"Granted", "Claiming"} /\ notified' = notified
         /\ Finish(t, IF i \in s.permits THEN s ELSE remove_ticket(s, i))
      \/ BeginPass(t, w) /\ notified' = notified \ {i}
      \/ /\ gov.tickets[i] \in TerminalReasons \cup {"Faulted", "Unknown"}
         /\ Finish(t, forget_terminal_ticket(s, i)) /\ notified' = notified \ {i}
  BY DEF Abandon
<1> HIDE DEF s
<1>3. GovernedState(s) /\ TicketOf(s, i) /\ s.tickets = gov.tickets /\ Told(s, gov)
  BY <1>1 DEF EnteredAs, TicketSound
\* Nothing is said of the ticket, so nobody needs telling.
<1>4. ASSUME NEW g, GovernedState(g), Told(g, s), g.tickets[i] = "Unknown",
             notified' = notified \ {i}, Finish(t, g) \/ BeginPass(t, g)
      PROVE  WakeSound'
  <2>1. Told(g, gov)
    BY <1>3, <1>4, ToldTwice
  <2>2. \A j \in notified : j \in notified' \/ g.tickets[j] = "Unknown"
    BY <1>4
  <2>3. th[t].wake = {} /\ th[t].pc # "claiming"
    BY <1>1 DEF EnteredAs
  <2> QED BY <1>4, <2>1, <2>2, <2>3, WakeEnd
<1>5. CASE /\ releasable(s, i, None) /\ gov.tickets[i] \in {"Granted", "Claiming"}
           /\ BeginPass(t, forget_terminal_ticket(u, i)) /\ notified' = notified \ {i}
  <2>1. i \in s.permits /\ i \in s.pending_ticket /\ "Abandoned" \in TerminalReasons
    BY <1>3, <1>5 DEF releasable, TicketOf, TerminalReasons
  <2>2. GovernedState(u) /\ Told(u, s)
    BY <1>1, <2>1, UnwindTells DEF EnteredAs
  <2>3. u.tickets[i] \in TerminalReasons \cup {"Unknown"}
    <3>1. Unwound(u, s, i, "Abandoned")
      BY <1>3, <2>1, Unwind
    <3> HIDE DEF u
    <3>2. Recorded(u, s, i, "Abandoned")
      BY <2>1, <3>1 DEF Unwound
    <3> QED BY <1>3, <2>1, <3>2, RecordedTickets DEF AnsweredAt
  <2> HIDE DEF u
  <2> DEFINE g == forget_terminal_ticket(u, i)
  <2>4. /\ GovernedState(g) /\ Told(g, u)
        /\ u.tickets[i] \in TerminalReasons \cup {"Faulted"} => g.tickets[i] = "Unknown"
        /\ u.tickets[i] \notin TerminalReasons \cup {"Faulted"} => g.tickets[i] = u.tickets[i]
    BY <2>2, ForgetTells
  <2>5. g.tickets[i] = "Unknown"
    BY <2>3, <2>4
  <2>6. Told(g, s) /\ BeginPass(t, g)
    BY <1>5, <2>2, <2>4, ToldTwice
  <2> HIDE DEF g
  <2> QED BY <1>4, <1>5, <2>4, <2>5, <2>6
<1>6. CASE /\ gov.tickets[i] \in {"Granted", "Claiming"} /\ notified' = notified
           /\ Finish(t, IF i \in s.permits THEN s ELSE remove_ticket(s, i))
  <2>1. i \in s.permits
    BY <1>3, <1>6 DEF TicketOf
  <2>2. Finish(t, s)
    BY <1>6, <2>1
  <2> QED BY <1>1, <1>6, <2>2, WakeEnd DEF EnteredAs
<1>7. CASE BeginPass(t, w) /\ notified' = notified \ {i}
  <2>1. GovernedState(w) /\ Told(w, s) /\ w.tickets[i] = "Unknown"
    BY <1>3, WithdrawTells
  <2> HIDE DEF w
  <2> QED BY <1>4, <1>7, <2>1
<1>8. CASE /\ gov.tickets[i] \in TerminalReasons \cup {"Faulted", "Unknown"}
           /\ Finish(t, forget_terminal_ticket(s, i)) /\ notified' = notified \ {i}
  <2> DEFINE g == forget_terminal_ticket(s, i)
  <2>1. /\ GovernedState(g) /\ Told(g, s)
        /\ s.tickets[i] \in TerminalReasons \cup {"Faulted"} => g.tickets[i] = "Unknown"
        /\ s.tickets[i] \notin TerminalReasons \cup {"Faulted"} => g.tickets[i] = s.tickets[i]
    BY <1>3, ForgetTells
  <2>2. g.tickets[i] = "Unknown" /\ Finish(t, g)
    BY <1>3, <1>8, <2>1
  <2> HIDE DEF g
  <2> QED BY <1>4, <1>8, <2>1, <2>2
<1> QED BY <1>2, <1>5, <1>6, <1>7, <1>8

\* A release by id or by lease.
LEMMA ReleasesTell ==
  ASSUME IInv, IInv', WakeSound, TicketSound(gov), gov'.issued >= gov.issued,
         NEW t \in Threads, NEW i, NEW token, NEW now,
         Release(t, i, now) \/ ReleaseLeased(t, token, now)
  PROVE  WakeSound'
<1> DEFINE s == commit_time(gov, now)
<1>1. EnteredAs(t, s) /\ notified' = notified
  BY EnterTells DEF Release, ReleaseLeased
<1>2. \/ ReleaseWithProof(t, s, i, None)
      \/ ReleaseWithProof(t, s, token[1], token[2])
  BY DEF Release, ReleaseLeased
<1> HIDE DEF s
<1> QED BY <1>1, <1>2, ReleaseTells DEF EnteredAs

\* A phase, or the end of admissions, is nobody's answer.
LEMMA LifecycleTells ==
  ASSUME IInv, IInv', WakeSound, th' = th, notified' = notified, gov'.issued >= gov.issued,
         gov'.tickets = gov.tickets, gov'.spec = gov.spec, gov'.wake = gov.wake
  PROVE  WakeSound'
<1>1. Waking' = Waking
  BY DEF Waking
<1>2. \A i \in Ids : Settled(gov', i) <=> Settled(gov, i)
  BY DEF Settled
<1>3. ASSUME NEW t \in Threads, th[t].pc = "claiming" PROVE th[t].id <= gov'.issued
  <2>1. th[t].id \in Nat /\ th[t].id <= gov.issued
    <3>1. th[t].id \in Ids /\ th[t].id <= gov.issued
      BY <1>3 DEF IInv, ThreadsSound, WakeSound
    <3> QED BY <3>1, SMT DEF Ids
  <2>2. gov.issued \in Nat /\ gov'.issued \in Nat
    <3>1. gov.issued \in 0..MaxIds /\ gov'.issued \in 0..MaxIds
      BY DEF IInv, CustodySound, GovernedState
    <3> QED BY <3>1, SMT
  <2> QED BY <2>1, <2>2, SMT
<1> QED BY <1>1, <1>2, <1>3 DEF WakeSound

\* Operations that touch no ticket.
LEMMA AdvanceTells ==
  ASSUME IInv, IInv', WakeSound, gov'.issued >= gov.issued,
         \/ CloseAdmission
         \/ \E i \in Ids, p \in Phases : Advance(i, p)
  PROVE  WakeSound'
<1>1. GovernedState(gov)
  BY DEF IInv, CustodySound
<1>2. ASSUME NEW i \in Ids, NEW p \in Phases, Advance(i, p) PROVE WakeSound'
  <2>1. gov' = advance_phase(gov, i, p) /\ th' = th /\ notified' = notified
    BY <1>2 DEF Advance
  <2>2. SameRequests(gov', gov) /\ SameTickets(gov', gov) /\ gov'.wake = gov.wake
    BY <1>1, <2>1, AdvancePhase
  <2> QED BY <2>1, <2>2, LifecycleTells DEF SameRequests, SameTickets
<1>3. CASE CloseAdmission
  <2>1. gov' = [gov EXCEPT !.closed = TRUE] /\ th' = th /\ notified' = notified
    BY <1>3 DEF CloseAdmission
  <2>2. gov'.tickets = gov.tickets /\ gov'.spec = gov.spec /\ gov'.wake = gov.wake
    BY <1>1, <2>1, FieldNames, ZenonT(30) DEF GovernedState
  <2> QED BY <2>1, <2>2, LifecycleTells
<1> QED BY <1>2, <1>3

\* An accounting fault answers every queued ticket, and tells.
LEMMA FaultTells ==
  ASSUME NEW s, CustodySound(s), TicketSound(s)
  PROVE  LET g == terminalize_queued_for_accounting_fault([s EXCEPT !.fault = TRUE]) IN
         GovernedState(g) /\ Told(g, s)
<1> DEFINE r == [s EXCEPT !.fault = TRUE]
           g == terminalize_queued_for_accounting_fault(r)
<1>1. CustodySound(r)
  <2>1. TRUE \in BOOLEAN /\ {} \in SUBSET Ids
    BY SMT
  <2> QED BY <2>1, CustodyFlags
<1>2. /\ SamePermits(r, s) /\ SameTickets(r, s) /\ SameQueues(r, s) /\ r.issued = s.issued
      /\ r.spec = s.spec /\ r.wake = s.wake
  <2>1. DOMAIN s = DOMAIN Empty
    BY DEF GovernedState, CustodySound
  <2> QED BY <2>1, FieldNames, ZenonT(30) DEF SamePermits, SameTickets, SameQueues
<1> HIDE DEF r
<1>3. Queued(r) = Queued(s)
  BY <1>2 DEF Queued, SameQueues
<1>4. TicketSound(r)
  <2>1. \A j \in Ids : TicketOf(r, j)
    <3>1. \A j \in Ids : TicketOf(s, j)
      BY DEF TicketSound
    <3> QED BY <1>2, <1>3, <3>1 DEF TicketOf, SamePermits, SameTickets
  <2>2. RingSound(r.terminal_order, r.tickets)
    BY <1>2 DEF TicketSound, SameTickets
  <2> QED BY <2>1, <2>2 DEF TicketSound
<1>5. /\ GovernedState(g) /\ Emptied(g, r)
      /\ g.wake = r.wake \cup {i \in Queued(r) : r.spec[i].waker}
  BY <1>1, TerminalizeQueued DEF CustodySound
<1> HIDE DEF g
<1>6. Told(g, r)
  BY <1>1, <1>4, <1>5, ToldEmptied
<1>7. Told(r, s)
  BY <1>2, ToldSame DEF SameTickets
<1>8. Told(g, s)
  BY <1>6, <1>7, ToldTwice
<1> QED BY <1>5, <1>8 DEF g, r

\* A reading is nobody's answer unless it cannot be expressed; a stage boundary is
\* nobody's.
LEMMA MeterTells ==
  ASSUME IInv, IInv', WakeSound, TicketSound(gov), gov'.issued >= gov.issued,
         NEW t \in Threads, NEW i \in Ids, NEW now, NEW n \in Nat, NEW sequence \in Nat,
         ReconcileMemory(t, i, n, sequence, now) \/ ReleaseStageMemory(t, i, n, sequence, now)
  PROVE  WakeSound'
<1> DEFINE s == commit_time(gov, now)
           q == IF sequence = None THEN s.mseq[i] + 1 ELSE sequence
           f == terminalize_queued_for_accounting_fault([s EXCEPT !.fault = TRUE])
<1>1. EnteredAs(t, s) /\ notified' = notified
  BY EnterTells DEF ReconcileMemory, ReleaseStageMemory
<1>2. \/ Finish(t, s) \/ BeginPass(t, s) \/ Unlock(t, f, FALSE)
      \/ BeginPass(t, reconcile(s, i, n, q))
      \/ BeginPass(t, release_stage_memory(s, i, n, sequence))
  BY DEF ReconcileMemory, ReleaseStageMemory
<1> HIDE DEF s
<1>3. GovernedState(s) /\ Told(s, gov) /\ th[t].wake = {} /\ th[t].pc # "claiming"
  BY <1>1 DEF EnteredAs
<1>4. CASE Finish(t, s) \/ BeginPass(t, s)
  BY <1>1, <1>3, <1>4, WakeEnd
<1>5. CASE Unlock(t, f, FALSE)
  <2>1. GovernedState(f) /\ Told(f, s)
    BY <1>1, FaultTells DEF EnteredAs
  <2> HIDE DEF f
  <2>2. Told(f, gov)
    BY <1>3, <2>1, ToldTwice
  <2> QED BY <1>1, <1>3, <1>5, <2>1, <2>2, WakeEnd
\* Memory moves, and nothing else.
<1>6. ASSUME NEW g, GovernedState(g), SameWork(g, s), BeginPass(t, g) PROVE WakeSound'
  <2>1. g.tickets = s.tickets /\ g.spec = s.spec /\ g.wake = s.wake
    BY <1>6 DEF SameWork, SameRequests, SameTickets
  <2>2. Told(g, gov)
    BY <1>3, <2>1, ToldSame, ToldTwice
  <2> QED BY <1>1, <1>3, <1>6, <2>2, WakeEnd
<1>7. q \in Nat
  <2>1. s.mseq[i] \in Nat
    BY <1>3 DEF GovernedState
  <2> QED BY <2>1, SMT
<1> HIDE DEF q
<1>8. /\ GovernedState(reconcile(s, i, n, q)) /\ SameWork(reconcile(s, i, n, q), s)
      /\ GovernedState(release_stage_memory(s, i, n, sequence))
      /\ SameWork(release_stage_memory(s, i, n, sequence), s)
  BY <1>3, <1>7, ReconcileType, ReleaseStageType
<1> QED BY <1>2, <1>4, <1>5, <1>6, <1>8

\* A sweep starts, and reclaims permit by permit.
LEMMA SweepTells ==
  ASSUME IInv, IInv', WakeSound, TicketSound(gov), gov'.issued >= gov.issued,
         NEW t \in Threads, NEW w, NEW now, ReapLeaks(t, w, now) \/ Reclaim(t)
  PROVE  WakeSound'
<1>1. CASE ReapLeaks(t, w, now)
  <2> DEFINE s == commit_time(gov, now)
  <2>1. /\ EnteredAs(t, s) /\ notified' = notified /\ gov' = s
        /\ th' = [th EXCEPT ![t] = [Idle EXCEPT !.pc = "reaping"]]
    BY <1>1, EnterTells DEF ReapLeaks
  <2> HIDE DEF s
  <2>2. th \in [Threads -> ThreadStates]
    BY DEF IInv, ThreadsSound
  <2>3. /\ \A u \in Threads \ {t} : th'[u] = th[u]
        /\ th'[t].wake = {} /\ th'[t].pc # "claiming"
    BY <2>1, <2>2, SMT DEF Idle
  <2>4. \A u \in Threads : th'[u].wake # {} => th'[u].pc = "applying"
    BY <2>3 DEF WakeSound
  <2>5. ASSUME NEW j, j \in s.wake \/ \E u \in Threads : j \in th[u].wake
        PROVE  j \in Waking'
    <3>1. j \in gov'.wake \/ \E u \in Threads : j \in th'[u].wake
      BY <2>1, <2>3, <2>5 DEF EnteredAs
    <3> QED BY <3>1 DEF Waking
  <2>6. HandedOver(t, s)
    BY <2>1, <2>3, <2>4, <2>5 DEF HandedOver
  <2> QED BY <2>1, <2>6, WakeLeft DEF EnteredAs
<1>2. CASE Reclaim(t)
  <2>1. /\ th[t].wake = {} /\ th[t].pc # "claiming" /\ notified' = notified
        /\ CustodySound(gov) /\ GovernedState(gov) /\ Told(gov, gov)
    <3>1. th[t].pc = "reaping" /\ notified' = notified
      BY <1>2 DEF Reclaim
    <3>2. th[t].pc # "applying" /\ th[t].pc # "claiming"
      BY <3>1, SMT
    <3> QED BY <3>1, <3>2, NoEffects, ToldSame DEF IInv, CustodySound
  <2>2. CASE BeginPass(t, gov)
    BY <2>1, <2>2, WakeEnd
  <2>3. CASE \E i \in pass.reap : gov' = unwind(gov, i, "Reclaimed") /\ th' = th
    <3>1. PICK i \in pass.reap : gov' = unwind(gov, i, "Reclaimed") /\ th' = th
      BY <2>3
    <3>2. i \in gov.permits /\ "Reclaimed" \in TerminalReasons
      BY <3>1 DEF IInv, ThreadsSound, SweepSound, TerminalReasons
    <3>3. Told(gov', gov)
      BY <2>1, <3>1, <3>2, UnwindTells
    <3>4. HandedOver(t, gov')
      BY <2>1, <3>1, PassLeaves
    <3> QED BY <2>1, <3>3, <3>4, WakeLeft
  <2> QED BY <1>2, <2>2, <2>3 DEF Reclaim
<1> QED BY <1>1, <1>2

\* What the scan for wait cycles ends, and what a slot promotes, is told.
LEMMA PassTells ==
  ASSUME IInv, IInv', WakeSound, TicketSound(gov), gov'.issued >= gov.issued,
         NEW t \in Threads, ScanWaitCycles(t) \/ PromoteOne(t)
  PROVE  WakeSound'
<1>1. /\ th[t].wake = {} /\ th[t].pc # "claiming" /\ notified' = notified
      /\ th' = th \/ th' = [th EXCEPT ![t].pc = "promoting"]
      /\ CustodySound(gov)
  <2>1. th[t].pc \in {"scanning", "promoting"} /\ notified' = notified
    BY DEF ScanWaitCycles, PromoteOne
  <2>2. th[t].pc # "applying" /\ th[t].pc # "claiming"
    BY <2>1, SMT
  <2> QED BY <2>1, <2>2, NoEffects DEF IInv, ScanWaitCycles, PromoteOne
<1>2. Told(gov', gov)
  <2>1. CASE gov' = gov
    BY <2>1, ToldSame
  <2>2. CASE \E i \in first_wait_cycle(gov) : gov' = terminalize_wait_cycle(gov, i)
    <3>1. \A i \in first_wait_cycle(gov) : i \in Queued(gov)
      BY DEF first_wait_cycle, wait_cycles
    <3> QED BY <1>1, <2>2, <3>1, WaitCycleTells
  <2>3. CASE \E i \in select(gov) : gov' = promote_one(gov, i)
    <3>1. \A i \in select(gov) : i \in Queued(gov)
      BY Selection DEF IInv, CustodySound
    <3> QED BY <1>1, <2>3, <3>1, WaitCycleTells
  <2> QED BY <2>1, <2>2, <2>3 DEF ScanWaitCycles, PromoteOne
<1>3. HandedOver(t, gov')
  BY <1>1, PassLeaves
<1> QED BY <1>1, <1>2, <1>3, WakeLeft

\* The end of a pass hands over what the pass has to tell.
LEMMA PromoteEndTells ==
  ASSUME IInv, IInv', WakeSound, TicketSound(gov), gov'.issued >= gov.issued,
         NEW t \in Threads, PromoteEnd(t)
  PROVE  WakeSound'
<1>1. /\ th[t].wake = {} /\ th[t].pc # "claiming" /\ notified' = notified /\ CustodySound(gov)
  <2>1. th[t].pc = "promoting" /\ notified' = notified
    BY DEF PromoteEnd
  <2>2. th[t].pc # "applying" /\ th[t].pc # "claiming"
    BY <2>1, SMT
  <2> QED BY <2>1, <2>2, NoEffects DEF IInv
<1>2. \E s, more : /\ CustodySound(s) /\ Told(s, gov) /\ more \in BOOLEAN
                   /\ Unlock(t, [s EXCEPT !.promotion_pending = more], more)
  <2>1. CASE \E i \in first_wait_cycle(gov) : EndPass(t, terminalize_wait_cycle(gov, i), TRUE)
    <3>1. PICK i \in first_wait_cycle(gov) : EndPass(t, terminalize_wait_cycle(gov, i), TRUE)
      BY <2>1
    <3>2. i \in Queued(gov) /\ TRUE \in BOOLEAN
      BY <3>1, SMT DEF first_wait_cycle, wait_cycles
    <3>3. Told(terminalize_wait_cycle(gov, i), gov) /\ CustodySound(terminalize_wait_cycle(gov, i))
      BY <1>1, <3>2, WaitCycleTells, CustodyWaitCycle
    <3> QED BY <3>1, <3>2, <3>3 DEF EndPass
  <2>2. CASE EndPass(t, gov, pass.slots = PromotionBudget /\ has_runnable(gov))
    <3> DEFINE more == pass.slots = PromotionBudget /\ has_runnable(gov)
    <3>1. more \in BOOLEAN /\ Told(gov, gov)
      BY ToldSame
    <3>2. EndPass(t, gov, more)
      BY <2>2
    <3> HIDE DEF more
    <3> QED BY <1>1, <3>1, <3>2 DEF EndPass
  <2> QED BY <2>1, <2>2 DEF PromoteEnd
<1>3. PICK s, more : /\ CustodySound(s) /\ Told(s, gov) /\ more \in BOOLEAN
                     /\ Unlock(t, [s EXCEPT !.promotion_pending = more], more)
  BY <1>2
<1> DEFINE g == [s EXCEPT !.promotion_pending = more]
<1>4. GovernedState(g)
  <2>1. {} \in SUBSET Ids
    BY SMT
  <2> QED BY <1>3, <2>1, CustodyFlags DEF CustodySound
<1>5. g.tickets = s.tickets /\ g.spec = s.spec /\ g.wake = s.wake
  <2>1. DOMAIN s = DOMAIN Empty
    BY <1>3 DEF CustodySound, GovernedState
  <2> QED BY <2>1, FieldNames, ZenonT(30)
<1>6. Unlock(t, g, more)
  BY <1>3
<1> HIDE DEF g
<1>7. Told(g, gov)
  BY <1>3, <1>5, ToldSame, ToldTwice
<1> QED BY <1>1, <1>4, <1>6, <1>7, WakeEnd

\* Firing a waker tells its waiter; a continuation, or the return, has nobody to tell.
LEMMA EffectsTell ==
  ASSUME IInv, IInv', WakeSound, TicketSound(gov), gov'.issued >= gov.issued,
         NEW t \in Threads, Wake(t) \/ Resume(t)
  PROVE  WakeSound'
<1>1. CASE Wake(t)
  <2>1. PICK i \in th[t].wake : /\ notified' = notified \cup {i}
                                /\ th' = [th EXCEPT ![t].wake = @ \ {i}]
    BY <1>1 DEF Wake
  <2>2. th[t].pc = "applying" /\ gov' = gov /\ th \in [Threads -> ThreadStates]
    BY <1>1 DEF Wake, IInv, ThreadsSound
  <2>3. /\ \A u \in Threads : th'[u].pc = th[u].pc /\ th'[u].id = th[u].id
        /\ \A u \in Threads \ {t} : th'[u].wake = th[u].wake
        /\ th'[t].wake = th[t].wake \ {i}
    BY <2>1, <2>2, SMT DEF ThreadStates
  <2>4. Waking \subseteq Waking'
    <3>1. ASSUME NEW j \in Waking PROVE j \in Waking'
      <4>1. CASE j \in gov.wake \/ j \in notified
        BY <2>1, <2>2, <4>1 DEF Waking
      <4>2. CASE \E u \in Threads : j \in th[u].wake
        <5>1. PICK u \in Threads : j \in th[u].wake
          BY <4>2
        <5>2. j \in notified' \/ j \in th'[u].wake
          BY <2>1, <2>3, <5>1
        <5> QED BY <5>2 DEF Waking
      <4> QED BY <3>1, <4>1, <4>2 DEF Waking
    <3> QED BY <3>1
  <2>5. \A j \in Ids : Settled(gov, j) => j \in Waking'
    BY <2>4 DEF WakeSound
  <2>6. \A u \in Threads : th'[u].wake # {} => th'[u].pc = "applying"
    BY <2>2, <2>3 DEF WakeSound
  <2>7. ASSUME NEW j \in Ids, gov.tickets[j] = "Claiming"
        PROVE  \E u \in Threads : th'[u].pc = "claiming" /\ th'[u].id = j
    <3>1. PICK u \in Threads : th[u].pc = "claiming" /\ th[u].id = j
      BY <2>7 DEF WakeSound
    <3> QED BY <2>3, <3>1
  <2>8. \A j \in Ids : gov.tickets[j] = "Queued" /\ ~gov.spec[j].waker => j \in notified'
    BY <2>1 DEF WakeSound
  <2>9. \A u \in Threads : th'[u].pc = "claiming" =>
          th'[u].id <= gov.issued /\ gov.tickets[th'[u].id] \notin {"Queued", "Granted"}
    BY <2>3 DEF WakeSound
  <2> QED BY <2>2, <2>5, <2>6, <2>7, <2>8, <2>9 DEF WakeSound
<1>2. CASE Resume(t)
  <2>1. th[t].wake = {} /\ notified' = notified /\ (Finish(t, gov) \/ BeginPass(t, gov))
    BY <1>2 DEF Resume
  <2>2. th[t].pc # "claiming"
    BY <1>2, SMT DEF Resume
  <2>3. GovernedState(gov) /\ Told(gov, gov)
    BY ToldSame DEF IInv, CustodySound
  <2> QED BY <2>1, <2>2, <2>3, WakeEnd
<1> QED BY <1>1, <1>2

\* Every step of the Governor keeps the promise to its waiters.
LEMMA WakeStep ==
  ASSUME IInv, IInv', WakeSound, TicketSound(gov), gov'.issued >= gov.issued, [Next]_vars
  PROVE  WakeSound'
<1>1. /\ Issued \subseteq Ids /\ \A i \in Issued : i <= gov.issued
  <2>1. gov.issued \in 0..MaxIds
    BY DEF IInv, CustodySound, GovernedState
  <2> QED BY <2>1, IdsAssumption, SMT DEF Issued, Ids
<1>2. CASE UNCHANGED vars
  <2>1. th' = th /\ notified' = notified /\ gov' = gov
    BY <1>2 DEF vars
  <2> QED BY <2>1, LifecycleTells
<1>3. ASSUME NEW t \in Threads, Continue(t) PROVE WakeSound'
  BY <1>3, RetiringTells, ClaimFinishTells, ClaimPanicTells, SweepTells, PassTells,
     PromoteEndTells, EffectsTell DEF Continue
<1>4. ASSUME NEW t \in Threads, NEW now \in 0..MaxTime, Call(t, now) PROVE WakeSound'
  <2>1. CASE \E sp \in Specs : Admit(t, sp, now)
    BY <2>1, AdmitTells
  <2>2. CASE \E i \in Issued : Claim(t, i, now)
    BY <1>1, <2>2, ClaimTells
  <2>3. CASE \E i \in Issued : Abandon(t, i, now)
    BY <1>1, <2>3, AbandonTells
  <2>4. CASE (\E i \in Issued : Release(t, i, now)) \/ \E token \in tokens : ReleaseLeased(t, token, now)
    BY <2>4, ReleasesTell
  <2>5. CASE \E i \in Issued, bytes \in Readings, e \in Epochs :
               ReconcileMemory(t, i, bytes, e, now)
    BY <1>1, <2>5, MeterTells, GovernorAssumption
  <2>6. CASE \E i \in Issued, f \in Freed, q \in StageSeqs : ReleaseStageMemory(t, i, f, q, now)
    BY <1>1, <2>6, MeterTells, GovernorAssumption
  <2>7. CASE \E w \in StaleAfter : ReapLeaks(t, w, now)
    BY <2>7, SweepTells
  <2> QED BY <1>4, <2>1, <2>2, <2>3, <2>4, <2>5, <2>6, <2>7 DEF Call
<1>5. ASSUME NEW i \in Issued, NEW p \in Declared, Advance(i, p) PROVE WakeSound'
  BY <1>1, <1>5, AdvanceTells, GovernorAssumption
<1>6. ASSUME CloseAdmission PROVE WakeSound'
  BY <1>6, AdvanceTells
<1> QED BY <1>2, <1>3, <1>4, <1>5, <1>6 DEF Next
=============================================================================
