------------------------- MODULE GovernorInvariants -------------------------
(***************************************************************************)
(* The inductive invariants of the Governor, stronger than the properties they *)
(* are made for: what a step of any thread may rely on.                    *)
(***************************************************************************)
EXTENDS Governor, GovChanges

-----------------------------------------------------------------------------
\* Custody and mutual exclusion

\* At most one thread is inside a critical section that takes several steps.
MutualExclusion == \A t, u \in Threads : Holds(t) /\ Holds(u) => t = u

\* What a leak sweep still has to reclaim is live and not yet dispatched: the
\* sweep decided under the lock it still holds.
SweepSound ==
  /\ pass.reap # {} => \E t \in Threads : th[t].pc = "reaping"
  /\ \A i \in pass.reap : i \in gov.permits /\ gov.phase[i] = "DispatchReserved"

ThreadsSound ==
  /\ th \in [Threads -> ThreadStates] /\ pass \in PassStates
  /\ MutualExclusion /\ SweepSound
  /\ \A t \in Threads : th[t].pc \in {"retiring", "claiming"} => th[t].id \in Ids

IInv ==
  /\ CustodySound(gov) /\ tokens = Leases(gov)
  /\ ThreadsSound
  /\ notified \subseteq Ids

-----------------------------------------------------------------------------
\* Wake-ups

\* A waiter with an answer is told or about to be, one that registered no waker knows
\* to ask, only a thread applying effects has any, and a ticket is being claimed
\* exactly as long as a claim is in progress.
WakeSound ==
  /\ \A i \in Ids : Settled(gov, i) => i \in Waking
  /\ \A i \in Ids : gov.tickets[i] = "Queued" /\ ~gov.spec[i].waker => i \in notified
  /\ \A t \in Threads : th[t].wake # {} => th[t].pc = "applying"
  /\ \A t \in Threads : th[t].pc = "claiming" =>
       th[t].id <= gov.issued /\ gov.tickets[th[t].id] \notin {"Queued", "Granted"}
  /\ \A i \in Ids : gov.tickets[i] = "Claiming" =>
       \E t \in Threads : th[t].pc = "claiming" /\ th[t].id = i

-----------------------------------------------------------------------------
\* Runnable work

\* Between the critical sections a pass is owed, or nothing that is queued could start.
StrandSound ==
  LockFree => /\ gov.promotion_pending => Owed
              /\ ~gov.promotion_pending => \A i \in Queued(gov) : ~Startable(gov, i)

=============================================================================
