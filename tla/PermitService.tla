--------------------------- MODULE PermitService ---------------------------
(***************************************************************************)
(* What a Governor promises the code that holds its permits, with no       *)
(* policy, ledger, queue order or lock in sight.  A request is named by    *)
(* the number it was admitted under.  It waits or is held straight away; a *)
(* held permit is taken back by whoever knows it, until a worker leases    *)
(* it, and from then on only the one token of that lease ends it.  A       *)
(* request that has ended never comes back.                                *)
(***************************************************************************)
EXTENDS Naturals

VARIABLES
  issued,    \* how many requests were admitted or queued so far
  waiting,   \* queued requests
  held,      \* permits reserved for dispatch
  leased,    \* permits a worker has taken custody of
  tokens,    \* permits whose lease token is out
  closed     \* admission is closed, for good

vars == <<issued, waiting, held, leased, tokens, closed>>

Init == /\ issued = 0
        /\ waiting = {} /\ held = {} /\ leased = {} /\ tokens = {}
        /\ closed = FALSE

Active == waiting \cup held \cup leased

\* A newcomer takes the next number and is held at once, or waits.
Grant == /\ ~closed
         /\ issued' = issued + 1 /\ held' = held \cup {issued + 1}
         /\ UNCHANGED <<waiting, leased, tokens, closed>>

Enqueue == /\ ~closed
           /\ issued' = issued + 1 /\ waiting' = waiting \cup {issued + 1}
           /\ UNCHANGED <<held, leased, tokens, closed>>

Promote(i) == /\ i \in waiting
              /\ waiting' = waiting \ {i} /\ held' = held \cup {i}
              /\ UNCHANGED <<issued, leased, tokens, closed>>

\* Waiting requests leave without ever having held anything: withdrawn by their
\* callers, or ended by the service, several at once after a fault.
Withdraw(S) == /\ S # {} /\ S \subseteq waiting
               /\ waiting' = waiting \ S
               /\ UNCHANGED <<issued, held, leased, tokens, closed>>

\* The first phase a worker declares takes custody and mints the token.
Lease(i) == /\ i \in held
            /\ held' = held \ {i} /\ leased' = leased \cup {i}
            /\ tokens' = tokens \cup {i}
            /\ UNCHANGED <<issued, waiting, closed>>

\* A permit nobody leased is returned, abandoned or reclaimed.
Return(i) == /\ i \in held
             /\ held' = held \ {i}
             /\ UNCHANGED <<issued, waiting, leased, tokens, closed>>

\* The token is spent and the permit ends with it.
Spend(i) == /\ i \in leased /\ i \in tokens
            /\ leased' = leased \ {i} /\ tokens' = tokens \ {i}
            /\ UNCHANGED <<issued, waiting, held, closed>>

Close == /\ closed' = TRUE
         /\ UNCHANGED <<issued, waiting, held, leased, tokens>>

Next == \/ Grant \/ Enqueue \/ Close
        \/ \E S \in SUBSET waiting : Withdraw(S)
        \/ \E i \in Active : Promote(i) \/ Lease(i) \/ Return(i) \/ Spend(i)

Spec == Init /\ [][Next]_vars
=============================================================================
