------------------------- MODULE GovernorRefinement -------------------------
(***************************************************************************)
(* The Governor implements PermitService: forget the policy, the ledgers,  *)
(* the tickets, the threads and the mutex, and what is left of every step  *)
(* is a step of the service or nothing.                                    *)
(***************************************************************************)
EXTENDS Governor

Service == INSTANCE PermitService WITH
  issued <- gov.issued, waiting <- Queued(gov), held <- Held(gov),
  leased <- Leased(gov), tokens <- {token[1] : token \in tokens},
  closed <- gov.closed

\* The Governor keeps the promise its callers build on (PermitService): whatever
\* the threads do, a request moves only forward from waiting to held to leased,
\* promotion takes only what waits, nothing enters once admission is closed, an
\* ended request never returns, and leased work ends with its own token only.
ImplementsService == Service!Spec
=============================================================================
