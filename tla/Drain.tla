------------------------------- MODULE Drain --------------------------------
(***************************************************************************)
(* The host composed with TokioRuntime::drain (runtime/drain.rs).  Drains  *)
(* close admission and wait for the engine's own gauges to reach zero; the *)
(* settlement wake of every ended request is what lets them look again.    *)
(***************************************************************************)
EXTENDS Host

CONSTANTS
  Drainers,   \* tasks that call drain, and may call it again
  Timeouts    \* the timeouts they pass, Never for an unbounded drain

ASSUME DrainAssumption == Timeouts \subseteq 0..Never

VARIABLES
  mirror,     \* DrainSignal.draining
  drain,      \* where each drain is
  expiry,     \* the instant its timeout ends
  woken       \* drains whose Notified has completed

drains == <<mirror, drain, expiry, woken>>
allVars == <<vars, drains>>

DrainInit == /\ Init
             /\ mirror = FALSE /\ woken = {}
             /\ drain = [d \in Drainers |-> "idle"]
             /\ expiry = [d \in Drainers |-> Never]

DrainGoto(d, p) == drain' = [drain EXCEPT ![d] = p]

\* DrainSignal::begin: the mirror is set before the engine is closed.  A timeout
\* the clock cannot represent is unbounded.
Begin(d) ==
  /\ drain[d] \in {"idle", "NotDrained"}
  /\ mirror' = TRUE
  /\ \E t \in Timeouts : expiry' = [expiry EXCEPT ![d] = after(t)]
  /\ DrainGoto(d, "close")
  /\ UNCHANGED <<vars, woken>>

CloseAdmission(d) ==
  /\ drain[d] = "close"
  /\ Service!Close
  /\ DrainGoto(d, "listen")
  /\ UNCHANGED <<outside, host, waking, pings, mirror, expiry, woken>>

\* A new Notified knows nothing of the wakes before it.
Listen(d) ==
  /\ drain[d] = "listen"
  /\ woken' = woken \ {d}
  /\ DrainGoto(d, "look")
  /\ UNCHANGED <<vars, mirror, expiry>>

outstanding == Service!Active

\* Mutant of LookAtGauges: the drain counts replies.
LookAtReplies(d) ==
  /\ drain[d] = "look"
  /\ DrainGoto(d, IF \A s \in Subs : pc[s] \in {"submit", "admit", "answered"}
                  THEN "Drained" ELSE "poll")
  /\ UNCHANGED <<vars, mirror, expiry, woken>>

LookAtGauges(d) ==
  /\ drain[d] = "look"
  /\ DrainGoto(d, IF outstanding = {} THEN "Drained" ELSE "poll")
  /\ UNCHANGED <<vars, mirror, expiry, woken>>

\* The Notified that was created before the look is polled.
PollNotified(d) ==
  /\ drain[d] = "poll"
  /\ DrainGoto(d, "wait")
  /\ UNCHANGED <<vars, mirror, expiry, woken>>

Woken(d) ==
  /\ drain[d] = "wait" /\ d \in woken
  /\ DrainGoto(d, "listen")
  /\ UNCHANGED <<vars, mirror, expiry, woken>>

\* Mutant of Expire: the timeout decides without a last look.
ExpireBlind(d) ==
  /\ drain[d] = "wait" /\ d \notin woken /\ now >= expiry[d]
  /\ DrainGoto(d, "NotDrained")
  /\ UNCHANGED <<vars, mirror, expiry, woken>>

\* Mutant of Expire: at the deadline the drain goes on unless all has ended.
ExpireWhenIdle(d) ==
  /\ drain[d] = "wait" /\ d \notin woken /\ now >= expiry[d]
  /\ DrainGoto(d, IF outstanding = {} THEN "Drained" ELSE "listen")
  /\ UNCHANGED <<vars, mirror, expiry, woken>>

\* The timeout and the last release race: one more look decides.
Expire(d) ==
  /\ drain[d] = "wait" /\ d \notin woken /\ now >= expiry[d]
  /\ DrainGoto(d, IF outstanding = {} THEN "Drained" ELSE "NotDrained")
  /\ UNCHANGED <<vars, mirror, expiry, woken>>

\* Mutant of WakeDrains: only a drain that is already waiting is woken.
SettleWaiting(i) ==
  /\ Settle(i)
  /\ woken' = IF mirror THEN woken \cup {d \in Drainers : drain[d] = "wait"} ELSE woken
  /\ UNCHANGED <<mirror, drain, expiry>>

\* SettlementWaker::wake and DrainSignal::settled: every Notified in existence
\* completes, if the mirror is set.
WakeDrains(i) ==
  /\ Settle(i)
  /\ woken' = IF mirror THEN woken \cup {d \in Drainers : drain[d] \in {"look", "poll", "wait"}}
               ELSE woken
  /\ UNCHANGED <<mirror, drain, expiry>>

DrainStep(d) == \/ CloseAdmission(d) \/ Listen(d) \/ LookAtGauges(d)
                \/ PollNotified(d) \/ Woken(d) \/ Expire(d)

HostStep == \/ \E s \in Subs : Caller(s) \/ Worker(s) \/ WorkEnds(s)
            \/ Engine \/ Environment

DrainNext == \/ HostStep /\ UNCHANGED drains
             \/ \E i \in pings : WakeDrains(i)
             \/ \E d \in Drainers : Begin(d) \/ DrainStep(d)
             \/ Finished /\ UNCHANGED allVars

\* What the scheduling of the program justifies.  Tasks that are ready are
\* polled, started threads run, the engine finishes the calls it is in, the
\* clock goes on.  Cooperative work yields, so its token, its deadline and the
\* loss of its caller reach it.  That user work ends by itself, that dropping a
\* runtime with children of the user's returns, or that an embedder gives back
\* what it took, is not assumed.
Stoppable(s) == /\ RunCancellable(s) \/ RunRuntime(s)
                /\ {answer'[s], outcome'[s]} \cap {"Cancelled", "Deadline", "OutOfRange"} # {}

Fairness ==
  /\ \A s \in Subs : /\ WF_allVars(Caller(s) /\ UNCHANGED drains)
                    /\ WF_allVars(Worker(s) /\ UNCHANGED drains)
                    /\ WF_allVars(Stoppable(s) /\ UNCHANGED drains)
  /\ WF_allVars(Engine /\ UNCHANGED drains)
  /\ WF_allVars(\E i \in pings : WakeDrains(i))
  /\ WF_allVars(Tick /\ UNCHANGED drains)
  /\ \A d \in Drainers : WF_allVars(DrainStep(d))

DrainSpec == DrainInit /\ [][DrainNext]_allVars /\ Fairness

-----------------------------------------------------------------------------
\* Properties

\* A drain that reported success stays right: nothing is queued or charged, no
\* lease token is out and no user work runs or tears down, then and ever after,
\* although callers are answered long before their workers end.
DrainedIsIdle ==
  \A d \in Drainers : drain[d] = "Drained" =>
    /\ closed /\ outstanding = {} /\ tokens = {}
    /\ \A s \in Subs : pc[s] # "running" /\ work[s] \notin {"queued", "running", "teardown"}

\* No lost wake-up: a drain that sleeps although everything has ended still has
\* a settlement wake coming (drain.rs, the gate on the mirror and the Notified
\* created before the look).
DrainNotStranded ==
  \A d \in Drainers :
    drain[d] \in {"poll", "wait"} /\ d \notin woken /\ outstanding = {} => pings # {}

\* Once everything has ended, every drain that waits for it returns Drained,
\* bounded or not.
DrainSeesTheEnd ==
  \A d \in Drainers :
    (drain[d] = "wait" /\ outstanding = {} /\ closed) ~> drain[d] = "Drained"

\* A drain with a timeout answers, whether or not the work ever ends.
DrainReturns ==
  \A d \in Drainers :
    (drain[d] = "close" /\ expiry[d] # Never) ~> drain[d] \in {"Drained", "NotDrained"}

\* The drain is graceful: what was admitted before the close, queued work included,
\* is still promoted, run, released and settled, so an unbounded drain reports
\* success whenever no user work, teardown or permit of an embedder goes on for ever.
DrainCompletes ==
  /\ \A s \in Subs : []<>(pc[s] # "running" /\ work[s] \notin {"running", "teardown"})
  /\ []<>(foreign = {} /\ held \subseteq {req[s] : s \in Subs})
  => \A d \in Drainers : (drain[d] = "close" /\ expiry[d] = Never) ~> drain[d] = "Drained"

\* A caller with a boundary is answered even if its work never ends, whatever
\* dispatch kind it has and whether or not it ever left the queue.
BoundedCallerAnswered ==
  \A s \in Subs : plan[s].by # Never ~> pc[s] = "answered"

\* A runtime on its own stack whose caller went away stops by itself and gives back
\* its lease, unless dropping it blocks for ever on a child it cannot abort.
OrphanedRuntimeEnds ==
  \A s \in Subs :
    []<>(work[s] # "teardown") =>
      ((lease[s] = "worker" /\ chan[s] = "closed" /\ ~sync(s)) ~> lease[s] = "gone")
=============================================================================
