----------------------------- MODULE HostProofs -----------------------------
(***************************************************************************)
(* Custody in the host, for any submissions, plans and outsiders: a lease  *)
(* token is at exactly one place that will spend it, work runs on charged  *)
(* capacity only, an answered caller leaves nothing behind but its own     *)
(* running worker, and no parked caller misses its wake-up.  The drains of *)
(* such a host tell the truth and are not left asleep.                     *)
(***************************************************************************)
EXTENDS Drain, TLAPS

\* A leaf is for Zenon unless it names another prover.
USE Zenon

-----------------------------------------------------------------------------
\* The invariant

Shape ==
  /\ DOMAIN pc = Subs /\ DOMAIN answer = Subs /\ DOMAIN ticket = Subs /\ DOMAIN lease = Subs
  /\ DOMAIN work = Subs /\ DOMAIN chan = Subs /\ DOMAIN req = Subs

\* The engine's side: a request is in one place, its number is its own, and the
\* tokens that are out are those of the leased permits.
Engaged ==
  /\ issued \in Nat /\ waiting \cup held \cup leased \subseteq 1..issued
  /\ waiting \cap held = {} /\ waiting \cap leased = {} /\ held \cap leased = {}
  /\ tokens = leased /\ foreign \subseteq leased
  /\ \A s \in Subs : req[s] \in 0..issued
  /\ \A r, s \in Subs : req[r] = req[s] /\ req[r] # None => r = s

\* Every token is the embedder's, or with the lease of one submission.
Owned ==
  /\ \A i \in leased : i \in foreign \/ \E s \in Subs : lease[s] \in TokenAt /\ req[s] = i
  /\ \A s \in Subs : lease[s] \in TokenAt => req[s] \in leased /\ req[s] \notin foreign

\* The caller still has the ticket and will look at it, or abandon it.
Waits(s) ==
  \/ pc[s] \in {"look", "claim", "poll", "park"}
  \/ pc[s] \in {"guard", "unguard"} /\ ticket[s] = "open" /\ s \in armed /\ answer[s] # "none"

\* The caller is about to look at the permit it was given, or has it reserved.
Reserves(s) == \/ pc[s] \in {"dispatch", "advance"}
               \/ pc[s] \in {"guard", "unguard"} /\ answer[s] = "none"

\* The submission's side: where its lease is follows from where its caller and
\* its worker are, and so does who is responsible for a request that is queued
\* or a permit that is held.
Kept(s) ==
  /\ lease[s] = "reserved" <=> Reserves(s)
  /\ lease[s] = "caller" <=> pc[s] \in {"spawn", "running", "release"}
  /\ lease[s] = "worker" <=> work[s] \in {"queued", "running", "teardown", "send"}
  /\ lease[s] = "channel" <=> chan[s] = "outcome"
  /\ chan[s] = "outcome" => pc[s] \in {"await", "hangup"}
  /\ work[s] # "none" => pc[s] \in {"await", "release", "respond", "hangup", "answered"}
  /\ work[s] # "none" /\ chan[s] = "empty" => pc[s] \in {"await", "hangup"}
  /\ pc[s] \in {"look", "claim", "poll", "park"} => ticket[s] = "open" /\ s \in armed
  /\ req[s] \in waiting => Waits(s)
  /\ req[s] \in held => Waits(s) \/ Reserves(s) \/ pc[s] = "finalize"
  /\ pc[s] \in {"poll", "park"} /\ req[s] \notin waiting => s \in notified \/ req[s] \in owed

HInv == Shape /\ Engaged /\ Owned /\ \A s \in Subs : Kept(s)

-----------------------------------------------------------------------------
\* Steps of one submission

Same(r) ==
  /\ pc'[r] = pc[r] /\ answer'[r] = answer[r] /\ ticket'[r] = ticket[r] /\ lease'[r] = lease[r]
  /\ work'[r] = work[r] /\ chan'[r] = chan[r] /\ req'[r] = req[r]
  /\ r \in armed => r \in armed'
  /\ r \in notified => r \in notified'

\* What the engine may do to a request behind the caller's back.
Quiet(r) ==
  /\ req[r] \in waiting' => req[r] \in waiting
  /\ req[r] \in held' => req[r] \in held \cup waiting
  /\ req[r] \in waiting /\ req[r] \notin waiting' => req[r] \in owed'
  /\ req[r] \in owed => req[r] \in owed' \/ r \in notified'

\* Everything but submission s stays as it is.
Alone(s) ==
  /\ Shape' /\ UNCHANGED <<foreign, owed>>
  /\ \A r \in Subs \ {s} : Same(r)

Tokens(s) == lease'[s] \in TokenAt <=> lease[s] \in TokenAt

\* One engine call at most, on the submission's own request.
Call(s) ==
  \/ UNCHANGED svc /\ Tokens(s)
  \/ Service!Return(req[s]) /\ Tokens(s)
  \/ Service!Withdraw({req[s]}) /\ Tokens(s)
  \/ Service!Lease(req[s]) /\ lease'[s] \in TokenAt
  \/ Service!Spend(req[s]) /\ lease[s] \in TokenAt /\ lease'[s] \notin TokenAt

\* What a submission is responsible for does not change when neither it nor the
\* engine's view of its request does.
LEMMA KeptSame ==
  ASSUME NEW r \in Subs, Kept(r), Same(r), Quiet(r)
  PROVE  Kept(r)'
  BY DEF Kept, Same, Quiet, Waits, Reserves

\* The engine's side of a call a submission makes on its own request.
LEMMA CallEngaged ==
  ASSUME HInv, NEW s \in Subs, Alone(s), Call(s), UNCHANGED req
  PROVE  Engaged' /\ Owned'
  <1> USE DEF HInv, Engaged, Owned, None
  <1>1. CASE UNCHANGED svc /\ Tokens(s)
    BY <1>1 DEF svc, Tokens, Alone, Same
  <1>2. CASE Service!Return(req[s]) /\ Tokens(s)
    BY <1>2 DEF Service!Return, Tokens, Alone, Same
  <1>3. CASE Service!Withdraw({req[s]}) /\ Tokens(s)
    BY <1>3 DEF Service!Withdraw, Tokens, Alone, Same
  <1>4. CASE Service!Lease(req[s]) /\ lease'[s] \in TokenAt
    BY <1>4, SMT DEF Service!Lease, Alone, Same
  <1>5. CASE Service!Spend(req[s]) /\ lease[s] \in TokenAt /\ lease'[s] \notin TokenAt
    BY <1>5, SMT DEF Service!Spend, Alone, Same
  <1> QED BY <1>1, <1>2, <1>3, <1>4, <1>5 DEF Call

\* A call on one's own request disturbs nobody else.
LEMMA CallQuiet ==
  ASSUME HInv, NEW s \in Subs, Alone(s), Call(s), UNCHANGED req, NEW r \in Subs \ {s}
  PROVE  Quiet(r)
  <1>1. req[s] \in waiting \cup held \cup leased => req[r] # req[s]
    BY SMT DEF HInv, Engaged, None
  <1> QED BY <1>1 DEF Call, Quiet, Alone, svc, Service!Return, Service!Withdraw, Service!Lease,
                      Service!Spend

\* So only the submission that moved has to be looked at.
LEMMA CallKeeps ==
  ASSUME HInv, NEW s \in Subs, Alone(s), Call(s), UNCHANGED req, Kept(s)'
  PROVE  HInv'
  <1>1. ASSUME NEW r \in Subs \ {s} PROVE Kept(r)'
    BY CallQuiet, KeptSame DEF HInv, Alone
  <1> QED BY <1>1, CallEngaged DEF HInv, Alone

\* Drop for ExecutionLease ends whatever the lease stood for.
LEMMA DropLeaseCalls ==
  ASSUME HInv, NEW s \in Subs, DropLease(s)
  PROVE  /\ Call(s) /\ lease'[s] = "gone" /\ DOMAIN lease' = Subs
         /\ \A r \in Subs \ {s} : lease'[r] = lease[r]
         /\ waiting' = waiting /\ held' \subseteq held
         /\ lease[s] = "reserved" => req[s] \notin held'
  <1>1. /\ lease'[s] = "gone" /\ DOMAIN lease' = Subs
        /\ \A r \in Subs \ {s} : lease'[r] = lease[r]
    BY DEF HInv, Shape, DropLease, Lease
  <1>2. CASE lease[s] = "reserved"
    BY <1>1, <1>2 DEF DropLease, ReleaseById, Call, Tokens, TokenAt, svc, Service!Return
  <1>3. CASE lease[s] \in TokenAt
    <2>1. req[s] \in leased /\ req[s] \in tokens
      BY <1>3 DEF HInv, Owned, Engaged
    <2> QED BY <1>1, <1>3, <2>1 DEF DropLease, ReleaseByToken, Call, TokenAt, Service!Spend
  <1>4. CASE lease[s] # "reserved" /\ lease[s] \notin TokenAt
    BY <1>1, <1>4 DEF DropLease, Call, Tokens, TokenAt, svc
  <1> QED BY <1>1, <1>2, <1>3, <1>4

-----------------------------------------------------------------------------
\* One lemma per step of the caller

LEMMA SubmitKeeps ==
  ASSUME HInv, NEW s \in Subs, Submit(s)
  PROVE  HInv'
  <1>1. Alone(s)
    BY DEF HInv, Shape, Alone, Same, Submit, Answer, Goto, Say, outside, working, waking
  <1>2. Call(s)
    BY DEF Call, Tokens, Submit
  <1>3. Kept(s)'
    BY DEF HInv, Shape, Kept, Waits, Reserves, Submit, Answer, Goto, Say, svc, working, waking
  <1> QED BY <1>1, <1>2, <1>3, CallKeeps DEF Submit

\* A newcomer's number is new: no submission, and nobody else, has it.
LEMMA AdmitKeeps ==
  ASSUME HInv, NEW s \in Subs, Admit(s)
  PROVE  HInv'
  <1>1. Alone(s)
    BY DEF HInv, Shape, Alone, Same, Admit, Answer, Goto, Say, outside, working, waking
  <1>2. CASE UNCHANGED <<svc, req, ticket, armed>> /\ \E a : Answer(s, a)
    <2>1. Call(s)
      BY <1>2 DEF Call, Tokens, Admit
    <2>2. Kept(s)'
      BY <1>2 DEF HInv, Shape, Kept, Waits, Reserves, Admit, Answer, Goto, Say, svc, working, waking
    <2> QED BY <1>1, <1>2, <2>1, <2>2, CallKeeps
  <1>3. CASE /\ Service!Grant /\ req' = [req EXCEPT ![s] = issued + 1]
             /\ Goto(s, "finalize") /\ UNCHANGED <<answer, ticket, armed>>
    <2>1. /\ Kept(s)'
      BY <1>3 DEF HInv, Shape, Engaged, Kept, Waits, Reserves, Admit, Goto, svc, working, waking,
                  Service!Grant
    <2>2. ASSUME NEW r \in Subs \ {s} PROVE Kept(r)'
      <3>1. Quiet(r)
        BY <1>3, SMT DEF HInv, Engaged, Quiet, Admit, waking, Service!Grant
      <3> QED BY <1>1, <3>1, KeptSame DEF HInv, Alone
    <2>3. lease[s] \notin TokenAt
      BY DEF HInv, Kept, Admit, TokenAt
    <2>4. Engaged'
      BY <1>1, <1>3, SMT DEF HInv, Shape, Engaged, None, Alone, Service!Grant
    <2>5. Owned'
      BY <1>1, <1>3, <2>3 DEF HInv, Shape, Engaged, Owned, Alone, Admit, Service!Grant
    <2> QED BY <1>1, <2>1, <2>2, <2>4, <2>5 DEF HInv, Alone
  <1>4. CASE /\ Service!Enqueue /\ req' = [req EXCEPT ![s] = issued + 1]
             /\ ticket' = [ticket EXCEPT ![s] = "open"] /\ armed' = armed \cup {s}
             /\ Goto(s, "look") /\ UNCHANGED answer
    <2>1. /\ Kept(s)'
      BY <1>4 DEF HInv, Shape, Engaged, Kept, Waits, Reserves, Admit, Goto, svc, working, waking,
                  Service!Enqueue
    <2>2. ASSUME NEW r \in Subs \ {s} PROVE Kept(r)'
      <3>1. Quiet(r)
        BY <1>4, SMT DEF HInv, Engaged, Quiet, Admit, waking, Service!Enqueue
      <3> QED BY <1>1, <3>1, KeptSame DEF HInv, Alone
    <2>3. lease[s] \notin TokenAt
      BY DEF HInv, Kept, Admit, TokenAt
    <2>4. Engaged'
      BY <1>1, <1>4, SMT DEF HInv, Shape, Engaged, None, Alone, Service!Enqueue
    <2>5. Owned'
      BY <1>1, <1>4, <2>3 DEF HInv, Shape, Engaged, Owned, Alone, Admit, Service!Enqueue
    <2> QED BY <1>1, <2>1, <2>2, <2>4, <2>5 DEF HInv, Alone
  <1> QED BY <1>2, <1>3, <1>4 DEF Admit

LEMMA LookKeeps ==
  ASSUME HInv, NEW s \in Subs, Look(s)
  PROVE  HInv'
  <1>1. Alone(s)
    BY DEF HInv, Shape, Alone, Same, Look, Goto, Say, outside, acquiring, working, waking
  <1>2. Call(s)
    BY DEF Call, Tokens, Look
  <1>3. Kept(s)'
    BY DEF HInv, Shape, Kept, Waits, Reserves, Look, Goto, Say, outside, acquiring, working, waking, svc
  <1> QED BY <1>1, <1>2, <1>3, CallKeeps DEF Look, acquiring

LEMMA ClaimKeeps ==
  ASSUME HInv, NEW s \in Subs, Claim(s)
  PROVE  HInv'
  <1>1. Alone(s)
    BY DEF HInv, Shape, Alone, Same, Claim, Goto, Say, outside, working, waking
  <1>2. Call(s)
    BY DEF Call, Tokens, Claim
  <1>3. Kept(s)'
    BY SMT DEF HInv, Shape, Kept, Waits, Reserves, Engaged, Claim, Goto, Say, outside, working, waking, svc,
           Service!Active
  <1> QED BY <1>1, <1>2, <1>3, CallKeeps DEF Claim, acquiring

LEMMA PollKeeps ==
  ASSUME HInv, NEW s \in Subs, Poll(s)
  PROVE  HInv'
  <1>1. Alone(s)
    BY DEF HInv, Shape, Alone, Same, Poll, Goto, outside, acquiring, working, waking
  <1>2. Call(s)
    BY DEF Call, Tokens, Poll
  <1>3. Kept(s)'
    BY DEF HInv, Shape, Kept, Waits, Reserves, Poll, Goto, outside, acquiring, working, waking, svc
  <1> QED BY <1>1, <1>2, <1>3, CallKeeps DEF Poll, acquiring

LEMMA WakeKeeps ==
  ASSUME HInv, NEW s \in Subs, Wake(s)
  PROVE  HInv'
  <1>1. Alone(s)
    BY DEF HInv, Shape, Alone, Same, Wake, Goto, outside, acquiring, working
  <1>2. Call(s)
    BY DEF Call, Tokens, Wake
  <1>3. Kept(s)'
    BY DEF HInv, Shape, Kept, Waits, Reserves, Wake, Goto, outside, acquiring, working, svc
  <1> QED BY <1>1, <1>2, <1>3, CallKeeps DEF Wake, acquiring

LEMMA FinalizeKeeps ==
  ASSUME HInv, NEW s \in Subs, Finalize(s)
  PROVE  HInv'
  <1> DEFINE refused == rejection(s, s \in armed)
  <1>a. /\ pc[s] = "finalize" /\ UNCHANGED <<outside, acquiring, working, waking>>
        /\ IF refused = "none"
           THEN /\ Lease(s, "reserved") /\ Say(s, "none")
                /\ Goto(s, IF s \in armed THEN "guard" ELSE "dispatch")
                /\ UNCHANGED <<svc, pings>>
           ELSE /\ ReleaseById(s) /\ Lease(s, "gone") /\ Say(s, refused)
                /\ Goto(s, IF s \in armed THEN "guard" ELSE "hangup")
    BY DEF Finalize
  <1> HIDE DEF refused
  <1>1. Alone(s)
    BY <1>a DEF HInv, Shape, Alone, Same, Lease, Say, Goto, outside, acquiring, working, waking
  <1>2. Call(s)
    BY <1>a DEF HInv, Shape, Kept, Call, Tokens, TokenAt, Lease, ReleaseById, svc
  <1>3. Kept(s)'
    BY <1>a, SMT DEF HInv, Shape, Kept, Waits, Reserves, Lease, Say, Goto, ReleaseById, svc, acquiring,
                working, waking, Service!Return
  <1> QED BY <1>a, <1>1, <1>2, <1>3, CallKeeps DEF acquiring

LEMMA GuardKeeps ==
  ASSUME HInv, NEW s \in Subs, Guard(s)
  PROVE  HInv'
  <1>1. Alone(s)
    BY DEF HInv, Shape, Alone, Same, Guard, Goto, outside, working, waking
  <1>2. Call(s)
    BY DEF Call, Tokens, Guard
  <1>3. Kept(s)'
    BY DEF HInv, Shape, Kept, Waits, Reserves, Guard, Goto, svc, working, waking, Service!Active
  <1> QED BY <1>1, <1>2, <1>3, CallKeeps DEF Guard

\* The guard abandons an open ticket: whatever it stood for has then ended.
LEMMA UnguardKeeps ==
  ASSUME HInv, NEW s \in Subs, Unguard(s)
  PROVE  HInv'
  <1>1. Alone(s)
    BY DEF HInv, Shape, Alone, Same, Unguard, Goto, outside, working, waking
  <1>2. Call(s)
    BY DEF Call, Tokens, Unguard, Abandon, ReleaseById
  <1>3. /\ req[s] \in waiting' => req[s] \in waiting
        /\ req[s] \in held' => req[s] \in held
        /\ s \in armed /\ ticket[s] = "open" => req[s] \notin waiting' \cup held'
    BY DEF HInv, Engaged, Unguard, Abandon, ReleaseById, svc, Service!Return, Service!Withdraw
  <1>4. Kept(s)'
    BY <1>3 DEF HInv, Shape, Kept, Waits, Reserves, Unguard, Goto, working, waking
  <1> QED BY <1>1, <1>2, <1>4, CallKeeps DEF Unguard

LEMMA DispatchKeeps ==
  ASSUME HInv, NEW s \in Subs, Dispatch(s)
  PROVE  HInv'
  <1>1. CASE DropLease(s) /\ Say(s, "Deadline") /\ Goto(s, "hangup")
    <2>1. Alone(s)
      BY <1>1, DropLeaseCalls DEF HInv, Shape, Alone, Same, Dispatch, Say, Goto, outside,
                                  acquiring, working, waking
    <2>2. Kept(s)'
      BY <1>1, DropLeaseCalls DEF HInv, Shape, Kept, Waits, Reserves, Dispatch, Say, Goto,
                                  acquiring, working, waking
    <2> QED BY <1>1, <2>1, <2>2, DropLeaseCalls, CallKeeps DEF Dispatch, acquiring
  <1>2. CASE Goto(s, "advance") /\ UNCHANGED <<svc, pings, lease, answer>>
    <2>1. Alone(s)
      BY <1>2 DEF HInv, Shape, Alone, Same, Dispatch, Goto, outside, acquiring, working, waking
    <2>2. Call(s)
      BY <1>2 DEF Call, Tokens
    <2>3. Kept(s)'
      BY <1>2 DEF HInv, Shape, Kept, Waits, Reserves, Dispatch, Goto, svc, acquiring, working,
                  waking
    <2> QED BY <2>1, <2>2, <2>3, CallKeeps DEF Dispatch, acquiring
  <1> QED BY <1>1, <1>2 DEF Dispatch

LEMMA AdvanceKeeps ==
  ASSUME HInv, NEW s \in Subs, Advance(s)
  PROVE  HInv'
  <1>1. Alone(s)
    BY DEF HInv, Shape, Alone, Same, Advance, Lease, Say, Goto, outside, acquiring, waking
  <1>2. Call(s)
    BY DEF HInv, Shape, Kept, Call, Tokens, TokenAt, Advance, Lease
  <1>3. Kept(s)'
    BY SMT DEF HInv, Shape, Kept, Waits, Reserves, Advance, Lease, Say, Goto, svc, acquiring, waking,
           Service!Lease
  <1> QED BY <1>1, <1>2, <1>3, CallKeeps DEF Advance, acquiring

LEMMA SpawnKeeps ==
  ASSUME HInv, NEW s \in Subs, Spawn(s)
  PROVE  HInv'
  <1>1. CASE /\ Work(s, "queued") /\ Lease(s, "worker") /\ UNCHANGED <<svc, pings>>
             /\ \/ Goto(s, "await") /\ UNCHANGED answer
                \/ Goto(s, "hangup") /\ Say(s, "Panicked")
    <2>1. Alone(s)
      BY <1>1 DEF HInv, Shape, Alone, Same, Spawn, Work, Lease, Goto, Say, outside, acquiring,
                  waking
    <2>2. Call(s)
      BY <1>1 DEF HInv, Shape, Kept, Call, Tokens, TokenAt, Spawn, Lease
    <2>3. Kept(s)'
      BY <1>1, SMT DEF HInv, Shape, Kept, Waits, Reserves, Spawn, Work, Lease, Goto, Say, svc,
                  acquiring, waking
    <2> QED BY <2>1, <2>2, <2>3, CallKeeps DEF Spawn, acquiring
  <1>2. CASE \E why : NotSpawned(s, why)
    <2> PICK why : NotSpawned(s, why) BY <1>2
    <2>1. Alone(s)
      BY DropLeaseCalls DEF HInv, Shape, Alone, Same, Spawn, NotSpawned, Goto, Say, outside,
                            acquiring, waking
    <2>2. Kept(s)'
      BY DropLeaseCalls DEF HInv, Shape, Kept, Waits, Reserves, Spawn, NotSpawned, Goto, Say,
                            acquiring, waking
    <2> QED BY <2>1, <2>2, DropLeaseCalls, CallKeeps DEF Spawn, NotSpawned, acquiring
  <1> QED
    BY <1>1, <1>2 DEF Spawn, run_blocking_on_pool, run_blocking_on_dedicated_thread, run_cpu,
                      run_async_with_requested_stack, HandOver

LEMMA RunCancellableKeeps ==
  ASSUME HInv, NEW s \in Subs, RunCancellable(s)
  PROVE  HInv'
  <1>1. Alone(s)
    BY DEF HInv, Shape, Alone, Same, RunCancellable, Say, Goto, outside, acquiring, waking
  <1>2. Call(s)
    BY DEF Call, Tokens, RunCancellable
  <1>3. Kept(s)'
    BY DEF HInv, Shape, Kept, Waits, Reserves, RunCancellable, Say, Goto, outside, acquiring,
           waking, svc
  <1> QED BY <1>1, <1>2, <1>3, CallKeeps DEF RunCancellable, acquiring

LEMMA ReleaseKeeps ==
  ASSUME HInv, NEW s \in Subs, Release(s)
  PROVE  HInv'
  <1>1. Alone(s)
    BY DropLeaseCalls DEF HInv, Shape, Alone, Same, Release, Goto, outside, acquiring, working,
           waking
  <1>2. Call(s)
    BY DropLeaseCalls DEF Call, Tokens, Release
  <1>3. Kept(s)'
    BY DropLeaseCalls DEF HInv, Shape, Kept, Waits, Reserves, Release, Goto, outside, acquiring,
           working, waking, svc
  <1> QED BY <1>1, <1>2, <1>3, CallKeeps DEF Release, acquiring

LEMMA RespondKeeps ==
  ASSUME HInv, NEW s \in Subs, Respond(s)
  PROVE  HInv'
  <1>1. Alone(s)
    BY DEF HInv, Shape, Alone, Same, Respond, Answer, Goto, Say, outside, acquiring, working,
           waking
  <1>2. Call(s)
    BY DEF Call, Tokens, Respond
  <1>3. Kept(s)'
    BY DEF HInv, Shape, Kept, Waits, Reserves, Respond, Answer, Goto, Say, outside, acquiring,
           working, waking, svc
  <1> QED BY <1>1, <1>2, <1>3, CallKeeps DEF Respond, acquiring

\* The lease comes out of the channel with the outcome.
LEMMA ReceiveKeeps ==
  ASSUME HInv, NEW s \in Subs, Receive(s)
  PROVE  HInv'
  <1>1. Alone(s)
    BY DEF HInv, Shape, Alone, Same, Receive, Lease, Say, Goto, outside, acquiring, waking
  <1>2. Call(s)
    BY DEF Call, Tokens, Receive, Lease, HInv, Shape, Kept, TokenAt
  <1>3. Kept(s)'
    BY DEF HInv, Shape, Kept, Waits, Reserves, Receive, Lease, Say, Goto, outside, acquiring,
           waking, svc
  <1> QED BY <1>1, <1>2, <1>3, CallKeeps DEF Receive, acquiring

LEMMA StopWaitingKeeps ==
  ASSUME HInv, NEW s \in Subs, StopWaiting(s)
  PROVE  HInv'
  <1>1. Alone(s)
    BY DEF HInv, Shape, Alone, Same, StopWaiting, Say, Goto, outside, acquiring, working, waking
  <1>2. Call(s)
    BY DEF Call, Tokens, StopWaiting
  <1>3. Kept(s)'
    BY DEF HInv, Shape, Kept, Waits, Reserves, StopWaiting, Say, Goto, outside, acquiring,
           working, waking, svc
  <1> QED BY <1>1, <1>2, <1>3, CallKeeps DEF StopWaiting, acquiring

\* A receiver that goes away takes an outcome that was sent, and its lease, along.
LEMMA HangupKeeps ==
  ASSUME HInv, NEW s \in Subs, Hangup(s)
  PROVE  HInv'
  <1>1. CASE lease[s] = "channel" /\ DropLease(s) /\ UNCHANGED pc
    <2>1. Alone(s)
      BY <1>1, DropLeaseCalls DEF HInv, Shape, Alone, Same, Hangup, outside, acquiring, waking
    <2>2. Kept(s)'
      BY <1>1, DropLeaseCalls DEF HInv, Shape, Kept, Waits, Reserves, Hangup, acquiring, waking
    <2> QED BY <1>1, <2>1, <2>2, DropLeaseCalls, CallKeeps DEF Hangup, acquiring
  <1>2. CASE lease[s] # "channel" /\ Goto(s, "answered") /\ UNCHANGED <<svc, pings, lease>>
    <2>1. Alone(s)
      BY <1>2 DEF HInv, Shape, Alone, Same, Hangup, Goto, outside, acquiring, waking
    <2>2. Call(s)
      BY <1>2 DEF Call, Tokens
    <2>3. Kept(s)'
      BY <1>2 DEF HInv, Shape, Kept, Waits, Reserves, Hangup, Goto, svc, acquiring, waking
    <2> QED BY <2>1, <2>2, <2>3, CallKeeps DEF Hangup, acquiring
  <1> QED BY <1>1, <1>2 DEF Hangup

LEMMA DropFutureKeeps ==
  ASSUME HInv, NEW s \in Subs, DropFuture(s)
  PROVE  HInv'
  <1>1. CASE pc[s] = "running" /\ DropLease(s) /\ Goto(s, "hangup")
    <2>1. Alone(s)
      BY <1>1, DropLeaseCalls DEF HInv, Shape, Alone, Same, DropFuture, Goto, Say, outside,
                                  acquiring, working, waking
    <2>2. Kept(s)'
      BY <1>1, DropLeaseCalls DEF HInv, Shape, Kept, Waits, Reserves, DropFuture, Goto, Say,
                                  acquiring, working, waking
    <2> QED BY <1>1, <2>1, <2>2, DropLeaseCalls, CallKeeps DEF DropFuture, acquiring
  <1>2. CASE /\ \/ pc[s] = "park" /\ Goto(s, "unguard")
                \/ pc[s] = "await" /\ Goto(s, "hangup")
             /\ UNCHANGED <<svc, pings, lease>>
    <2>1. Alone(s)
      BY <1>2 DEF HInv, Shape, Alone, Same, DropFuture, Goto, Say, outside, acquiring, working,
                  waking
    <2>2. Call(s)
      BY <1>2 DEF Call, Tokens
    <2>3. Kept(s)'
      BY <1>2 DEF HInv, Shape, Kept, Waits, Reserves, DropFuture, Goto, Say, svc, acquiring,
                  working, waking
    <2> QED BY <2>1, <2>2, <2>3, CallKeeps DEF DropFuture, acquiring
  <1> QED BY <1>1, <1>2 DEF DropFuture

-----------------------------------------------------------------------------
\* One lemma per step of the worker

LEMMA StartKeeps ==
  ASSUME HInv, NEW s \in Subs, Start(s)
  PROVE  HInv'
  <1>1. Alone(s)
    BY DEF HInv, Shape, Alone, Same, Start, Work, outside, acquiring, waking
  <1>2. Call(s)
    BY DEF Call, Tokens, Start
  <1>3. Kept(s)'
    BY DEF HInv, Shape, Kept, Waits, Reserves, Start, Work, outside, acquiring, waking, svc
  <1> QED BY <1>1, <1>2, <1>3, CallKeeps DEF Start, acquiring

LEMMA FinishKeeps ==
  ASSUME HInv, NEW s \in Subs, Finish(s)
  PROVE  HInv'
  <1>1. Alone(s)
    BY DEF HInv, Shape, Alone, Same, Finish, Work, outside, acquiring, waking
  <1>2. Call(s)
    BY DEF Call, Tokens, Finish
  <1>3. Kept(s)'
    BY DEF HInv, Shape, Kept, Waits, Reserves, Finish, Work, outside, acquiring, waking, svc
  <1> QED BY <1>1, <1>2, <1>3, CallKeeps DEF Finish, acquiring

\* The outcome takes the lease into the channel, or the worker drops it.
LEMMA SendKeeps ==
  ASSUME HInv, NEW s \in Subs, Send(s)
  PROVE  HInv'
  <1>1. CASE /\ chan[s] = "empty" /\ chan' = [chan EXCEPT ![s] = "outcome"]
             /\ Lease(s, "channel") /\ UNCHANGED <<svc, pings>>
    <2>1. Alone(s)
      BY <1>1 DEF HInv, Shape, Alone, Same, Send, Work, Lease, outside, acquiring, waking
    <2>2. Call(s)
      BY <1>1 DEF HInv, Shape, Kept, Call, Tokens, TokenAt, Send, Lease
    <2>3. Kept(s)'
      BY <1>1 DEF HInv, Shape, Kept, Waits, Reserves, Send, Work, Lease, svc, acquiring, waking
    <2> QED BY <2>1, <2>2, <2>3, CallKeeps DEF Send, acquiring
  <1>2. CASE chan[s] # "empty" /\ DropLease(s) /\ UNCHANGED chan
    <2>1. Alone(s)
      BY <1>2, DropLeaseCalls DEF HInv, Shape, Alone, Same, Send, Work, outside, acquiring, waking
    <2>2. Kept(s)'
      BY <1>2, DropLeaseCalls DEF HInv, Shape, Kept, Waits, Reserves, Send, Work, acquiring, waking
    <2> QED BY <1>2, <2>1, <2>2, DropLeaseCalls, CallKeeps DEF Send, acquiring
  <1> QED BY <1>1, <1>2 DEF Send

LEMMA DiscardKeeps ==
  ASSUME HInv, NEW s \in Subs, Discard(s)
  PROVE  HInv'
  <1>1. Alone(s)
    BY DropLeaseCalls DEF HInv, Shape, Alone, Same, Discard, Work, outside, acquiring, waking
  <1>2. Call(s)
    BY DropLeaseCalls DEF Call, Tokens, Discard
  <1>3. Kept(s)'
    BY DropLeaseCalls DEF HInv, Shape, Kept, Waits, Reserves, Discard, Work, outside, acquiring,
           waking, svc
  <1> QED BY <1>1, <1>2, <1>3, CallKeeps DEF Discard, acquiring

LEMMA DiscardedKeeps ==
  ASSUME HInv, NEW s \in Subs, Discarded(s)
  PROVE  HInv'
  <1>1. Alone(s)
    BY DEF HInv, Shape, Alone, Same, Discarded, Work, outside, acquiring, waking
  <1>2. Call(s)
    BY DEF Call, Tokens, Discarded
  <1>3. Kept(s)'
    BY DEF HInv, Shape, Kept, Waits, Reserves, Discarded, Work, outside, acquiring, waking, svc
  <1> QED BY <1>1, <1>2, <1>3, CallKeeps DEF Discarded, acquiring

LEMMA BootKeeps ==
  ASSUME HInv, NEW s \in Subs, Boot(s)
  PROVE  HInv'
  <1>1. Alone(s)
    BY DEF HInv, Shape, Alone, Same, Boot, Reply, Work, outside, acquiring, waking
  <1>2. Call(s)
    BY DEF Call, Tokens, Boot
  <1>3. Kept(s)'
    BY SMT DEF HInv, Shape, Kept, Waits, Reserves, Boot, Reply, Work, outside, acquiring, waking,
           svc
  <1> QED BY <1>1, <1>2, <1>3, CallKeeps DEF Boot, acquiring

LEMMA RunRuntimeKeeps ==
  ASSUME HInv, NEW s \in Subs, RunRuntime(s)
  PROVE  HInv'
  <1>1. Alone(s)
    BY DEF HInv, Shape, Alone, Same, RunRuntime, Reply, Keep, Work, outside, acquiring, waking
  <1>2. Call(s)
    BY DEF Call, Tokens, RunRuntime
  <1>3. Kept(s)'
    BY DEF HInv, Shape, Kept, Waits, Reserves, RunRuntime, Reply, Keep, Work, outside, acquiring,
           waking, svc
  <1> QED BY <1>1, <1>2, <1>3, CallKeeps DEF RunRuntime, acquiring

LEMMA TeardownKeeps ==
  ASSUME HInv, NEW s \in Subs, Teardown(s)
  PROVE  HInv'
  <1>1. CASE Work(s, "send") /\ UNCHANGED <<svc, pings, lease>>
    <2>1. Alone(s)
      BY <1>1 DEF HInv, Shape, Alone, Same, Teardown, Work, outside, acquiring, waking
    <2>2. Call(s)
      BY <1>1 DEF Call, Tokens
    <2>3. Kept(s)'
      BY <1>1 DEF HInv, Shape, Kept, Waits, Reserves, Teardown, Work, svc, acquiring, waking
    <2> QED BY <2>1, <2>2, <2>3, CallKeeps DEF Teardown, acquiring
  <1>2. CASE Work(s, "done") /\ DropLease(s)
    <2>1. Alone(s)
      BY <1>2, DropLeaseCalls DEF HInv, Shape, Alone, Same, Teardown, Work, outside, acquiring,
                                  waking
    <2>2. Kept(s)'
      BY <1>2, DropLeaseCalls DEF HInv, Shape, Kept, Waits, Reserves, Teardown, Work, acquiring,
                                  waking
    <2> QED BY <1>2, <2>1, <2>2, DropLeaseCalls, CallKeeps DEF Teardown, acquiring
  <1> QED BY <1>1, <1>2 DEF Teardown

-----------------------------------------------------------------------------
\* The engine, the embedder and the clock

\* When no submission moves, the invariant rests on what happened to the requests.
LEMMA EngineKeeps ==
  ASSUME HInv, UNCHANGED host, notified \subseteq notified', \A r \in Subs : Quiet(r),
         Engaged', Owned'
  PROVE  HInv'
  <1>1. Shape' /\ \A r \in Subs : Same(r)
    BY DEF HInv, Shape, Same, host, acquiring, working
  <1>2. \A r \in Subs : Kept(r)'
    BY <1>1, KeptSame DEF HInv
  <1> QED BY <1>1, <1>2 DEF HInv

LEMMA IdleKeeps ==
  ASSUME HInv, UNCHANGED <<svc, host, foreign, waking>>
  PROVE  HInv'
  <1>1. Engaged' /\ Owned'
    BY DEF HInv, Engaged, Owned, svc, host, acquiring
  <1> QED BY <1>1, EngineKeeps DEF Quiet, svc, waking

LEMMA PromoteOneKeeps ==
  ASSUME HInv, NEW i \in waiting, PromoteOne(i)
  PROVE  HInv'
  <1>1. Engaged' /\ Owned'
    BY SMT DEF HInv, Engaged, Owned, PromoteOne, Service!Promote, host, acquiring, outside
  <1>2. \A r \in Subs : Quiet(r)
    BY DEF PromoteOne, Quiet, Service!Promote
  <1> QED BY <1>1, <1>2, EngineKeeps DEF PromoteOne

LEMMA NotifyKeeps ==
  ASSUME HInv, NEW i \in owed, Notify(i)
  PROVE  HInv'
  <1>1. Engaged' /\ Owned'
    BY DEF HInv, Engaged, Owned, Notify, svc, host, acquiring, outside
  <1>2. \A r \in Subs : Quiet(r)
    BY DEF Notify, Quiet, svc
  <1> QED BY <1>1, <1>2, EngineKeeps DEF Notify

LEMMA ReclaimKeeps ==
  ASSUME HInv, NEW i \in held, Reclaim(i)
  PROVE  HInv'
  <1>1. Engaged' /\ Owned'
    BY DEF HInv, Engaged, Owned, Reclaim, Service!Return, host, acquiring, outside
  <1>2. \A r \in Subs : Quiet(r)
    BY DEF Reclaim, Quiet, Service!Return
  <1> QED BY <1>1, <1>2, EngineKeeps DEF Reclaim

LEMMA TerminateKeeps ==
  ASSUME HInv, NEW S \in SUBSET waiting, Terminate(S)
  PROVE  HInv'
  <1>1. Engaged' /\ Owned'
    BY DEF HInv, Engaged, Owned, Terminate, Service!Withdraw, host, acquiring, outside
  <1>2. \A r \in Subs : Quiet(r)
    BY DEF Terminate, Quiet, Service!Withdraw
  <1> QED BY <1>1, <1>2, EngineKeeps DEF Terminate

LEMMA OccupyKeeps ==
  ASSUME HInv, Occupy
  PROVE  HInv'
  <1>1. Engaged' /\ Owned'
    BY SMT DEF HInv, Engaged, Owned, Occupy, Service!Grant, host, acquiring, outside
  <1>2. \A r \in Subs : Quiet(r)
    BY SMT DEF HInv, Engaged, Occupy, Quiet, Service!Grant, waking
  <1> QED BY <1>1, <1>2, EngineKeeps DEF Occupy, waking

LEMMA IntrudeKeeps ==
  ASSUME HInv, NEW i \in held, Intrude(i)
  PROVE  HInv'
  <1>1. Engaged' /\ Owned'
    BY SMT DEF HInv, Engaged, Owned, Intrude, Service!Lease, host, acquiring
  <1>2. \A r \in Subs : Quiet(r)
    BY DEF Intrude, Quiet, Service!Lease, waking
  <1> QED BY <1>1, <1>2, EngineKeeps DEF Intrude, waking

LEMMA WithdrawnKeeps ==
  ASSUME HInv, NEW i \in foreign, Withdrawn(i)
  PROVE  HInv'
  <1>1. Engaged' /\ Owned'
    BY SMT DEF HInv, Engaged, Owned, Withdrawn, Service!Spend, host, acquiring
  <1>2. \A r \in Subs : Quiet(r)
    BY DEF Withdrawn, Quiet, Service!Spend, waking
  <1> QED BY <1>1, <1>2, EngineKeeps DEF Withdrawn, waking

-----------------------------------------------------------------------------
\* Invariance and what follows from it

LEMMA InitHolds == Init => HInv
  BY SMT DEF Init, Service!Init, HInv, Shape, Engaged, Owned, Kept, Waits, Reserves, None, TokenAt

LEMMA NextKeeps == HInv /\ [Next]_vars => HInv'
  <1> SUFFICES ASSUME HInv, [Next]_vars PROVE HInv'
    BY SMT
  <1>1. ASSUME NEW s \in Subs, Caller(s) PROVE HInv'
    BY <1>1, SubmitKeeps, AdmitKeeps, LookKeeps, ClaimKeeps, PollKeeps, WakeKeeps, FinalizeKeeps,
       GuardKeeps, UnguardKeeps, DispatchKeeps, AdvanceKeeps, SpawnKeeps, ReleaseKeeps,
       RespondKeeps, ReceiveKeeps, StopWaitingKeeps, HangupKeeps DEF Caller
  <1>2. ASSUME NEW s \in Subs, Worker(s) PROVE HInv'
    BY <1>2, StartKeeps, SendKeeps, DiscardedKeeps, BootKeeps DEF Worker
  <1>3. ASSUME NEW s \in Subs, WorkEnds(s) PROVE HInv'
    BY <1>3, RunCancellableKeeps, FinishKeeps, RunRuntimeKeeps, TeardownKeeps DEF WorkEnds
  <1>4. CASE Engine
    BY <1>4, PromoteOneKeeps, NotifyKeeps DEF Engine
  <1>5. CASE Environment
    <2>1. CASE Tick
      BY <2>1, IdleKeeps DEF Tick
    <2>2. ASSUME NEW s \in Subs, Fire(s) PROVE HInv'
      BY <2>2, IdleKeeps DEF Fire
    <2>3. CASE Occupy
      BY <2>3, OccupyKeeps
    <2>4. ASSUME NEW s \in Subs, DropFuture(s) \/ Discard(s) PROVE HInv'
      BY <2>4, DropFutureKeeps, DiscardKeeps
    <2>5. ASSUME NEW i \in held, Reclaim(i) \/ Intrude(i) PROVE HInv'
      BY <2>5, ReclaimKeeps, IntrudeKeeps
    <2>6. ASSUME NEW i \in foreign, Withdrawn(i) PROVE HInv'
      BY <2>6, WithdrawnKeeps
    <2>7. ASSUME NEW S \in SUBSET waiting, Terminate(S) PROVE HInv'
      BY <2>7, TerminateKeeps
    <2> QED BY <1>5, <2>1, <2>2, <2>3, <2>4, <2>5, <2>6, <2>7 DEF Environment
  <1>6. ASSUME NEW i \in pings, Settle(i) PROVE HInv'
    BY <1>6, IdleKeeps DEF Settle, outside
  <1>7. CASE UNCHANGED vars
    BY <1>7, IdleKeeps DEF vars, host, outside
  <1> QED BY <1>1, <1>2, <1>3, <1>4, <1>5, <1>6, <1>7 DEF Next

LEMMA HostInvariance == Spec => []HInv
  BY InitHolds, NextKeeps, PTL DEF Spec

\* A lease token is with the caller, the worker, the channel or the embedder, with
\* exactly one of them and in a state that still spends it, whatever races: every
\* move of the lease through runtime.rs, synchronous.rs and detached.rs keeps it.
THEOREM OneOwner == Spec => []LeaseHasOneOwner
  <1>1. HInv => LeaseHasOneOwner
    BY SMT DEF HInv, Engaged, Owned, Kept, LeaseHasOneOwner, TokenAt
  <1> QED BY <1>1, HostInvariance, PTL

\* No user work and no runtime teardown outside the engine's books: what runs has
\* the submission's own live lease.
THEOREM ChargedWork == Spec => []WorkCharged
  <1>1. HInv => WorkCharged
    BY DEF HInv, Engaged, Owned, Kept, WorkCharged, TokenAt
  <1> QED BY <1>1, HostInvariance, PTL

\* However a submission ends, nothing is left queued or held in its name, and only
\* its own worker can still have its lease.
THEOREM NoCapacityLost == Spec => []NothingStranded
  <1>1. ASSUME HInv, NEW s \in Subs, pc[s] = "answered", req[s] \in Service!Active
        PROVE  lease[s] = "worker" \/ req[s] \in foreign
    <2>1. req[s] \in leased /\ req[s] # None
      BY <1>1, SMT DEF HInv, Engaged, Kept, Waits, Reserves, Service!Active, None
    <2>2. CASE \E r \in Subs : lease[r] \in TokenAt /\ req[r] = req[s]
      BY <1>1, <2>1, <2>2 DEF HInv, Engaged, Kept, TokenAt
    <2> QED BY <1>1, <2>1, <2>2 DEF HInv, Owned
  <1>2. HInv => NothingStranded
    BY <1>1 DEF NothingStranded
  <1> QED BY <1>2, HostInvariance, PTL

\* A caller never sleeps through its promotion: between the look at the ticket
\* and the wait, and between the waker and the next look, no wake-up is lost.
THEOREM NoSleeperMissed == Spec => []ParkedIsWoken
  <1>1. HInv => ParkedIsWoken
    BY DEF HInv, Kept, ParkedIsWoken
  <1> QED BY <1>1, HostInvariance, PTL

-----------------------------------------------------------------------------
\* Types

TypeEngine ==
  /\ issued \in Nat /\ Service!Active \cup tokens \subseteq 1..issued
  /\ req \in [Subs -> 0..issued]
  /\ owed \cup pings \cup foreign \subseteq 1..issued

TypeCaller ==
  /\ plan \in Plans /\ now \in 0..MaxTime /\ until \in [Subs -> 0..Never]
  /\ pc \in [Subs -> CallerPcs] /\ answer \in [Subs -> Answers]
  /\ ticket \in [Subs -> {"none", "open", "taken"}] /\ lease \in [Subs -> LeaseStates]
  /\ armed \cup notified \cup fired \subseteq Subs

TypeWorker ==
  /\ work \in [Subs -> WorkerPcs] /\ chan \in [Subs -> ChannelStates]
  /\ outcome \in [Subs -> Answers]
  /\ started \in [Subs -> 0..Never] /\ completed \in [Subs -> 0..Never]

Typed == TypeEngine /\ TypeCaller /\ TypeWorker

LEMMA Bounds == MaxTime \in Nat /\ Never = MaxTime + 1
  BY HostAssumption DEF Never

LEMMA LesserOf ==
  ASSUME NEW a \in Int, NEW b \in Int
  PROVE  Min({a, b}) \in {a, b} /\ Min({a, b}) <= a /\ Min({a, b}) <= b
  <1>1. \E x \in {a, b} : \A y \in {a, b} : x <= y
    BY SMT
  <1> QED BY <1>1 DEF Min

LEMMA SameTyped ==
  ASSUME TypeEngine, UNCHANGED <<svc, pings, req, owed, foreign>>
  PROVE  TypeEngine'
  BY DEF TypeEngine, svc, Service!Active

LEMMA ReleaseByIdTyped ==
  ASSUME TypeEngine, NEW s \in Subs, ReleaseById(s), UNCHANGED <<req, owed, foreign>>
  PROVE  TypeEngine'
  BY DEF TypeEngine, ReleaseById, svc, Service!Active, Service!Return

LEMMA DropLeaseTyped ==
  ASSUME TypeEngine, NEW s \in Subs, DropLease(s), UNCHANGED <<req, owed, foreign>>
  PROVE  TypeEngine'
  <1>1. CASE ReleaseByToken(s)
    BY <1>1 DEF TypeEngine, ReleaseByToken, svc, Service!Active, Service!Spend
  <1> QED BY <1>1, ReleaseByIdTyped, SameTyped DEF DropLease

LEMMA AbandonTyped ==
  ASSUME TypeEngine, NEW s \in Subs, Abandon(s), UNCHANGED <<req, owed, foreign>>
  PROVE  TypeEngine'
  <1>1. CASE Service!Withdraw({req[s]}) /\ pings' = pings \cup {req[s]} /\ req[s] \in waiting
    BY <1>1 DEF TypeEngine, Service!Active, Service!Withdraw
  <1> QED BY <1>1, ReleaseByIdTyped, SameTyped DEF Abandon

LEMMA Rejections ==
  ASSUME NEW s, NEW queued
  PROVE  rejection(s, queued) \in {"none", "CancelledBefore", "Deadline", "TimedOut"}
  BY DEF rejection

LEMMA SubmitTyped ==
  ASSUME Typed, NEW s \in Subs, Submit(s)
  PROVE  Typed'
  <1>1. TypeEngine'
    BY SameTyped DEF Typed, Submit, outside, waking
  <1>2. acquire_until(s) \in 0..Never
    <2>1. plan[s].acquire \in Nat
      BY HostAssumption, Bounds, SMT DEF Typed, TypeCaller, PlanSet
    <2> QED BY <2>1, Bounds, SMT DEF Typed, TypeCaller, acquire_until, after, Never
  <1>a. \/ \E v \in {"CancelledBefore", "Deadline", "TimedOut", "Unavailable", "OutOfRange"} :
             Answer(s, v)
        \/ Goto(s, "admit") /\ UNCHANGED answer
    BY DEF Submit, rejection
  <1>b. /\ UNCHANGED <<outside, ticket, armed, lease, waking>>
        /\ until' = [until EXCEPT ![s] = acquire_until(s)]
    BY DEF Submit
  <1>3. TypeCaller'
    BY <1>2, <1>a, <1>b, Bounds, SMT DEF Typed, TypeCaller, CallerPcs, Answers, Answer, Goto, Say,
                                    outside, waking
  <1>4. TypeWorker'
    BY DEF Typed, TypeWorker, Submit, working
  <1> QED BY <1>1, <1>3, <1>4 DEF Typed

LEMMA AdmitTyped ==
  ASSUME Typed, NEW s \in Subs, Admit(s)
  PROVE  Typed'
  <1>1. TypeEngine'
    <2> req \in [Subs -> 0..issued] /\ issued \in Nat /\ UNCHANGED <<owed, pings, foreign>>
      BY DEF Typed, TypeEngine, Admit, outside, waking
    <2>1. CASE UNCHANGED <<svc, req>>
      BY <2>1, SameTyped DEF Typed
    <2>2. CASE Service!Grant /\ req' = [req EXCEPT ![s] = issued + 1]
      BY <2>2, SMT DEF Typed, TypeEngine, Service!Active, Service!Grant
    <2>3. CASE Service!Enqueue /\ req' = [req EXCEPT ![s] = issued + 1]
      BY <2>3, SMT DEF Typed, TypeEngine, Service!Active, Service!Enqueue
    <2> QED BY <2>1, <2>2, <2>3 DEF Admit
  <1>a. \/ /\ \E v \in {"CancelledBefore", "Deadline", "TimedOut", "Rejected"} : Answer(s, v)
           /\ UNCHANGED <<ticket, armed>>
        \/ Goto(s, "finalize") /\ UNCHANGED <<answer, ticket, armed>>
        \/ /\ Goto(s, "look") /\ UNCHANGED answer
           /\ ticket' = [ticket EXCEPT ![s] = "open"] /\ armed' = armed \cup {s}
    BY DEF Admit, rejection
  <1>b. UNCHANGED <<outside, until, lease, waking>>
    BY DEF Admit
  <1>3. TypeCaller'
    BY <1>a, <1>b, SMT DEF Typed, TypeCaller, CallerPcs, Answers, Answer, Goto, Say, outside, waking
  <1>4. TypeWorker'
    BY DEF Typed, TypeWorker, Admit, working
  <1> QED BY <1>1, <1>3, <1>4 DEF Typed

LEMMA LookTyped ==
  ASSUME Typed, NEW s \in Subs, Look(s)
  PROVE  Typed'
  <1>1. TypeEngine'
    BY SameTyped DEF Typed, Look, outside, acquiring, waking
  <1>3. TypeCaller'
    BY Rejections DEF Typed, TypeCaller, CallerPcs, Answers, Look, Goto, Say, outside,
           acquiring, waking
  <1>4. TypeWorker'
    BY DEF Typed, TypeWorker, Look, working
  <1> QED BY <1>1, <1>3, <1>4 DEF Typed

LEMMA ClaimTyped ==
  ASSUME Typed, NEW s \in Subs, Claim(s)
  PROVE  Typed'
  <1>1. TypeEngine'
    BY SameTyped DEF Typed, Claim, outside, waking
  <1>3. TypeCaller'
    BY SMT DEF Typed, TypeCaller, CallerPcs, Answers, Claim, Goto, Say, outside, waking
  <1>4. TypeWorker'
    BY DEF Typed, TypeWorker, Claim, working
  <1> QED BY <1>1, <1>3, <1>4 DEF Typed

LEMMA PollTyped ==
  ASSUME Typed, NEW s \in Subs, Poll(s)
  PROVE  Typed'
  <1>1. TypeEngine'
    BY SameTyped DEF Typed, Poll, outside, acquiring, waking
  <1>3. TypeCaller'
    BY DEF Typed, TypeCaller, CallerPcs, Poll, Goto, outside, acquiring, waking
  <1>4. TypeWorker'
    BY DEF Typed, TypeWorker, Poll, working
  <1> QED BY <1>1, <1>3, <1>4 DEF Typed

LEMMA WakeTyped ==
  ASSUME Typed, NEW s \in Subs, Wake(s)
  PROVE  Typed'
  <1>1. TypeEngine'
    BY SameTyped DEF Typed, Wake, outside, acquiring
  <1>3. TypeCaller'
    BY DEF Typed, TypeCaller, CallerPcs, Wake, Goto, outside, acquiring
  <1>4. TypeWorker'
    BY DEF Typed, TypeWorker, Wake, working
  <1> QED BY <1>1, <1>3, <1>4 DEF Typed

LEMMA FinalizeTyped ==
  ASSUME Typed, NEW s \in Subs, Finalize(s)
  PROVE  Typed'
  <1>1. TypeEngine'
    BY SameTyped, ReleaseByIdTyped DEF Typed, Finalize, outside, acquiring, waking
  <1>3. TypeCaller'
    BY Rejections, SMT DEF Typed, TypeCaller, CallerPcs, Answers, LeaseStates, Finalize, Goto, Say,
           Lease, outside, acquiring, waking
  <1>4. TypeWorker'
    BY DEF Typed, TypeWorker, Finalize, working
  <1> QED BY <1>1, <1>3, <1>4 DEF Typed

LEMMA GuardTyped ==
  ASSUME Typed, NEW s \in Subs, Guard(s)
  PROVE  Typed'
  <1>1. TypeEngine'
    BY SameTyped DEF Typed, Guard, outside, waking
  <1>3. TypeCaller'
    BY DEF Typed, TypeCaller, CallerPcs, Guard, Goto, outside, waking
  <1>4. TypeWorker'
    BY DEF Typed, TypeWorker, Guard, working
  <1> QED BY <1>1, <1>3, <1>4 DEF Typed

LEMMA UnguardTyped ==
  ASSUME Typed, NEW s \in Subs, Unguard(s)
  PROVE  Typed'
  <1>1. TypeEngine'
    BY SameTyped, AbandonTyped DEF Typed, Unguard, outside, waking
  <1>3. TypeCaller'
    BY DEF Typed, TypeCaller, CallerPcs, Unguard, Goto, outside, waking
  <1>4. TypeWorker'
    BY DEF Typed, TypeWorker, Unguard, working
  <1> QED BY <1>1, <1>3, <1>4 DEF Typed

LEMMA DispatchTyped ==
  ASSUME Typed, NEW s \in Subs, Dispatch(s)
  PROVE  Typed'
  <1>1. TypeEngine'
    BY SameTyped, DropLeaseTyped DEF Typed, Dispatch, outside, acquiring, waking
  <1>3. TypeCaller'
    BY DEF Typed, TypeCaller, CallerPcs, Answers, LeaseStates, Dispatch, Goto, Say, DropLease,
           Lease, outside, acquiring, waking
  <1>4. TypeWorker'
    BY DEF Typed, TypeWorker, Dispatch, working
  <1> QED BY <1>1, <1>3, <1>4 DEF Typed

LEMMA AdvanceTyped ==
  ASSUME Typed, NEW s \in Subs, Advance(s)
  PROVE  Typed'
  <1>1. TypeEngine'
    BY DEF Typed, TypeEngine, Advance, outside, acquiring, waking, svc, Service!Active,
           Service!Lease
  <1>3. TypeCaller'
    BY SMT DEF Typed, TypeCaller, CallerPcs, Answers, LeaseStates, Advance, Goto, Say, Lease,
           outside, acquiring, waking
  <1>4. TypeWorker'
    BY Bounds, SMT DEF Typed, TypeWorker, TypeCaller, Advance
  <1> QED BY <1>1, <1>3, <1>4 DEF Typed

LEMMA SpawnTyped ==
  ASSUME Typed, NEW s \in Subs, Spawn(s)
  PROVE  Typed'
  <1>1. TypeEngine'
    BY SameTyped, DropLeaseTyped DEF Typed, Spawn, HandOver, NotSpawned, run_blocking_on_pool,
           run_blocking_on_dedicated_thread, run_cpu, run_async_with_requested_stack, outside,
           acquiring, waking
  <1>3. TypeCaller'
    BY SMT DEF Typed, TypeCaller, CallerPcs, Answers, LeaseStates, Spawn, Goto, Say, Lease, Work,
           DropLease, HandOver, NotSpawned, run_blocking_on_pool,
           run_blocking_on_dedicated_thread, run_cpu, run_async_with_requested_stack, outside,
           acquiring, waking
  <1>4. TypeWorker'
    BY DEF Typed, TypeWorker, WorkerPcs, Spawn, Work, DropLease, HandOver, NotSpawned,
           run_blocking_on_pool, run_blocking_on_dedicated_thread, run_cpu,
           run_async_with_requested_stack
  <1> QED BY <1>1, <1>3, <1>4 DEF Typed

LEMMA RunCancellableTyped ==
  ASSUME Typed, NEW s \in Subs, RunCancellable(s)
  PROVE  Typed'
  <1>1. TypeEngine'
    BY SameTyped DEF Typed, RunCancellable, outside, acquiring, waking
  <1>3. TypeCaller'
    BY SMT DEF Typed, TypeCaller, CallerPcs, Answers, RunCancellable, Goto, Say, outside, acquiring,
           waking
  <1>4. TypeWorker'
    BY Bounds, SMT DEF Typed, TypeWorker, TypeCaller, RunCancellable
  <1> QED BY <1>1, <1>3, <1>4 DEF Typed

LEMMA ReleaseTyped ==
  ASSUME Typed, NEW s \in Subs, Release(s)
  PROVE  Typed'
  <1>1. TypeEngine'
    BY SameTyped, DropLeaseTyped DEF Typed, Release, outside, acquiring, waking
  <1>3. TypeCaller'
    BY DEF Typed, TypeCaller, CallerPcs, LeaseStates, Release, Goto, DropLease, Lease, outside,
           acquiring, waking
  <1>4. TypeWorker'
    BY DEF Typed, TypeWorker, Release, working
  <1> QED BY <1>1, <1>3, <1>4 DEF Typed

LEMMA RespondTyped ==
  ASSUME Typed, NEW s \in Subs, Respond(s)
  PROVE  Typed'
  <1>1. TypeEngine'
    BY SameTyped DEF Typed, Respond, outside, acquiring, waking
  <1>3. TypeCaller'
    BY DEF Typed, TypeCaller, CallerPcs, Answers, Respond, Answer, Goto, Say, outside,
           acquiring, waking
  <1>4. TypeWorker'
    BY DEF Typed, TypeWorker, Respond, working
  <1> QED BY <1>1, <1>3, <1>4 DEF Typed

LEMMA ReceiveTyped ==
  ASSUME Typed, NEW s \in Subs, Receive(s)
  PROVE  Typed'
  <1>1. TypeEngine'
    BY SameTyped DEF Typed, Receive, outside, acquiring, waking
  <1>3. TypeCaller'
    BY DEF Typed, TypeCaller, CallerPcs, Answers, LeaseStates, TypeWorker, Receive, Goto, Say,
           Lease, outside, acquiring, waking
  <1>4. TypeWorker'
    BY DEF Typed, TypeWorker, ChannelStates, Receive
  <1> QED BY <1>1, <1>3, <1>4 DEF Typed

LEMMA StopWaitingTyped ==
  ASSUME Typed, NEW s \in Subs, StopWaiting(s)
  PROVE  Typed'
  <1>1. TypeEngine'
    BY SameTyped DEF Typed, StopWaiting, outside, acquiring, waking
  <1>3. TypeCaller'
    BY DEF Typed, TypeCaller, CallerPcs, Answers, TypeWorker, StopWaiting, Goto, Say, outside,
           acquiring, waking
  <1>4. TypeWorker'
    BY DEF Typed, TypeWorker, StopWaiting, working
  <1> QED BY <1>1, <1>3, <1>4 DEF Typed

LEMMA HangupTyped ==
  ASSUME Typed, NEW s \in Subs, Hangup(s)
  PROVE  Typed'
  <1>1. TypeEngine'
    BY SameTyped, DropLeaseTyped DEF Typed, Hangup, outside, acquiring, waking
  <1>3. TypeCaller'
    BY DEF Typed, TypeCaller, CallerPcs, LeaseStates, Hangup, Goto, DropLease, Lease, outside,
           acquiring, waking
  <1>4. TypeWorker'
    BY DEF Typed, TypeWorker, ChannelStates, Hangup, DropLease
  <1> QED BY <1>1, <1>3, <1>4 DEF Typed

LEMMA DropFutureTyped ==
  ASSUME Typed, NEW s \in Subs, DropFuture(s)
  PROVE  Typed'
  <1>1. TypeEngine'
    BY SameTyped, DropLeaseTyped DEF Typed, DropFuture, outside, acquiring, waking
  <1>3. TypeCaller'
    BY SMT DEF Typed, TypeCaller, CallerPcs, Answers, LeaseStates, DropFuture, Goto, Say, DropLease,
           Lease, outside, acquiring, waking
  <1>4. TypeWorker'
    BY DEF Typed, TypeWorker, DropFuture, working
  <1> QED BY <1>1, <1>3, <1>4 DEF Typed

LEMMA StartTyped ==
  ASSUME Typed, NEW s \in Subs, Start(s)
  PROVE  Typed'
  <1>1. TypeEngine'
    BY SameTyped DEF Typed, Start, outside, acquiring, waking
  <1>3. TypeCaller'
    BY DEF Typed, TypeCaller, Start, Work, outside, acquiring, waking
  <1>4. TypeWorker'
    BY Bounds, SMT DEF Typed, TypeWorker, WorkerPcs, Answers, TypeCaller, Start, Work
  <1> QED BY <1>1, <1>3, <1>4 DEF Typed

LEMMA FinishTyped ==
  ASSUME Typed, NEW s \in Subs, Finish(s)
  PROVE  Typed'
  <1>1. TypeEngine'
    BY SameTyped DEF Typed, Finish, outside, acquiring, waking
  <1>3. TypeCaller'
    BY DEF Typed, TypeCaller, Finish, Work, outside, acquiring, waking
  <1>4. TypeWorker'
    BY Bounds, SMT DEF Typed, TypeWorker, WorkerPcs, Answers, TypeCaller, Finish, Work, refusals
  <1> QED BY <1>1, <1>3, <1>4 DEF Typed

LEMMA SendTyped ==
  ASSUME Typed, NEW s \in Subs, Send(s)
  PROVE  Typed'
  <1>1. TypeEngine'
    BY SameTyped, DropLeaseTyped DEF Typed, Send, outside, acquiring, waking
  <1>3. TypeCaller'
    BY DEF Typed, TypeCaller, LeaseStates, Send, Work, DropLease, Lease, outside, acquiring,
           waking
  <1>4. TypeWorker'
    BY DEF Typed, TypeWorker, WorkerPcs, ChannelStates, Send, Work, DropLease
  <1> QED BY <1>1, <1>3, <1>4 DEF Typed

LEMMA DiscardTyped ==
  ASSUME Typed, NEW s \in Subs, Discard(s)
  PROVE  Typed'
  <1>1. TypeEngine'
    BY SameTyped, DropLeaseTyped DEF Typed, Discard, outside, acquiring, waking
  <1>3. TypeCaller'
    BY DEF Typed, TypeCaller, LeaseStates, Discard, Work, DropLease, Lease, outside, acquiring,
           waking
  <1>4. TypeWorker'
    BY DEF Typed, TypeWorker, WorkerPcs, Discard, Work, DropLease
  <1> QED BY <1>1, <1>3, <1>4 DEF Typed

LEMMA DiscardedTyped ==
  ASSUME Typed, NEW s \in Subs, Discarded(s)
  PROVE  Typed'
  <1>1. TypeEngine'
    BY SameTyped DEF Typed, Discarded, outside, acquiring, waking
  <1>3. TypeCaller'
    BY DEF Typed, TypeCaller, Discarded, Work, outside, acquiring, waking
  <1>4. TypeWorker'
    BY DEF Typed, TypeWorker, WorkerPcs, ChannelStates, Discarded, Work
  <1> QED BY <1>1, <1>3, <1>4 DEF Typed

LEMMA BootTyped ==
  ASSUME Typed, NEW s \in Subs, Boot(s)
  PROVE  Typed'
  <1>1. TypeEngine'
    BY SameTyped DEF Typed, Boot, outside, acquiring, waking
  <1>3. TypeCaller'
    BY DEF Typed, TypeCaller, Boot, Work, Reply, outside, acquiring, waking
  <1>4. TypeWorker'
    BY Bounds, SMT DEF Typed, TypeWorker, WorkerPcs, ChannelStates, Answers, TypeCaller, Boot, Work,
           Reply, refusals
  <1> QED BY <1>1, <1>3, <1>4 DEF Typed

LEMMA RunRuntimeTyped ==
  ASSUME Typed, NEW s \in Subs, RunRuntime(s)
  PROVE  Typed'
  <1>1. TypeEngine'
    BY SameTyped DEF Typed, RunRuntime, outside, acquiring, waking
  <1>3. TypeCaller'
    BY DEF Typed, TypeCaller, RunRuntime, Work, Reply, Keep, refusals, outside, acquiring, waking
  <1>4. TypeWorker'
    BY Bounds, SMT DEF Typed, TypeWorker, WorkerPcs, ChannelStates, Answers, TypeCaller, RunRuntime,
           Work, Reply, Keep, refusals
  <1> QED BY <1>1, <1>3, <1>4 DEF Typed

LEMMA TeardownTyped ==
  ASSUME Typed, NEW s \in Subs, Teardown(s)
  PROVE  Typed'
  <1>1. TypeEngine'
    BY SameTyped, DropLeaseTyped DEF Typed, Teardown, outside, acquiring, waking
  <1>3. TypeCaller'
    BY DEF Typed, TypeCaller, LeaseStates, Teardown, Work, DropLease, Lease, outside, acquiring,
           waking
  <1>4. TypeWorker'
    BY DEF Typed, TypeWorker, WorkerPcs, Teardown, Work, DropLease
  <1> QED BY <1>1, <1>3, <1>4 DEF Typed

LEMMA HostStillTyped ==
  ASSUME Typed, UNCHANGED <<plan, now, fired, host>>, notified' \subseteq notified \cup Subs, TypeEngine'
  PROVE  Typed'
  BY DEF Typed, TypeCaller, TypeWorker, host, acquiring, working

\* The engine, the embedder and the clock.
LEMMA EngineTyped ==
  ASSUME Typed, Engine
  PROVE  Typed'
  <1>1. ASSUME NEW i \in waiting, PromoteOne(i) PROVE Typed'
    <2>1. TypeEngine'
      BY <1>1 DEF Typed, TypeEngine, PromoteOne, outside, host, acquiring, Service!Promote,
                  Service!Active
    <2> QED BY <1>1, <2>1, HostStillTyped DEF PromoteOne, outside
  <1>2. ASSUME NEW i \in owed, Notify(i) PROVE Typed'
    <2>1. TypeEngine'
      BY <1>2 DEF Typed, TypeEngine, Notify, outside, host, acquiring, svc, Service!Active
    <2> QED BY <1>2, <2>1, HostStillTyped DEF Notify, outside
  <1> QED BY <1>1, <1>2 DEF Engine

LEMMA SettleTyped ==
  ASSUME Typed, NEW i \in pings, Settle(i)
  PROVE  Typed'
  <1>1. TypeEngine'
    BY DEF Typed, TypeEngine, Settle, outside, host, acquiring, waking, svc, Service!Active
  <1> QED BY <1>1, HostStillTyped DEF Settle, outside, waking

LEMMA EnvironmentTyped ==
  ASSUME Typed, Environment
  PROVE  Typed'
  <1>1. CASE Tick
    <2>1. TypeEngine'
      BY <1>1, SameTyped DEF Typed, Tick, host, acquiring, waking
    <2> QED BY <1>1, <2>1, Bounds, SMT DEF Typed, TypeCaller, TypeWorker, Tick, host, acquiring,
                                     working, waking
  <1>2. ASSUME NEW s \in Subs, Fire(s) PROVE Typed'
    <2>1. TypeEngine'
      BY <1>2, SameTyped DEF Typed, Fire, host, acquiring, waking
    <2> QED BY <1>2, <2>1 DEF Typed, TypeCaller, TypeWorker, Fire, host, acquiring, working, waking
  <1>3. CASE Occupy
    <2>1. issued \in Nat /\ req \in [Subs -> 0..issued] /\ UNCHANGED req
      BY <1>3 DEF Typed, TypeEngine, Occupy, host, acquiring
    <2>2. TypeEngine'
      BY <1>3, <2>1, SMT DEF Typed, TypeEngine, Occupy, outside, waking, Service!Grant, Service!Active
    <2> QED BY <1>3, <2>2, HostStillTyped DEF Occupy, outside, waking
  <1>4. ASSUME NEW s \in Subs, DropFuture(s) \/ Discard(s) PROVE Typed'
    BY <1>4, DropFutureTyped, DiscardTyped
  <1>5. ASSUME NEW i \in held, Reclaim(i) PROVE Typed'
    <2>1. TypeEngine'
      BY <1>5 DEF Typed, TypeEngine, Reclaim, outside, host, acquiring, Service!Return,
                  Service!Active
    <2> QED BY <1>5, <2>1, HostStillTyped DEF Reclaim, outside
  <1>6. ASSUME NEW i \in held, Intrude(i) PROVE Typed'
    <2>1. TypeEngine'
      BY <1>6 DEF Typed, TypeEngine, Intrude, host, acquiring, waking, Service!Lease,
                  Service!Active
    <2> QED BY <1>6, <2>1, HostStillTyped DEF Intrude, waking
  <1>7. ASSUME NEW i \in foreign, Withdrawn(i) PROVE Typed'
    <2>1. TypeEngine'
      BY <1>7 DEF Typed, TypeEngine, Withdrawn, host, acquiring, waking, Service!Spend,
                  Service!Active
    <2> QED BY <1>7, <2>1, HostStillTyped DEF Withdrawn, waking
  <1>8. ASSUME NEW S \in SUBSET waiting, Terminate(S) PROVE Typed'
    <2>1. TypeEngine'
      BY <1>8 DEF Typed, TypeEngine, Terminate, outside, host, acquiring, Service!Withdraw,
                  Service!Active
    <2> QED BY <1>8, <2>1, HostStillTyped DEF Terminate, outside
  <1> QED BY <1>1, <1>2, <1>3, <1>4, <1>5, <1>6, <1>7, <1>8 DEF Environment

LEMMA InitTyped == Init => Typed
  <1>1. Init => TypeEngine
    BY SMT DEF Init, Service!Init, Service!Active, TypeEngine, None
  <1>2. Init => TypeCaller
    BY Bounds, SMT DEF Init, TypeCaller, CallerPcs, Answers, LeaseStates
  <1>3. Init => TypeWorker
    BY Bounds, SMT DEF Init, TypeWorker, WorkerPcs, ChannelStates, Answers
  <1> QED BY <1>1, <1>2, <1>3 DEF Typed

LEMMA NextTyped == Typed /\ [Next]_vars => Typed'
  <1> SUFFICES ASSUME Typed, [Next]_vars PROVE Typed'
    BY SMT
  <1>1. ASSUME NEW s \in Subs, Caller(s) PROVE Typed'
    BY <1>1, SubmitTyped, AdmitTyped, LookTyped, ClaimTyped, PollTyped, WakeTyped, FinalizeTyped,
       GuardTyped, UnguardTyped, DispatchTyped, AdvanceTyped, SpawnTyped, ReleaseTyped,
       RespondTyped, ReceiveTyped, StopWaitingTyped, HangupTyped DEF Caller
  <1>2. ASSUME NEW s \in Subs, Worker(s) PROVE Typed'
    BY <1>2, StartTyped, SendTyped, DiscardedTyped, BootTyped DEF Worker
  <1>3. ASSUME NEW s \in Subs, WorkEnds(s) PROVE Typed'
    BY <1>3, RunCancellableTyped, FinishTyped, RunRuntimeTyped, TeardownTyped DEF WorkEnds
  <1>4. CASE UNCHANGED vars
    <2>1. TypeEngine'
      BY <1>4, SameTyped DEF Typed, vars, outside, acquiring, waking
    <2> QED BY <1>4, <2>1, HostStillTyped DEF vars, outside, host, waking
  <1> QED
    BY <1>1, <1>2, <1>3, <1>4, EngineTyped, EnvironmentTyped, SettleTyped DEF Next

LEMMA TypeInvariance == Spec => []Typed
  BY InitTyped, NextTyped, PTL DEF Spec

\* The host's state keeps its types: every number it holds was issued by the
\* engine, and every deadline it computes stays inside the clock's range.
THEOREM TypesHold == Spec => []TypeOK
  <1>1. Typed => TypeOK
    BY DEF Typed, TypeEngine, TypeCaller, TypeWorker, TypeOK
  <1> QED BY <1>1, TypeInvariance, PTL

-----------------------------------------------------------------------------
\* The release fence

Results == {"Ok", "TaskError"}
Refusals == {"TimedOut", "CancelledBefore", "Rejected", "Terminated", "Reclaimed"}

BeforeWork == {"submit", "admit", "finalize", "look", "claim", "poll", "park", "guard", "unguard",
               "dispatch", "advance", "spawn"}

\* A refusal is decided before anything starts, and no worker reports one.
Unstarted(s) ==
  /\ answer[s] \in Refusals => started[s] = Never /\ work[s] = "none"
  /\ pc[s] \in BeforeWork => started[s] = Never /\ chan[s] = "empty"
  /\ pc[s] \in {"submit", "admit", "dispatch", "advance", "spawn", "running", "await"}
     => answer[s] = "none"
  /\ outcome[s] \notin Refusals

\* TryOnce: a ticket is there only to be given up.
TriedOnce(s) ==
  /\ pc[s] \in {"look", "claim", "poll", "park", "guard", "unguard"} \/ s \in armed
     => ticket[s] # "none"
  /\ plan[s].acquire = 0 /\ ticket[s] # "none"
     => /\ started[s] = Never /\ work[s] = "none"
        /\ pc[s] \in {"look", "claim", "finalize", "guard", "unguard", "hangup", "answered"}
        /\ pc[s] \in {"look", "claim", "finalize"} => s \in armed
        /\ pc[s] \in {"claim", "guard", "unguard"} => answer[s] # "none"

\* A result travels with the lease and is given only after it was spent.
Fenced(s) ==
  /\ work[s] \in {"none", "queued", "running"} => outcome[s] = "none"
  /\ work[s] \in {"queued", "running"} => chan[s] \in {"empty", "closed"}
  /\ chan[s] = "terminated" => outcome[s] \notin Results
  /\ chan[s] = "outcome" => work[s] = "done"
  /\ answer[s] \in Results => pc[s] \in {"release", "respond", "answered"}
  /\ pc[s] \in {"release", "respond"} \/ answer[s] \in Results => work[s] \in {"none", "done"}
  /\ pc[s] = "respond" => req[s] \notin Service!Active
  /\ pc[s] = "answered" /\ answer[s] \in Results => req[s] \notin Service!Active \cup pings

\* An Ok was measured inside the run budget.
Timely(s) ==
  /\ answer[s] = "Ok" => completed[s] < started[s] + plan[s].run
  /\ outcome[s] = "Ok" /\ ~sync(s) => completed[s] < started[s] + plan[s].run

Answered(s) == Unstarted(s) /\ TriedOnce(s) /\ Fenced(s) /\ Timely(s)

FInv == \A s \in Subs : Answered(s)

FShape ==
  /\ DOMAIN pc = Subs /\ DOMAIN answer = Subs /\ DOMAIN ticket = Subs /\ DOMAIN req = Subs
  /\ DOMAIN work = Subs /\ DOMAIN chan = Subs /\ DOMAIN outcome = Subs
  /\ DOMAIN started = Subs /\ DOMAIN completed = Subs

FSame(r) ==
  /\ pc'[r] = pc[r] /\ answer'[r] = answer[r] /\ ticket'[r] = ticket[r] /\ req'[r] = req[r]
  /\ work'[r] = work[r] /\ chan'[r] = chan[r] /\ outcome'[r] = outcome[r]
  /\ started'[r] = started[r] /\ completed'[r] = completed[r]
  /\ r \in armed' <=> r \in armed

\* A request that has ended stays so, and is announced once.
Ending ==
  \A i \in 0..issued :
    i \notin Service!Active => i \notin Service!Active' /\ (i \notin pings => i \notin pings')

LEMMA AnsweredSame ==
  ASSUME Typed, NEW r \in Subs, Answered(r), FSame(r), Ending, UNCHANGED plan
  PROVE  Answered(r)'
  <1>1. req[r] \in 0..issued
    BY DEF Typed, TypeEngine
  <1>2. Unstarted(r)' /\ TriedOnce(r)'
    BY DEF Answered, FSame, Unstarted, TriedOnce
  <1>3. Fenced(r)'
    BY <1>1 DEF Answered, FSame, Fenced, Ending
  <1>4. Timely(r)'
    BY DEF Answered, FSame, Timely, sync
  <1> QED BY <1>2, <1>3, <1>4 DEF Answered

LEMMA StepFenced ==
  ASSUME Typed, FInv, NEW s \in Subs, \A r \in Subs \ {s} : FSame(r), Ending, UNCHANGED plan,
         Unstarted(s)', TriedOnce(s)', Fenced(s)', Timely(s)'
  PROVE  FInv'
  <1>1. ASSUME NEW r \in Subs \ {s} PROVE Answered(r)'
    BY AnsweredSame DEF FInv
  <1> QED BY <1>1 DEF FInv, Answered

LEMMA EngineFenced ==
  ASSUME Typed, FInv, UNCHANGED <<host, plan>>, Ending
  PROVE  FInv'
  <1>1. \A r \in Subs : FSame(r)
    BY DEF FSame, host, acquiring, working
  <1> QED BY <1>1, AnsweredSame DEF FInv

LEMMA SameEnding == UNCHANGED <<svc, pings>> => Ending
  BY DEF Ending, svc, Service!Active

LEMMA ReleaseByIdEnding ==
  ASSUME NEW s \in Subs, ReleaseById(s)
  PROVE  Ending
  BY DEF Ending, ReleaseById, svc, Service!Active, Service!Return

LEMMA DropLeaseEnding ==
  ASSUME NEW s \in Subs, DropLease(s)
  PROVE  Ending
  <1>1. CASE ReleaseByToken(s)
    BY <1>1 DEF Ending, ReleaseByToken, svc, Service!Active, Service!Spend
  <1> QED BY <1>1, ReleaseByIdEnding, SameEnding DEF DropLease

LEMMA AbandonEnding ==
  ASSUME NEW s \in Subs, Abandon(s)
  PROVE  Ending
  <1>1. CASE Service!Withdraw({req[s]}) /\ pings' = pings \cup {req[s]} /\ req[s] \in waiting
    BY <1>1 DEF Ending, Service!Active, Service!Withdraw
  <1> QED BY <1>1, ReleaseByIdEnding, SameEnding DEF Abandon

LEMMA RunBudget ==
  ASSUME Typed, NEW s \in Subs
  PROVE  /\ plan[s].by \in Int /\ started[s] + plan[s].run \in Int
         /\ completed[s] \in Int /\ now \in Int
  <1>1. plan[s].by \in Int /\ plan[s].run \in Int
    BY HostAssumption, Bounds, SMT DEF Typed, TypeCaller, PlanSet
  <1>2. started[s] \in Int /\ completed[s] \in Int /\ now \in Int
    BY Bounds, SMT DEF Typed, TypeCaller, TypeWorker
  <1> QED BY <1>1, <1>2, SMT

\* The completion deadline is not after the end of the run budget.
LEMMA DeadlineBounds ==
  ASSUME Typed, NEW s \in Subs
  PROVE  now < deadline(s) => now < started[s] + plan[s].run
  <1> DEFINE b == started[s] + plan[s].run
  <1>1. plan[s].by \in Int /\ b \in Int /\ now \in Int
    BY RunBudget
  <1>2. deadline(s) = Min({plan[s].by, b})
    BY DEF deadline
  <1> HIDE DEF b
  <1>3. deadline(s) \in Int /\ deadline(s) <= b
    BY <1>1, <1>2, LesserOf
  <1>4. now < deadline(s) => now < b
    BY <1>1, <1>3, SMT
  <1> QED BY <1>4 DEF b

LEMMA FencedFacts ==
  ASSUME Typed, HInv, FInv, NEW s \in Subs
  PROVE  /\ FShape /\ Kept(s) /\ Unstarted(s) /\ TriedOnce(s) /\ Fenced(s) /\ Timely(s)
         /\ req[s] \in 0..issued
  BY DEF Typed, TypeEngine, TypeCaller, TypeWorker, FShape, HInv, FInv, Answered

LEMMA SubmitFenced ==
  ASSUME Typed, HInv, FInv, NEW s \in Subs, Submit(s)
  PROVE  FInv'
  <1> FShape /\ Kept(s) /\ Unstarted(s) /\ TriedOnce(s) /\ Fenced(s) /\ Timely(s) /\ req[s] \in 0..issued
    BY FencedFacts
  <1>2. Ending
    BY SameEnding DEF Submit
  <1>a. /\ pc[s] = "submit" /\ UNCHANGED <<outside, req, ticket, armed, working>>
        /\ \/ \E v \in {"CancelledBefore", "Deadline", "TimedOut", "Unavailable", "OutOfRange"} :
                Answer(s, v)
           \/ Goto(s, "admit") /\ UNCHANGED answer
    BY DEF Submit, rejection
  <1> USE DEF FShape, Answer, Goto, Say, outside, working
  <1>1. UNCHANGED plan /\ \A r \in Subs \ {s} : FSame(r) BY <1>a DEF FSame
  <1>3. Unstarted(s)' BY <1>a DEF Kept, Unstarted, BeforeWork, Refusals
  <1>4. TriedOnce(s)' BY <1>a DEF Kept, Unstarted, BeforeWork, TriedOnce
  <1>5. Fenced(s)' BY <1>a, <1>2 DEF Kept, Unstarted, BeforeWork, Fenced, Results, Ending
  <1>6. Timely(s)' BY <1>a DEF Kept, Unstarted, Fenced, Results, Timely, sync
  <1> QED BY <1>1, <1>2, <1>3, <1>4, <1>5, <1>6, StepFenced

LEMMA AdmitFenced ==
  ASSUME Typed, HInv, FInv, NEW s \in Subs, Admit(s)
  PROVE  FInv'
  <1> FShape /\ Kept(s) /\ Unstarted(s) /\ TriedOnce(s) /\ Fenced(s) /\ Timely(s) /\ req[s] \in 0..issued
    BY FencedFacts
  <1>2. Ending
    <2>1. CASE UNCHANGED svc
      BY <2>1, SameEnding DEF Admit
    <2>2. CASE Service!Grant \/ Service!Enqueue
      BY <2>2, SMT DEF Typed, TypeEngine, Ending, Admit, Service!Active, Service!Grant, Service!Enqueue
    <2> QED BY <2>1, <2>2 DEF Admit
  <1>a. /\ pc[s] = "admit" /\ UNCHANGED <<outside, working>>
        /\ \/ /\ \E v \in {"CancelledBefore", "Deadline", "TimedOut", "Rejected"} : Answer(s, v)
              /\ UNCHANGED <<req, ticket, armed>>
           \/ /\ req' = [req EXCEPT ![s] = issued + 1]
              /\ Goto(s, "finalize") /\ UNCHANGED <<answer, ticket, armed>>
           \/ /\ req' = [req EXCEPT ![s] = issued + 1]
              /\ Goto(s, "look") /\ UNCHANGED answer
              /\ ticket' = [ticket EXCEPT ![s] = "open"] /\ armed' = armed \cup {s}
    BY DEF Admit, rejection
  <1> USE DEF FShape, Answer, Goto, Say, outside, working
  <1>1. UNCHANGED plan /\ \A r \in Subs \ {s} : FSame(r) BY <1>a DEF FSame
  <1>3. Unstarted(s)' BY <1>a DEF Kept, Unstarted, BeforeWork, Refusals
  <1>4. TriedOnce(s)' BY <1>a DEF Kept, Unstarted, BeforeWork, TriedOnce
  <1>5. Fenced(s)' BY <1>a, <1>2 DEF Kept, Unstarted, BeforeWork, Fenced, Results, Ending
  <1>6. Timely(s)' BY <1>a DEF Kept, Unstarted, Fenced, Results, Timely, sync
  <1> QED BY <1>1, <1>2, <1>3, <1>4, <1>5, <1>6, StepFenced

LEMMA LookFenced ==
  ASSUME Typed, HInv, FInv, NEW s \in Subs, Look(s)
  PROVE  FInv'
  <1> FShape /\ Kept(s) /\ Unstarted(s) /\ TriedOnce(s) /\ Fenced(s) /\ Timely(s) /\ req[s] \in 0..issued
    BY FencedFacts
  <1>2. Ending
    BY SameEnding DEF Look
  <1>a. /\ pc[s] = "look" /\ Goto(s, "claim") /\ UNCHANGED <<outside, acquiring, working>>
        /\ \E v \in {"none", "CancelledBefore", "Deadline", "TimedOut"} :
             Say(s, v) /\ (plan[s].acquire = 0 => v # "none")
    BY DEF Look, rejection
  <1> USE DEF FShape, Goto, Say, outside, acquiring, working
  <1>1. UNCHANGED plan /\ \A r \in Subs \ {s} : FSame(r) BY <1>a DEF FSame
  <1>3. Unstarted(s)' BY <1>a DEF Kept, Unstarted, BeforeWork, Refusals
  <1>4. TriedOnce(s)' BY <1>a DEF Kept, Unstarted, BeforeWork, TriedOnce
  <1>5. Fenced(s)' BY <1>a, <1>2 DEF Kept, Unstarted, BeforeWork, Fenced, Results, Ending
  <1>6. Timely(s)' BY <1>a DEF Kept, Unstarted, Fenced, Results, Timely, sync
  <1> QED BY <1>1, <1>2, <1>3, <1>4, <1>5, <1>6, StepFenced

LEMMA ClaimFenced ==
  ASSUME Typed, HInv, FInv, NEW s \in Subs, Claim(s)
  PROVE  FInv'
  <1> FShape /\ Kept(s) /\ Unstarted(s) /\ TriedOnce(s) /\ Fenced(s) /\ Timely(s) /\ req[s] \in 0..issued
    BY FencedFacts
  <1>2. Ending
    BY SameEnding DEF Claim
  <1> USE DEF FShape, Claim, Goto, Say, outside, working
  <1>1. UNCHANGED plan /\ \A r \in Subs \ {s} : FSame(r) BY DEF FSame
  <1>3. Unstarted(s)' BY DEF Kept, Unstarted, BeforeWork, Refusals
  <1>4. TriedOnce(s)' BY DEF Kept, Unstarted, BeforeWork, TriedOnce
  <1>5. Fenced(s)' BY <1>2 DEF Kept, Unstarted, BeforeWork, Fenced, Results, Ending
  <1>6. Timely(s)' BY DEF Kept, Unstarted, Fenced, Results, Timely, sync
  <1> QED BY <1>1, <1>2, <1>3, <1>4, <1>5, <1>6, StepFenced

LEMMA PollFenced ==
  ASSUME Typed, HInv, FInv, NEW s \in Subs, Poll(s)
  PROVE  FInv'
  <1> FShape /\ Kept(s) /\ Unstarted(s) /\ TriedOnce(s) /\ Fenced(s) /\ Timely(s) /\ req[s] \in 0..issued
    BY FencedFacts
  <1>2. Ending
    BY SameEnding DEF Poll
  <1> USE DEF FShape, Poll, Goto, outside, acquiring, working
  <1>1. UNCHANGED plan /\ \A r \in Subs \ {s} : FSame(r) BY DEF FSame
  <1>3. Unstarted(s)' BY DEF Kept, Unstarted, BeforeWork, Refusals
  <1>4. TriedOnce(s)' BY DEF Kept, Unstarted, BeforeWork, TriedOnce
  <1>5. Fenced(s)' BY <1>2 DEF Kept, Unstarted, BeforeWork, Fenced, Results, Ending
  <1>6. Timely(s)' BY DEF Kept, Unstarted, Fenced, Results, Timely, sync
  <1> QED BY <1>1, <1>2, <1>3, <1>4, <1>5, <1>6, StepFenced

LEMMA WakeFenced ==
  ASSUME Typed, HInv, FInv, NEW s \in Subs, Wake(s)
  PROVE  FInv'
  <1> FShape /\ Kept(s) /\ Unstarted(s) /\ TriedOnce(s) /\ Fenced(s) /\ Timely(s) /\ req[s] \in 0..issued
    BY FencedFacts
  <1>2. Ending
    BY SameEnding DEF Wake
  <1> USE DEF FShape, Wake, Goto, outside, acquiring, working
  <1>1. UNCHANGED plan /\ \A r \in Subs \ {s} : FSame(r) BY DEF FSame
  <1>3. Unstarted(s)' BY DEF Kept, Unstarted, BeforeWork, Refusals
  <1>4. TriedOnce(s)' BY DEF Kept, Unstarted, BeforeWork, TriedOnce
  <1>5. Fenced(s)' BY <1>2 DEF Kept, Unstarted, BeforeWork, Fenced, Results, Ending
  <1>6. Timely(s)' BY DEF Kept, Unstarted, Fenced, Results, Timely, sync
  <1> QED BY <1>1, <1>2, <1>3, <1>4, <1>5, <1>6, StepFenced

LEMMA FinalizeFenced ==
  ASSUME Typed, HInv, FInv, NEW s \in Subs, Finalize(s)
  PROVE  FInv'
  <1> FShape /\ Kept(s) /\ Unstarted(s) /\ TriedOnce(s) /\ Fenced(s) /\ Timely(s) /\ req[s] \in 0..issued
    BY FencedFacts
  <1>2. Ending
    BY SameEnding, ReleaseByIdEnding DEF Finalize
  <1>a. /\ pc[s] = "finalize" /\ UNCHANGED <<outside, acquiring, working>>
        /\ \E v \in {"none", "CancelledBefore", "Deadline", "TimedOut"} :
             /\ plan[s].acquire = 0 /\ s \in armed => v # "none"
             /\ IF v = "none" THEN Goto(s, IF s \in armed THEN "guard" ELSE "dispatch")
                              ELSE Goto(s, IF s \in armed THEN "guard" ELSE "hangup")
             /\ Say(s, v)
    BY DEF Finalize, rejection
  <1> USE DEF FShape, Goto, Say, outside, acquiring, working
  <1>1. UNCHANGED plan /\ \A r \in Subs \ {s} : FSame(r) BY <1>a DEF FSame
  <1>3. Unstarted(s)' BY <1>a DEF Kept, Unstarted, BeforeWork, Refusals
  <1>4. TriedOnce(s)' BY <1>a DEF Kept, Unstarted, BeforeWork, TriedOnce
  <1>5. Fenced(s)' BY <1>a, <1>2 DEF Kept, Unstarted, BeforeWork, Fenced, Results, Ending
  <1>6. Timely(s)' BY <1>a DEF Kept, Unstarted, Fenced, Results, Timely, sync
  <1> QED BY <1>1, <1>2, <1>3, <1>4, <1>5, <1>6, StepFenced

LEMMA GuardFenced ==
  ASSUME Typed, HInv, FInv, NEW s \in Subs, Guard(s)
  PROVE  FInv'
  <1> FShape /\ Kept(s) /\ Unstarted(s) /\ TriedOnce(s) /\ Fenced(s) /\ Timely(s) /\ req[s] \in 0..issued
    BY FencedFacts
  <1>2. Ending
    BY SameEnding DEF Guard
  <1> USE DEF FShape, Guard, Goto, outside, working
  <1>1. UNCHANGED plan /\ \A r \in Subs \ {s} : FSame(r) BY DEF FSame
  <1>3. Unstarted(s)' BY DEF Kept, Unstarted, BeforeWork, Refusals
  <1>4. TriedOnce(s)' BY DEF Kept, Unstarted, BeforeWork, TriedOnce
  <1>5. Fenced(s)' BY <1>2 DEF Kept, Unstarted, BeforeWork, Fenced, Results, Ending
  <1>6. Timely(s)' BY DEF Kept, Unstarted, Fenced, Results, Timely, sync
  <1> QED BY <1>1, <1>2, <1>3, <1>4, <1>5, <1>6, StepFenced

LEMMA UnguardFenced ==
  ASSUME Typed, HInv, FInv, NEW s \in Subs, Unguard(s)
  PROVE  FInv'
  <1> FShape /\ Kept(s) /\ Unstarted(s) /\ TriedOnce(s) /\ Fenced(s) /\ Timely(s) /\ req[s] \in 0..issued
    BY FencedFacts
  <1>2. Ending
    BY SameEnding, AbandonEnding DEF Unguard
  <1> USE DEF FShape, Unguard, Goto, outside, working
  <1>1. UNCHANGED plan /\ \A r \in Subs \ {s} : FSame(r) BY DEF FSame
  <1>3. Unstarted(s)' BY DEF Kept, Unstarted, BeforeWork, Refusals
  <1>4. TriedOnce(s)' BY DEF Kept, Unstarted, BeforeWork, TriedOnce
  <1>5. Fenced(s)' BY <1>2 DEF Kept, Unstarted, BeforeWork, Fenced, Results, Ending
  <1>6. Timely(s)' BY DEF Kept, Unstarted, Fenced, Results, Timely, sync
  <1> QED BY <1>1, <1>2, <1>3, <1>4, <1>5, <1>6, StepFenced

LEMMA DispatchFenced ==
  ASSUME Typed, HInv, FInv, NEW s \in Subs, Dispatch(s)
  PROVE  FInv'
  <1> FShape /\ Kept(s) /\ Unstarted(s) /\ TriedOnce(s) /\ Fenced(s) /\ Timely(s) /\ req[s] \in 0..issued
    BY FencedFacts
  <1>2. Ending
    BY SameEnding, DropLeaseEnding DEF Dispatch
  <1> USE DEF FShape, Dispatch, Goto, Say, outside, acquiring, working
  <1>1. UNCHANGED plan /\ \A r \in Subs \ {s} : FSame(r) BY DEF FSame
  <1>3. Unstarted(s)' BY DEF Kept, Unstarted, BeforeWork, Refusals
  <1>4. TriedOnce(s)' BY DEF Kept, Unstarted, BeforeWork, TriedOnce
  <1>5. Fenced(s)' BY <1>2 DEF Kept, Unstarted, BeforeWork, Fenced, Results, Ending
  <1>6. Timely(s)' BY DEF Kept, Unstarted, Fenced, Results, Timely, sync
  <1> QED BY <1>1, <1>2, <1>3, <1>4, <1>5, <1>6, StepFenced

LEMMA AdvanceFenced ==
  ASSUME Typed, HInv, FInv, NEW s \in Subs, Advance(s)
  PROVE  FInv'
  <1> FShape /\ Kept(s) /\ Unstarted(s) /\ TriedOnce(s) /\ Fenced(s) /\ Timely(s) /\ req[s] \in 0..issued
    BY FencedFacts
  <1>2. Ending
    BY SameEnding DEF Typed, TypeEngine, Ending, Advance, Service!Active, Service!Lease
  <1> USE DEF FShape, Advance, Goto, Say, outside, acquiring
  <1>1. UNCHANGED plan /\ \A r \in Subs \ {s} : FSame(r) BY DEF FSame
  <1>3. Unstarted(s)' BY DEF Kept, Unstarted, BeforeWork, Refusals
  <1>4. TriedOnce(s)' BY DEF Kept, Unstarted, BeforeWork, TriedOnce
  <1>5. Fenced(s)' BY <1>2 DEF Kept, Unstarted, BeforeWork, Fenced, Results, Ending
  <1>6. Timely(s)' BY DEF Kept, Unstarted, Fenced, Results, Timely, sync
  <1> QED BY <1>1, <1>2, <1>3, <1>4, <1>5, <1>6, StepFenced

LEMMA SpawnFenced ==
  ASSUME Typed, HInv, FInv, NEW s \in Subs, Spawn(s)
  PROVE  FInv'
  <1> FShape /\ Kept(s) /\ Unstarted(s) /\ TriedOnce(s) /\ Fenced(s) /\ Timely(s) /\ req[s] \in 0..issued
    BY FencedFacts
  <1>2. Ending
    BY SameEnding, DropLeaseEnding DEF Spawn, HandOver, NotSpawned, run_blocking_on_pool,
           run_blocking_on_dedicated_thread, run_cpu, run_async_with_requested_stack
  <1> USE DEF FShape, Spawn, Goto, Say, Work, HandOver, NotSpawned, run_blocking_on_pool,
          run_blocking_on_dedicated_thread, run_cpu, run_async_with_requested_stack, outside,
          acquiring
  <1>1. UNCHANGED plan /\ \A r \in Subs \ {s} : FSame(r) BY DEF FSame
  <1>3. Unstarted(s)' BY DEF Kept, Unstarted, BeforeWork, Refusals
  <1>4. TriedOnce(s)' BY DEF Kept, Unstarted, BeforeWork, TriedOnce
  <1>5. Fenced(s)' BY <1>2 DEF Kept, Unstarted, BeforeWork, Fenced, Results, Ending
  <1>6. Timely(s)' BY DEF Kept, Unstarted, Fenced, Results, Timely, sync
  <1> QED BY <1>1, <1>2, <1>3, <1>4, <1>5, <1>6, StepFenced

LEMMA RunCancellableFenced ==
  ASSUME Typed, HInv, FInv, NEW s \in Subs, RunCancellable(s)
  PROVE  FInv'
  <1> FShape /\ Kept(s) /\ Unstarted(s) /\ TriedOnce(s) /\ Fenced(s) /\ Timely(s) /\ req[s] \in 0..issued
    BY FencedFacts
  <1>2. Ending
    BY SameEnding DEF RunCancellable
  <1>b. now < deadline(s) => now < started[s] + plan[s].run
    BY DeadlineBounds
  <1> USE DEF FShape, RunCancellable, Goto, Say, outside, acquiring
  <1>1. UNCHANGED plan /\ \A r \in Subs \ {s} : FSame(r) BY DEF FSame
  <1>3. Unstarted(s)' BY DEF Kept, Unstarted, BeforeWork, Refusals
  <1>4. TriedOnce(s)' BY DEF Kept, Unstarted, BeforeWork, TriedOnce
  <1>5. Fenced(s)' BY <1>2 DEF Kept, Unstarted, BeforeWork, Fenced, Results, Ending
  <1>6. Timely(s)' BY <1>b DEF Kept, Unstarted, Fenced, Results, Timely, sync
  <1> QED BY <1>1, <1>2, <1>3, <1>4, <1>5, <1>6, StepFenced

LEMMA ReleaseFenced ==
  ASSUME Typed, HInv, FInv, NEW s \in Subs, Release(s)
  PROVE  FInv'
  <1> FShape /\ Kept(s) /\ Unstarted(s) /\ TriedOnce(s) /\ Fenced(s) /\ Timely(s) /\ req[s] \in 0..issued
    BY FencedFacts
  <1>2. Ending
    BY SameEnding, DropLeaseEnding DEF Release
  <1>a. req[s] \notin Service!Active'
    <2>1. lease[s] = "caller" /\ req[s] \notin waiting \cup held
      BY DEF Kept, Waits, Reserves, Release
    <2>2. req[s] \in leased /\ req[s] \in tokens
      BY <2>1 DEF HInv, Owned, Engaged, TokenAt
    <2> QED BY <2>1, <2>2 DEF Release, DropLease, TokenAt, ReleaseByToken, Service!Spend,
                             Service!Active
  <1> USE DEF FShape, Release, Goto, outside, acquiring, working
  <1>1. UNCHANGED plan /\ \A r \in Subs \ {s} : FSame(r) BY <1>a DEF FSame
  <1>3. Unstarted(s)' BY <1>a DEF Kept, Unstarted, BeforeWork, Refusals
  <1>4. TriedOnce(s)' BY <1>a DEF Kept, Unstarted, BeforeWork, TriedOnce
  <1>5. Fenced(s)' BY <1>a, <1>2 DEF Kept, Unstarted, BeforeWork, Fenced, Results, Ending
  <1>6. Timely(s)' BY <1>a DEF Kept, Unstarted, Fenced, Results, Timely, sync
  <1> QED BY <1>1, <1>2, <1>3, <1>4, <1>5, <1>6, StepFenced

LEMMA RespondFenced ==
  ASSUME Typed, HInv, FInv, NEW s \in Subs, Respond(s)
  PROVE  FInv'
  <1> FShape /\ Kept(s) /\ Unstarted(s) /\ TriedOnce(s) /\ Fenced(s) /\ Timely(s) /\ req[s] \in 0..issued
    BY FencedFacts
  <1>2. Ending
    BY SameEnding DEF Respond
  <1> USE DEF FShape, Respond, Answer, Goto, Say, outside, acquiring, working
  <1>1. UNCHANGED plan /\ \A r \in Subs \ {s} : FSame(r) BY DEF FSame
  <1>3. Unstarted(s)' BY DEF Kept, Unstarted, BeforeWork, Refusals
  <1>4. TriedOnce(s)' BY DEF Kept, Unstarted, BeforeWork, TriedOnce
  <1>5. Fenced(s)' BY <1>2 DEF Kept, Unstarted, BeforeWork, Fenced, Results, Ending, Settled
  <1>6. Timely(s)' BY DEF Kept, Unstarted, Fenced, Results, Timely, sync
  <1> QED BY <1>1, <1>2, <1>3, <1>4, <1>5, <1>6, StepFenced

\* What the run budget does not fail was finished within it, where it applies.
LEMMA NotExpired ==
  ASSUME NEW s, completed[s] \in Int, started[s] + plan[s].run \in Int,
         ~run_expired(s, completed[s])
  PROVE  completed[s] < started[s] + plan[s].run \/ ~sync(s)
  BY SMT DEF run_expired

LEMMA ReceiveFenced ==
  ASSUME Typed, HInv, FInv, NEW s \in Subs, Receive(s)
  PROVE  FInv'
  <1> FShape /\ Kept(s) /\ Unstarted(s) /\ TriedOnce(s) /\ Fenced(s) /\ Timely(s) /\ req[s] \in 0..issued
    BY FencedFacts
  <1>2. Ending
    BY SameEnding DEF Receive
  <1>b. completed[s] \in Int /\ started[s] + plan[s].run \in Int
    BY RunBudget
  <1> USE DEF FShape, Receive, Goto, Say, outside, acquiring
  <1>1. UNCHANGED plan /\ \A r \in Subs \ {s} : FSame(r) BY DEF FSame
  <1>3. Unstarted(s)' BY DEF Kept, Unstarted, BeforeWork, Refusals
  <1>4. TriedOnce(s)' BY DEF Kept, Unstarted, BeforeWork, TriedOnce
  <1>5. Fenced(s)' BY <1>2 DEF Kept, Unstarted, BeforeWork, Fenced, Results, Ending
  <1>6. Timely(s)'
    <2>1. CASE run_expired(s, completed[s])
      BY <2>1 DEF Fenced, Results, Timely, sync
    <2>2. CASE ~run_expired(s, completed[s])
      <3>1. completed[s] < started[s] + plan[s].run \/ ~sync(s)
        BY <1>b, <2>2, NotExpired
      <3> QED BY <2>2, <3>1 DEF Fenced, Results, Timely, sync
    <2> QED BY <2>1, <2>2
  <1> QED BY <1>1, <1>2, <1>3, <1>4, <1>5, <1>6, StepFenced

LEMMA StopWaitingFenced ==
  ASSUME Typed, HInv, FInv, NEW s \in Subs, StopWaiting(s)
  PROVE  FInv'
  <1> FShape /\ Kept(s) /\ Unstarted(s) /\ TriedOnce(s) /\ Fenced(s) /\ Timely(s) /\ req[s] \in 0..issued
    BY FencedFacts
  <1>2. Ending
    BY SameEnding DEF StopWaiting
  <1> USE DEF FShape, StopWaiting, Goto, Say, outside, acquiring, working
  <1>1. UNCHANGED plan /\ \A r \in Subs \ {s} : FSame(r) BY DEF FSame
  <1>3. Unstarted(s)' BY DEF Kept, Unstarted, BeforeWork, Refusals
  <1>4. TriedOnce(s)' BY DEF Kept, Unstarted, BeforeWork, TriedOnce
  <1>5. Fenced(s)' BY <1>2 DEF Kept, Unstarted, BeforeWork, Fenced, Results, Ending
  <1>6. Timely(s)' BY DEF Kept, Unstarted, Fenced, Results, Timely, sync
  <1> QED BY <1>1, <1>2, <1>3, <1>4, <1>5, <1>6, StepFenced

LEMMA HangupFenced ==
  ASSUME Typed, HInv, FInv, NEW s \in Subs, Hangup(s)
  PROVE  FInv'
  <1> FShape /\ Kept(s) /\ Unstarted(s) /\ TriedOnce(s) /\ Fenced(s) /\ Timely(s) /\ req[s] \in 0..issued
    BY FencedFacts
  <1>2. Ending
    BY SameEnding, DropLeaseEnding DEF Hangup
  <1> USE DEF FShape, Hangup, Goto, outside, acquiring
  <1>1. UNCHANGED plan /\ \A r \in Subs \ {s} : FSame(r) BY DEF FSame
  <1>3. Unstarted(s)' BY DEF Kept, Unstarted, BeforeWork, Refusals
  <1>4. TriedOnce(s)' BY DEF Kept, Unstarted, BeforeWork, TriedOnce
  <1>5. Fenced(s)' BY <1>2 DEF Kept, Unstarted, BeforeWork, Fenced, Results, Ending
  <1>6. Timely(s)' BY DEF Kept, Unstarted, Fenced, Results, Timely, sync
  <1> QED BY <1>1, <1>2, <1>3, <1>4, <1>5, <1>6, StepFenced

LEMMA DropFutureFenced ==
  ASSUME Typed, HInv, FInv, NEW s \in Subs, DropFuture(s)
  PROVE  FInv'
  <1> FShape /\ Kept(s) /\ Unstarted(s) /\ TriedOnce(s) /\ Fenced(s) /\ Timely(s) /\ req[s] \in 0..issued
    BY FencedFacts
  <1>2. Ending
    BY SameEnding, DropLeaseEnding DEF DropFuture
  <1> USE DEF FShape, DropFuture, Goto, Say, outside, acquiring, working
  <1>1. UNCHANGED plan /\ \A r \in Subs \ {s} : FSame(r) BY DEF FSame
  <1>3. Unstarted(s)' BY DEF Kept, Unstarted, BeforeWork, Refusals
  <1>4. TriedOnce(s)' BY DEF Kept, Unstarted, BeforeWork, TriedOnce
  <1>5. Fenced(s)' BY <1>2 DEF Kept, Unstarted, BeforeWork, Fenced, Results, Ending
  <1>6. Timely(s)' BY DEF Kept, Unstarted, Fenced, Results, Timely, sync
  <1> QED BY <1>1, <1>2, <1>3, <1>4, <1>5, <1>6, StepFenced

LEMMA StartFenced ==
  ASSUME Typed, HInv, FInv, NEW s \in Subs, Start(s)
  PROVE  FInv'
  <1> FShape /\ Kept(s) /\ Unstarted(s) /\ TriedOnce(s) /\ Fenced(s) /\ Timely(s) /\ req[s] \in 0..issued
    BY FencedFacts
  <1>2. Ending
    BY SameEnding DEF Start
  <1>a. req[s] \in leased
    BY DEF HInv, Owned, Kept, TokenAt, Start
  <1> USE DEF FShape, Start, refusals, Work, outside, acquiring
  <1>1. UNCHANGED plan /\ \A r \in Subs \ {s} : FSame(r) BY <1>a DEF FSame
  <1>3. Unstarted(s)' BY <1>a DEF Kept, Unstarted, BeforeWork, Refusals
  <1>4. TriedOnce(s)' BY <1>a DEF Kept, Unstarted, BeforeWork, TriedOnce
  <1>5. Fenced(s)' BY <1>a, <1>2 DEF Kept, Unstarted, BeforeWork, Fenced, Results, Ending
  <1>6. Timely(s)' BY <1>a DEF Kept, Unstarted, Fenced, Results, Timely, sync
  <1> QED BY <1>1, <1>2, <1>3, <1>4, <1>5, <1>6, StepFenced

LEMMA FinishFenced ==
  ASSUME Typed, HInv, FInv, NEW s \in Subs, Finish(s)
  PROVE  FInv'
  <1> FShape /\ Kept(s) /\ Unstarted(s) /\ TriedOnce(s) /\ Fenced(s) /\ Timely(s) /\ req[s] \in 0..issued
    BY FencedFacts
  <1>2. Ending
    BY SameEnding DEF Finish
  <1> USE DEF FShape, Finish, refusals, Work, outside, acquiring
  <1>1. UNCHANGED plan /\ \A r \in Subs \ {s} : FSame(r) BY DEF FSame
  <1>3. Unstarted(s)' BY DEF Kept, Unstarted, BeforeWork, Refusals
  <1>4. TriedOnce(s)' BY DEF Kept, Unstarted, BeforeWork, TriedOnce
  <1>5. Fenced(s)' BY <1>2 DEF Kept, Unstarted, BeforeWork, Fenced, Results, Ending
  <1>6. Timely(s)' BY DEF Kept, Unstarted, Fenced, Results, Timely, sync
  <1> QED BY <1>1, <1>2, <1>3, <1>4, <1>5, <1>6, StepFenced

LEMMA SendFenced ==
  ASSUME Typed, HInv, FInv, NEW s \in Subs, Send(s)
  PROVE  FInv'
  <1> FShape /\ Kept(s) /\ Unstarted(s) /\ TriedOnce(s) /\ Fenced(s) /\ Timely(s) /\ req[s] \in 0..issued
    BY FencedFacts
  <1>2. Ending
    BY SameEnding, DropLeaseEnding DEF Send
  <1> USE DEF FShape, Send, Work, outside, acquiring
  <1>1. UNCHANGED plan /\ \A r \in Subs \ {s} : FSame(r) BY DEF FSame
  <1>3. Unstarted(s)' BY DEF Kept, Unstarted, BeforeWork, Refusals
  <1>4. TriedOnce(s)' BY DEF Kept, Unstarted, BeforeWork, TriedOnce
  <1>5. Fenced(s)' BY <1>2 DEF Kept, Unstarted, BeforeWork, Fenced, Results, Ending
  <1>6. Timely(s)' BY DEF Kept, Unstarted, Fenced, Results, Timely, sync
  <1> QED BY <1>1, <1>2, <1>3, <1>4, <1>5, <1>6, StepFenced

LEMMA DiscardFenced ==
  ASSUME Typed, HInv, FInv, NEW s \in Subs, Discard(s)
  PROVE  FInv'
  <1> FShape /\ Kept(s) /\ Unstarted(s) /\ TriedOnce(s) /\ Fenced(s) /\ Timely(s) /\ req[s] \in 0..issued
    BY FencedFacts
  <1>2. Ending
    BY SameEnding, DropLeaseEnding DEF Discard
  <1> USE DEF FShape, Discard, Work, outside, acquiring
  <1>1. UNCHANGED plan /\ \A r \in Subs \ {s} : FSame(r) BY DEF FSame
  <1>3. Unstarted(s)' BY DEF Kept, Unstarted, BeforeWork, Refusals
  <1>4. TriedOnce(s)' BY DEF Kept, Unstarted, BeforeWork, TriedOnce
  <1>5. Fenced(s)' BY <1>2 DEF Kept, Unstarted, BeforeWork, Fenced, Results, Ending
  <1>6. Timely(s)' BY DEF Kept, Unstarted, Fenced, Results, Timely, sync
  <1> QED BY <1>1, <1>2, <1>3, <1>4, <1>5, <1>6, StepFenced

LEMMA DiscardedFenced ==
  ASSUME Typed, HInv, FInv, NEW s \in Subs, Discarded(s)
  PROVE  FInv'
  <1> FShape /\ Kept(s) /\ Unstarted(s) /\ TriedOnce(s) /\ Fenced(s) /\ Timely(s) /\ req[s] \in 0..issued
    BY FencedFacts
  <1>2. Ending
    BY SameEnding DEF Discarded
  <1> USE DEF FShape, Discarded, Work, outside, acquiring
  <1>1. UNCHANGED plan /\ \A r \in Subs \ {s} : FSame(r) BY DEF FSame
  <1>3. Unstarted(s)' BY DEF Kept, Unstarted, BeforeWork, Refusals
  <1>4. TriedOnce(s)' BY DEF Kept, Unstarted, BeforeWork, TriedOnce
  <1>5. Fenced(s)' BY <1>2 DEF Kept, Unstarted, BeforeWork, Fenced, Results, Ending
  <1>6. Timely(s)' BY DEF Kept, Unstarted, Fenced, Results, Timely, sync
  <1> QED BY <1>1, <1>2, <1>3, <1>4, <1>5, <1>6, StepFenced

LEMMA BootFenced ==
  ASSUME Typed, HInv, FInv, NEW s \in Subs, Boot(s)
  PROVE  FInv'
  <1> FShape /\ Kept(s) /\ Unstarted(s) /\ TriedOnce(s) /\ Fenced(s) /\ Timely(s) /\ req[s] \in 0..issued
    BY FencedFacts
  <1>2. Ending
    BY SameEnding DEF Boot
  <1> USE DEF FShape, Boot, refusals, Work, Reply, outside, acquiring
  <1>1. UNCHANGED plan /\ \A r \in Subs \ {s} : FSame(r) BY DEF FSame
  <1>3. Unstarted(s)' BY DEF Kept, Unstarted, BeforeWork, Refusals
  <1>4. TriedOnce(s)' BY DEF Kept, Unstarted, BeforeWork, TriedOnce
  <1>5. Fenced(s)' BY <1>2 DEF Kept, Unstarted, BeforeWork, Fenced, Results, Ending
  <1>6. Timely(s)' BY DEF Kept, Unstarted, Fenced, Results, Timely, sync
  <1> QED BY <1>1, <1>2, <1>3, <1>4, <1>5, <1>6, StepFenced

LEMMA RunRuntimeFenced ==
  ASSUME Typed, HInv, FInv, NEW s \in Subs, RunRuntime(s)
  PROVE  FInv'
  <1> FShape /\ Kept(s) /\ Unstarted(s) /\ TriedOnce(s) /\ Fenced(s) /\ Timely(s) /\ req[s] \in 0..issued
    BY FencedFacts
  <1>2. Ending
    BY SameEnding DEF RunRuntime
  <1>b. now < deadline(s) => now < started[s] + plan[s].run
    BY DeadlineBounds
  <1> USE DEF FShape, RunRuntime, Work, Reply, Keep, refusals, outside, acquiring
  <1>1. UNCHANGED plan /\ \A r \in Subs \ {s} : FSame(r) BY DEF FSame
  <1>3. Unstarted(s)' BY DEF Kept, Unstarted, BeforeWork, Refusals
  <1>4. TriedOnce(s)' BY DEF Kept, Unstarted, BeforeWork, TriedOnce
  <1>5. Fenced(s)' BY <1>2 DEF Kept, Unstarted, BeforeWork, Fenced, Results, Ending
  <1>6. Timely(s)' BY <1>b DEF Kept, Unstarted, Fenced, Results, Timely, sync
  <1> QED BY <1>1, <1>2, <1>3, <1>4, <1>5, <1>6, StepFenced

LEMMA TeardownFenced ==
  ASSUME Typed, HInv, FInv, NEW s \in Subs, Teardown(s)
  PROVE  FInv'
  <1> FShape /\ Kept(s) /\ Unstarted(s) /\ TriedOnce(s) /\ Fenced(s) /\ Timely(s) /\ req[s] \in 0..issued
    BY FencedFacts
  <1>2. Ending
    BY SameEnding, DropLeaseEnding DEF Teardown
  <1> USE DEF FShape, Teardown, Work, outside, acquiring
  <1>1. UNCHANGED plan /\ \A r \in Subs \ {s} : FSame(r) BY DEF FSame
  <1>3. Unstarted(s)' BY DEF Kept, Unstarted, BeforeWork, Refusals
  <1>4. TriedOnce(s)' BY DEF Kept, Unstarted, BeforeWork, TriedOnce
  <1>5. Fenced(s)' BY <1>2 DEF Kept, Unstarted, BeforeWork, Fenced, Results, Ending
  <1>6. Timely(s)' BY DEF Kept, Unstarted, Fenced, Results, Timely, sync
  <1> QED BY <1>1, <1>2, <1>3, <1>4, <1>5, <1>6, StepFenced

-----------------------------------------------------------------------------
\* The engine, the embedder and the clock leave the fence alone

LEMMA EngineStepFenced ==
  ASSUME Typed, FInv, Engine
  PROVE  FInv'
  <1>1. ASSUME NEW i \in waiting, PromoteOne(i) PROVE FInv'
    <2>1. Ending
      BY <1>1 DEF Ending, PromoteOne, Service!Promote, Service!Active
    <2> QED BY <1>1, <2>1, EngineFenced DEF PromoteOne, outside
  <1>2. ASSUME NEW i \in owed, Notify(i) PROVE FInv'
    BY <1>2, SameEnding, EngineFenced DEF Notify, outside
  <1> QED BY <1>1, <1>2 DEF Engine

LEMMA EnvironmentFenced ==
  ASSUME Typed, HInv, FInv, Environment
  PROVE  FInv'
  <1>1. CASE Tick
    BY <1>1, SameEnding, EngineFenced DEF Tick
  <1>2. ASSUME NEW s \in Subs, Fire(s) PROVE FInv'
    BY <1>2, SameEnding, EngineFenced DEF Fire
  <1>3. CASE Occupy
    <2>1. Ending
      BY <1>3, SMT DEF Typed, TypeEngine, Ending, Occupy, Service!Grant, Service!Active
    <2> QED BY <1>3, <2>1, EngineFenced DEF Occupy, outside
  <1>4. ASSUME NEW s \in Subs, DropFuture(s) \/ Discard(s) PROVE FInv'
    BY <1>4, DropFutureFenced, DiscardFenced
  <1>5. ASSUME NEW i \in held, Reclaim(i) PROVE FInv'
    <2>1. Ending
      BY <1>5 DEF Ending, Reclaim, Service!Return, Service!Active
    <2> QED BY <1>5, <2>1, EngineFenced DEF Reclaim, outside
  <1>6. ASSUME NEW i \in held, Intrude(i) PROVE FInv'
    <2>1. Ending
      BY <1>6 DEF Ending, Intrude, Service!Lease, Service!Active
    <2> QED BY <1>6, <2>1, EngineFenced DEF Intrude
  <1>7. ASSUME NEW i \in foreign, Withdrawn(i) PROVE FInv'
    <2>1. Ending
      BY <1>7 DEF Ending, Withdrawn, Service!Spend, Service!Active
    <2> QED BY <1>7, <2>1, EngineFenced DEF Withdrawn
  <1>8. ASSUME NEW S \in SUBSET waiting, Terminate(S) PROVE FInv'
    <2>1. Ending
      BY <1>8, SMTT(20) DEF Ending, Terminate, Service!Withdraw, Service!Active
    <2> QED BY <1>8, <2>1, EngineFenced DEF Terminate, outside
  <1> QED BY <1>1, <1>2, <1>3, <1>4, <1>5, <1>6, <1>7, <1>8 DEF Environment

LEMMA InitFenced == Init => FInv
  BY Bounds, SMT DEF Init, Service!Init, Service!Active, FInv, Answered, Unstarted, TriedOnce, Fenced,
                Timely, Results, Refusals, BeforeWork, None

LEMMA NextFenced == Typed /\ HInv /\ FInv /\ [Next]_vars => FInv'
  <1> SUFFICES ASSUME Typed, HInv, FInv, [Next]_vars PROVE FInv'
    BY SMT
  <1>1. ASSUME NEW s \in Subs, Caller(s) PROVE FInv'
    BY <1>1, SubmitFenced, AdmitFenced, LookFenced, ClaimFenced, PollFenced, WakeFenced,
       FinalizeFenced, GuardFenced, UnguardFenced, DispatchFenced, AdvanceFenced, SpawnFenced,
       ReleaseFenced, RespondFenced, ReceiveFenced, StopWaitingFenced, HangupFenced DEF Caller
  <1>2. ASSUME NEW s \in Subs, Worker(s) PROVE FInv'
    BY <1>2, StartFenced, SendFenced, DiscardedFenced, BootFenced DEF Worker
  <1>3. ASSUME NEW s \in Subs, WorkEnds(s) PROVE FInv'
    BY <1>3, RunCancellableFenced, FinishFenced, RunRuntimeFenced, TeardownFenced DEF WorkEnds
  <1>4. ASSUME NEW i \in pings, Settle(i) PROVE FInv'
    <2>1. Ending
      BY <1>4 DEF Ending, Settle, svc, Service!Active
    <2> QED BY <1>4, <2>1, EngineFenced DEF Settle, outside
  <1>5. CASE UNCHANGED vars
    BY <1>5, SameEnding, EngineFenced DEF vars, outside, host
  <1> QED BY <1>1, <1>2, <1>3, <1>4, <1>5, EngineStepFenced, EnvironmentFenced DEF Next

LEMMA FenceInvariance == Spec => []FInv
  BY InitFenced, NextFenced, TypeInvariance, HostInvariance, PTL DEF Spec

\* The release fence: a caller that has a result has it after its permit ended
\* and after the settlement was announced, on the caller's path, through the
\* channel, and against every drop, timer and token.
THEOREM FenceHolds == Spec => []ResultAfterRelease
  <1>1. FInv => ResultAfterRelease
    BY DEF FInv, Answered, Fenced, Results, ResultAfterRelease
  <1> QED BY <1>1, FenceInvariance, PTL

\* What was refused never ran, and TryOnce never runs what had to queue, however
\* the promotion raced the timeout, the token or the sweep.
THEOREM RefusalsHold == Spec => []RefusedNeverRan
  <1>1. FInv => RefusedNeverRan
    BY DEF FInv, Answered, Unstarted, TriedOnce, Refusals, RefusedNeverRan
  <1> QED BY <1>1, FenceInvariance, PTL

-----------------------------------------------------------------------------
\* Who answers

\* Every other step of a submission leaves its caller on the way.
Onward(s) == UNCHANGED pc \/ \E p : p # "answered" /\ Goto(s, p)

LEMMA StepsOnward ==
  ASSUME NEW s \in Subs
  PROVE  /\ Look(s) \/ Claim(s) \/ Poll(s) \/ Wake(s) \/ Finalize(s) \/ Guard(s) => Onward(s)
         /\ Unguard(s) \/ Dispatch(s) \/ Advance(s) \/ Spawn(s) => Onward(s)
         /\ Release(s) \/ Receive(s) \/ StopWaiting(s) \/ DropFuture(s) => Onward(s)
         /\ Worker(s) \/ WorkEnds(s) \/ Discard(s) => Onward(s)
  <1>1. Look(s) \/ Claim(s) \/ Poll(s) \/ Wake(s) \/ Finalize(s) \/ Guard(s) => Onward(s)
    BY DEF Look, Claim, Poll, Wake, Finalize, Guard, Onward
  <1>2. Unguard(s) \/ Dispatch(s) \/ Advance(s) \/ Spawn(s) => Onward(s)
    BY DEF Unguard, Dispatch, Advance, Spawn, Onward, HandOver, NotSpawned, run_cpu,
       run_blocking_on_pool, run_blocking_on_dedicated_thread, run_async_with_requested_stack
  <1>3. Release(s) \/ Receive(s) \/ StopWaiting(s) \/ DropFuture(s) => Onward(s)
    BY DEF Release, Receive, StopWaiting, DropFuture, Onward
  <1>4. Worker(s) \/ WorkEnds(s) \/ Discard(s) => Onward(s)
    BY DEF Worker, Start, Send, Discarded, Boot, Teardown, WorkEnds, RunCancellable, Finish,
       RunRuntime, Discard, Onward
  <1> QED BY <1>1, <1>2, <1>3, <1>4

LEMMA AnswersComeFrom ==
  ASSUME Typed, Next, NEW s \in Subs, pc[s] # "answered", pc'[s] = "answered"
  PROVE  Submit(s) \/ Admit(s) \/ Respond(s) \/ Hangup(s)
  <1>1. DOMAIN pc = Subs
    BY DEF Typed, TypeCaller
  <1>2. pc' # pc
    OBVIOUS
  <1>3. ASSUME NEW r \in Subs PROVE ~Onward(r)
    BY <1>1, <1>2 DEF Onward, Goto
  <1>4. ASSUME NEW r \in Subs, Submit(r) \/ Admit(r) \/ Respond(r) \/ Hangup(r) PROVE r = s
    BY <1>1, <1>2, <1>4 DEF Submit, Admit, Respond, Hangup, Answer, Goto
  <1>5. ~Engine
    BY <1>2 DEF Engine, PromoteOne, Notify, host
  <1>6. ~Environment
    BY <1>2, <1>3, StepsOnward DEF Environment, Tick, Fire, Occupy, Reclaim, Intrude,
       Withdrawn, Terminate, host
  <1>7. ~\E i \in pings : Settle(i)
    BY <1>2 DEF Settle, host
  <1>8. PICK r \in Subs : Caller(r)
    BY <1>2, <1>3, <1>5, <1>6, <1>7, StepsOnward DEF Next, vars
  <1>9. Submit(r) \/ Admit(r) \/ Respond(r) \/ Hangup(r)
    BY <1>3, <1>8, StepsOnward DEF Caller
  <1> QED BY <1>4, <1>9

\* An Ok is handed over only by finalize_released_response, with the token not
\* fired and the boundary not passed, and for work that ended inside its budget.
THEOREM OkOnTime == Spec => OkIsOnTime
  <1> DEFINE OnTime(s) == /\ ~stopped(s) /\ ~overdue(s)
                          /\ completed[s] < started[s] + plan[s].run
  <1>1. ASSUME Typed, FInv, Next, NEW s \in Subs, pc[s] # "answered", pc'[s] = "answered",
               answer'[s] = "Ok"
        PROVE  OnTime(s)
    <2>1. DOMAIN answer = Subs
      BY <1>1 DEF Typed, TypeCaller
    <2>2. ~Submit(s)
      <3>1. ASSUME Submit(s)
            PROVE  \/ Goto(s, "admit")
                   \/ \E v \in {"CancelledBefore", "Deadline", "TimedOut", "Unavailable",
                               "OutOfRange"} : Answer(s, v)
        BY <3>1, SMT DEF Submit, rejection
      <3>2. DOMAIN pc = Subs
        BY <1>1 DEF Typed, TypeCaller
      <3> QED BY <1>1, <2>1, <3>1, <3>2 DEF Answer, Goto, Say
    <2>3. ~Admit(s)
      <3>1. ASSUME Admit(s)
            PROVE  \/ Goto(s, "finalize") \/ Goto(s, "look")
                   \/ \E v \in {"CancelledBefore", "Deadline", "TimedOut", "Rejected"} : Answer(s, v)
        BY <3>1, SMT DEF Admit, rejection
      <3>2. DOMAIN pc = Subs
        BY <1>1 DEF Typed, TypeCaller
      <3> QED BY <1>1, <2>1, <3>1, <3>2 DEF Answer, Goto, Say
    <2>4. ~Hangup(s)
      BY <1>1 DEF FInv, Answered, Fenced, Results, Hangup
    <2>5. Respond(s)
      BY <1>1, <2>2, <2>3, <2>4, AnswersComeFrom
    <2>6. ~stopped(s) /\ ~overdue(s) /\ answer[s] = "Ok"
      BY <1>1, <2>1, <2>5 DEF Respond, Answer, Say
    <2> QED BY <1>1, <2>6 DEF FInv, Answered, Timely
  <1>2. Typed /\ FInv /\ [Next]_vars
        => [\A s \in Subs : pc[s] # "answered" /\ pc'[s] = "answered" /\ answer'[s] = "Ok"
                            => OnTime(s)]_vars
    BY <1>1
  <1> QED BY <1>2, TypeInvariance, FenceInvariance, PTL DEF Spec, OkIsOnTime

-----------------------------------------------------------------------------
\* Drains

\* What a drain relies on: a step of the host announces every request it ends, no
\* announcement is lost, and nothing is admitted once the engine is closed.
Announces ==
  /\ pings \subseteq pings'
  /\ closed => closed' /\ outstanding' \subseteq outstanding
  /\ outstanding \subseteq outstanding' \cup pings'

\* Nothing to announce.
LEMMA SameAnnounces == ASSUME UNCHANGED <<svc, pings>> PROVE Announces
  BY DEF Announces, svc, outstanding, Service!Active

\* A reserved permit is returned.
LEMMA ReleaseByIdAnnounces ==
  ASSUME NEW s \in Subs, ReleaseById(s)
  PROVE  Announces
  <1>1. CASE Service!Return(req[s]) /\ pings' = pings \cup {req[s]}
    BY <1>1 DEF Announces, outstanding, Service!Active, Service!Return
  <1> QED BY <1>1, SameAnnounces DEF ReleaseById

\* A lease is dropped.
LEMMA DropLeaseAnnounces ==
  ASSUME NEW s \in Subs, DropLease(s)
  PROVE  Announces
  <1>1. CASE Service!Spend(req[s]) /\ pings' = pings \cup {req[s]}
    BY <1>1 DEF Announces, outstanding, Service!Active, Service!Spend
  <1>2. CASE ReleaseByToken(s)
    BY <1>1, <1>2, SameAnnounces DEF ReleaseByToken
  <1> QED BY <1>2, ReleaseByIdAnnounces, SameAnnounces DEF DropLease

\* A ticket is abandoned.
LEMMA AbandonAnnounces ==
  ASSUME NEW s \in Subs, Abandon(s)
  PROVE  Announces
  <1>1. CASE Service!Withdraw({req[s]}) /\ pings' = pings \cup {req[s]}
    BY <1>1 DEF Announces, outstanding, Service!Active, Service!Withdraw
  <1> QED BY <1>1, ReleaseByIdAnnounces, SameAnnounces DEF Abandon

\* The caller's half: an engine call, or none.
LEMMA CallerAnnounces ==
  ASSUME NEW s \in Subs, Caller(s)
  PROVE  Announces
  <1>1. ASSUME Submit(s) \/ Look(s) \/ Claim(s) \/ Poll(s) \/ Wake(s) \/ Guard(s)
               \/ Respond(s) \/ Receive(s) \/ StopWaiting(s)
        PROVE  Announces
    <2>1. UNCHANGED <<svc, pings>>
      BY <1>1 DEF Submit, Look, Claim, Poll, Wake, Guard, Respond, Receive, StopWaiting
    <2> QED BY <2>1, SameAnnounces
  <1>2. CASE Admit(s)
    <2>1. CASE Service!Grant /\ pings' = pings
      BY <2>1 DEF Announces, outstanding, Service!Active, Service!Grant
    <2>2. CASE Service!Enqueue /\ pings' = pings
      BY <2>2 DEF Announces, outstanding, Service!Active, Service!Enqueue
    <2> QED BY <1>2, <2>1, <2>2, SameAnnounces DEF Admit
  <1>3. CASE Finalize(s)
    <2>1. ReleaseById(s) \/ UNCHANGED <<svc, pings>>
      BY <1>3 DEF Finalize
    <2> QED BY <2>1, ReleaseByIdAnnounces, SameAnnounces
  <1>4. CASE Unguard(s)
    <2>1. Abandon(s) \/ UNCHANGED <<svc, pings>>
      BY <1>4 DEF Unguard
    <2> QED BY <2>1, AbandonAnnounces, SameAnnounces
  <1>5. CASE Dispatch(s) \/ Spawn(s) \/ Release(s) \/ Hangup(s)
    <2>1. DropLease(s) \/ UNCHANGED <<svc, pings>>
      BY <1>5 DEF Dispatch, Spawn, Release, Hangup, run_blocking_on_pool,
         run_blocking_on_dedicated_thread, run_cpu, run_async_with_requested_stack, HandOver,
         NotSpawned
    <2> QED BY <2>1, DropLeaseAnnounces, SameAnnounces
  <1>6. CASE Advance(s)
    <2>1. CASE Service!Lease(req[s]) /\ pings' = pings
      BY <2>1 DEF Announces, outstanding, Service!Active, Service!Lease
    <2> QED BY <1>6, <2>1, SameAnnounces DEF Advance
  <1> QED BY <1>1, <1>2, <1>3, <1>4, <1>5, <1>6 DEF Caller

\* The worker's half, and the user's work.
LEMMA WorkerAnnounces ==
  ASSUME NEW s \in Subs, Worker(s) \/ WorkEnds(s) \/ DropFuture(s) \/ Discard(s)
  PROVE  Announces
  <1>1. DropLease(s) \/ UNCHANGED <<svc, pings>>
    BY DEF Worker, WorkEnds, Start, Send, Discarded, Boot, Teardown, RunCancellable, Finish,
       RunRuntime, DropFuture, Discard
  <1> QED BY <1>1, DropLeaseAnnounces, SameAnnounces

\* The engine and the outsiders.
LEMMA OutsideAnnounces ==
  ASSUME Engine \/ Environment
  PROVE  Announces
  <1>1. ASSUME NEW i \in waiting, PromoteOne(i) PROVE Announces
    BY <1>1 DEF PromoteOne, Announces, outstanding, Service!Active, Service!Promote
  <1>2. ASSUME NEW i \in owed, Notify(i) PROVE Announces
    BY <1>2, SameAnnounces DEF Notify
  <1>3. ASSUME NEW s \in Subs, Fire(s) PROVE Announces
    BY <1>3, SameAnnounces DEF Fire
  <1>4. CASE Tick
    BY <1>4, SameAnnounces DEF Tick
  <1>5. CASE Occupy
    BY <1>5 DEF Occupy, Announces, outstanding, Service!Active, Service!Grant
  <1>6. ASSUME NEW i \in held, Reclaim(i) \/ Intrude(i) PROVE Announces
    <2>1. CASE Service!Return(i) /\ pings' = pings \cup {i}
      BY <2>1 DEF Announces, outstanding, Service!Active, Service!Return
    <2>2. CASE Service!Lease(i) /\ pings' = pings
      BY <2>2 DEF Announces, outstanding, Service!Active, Service!Lease
    <2> QED BY <1>6, <2>1, <2>2 DEF Reclaim, Intrude
  <1>7. ASSUME NEW i \in foreign, Withdrawn(i) PROVE Announces
    BY <1>7 DEF Withdrawn, Announces, outstanding, Service!Active, Service!Spend
  <1>8. ASSUME NEW S \in SUBSET waiting, Terminate(S) PROVE Announces
    BY <1>8 DEF Terminate, Announces, outstanding, Service!Active, Service!Withdraw
  <1> QED BY <1>1, <1>2, <1>3, <1>4, <1>5, <1>6, <1>7, <1>8, WorkerAnnounces
      DEF Engine, Environment

\* Whatever the host does.
LEMMA HostAnnounces == ASSUME HostStep PROVE Announces
  BY CallerAnnounces, WorkerAnnounces, OutsideAnnounces DEF HostStep

\* The invariant of the drains: the mirror is set first, the engine is closed before a
\* drain looks, and one that waits in vain has been or will be woken.
DrainSound ==
  /\ DOMAIN drain = Drainers
  /\ \A d \in Drainers : drain[d] # "idle" => mirror
  /\ \A d \in Drainers : drain[d] \in {"listen", "look", "poll", "wait", "Drained"} => closed
  /\ \A d \in Drainers : drain[d] = "Drained" => outstanding = {}
  /\ DrainNotStranded

\* Drain d has moved to p, and no other.
Moved(d, p) ==
  /\ DOMAIN drain' = Drainers /\ drain'[d] = p
  /\ \A e \in Drainers \ {d} : drain'[e] = drain[e]

\* A drain moves alone.
LEMMA DrainGotoMoves ==
  ASSUME DrainSound, NEW d \in Drainers, NEW p, DrainGoto(d, p)
  PROVE  Moved(d, p)
  BY DEF DrainSound, DrainGoto, Moved

\* Nothing ends, and nothing is announced or forgotten.
Still == UNCHANGED <<pings, closed, mirror>> /\ outstanding' = outstanding

\* A step of a drain that leaves the others alone.
LEMMA DrainMoves ==
  ASSUME DrainSound, NEW d \in Drainers, NEW p, Moved(d, p), Still,
         mirror, \A e \in Drainers \ {d} : e \in woken' <=> e \in woken,
         p \in {"listen", "look", "poll", "wait", "Drained"} => closed,
         p = "Drained" => outstanding = {},
         p \in {"poll", "wait"} /\ d \notin woken' /\ outstanding = {} => pings # {}
  PROVE  DrainSound'
  BY DEF DrainSound, Moved, Still, DrainNotStranded

\* The host's steps.
LEMMA HostKeepsDrains ==
  ASSUME DrainSound, HostStep, UNCHANGED drains
  PROVE  DrainSound'
  <1>1. Announces
    BY HostAnnounces
  <1> QED BY <1>1 DEF Announces, DrainSound, DrainNotStranded, drains

\* A settlement wake completes every Notified there is.
LEMMA WakeDrainsKeepsDrains ==
  ASSUME DrainSound, NEW i \in pings, WakeDrains(i)
  PROVE  DrainSound'
  <1>1. closed' = closed /\ outstanding' = outstanding /\ UNCHANGED <<mirror, drain>>
    BY DEF WakeDrains, Settle, svc, outstanding, Service!Active
  <1>2. ASSUME NEW d \in Drainers, drain[d] \in {"poll", "wait"} PROVE d \in woken'
    <2>1. mirror
      BY <1>2 DEF DrainSound
    <2> QED BY <1>2, <2>1 DEF WakeDrains
  <1> QED BY <1>1, <1>2 DEF DrainSound, DrainNotStranded

\* The steps of a drain.
LEMMA DrainKeepsDrains ==
  ASSUME DrainSound, NEW d \in Drainers, Begin(d) \/ DrainStep(d)
  PROVE  DrainSound'
  <1>1. CASE Begin(d)
    <2>1. Moved(d, "close")
      BY <1>1, DrainGotoMoves DEF Begin
    <2>2. mirror' /\ UNCHANGED <<pings, closed, woken>> /\ outstanding' = outstanding
      BY <1>1 DEF Begin, vars, svc, outstanding, Service!Active
    <2> QED BY <2>1, <2>2 DEF DrainSound, Moved, DrainNotStranded
  <1>2. CASE CloseAdmission(d)
    <2>1. Moved(d, "listen")
      BY <1>2, DrainGotoMoves DEF CloseAdmission
    <2>2. closed' /\ UNCHANGED <<pings, mirror, woken>> /\ outstanding' = outstanding
      BY <1>2 DEF CloseAdmission, outstanding, Service!Active, Service!Close
    <2>3. mirror
      BY <1>2 DEF DrainSound, CloseAdmission
    <2> QED BY <2>1, <2>2, <2>3 DEF DrainSound, Moved, DrainNotStranded
  <1>3. ASSUME Listen(d) \/ LookAtGauges(d) \/ PollNotified(d) \/ Woken(d) \/ Expire(d)
        PROVE  DrainSound'
    <2>1. /\ drain[d] \in {"listen", "look", "poll", "wait"} /\ Still
          /\ \A e \in Drainers \ {d} : e \in woken' <=> e \in woken
      BY <1>3 DEF Listen, LookAtGauges, PollNotified, Woken, Expire, Still, vars, svc, outstanding,
         Service!Active
    <2>2. mirror /\ closed
      BY <2>1 DEF DrainSound
    <2>3. CASE Listen(d)
      BY <2>1, <2>2, <2>3, DrainGotoMoves, DrainMoves DEF Listen
    <2>4. CASE LookAtGauges(d)
      <3>1. CASE outstanding = {} /\ DrainGoto(d, "Drained")
        BY <2>1, <2>2, <3>1, DrainGotoMoves, DrainMoves
      <3>2. CASE outstanding # {} /\ DrainGoto(d, "poll")
        BY <2>1, <2>2, <3>2, DrainGotoMoves, DrainMoves
      <3> QED BY <2>4, <3>1, <3>2 DEF LookAtGauges
    <2>5. CASE PollNotified(d)
      <3>1. DrainGoto(d, "wait") /\ woken' = woken /\ drain[d] = "poll"
        BY <2>5 DEF PollNotified
      <3>2. d \notin woken' /\ outstanding = {} => pings # {}
        BY <3>1 DEF DrainSound, DrainNotStranded
      <3>3. Moved(d, "wait")
        BY <3>1, DrainGotoMoves
      <3> QED BY <2>1, <2>2, <3>2, <3>3, DrainMoves
    <2>6. CASE Woken(d)
      BY <2>1, <2>2, <2>6, DrainGotoMoves, DrainMoves DEF Woken
    <2>7. CASE Expire(d)
      <3>1. CASE outstanding = {} /\ DrainGoto(d, "Drained")
        BY <2>1, <2>2, <3>1, DrainGotoMoves, DrainMoves
      <3>2. CASE outstanding # {} /\ DrainGoto(d, "NotDrained")
        BY <2>1, <2>2, <3>2, DrainGotoMoves, DrainMoves
      <3> QED BY <2>7, <3>1, <3>2 DEF Expire
    <2> QED BY <1>3, <2>3, <2>4, <2>5, <2>6, <2>7
  <1> QED BY <1>1, <1>2, <1>3 DEF DrainStep

\* A step of the composition is a step of the host, or closes the admission, which
\* the custody of the leases does not look at.
LEMMA DrainKeepsHost ==
  ASSUME HInv, [DrainNext]_allVars
  PROVE  HInv'
  <1>1. CASE HostStep
    BY <1>1, NextKeeps DEF HostStep, Next
  <1>2. ASSUME NEW i \in pings, WakeDrains(i) PROVE HInv'
    BY <1>2, NextKeeps DEF WakeDrains, Next
  <1>3. ASSUME NEW d \in Drainers, CloseAdmission(d) PROVE HInv'
    <2>1. /\ UNCHANGED <<issued, waiting, held, leased, tokens>>
          /\ UNCHANGED <<foreign, host, waking>>
      BY <1>3 DEF CloseAdmission, Service!Close, outside
    <2>2. Engaged' /\ Owned'
      BY <2>1 DEF HInv, Engaged, Owned, host, acquiring
    <2> QED BY <2>1, <2>2, EngineKeeps DEF Quiet, waking
  <1>4. CASE UNCHANGED vars
    BY <1>4, NextKeeps
  <1>5. ASSUME NEW d \in Drainers, Begin(d) \/ DrainStep(d), ~CloseAdmission(d) PROVE UNCHANGED vars
    BY <1>5 DEF Begin, DrainStep, Listen, LookAtGauges, PollNotified, Woken, Expire
  <1> QED BY <1>1, <1>2, <1>3, <1>4, <1>5 DEF DrainNext, allVars

\* Initially nobody drains.
LEMMA DrainInitSound == ASSUME DrainInit PROVE HInv /\ DrainSound
  <1>1. HInv
    BY InitHolds DEF DrainInit
  <1>2. DOMAIN drain = Drainers /\ \A d \in Drainers : drain[d] = "idle"
    BY DEF DrainInit
  <1> QED BY <1>1, <1>2 DEF DrainSound, DrainNotStranded

\* Every step keeps both invariants.
LEMMA DrainNextSound == ASSUME HInv, DrainSound, [DrainNext]_allVars PROVE (HInv /\ DrainSound)'
  <1>1. HInv'
    BY DrainKeepsHost
  <1>2. ASSUME UNCHANGED allVars PROVE DrainSound'
    <2>1. /\ UNCHANGED <<pings, closed, mirror, drain, woken>>
          /\ outstanding' = outstanding
      BY <1>2 DEF allVars, vars, drains, svc, outstanding, Service!Active
    <2> QED BY <2>1 DEF DrainSound, DrainNotStranded
  <1>3. DrainSound'
    BY <1>2, HostKeepsDrains, WakeDrainsKeepsDrains, DrainKeepsDrains DEF DrainNext
  <1> QED BY <1>1, <1>3

\* The host under its drains.
LEMMA DrainInvariance == DrainSpec => [](HInv /\ DrainSound)
  BY DrainInitSound, DrainNextSound, PTL DEF DrainSpec

\* A drain that has reported success stays right: what it counted has ended, leases and
\* user work included, and a closed engine admits nothing that could undo it.
THEOREM DrainedStaysIdle == DrainSpec => []DrainedIsIdle
  <1>1. ASSUME HInv, DrainSound, NEW d \in Drainers, drain[d] = "Drained"
        PROVE  /\ closed /\ outstanding = {} /\ tokens = {}
               /\ \A s \in Subs : pc[s] # "running" /\ work[s] \notin {"queued", "running", "teardown"}
    <2>1. closed /\ outstanding = {} /\ leased = {}
      BY <1>1 DEF DrainSound, outstanding, Service!Active
    <2>2. tokens = {} /\ \A s \in Subs : lease[s] \notin TokenAt
      BY <1>1, <2>1 DEF HInv, Engaged, Owned
    <2> QED BY <1>1, <2>1, <2>2 DEF HInv, Kept, TokenAt
  <1>2. HInv /\ DrainSound => DrainedIsIdle
    BY <1>1 DEF DrainedIsIdle
  <1> QED BY <1>2, DrainInvariance, PTL

\* No drain sleeps through the end: the Notified is created before the look, and the
\* mirror that gates the settlement wake is set before the engine is closed.
THEOREM NoDrainStranded == DrainSpec => []DrainNotStranded
  <1>1. HInv /\ DrainSound => DrainNotStranded
    BY DEF DrainSound
  <1> QED BY <1>1, DrainInvariance, PTL
=============================================================================
