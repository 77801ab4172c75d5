------------------------------ MODULE Scheduler ------------------------------
(***************************************************************************)
(* Cross-class dispatch (features/fairness/scheduler.rs): the tags a       *)
(* request carries while it is queued, the discipline that picks the next  *)
(* class, and the credit and virtual time the choice leaves behind.        *)
(*                                                                         *)
(* Whether a queued request fits is decided elsewhere; here each request   *)
(* needs one lane (a capability pool), and a dispatch sees some lanes free *)
(* and others not.  Tags have the width of the code's u128 scaled down to  *)
(* MaxTag, so that rebasing happens.                                       *)
(***************************************************************************)
EXTENDS Integers, Sequences, FiniteSets, SequencesExt, FiniteSetsExt

CONSTANTS
  Mixes,     \* what is scheduled: records [fairness, lanes, costs, depth], where
             \* costs are the CPU units a request can ask for and depth bounds
             \* the queue of a class
  Scale,     \* WFQ_SCALE
  MaxTag,    \* u128::MAX
  MaxNow     \* bound: the clock

Disciplines == {"Fifo", "Wfq", "Drr", "Edf", "Scavenger"}

\* FairnessPolicy with its parameter (weight, quantum, slack) and the tier.
FairnessPolicies == [kind: Disciplines, param: Nat, best_effort: BOOLEAN]

ASSUME SchedulerAssumption ==
  /\ Scale \in Nat \ {0} /\ MaxNow \in Nat /\ MaxTag \in Nat
  /\ \A m \in Mixes :
       /\ m.depth \in Nat /\ m.costs \subseteq Nat \ {0} /\ m.costs # {}
       /\ \A units \in m.costs : units * Scale <= MaxTag
       /\ \A c \in DOMAIN m.fairness :
            /\ c \in Nat \ {0} /\ m.fairness[c] \in FairnessPolicies
            /\ m.fairness[c].kind \in {"Wfq", "Drr"} => m.fairness[c].param > 0

VARIABLES
  mix,            \* the classes, in their lexicographic order, and the lanes
  queue,          \* the queued requests of each class
  last_finish,    \* ClassState.last_finish_tag
  last_served,    \* ClassState.last_served_finish_tag
  deficit,        \* ClassState.deficit
  virtual_time,   \* GovernedState.virtual_time
  cursor,         \* GovernedState.drr_cursor, None before the first round
  now,            \* the clock
  turn            \* what the last step did: the class it served, Cancelled or None

vars == <<mix, queue, last_finish, last_served, deficit, virtual_time, cursor, now, turn>>

None == 0
Cancelled == -1
Classes == DOMAIN mix.fairness
kind(c) == mix.fairness[c].kind
param(c) == mix.fairness[c].param

Larger(a, b) == Max({a, b})
saturating_add(a, b) == Min({a + b, MaxTag})
saturating_sub(a, b) == Larger(a - b, 0)

Init ==
  /\ mix \in Mixes
  /\ queue = [c \in Classes |-> <<>>]
  /\ last_finish = [c \in Classes |-> 0] /\ last_served = [c \in Classes |-> 0]
  /\ deficit = [c \in Classes |-> 0]
  /\ virtual_time = 0 /\ cursor = None /\ now = 0 /\ turn = None

-----------------------------------------------------------------------------
\* Tags

wfq_increment(units, weight) == (Larger(units, 1) * Scale) \div Larger(weight, 1)

\* Mutant of rebase: the requests that are already queued keep their tags.
rebase_classes(requests, origin) == requests

\* rebase_virtual_time on the requests of one queue.
rebase(requests, origin) ==
  [i \in DOMAIN requests |->
     [requests[i] EXCEPT !.finish = saturating_sub(@, origin),
                         !.arrival = saturating_sub(@, origin)]]

\* rebuild_wfq_queue: the tags follow from the service received and the arrivals.
rebuild(requests, weight, served) ==
  LET finish[i \in 0..Len(requests)] ==
        IF i = 0 THEN served
        ELSE saturating_add(Larger(finish[i - 1], requests[i].arrival),
                            wfq_increment(requests[i].cost, weight))
  IN [i \in DOMAIN requests |-> [requests[i] EXCEPT !.finish = finish[i]]]

\* Where a request stands in the arrival order of all that are queued.  Only the
\* order of queue_order is ever read, so it is kept without gaps.
queued == UNION {{queue[c][i].order : i \in DOMAIN queue[c]} : c \in Classes}
close_gap(requests, order) ==
  [i \in DOMAIN requests |->
     [requests[i] EXCEPT !.order = IF @ > order THEN @ - 1 ELSE @]]

without(c, i) ==
  [d \in Classes |-> close_gap(IF d = c THEN RemoveAt(queue[c], i) ELSE queue[d],
                               queue[c][i].order)]

-----------------------------------------------------------------------------
\* Arrival and departure

\* enqueue_tags: weighted fair classes stack on their own last tag, and a tag
\* that would overflow first moves every tag down by the virtual time.
Enqueue(c, units, lane) ==
  /\ Len(queue[c]) < mix.depth
  /\ LET increment == wfq_increment(units, param(c))
         base == Larger(last_finish[c], virtual_time)
         overflows == kind(c) = "Wfq" /\ base + increment > MaxTag
         origin == IF overflows THEN virtual_time ELSE 0
         start == Larger(saturating_sub(last_finish[c], origin), virtual_time - origin)
         tag == IF kind(c) = "Wfq" THEN saturating_add(start, increment) ELSE 0
         request == [order |-> Cardinality(queued) + 1, cost |-> units, lane |-> lane,
                     finish |-> tag,
                     arrival |-> IF kind(c) = "Wfq" THEN virtual_time - origin ELSE 0,
                     deadline |-> IF kind(c) = "Edf" THEN now + param(c) ELSE MaxNow + 99]
         shifted == [d \in Classes |-> rebase(queue[d], origin)]
     IN /\ queue' = [shifted EXCEPT ![c] = Append(@, request)]
        /\ virtual_time' = virtual_time - origin
        /\ last_finish' = [d \in Classes |->
             IF d = c /\ kind(c) = "Wfq" THEN tag ELSE saturating_sub(last_finish[d], origin)]
        /\ last_served' = [d \in Classes |-> saturating_sub(last_served[d], origin)]
  /\ turn' = None
  /\ UNCHANGED <<mix, deficit, cursor, now>>

\* Mutant of RemoveUnserved: the cancelled request's share of virtual time stays behind.
RemoveInDebt(c, i) ==
  /\ queue' = without(c, i)
  /\ turn' = Cancelled
  /\ UNCHANGED <<mix, last_finish, last_served, deficit, virtual_time, cursor, now>>

\* A queued request leaves unserved (abandoned or terminated), and
\* on_unserved_removed: an emptied class starts afresh, a weighted fair one is
\* repriced as if the request had never come.
RemoveUnserved(c, i) ==
  /\ LET rest == without(c, i)
         left == rest[c]
         repriced == IF kind(c) = "Wfq" THEN rebuild(left, param(c), last_served[c]) ELSE left
     IN /\ queue' = [rest EXCEPT ![c] = repriced]
        /\ last_finish' = [last_finish EXCEPT ![c] =
             IF left = <<>> THEN virtual_time
             ELSE Larger(Max({repriced[j].finish : j \in DOMAIN repriced}), virtual_time)]
        /\ last_served' = [last_served EXCEPT ![c] = IF left = <<>> THEN virtual_time ELSE @]
        /\ deficit' = [deficit EXCEPT ![c] = IF left = <<>> THEN 0 ELSE @]
  /\ turn' = Cancelled
  /\ UNCHANGED <<mix, virtual_time, cursor, now>>

Tick == /\ now < MaxNow /\ now' = now + 1
        /\ turn' = None
        /\ UNCHANGED <<mix, queue, last_finish, last_served, deficit, virtual_time, cursor>>

-----------------------------------------------------------------------------
\* Dispatch

\* The requests of a class that may go: the first of its lane, on a free lane.
eligible(c, free) ==
  {i \in DOMAIN queue[c] : /\ queue[c][i].lane \in free
                           /\ \A j \in 1..(i - 1) : queue[c][j].lane # queue[c][i].lane}

\* runnable_candidates: the first eligible request of each class.
candidates(free) == {c \in Classes : eligible(c, free) # {}}
index(c, free) == Min(eligible(c, free))
head(c, free) == queue[c][index(c, free)]
cost(c, free) == Larger(head(c, free).cost, 1)

\* The tag the service is priced at.  A request that overtakes a blocked head is
\* priced from the service its class actually received.
finish_tag(c, free) ==
  IF kind(c) # "Wfq" \/ index(c, free) = 1 THEN head(c, free).finish
  ELSE saturating_add(Larger(last_served[c], head(c, free).arrival),
                      wfq_increment(head(c, free).cost, param(c)))

\* Tier split: best effort only when nothing else is runnable.
tier(free) ==
  LET primary == {c \in candidates(free) : ~mix.fairness[c].best_effort}
  IN IF primary # {} THEN primary ELSE candidates(free)

\* The discipline of the lexicographically first class decides for the tier.
discipline(free) == kind(Min(tier(free)))

drr_quantum(c) == IF kind(c) = "Drr" THEN param(c) ELSE 1

\* The cursor's class goes on while its deficit covers its head.
keeps_turn(free) == cursor \in tier(free) /\ deficit[cursor] >= cost(cursor, free)

\* The place of a class in the ring that starts after the cursor.
offset(c, free) ==
  Cardinality({d \in tier(free) : IF (d > cursor) = (c > cursor) THEN d < c ELSE d > cursor})

\* Mutant of drr_visit: one visit too few when the division leaves a rest.
drr_visit_rounded_down(c, free) ==
  LET visits == IF deficit[c] >= cost(c, free) THEN 1
                ELSE Larger((cost(c, free) - deficit[c]) \div drr_quantum(c), 1)
  IN offset(c, free) + (visits - 1) * Cardinality(tier(free))

\* The position in the walk at which a class first affords its head.
drr_visit(c, free) ==
  LET visits == IF deficit[c] >= cost(c, free) THEN 1
                ELSE (cost(c, free) - deficit[c] + drr_quantum(c) - 1) \div drr_quantum(c)
  IN offset(c, free) + (visits - 1) * Cardinality(tier(free))

\* drr_select in closed form: the earliest position wins, and every class is
\* credited for the visits on the way there.
drr_wins(c, free) ==
  IF keeps_turn(free) THEN c = cursor
  ELSE \A d \in tier(free) : drr_visit(c, free) <= drr_visit(d, free)

\* Mutant of drr_credit: the class that keeps its turn is credited again.
drr_credit_again(c, free, position) ==
  IF c \notin tier(free) \/ offset(c, free) > position THEN 0
  ELSE ((position - offset(c, free)) \div Cardinality(tier(free)) + 1) * drr_quantum(c)

drr_credit(c, free, position) ==
  IF keeps_turn(free) \/ c \notin tier(free) \/ offset(c, free) > position THEN 0
  ELSE ((position - offset(c, free)) \div Cardinality(tier(free)) + 1) * drr_quantum(c)

drr_settle(winner, free) ==
  [c \in Classes |->
     saturating_sub(deficit[c] + drr_credit(c, free, drr_visit(winner, free)),
                    IF c = winner THEN cost(c, free) ELSE 0)]

\* The key of each discipline; the arrival order breaks every tie.
key(c, free) == CASE discipline(free) = "Wfq" -> finish_tag(c, free)
                  [] discipline(free) = "Edf" -> head(c, free).deadline
                  [] OTHER -> 0

wins(c, free) ==
  IF discipline(free) = "Drr" THEN drr_wins(c, free)
  ELSE \A d \in tier(free) :
         \/ key(c, free) < key(d, free)
         \/ key(c, free) = key(d, free) /\ head(c, free).order <= head(d, free).order

\* select on the lanes that are free, the removal of the request it names, and
\* on_request_served.
Serve(c, free) ==
  /\ c \in tier(free) /\ wins(c, free)
  /\ virtual_time' = IF discipline(free) = "Wfq" THEN Larger(virtual_time, finish_tag(c, free))
                     ELSE virtual_time
  /\ cursor' = IF discipline(free) = "Drr" THEN c ELSE cursor
  /\ LET rest == without(c, index(c, free))
         left == rest[c]
         served == Larger(last_served[c], finish_tag(c, free))
         overtook == index(c, free) > 1 /\ kind(c) = "Wfq"
         repriced == IF overtook THEN rebuild(left, param(c), served) ELSE left
         credit == IF discipline(free) = "Drr" THEN drr_settle(c, free) ELSE deficit
     IN /\ queue' = [rest EXCEPT ![c] = repriced]
        /\ deficit' = [credit EXCEPT ![c] = IF left = <<>> THEN 0 ELSE @]
        /\ last_served' = [last_served EXCEPT ![c] = IF left = <<>> THEN virtual_time' ELSE served]
        /\ last_finish' = [last_finish EXCEPT ![c] =
             IF left = <<>> THEN virtual_time'
             ELSE IF overtook THEN Larger(Last(repriced).finish, virtual_time') ELSE @]
  /\ turn' = c
  /\ UNCHANGED <<mix, now>>

Next == \/ \E c \in Classes, units \in mix.costs, lane \in mix.lanes : Enqueue(c, units, lane)
        \/ \E c \in Classes : \E i \in DOMAIN queue[c] : RemoveUnserved(c, i)
        \/ \E free \in SUBSET mix.lanes, c \in Classes : Serve(c, free)
        \/ Tick

\* Capacity comes back: dispatch goes on happening while something is runnable on
\* the full set of lanes (weak fairness of Serve, with its enabling condition
\* spelled out).
Fairness == \/ []<><<turn' \in Classes>>_vars
            \/ []<>(candidates(mix.lanes) = {})
Spec == Init /\ [][Next]_vars /\ Fairness

-----------------------------------------------------------------------------
\* Properties

\* Deficit round robin one visit at a time: each position of the walk belongs to
\* a class of the ring and brings it a quantum; the walk ends at the first
\* position whose class then affords its head.
visits(c, free, k) ==
  Cardinality({j \in 0..k : j % Cardinality(tier(free)) = offset(c, free)})
affords(c, free, k) == deficit[c] + visits(c, free, k) * drr_quantum(c) >= cost(c, free)

\* The arithmetic shortcut of drr_select is the ring walk: same class, same
\* deficits, in every state and for every set of free lanes.
DrrIsRingWalk ==
  \A free \in SUBSET mix.lanes :
    candidates(free) # {} /\ discipline(free) = "Drr" /\ ~keeps_turn(free) =>
      \E k \in 0..(Cardinality(tier(free)) * Max(mix.costs)), winner \in tier(free) :
        /\ k % Cardinality(tier(free)) = offset(winner, free) /\ affords(winner, free, k)
        /\ \A j \in 0..(k - 1), c \in tier(free) :
             j % Cardinality(tier(free)) = offset(c, free) => ~affords(c, free, j)
        /\ {c \in tier(free) : drr_wins(c, free)} = {winner}
        /\ \A c \in tier(free) :
             drr_settle(winner, free)[c]
             = deficit[c] + visits(c, free, k) * drr_quantum(c)
               - (IF c = winner THEN cost(c, free) ELSE 0)

\* A weighted fair class owes only for service it received: the first queued
\* request finishes at most its own increment after the virtual time, or after
\* the class's last service, whatever was cancelled, overtaken, saturated or
\* rebased before.
NoWfqDebt ==
  \A c \in Classes : kind(c) = "Wfq" /\ queue[c] # <<>> =>
    queue[c][1].finish <= Larger(virtual_time, last_served[c])
                          + wfq_increment(queue[c][1].cost, param(c))

\* Credit does not pile up: an idle class holds none, in any discipline, and a
\* waiting one never more than its dearest request and one quantum.
CreditBounded ==
  \A c \in Classes :
    /\ queue[c] = <<>> => /\ deficit[c] = 0
                          /\ Larger(last_finish[c], last_served[c]) <= virtual_time
    /\ deficit[c] < Max(mix.costs) + drr_quantum(c)

waits(c) == IF c \in Classes /\ Cardinality(mix.lanes) = 1 /\ turn # c
            THEN queue[c] # <<>> /\ \A d \in Classes : kind(d) \in {"Wfq", "Drr"}
            ELSE FALSE

\* Every class of a weighted fair or round robin mix gets its turn, however fast
\* the others keep arriving and across overflows of the virtual time, unless
\* requests are cancelled for ever (a cancellation after an overflow reprices
\* the queue from tags that saturated at zero).
NoStarvation ==
  \A c \in UNION {DOMAIN m.fairness : m \in Mixes} :
    \/ waits(c) ~> ~waits(c)
    \/ []<>(turn = Cancelled)
=============================================================================
