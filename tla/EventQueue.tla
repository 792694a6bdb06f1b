----------------------------- MODULE EventQueue -----------------------------
(***************************************************************************)
(* The application event queue (infrastructure/queues/app_event_queue.c):  *)
(* bounded admission with a share of the slots closed to background        *)
(* traffic, coalescing of LEVEL events, and priority dequeue with a        *)
(* fairness budget.  Each call is one step here: app_event_queue_post and  *)
(* app_event_queue_try_get run inside the bound critical section.          *)
(***************************************************************************)
EXTENDS Integers, Sequences, FiniteSets, SequencesExt

CONSTANTS
    Kinds,             \* the event catalogue: [id, source, priority, delivery]
    Payloads,          \* what tells two events of one kind apart
    NoPayload,         \* before the first post of a signal
    Capacity,          \* config.capacity, after the clamp
    ReservedCritical,  \* config.reserved_critical, after the clamp
    CounterModulus     \* the counters are uint32_t: 2^32 in the code

\* AppEventPriority: the smaller, the more urgent.
CRITICAL == 0
MEASUREMENT == 1
SHARED_RESOURCE == 2
CONFIG == 3
BACKGROUND == 4

Priorities == CRITICAL .. BACKGROUND
Deliveries == {"EDGE", "COMPLETION", "LEVEL", "DEADLINE", "MAILBOX"}

\* The literal 4 of try_get: dequeues of urgent events in a row before the
\* oldest event is served whatever its priority.
FairnessBudget == 4

ASSUME SizesAssumption ==
    /\ Capacity \in Nat
    /\ ReservedCritical \in 0 .. Capacity
    /\ CounterModulus \in Nat \ {0}

ASSUME CatalogueAssumption ==
    \A k \in Kinds : k.priority \in Priorities /\ k.delivery \in Deliveries

\* No producer posts one LEVEL signal under two priorities (the only LEVEL
\* event of the firmware, EVT_POWER_STATUS_CHANGED, is always BACKGROUND).
ASSUME OnePriorityPerSignal ==
    \A k, l \in Kinds :
        /\ k.delivery = "LEVEL" /\ l.delivery = "LEVEL"
        /\ k.id = l.id /\ k.source = l.source
        => k.priority = l.priority

\* A posted event: its catalogue entry and its payload.
Event == [kind : Kinds, payload : Payloads]

VARIABLES
    buffer,              \* the pending events, oldest first
    consecutive,         \* consecutive_dequeue_count
    critical_emergency,
    overflow_count,
    starvation_count,
    latest,              \* history: last admitted payload of each LEVEL kind's signal
    bypassed             \* history: dequeues that passed over the present head

vars == <<buffer, consecutive, critical_emergency, overflow_count,
          starvation_count, latest, bypassed>>

Bump(counter) == (counter + 1) % CounterModulus

-----------------------------------------------------------------------------
(* Admission: post_unlocked.                                               *)

CanCoalesce(kind) == kind.delivery = "LEVEL"

SameSignal(k, l) == k.id = l.id /\ k.source = l.source

\* Mutant: the search starts one slot late.
CoalesceSkipsHead(buf, event, i) ==
    /\ i \in DOMAIN buf \ {1}
    /\ CanCoalesce(event.kind) /\ CanCoalesce(buf[i].kind)
    /\ SameSignal(buf[i].kind, event.kind)

\* find_coalesce_target: the first pending LEVEL event of the same signal.
IsCoalesceTarget(buf, event, i) ==
    LET Equivalent(j) == CanCoalesce(buf[j].kind) /\ SameSignal(buf[j].kind, event.kind)
    IN  /\ CanCoalesce(event.kind)
        /\ i \in DOMAIN buf
        /\ Equivalent(i)
        /\ \A j \in 1 .. (i - 1) : ~Equivalent(j)

Coalesces(buf, event) == \E i \in DOMAIN buf : IsCoalesceTarget(buf, event, i)

IsBackground(kind) == kind.priority \notin {CRITICAL, MEASUREMENT}

\* Mutant: no share is kept free.
AdmitToCapacity(kind) == Capacity

\* Background events are admitted below capacity - reserved_critical only.
AdmissionLimit(kind) ==
    IF IsBackground(kind) THEN Capacity - ReservedCritical ELSE Capacity

Remember(event) ==
    latest' = [k \in Kinds |->
                 IF /\ CanCoalesce(k) /\ CanCoalesce(event.kind)
                    /\ SameSignal(k, event.kind)
                 THEN event.payload ELSE latest[k]]

\* EVENT_POST_COALESCED: the pending event is overwritten where it stands.
PostCoalesced(event) ==
    /\ \E i \in DOMAIN buffer :
          /\ IsCoalesceTarget(buffer, event, i)
          /\ buffer' = [buffer EXCEPT ![i] = event]
    /\ Remember(event)
    /\ UNCHANGED <<consecutive, critical_emergency, overflow_count,
                   starvation_count, bypassed>>

\* EVENT_POST_OK.
PostAdmitted(event) ==
    /\ ~Coalesces(buffer, event)
    /\ Len(buffer) < AdmissionLimit(event.kind)
    /\ buffer' = Append(buffer, event)
    /\ Remember(event)
    /\ UNCHANGED <<consecutive, critical_emergency, overflow_count,
                   starvation_count, bypassed>>

\* EVENT_POST_OVERFLOW_ESCALATED: a critical event found the queue full.
PostEscalated(event) ==
    /\ ~Coalesces(buffer, event)
    /\ Len(buffer) >= AdmissionLimit(event.kind)
    /\ event.kind.priority = CRITICAL
    /\ critical_emergency' = TRUE
    /\ UNCHANGED <<buffer, consecutive, overflow_count, starvation_count,
                   latest, bypassed>>

\* EVENT_POST_BACKPRESSURE.
PostRefused(event) ==
    /\ ~Coalesces(buffer, event)
    /\ Len(buffer) >= AdmissionLimit(event.kind)
    /\ event.kind.priority # CRITICAL
    /\ overflow_count' = Bump(overflow_count)
    /\ UNCHANGED <<buffer, consecutive, critical_emergency, starvation_count,
                   latest, bypassed>>

Post(event) ==
    \/ PostCoalesced(event)
    \/ PostAdmitted(event)
    \/ PostEscalated(event)
    \/ PostRefused(event)

-----------------------------------------------------------------------------
(* Dequeue: try_get.                                                       *)

\* Mutant: the budget is compared with > instead of >=.
ForceFairLate(budget_used) == budget_used > FairnessBudget

ForceFairDequeue(budget_used) == budget_used >= FairnessBudget

\* Mutant: the scan keeps the last of equals (<= for <).
SelectsNewest(buf, budget_used, i) ==
    /\ i \in DOMAIN buf
    /\ IF ForceFairDequeue(budget_used)
       THEN i = 1
       ELSE \A j \in DOMAIN buf :
               IF j > i THEN buf[i].kind.priority < buf[j].kind.priority
                        ELSE buf[i].kind.priority <= buf[j].kind.priority

\* The oldest of the most urgent events, or the oldest event of all.
IsSelected(buf, budget_used, i) ==
    /\ i \in DOMAIN buf
    /\ IF ForceFairDequeue(budget_used)
       THEN i = 1
       ELSE /\ \A j \in DOMAIN buf : buf[i].kind.priority <= buf[j].kind.priority
            /\ \A j \in 1 .. (i - 1) : buf[i].kind.priority < buf[j].kind.priority

\* Mutants: the forced dequeue does not reset the budget; every dequeue does.
BudgetNotReset(priority, budget_used) ==
    IF priority <= SHARED_RESOURCE THEN budget_used + 1 ELSE 0
BudgetAlwaysReset(priority, budget_used) == 0

BudgetAfter(priority, budget_used) ==
    IF ~ForceFairDequeue(budget_used) /\ priority <= SHARED_RESOURCE
    THEN budget_used + 1 ELSE 0

\* The history counter stops one past the budget: more tells nothing new.
BypassedAfter(i) ==
    IF i = 1 THEN 0
    ELSE IF bypassed > FairnessBudget THEN bypassed ELSE bypassed + 1

TryGet ==
    \E i \in DOMAIN buffer :
        /\ IsSelected(buffer, consecutive, i)
        /\ buffer' = RemoveAt(buffer, i)
        /\ consecutive' = BudgetAfter(buffer[i].kind.priority, consecutive)
        /\ starvation_count' =
              IF ForceFairDequeue(consecutive) /\ buffer[i].kind.priority = CRITICAL
              THEN Bump(starvation_count) ELSE starvation_count
        /\ bypassed' = BypassedAfter(i)
        /\ UNCHANGED <<critical_emergency, overflow_count, latest>>

-----------------------------------------------------------------------------
Init ==
    /\ buffer = <<>>
    /\ consecutive = 0
    /\ critical_emergency = FALSE
    /\ overflow_count = 0
    /\ starvation_count = 0
    /\ latest = [k \in Kinds |-> NoPayload]
    /\ bypassed = 0

Next ==
    \/ \E event \in Event : Post(event)
    \/ TryGet

Spec == Init /\ [][Next]_vars

\* The event loop polls the queue for ever (app_event_loop_run_once is called
\* from the main loop), so a non-empty queue is eventually served.  Producers
\* owe nothing.
FairSpec == Spec /\ WF_vars(TryGet)

-----------------------------------------------------------------------------
TypeOK ==
    /\ buffer \in Seq(Event)
    /\ consecutive \in 0 .. FairnessBudget
    /\ critical_emergency \in BOOLEAN
    /\ overflow_count \in 0 .. (CounterModulus - 1)
    /\ starvation_count \in 0 .. (CounterModulus - 1)
    /\ latest \in [Kinds -> Payloads \cup {NoPayload}]
    /\ bypassed \in 0 .. (FairnessBudget + 1)

BackgroundSlots == {i \in DOMAIN buffer : IsBackground(buffer[i].kind)}

\* The reservation that the code really makes (app_event_queue.c, the comment
\* above is_background): whatever the order of posts, coalescings and
\* dequeues, background events never hold a slot of the critical share.
BackgroundShareBounded ==
    /\ Len(buffer) <= Capacity
    /\ Cardinality(BackgroundSlots) <= Capacity - ReservedCritical

\* The fairness budget (try_get): an event at the head that is not BACKGROUND
\* is passed over by at most FairnessBudget dequeues before it is served.
HeadBypassBounded ==
    buffer # <<>> /\ Head(buffer).kind.priority <= CONFIG
        => bypassed <= FairnessBudget

\* LEVEL means latest state (find_coalesce_target): a signal is pending at
\* most once, and what is pending is the last payload that was admitted, never
\* an older one that a consumer would act on after the newer.
PendingLevelIsLatest ==
    \A i \in DOMAIN buffer :
        CanCoalesce(buffer[i].kind) =>
            /\ buffer[i].payload = latest[buffer[i].kind]
            /\ \A j \in DOMAIN buffer :
                  CanCoalesce(buffer[j].kind) /\ SameSignal(buffer[i].kind, buffer[j].kind)
                      => i = j

\* Per-priority FIFO (the scan of try_get keeps the first of equals, and the
\* fair dequeue takes the head): an event never leaves the queue while an older
\* event of its own priority is pending.
FifoWithinPriority ==
    [][Len(buffer') < Len(buffer) =>
          \E d \in DOMAIN buffer :
              /\ buffer' = RemoveAt(buffer, d)
              /\ \A j \in 1 .. (d - 1) :
                    buffer[j].kind.priority # buffer[d].kind.priority]_vars

Pending(k) == \E i \in DOMAIN buffer : buffer[i].kind = k

\* No starvation above BACKGROUND (FW-EVT-REQ-003 as far as the code keeps
\* it): a pending LEVEL signal of any other priority is served, however many
\* events of any priority keep arriving.
UrgentSignalsServed ==
    \A k \in Kinds :
        (CanCoalesce(k) /\ k.priority <= CONFIG) => (Pending(k) ~> ~Pending(k))

=============================================================================
