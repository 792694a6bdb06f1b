------------------------------ MODULE Telemetry -----------------------------
(***************************************************************************)
(* The telemetry queue and the cellular delivery service that drains it    *)
(* (services/connectivity/telemetry_queue.c, cellular_delivery.c).  Both   *)
(* run in the main loop, so a call is one step.  The modem, its outcomes   *)
(* and the producer of records are the environment.                        *)
(***************************************************************************)
EXTENDS Integers, FiniteSets, FiniteSetsExt

CONSTANTS
    Capacity,        \* TELEMETRY_QUEUE_CAPACITY: 64 in the code
    CounterModulus,  \* count is uint16_t: 2^16 in the code
    TTL,             \* TELEMETRY_TTL_US, in ticks of the model's clock
    RetryDelay,      \* DELIVERY_RETRY_DELAY_US
    MaxRetries,      \* DELIVERY_MAX_RETRIES
    MaxRecords,      \* bound: record_sequence of the last record produced
    MaxTime          \* bound: the clock

ASSUME SizesAssumption ==
    /\ CounterModulus \in Nat /\ Capacity \in 1 .. CounterModulus - 1
    /\ MaxRecords \in Nat /\ MaxTime \in Nat
    /\ TTL \in Nat \ {0} /\ RetryDelay \in Nat /\ MaxRetries \in Nat \ {0}

VARIABLES
    entries, count, tail,        \* TelemetryQueue
    hasInFlight, inFlightIdx,
    delivery,                    \* CellularDeliveryService.state
    online,                      \* conn_status is CONN_ONLINE
    current,                     \* current_record_seq
    attempts,                    \* attempt_count
    retryAt,                     \* retry_at_us
    now,                         \* the monotonic clock handed to every call
    awaiting,                    \* the modem owes the outcome of an attempt
    produced,                    \* history: records produced so far
    answered,                    \* history: records the server has answered
    disturbed                    \* history: an attempt was lost, or an entry
                                 \* still needed was overwritten

queueVars == <<entries, count, tail, hasInFlight, inFlightIdx>>
deliveryVars == <<delivery, online, current, attempts, retryAt>>
envVars == <<now, awaiting, produced, answered, disturbed>>
vars == <<queueVars, deliveryVars, envVars>>

Indices == 0 .. Capacity - 1
Sequences == 1 .. MaxRecords
\* memset leaves every entry BUILT, the state a record never has in the queue.
Blank == [state |-> "BUILT", sequence |-> 0, at |-> 0]

Init ==
    /\ entries = [i \in Indices |-> Blank]
    /\ count = 0 /\ tail = 0
    /\ hasInFlight = FALSE /\ inFlightIdx = 0
    /\ delivery = "IDLE" /\ online = FALSE /\ current = 0
    /\ attempts = 0 /\ retryAt = 0
    /\ now = 0 /\ awaiting = FALSE /\ produced = 0 /\ answered = {}
    /\ disturbed = FALSE

-----------------------------------------------------------------------------
(* TelemetryQueue.                                                         *)

In(i, states) == entries[i].state \in states
Minus(n, k) == (n - k) % CounterModulus

\* The index with the smallest time among S; the first one of equal times.
Oldest(S) ==
    CHOOSE i \in S : \A j \in S :
        entries[i].at < entries[j].at \/ (entries[i].at = entries[j].at /\ i <= j)

\* Mutant: an entry in flight does not count as a duplicate.
IsDuplicateOfQueued(s) ==
    \E i \in Indices : In(i, {"QUEUED"}) /\ entries[i].sequence = s

IsDuplicate(s) ==
    \E i \in Indices : ~In(i, {"BUILT", "DROPPED"}) /\ entries[i].sequence = s

Expired ==
    {i \in Indices : /\ In(i, {"QUEUED", "BUILT"})
                     /\ entries[i].at > 0 /\ now - entries[i].at >= TTL}

Dropped(es, S) == [i \in Indices |-> IF i \in S THEN [es[i] EXCEPT !.state = "DROPPED"]
                                                ELSE es[i]]

\* TelemetryQueue_Tick
QueueTick ==
    /\ entries' = Dropped(entries, Expired)
    /\ count' = Minus(count, Cardinality(Expired))
    /\ UNCHANGED <<tail, hasInFlight, inFlightIdx>>

\* What a full queue gives up: the expired records, else the oldest one that
\* is waiting and older than the call; nothing else makes room.
Victims ==
    LET older == {i \in Indices : In(i, {"BUILT", "QUEUED"}) /\ entries[i].at < now}
    IN IF count < Capacity THEN {}
       ELSE IF Expired # {} THEN Expired
       ELSE IF older # {} THEN {Oldest(older)} ELSE {}

\* Mutant: the count is not lowered for what a full queue drops.
CountNotLowered(dropped) == count + 1

CountAfter(dropped) == Minus(count, Cardinality(dropped)) + 1

\* TelemetryQueue_Enqueue, when it answers QUEUE_OK.
Enqueue(s) ==
    /\ ~IsDuplicate(s)
    /\ Minus(count, Cardinality(Victims)) < Capacity
    /\ entries' = [Dropped(entries, Victims) EXCEPT
                     ![tail] = [state |-> "QUEUED", sequence |-> s, at |-> now]]
    /\ count' = CountAfter(Victims)
    /\ tail' = (tail + 1) % Capacity
    /\ UNCHANGED <<hasInFlight, inFlightIdx>>

Queued == {i \in Indices : In(i, {"QUEUED"})}

\* Mutant: a record already in flight is not looked at.
CanDequeueMany == count # 0 /\ Queued # {}

\* TelemetryQueue_Dequeue
CanDequeue == ~hasInFlight /\ count # 0 /\ Queued # {}

Dequeue ==
    /\ CanDequeue
    /\ entries' = [entries EXCEPT ![Oldest(Queued)].state = "IN_FLIGHT"]
    /\ inFlightIdx' = Oldest(Queued)
    /\ hasInFlight' = TRUE
    /\ UNCHANGED <<count, tail>>

\* TelemetryQueue_Ack
Acknowledgeable(s) ==
    {i \in Indices : In(i, {"IN_FLIGHT", "QUEUED"}) /\ entries[i].sequence = s}

\* Mutant: the acknowledged entry is taken for one to drop.
AckFirstEntry(s) ==
    IF s = 0 \/ Acknowledgeable(s) = {} THEN UNCHANGED queueVars
    ELSE /\ entries' = [entries EXCEPT ![0].state = "ACKNOWLEDGED"]
         /\ count' = Minus(count, 1)
         /\ hasInFlight' = FALSE
         /\ UNCHANGED <<tail, inFlightIdx>>

Ack(s) ==
    IF s = 0 \/ Acknowledgeable(s) = {} THEN UNCHANGED queueVars
    ELSE LET i == Min(Acknowledgeable(s))
         IN /\ entries' = [entries EXCEPT ![i].state = "ACKNOWLEDGED"]
            /\ count' = Minus(count, 1)
            /\ hasInFlight' = (hasInFlight /\ inFlightIdx # i)
            /\ UNCHANGED <<tail, inFlightIdx>>

-----------------------------------------------------------------------------
(* CellularDelivery.                                                       *)

Live(i) == In(i, {"QUEUED", "IN_FLIGHT"})

\* The producer hands over the next record, or repeats one it handed over.
Produce ==
    /\ \E s \in 1 .. produced + 1 :
          /\ s <= MaxRecords /\ s \notin answered
          /\ Enqueue(s)
          /\ produced' = IF s > produced THEN s ELSE produced
    /\ disturbed' = (disturbed \/ (Live(tail) /\ tail \notin Victims))
    /\ UNCHANGED <<deliveryVars, now, awaiting, answered>>

Expire ==
    /\ Expired # {}
    /\ QueueTick
    /\ UNCHANGED <<deliveryVars, envVars>>

Connect ==
    /\ ~online
    /\ online' = TRUE /\ delivery' = "IDLE"
    /\ UNCHANGED <<queueVars, current, attempts, retryAt, envVars>>

Disconnect ==
    /\ online
    /\ online' = FALSE /\ delivery' = "IDLE"
    /\ disturbed' = (disturbed \/ awaiting)
    /\ UNCHANGED <<queueVars, current, attempts, retryAt, now, awaiting,
                   produced, answered>>

\* CellularDelivery_StartAttempt, in the state the delivery is in by then.
Start ==
    /\ online
    /\ Dequeue
    /\ delivery' = "SENDING"
    /\ current' = entries[Oldest(Queued)].sequence
    /\ attempts' = attempts + 1
    /\ awaiting' = TRUE
    /\ UNCHANGED <<online, retryAt, now, produced, answered, disturbed>>

StartAttempt == delivery = "IDLE" /\ Start

\* CellularDelivery_Complete: the server has taken or refused the record.
CompleteAnswered ==
    /\ awaiting /\ awaiting' = FALSE
    /\ Ack(current)
    /\ answered' = answered \union {current}
    /\ delivery' = "IDLE" /\ attempts' = 0
    /\ UNCHANGED <<online, current, retryAt, now, produced, disturbed>>

\* TRANSPORT_FAILED or TIMEOUT: wait and retry, or give the record up.
CompleteFailed ==
    /\ awaiting /\ awaiting' = FALSE
    /\ now + RetryDelay <= MaxTime
    /\ IF attempts >= MaxRetries
       THEN delivery' = "IDLE" /\ attempts' = 0 /\ UNCHANGED retryAt
       ELSE delivery' = "RETRY_WAIT" /\ retryAt' = now + RetryDelay
            /\ UNCHANGED attempts
    /\ disturbed' = TRUE
    /\ UNCHANGED <<queueVars, online, current, now, produced, answered>>

\* OUTCOME_UNKNOWN, CANCELLED
CompleteUnknown ==
    /\ awaiting /\ awaiting' = FALSE
    /\ delivery' = "IDLE" /\ attempts' = 0
    /\ disturbed' = TRUE
    /\ UNCHANGED <<queueVars, online, current, retryAt, now, produced, answered>>

\* CellularDelivery_Tick: the state is IDLE again, and an attempt starts if
\* there is something to send.
DeliveryTick ==
    /\ delivery = "RETRY_WAIT" /\ now >= retryAt
    /\ IF online /\ CanDequeue THEN Start
       ELSE /\ delivery' = "IDLE"
            /\ UNCHANGED <<queueVars, online, current, attempts, retryAt, envVars>>

Clock ==
    /\ now < MaxTime
    /\ now' = now + 1
    /\ UNCHANGED <<queueVars, deliveryVars, awaiting, produced, answered, disturbed>>

Next ==
    \/ Produce \/ Expire \/ Connect \/ Disconnect \/ StartAttempt
    \/ CompleteAnswered \/ CompleteFailed \/ CompleteUnknown
    \/ DeliveryTick \/ Clock

Spec == Init /\ [][Next]_vars

\* The main loop calls both ticks and starts attempts; the modem connects
\* again and again, stays up often enough for an attempt, and reports an
\* outcome of every attempt; time passes.
FairSpec ==
    /\ Spec
    /\ WF_vars(Connect) /\ SF_vars(StartAttempt) /\ WF_vars(DeliveryTick)
    /\ WF_vars(CompleteAnswered \/ CompleteFailed \/ CompleteUnknown)
    /\ WF_vars(Expire) /\ WF_vars(Clock)

-----------------------------------------------------------------------------
TypeOK ==
    /\ entries \in [Indices ->
          [state : {"BUILT", "QUEUED", "IN_FLIGHT", "ACKNOWLEDGED", "DROPPED"},
           sequence : Sequences \union {0}, at : 0 .. MaxTime]]
    /\ count \in 0 .. Capacity
    /\ tail \in Indices /\ inFlightIdx \in Indices
    /\ hasInFlight \in BOOLEAN /\ online \in BOOLEAN /\ awaiting \in BOOLEAN
    /\ delivery \in {"IDLE", "SENDING", "RETRY_WAIT"}
    /\ current \in Sequences \union {0}
    /\ attempts \in 0 .. MaxRetries
    /\ retryAt \in 0 .. MaxTime /\ now \in 0 .. MaxTime
    /\ produced \in 0 .. MaxRecords /\ answered \subseteq Sequences
    /\ disturbed \in BOOLEAN

(* Repeated production, drops and slot reuse never put one record into the *)
(* queue twice (FW-TQ-REQ-004).                                            *)
OneEntryPerRecord ==
    \A i, j \in Indices :
        Live(i) /\ Live(j) /\ entries[i].sequence = entries[j].sequence => i = j

(* At most one record is in flight, and it is the marked one               *)
(* (FW-TQ-REQ-003).                                                        *)
OneInFlight ==
    \A i \in Indices : In(i, {"IN_FLIGHT"}) => hasInFlight /\ inFlightIdx = i

(* Unless an attempt is lost or an entry overwritten, every record that    *)
(* waits is answered or dropped by policy, also while the queue overflows  *)
(* and the link comes and goes between attempts.                           *)
RecordsAreSettled ==
    \A s \in Sequences :
        (\E i \in Indices : In(i, {"QUEUED"}) /\ entries[i].sequence = s)
        ~> (disturbed \/ \A i \in Indices : Live(i) => entries[i].sequence # s)
=============================================================================
