---------------------------- MODULE PressureChain ----------------------------
(***************************************************************************)
(* From the pressure sample's due event to the published pressure: the     *)
(* ZSSC3241 driver (drivers/zssc3241/zssc3241.c), the manager that drives  *)
(* it over the bus (services/measurement/measurement_manager.c), and the   *)
(* sensor.  The bus answers every accepted transaction once and, for one   *)
(* client, in order: I2cBus.  Event handlers and bus answers interleave.   *)
(***************************************************************************)
EXTENDS Naturals, Sequences

CONSTANTS
    PressureRoom,  \* bound: events of this chain in the queue
    MaxSamples,    \* bound: due events
    MaxTransfers,  \* bound: transactions waiting for their answer
    Busy,          \* an answer with the busy bit
    NoPressure

ASSUME BoundsAssumption ==
    PressureRoom \in Nat /\ MaxSamples \in Nat /\ MaxTransfers \in Nat

\* The response buffer holds the number of a sample, or one of these.
Zeroed == 0

VARIABLES
    due,           \* bound: due events so far
    queued,        \* the chain's events in the queue, oldest first
    zssc,          \* Zssc3241Driver
    buffer,        \* driver.response_buffer
    rawMailbox,    \* driver.raw_mailbox while raw_mailbox_valid
    nextId,        \* mgr.next_pressure_correlation_id
    transfers,     \* transactions of this client that the bus has accepted
    sensor,        \* the sample the sensor works at or holds
    published,     \* snapshot.pressure
    rested         \* history: samples that were started with the chain at rest

pressureVars ==
    <<due, queued, zssc, buffer, rawMailbox, nextId, transfers, sensor, published, rested>>

PressureInit ==
    /\ due = 0 /\ queued = <<>>
    /\ zssc = [state |-> "IDLE", sequence |-> 0, correlation |-> 0]
    /\ buffer = Zeroed /\ rawMailbox = NoPressure /\ nextId = 1
    /\ transfers = <<>> /\ sensor = [sample |-> 0, busy |-> FALSE]
    /\ published = NoPressure /\ rested = {}

-----------------------------------------------------------------------------
(* Events.                                                                 *)

\* The queue is shared: a post may be refused whatever this chain has in it.
QueueAfter(queue, id) ==
    {queue} \cup (IF Len(queue) < PressureRoom THEN {Append(queue, id)} ELSE {})

Post(id) == queued' \in QueueAfter(queued, id)

\* The scheduler posts a due event at any time, also while a sample is under way.
SampleDue ==
    /\ due < MaxSamples /\ due' = due + 1 /\ Post("SAMPLE_DUE")
    /\ UNCHANGED <<zssc, buffer, rawMailbox, nextId, transfers, sensor, published, rested>>

\* The poll timer runs while a conversion is waited for, the timeout while a
\* sample is under way.
TimerFires ==
    /\ \/ zssc.state \in {"WAITING_EOC", "POLLING"} /\ Post("POLL_DUE")
       \/ zssc.state # "IDLE" /\ Post("TIMEOUT")
    /\ queued' # queued
    /\ UNCHANGED <<due, zssc, buffer, rawMailbox, nextId, transfers, sensor, published, rested>>

\* The conversion ends, and the end is signalled.
ConversionEnds ==
    /\ sensor.busy /\ sensor' = [sensor EXCEPT !.busy = FALSE]
    /\ Post("EOC")
    /\ UNCHANGED <<due, zssc, buffer, rawMailbox, nextId, transfers, published, rested>>

-----------------------------------------------------------------------------
(* The handlers of the manager, each with the call of the driver it makes. *)

\* The bus accepts the transaction, or refuses it.
Submitted(t) ==
    \/ Len(transfers) < MaxTransfers /\ transfers' = Append(transfers, t)
    \/ UNCHANGED transfers

Request(kind, correlation, sample) ==
    [kind |-> kind, correlation |-> correlation, sample |-> sample, carried |-> FALSE]

\* No earlier start, conversion or signal of its end is left.  Reads may be.
AtRest ==
    /\ ~sensor.busy
    /\ \A i \in DOMAIN transfers : transfers[i].kind # "start"
    /\ \A i \in DOMAIN queued' : queued'[i] \notin {"EOC", "POLL_DUE"}

\* submit_pressure_start: a number is used up even when the driver is busy, and a
\* driver in STARTING starts anew, which zssc3241_on_sample_due meant to skip.
OnSampleDue ==
    LET state == IF zssc.state = "IDLE" THEN "STARTING" ELSE zssc.state
        sample == zssc.sequence + 1
    IN
    /\ nextId' = nextId + 1
    /\ rawMailbox' = IF zssc.state = "IDLE" THEN NoPressure ELSE rawMailbox
    /\ IF state = "STARTING"
       THEN /\ zssc' = [state |-> state, sequence |-> sample, correlation |-> nextId]
            /\ Submitted(Request("start", nextId, sample))
            /\ rested' = IF AtRest THEN rested \cup {sample} ELSE rested
       ELSE UNCHANGED <<zssc, transfers, rested>>
    /\ UNCHANGED <<buffer, published>>

\* Mutant: the buffer keeps the answer of an earlier read.
ReadUncleared(state) ==
    /\ zssc' = [zssc EXCEPT !.state = state]
    /\ UNCHANGED buffer
    /\ Submitted(Request("read", zssc.correlation, zssc.sequence))
    /\ UNCHANGED <<rawMailbox, nextId, published, rested>>

\* submit_pressure_read, from any state.
Read(state) ==
    /\ zssc' = [zssc EXCEPT !.state = state]
    /\ buffer' = Zeroed
    /\ Submitted(Request("read", zssc.correlation, zssc.sequence))
    /\ UNCHANGED <<rawMailbox, nextId, published, rested>>

OnPressureTimeout ==
    /\ zssc' = [zssc EXCEPT !.state = "TIMEOUT"]
    /\ rawMailbox' = NoPressure
    /\ UNCHANGED <<buffer, nextId, transfers, published, rested>>

Take ==
    /\ zssc' = [zssc EXCEPT !.state = "IDLE"]
    /\ rawMailbox' = NoPressure

\* A status without the powered bit is refused by the pressure service.
IsUsable(sample) == sample.data # Zeroed

OnPressureReady ==
    /\ IF rawMailbox = NoPressure
       THEN UNCHANGED <<zssc, rawMailbox, published>>
       ELSE /\ Take
            /\ published' = IF IsUsable(rawMailbox) THEN rawMailbox ELSE published
    /\ UNCHANGED <<buffer, nextId, transfers, rested>>

\* One turn of the event loop.
PressureTurn ==
    /\ queued # <<>> /\ queued' = Tail(queued)
    /\ LET e == Head(queued) IN
       \/ e = "SAMPLE_DUE" /\ OnSampleDue
       \/ e = "EOC" /\ Read("READING")
       \/ e = "POLL_DUE" /\ Read("POLLING")
       \/ e = "TIMEOUT" /\ OnPressureTimeout
       \/ e = "RAW_READY" /\ OnPressureReady
    /\ UNCHANGED <<due, sensor>>

-----------------------------------------------------------------------------
(* The bus.                                                                *)

\* Mutant: an answer that an earlier sample asked for is taken for the awaited one.
IsAnyAnswer(t) == t.correlation # 0

IsAwaited(t) == t.correlation = zssc.correlation

\* zssc3241_on_i2c_completion for a transaction that succeeded, with the buffer
\* that the manager hands over in READING and POLLING.
Succeeds(t, received) ==
    IF ~IsAwaited(t) THEN UNCHANGED <<zssc, rawMailbox, queued>>
    ELSE IF zssc.state = "STARTING"
    THEN /\ zssc' = [zssc EXCEPT !.state = "WAITING_EOC"]
         /\ UNCHANGED <<rawMailbox, queued>>
    ELSE IF zssc.state \notin {"READING", "POLLING"}
    THEN /\ zssc' = [zssc EXCEPT !.state = "RECOVERY"]
         /\ UNCHANGED <<rawMailbox, queued>>
    ELSE IF received = Busy
    THEN /\ zssc' = [zssc EXCEPT !.state = "POLLING"]
         /\ UNCHANGED <<rawMailbox, queued>>
    ELSE /\ zssc' = [zssc EXCEPT !.state = "RAW_READY"]
         /\ rawMailbox' = [sequence |-> zssc.sequence, data |-> received]
         /\ Post("RAW_READY")

Fails(t) ==
    /\ zssc' = IF IsAwaited(t) THEN [zssc EXCEPT !.state = "RECOVERY"] ELSE zssc
    /\ UNCHANGED <<rawMailbox, queued>>

\* The oldest transaction is carried out on the wires: the sensor starts, although a
\* busy one may ignore the command, or its status and result reach the buffer.
BusCarries ==
    /\ transfers # <<>> /\ ~Head(transfers).carried
    /\ transfers' = [transfers EXCEPT ![1].carried = TRUE]
    /\ IF Head(transfers).kind = "start"
       THEN /\ sensor' \in {[sample |-> Head(transfers).sample, busy |-> TRUE]}
                                \cup (IF sensor.busy THEN {sensor} ELSE {})
            /\ UNCHANGED buffer
       ELSE /\ buffer' = IF sensor.busy THEN Busy ELSE sensor.sample
            /\ UNCHANGED sensor
    /\ UNCHANGED <<due, queued, zssc, rawMailbox, nextId, published, rested>>

\* Its completion reaches the driver, later: success only for one carried out,
\* failure for any.
BusAnswers ==
    /\ transfers # <<>> /\ transfers' = Tail(transfers)
    /\ LET t == Head(transfers) IN
       \/ t.carried /\ Succeeds(t, buffer)
       \/ Fails(t)
    /\ UNCHANGED <<due, buffer, nextId, sensor, published, rested>>

-----------------------------------------------------------------------------
PressureNext == SampleDue \/ TimerFires \/ ConversionEnds \/ PressureTurn \/ BusCarries \/ BusAnswers

PressureSpec == PressureInit /\ [][PressureNext]_pressureVars

-----------------------------------------------------------------------------
(* Properties.                                                             *)

\* What is published under the number of a sample that was started with the chain at
\* rest is what the sensor measured for it, whatever due events follow, although its
\* start and reads share one correlation and the reads of earlier samples one buffer,
\* completions are late, and an end of conversion may be handled before the completion
\* of the start.  A sample that meets an earlier start or conversion gets no such promise
\* from the code: it may be given the earlier conversion.
PressureIsOfItsSample ==
    /\ published # NoPressure
    /\ published.sequence \in rested
    => published.data = published.sequence
=============================================================================
