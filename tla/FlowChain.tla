------------------------------ MODULE FlowChain ------------------------------
(***************************************************************************)
(* From the flow meter's interrupt to the published volume: the MAX35103   *)
(* driver and its mailbox (drivers/max35103/max35103.c), the manager that  *)
(* handles one event per turn and publishes flow, volume and leak result   *)
(* in one transaction (services/measurement/measurement_manager.c), and    *)
(* the accumulator (services/volume/volume_accumulator.c).  Time counts    *)
(* units in which a rate moves a whole volume: fractions and overflow of   *)
(* the counters are left out.  The event queue is shared: a post may be    *)
(* refused whatever this chain has in it.                                  *)
(***************************************************************************)
EXTENDS Integers, Sequences

CONSTANTS
    Rates,         \* flow rates a frame decodes to
    MaxGap,        \* maximum_integration_gap_us
    MaxAge,        \* age of a temperature that still pairs with a sample
    Room,          \* bound: events of this chain in the queue
    MaxIrqs,       \* bound: interrupts
    MaxTime,       \* bound: time
    None           \* no sample, no result

ASSUME SizesAssumption ==
    /\ Rates \subseteq Int /\ MaxGap \in Nat /\ MaxAge \in Nat
    /\ Room \in Nat /\ MaxIrqs \in Nat /\ MaxTime \in Nat

\* anchor_valid tells an accumulator without an anchor from one with any anchor.
ASSUME NoneAssumption == None \notin [at : 0 .. MaxTime, rate : Rates]

VARIABLES
    now,           \* monotonic time
    raised,        \* bound: interrupts so far
    unread,        \* interrupts whose frame the port has not delivered
    events,        \* the chain's events in the queue, oldest first
    driver,        \* Max35103Driver
    mailbox,       \* its raw_flow_mailbox while raw_flow_mailbox_valid
    temperature,   \* snapshot.temperature, None while it is not usable
    volume,        \* mgr.volume_accumulator
    leak,          \* last_flow_sequence of mgr.leak_detection
    snapshot,      \* snapshot.flow, .volume and .leak
    publications,  \* history: the snapshots published, in order
    discarded      \* history: publications after which a sample was taken in vain

devices == <<now, raised, unread>>
live == <<volume, leak, snapshot, publications>>
vars == <<devices, events, driver, mailbox, temperature, live, discarded>>

Init ==
    /\ now = 0 /\ raised = 0 /\ unread = 0 /\ events = <<>>
    /\ driver = [state |-> "IDLE", at |-> 0, sequence |-> 0, ready |-> 0]
    /\ mailbox = None /\ temperature = None
    /\ volume = [anchor |-> None, sequence |-> 0, version |-> 0, forward |-> 0, reverse |-> 0]
    /\ leak = 0
    /\ snapshot = [flow |-> None, volume |-> volume, leak |-> leak]
    /\ publications = <<>> /\ discarded = {}

-----------------------------------------------------------------------------
(* The world outside.                                                      *)

Event(id, at, rate) == [id |-> id, at |-> at, rate |-> rate]

\* A post that the queue accepts, or refuses.
Posted(queue, e) == {queue} \cup (IF Len(queue) < Room THEN {Append(queue, e)} ELSE {})

Tick ==
    /\ now < MaxTime /\ now' = now + 1
    /\ UNCHANGED <<raised, unread, events, driver, mailbox, temperature, live, discarded>>

Irq ==
    /\ raised < MaxIrqs /\ raised' = raised + 1
    /\ events' \in Posted(events, Event("IRQ", now, None))
    /\ unread' = IF events' = events THEN unread ELSE unread + 1
    /\ UNCHANGED <<now, driver, mailbox, temperature, live, discarded>>

\* The port delivers a frame, at once or after later interrupts; None is a
\* transfer that failed or a frame that does not decode.
SpiCompletes ==
    /\ unread > 0 /\ unread' = unread - 1
    /\ \E r \in Rates \cup {None} :
          events' \in Posted(events, Event("SPI_COMPLETED", 0, r))
    /\ UNCHANGED <<now, raised, driver, mailbox, temperature, live, discarded>>

ResultTimeout ==
    /\ unread > 0
    /\ events' \in Posted(events, Event("RESULT_TIMEOUT", 0, None)) \ {events}
    /\ UNCHANGED <<devices, driver, mailbox, temperature, live, discarded>>

\* Another writer commits a temperature, or one that is not usable.
Temperature ==
    /\ temperature' \in {now, None} \ {temperature}
    /\ UNCHANGED <<devices, events, driver, mailbox, live, discarded>>

-----------------------------------------------------------------------------
(* The driver.                                                             *)

OnIrq(e) ==
    /\ driver' = [driver EXCEPT !.state = "IRQ_RECEIVED", !.at = e.at, !.sequence = @ + 1]
    /\ mailbox' = None
    /\ events' = Tail(events)

\* The frame is filed under the latest interrupt, and announced.
OnSpiCompletion(e) ==
    IF e.rate = None
    THEN /\ driver' = [driver EXCEPT !.state = "RECOVERY"]
         /\ events' = Tail(events) /\ UNCHANGED mailbox
    ELSE /\ mailbox' = [sequence |-> driver.sequence, version |-> driver.ready + 1,
                        at |-> driver.at, rate |-> e.rate]
         /\ driver' = [driver EXCEPT !.state = "RAW_READY", !.ready = @ + 1]
         /\ events' \in Posted(Tail(events), Event("RAW_READY", 0, None))

OnTimeout ==
    /\ driver' = [driver EXCEPT !.state = "TIMEOUT"]
    /\ mailbox' = None
    /\ events' = Tail(events)

-----------------------------------------------------------------------------
(* VolumeAccumulator_Consume.                                              *)

IsDuplicate(v, s) ==
    v.anchor # None /\ s.sequence = v.sequence /\ s.version = v.version

\* The new anchor and identity.
Anchored(v, s) ==
    [v EXCEPT !.anchor = [at |-> s.at, rate |-> s.rate],
              !.sequence = s.sequence, !.version = s.version]

\* Mutant: the interval is charged at the rate that ends it.
CountedAtEnd(v, s) ==
    LET amount == s.rate * (s.at - v.anchor.at) IN
    IF amount < 0 THEN [v EXCEPT !.reverse = @ - amount]
                  ELSE [v EXCEPT !.forward = @ + amount]

\* The rate of the anchor holds until the sample.
Counted(v, s) ==
    LET amount == v.anchor.rate * (s.at - v.anchor.at) IN
    IF amount < 0 THEN [v EXCEPT !.reverse = @ - amount]
                  ELSE [v EXCEPT !.forward = @ + amount]

\* The status, and the accumulator afterwards.
Consume(v, s) ==
    LET result(status, after) == [status |-> status, after |-> after] IN
    IF IsDuplicate(v, s) THEN result("REJECTED_DUPLICATE", v)
    ELSE IF v.anchor = None THEN result("ANCHORED", Anchored(v, s))
    ELSE IF s.at = v.anchor.at
    THEN result("ZERO_INTERVAL", [v EXCEPT !.sequence = s.sequence, !.version = s.version])
    ELSE IF s.at < v.anchor.at \/ s.at - v.anchor.at > MaxGap
    THEN result("REJECTED_TIME", Anchored(v, s))
    ELSE result("OK", Anchored(Counted(v, s), s))

Succeeded == {"OK", "ANCHORED", "ZERO_INTERVAL"}

-----------------------------------------------------------------------------
(* measurement_manager_process_event for EVT_MAX_RAW_READY.                *)

\* flow_service_accept_sample: the temperature that pairs with the sample.
Distance(a, b) == IF a > b THEN a - b ELSE b - a

Paired(s) == temperature # None /\ Distance(s.at, temperature) <= MaxAge

\* The transaction is aborted; the candidates are forgotten.
Discard ==
    /\ discarded' = discarded \cup {Len(publications)}
    /\ UNCHANGED live

\* Mutant: the accumulator is updated in place, whatever becomes of the sample.
UpdateInPlace(s) ==
    LET c == Consume(volume, s) IN
    /\ volume' = c.after
    /\ IF c.status \in Succeeded
       THEN /\ leak' = s.sequence
            /\ snapshot' = [flow |-> s, volume |-> volume', leak |-> leak']
            /\ publications' = Append(publications, snapshot')
            /\ UNCHANGED discarded
       ELSE /\ discarded' = discarded \cup {Len(publications)}
            /\ UNCHANGED <<leak, snapshot, publications>>

\* Candidates are computed, published in one commit and only then installed.  A
\* volume that is rejected discards them all; so do a leak evaluation, a write and
\* the commit, any of which may fail after it.
Update(s) ==
    LET c == Consume(volume, s) IN
    \/ /\ c.status \in Succeeded
       /\ volume' = c.after
       /\ leak' = s.sequence
       /\ snapshot' = [flow |-> s, volume |-> volume', leak |-> leak']
       /\ publications' = Append(publications, snapshot')
       /\ UNCHANGED discarded
    \/ Discard

OnRawReady ==
    /\ events' = Tail(events)
    /\ IF mailbox = None
       THEN UNCHANGED <<driver, mailbox, live, discarded>>
       ELSE /\ mailbox' = None
            /\ driver' = [driver EXCEPT !.state = "IDLE"]
            /\ IF Paired(mailbox) THEN Update(mailbox) ELSE Discard

\* One turn of the event loop.
Turn ==
    /\ events # <<>>
    /\ LET e == Head(events) IN
       \/ e.id = "IRQ" /\ OnIrq(e) /\ UNCHANGED <<live, discarded>>
       \/ e.id = "SPI_COMPLETED" /\ OnSpiCompletion(e) /\ UNCHANGED <<live, discarded>>
       \/ e.id = "RESULT_TIMEOUT" /\ OnTimeout /\ UNCHANGED <<live, discarded>>
       \/ e.id = "RAW_READY" /\ OnRawReady
    /\ UNCHANGED <<devices, temperature>>

-----------------------------------------------------------------------------
Next == Tick \/ Irq \/ SpiCompletes \/ ResultTimeout \/ Temperature \/ Turn

Spec == Init /\ [][Next]_vars

-----------------------------------------------------------------------------
(* Properties.                                                             *)

Sample == [sequence : Nat, version : Nat, at : 0 .. MaxTime, rate : Rates]

At(i) == publications[i].flow.at

\* The rates at which the interval after a publication may be charged: a rate that
\* was published for its time, or none if a sample was discarded in the interval.
Charges(i) ==
    {publications[j].flow.rate : j \in {k \in 1 .. i : At(k) = At(i)}}
        \cup (IF i \in discarded THEN {0} ELSE {})

Positive(amount) == IF amount > 0 THEN amount ELSE 0

\* Two volumes differ by what moved in the two directions.
Differ(before, after, amount) ==
    /\ after.forward = before.forward + Positive(amount)
    /\ after.reverse = before.reverse + Positive(-amount)

\* However interrupts, frames, timeouts, refused posts and discarded samples fall, the
\* published volume can be accounted for by the published flow: from one publication
\* to the next it grows by the interval between their samples, whole and once, at
\* a rate that was published for its beginning; nothing else ever moves it, and an
\* interval beyond the gap or before the first sample counts nothing.  Left open is
\* what the code and 18_volume_accumulation.md settle differently: which of two samples
\* of one time holds (:727), and whether a discarded sample breaks the interval
\* (FW-VOL-REQ-015).
VolumeIsOfPublishedFlow ==
    LET n == Len(publications) IN
    /\ n = 0 => snapshot.volume.forward = 0 /\ snapshot.volume.reverse = 0
    /\ n > 0 => /\ snapshot = publications[n]
                /\ Differ([forward |-> 0, reverse |-> 0], publications[1].volume, 0)
    /\ \A i \in 1 .. (n - 1) : \E rate \in Charges(i) :
          Differ(publications[i].volume, publications[i + 1].volume,
                 IF At(i + 1) - At(i) <= MaxGap THEN rate * (At(i + 1) - At(i)) ELSE 0)

\* FW-VOL-REQ-028: the three results a reader finds are of one sample, and the
\* live accumulator and tracker stand where the snapshot says.
PublishedTogether ==
    /\ snapshot.volume = volume /\ snapshot.leak = leak
    /\ snapshot.flow # None =>
        /\ snapshot.flow \in Sample
        /\ snapshot.volume.sequence = snapshot.flow.sequence
        /\ snapshot.volume.version = snapshot.flow.version
        /\ snapshot.leak = snapshot.flow.sequence

\* FW-VOL-REQ-020: "Interval lớn hơn configured maximum gap không được tích phân;
\* current sample trở thành anchor mới" - a usable sample further from the anchor
\* than the gap becomes the anchor.
GapReanchors ==
    [][ LET taken == mailbox # None /\ mailbox' = None /\ driver'.state = "IDLE" IN
        taken /\ Paired(mailbox) /\ volume.anchor # None
              /\ mailbox.at - volume.anchor.at > MaxGap
        => volume'.anchor.at = mailbox.at ]_vars
=============================================================================
