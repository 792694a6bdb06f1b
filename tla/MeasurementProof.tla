--------------------------- MODULE MeasurementProof ---------------------------
(***************************************************************************)
(* Proofs about the two measurement chains.  FlowChain: for any rates,     *)
(* gaps, ages, queue room, number of interrupts and length of run.         *)
(* PressureChain: for any queue room, number of samples and number of      *)
(* transactions.  The chains share no state.                               *)
(***************************************************************************)
EXTENDS FlowChain, PressureChain, TLAPS

-----------------------------------------------------------------------------
(* The flow chain: types.                                                  *)

Times == 0 .. MaxTime

EventIds == {"IRQ", "SPI_COMPLETED", "RESULT_TIMEOUT", "RAW_READY"}
DriverStates == {"IDLE", "IRQ_RECEIVED", "RAW_READY", "RECOVERY", "TIMEOUT"}

ChainEvent == [id : EventIds, at : Times, rate : Rates \cup {None}]

Driver == [state : DriverStates, at : Times, sequence : Nat, ready : Nat]

Point == [at : Times, rate : Rates]

Accumulator == [anchor : Point \cup {None}, sequence : Nat, version : Nat,
                forward : Int, reverse : Int]

ChainType ==
    /\ now \in Times
    /\ events \in Seq(ChainEvent)
    /\ driver \in Driver
    /\ mailbox \in Sample \cup {None}
    /\ volume \in Accumulator

-----------------------------------------------------------------------------
(* The accumulator.                                                        *)

\* The interval that ends at a sample changes the two volumes only.
LEMMA CountedType ==
    ASSUME NEW v \in Accumulator, NEW s \in Sample, v.anchor # None
    PROVE  Counted(v, s) \in Accumulator
<1> DEFINE amount == v.anchor.rate * (s.at - v.anchor.at)
<1>1. v.anchor \in Point
  BY DEF Accumulator
<1>2. v.anchor.rate \in Int /\ v.anchor.at \in Int /\ s.at \in Int
  <2>1. v.anchor.rate \in Rates /\ v.anchor.at \in Times /\ s.at \in Times
    BY <1>1 DEF Point, Sample, Times
  <2>2. Rates \subseteq Int /\ Times \subseteq Int
    BY SizesAssumption DEF Times
  <2> QED
    BY <2>1, <2>2, Zenon
<1>3. amount \in Int
  BY <1>2
<1>4. v.reverse - amount \in Int /\ v.forward + amount \in Int
  BY <1>3 DEF Accumulator
<1>5. Counted(v, s) = IF amount < 0 THEN [v EXCEPT !.reverse = v.reverse - amount]
                                   ELSE [v EXCEPT !.forward = v.forward + amount]
  BY DEF Counted
<1> HIDE DEF amount
<1>6. CASE amount < 0
  <2>1. Counted(v, s) = [v EXCEPT !.reverse = v.reverse - amount]
    BY <1>5, <1>6
  <2> QED
    BY <1>4, <2>1 DEF Accumulator
<1>7. CASE ~(amount < 0)
  <2>1. Counted(v, s) = [v EXCEPT !.forward = v.forward + amount]
    BY <1>5, <1>7
  <2> QED
    BY <1>4, <2>1 DEF Accumulator
<1> QED
  BY <1>6, <1>7

LEMMA AnchoredType ==
    ASSUME NEW v \in Accumulator, NEW s \in Sample
    PROVE  /\ Anchored(v, s) \in Accumulator
           /\ Anchored(v, s).sequence = s.sequence
           /\ Anchored(v, s).version = s.version
<1>1. [at |-> s.at, rate |-> s.rate] \in Point
  BY DEF Sample, Point, Times
<1> QED
  BY <1>1 DEF Anchored, Accumulator, Sample

\* A sample that is accepted gives the accumulator its identity, whether it is
\* counted, starts a new interval or falls on the anchor's time.
LEMMA AcceptedIdentity ==
    ASSUME NEW v \in Accumulator, NEW s \in Sample, Consume(v, s).status \in Succeeded
    PROVE  /\ Consume(v, s).after \in Accumulator
           /\ Consume(v, s).after.sequence = s.sequence
           /\ Consume(v, s).after.version = s.version
<1>1. CASE IsDuplicate(v, s)
  BY <1>1 DEF Consume, Succeeded
<1>2. CASE ~IsDuplicate(v, s) /\ v.anchor = None
  BY <1>2, AnchoredType DEF Consume
<1>3. CASE ~IsDuplicate(v, s) /\ v.anchor # None
  <2>1. CASE s.at = v.anchor.at
    <3>1. Consume(v, s).after = [v EXCEPT !.sequence = s.sequence, !.version = s.version]
      BY <1>3, <2>1 DEF Consume
    <3> QED
      BY <3>1 DEF Accumulator, Sample
  <2>2. CASE s.at # v.anchor.at /\ (s.at < v.anchor.at \/ s.at - v.anchor.at > MaxGap)
    BY <1>3, <2>2 DEF Consume, Succeeded
  <2>3. CASE s.at # v.anchor.at /\ ~(s.at < v.anchor.at \/ s.at - v.anchor.at > MaxGap)
    <3>1. Consume(v, s).after = Anchored(Counted(v, s), s)
      BY <1>3, <2>3 DEF Consume
    <3> QED
      BY <1>3, <3>1, CountedType, AnchoredType
  <2> QED
    BY <2>1, <2>2, <2>3
<1> QED
  BY <1>1, <1>2, <1>3

-----------------------------------------------------------------------------
(* Steps.                                                                  *)

LEMMA PostedType ==
    ASSUME NEW queue \in Seq(ChainEvent), NEW e \in ChainEvent, NEW after \in Posted(queue, e)
    PROVE  after \in Seq(ChainEvent)
BY DEF Posted

\* What a commit does for a sample.
Published(s) ==
    /\ Consume(volume, s).status \in Succeeded
    /\ volume' = Consume(volume, s).after
    /\ leak' = s.sequence
    /\ snapshot' = [flow |-> s, volume |-> volume', leak |-> leak']
    /\ publications' = Append(publications, snapshot')
    /\ UNCHANGED discarded

\* A sample with its temperature is published or discarded.
LEMMA UpdateEffect ==
    ASSUME NEW s, Update(s)
    PROVE  Published(s) \/ Discard
BY DEF Update, Published

\* Every flow sample that is published takes volume and leak result with it.
LEMMA UpdateTogether ==
    ASSUME ChainType, PublishedTogether, NEW s \in Sample, Update(s)
    PROVE  volume' \in Accumulator /\ PublishedTogether'
<1>1. CASE Published(s)
  <2>1. volume' \in Accumulator /\ volume'.sequence = s.sequence /\ volume'.version = s.version
    BY <1>1, AcceptedIdentity DEF Published, ChainType
  <2> QED
    BY <1>1, <2>1 DEF Published, PublishedTogether, Sample
<1>2. CASE Discard
  BY <1>2 DEF Discard, live, ChainType, PublishedTogether
<1> QED
  BY <1>1, <1>2, UpdateEffect

LEMMA InitTogether == Init => ChainType /\ PublishedTogether
<1> SUFFICES ASSUME Init PROVE ChainType /\ PublishedTogether
  OBVIOUS
<1>1. 0 \in Times /\ 0 \in Nat /\ 0 \in Int
  BY SizesAssumption DEF Times
<1>2. driver \in Driver
  BY <1>1 DEF Init, DriverStates, Driver
<1>3. volume \in Accumulator
  BY <1>1 DEF Init, Accumulator
<1> QED
  BY <1>1, <1>2, <1>3 DEF Init, ChainType, PublishedTogether

\* Events come with a time the clock has shown.
LEMMA OutsideTogether ==
    ASSUME ChainType, PublishedTogether, Tick \/ Irq \/ SpiCompletes \/ ResultTimeout \/ Temperature
    PROVE  (ChainType /\ PublishedTogether)'
<1>1. CASE Tick
  <2>1. now' \in Times
    BY <1>1, SizesAssumption DEF Tick, ChainType, Times
  <2> QED
    BY <1>1, <2>1 DEF Tick, live, ChainType, PublishedTogether
<1>2. CASE Irq
  <2>1. Event("IRQ", now, None) \in ChainEvent
    BY DEF Event, EventIds, ChainEvent, ChainType
  <2>2. events' \in Seq(ChainEvent)
    BY <1>2, <2>1, PostedType DEF Irq, ChainType
  <2> QED
    BY <1>2, <2>2 DEF Irq, live, ChainType, PublishedTogether
<1>3. CASE SpiCompletes
  <2>1. 0 \in Times
    BY SizesAssumption DEF Times
  <2>2. PICK r \in Rates \cup {None} : events' \in Posted(events, Event("SPI_COMPLETED", 0, r))
    BY <1>3 DEF SpiCompletes
  <2>3. Event("SPI_COMPLETED", 0, r) \in ChainEvent
    BY <2>1 DEF Event, EventIds, ChainEvent
  <2>4. events' \in Seq(ChainEvent)
    BY <2>2, <2>3, PostedType DEF ChainType
  <2> QED
    BY <1>3, <2>4 DEF SpiCompletes, live, ChainType, PublishedTogether
<1>4. CASE ResultTimeout
  <2>1. 0 \in Times
    BY SizesAssumption DEF Times
  <2>2. Event("RESULT_TIMEOUT", 0, None) \in ChainEvent
    BY <2>1 DEF Event, EventIds, ChainEvent
  <2>3. events' \in Seq(ChainEvent)
    BY <1>4, <2>2, PostedType DEF ResultTimeout, ChainType
  <2> QED
    BY <1>4, <2>3 DEF ResultTimeout, devices, live, ChainType, PublishedTogether
<1>5. CASE Temperature
  BY <1>5 DEF Temperature, devices, live, ChainType, PublishedTogether
<1> QED
  BY <1>1, <1>2, <1>3, <1>4, <1>5

LEMMA TurnTogether ==
    ASSUME ChainType, PublishedTogether, Turn
    PROVE  (ChainType /\ PublishedTogether)'
<1> DEFINE e == Head(events)
<1>1. e \in ChainEvent /\ Tail(events) \in Seq(ChainEvent)
  BY DEF Turn, ChainType
<1>2. now' = now
  BY DEF Turn, devices
<1>3. CASE OnIrq(e) /\ UNCHANGED live
  <2>1. driver' \in Driver
    <3>1. e.at \in Times /\ driver \in Driver /\ driver.sequence + 1 \in Nat
      BY <1>1 DEF ChainEvent, Driver, ChainType
    <3>2. driver' = [driver EXCEPT !.state = "IRQ_RECEIVED", !.at = e.at,
                                   !.sequence = driver.sequence + 1]
      BY <1>3 DEF OnIrq
    <3> QED
      BY <3>1, <3>2 DEF DriverStates, Driver
  <2> QED
    BY <1>1, <1>2, <1>3, <2>1 DEF OnIrq, live, ChainType, PublishedTogether
<1>4. CASE OnSpiCompletion(e) /\ UNCHANGED live
  <2>1. CASE e.rate = None
    <3>1. driver' \in Driver
      BY <1>4, <2>1 DEF OnSpiCompletion, DriverStates, Driver, ChainType
    <3> QED
      BY <1>1, <1>2, <1>4, <2>1, <3>1 DEF OnSpiCompletion, live, ChainType, PublishedTogether
  <2>2. CASE e.rate # None
    <3>1. driver' \in Driver
      <4>1. driver \in Driver /\ driver.ready + 1 \in Nat
        BY DEF Driver, ChainType
      <4>2. driver' = [driver EXCEPT !.state = "RAW_READY", !.ready = driver.ready + 1]
        BY <1>4, <2>2 DEF OnSpiCompletion
      <4> QED
        BY <4>1, <4>2 DEF DriverStates, Driver
    <3>2. mailbox' \in Sample
      BY <1>1, <1>4, <2>2 DEF OnSpiCompletion, DriverStates, Driver, Sample, ChainEvent, Times, ChainType
    <3>3. Event("RAW_READY", 0, None) \in ChainEvent
      BY SizesAssumption DEF Event, EventIds, ChainEvent, Times
    <3>4. events' \in Seq(ChainEvent)
      BY <1>1, <1>4, <2>2, <3>3, PostedType DEF OnSpiCompletion
    <3> QED
      BY <1>2, <1>4, <3>1, <3>2, <3>4 DEF live, ChainType, PublishedTogether
  <2> QED
    BY <2>1, <2>2
<1>5. CASE OnTimeout /\ UNCHANGED live
  <2>1. driver' \in Driver
    BY <1>5 DEF OnTimeout, DriverStates, Driver, ChainType
  <2> QED
    BY <1>1, <1>2, <1>5, <2>1 DEF OnTimeout, live, ChainType, PublishedTogether
<1>6. CASE OnRawReady
  <2>1. CASE mailbox = None
    BY <1>1, <1>2, <1>6, <2>1 DEF OnRawReady, live, ChainType, PublishedTogether
  <2>2. CASE mailbox # None
    <3>1. mailbox \in Sample
      BY <2>2 DEF ChainType
    <3>2. driver' \in Driver /\ mailbox' = None /\ events' \in Seq(ChainEvent)
      BY <1>1, <1>6, <2>2 DEF OnRawReady, DriverStates, Driver, ChainType
    <3>3. volume' \in Accumulator /\ PublishedTogether'
      <4>1. CASE Paired(mailbox)
        BY <1>6, <2>2, <3>1, <4>1, UpdateTogether DEF OnRawReady
      <4>2. CASE ~Paired(mailbox)
        BY <1>6, <2>2, <4>2 DEF OnRawReady, Discard, live, ChainType, PublishedTogether
      <4> QED
        BY <4>1, <4>2
    <3> QED
      BY <1>2, <3>2, <3>3 DEF ChainType
  <2> QED
    BY <2>1, <2>2
<1> QED
  BY <1>3, <1>4, <1>5, <1>6 DEF Turn

\* Every step of the flow chain keeps the types and the three results together.
LEMMA StepTogether ==
    ASSUME ChainType, PublishedTogether, [Next]_vars
    PROVE  (ChainType /\ PublishedTogether)'
<1>1. CASE UNCHANGED vars
  BY <1>1 DEF vars, devices, live, ChainType, PublishedTogether
<1>2. CASE Next
  BY <1>2, OutsideTogether, TurnTogether DEF Next
<1> QED
  BY <1>1, <1>2

\* measurement_manager_process_event publishes the three results in one
\* transaction and installs its candidates only then: whatever is refused, late,
\* rejected or timed out before, flow, volume and leak result are of one sample
\* and the live accumulator is the published one.
THEOREM ResultsOfOneSample == Spec => []PublishedTogether
<1>1. Init => ChainType /\ PublishedTogether
  BY InitTogether
<1>2. ChainType /\ PublishedTogether /\ [Next]_vars => (ChainType /\ PublishedTogether)'
  BY StepTogether
<1> QED
  BY <1>1, <1>2, PTL DEF Spec

-----------------------------------------------------------------------------
(* The flow chain: the published volume.                                   *)

Publication == [flow : Sample, volume : Accumulator, leak : Nat]

\* The accumulator stands at the last publication: its anchor has that sample's time,
\* and a rate that was published for this time.
AtLastPublication ==
    LET n == Len(publications) IN
    IF n = 0
    THEN volume.anchor = None /\ volume.forward = 0 /\ volume.reverse = 0
    ELSE /\ volume.anchor # None /\ volume.anchor.at = At(n)
         /\ \E j \in 1 .. n : At(j) = At(n) /\ volume.anchor.rate = publications[j].flow.rate

VolumeInv ==
    /\ ChainType /\ PublishedTogether
    /\ publications \in Seq(Publication)
    /\ AtLastPublication
    /\ VolumeIsOfPublishedFlow

\* What an accepted sample does to the accumulator: it starts the first interval, falls
\* on the time of the anchor, or ends an interval and starts the next.
LEMMA AcceptedEffect ==
    ASSUME NEW v \in Accumulator, NEW s \in Sample, Consume(v, s).status \in Succeeded
    PROVE  LET after == Consume(v, s).after
           IN  \/ /\ v.anchor = None /\ after.anchor = [at |-> s.at, rate |-> s.rate]
                  /\ after.forward = v.forward /\ after.reverse = v.reverse
               \/ /\ v.anchor # None /\ s.at = v.anchor.at /\ after.anchor = v.anchor
                  /\ after.forward = v.forward /\ after.reverse = v.reverse
               \/ /\ v.anchor # None /\ v.anchor.at < s.at /\ s.at - v.anchor.at <= MaxGap
                  /\ after.anchor = [at |-> s.at, rate |-> s.rate]
                  /\ Differ(v, after, v.anchor.rate * (s.at - v.anchor.at))
<1> DEFINE after == Consume(v, s).after
<1>1. CASE IsDuplicate(v, s)
  BY <1>1 DEF Consume, Succeeded
<1>2. CASE ~IsDuplicate(v, s) /\ v.anchor = None
  <2>1. after = Anchored(v, s)
    BY <1>2 DEF Consume
  <2>2. /\ after.anchor = [at |-> s.at, rate |-> s.rate]
        /\ after.forward = v.forward /\ after.reverse = v.reverse
    BY <2>1 DEF Anchored, Accumulator
  <2> QED
    BY <1>2, <2>2
<1>3. CASE ~IsDuplicate(v, s) /\ v.anchor # None /\ s.at = v.anchor.at
  <2>1. after = [v EXCEPT !.sequence = s.sequence, !.version = s.version]
    BY <1>3 DEF Consume
  <2>2. /\ after.anchor = v.anchor
        /\ after.forward = v.forward /\ after.reverse = v.reverse
    BY <2>1 DEF Accumulator
  <2> QED
    BY <1>3, <2>2
<1>4. CASE /\ ~IsDuplicate(v, s) /\ v.anchor # None /\ s.at # v.anchor.at
           /\ (s.at < v.anchor.at \/ s.at - v.anchor.at > MaxGap)
  BY <1>4 DEF Consume, Succeeded
<1>5. CASE /\ ~IsDuplicate(v, s) /\ v.anchor # None /\ s.at # v.anchor.at
           /\ ~(s.at < v.anchor.at \/ s.at - v.anchor.at > MaxGap)
  <2> DEFINE amount == v.anchor.rate * (s.at - v.anchor.at)
  <2>1. after = Anchored(Counted(v, s), s)
    BY <1>5 DEF Consume
  <2>2. v.anchor.at \in Int /\ s.at \in Int /\ MaxGap \in Int /\ amount \in Int
    <3>1. v.anchor \in Point
      BY <1>5 DEF Accumulator
    <3>2. v.anchor.rate \in Rates /\ v.anchor.at \in Times /\ s.at \in Times
      BY <3>1 DEF Point, Sample, Times
    <3>3. Rates \subseteq Int /\ Times \subseteq Int /\ MaxGap \in Int
      BY SizesAssumption DEF Times
    <3>4. v.anchor.rate \in Int /\ v.anchor.at \in Int /\ s.at \in Int
      BY <3>2, <3>3, Zenon
    <3> QED
      BY <3>3, <3>4
  <2>3. v.anchor.at < s.at /\ s.at - v.anchor.at <= MaxGap
    BY <1>5, <2>2
  <2>4. Counted(v, s) = IF amount < 0 THEN [v EXCEPT !.reverse = v.reverse - amount]
                                      ELSE [v EXCEPT !.forward = v.forward + amount]
    BY DEF Counted
  <2>5. Counted(v, s) \in Accumulator
    BY <1>5, CountedType
  <2> HIDE DEF amount
  <2>6. Differ(v, Counted(v, s), amount)
    <3>1. v.forward \in Int /\ v.reverse \in Int
      BY DEF Accumulator
    <3>2. CASE amount < 0
      <4>1. /\ Counted(v, s).forward = v.forward
            /\ Counted(v, s).reverse = v.reverse - amount
        BY <2>4, <3>2 DEF Accumulator
      <4> QED
        BY <2>2, <3>1, <3>2, <4>1 DEF Differ, Positive
    <3>3. CASE ~(amount < 0)
      <4>1. /\ Counted(v, s).forward = v.forward + amount
            /\ Counted(v, s).reverse = v.reverse
        BY <2>4, <3>3 DEF Accumulator
      <4> QED
        BY <2>2, <3>1, <3>3, <4>1 DEF Differ, Positive
    <3> QED
      BY <3>2, <3>3
  <2>7. /\ after.anchor = [at |-> s.at, rate |-> s.rate]
        /\ after.forward = Counted(v, s).forward
        /\ after.reverse = Counted(v, s).reverse
    BY <2>1, <2>5 DEF Anchored, Accumulator
  <2>8. Differ(v, after, amount)
    BY <2>6, <2>7 DEF Differ
  <2> QED
    BY <1>5, <2>3, <2>7, <2>8 DEF amount
<1> QED
  BY <1>1, <1>2, <1>3, <1>4, <1>5

\* A publication keeps the account: it adds what the accumulator counted since the last one.
LEMMA PublicationKeepsVolume ==
    ASSUME VolumeInv, NEW s \in Sample, Published(s)
    PROVE  /\ publications' \in Seq(Publication)
           /\ AtLastPublication' /\ VolumeIsOfPublishedFlow'
\* A constant, so that it is the old length in primed formulas too.
<1>0. PICK n \in Nat : n = Len(publications)
  BY DEF VolumeInv
<1>1. /\ publications \in Seq(Publication) /\ n = Len(publications)
      /\ ChainType /\ PublishedTogether
      /\ AtLastPublication /\ VolumeIsOfPublishedFlow
      /\ volume \in Accumulator
  BY <1>0 DEF VolumeInv, ChainType
<1>2. /\ volume' = Consume(volume, s).after
      /\ leak' = s.sequence
      /\ snapshot' = [flow |-> s, volume |-> volume', leak |-> leak']
      /\ publications' = Append(publications, snapshot')
      /\ discarded' = discarded
      /\ Consume(volume, s).status \in Succeeded
  BY DEF Published
<1>3. volume' \in Accumulator
  BY <1>1, <1>2, AcceptedIdentity
<1>4. snapshot' \in Publication
  BY <1>2, <1>3 DEF Publication, Sample
<1>5. /\ publications' \in Seq(Publication) /\ Len(publications') = n + 1
      /\ \A i \in 1 .. n : publications'[i] = publications[i]
      /\ publications'[n + 1] = snapshot'
  BY <1>1, <1>2, <1>4
<1>6. /\ \A i \in 1 .. n : At(i)' = At(i)
      /\ At(n + 1)' = s.at
  BY <1>2, <1>5 DEF At
<1>7. /\ \A i \in 1 .. n : At(i) \in Int
      /\ s.at \in Int
      /\ \A i \in 1 .. n : publications[i].volume \in Accumulator
  <2>1. Times \subseteq Int /\ s.at \in Times
    BY SizesAssumption DEF Times, Sample
  <2>2. \A i \in 1 .. n : publications[i] \in Publication
    BY <1>1
  <2> QED
    BY <2>1, <2>2 DEF At, Publication, Sample, Times
\* What the accumulator did.
<1>8. \/ n = 0 /\ volume'.anchor = [at |-> s.at, rate |-> s.rate]
      \/ /\ n > 0 /\ s.at = At(n) /\ volume'.anchor = volume.anchor
         /\ Differ(volume, volume', 0)
      \/ /\ n > 0 /\ At(n) < s.at /\ s.at - At(n) <= MaxGap
         /\ volume'.anchor = [at |-> s.at, rate |-> s.rate]
         /\ Differ(volume, volume', volume.anchor.rate * (s.at - At(n)))
  <2>1. n = 0 <=> volume.anchor = None
    BY <1>1 DEF AtLastPublication
  <2>2. volume.anchor # None => volume.anchor.at = At(n)
    BY <1>1, <2>1 DEF AtLastPublication
  <2>3. ASSUME volume'.forward = volume.forward, volume'.reverse = volume.reverse
        PROVE  Differ(volume, volume', 0)
    BY <1>1, <2>3 DEF Differ, Positive, Accumulator
  <2> QED
    BY <1>1, <1>2, <2>1, <2>2, <2>3, AcceptedEffect
<1>9. n = 0 => volume'.forward = 0 /\ volume'.reverse = 0
  <2> SUFFICES ASSUME n = 0 PROVE volume'.forward = 0 /\ volume'.reverse = 0
    OBVIOUS
  <2>1. volume.anchor = None /\ volume.forward = 0 /\ volume.reverse = 0
    BY <1>1 DEF AtLastPublication
  <2> QED
    BY <1>1, <1>2, <2>1, AcceptedEffect
\* A rate that could be charged, can be charged afterwards.
<1>10. ASSUME NEW i \in 1 .. n PROVE Charges(i) \subseteq Charges(i)'
  <2>1. \A j \in 1 .. i : publications'[j] = publications[j] /\ At(j)' = At(j)
    BY <1>5, <1>6
  <2> SUFFICES ASSUME NEW rate \in Charges(i) PROVE rate \in Charges(i)'
    OBVIOUS
  <2>2. CASE i \in discarded /\ rate = 0
    BY <1>2, <2>2 DEF Charges
  <2>3. CASE \E j \in 1 .. i : At(j) = At(i) /\ rate = publications[j].flow.rate
    <3>1. PICK j \in 1 .. i : At(j) = At(i) /\ rate = publications[j].flow.rate
      BY <2>3
    <3>2. i \in 1 .. i /\ At(j)' = At(i)' /\ rate = publications'[j].flow.rate
      BY <2>1, <3>1
    <3> QED
      BY <3>2 DEF Charges
  <2> QED
    BY <2>2, <2>3 DEF Charges
<1>11. AtLastPublication'
  <2>1. CASE n > 0 /\ s.at = At(n) /\ volume'.anchor = volume.anchor
    <3>1. PICK j \in 1 .. n : At(j) = At(n) /\ volume.anchor.rate = publications[j].flow.rate
      BY <1>1, <2>1 DEF AtLastPublication
    <3>2. At(j)' = At(n + 1)' /\ j \in 1 .. (n + 1)
      BY <1>6, <2>1, <3>1
    <3>3. /\ volume'.anchor # None /\ volume'.anchor.at = At(n + 1)'
          /\ volume'.anchor.rate = publications'[j].flow.rate
      BY <1>1, <1>5, <1>6, <2>1, <3>1 DEF AtLastPublication
    <3> QED
      BY <1>5, <3>2, <3>3 DEF AtLastPublication
  <2>2. CASE (n = 0 \/ At(n) < s.at) /\ volume'.anchor = [at |-> s.at, rate |-> s.rate]
    <3>1. volume'.anchor # None
      BY <2>2, NoneAssumption DEF Sample
    <3>2. volume'.anchor.at = At(n + 1)' /\ volume'.anchor.rate = publications'[n + 1].flow.rate
      BY <1>2, <1>5, <1>6, <2>2
    <3> QED
      BY <1>5, <3>1, <3>2 DEF AtLastPublication
  <2> QED
    BY <1>8, <2>1, <2>2
<1>12. ASSUME NEW i \in 1 .. n
       PROVE  \E rate \in Charges(i)' :
                 Differ(publications'[i].volume, publications'[i + 1].volume,
                        IF At(i + 1)' - At(i)' <= MaxGap
                        THEN rate * (At(i + 1)' - At(i)') ELSE 0)
  <2>1. CASE i < n
    <3>1. PICK rate \in Charges(i) :
             Differ(publications[i].volume, publications[i + 1].volume,
                    IF At(i + 1) - At(i) <= MaxGap THEN rate * (At(i + 1) - At(i)) ELSE 0)
      BY <1>1, <2>1 DEF VolumeIsOfPublishedFlow
    <3>2. i + 1 \in 1 .. n
      BY <2>1
    <3>3. /\ publications'[i] = publications[i] /\ publications'[i + 1] = publications[i + 1]
          /\ At(i)' = At(i) /\ At(i + 1)' = At(i + 1)
      BY <1>5, <1>6, <3>2
    <3>4. rate \in Charges(i)'
      BY <1>10
    <3> QED
      BY <3>1, <3>3, <3>4
  <2>2. CASE i = n
    <3>1. volume.anchor.rate \in Charges(i)'
      <4>1. PICK j \in 1 .. n : At(j) = At(n) /\ volume.anchor.rate = publications[j].flow.rate
        BY <1>1, <2>2 DEF AtLastPublication
      <4> QED
        BY <1>10, <2>2, <4>1 DEF Charges
    <3>2. /\ publications'[n].volume = volume /\ publications'[n + 1].volume = volume'
          /\ At(n)' = At(n) /\ At(n + 1)' = s.at
      <4>1. snapshot = publications[n] /\ snapshot.volume = volume
        BY <1>1, <2>2 DEF VolumeIsOfPublishedFlow, PublishedTogether
      <4> QED
        BY <1>2, <1>5, <1>6, <2>2, <4>1
    <3>3. Differ(volume, volume', IF s.at - At(n) <= MaxGap
                                  THEN volume.anchor.rate * (s.at - At(n)) ELSE 0)
      <4>1. CASE At(n) < s.at /\ s.at - At(n) <= MaxGap
                 /\ Differ(volume, volume', volume.anchor.rate * (s.at - At(n)))
        BY <4>1
      <4>2. CASE s.at = At(n) /\ Differ(volume, volume', 0)
        <5>1. s.at - At(n) = 0 /\ s.at - At(n) <= MaxGap
          BY <1>7, <2>2, <4>2, SizesAssumption
        <5>2. volume.anchor.rate * 0 = 0
          <6>1. volume.anchor.rate \in Rates
            BY <1>1, <2>2 DEF AtLastPublication, Accumulator, Point
          <6>2. volume.anchor.rate \in Int
            BY <6>1, SizesAssumption, Zenon
          <6> QED
            BY <6>2
        <5> QED
          BY <4>2, <5>1, <5>2
      <4> QED
        BY <1>8, <2>2, <4>1, <4>2
    <3> QED
      BY <2>2, <3>1, <3>2, <3>3
  <2> QED
    BY <2>1, <2>2
<1>13. VolumeIsOfPublishedFlow'
  <2>1. /\ snapshot' = publications'[n + 1]
        /\ Differ([forward |-> 0, reverse |-> 0], publications'[1].volume, 0)
    <3>1. CASE n = 0
      <4>1. publications'[1].volume = volume'
        BY <1>2, <1>5, <3>1
      <4> QED
        BY <1>5, <1>9, <3>1, <4>1 DEF Differ, Positive
    <3>2. CASE n > 0
      <4>1. publications'[1] = publications[1]
        BY <1>5, <3>2
      <4> QED
        BY <1>1, <1>5, <3>2, <4>1 DEF VolumeIsOfPublishedFlow
    <3> QED
      BY <1>1, <3>1, <3>2
  <2> QED
    BY <1>1, <1>5, <1>12, <2>1 DEF VolumeIsOfPublishedFlow
<1> QED
  BY <1>5, <1>11, <1>13

\* A step that publishes nothing keeps the account.
LEMMA NothingPublished ==
    ASSUME VolumeInv, UNCHANGED live, discarded \subseteq discarded'
    PROVE  /\ publications' \in Seq(Publication)
           /\ AtLastPublication' /\ VolumeIsOfPublishedFlow'
<1>1. UNCHANGED <<volume, snapshot, publications>>
  BY DEF live
<1>2. \A i : At(i)' = At(i)
  BY <1>1 DEF At
<1>3. \A i : Charges(i) \subseteq Charges(i)'
  BY <1>1, <1>2 DEF Charges
<1>4. AtLastPublication'
  BY <1>1, <1>2 DEF VolumeInv, AtLastPublication
<1>5. VolumeIsOfPublishedFlow'
  BY <1>1, <1>2, <1>3 DEF VolumeInv, VolumeIsOfPublishedFlow
<1> QED
  BY <1>1, <1>4, <1>5 DEF VolumeInv

\* The account is inductive.
LEMMA VolumeInvKept == VolumeInv /\ [Next]_vars => VolumeInv'
<1> SUFFICES ASSUME VolumeInv, [Next]_vars PROVE VolumeInv'
  OBVIOUS
<1>1. (ChainType /\ PublishedTogether)'
  BY StepTogether DEF VolumeInv
<1>2. CASE UNCHANGED live /\ discarded \subseteq discarded'
  BY <1>1, <1>2, NothingPublished DEF VolumeInv
<1>3. CASE mailbox # None /\ Published(mailbox)
  <2>1. mailbox \in Sample
    BY <1>3 DEF VolumeInv, ChainType
  <2> QED
    BY <1>1, <1>3, <2>1, PublicationKeepsVolume DEF VolumeInv
<1>4. \/ UNCHANGED live /\ discarded \subseteq discarded'
      \/ mailbox # None /\ Published(mailbox)
  <2>1. CASE Tick \/ Irq \/ SpiCompletes \/ ResultTimeout \/ Temperature
    BY <2>1 DEF Tick, Irq, SpiCompletes, ResultTimeout, Temperature
  <2>2. CASE Turn
    <3>1. \/ UNCHANGED <<live, discarded>>
          \/ mailbox # None /\ (Update(mailbox) \/ Discard)
      BY <2>2 DEF Turn, OnRawReady
    <3> QED
      BY <3>1, UpdateEffect DEF Discard
  <2>3. CASE UNCHANGED vars
    BY <2>3 DEF vars
  <2> QED
    BY <2>1, <2>2, <2>3 DEF Next
<1> QED
  BY <1>2, <1>3, <1>4

\* However interrupts, frames, timeouts, refused posts, temperatures and discarded samples
\* fall: each interval between publications is charged whole and once, at a rate that was
\* published for its beginning, or at none if a sample was discarded in it.
THEOREM VolumeIsTheIntegral == Spec => []VolumeIsOfPublishedFlow
<1>1. Init => VolumeInv
  <2> SUFFICES ASSUME Init PROVE VolumeInv
    OBVIOUS
  <2>1. ChainType /\ PublishedTogether
    BY InitTogether
  <2>2. /\ publications = <<>> /\ volume.anchor = None
        /\ volume.forward = 0 /\ volume.reverse = 0
        /\ snapshot.volume = volume
    BY DEF Init
  <2> QED
    BY <2>1, <2>2 DEF VolumeInv, AtLastPublication, VolumeIsOfPublishedFlow
<1>2. VolumeInv => VolumeIsOfPublishedFlow
  BY DEF VolumeInv
<1> QED
  BY <1>1, <1>2, VolumeInvKept, PTL DEF Spec

-----------------------------------------------------------------------------
(* The pressure chain: types.                                              *)

ZsscEventIds == {"SAMPLE_DUE", "POLL_DUE", "TIMEOUT", "EOC", "RAW_READY"}

ZsscStates == {"IDLE", "STARTING", "WAITING_EOC", "READING", "POLLING",
                 "RAW_READY", "TIMEOUT", "RECOVERY"}

ZsscDriver == [state : ZsscStates, sequence : Nat, correlation : Nat]

Transfer == [kind : {"start", "read"}, correlation : Nat, sample : Nat, carried : BOOLEAN]

PressureType ==
    /\ queued \in Seq(ZsscEventIds)
    /\ zssc \in ZsscDriver
    /\ nextId \in Nat
    /\ transfers \in Seq(Transfer)
    /\ sensor \in [sample : Nat, busy : BOOLEAN]

-----------------------------------------------------------------------------
(* The inductive invariant.                                                *)

\* No transaction is numbered after the sample under way.
Numbered ==
    /\ zssc.correlation < nextId
    /\ \A i \in 1 .. Len(transfers) : transfers[i].correlation <= zssc.correlation

\* Nothing that was measured has a number after the sample under way.
PastSamples ==
    /\ rested \subseteq Nat /\ \A k \in rested : k <= zssc.sequence
    /\ rawMailbox # NoPressure =>
          rawMailbox.sequence \in Nat /\ rawMailbox.sequence <= zssc.sequence
    /\ published # NoPressure =>
          published.sequence \in Nat /\ published.sequence <= zssc.sequence

\* The sample under way was started with the chain at rest.
IsRested == zssc.sequence \in rested

\* Its own start is the only one on its way to the sensor.
StartIsCurrent ==
    IsRested => \A i \in 1 .. Len(transfers) :
        transfers[i].kind = "start" => transfers[i].sample = zssc.sequence

\* What shows that the start of the sample under way has reached the sensor.
Evident ==
    \/ zssc.state \in {"WAITING_EOC", "READING", "POLLING"}
    \/ sensor.busy
    \/ \E i \in 1 .. Len(queued) : queued[i] \in {"POLL_DUE", "EOC"}
    \/ \E i \in 1 .. Len(transfers) :
          \/ transfers[i].kind = "start" /\ transfers[i].carried
          \/ transfers[i].kind = "read" /\ transfers[i].correlation = zssc.correlation

SensorIsCurrent == IsRested /\ Evident => sensor.sample = zssc.sequence

BufferIsCurrent ==
    IsRested /\ zssc.state \in {"READING", "POLLING"} => buffer \in {Zeroed, Busy, zssc.sequence}

MailboxIsCurrent ==
    rawMailbox # NoPressure /\ rawMailbox.sequence \in rested => rawMailbox.data \in {Zeroed, rawMailbox.sequence}

PressureInv ==
    /\ PressureType /\ Numbered /\ PastSamples
    /\ StartIsCurrent /\ SensorIsCurrent /\ BufferIsCurrent /\ MailboxIsCurrent
    /\ PressureIsOfItsSample

-----------------------------------------------------------------------------
(* Queues.                                                                 *)

LEMMA AppendKeeps ==
    ASSUME NEW S, NEW s \in Seq(S), NEW x \in S, NEW t, t = Append(s, x) \/ t = s
    PROVE  /\ t \in Seq(S)
           /\ \A i \in 1 .. Len(t) : t[i] = x \/ (i \in 1 .. Len(s) /\ t[i] = s[i])
<1>1. CASE t = s
  BY <1>1
<1>2. CASE t = Append(s, x)
  BY <1>2
<1> QED
  BY <1>1, <1>2

LEMMA PostKeeps ==
    ASSUME NEW S, NEW s \in Seq(S), NEW x \in S, NEW t \in QueueAfter(s, x)
    PROVE  /\ t \in Seq(S)
           /\ \A i \in 1 .. Len(t) : t[i] = x \/ (i \in 1 .. Len(s) /\ t[i] = s[i])
BY AppendKeeps DEF QueueAfter

LEMMA TailShifts ==
    ASSUME NEW S, NEW s \in Seq(S), s # <<>>
    PROVE  /\ Tail(s) \in Seq(S)
           /\ Head(s) = s[1] /\ s[1] \in S /\ 1 \in 1 .. Len(s)
           /\ \A i \in 1 .. Len(Tail(s)) : i + 1 \in 1 .. Len(s) /\ Tail(s)[i] = s[i + 1]
OBVIOUS

-----------------------------------------------------------------------------
(* The environment.                                                        *)

LEMMA SampleDueKeeps == PressureInv /\ SampleDue => PressureInv'
<1> SUFFICES ASSUME PressureInv, SampleDue PROVE PressureInv'
  OBVIOUS
<1> USE DEF PressureInv, SampleDue, Post
<1>1. "SAMPLE_DUE" \in ZsscEventIds
  BY DEF ZsscEventIds
<1>2. /\ queued' \in Seq(ZsscEventIds)
      /\ \A i \in 1 .. Len(queued') :
            queued'[i] = "SAMPLE_DUE" \/ (i \in 1 .. Len(queued) /\ queued'[i] = queued[i])
  BY <1>1, PostKeeps DEF PressureType
<1>3. PressureType' /\ Numbered' /\ PastSamples'
  BY <1>2 DEF PressureType, Numbered, PastSamples
<1>4. StartIsCurrent' /\ SensorIsCurrent'
  BY <1>2 DEF IsRested, StartIsCurrent, SensorIsCurrent, Evident
<1> QED
  BY <1>3, <1>4 DEF IsRested, BufferIsCurrent, MailboxIsCurrent, PressureIsOfItsSample

LEMMA TimerKeeps == PressureInv /\ TimerFires => PressureInv'
<1> SUFFICES ASSUME PressureInv, TimerFires PROVE PressureInv'
  OBVIOUS
<1> USE DEF PressureInv
<1>1. PICK x \in {"POLL_DUE", "TIMEOUT"} :
         /\ queued' \in QueueAfter(queued, x)
         /\ x = "POLL_DUE" => zssc.state \in {"WAITING_EOC", "POLLING"}
  BY DEF TimerFires, Post
<1>2. x \in ZsscEventIds
  BY DEF ZsscEventIds
<1>3. UNCHANGED <<zssc, buffer, rawMailbox, nextId, transfers, sensor, published, rested>>
  BY DEF TimerFires
<1>4. /\ queued' \in Seq(ZsscEventIds)
      /\ \A i \in 1 .. Len(queued') : queued'[i] = x \/ (i \in 1 .. Len(queued) /\ queued'[i] = queued[i])
  BY <1>1, <1>2, PostKeeps DEF PressureType
<1>5. PressureType' /\ Numbered' /\ PastSamples'
  BY <1>3, <1>4 DEF PressureType, Numbered, PastSamples
<1>6. StartIsCurrent' /\ SensorIsCurrent'
  BY <1>1, <1>3, <1>4 DEF IsRested, StartIsCurrent, SensorIsCurrent, Evident
<1> QED
  BY <1>3, <1>5, <1>6 DEF IsRested, BufferIsCurrent, MailboxIsCurrent, PressureIsOfItsSample

LEMMA ConversionKeeps == PressureInv /\ ConversionEnds => PressureInv'
<1> SUFFICES ASSUME PressureInv, ConversionEnds PROVE PressureInv'
  OBVIOUS
<1> USE DEF PressureInv
<1>1. queued' \in QueueAfter(queued, "EOC") /\ sensor.busy
  BY DEF ConversionEnds, Post
<1>2. "EOC" \in ZsscEventIds
  BY DEF ZsscEventIds
<1>3. /\ UNCHANGED <<zssc, buffer, rawMailbox, nextId, transfers, published, rested>>
      /\ sensor' \in [sample : Nat, busy : BOOLEAN]
      /\ sensor'.sample = sensor.sample /\ ~sensor'.busy
  BY DEF ConversionEnds, PressureType
<1>4. queued' \in Seq(ZsscEventIds)
  BY <1>1, <1>2, PostKeeps DEF PressureType
<1>5. PressureType' /\ Numbered' /\ PastSamples'
  BY <1>3, <1>4 DEF PressureType, Numbered, PastSamples
<1>6. StartIsCurrent' /\ SensorIsCurrent'
  BY <1>1, <1>3 DEF IsRested, StartIsCurrent, SensorIsCurrent, Evident
<1> QED
  BY <1>3, <1>5, <1>6 DEF IsRested, BufferIsCurrent, MailboxIsCurrent, PressureIsOfItsSample

-----------------------------------------------------------------------------
(* Handlers.                                                               *)

\* What a turn has in hand: the first event, and the others.
LEMMA TurnEvents ==
    ASSUME PressureInv, queued # <<>>, queued' = Tail(queued)
    PROVE  /\ queued' \in Seq(ZsscEventIds)
           /\ Head(queued) = queued[1] /\ 1 \in 1 .. Len(queued)
           /\ \A i \in 1 .. Len(queued') :
                 i + 1 \in 1 .. Len(queued) /\ queued'[i] = queued[i + 1]
BY TailShifts DEF PressureInv, PressureType

\* A start has the number of its sample; when the chain is at rest, nothing under way
\* can answer for it.
LEMMA OnSampleDueKeeps ==
    ASSUME PressureInv, queued # <<>>, queued' = Tail(queued), Head(queued) = "SAMPLE_DUE",
           OnSampleDue, UNCHANGED sensor
    PROVE  PressureInv'
<1> USE DEF PressureInv
<1>3. nextId' = nextId + 1 /\ nextId \in Nat /\ UNCHANGED <<buffer, published>>
  BY DEF OnSampleDue, PressureType
<1>4. /\ zssc \in ZsscDriver /\ zssc.sequence \in Nat
      /\ rawMailbox' = rawMailbox \/ rawMailbox' = NoPressure
  BY DEF OnSampleDue, PressureType, ZsscDriver
<1>5. CASE zssc.state \in {"IDLE", "STARTING"}
  <2> DEFINE t == Request("start", nextId, zssc.sequence + 1)
  <2>1. /\ zssc' = [state |-> "STARTING", sequence |-> zssc.sequence + 1,
                      correlation |-> nextId]
        /\ transfers' = Append(transfers, t) \/ transfers' = transfers
        /\ rested' = IF AtRest THEN rested \cup {zssc.sequence + 1} ELSE rested
    BY <1>5 DEF OnSampleDue, Submitted
  <2>2. zssc' \in ZsscDriver
    BY <1>3, <1>4, <2>1 DEF ZsscDriver, ZsscStates
  <2>3. t \in Transfer /\ t.kind = "start" /\ t.correlation = nextId
        /\ t.sample = zssc.sequence + 1 /\ ~t.carried
    BY <1>3, <1>4 DEF Transfer, Request
  <2> HIDE DEF t
  <2>4. /\ transfers' \in Seq(Transfer)
        /\ \A i \in 1 .. Len(transfers') :
              transfers'[i] = t \/ (i \in 1 .. Len(transfers) /\ transfers'[i] = transfers[i])
    BY <2>1, <2>3, AppendKeeps DEF PressureType
  <2>5. PressureType'
    BY <1>3, <2>2, <2>4, TurnEvents DEF PressureType
  <2>6. \A i \in 1 .. Len(transfers) : transfers[i].correlation < nextId /\ transfers[i] \in Transfer
    <3> SUFFICES ASSUME NEW i \in 1 .. Len(transfers)
                 PROVE  transfers[i].correlation < nextId /\ transfers[i] \in Transfer
      OBVIOUS
    <3>1. transfers[i] \in Transfer /\ transfers[i].correlation \in Nat /\ zssc.correlation \in Nat
      <4>1. transfers[i] \in Transfer /\ zssc \in ZsscDriver
        BY DEF PressureType
      <4> QED
        BY <4>1 DEF Transfer, ZsscDriver
    <3> QED
      BY <1>3, <3>1 DEF Numbered
  <2>7. Numbered'
    <3>1. zssc'.correlation = nextId /\ nextId < nextId'
      BY <1>3, <2>1
    <3>2. \A i \in 1 .. Len(transfers') : transfers'[i].correlation <= nextId
      <4> SUFFICES ASSUME NEW i \in 1 .. Len(transfers')
                   PROVE  transfers'[i].correlation <= nextId
        OBVIOUS
      <4>1. CASE transfers'[i] = t
        BY <1>3, <2>3, <4>1
      <4>2. CASE i \in 1 .. Len(transfers) /\ transfers'[i] = transfers[i]
        <5>1. transfers[i].correlation \in Nat /\ transfers[i].correlation < nextId
          BY <2>6, <4>2 DEF Transfer
        <5> QED
          BY <1>3, <4>2, <5>1
      <4> QED
        BY <2>4, <4>1, <4>2
    <3> QED
      BY <3>1, <3>2 DEF Numbered
  <2>8. /\ zssc.sequence + 1 \notin rested
        /\ PastSamples' /\ MailboxIsCurrent' /\ PressureIsOfItsSample'
    <3>1. zssc.sequence + 1 \notin rested
      BY <1>4 DEF PastSamples
    <3>2. \A k \in Nat : k <= zssc.sequence => (k \in rested' <=> k \in rested)
      BY <1>4, <2>1
    <3>3. zssc'.sequence = zssc.sequence + 1
      BY <2>1
    <3>4. PastSamples'
      <4>1. rested' \subseteq Nat /\ \A k \in rested' : k <= zssc.sequence + 1
        <5>1. rested' \subseteq rested \cup {zssc.sequence + 1}
          BY <2>1
        <5>2. SUFFICES ASSUME NEW k \in rested' PROVE k \in Nat /\ k <= zssc.sequence + 1
          OBVIOUS
        <5>3. CASE k \in rested
          <6>1. k \in Nat /\ k <= zssc.sequence
            BY <5>3 DEF PastSamples
          <6> QED
            BY <1>4, <6>1
        <5>4. CASE k = zssc.sequence + 1
          BY <1>4, <5>4
        <5> QED
          BY <5>1, <5>2, <5>3, <5>4
      <4>2. /\ rawMailbox' # NoPressure =>
                  rawMailbox'.sequence \in Nat /\ rawMailbox'.sequence <= zssc.sequence + 1
            /\ published' # NoPressure =>
                  published'.sequence \in Nat /\ published'.sequence <= zssc.sequence + 1
        BY <1>3, <1>4 DEF PastSamples
      <4> QED
        BY <3>3, <4>1, <4>2 DEF PastSamples
    <3>5. MailboxIsCurrent' /\ PressureIsOfItsSample'
      BY <1>3, <1>4, <3>2 DEF PastSamples, MailboxIsCurrent, PressureIsOfItsSample
    <3> QED
      BY <3>1, <3>4, <3>5
  <2>9. ASSUME IsRested' PROVE ~Evident' /\ StartIsCurrent'
    <3>1. AtRest
      BY <2>1, <2>8, <2>9 DEF IsRested
    <3>2. zssc'.state \notin {"WAITING_EOC", "READING", "POLLING"} /\ ~sensor'.busy
      BY <2>1, <3>1 DEF AtRest
    <3>3. \A i \in 1 .. Len(queued') : queued'[i] \notin {"POLL_DUE", "EOC"}
      <4>1. \A i \in DOMAIN queued' : queued'[i] \notin {"POLL_DUE", "EOC"}
        BY <3>1, Zenon DEF AtRest
      <4>2. DOMAIN queued' = 1 .. Len(queued')
        BY TurnEvents
      <4> QED
        BY <4>1, <4>2
    <3>4. ASSUME NEW i \in 1 .. Len(transfers')
          PROVE  /\ ~(transfers'[i].kind = "start" /\ transfers'[i].carried)
                 /\ ~(transfers'[i].kind = "read" /\ transfers'[i].correlation = zssc'.correlation)
                 /\ transfers'[i].kind = "start" => transfers'[i].sample = zssc'.sequence
      <4>1. CASE transfers'[i] = t
        BY <2>1, <2>3, <4>1
      <4>2. CASE i \in 1 .. Len(transfers) /\ transfers'[i] = transfers[i]
        <5>1. transfers[i].kind # "start" /\ transfers[i].correlation \in Nat
              /\ transfers[i].correlation < nextId
          BY <2>6, <3>1, <4>2 DEF AtRest, Transfer
        <5>2. zssc'.correlation = nextId
          BY <2>1
        <5> QED
          BY <1>3, <4>2, <5>1, <5>2
      <4> QED
        BY <2>4, <4>1, <4>2
    <3> QED
      BY <3>2, <3>3, <3>4 DEF Evident, StartIsCurrent
  <2>10. BufferIsCurrent'
    BY <2>1 DEF BufferIsCurrent
  <2>11. StartIsCurrent' /\ SensorIsCurrent'
    BY <2>9 DEF StartIsCurrent, SensorIsCurrent
  <2> QED
    BY <2>5, <2>7, <2>8, <2>10, <2>11
<1>6. CASE zssc.state \notin {"IDLE", "STARTING"}
  <2>1. UNCHANGED <<zssc, transfers, rawMailbox, rested>>
    BY <1>6 DEF OnSampleDue
  <2>2. PressureType'
    BY <1>3, <2>1, TurnEvents DEF PressureType
  <2>3. Numbered' /\ PastSamples'
    <3>1. zssc.correlation \in Nat
      BY DEF PressureType, ZsscDriver
    <3> QED
      BY <1>3, <2>1, <3>1 DEF Numbered, PastSamples
  <2>4. StartIsCurrent' /\ SensorIsCurrent' /\ BufferIsCurrent'
    BY <1>3, <2>1, TurnEvents
       DEF IsRested, StartIsCurrent, SensorIsCurrent, Evident, BufferIsCurrent
  <2>5. MailboxIsCurrent' /\ PressureIsOfItsSample'
    BY <1>3, <2>1 DEF MailboxIsCurrent, PressureIsOfItsSample
  <2> QED
    BY <2>2, <2>3, <2>4, <2>5
<1> QED
  BY <1>5, <1>6

\* A read is made for the sample under way, whose start the event before it proves,
\* and forgets what the buffer held.
LEMMA ReadKeeps ==
    ASSUME PressureInv, queued # <<>>, queued' = Tail(queued), Head(queued) \in {"POLL_DUE", "EOC"},
           NEW state \in {"READING", "POLLING"}, Read(state), UNCHANGED sensor
    PROVE  PressureInv'
<1> USE DEF PressureInv
<1> DEFINE t == Request("read", zssc.correlation, zssc.sequence)
<1>1. IsRested => sensor.sample = zssc.sequence
  BY TurnEvents DEF SensorIsCurrent, Evident
<1>2. /\ zssc' = [zssc EXCEPT !.state = state]
      /\ buffer' = Zeroed
      /\ transfers' = Append(transfers, t) \/ transfers' = transfers
      /\ UNCHANGED <<rawMailbox, nextId, published, rested>>
  BY DEF Read, Submitted
<1>3. /\ zssc' \in ZsscDriver
      /\ zssc'.sequence = zssc.sequence /\ zssc'.correlation = zssc.correlation
      /\ zssc.correlation \in Nat /\ zssc.sequence \in Nat
  BY <1>2 DEF PressureType, ZsscDriver, ZsscStates
<1>4. t \in Transfer /\ t.correlation = zssc.correlation /\ t.kind = "read"
  BY <1>3 DEF Transfer, Request
<1> HIDE DEF t
<1>5. /\ transfers' \in Seq(Transfer)
      /\ \A i \in 1 .. Len(transfers') :
            transfers'[i] = t \/ (i \in 1 .. Len(transfers) /\ transfers'[i] = transfers[i])
  BY <1>2, <1>4, AppendKeeps DEF PressureType
<1>6. PressureType'
  BY <1>2, <1>3, <1>5, TurnEvents DEF PressureType
<1>7. Numbered' /\ PastSamples'
  BY <1>2, <1>3, <1>4, <1>5 DEF Numbered, PastSamples
<1>8. StartIsCurrent' /\ SensorIsCurrent' /\ BufferIsCurrent'
  BY <1>1, <1>2, <1>3, <1>4, <1>5 DEF IsRested, StartIsCurrent, SensorIsCurrent, BufferIsCurrent
<1>9. MailboxIsCurrent' /\ PressureIsOfItsSample'
  BY <1>2 DEF MailboxIsCurrent, PressureIsOfItsSample
<1> QED
  BY <1>6, <1>7, <1>8, <1>9, TurnEvents

\* The other two handlers leave the bus and the buffer alone.
LEMMA OthersKeep ==
    ASSUME PressureInv, queued # <<>>, queued' = Tail(queued),
           OnPressureTimeout \/ OnPressureReady, UNCHANGED sensor
    PROVE  PressureInv'
<1> USE DEF PressureInv
<1>1. /\ zssc' = zssc \/ zssc' = [zssc EXCEPT !.state = "TIMEOUT"]
                          \/ zssc' = [zssc EXCEPT !.state = "IDLE"]
      /\ UNCHANGED <<buffer, nextId, transfers, rested>>
      /\ rawMailbox' = rawMailbox \/ rawMailbox' = NoPressure
      /\ published' = published \/ (rawMailbox # NoPressure /\ published' = rawMailbox)
  BY DEF OnPressureTimeout, OnPressureReady, Take
<1>2. /\ zssc' \in ZsscDriver
      /\ zssc'.sequence = zssc.sequence /\ zssc'.correlation = zssc.correlation
      /\ zssc' = zssc \/ zssc'.state \in {"TIMEOUT", "IDLE"}
  BY <1>1 DEF PressureType, ZsscDriver, ZsscStates
<1>3. PressureType' /\ Numbered' /\ PastSamples'
  BY <1>1, <1>2, TurnEvents DEF PressureType, Numbered, PastSamples
<1>4. Evident' => Evident
  BY <1>1, <1>2, TurnEvents DEF Evident
<1>5. StartIsCurrent' /\ SensorIsCurrent' /\ BufferIsCurrent'
  BY <1>1, <1>2, <1>4 DEF IsRested, StartIsCurrent, SensorIsCurrent, BufferIsCurrent
<1>6. MailboxIsCurrent'
  BY <1>1 DEF MailboxIsCurrent
<1>7. PressureIsOfItsSample'
  BY <1>1 DEF OnPressureTimeout, OnPressureReady, IsUsable, MailboxIsCurrent, PressureIsOfItsSample
<1> QED
  BY <1>3, <1>5, <1>6, <1>7

LEMMA PressureTurnKeeps == PressureInv /\ PressureTurn => PressureInv'
<1> SUFFICES ASSUME PressureInv, PressureTurn PROVE PressureInv'
  OBVIOUS
<1>1. queued # <<>> /\ queued' = Tail(queued) /\ UNCHANGED sensor
  BY DEF PressureTurn
<1>2. CASE Head(queued) = "SAMPLE_DUE" /\ OnSampleDue
  BY <1>1, <1>2, OnSampleDueKeeps
<1>3. CASE Head(queued) = "EOC" /\ Read("READING")
  BY <1>1, <1>3, ReadKeeps
<1>4. CASE Head(queued) = "POLL_DUE" /\ Read("POLLING")
  BY <1>1, <1>4, ReadKeeps
<1>5. CASE OnPressureTimeout \/ OnPressureReady
  BY <1>1, <1>5, OthersKeep
<1> QED
  BY <1>2, <1>3, <1>4, <1>5 DEF PressureTurn

-----------------------------------------------------------------------------
(* The bus.                                                                *)

\* The start makes the sensor work at the sample under way; a read moves what
\* the sensor holds, and that is of the sample under way when anybody waits.
LEMMA CarryKeeps == PressureInv /\ BusCarries => PressureInv'
<1> SUFFICES ASSUME PressureInv, BusCarries PROVE PressureInv'
  OBVIOUS
<1> USE DEF PressureInv
<1>1. /\ transfers # <<>> /\ transfers' = [transfers EXCEPT ![1].carried = TRUE]
      /\ UNCHANGED <<queued, zssc, rawMailbox, nextId, published, rested>>
  BY DEF BusCarries
<1>2. /\ Head(transfers) = transfers[1] /\ transfers[1] \in Transfer /\ 1 \in 1 .. Len(transfers)
      /\ zssc \in ZsscDriver
  BY <1>1, TailShifts DEF PressureType
<1>3. [transfers[1] EXCEPT !.carried = TRUE] \in Transfer
  BY <1>2 DEF Transfer
<1>4. /\ transfers' \in Seq(Transfer) /\ Len(transfers') = Len(transfers)
      /\ \A i \in 1 .. Len(transfers) :
            transfers'[i] = IF i = 1 THEN [transfers[1] EXCEPT !.carried = TRUE] ELSE transfers[i]
  BY <1>1, <1>2, <1>3 DEF PressureType
<1>5. \A i \in 1 .. Len(transfers') :
         /\ i \in 1 .. Len(transfers)
         /\ transfers'[i].kind = transfers[i].kind
         /\ transfers'[i].correlation = transfers[i].correlation
         /\ transfers'[i].sample = transfers[i].sample
         /\ i # 1 => transfers'[i].carried = transfers[i].carried
  BY <1>2, <1>4 DEF Transfer
<1>6. /\ Numbered' /\ PastSamples' /\ StartIsCurrent'
      /\ MailboxIsCurrent' /\ PressureIsOfItsSample'
  BY <1>1, <1>5 DEF Numbered, PastSamples, IsRested, StartIsCurrent, MailboxIsCurrent,
                    PressureIsOfItsSample
<1>7. CASE Head(transfers).kind = "start"
  <2>1. /\ \/ sensor' = [sample |-> transfers[1].sample, busy |-> TRUE]
           \/ sensor.busy /\ sensor' = sensor
        /\ buffer' = buffer
    BY <1>2, <1>7 DEF BusCarries
  <2>2. PressureType'
    <3>1. transfers[1].sample \in Nat
      BY <1>2 DEF Transfer
    <3>2. [sample |-> transfers[1].sample, busy |-> TRUE] \in [sample : Nat, busy : BOOLEAN]
      BY <3>1
    <3>3. sensor' \in [sample : Nat, busy : BOOLEAN]
      BY <2>1, <3>2 DEF PressureType
    <3> QED
      BY <1>1, <1>4, <3>3 DEF PressureType
  <2>3. IsRested => sensor'.sample = zssc.sequence
    BY <1>2, <1>7, <2>1 DEF StartIsCurrent, SensorIsCurrent, Evident
  <2>4. SensorIsCurrent' /\ BufferIsCurrent'
    BY <1>1, <2>1, <2>3 DEF IsRested, SensorIsCurrent, BufferIsCurrent
  <2> QED
    BY <1>6, <2>2, <2>4
<1>8. CASE Head(transfers).kind # "start"
  <2>1. /\ sensor' = sensor
        /\ buffer' = IF sensor.busy THEN Busy ELSE sensor.sample
    BY <1>8 DEF BusCarries
  <2>2. PressureType'
    BY <1>1, <1>4, <2>1 DEF PressureType
  <2>3. Evident' => Evident
    BY <1>1, <1>2, <1>5, <1>8, <2>1 DEF Evident
  <2>4. SensorIsCurrent' /\ BufferIsCurrent'
    BY <1>1, <2>1, <2>3 DEF IsRested, SensorIsCurrent, Evident, BufferIsCurrent
  <2> QED
    BY <1>6, <2>2, <2>4
<1> QED
  BY <1>7, <1>8

\* An answer moves the driver only when it has the number of the sample under way,
\* and then the start of that sample has reached the sensor.
LEMMA AnswerKeeps == PressureInv /\ BusAnswers => PressureInv'
<1> SUFFICES ASSUME PressureInv, BusAnswers PROVE PressureInv'
  OBVIOUS
<1> USE DEF PressureInv
<1> DEFINE t == Head(transfers)
<1>1. /\ transfers # <<>> /\ transfers' = Tail(transfers)
      /\ UNCHANGED <<buffer, nextId, sensor, published, rested>>
      /\ (t.carried /\ Succeeds(t, buffer)) \/ Fails(t)
  BY DEF BusAnswers
<1>2. /\ t = transfers[1] /\ t \in Transfer /\ 1 \in 1 .. Len(transfers)
      /\ transfers' \in Seq(Transfer)
      /\ \A i \in 1 .. Len(transfers') :
            i + 1 \in 1 .. Len(transfers) /\ transfers'[i] = transfers[i + 1]
  BY <1>1, TailShifts DEF PressureType
<1>3. PressureIsOfItsSample'
  BY <1>1 DEF PressureIsOfItsSample
<1> HIDE DEF t
<1>5. /\ zssc' = zssc
         \/ /\ zssc' = [zssc EXCEPT !.state = "WAITING_EOC"]
            /\ t.carried /\ IsAwaited(t)
         \/ zssc' = [zssc EXCEPT !.state = "RECOVERY"]
         \/ /\ zssc' = [zssc EXCEPT !.state = "POLLING"]
            /\ zssc.state \in {"READING", "POLLING"}
         \/ /\ zssc' = [zssc EXCEPT !.state = "RAW_READY"]
            /\ zssc.state \in {"READING", "POLLING"}
      /\ \/ rawMailbox' = rawMailbox
         \/ /\ rawMailbox' = [sequence |-> zssc.sequence, data |-> buffer]
            /\ zssc.state \in {"READING", "POLLING"} /\ buffer # Busy
      /\ queued' = queued \/ queued' \in QueueAfter(queued, "RAW_READY")
  BY <1>1 DEF Succeeds, Fails, Post
<1>6. /\ zssc' \in ZsscDriver
      /\ zssc'.sequence = zssc.sequence /\ zssc'.correlation = zssc.correlation
      /\ zssc'.state \in {"IDLE", "STARTING"} => zssc'.state = zssc.state
      /\ zssc'.state = "WAITING_EOC" => \/ zssc.state = "WAITING_EOC"
                                        \/ t.carried /\ IsAwaited(t)
      /\ zssc'.state \in {"READING", "POLLING"} => zssc.state \in {"READING", "POLLING"}
  <2>1. zssc \in ZsscDriver
    BY DEF PressureType
  <2>2. CASE zssc' = zssc
    BY <2>1, <2>2
  <2>3. CASE zssc' = [zssc EXCEPT !.state = "WAITING_EOC"] /\ t.carried /\ IsAwaited(t)
    BY <2>1, <2>3 DEF ZsscDriver, ZsscStates
  <2>4. CASE zssc' = [zssc EXCEPT !.state = "RECOVERY"]
    BY <2>1, <2>4 DEF ZsscDriver, ZsscStates
  <2>5. CASE /\ zssc' = [zssc EXCEPT !.state = "POLLING"]
             /\ zssc.state \in {"READING", "POLLING"}
    BY <2>1, <2>5 DEF ZsscDriver, ZsscStates
  <2>6. CASE /\ zssc' = [zssc EXCEPT !.state = "RAW_READY"]
             /\ zssc.state \in {"READING", "POLLING"}
    BY <2>1, <2>6 DEF ZsscDriver, ZsscStates
  <2> QED
    BY <1>5, <2>2, <2>3, <2>4, <2>5, <2>6
<1>7. "RAW_READY" \in ZsscEventIds
  BY DEF ZsscEventIds
<1>8. queued' \in QueueAfter(queued, "RAW_READY")
  BY <1>5 DEF QueueAfter
<1>9. /\ queued' \in Seq(ZsscEventIds)
      /\ \A i \in 1 .. Len(queued') :
            queued'[i] = "RAW_READY" \/ (i \in 1 .. Len(queued) /\ queued'[i] = queued[i])
  BY <1>7, <1>8, PostKeeps DEF PressureType
<1>10. PressureType' /\ Numbered'
  BY <1>1, <1>2, <1>6, <1>9 DEF PressureType, Numbered
<1>11. PastSamples' /\ StartIsCurrent'
  <2>1. zssc.sequence \in Nat
    BY DEF PressureType, ZsscDriver
  <2> QED
    BY <1>1, <1>2, <1>5, <1>6, <2>1 DEF PastSamples, IsRested, StartIsCurrent
<1>12. Evident' => Evident
  <2>1. t.carried /\ IsAwaited(t) => Evident
    BY <1>2 DEF IsAwaited, Transfer, Evident
  <2>2. zssc'.state \in {"WAITING_EOC", "READING", "POLLING"} => Evident
    BY <1>6, <2>1 DEF Evident
  <2>3. (\E i \in 1 .. Len(queued') : queued'[i] \in {"POLL_DUE", "EOC"}) => Evident
    BY <1>9 DEF Evident
  <2>4. ASSUME NEW i \in 1 .. Len(transfers'),
               \/ transfers'[i].kind = "start" /\ transfers'[i].carried
               \/ transfers'[i].kind = "read" /\ transfers'[i].correlation = zssc'.correlation
        PROVE  Evident
    BY <1>2, <1>6, <2>4 DEF Evident
  <2>5. sensor'.busy => Evident
    BY <1>1 DEF Evident
  <2> QED
    BY <2>2, <2>3, <2>4, <2>5 DEF Evident
<1>13. SensorIsCurrent' /\ BufferIsCurrent'
  BY <1>1, <1>6, <1>12 DEF IsRested, SensorIsCurrent, BufferIsCurrent
<1>14. MailboxIsCurrent'
  BY <1>1, <1>5 DEF IsRested, BufferIsCurrent, MailboxIsCurrent
<1> QED
  BY <1>3, <1>10, <1>11, <1>13, <1>14

-----------------------------------------------------------------------------
LEMMA PressureInitHolds == PressureInit => PressureInv
<1> SUFFICES ASSUME PressureInit PROVE PressureInv
  OBVIOUS
<1>1. PressureType
  BY DEF PressureInit, PressureType, ZsscDriver, ZsscStates
<1> QED
  BY <1>1 DEF PressureInit, PressureInv, Numbered, PastSamples, IsRested, StartIsCurrent,
              SensorIsCurrent, Evident, BufferIsCurrent, MailboxIsCurrent, PressureIsOfItsSample

\* What zssc3241.c files under the number of a sample that was started with the chain at
\* rest was measured for that sample, however later due events, starts, reads, ends of
\* conversion, polls, timeouts and completions fall.  Of a sample that meets an earlier
\* start, conversion or signal (measurement_manager.c:110-116) nothing is said.
THEOREM PublishedIsMeasured == PressureSpec => []PressureIsOfItsSample
<1>1. PressureInit => PressureInv
  BY PressureInitHolds
<1>2. PressureInv /\ [PressureNext]_pressureVars => PressureInv'
  <2> SUFFICES ASSUME PressureInv, [PressureNext]_pressureVars PROVE PressureInv'
    OBVIOUS
  <2>1. CASE PressureNext
    BY <2>1, SampleDueKeeps, TimerKeeps, ConversionKeeps, PressureTurnKeeps, CarryKeeps, AnswerKeeps
       DEF PressureNext
  <2>2. CASE UNCHANGED pressureVars
    BY <2>2 DEF pressureVars, PressureInv, PressureType, Numbered, PastSamples, IsRested,
                StartIsCurrent, SensorIsCurrent, Evident, BufferIsCurrent, MailboxIsCurrent, PressureIsOfItsSample
  <2> QED
    BY <2>1, <2>2
<1>3. PressureInv => PressureIsOfItsSample
  BY DEF PressureInv
<1> QED
  BY <1>1, <1>2, <1>3, PTL DEF PressureSpec
=============================================================================
