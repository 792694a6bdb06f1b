--------------------------- MODULE TelemetryProof ---------------------------
(***************************************************************************)
(* The telemetry queue for every capacity, time-to-live and number of      *)
(* records: one entry for a record, one record in flight.                  *)
(***************************************************************************)
EXTENDS Telemetry, FiniteSetTheorems, WellFoundedInduction, TLAPS

-----------------------------------------------------------------------------
(* The search for the oldest record.                                       *)

\* Every non-empty set of naturals has a least member.
LEMMA LeastNatural ==
    ASSUME NEW T \in SUBSET Nat, T # {}
    PROVE  \E m \in T : \A n \in T : m <= n
<1> DEFINE R == OpToRel(<, Nat)
<1>1. IsWellFoundedOn(R, Nat)
  BY NatLessThanWellFounded
<1>2. ASSUME NEW n \in Nat, NEW m \in Nat, n < m
      PROVE  <<n, m>> \in R
  BY <1>2 DEF OpToRel
<1> HIDE DEF R
<1>3. PICK m \in T : \A n \in T : ~(<<n, m>> \in R)
  BY <1>1, WFMin
<1>4. ASSUME NEW n \in T
      PROVE  m <= n
  <2>1. n \in Nat /\ m \in Nat
    OBVIOUS
  <2>2. ~(n < m)
    BY <1>2, <1>3, <2>1
  <2> QED
    BY <2>1, <2>2
<1> QED
  BY <1>4

States == {"BUILT", "QUEUED", "IN_FLIGHT", "ACKNOWLEDGED", "DROPPED"}
Entry == [state : States, sequence : Nat, at : Nat]

\* The code's scan with a strict comparison always finds an index: the loops that
\* use it never run off the array while a candidate is there.
LEMMA OldestIsMember ==
    ASSUME entries \in [Indices -> Entry], NEW S \in SUBSET Indices, S # {}
    PROVE  Oldest(S) \in S
<1> DEFINE Times == {entries[i].at : i \in S}
<1>1. Times \in SUBSET Nat /\ Times # {}
  BY DEF Entry
<1>2. PICK t \in Times : \A u \in Times : t <= u
  BY <1>1, LeastNatural
<1> DEFINE Early == {i \in S : entries[i].at = t}
<1>3. Early \in SUBSET Nat /\ Early # {}
  <2>1. Indices \subseteq Nat
    BY SizesAssumption DEF Indices
  <2>2. PICK k \in S : entries[k].at = t
    BY <1>2
  <2>3. k \in Early
    BY <2>2
  <2> QED
    BY <2>1, <2>3
<1>4. PICK i \in Early : \A j \in Early : i <= j
  BY <1>3, LeastNatural
<1>5. ASSUME NEW j \in S
      PROVE  entries[i].at < entries[j].at \/ (entries[i].at = entries[j].at /\ i <= j)
  <2>1. entries[i].at = t /\ entries[j].at \in Times
    BY <1>4
  <2>2. t \in Nat /\ entries[j].at \in Nat /\ t <= entries[j].at
    BY <1>1, <1>2, <2>1
  <2>3. CASE entries[j].at = t
    BY <1>4, <2>1, <2>3
  <2>4. CASE entries[j].at # t
    BY <2>1, <2>2, <2>4
  <2> QED
    BY <2>3, <2>4
<1>6. i \in S
  BY <1>4
<1> HIDE DEF Times, Early
<1> QED
  BY <1>5, <1>6 DEF Oldest

-----------------------------------------------------------------------------
(* The invariant.                                                          *)

QueueInv ==
    /\ entries \in [Indices -> Entry]
    /\ tail \in Indices
    /\ now \in Nat
    /\ produced \in Nat
    /\ OneInFlight
    /\ OneEntryPerRecord

\* The steps that only mark entries as dropped, or leave the queue alone: what
\* was live keeps its record, and nothing becomes live or in flight.
LEMMA FewerLiveEntries ==
    ASSUME QueueInv, entries' \in [Indices -> Entry],
           tail' \in Indices, now' \in Nat, produced' \in Nat,
           UNCHANGED <<hasInFlight, inFlightIdx>>,
           NEW S, \A i \in Indices \ S : entries'[i] = entries[i],
           \A i \in Indices \cap S : entries'[i].state \in {"BUILT", "DROPPED"}
    PROVE  QueueInv'
<1> USE DEF QueueInv
<1>1. OneInFlight'
  BY DEF OneInFlight, In
<1>2. OneEntryPerRecord'
  BY DEF OneEntryPerRecord, Live, In
<1> QED
  BY <1>1, <1>2

LEMMA DroppedEntries ==
    ASSUME entries \in [Indices -> Entry], NEW S
    PROVE  /\ Dropped(entries, S) \in [Indices -> Entry]
           /\ \A i \in Indices \ S : Dropped(entries, S)[i] = entries[i]
           /\ \A i \in Indices \cap S : Dropped(entries, S)[i].state = "DROPPED"
BY DEF Dropped, Entry, States

\* TelemetryQueue_Tick.
LEMMA TickKeepsQueue ==
    ASSUME QueueInv, QueueTick, UNCHANGED <<now, produced>>
    PROVE  QueueInv'
<1>1. entries' = Dropped(entries, Expired)
  BY DEF QueueTick
<1>2. UNCHANGED <<tail, hasInFlight, inFlightIdx>>
  BY DEF QueueTick
<1>3. entries \in [Indices -> Entry]
  BY DEF QueueInv
<1>4. /\ entries' \in [Indices -> Entry]
      /\ \A i \in Indices \ Expired : entries'[i] = entries[i]
      /\ \A i \in Indices \cap Expired : entries'[i].state \in {"BUILT", "DROPPED"}
  BY <1>1, <1>3, DroppedEntries
<1> QED
  BY <1>2, <1>4, FewerLiveEntries DEF QueueInv

\* TelemetryQueue_Enqueue: the new record was in no live entry, whichever entry it
\* lands on and whatever was dropped for it.
LEMMA EnqueueKeepsQueue ==
    ASSUME QueueInv, NEW s \in Nat, Enqueue(s), now' = now, produced' \in Nat
    PROVE  QueueInv'
<1> DEFINE kept == Dropped(entries, Victims)
<1>1. /\ ~IsDuplicate(s)
      /\ entries' = [kept EXCEPT ![tail] = [state |-> "QUEUED", sequence |-> s, at |-> now]]
      /\ tail' = (tail + 1) % Capacity
      /\ UNCHANGED <<hasInFlight, inFlightIdx>>
  BY DEF Enqueue
<1>2. /\ entries \in [Indices -> Entry]
      /\ tail \in Indices /\ now \in Nat
      /\ OneInFlight /\ OneEntryPerRecord
  BY DEF QueueInv
<1>3. /\ kept \in [Indices -> Entry]
      /\ \A i \in Indices \ Victims : kept[i] = entries[i]
      /\ \A i \in Indices \cap Victims : kept[i].state = "DROPPED"
  BY <1>2, DroppedEntries
<1> HIDE DEF kept
<1>4. [state |-> "QUEUED", sequence |-> s, at |-> now] \in Entry
  BY <1>2 DEF Entry, States
<1>5. /\ entries' \in [Indices -> Entry]
      /\ \A i \in Indices \ {tail} : entries'[i] = kept[i]
      /\ entries'[tail].state = "QUEUED" /\ entries'[tail].sequence = s
  BY <1>1, <1>2, <1>3, <1>4
<1>6. tail' \in Indices
  <2>1. tail \in Nat /\ Capacity \in Nat \ {0}
    BY <1>2, SizesAssumption DEF Indices
  <2> QED
    BY <1>1, <2>1 DEF Indices
<1>7. \A i \in Indices \ {tail} : Live(i)' => Live(i) /\ entries'[i] = entries[i]
  BY <1>3, <1>5 DEF Live, In
<1>8. OneInFlight'
  BY <1>1, <1>2, <1>3, <1>5 DEF OneInFlight, In
<1>9. OneEntryPerRecord'
  <2>1. \A i \in Indices \ {tail} : Live(i)' => entries'[i].sequence # s
    BY <1>1, <1>7 DEF IsDuplicate, Live, In
  <2> QED
    BY <1>2, <1>5, <1>7, <2>1 DEF OneEntryPerRecord
<1> QED
  BY <1>1, <1>2, <1>5, <1>6, <1>8, <1>9 DEF QueueInv

\* TelemetryQueue_Dequeue: only when nothing is in flight.
LEMMA DequeueKeepsQueue ==
    ASSUME QueueInv, Dequeue, UNCHANGED <<now, produced>>
    PROVE  QueueInv'
<1> DEFINE i == Oldest(Queued)
<1>1. /\ ~hasInFlight /\ Queued # {}
      /\ entries' = [entries EXCEPT ![i].state = "IN_FLIGHT"]
      /\ inFlightIdx' = i /\ hasInFlight' = TRUE
      /\ tail' = tail
  BY DEF Dequeue, CanDequeue
<1>2. /\ entries \in [Indices -> Entry]
      /\ OneInFlight /\ OneEntryPerRecord
  BY DEF QueueInv
<1>3. i \in Queued
  BY <1>1, <1>2, OldestIsMember DEF Queued
<1>4. i \in Indices /\ Live(i)
  BY <1>3 DEF Queued, Live, In
<1> HIDE DEF i
<1>5. /\ entries' \in [Indices -> Entry]
      /\ \A j \in Indices \ {i} : entries'[j] = entries[j]
      /\ entries'[i].sequence = entries[i].sequence
  BY <1>1, <1>2, <1>4 DEF Entry, States
<1>6. OneInFlight'
  BY <1>1, <1>2, <1>5 DEF OneInFlight, In
<1>7. OneEntryPerRecord'
  <2>1. \A j \in Indices : Live(j)' => Live(j) /\ entries'[j].sequence = entries[j].sequence
    BY <1>4, <1>5 DEF Live, In
  <2> QED
    BY <1>2, <2>1 DEF OneEntryPerRecord
<1> QED
  BY <1>1, <1>5, <1>6, <1>7 DEF QueueInv

\* TelemetryQueue_Ack.
LEMMA AckKeepsQueue ==
    ASSUME QueueInv, NEW s, Ack(s), UNCHANGED <<now, produced>>
    PROVE  QueueInv'
<1>1. CASE UNCHANGED queueVars
  BY <1>1 DEF queueVars, QueueInv, OneInFlight, OneEntryPerRecord, Live, In
<1>2. CASE ~(s = 0 \/ Acknowledgeable(s) = {})
  <2> DEFINE i == Min(Acknowledgeable(s))
  <2>1. /\ entries' = [entries EXCEPT ![i].state = "ACKNOWLEDGED"]
        /\ hasInFlight' = (hasInFlight /\ inFlightIdx # i)
        /\ UNCHANGED <<tail, inFlightIdx>>
    BY <1>2 DEF Ack
  <2> HIDE DEF i
  <2>2. /\ entries \in [Indices -> Entry]
        /\ OneInFlight /\ OneEntryPerRecord
    BY DEF QueueInv
  <2>3. /\ entries' \in [Indices -> Entry]
        /\ \A j \in Indices \ {i} : entries'[j] = entries[j]
        /\ i \in Indices => entries'[i].state = "ACKNOWLEDGED"
    BY <2>1, <2>2 DEF Entry, States
  <2>4. OneInFlight'
    BY <2>1, <2>2, <2>3 DEF OneInFlight, In
  <2>5. OneEntryPerRecord'
    <3>1. \A j \in Indices : Live(j)' => Live(j) /\ entries'[j] = entries[j]
      BY <2>3 DEF Live, In
    <3> QED
      BY <2>2, <3>1 DEF OneEntryPerRecord
  <2> QED
    BY <2>1, <2>3, <2>4, <2>5 DEF QueueInv
<1> QED
  BY <1>1, <1>2 DEF Ack

-----------------------------------------------------------------------------
(* The theorems.                                                           *)

LEMMA InitQueue == Init => QueueInv
<1> SUFFICES ASSUME Init PROVE QueueInv
  OBVIOUS
<1>1. \A i \in Indices : entries[i] = Blank
  BY DEF Init
<1>2. Blank \in Entry
  BY DEF Blank, Entry, States
<1>3. 0 \in Indices
  BY SizesAssumption DEF Indices
<1>4. OneInFlight /\ OneEntryPerRecord
  BY <1>1 DEF OneInFlight, OneEntryPerRecord, Live, In, Blank
<1> QED
  BY <1>2, <1>3, <1>4 DEF Init, QueueInv

LEMMA QueueUntouched ==
    ASSUME QueueInv, UNCHANGED queueVars, now' \in Nat, produced' \in Nat
    PROVE  QueueInv'
BY DEF queueVars, QueueInv, OneInFlight, OneEntryPerRecord, Live, In

LEMMA NextKeepsQueue ==
    ASSUME QueueInv, [Next]_vars
    PROVE  QueueInv'
<1>0. now \in Nat /\ produced \in Nat
  BY DEF QueueInv
<1>1. CASE Produce
  <2>1. PICK s \in 1 .. produced + 1 :
           /\ Enqueue(s)
           /\ produced' = IF s > produced THEN s ELSE produced
    BY <1>1 DEF Produce
  <2>2. s \in Nat /\ produced' \in Nat /\ now' = now
    BY <1>0, <1>1, <2>1 DEF Produce
  <2> QED
    BY <2>1, <2>2, EnqueueKeepsQueue
<1>2. CASE Expire
  BY <1>2, TickKeepsQueue DEF Expire, envVars
<1>3. CASE Connect \/ Disconnect \/ CompleteFailed \/ CompleteUnknown
  <2>1. UNCHANGED queueVars /\ now' = now /\ produced' = produced
    BY <1>3 DEF Connect, Disconnect, CompleteFailed, CompleteUnknown, envVars
  <2> QED
    BY <1>0, <2>1, QueueUntouched
<1>4. CASE Start
  BY <1>4, DequeueKeepsQueue DEF Start
<1>5. CASE CompleteAnswered
  BY <1>5, AckKeepsQueue DEF CompleteAnswered
<1>6. CASE DeliveryTick
  <2>1. CASE UNCHANGED queueVars /\ UNCHANGED envVars
    BY <1>0, <2>1, QueueUntouched DEF envVars
  <2> QED
    BY <1>4, <1>6, <2>1 DEF DeliveryTick
<1>7. CASE Clock
  <2>1. UNCHANGED queueVars /\ now' = now + 1 /\ produced' = produced
    BY <1>7 DEF Clock
  <2> QED
    BY <1>0, <2>1, QueueUntouched
<1>8. CASE UNCHANGED vars
  BY <1>0, <1>8, QueueUntouched DEF vars, envVars
<1> QED
  BY <1>1, <1>2, <1>3, <1>4, <1>5, <1>6, <1>7, <1>8 DEF Next, StartAttempt

\* FW-TQ-REQ-003: at most one record is in flight, and it is the marked one.
THEOREM OnlyOneInFlight == Spec => []OneInFlight
<1>1. QueueInv => OneInFlight
  BY DEF QueueInv
<1> QED
  BY <1>1, InitQueue, NextKeepsQueue, PTL DEF Spec

\* FW-TQ-REQ-004: repeated production, drops and reuse of slots never put one
\* record into the queue twice.
THEOREM NoDuplicateRecords == Spec => []OneEntryPerRecord
<1>1. QueueInv => OneEntryPerRecord
  BY DEF QueueInv
<1> QED
  BY <1>1, InitQueue, NextKeepsQueue, PTL DEF Spec

-----------------------------------------------------------------------------
(* The count and the attempts.                                             *)

Slot == [state : States, sequence : Sequences \union {0}, at : 0 .. MaxTime]

LiveSlots == {i \in Indices : Live(i)}

\* Until the ring has gone round once the slots from the tail on are blank: a full
\* queue has none, so that what it gives up was counted.
BlankAhead ==
    \A i \in Indices :
        In(i, {"BUILT"}) => entries[i].at = 0 /\ tail <= i /\ count <= tail

\* Every live record is counted (one that was overwritten still is).
Counted ==
    /\ entries \in [Indices -> Slot]
    /\ count \in 0 .. Capacity
    /\ tail \in Indices /\ inFlightIdx \in Indices /\ hasInFlight \in BOOLEAN
    /\ now \in 0 .. MaxTime
    /\ Cardinality(LiveSlots) <= count
    /\ \A i \in LiveSlots : entries[i].sequence # 0
    /\ BlankAhead

\* A second attempt would need the mark that the first one holds.
Attempted ==
    /\ delivery \in {"IDLE", "SENDING", "RETRY_WAIT"}
    /\ current \in Sequences \union {0} /\ retryAt \in 0 .. MaxTime
    /\ produced \in 0 .. MaxRecords /\ answered \subseteq Sequences
    /\ attempts \in {0, 1} /\ (~hasInFlight => attempts = 0)
    /\ awaiting => current # 0

Flags == online \in BOOLEAN /\ awaiting \in BOOLEAN /\ disturbed \in BOOLEAN

IInv == Counted /\ Attempted /\ Flags

LEMMA CapacityFits ==
    Capacity \in Nat \ {0} /\ CounterModulus \in Nat \ {0} /\ Capacity < CounterModulus
BY SizesAssumption

LEMMA IndicesAreFinite ==
    /\ IsFiniteSet(Indices) /\ Indices \subseteq Nat /\ 0 \in Indices
    /\ \A S \in SUBSET Indices : IsFiniteSet(S) /\ Cardinality(S) \in Nat
<1>1. IsFiniteSet(Indices)
  <2>1. 0 \in Int /\ Capacity - 1 \in Int
    BY CapacityFits
  <2> QED
    BY <2>1, FS_Interval DEF Indices
<1>2. Indices \subseteq Nat /\ 0 \in Indices
  BY CapacityFits DEF Indices
<1>3. ASSUME NEW S \in SUBSET Indices
      PROVE  IsFiniteSet(S) /\ Cardinality(S) \in Nat
  <2>1. IsFiniteSet(S)
    BY <1>1, FS_Subset
  <2> QED
    BY <2>1, FS_CardinalityType
<1> QED
  BY <1>1, <1>2, <1>3

\* uint16_t: the count does not wrap below what it counts.
LEMMA MinusExact ==
    ASSUME NEW n \in 0 .. Capacity, NEW k \in 0 .. n
    PROVE  Minus(n, k) = n - k
<1>1. n - k \in Nat /\ n - k < CounterModulus
  BY CapacityFits
<1>2. \A x \in Nat, m \in Nat \ {0} : x < m => x % m = x
  OBVIOUS
<1> QED
  BY <1>1, <1>2, CapacityFits DEF Minus

LEMMA CountedTypes ==
    ASSUME Counted
    PROVE  /\ entries \in [Indices -> Entry]
           /\ LiveSlots \in SUBSET Indices /\ Cardinality(LiveSlots) \in Nat
           /\ Capacity \in Nat \ {0} /\ count \in Nat /\ tail \in Nat /\ now \in Nat
<1>1. Slot \subseteq Entry
  BY DEF Slot, Entry, Sequences
<1>2. LiveSlots \in SUBSET Indices
  BY DEF LiveSlots
<1>3. Capacity \in Nat \ {0}
  BY CapacityFits
<1> QED
  BY <1>1, <1>2, <1>3, IndicesAreFinite DEF Counted

\* What expires, and what a full queue gives up, was live.
LEMMA LeaversAreLive ==
    ASSUME Counted
    PROVE  /\ Expired \subseteq LiveSlots /\ Victims \subseteq LiveSlots
           /\ count < Capacity => Victims = {}
<1>1. \A i \in Indices : In(i, {"QUEUED"}) => i \in LiveSlots
  BY DEF LiveSlots, Live, In
<1>2. Expired \subseteq LiveSlots
  <2> SUFFICES ASSUME NEW i \in Expired PROVE In(i, {"QUEUED"})
    BY <1>1 DEF Expired
  <2>1. i \in Indices /\ In(i, {"QUEUED", "BUILT"}) /\ entries[i].at > 0
    BY DEF Expired
  <2>2. ~In(i, {"BUILT"})
    BY <2>1 DEF Counted, BlankAhead
  <2> QED
    BY <2>1, <2>2 DEF In
<1>3. CASE count < Capacity
  BY <1>2, <1>3 DEF Victims
<1>4. CASE ~(count < Capacity)
  <2> DEFINE older == {i \in Indices : In(i, {"BUILT", "QUEUED"}) /\ entries[i].at < now}
  <2>1. \A i \in Indices : ~In(i, {"BUILT"})
    <3>1. \A i \in Indices : i < Capacity /\ i \in Int /\ tail \in Int
      BY CountedTypes DEF Indices
    <3>2. count \in Nat /\ Capacity \in Nat
      BY CountedTypes
    <3> QED
      BY <1>4, <3>1, <3>2 DEF Counted, BlankAhead
  <2>2. older \subseteq LiveSlots /\ older \in SUBSET Indices
    BY <1>1, <2>1 DEF In
  <2>3. older # {} => Oldest(older) \in LiveSlots
    BY <2>2, OldestIsMember, CountedTypes
  <2>4. Victims = IF Expired # {} THEN Expired
                  ELSE IF older # {} THEN {Oldest(older)} ELSE {}
    BY <1>4 DEF Victims
  <2> HIDE DEF older
  <2> QED
    BY <1>2, <1>4, <2>3, <2>4
<1> QED
  BY <1>3, <1>4

\* Live slots that go are subtracted from the count one by one.
LEMMA LeaversAreCounted ==
    ASSUME Counted, NEW S \in SUBSET LiveSlots
    PROVE  /\ Minus(count, Cardinality(S)) = count - Cardinality(S)
           /\ Cardinality(S) \in 0 .. count
           /\ Cardinality(LiveSlots \ S) = Cardinality(LiveSlots) - Cardinality(S)
           /\ Cardinality(LiveSlots \ S) \in Nat
<1>1. /\ IsFiniteSet(LiveSlots) /\ IsFiniteSet(S)
      /\ Cardinality(S) \in Nat /\ Cardinality(LiveSlots) \in Nat
      /\ Cardinality(LiveSlots \ S) \in Nat
  BY IndicesAreFinite DEF LiveSlots
<1>2. Cardinality(LiveSlots \ S) = Cardinality(LiveSlots) - Cardinality(S)
  <2>1. LiveSlots \cap S = S
    OBVIOUS
  <2> QED
    BY <1>1, <2>1, FS_Difference
<1>3. Cardinality(S) <= Cardinality(LiveSlots)
  BY <1>1, FS_Subset
<1>4. count \in 0 .. Capacity /\ count \in Nat /\ Cardinality(LiveSlots) <= count
  BY CountedTypes DEF Counted
<1>5. Cardinality(S) \in 0 .. count
  BY <1>1, <1>3, <1>4
<1> QED
  BY <1>1, <1>2, <1>4, <1>5, MinusExact

LEMMA DroppedSlots ==
    ASSUME entries \in [Indices -> Slot], NEW S
    PROVE  /\ Dropped(entries, S) \in [Indices -> Slot]
           /\ \A i \in Indices \ S : Dropped(entries, S)[i] = entries[i]
           /\ \A i \in Indices \cap S : Dropped(entries, S)[i].state = "DROPPED"
BY DEF Dropped, Slot, States

\* The steps by which live slots S end, and are no longer counted.
LEMMA LeavingKeepsCounted ==
    ASSUME Counted, NEW S \in SUBSET LiveSlots,
           entries' \in [Indices -> Slot],
           \A i \in Indices \ S : entries'[i] = entries[i],
           \A i \in S : entries'[i].state \in {"DROPPED", "ACKNOWLEDGED"},
           count' = Minus(count, Cardinality(S)), UNCHANGED <<tail, inFlightIdx, now>>,
           hasInFlight' \in BOOLEAN
    PROVE  Counted'
<1>1. S \in SUBSET Indices
  BY DEF LiveSlots
<1>2. LiveSlots' = LiveSlots \ S /\ \A i \in LiveSlots' : entries'[i] = entries[i]
  BY <1>1 DEF LiveSlots, Live, In
<1>3. /\ count \in Nat /\ count <= Capacity /\ Capacity \in Nat
      /\ Cardinality(LiveSlots) \in Nat /\ Cardinality(LiveSlots) <= count
  BY CountedTypes DEF Counted
<1>4. /\ count' = count - Cardinality(S) /\ Cardinality(S) \in 0 .. count
      /\ Cardinality(LiveSlots') = Cardinality(LiveSlots) - Cardinality(S)
  BY <1>2, LeaversAreCounted
<1>5. count' \in 0 .. Capacity /\ Cardinality(LiveSlots') <= count' /\ count' <= count
  BY <1>3, <1>4
<1>6. BlankAhead'
  <2> SUFFICES ASSUME NEW i \in Indices, In(i, {"BUILT"})'
               PROVE  entries'[i].at = 0 /\ tail' <= i /\ count' <= tail'
    BY DEF BlankAhead
  <2>1. i \notin S
    BY DEF In
  <2>2. entries'[i] = entries[i] /\ In(i, {"BUILT"})
    BY <2>1 DEF In
  <2>3. entries[i].at = 0 /\ tail <= i /\ count <= tail
    BY <2>2 DEF Counted, BlankAhead
  <2>4. count' \in Int /\ count \in Int /\ tail \in Int
    BY <1>3, <1>5, CountedTypes
  <2> QED
    BY <1>5, <2>2, <2>3, <2>4
<1> QED
  BY <1>2, <1>5, <1>6 DEF Counted

\* TelemetryQueue_Tick.
LEMMA TickKeepsCounted ==
    ASSUME Counted, QueueTick, now' = now
    PROVE  Counted'
<1>1. /\ entries' = Dropped(entries, Expired)
      /\ count' = Minus(count, Cardinality(Expired))
      /\ UNCHANGED <<tail, hasInFlight, inFlightIdx>>
  BY DEF QueueTick
<1>2. Expired \in SUBSET LiveSlots /\ Expired \in SUBSET Indices
  BY LeaversAreLive DEF Expired
<1>3. entries \in [Indices -> Slot] /\ hasInFlight \in BOOLEAN
  BY DEF Counted
<1>4. /\ entries' \in [Indices -> Slot]
      /\ \A i \in Indices \ Expired : entries'[i] = entries[i]
      /\ \A i \in Expired : entries'[i].state = "DROPPED"
  BY <1>1, <1>2, <1>3, DroppedSlots
<1> QED
  BY <1>1, <1>2, <1>3, <1>4, LeavingKeepsCounted

\* TelemetryQueue_Enqueue: what it gives up is subtracted before the new record is
\* counted, and a live record that it overwrites stays counted.
LEMMA EnqueueKeepsCounted ==
    ASSUME Counted, NEW s \in Sequences, Enqueue(s), now' = now
    PROVE  Counted'
<1> DEFINE kept == Dropped(entries, Victims)
           new == [state |-> "QUEUED", sequence |-> s, at |-> now]
<1>1. /\ Minus(count, Cardinality(Victims)) < Capacity
      /\ entries' = [kept EXCEPT ![tail] = new]
      /\ count' = CountAfter(Victims)
      /\ tail' = (tail + 1) % Capacity
      /\ UNCHANGED <<hasInFlight, inFlightIdx>>
  BY DEF Enqueue
<1>2. /\ entries \in [Indices -> Slot] /\ tail \in Indices /\ now \in 0 .. MaxTime
      /\ inFlightIdx \in Indices /\ hasInFlight \in BOOLEAN
      /\ Cardinality(LiveSlots) <= count
  BY DEF Counted
<1>3. /\ Victims \in SUBSET LiveSlots /\ Victims \in SUBSET Indices
      /\ count < Capacity => Victims = {}
  BY LeaversAreLive DEF LiveSlots
<1>4. /\ kept \in [Indices -> Slot]
      /\ \A i \in Indices \ Victims : kept[i] = entries[i]
      /\ \A i \in Victims : kept[i].state = "DROPPED"
  BY <1>2, <1>3, DroppedSlots
<1>5. new \in Slot /\ new.state = "QUEUED" /\ new.sequence = s
  BY <1>2 DEF Slot, States
<1> HIDE DEF kept, new
<1>6. /\ entries' \in [Indices -> Slot] /\ entries'[tail] = new
      /\ \A i \in Indices \ {tail} : entries'[i] = kept[i]
  <2>1. entries' = [kept EXCEPT ![tail] = new] /\ kept \in [Indices -> Slot]
        /\ tail \in Indices /\ new \in Slot
    BY <1>1, <1>2, <1>4, <1>5
  <2> QED
    BY <2>1
<1>7. /\ Cardinality(LiveSlots) \in Nat /\ count \in Nat /\ tail \in Nat
      /\ Capacity \in Nat \ {0} /\ tail < Capacity
  BY <1>2, CountedTypes DEF Indices
<1>8. tail' \in Indices
  BY <1>1, <1>7 DEF Indices
<1>9. /\ Minus(count, Cardinality(Victims)) = count - Cardinality(Victims)
      /\ Cardinality(Victims) \in 0 .. count
      /\ Cardinality(LiveSlots \ Victims) = Cardinality(LiveSlots) - Cardinality(Victims)
      /\ Cardinality(LiveSlots \ Victims) \in Nat
  BY <1>3, LeaversAreCounted
<1>10. count' = count - Cardinality(Victims) + 1 /\ count' \in 0 .. Capacity
  BY <1>1, <1>7, <1>9 DEF CountAfter
<1>11. /\ LiveSlots' \subseteq (LiveSlots \ Victims) \cup {tail}
       /\ \A i \in LiveSlots' : entries'[i].sequence # 0
  <2>1. ASSUME NEW i \in LiveSlots', i # tail
        PROVE  i \in LiveSlots \ Victims /\ entries'[i] = entries[i]
    <3>1. i \in Indices /\ entries'[i] = kept[i]
      BY <1>6, <2>1 DEF LiveSlots
    <3>2. i \notin Victims
      BY <1>4, <3>1 DEF LiveSlots, Live, In
    <3> QED
      BY <1>4, <3>1, <3>2 DEF LiveSlots, Live, In
  <2>2. s # 0
    BY DEF Sequences
  <2> QED
    BY <1>5, <1>6, <2>1, <2>2 DEF Counted
<1>12. Cardinality(LiveSlots') <= count'
  <2> DEFINE rest == LiveSlots \ Victims
  <2>1. /\ rest \in SUBSET Indices /\ rest \cup {tail} \in SUBSET Indices
        /\ LiveSlots' \in SUBSET Indices /\ LiveSlots' \subseteq rest \cup {tail}
        /\ Cardinality(rest) = Cardinality(LiveSlots) - Cardinality(Victims)
    BY <1>2, <1>9, <1>11 DEF LiveSlots
  <2> HIDE DEF rest
  <2>2. /\ IsFiniteSet(rest) /\ Cardinality(rest) \in Nat
        /\ IsFiniteSet(rest \cup {tail}) /\ Cardinality(rest \cup {tail}) \in Nat
        /\ Cardinality(LiveSlots') \in Nat
    BY <2>1, IndicesAreFinite
  <2>3. Cardinality(rest \cup {tail}) <= Cardinality(rest) + 1
    <3>1. Cardinality(rest \cup {tail}) =
            IF tail \in rest THEN Cardinality(rest) ELSE Cardinality(rest) + 1
      BY <2>2, FS_AddElement
    <3> QED
      BY <2>2, <3>1
  <2>4. Cardinality(LiveSlots') <= Cardinality(rest \cup {tail})
    BY <2>1, <2>2, FS_Subset
  <2> QED
    BY <1>2, <1>7, <1>9, <1>10, <2>1, <2>2, <2>3, <2>4
<1>13. BlankAhead'
  <2> SUFFICES ASSUME NEW i \in Indices, In(i, {"BUILT"})'
               PROVE  entries'[i].at = 0 /\ tail' <= i /\ count' <= tail'
    BY DEF BlankAhead
  <2>1. i # tail
    BY <1>5, <1>6 DEF In
  <2>2. entries'[i] = kept[i] /\ i \notin Victims
    BY <1>4, <1>6, <2>1 DEF In
  <2>3. entries'[i] = entries[i] /\ In(i, {"BUILT"})
    BY <1>4, <2>2 DEF In
  <2>4. entries[i].at = 0 /\ tail <= i /\ count <= tail
    BY <2>3 DEF Counted, BlankAhead
  <2>5. i \in Nat /\ i < Capacity
    BY <1>7 DEF Indices
  <2>6. tail + 1 < Capacity
    BY <1>7, <2>1, <2>4, <2>5
  <2>7. tail' = tail + 1
    BY <1>1, <1>7, <2>6
  <2>8. count' = count + 1
    <3>1. Victims = {} /\ Cardinality(Victims) = 0
      BY <1>3, <1>7, <2>4, FS_EmptySet
    <3> QED
      BY <1>7, <1>10, <3>1
  <2> QED
    BY <1>7, <2>1, <2>3, <2>4, <2>5, <2>7, <2>8
<1> QED
  BY <1>1, <1>2, <1>6, <1>8, <1>10, <1>11, <1>12, <1>13 DEF Counted

\* TelemetryQueue_Dequeue: one live state for another.
LEMMA DequeueKeepsCounted ==
    ASSUME Counted, Dequeue, now' = now
    PROVE  Counted' /\ Oldest(Queued) \in LiveSlots
<1> DEFINE i == Oldest(Queued)
<1>1. /\ Queued # {}
      /\ entries' = [entries EXCEPT ![i].state = "IN_FLIGHT"]
      /\ inFlightIdx' = i /\ hasInFlight' = TRUE
      /\ UNCHANGED <<count, tail>>
  BY DEF Dequeue, CanDequeue
<1>2. i \in Queued
  BY <1>1, CountedTypes, OldestIsMember DEF Queued
<1>3. i \in LiveSlots /\ i \in Indices /\ entries[i].state = "QUEUED"
  BY <1>2 DEF Queued, LiveSlots, Live, In
<1> HIDE DEF i
<1>4. entries \in [Indices -> Slot]
  BY DEF Counted
<1>5. /\ entries' \in [Indices -> Slot]
      /\ \A j \in Indices \ {i} : entries'[j] = entries[j]
      /\ entries'[i].state = "IN_FLIGHT" /\ entries'[i].sequence = entries[i].sequence
  BY <1>1, <1>3, <1>4 DEF Slot, States
<1>6. /\ LiveSlots' = LiveSlots
      /\ \A j \in LiveSlots : entries'[j].sequence = entries[j].sequence
  <2>1. \A j \in Indices : Live(j)' <=> Live(j)
    BY <1>3, <1>5 DEF LiveSlots, Live, In
  <2> QED
    BY <1>5, <2>1 DEF LiveSlots
<1>7. BlankAhead'
  <2>1. \A j \in Indices : In(j, {"BUILT"})' => entries'[j] = entries[j] /\ In(j, {"BUILT"})
    BY <1>5 DEF In
  <2> QED
    BY <1>1, <2>1 DEF Counted, BlankAhead
<1> QED
  BY <1>1, <1>3, <1>5, <1>6, <1>7 DEF Counted, i

\* TelemetryQueue_Ack.
LEMMA AckKeepsCounted ==
    ASSUME Counted, NEW s, Ack(s), now' = now
    PROVE  Counted'
<1>1. CASE UNCHANGED queueVars
  BY <1>1 DEF queueVars, Counted, LiveSlots, BlankAhead, Live, In
<1>2. CASE ~(s = 0 \/ Acknowledgeable(s) = {})
  <2> DEFINE A == Acknowledgeable(s)
             i == Min(A)
  <2>1. /\ entries' = [entries EXCEPT ![i].state = "ACKNOWLEDGED"]
        /\ count' = Minus(count, 1)
        /\ hasInFlight' = (hasInFlight /\ inFlightIdx # i)
        /\ UNCHANGED <<tail, inFlightIdx>>
    BY <1>2 DEF Ack
  <2>2. A \in SUBSET Nat /\ A # {} /\ A \subseteq LiveSlots
    BY <1>2, IndicesAreFinite DEF Acknowledgeable, LiveSlots, Live, In
  <2> HIDE DEF A
  <2>3. i \in A
    BY <2>2, LeastNatural DEF Min
  <2>4. i \in LiveSlots /\ i \in Indices
    BY <2>2, <2>3 DEF LiveSlots
  <2> HIDE DEF i
  <2>5. Cardinality({i}) = 1
    BY FS_Singleton
  <2>6. entries \in [Indices -> Slot] /\ hasInFlight \in BOOLEAN
    BY DEF Counted
  <2>7. /\ entries' \in [Indices -> Slot]
        /\ \A j \in Indices \ {i} : entries'[j] = entries[j]
        /\ entries'[i].state = "ACKNOWLEDGED"
    BY <2>1, <2>4, <2>6 DEF Slot, States
  <2>8. hasInFlight' \in BOOLEAN
    BY <2>1, <2>6
  <2>9. {i} \in SUBSET LiveSlots /\ count' = Minus(count, Cardinality({i}))
    BY <2>1, <2>4, <2>5
  <2> QED
    BY <2>1, <2>7, <2>8, <2>9, LeavingKeepsCounted
<1> QED
  BY <1>1, <1>2 DEF Ack

LEMMA CountedUntouched ==
    ASSUME Counted, UNCHANGED queueVars, now' \in 0 .. MaxTime
    PROVE  Counted'
BY DEF queueVars, Counted, LiveSlots, BlankAhead, Live, In

LEMMA InitIsCounted == Init => IInv
<1> SUFFICES ASSUME Init PROVE IInv
  OBVIOUS
<1>1. /\ entries = [i \in Indices |-> Blank] /\ count = 0 /\ tail = 0
      /\ \A i \in Indices : entries[i] = Blank
  BY DEF Init
<1>2. Blank \in Slot /\ Blank.state = "BUILT" /\ Blank.at = 0
  BY SizesAssumption DEF Blank, Slot, States
<1>3. LiveSlots = {} /\ Cardinality(LiveSlots) = 0
  <2>1. LiveSlots = {}
    BY <1>1, <1>2 DEF LiveSlots, Live, In
  <2> QED
    BY <2>1, FS_EmptySet
<1>4. BlankAhead
  <2>1. \A i \in Indices : 0 <= i
    BY DEF Indices
  <2> QED
    BY <1>1, <1>2, <2>1 DEF BlankAhead
<1>5. 0 \in 0 .. Capacity /\ 0 \in 0 .. MaxTime /\ 0 \in 0 .. MaxRecords
  <2>1. Capacity \in Nat /\ MaxTime \in Nat /\ MaxRecords \in Nat
    BY CapacityFits, SizesAssumption, Zenon
  <2> QED
    BY <2>1
<1>6. Counted
  <2>1. entries \in [Indices -> Slot]
    BY <1>1, <1>2
  <2>2. hasInFlight \in BOOLEAN /\ inFlightIdx \in Indices /\ now \in 0 .. MaxTime
    BY <1>5, IndicesAreFinite DEF Init
  <2>3. tail \in Indices /\ count \in 0 .. Capacity
    BY <1>1, <1>5, IndicesAreFinite
  <2> QED
    BY <1>1, <1>3, <1>4, <2>1, <2>2, <2>3 DEF Counted
<1>7. Attempted /\ Flags
  BY <1>5 DEF Init, Attempted, Flags
<1> QED
  BY <1>6, <1>7 DEF IInv

LEMMA NextKeepsFlags ==
    ASSUME Flags, [Next]_vars
    PROVE  Flags'
<1> USE DEF Flags
<1>1. CASE UNCHANGED <<deliveryVars, awaiting>> /\ disturbed' \in BOOLEAN
  BY <1>1 DEF deliveryVars
<1>2. CASE Produce
  <2>1. UNCHANGED <<deliveryVars, awaiting>> /\ disturbed' \in BOOLEAN
    BY <1>2 DEF Produce
  <2> QED
    BY <1>1, <2>1
<1>3. CASE Expire \/ Clock
  BY <1>3 DEF Expire, Clock, deliveryVars, envVars
<1>4. CASE Connect \/ Disconnect
  BY <1>4 DEF Connect, Disconnect, envVars
<1>5. CASE Start
  BY <1>5 DEF Start
<1>6. CASE CompleteAnswered \/ CompleteFailed \/ CompleteUnknown
  BY <1>6 DEF CompleteAnswered, CompleteFailed, CompleteUnknown
<1>7. CASE DeliveryTick
  BY <1>5, <1>7 DEF DeliveryTick, envVars
<1>8. CASE UNCHANGED vars
  BY <1>8 DEF vars, deliveryVars, envVars
<1> QED
  BY <1>2, <1>3, <1>4, <1>5, <1>6, <1>7, <1>8 DEF Next, StartAttempt

\* CellularDelivery_StartAttempt.
LEMMA StartKeepsAttempt ==
    ASSUME Counted, Attempted, Start
    PROVE  Counted' /\ Attempted'
<1>1. /\ Dequeue /\ now' = now
      /\ delivery' = "SENDING" /\ current' = entries[Oldest(Queued)].sequence
      /\ attempts' = attempts + 1 /\ awaiting' = TRUE
      /\ UNCHANGED <<retryAt, produced, answered>>
  BY DEF Start
<1>2. Counted' /\ Oldest(Queued) \in LiveSlots
  BY <1>1, DequeueKeepsCounted
<1>3. current' \in Sequences \union {0} /\ current' # 0
  <2> DEFINE i == Oldest(Queued)
  <2>1. i \in Indices /\ entries[i] \in Slot /\ entries[i].sequence # 0
    BY <1>2 DEF Counted, LiveSlots
  <2> HIDE DEF i
  <2>2. entries[i].sequence \in Sequences \union {0}
    BY <2>1 DEF Slot
  <2> QED
    BY <1>1, <2>1, <2>2 DEF i
\* Nothing was in flight, so that this is the first attempt.
<1>4. attempts' = 1 /\ hasInFlight' = TRUE
  BY <1>1 DEF Dequeue, CanDequeue, Attempted
<1> QED
  BY <1>1, <1>2, <1>3, <1>4 DEF Attempted

LEMMA NextKeepsAttempt ==
    ASSUME Counted, Attempted, [Next]_vars
    PROVE  Counted' /\ Attempted'
<1>0. now \in 0 .. MaxTime /\ (now' = now => now' \in 0 .. MaxTime)
  BY DEF Counted
<1>1. CASE Produce
  <2>1. PICK s \in 1 .. produced + 1 :
           /\ s <= MaxRecords
           /\ Enqueue(s)
           /\ produced' = IF s > produced THEN s ELSE produced
    BY <1>1 DEF Produce
  <2>2. UNCHANGED <<deliveryVars, now, awaiting, answered>>
    BY <1>1 DEF Produce
  <2>3. produced \in 0 .. MaxRecords /\ MaxRecords \in Nat
    BY SizesAssumption DEF Attempted
  <2>4. s \in Sequences /\ produced' \in 0 .. MaxRecords
    BY <2>1, <2>3 DEF Sequences
  <2>5. Counted'
    BY <2>1, <2>2, <2>4, EnqueueKeepsCounted
  <2>6. hasInFlight' = hasInFlight
    BY <2>1 DEF Enqueue
  <2> QED
    BY <2>2, <2>4, <2>5, <2>6 DEF Attempted, deliveryVars
<1>2. CASE Expire
  <2>1. QueueTick /\ UNCHANGED <<deliveryVars, envVars>>
    BY <1>2 DEF Expire
  <2>2. Counted' /\ hasInFlight' = hasInFlight
    BY <2>1, TickKeepsCounted DEF envVars, QueueTick
  <2> QED
    BY <2>1, <2>2 DEF Attempted, deliveryVars, envVars
<1>3. CASE Connect
  <2>1. Counted'
    BY <1>0, <1>3, CountedUntouched DEF Connect, envVars
  <2> QED
    BY <1>3, <2>1 DEF Connect, Attempted, queueVars, envVars
<1>4. CASE Disconnect
  <2>1. Counted'
    BY <1>0, <1>4, CountedUntouched DEF Disconnect
  <2> QED
    BY <1>4, <2>1 DEF Disconnect, Attempted, queueVars
<1>5. CASE Start
  BY <1>5, StartKeepsAttempt
<1>6. CASE CompleteAnswered
  <2>1. /\ awaiting /\ awaiting' = FALSE /\ Ack(current)
        /\ answered' = answered \union {current}
        /\ delivery' = "IDLE" /\ attempts' = 0
        /\ UNCHANGED <<online, current, retryAt, now, produced, disturbed>>
    BY <1>6 DEF CompleteAnswered
  <2>2. Counted'
    BY <2>1, AckKeepsCounted
  <2>3. answered' \subseteq Sequences
    BY <2>1 DEF Attempted
  <2> QED
    BY <2>1, <2>2, <2>3 DEF Attempted
<1>7. CASE CompleteFailed
  <2>1. Counted'
    BY <1>0, <1>7, CountedUntouched DEF CompleteFailed
  <2>2. /\ now + RetryDelay <= MaxTime
        /\ delivery' = "IDLE" \/ delivery' = "RETRY_WAIT"
        /\ attempts' = 0 \/ attempts' = attempts
        /\ retryAt' = retryAt \/ retryAt' = now + RetryDelay
        /\ awaiting' = FALSE
        /\ UNCHANGED <<hasInFlight, current, produced, answered>>
    BY <1>7 DEF CompleteFailed, queueVars
  <2>3. retryAt' \in 0 .. MaxTime
    BY <1>0, <2>2, SizesAssumption DEF Attempted, Counted
  <2> QED
    BY <2>1, <2>2, <2>3 DEF Attempted
<1>8. CASE CompleteUnknown
  <2>1. Counted'
    BY <1>0, <1>8, CountedUntouched DEF CompleteUnknown
  <2> QED
    BY <1>8, <2>1 DEF CompleteUnknown, Attempted, queueVars
<1>9. CASE DeliveryTick
  <2>1. CASE /\ delivery' = "IDLE"
             /\ UNCHANGED <<queueVars, online, current, attempts, retryAt, envVars>>
    <3>1. Counted'
      BY <1>0, <2>1, CountedUntouched DEF envVars
    <3> QED
      BY <2>1, <3>1 DEF Attempted, queueVars, envVars
  <2> QED
    BY <1>5, <1>9, <2>1 DEF DeliveryTick
<1>10. CASE Clock
  <2>1. now' \in 0 .. MaxTime
    BY <1>10, SizesAssumption DEF Clock, Counted
  <2>2. Counted'
    BY <1>10, <2>1, CountedUntouched DEF Clock
  <2> QED
    BY <1>10, <2>2 DEF Clock, Attempted, queueVars, deliveryVars
<1>11. CASE UNCHANGED vars
  <2>1. Counted'
    BY <1>0, <1>11, CountedUntouched DEF vars, envVars
  <2> QED
    BY <1>11, <2>1 DEF vars, Attempted, queueVars, deliveryVars, envVars
<1> QED
  BY <1>1, <1>2, <1>3, <1>4, <1>5, <1>6, <1>7, <1>8, <1>9, <1>10, <1>11 DEF Next, StartAttempt

LEMMA NextKeepsIInv == IInv /\ [Next]_vars => IInv'
BY NextKeepsAttempt, NextKeepsFlags DEF IInv

\* The types of the queue and the delivery: above all the count, which wraps at 16
\* bits, stays between the live records and the capacity whatever expires, is
\* given up, is overwritten or is acknowledged.
THEOREM TypeCorrect == Spec => []TypeOK
<1>1. IInv => TypeOK
  <2> SUFFICES ASSUME IInv PROVE TypeOK
    OBVIOUS
  <2>1. attempts \in 0 .. MaxRetries
    BY SizesAssumption DEF IInv, Attempted
  <2> QED
    BY <2>1 DEF IInv, Counted, Attempted, Flags, TypeOK, Slot, States
<1> QED
  BY <1>1, InitIsCounted, NextKeepsIInv, PTL DEF Spec

\* cellular_delivery.c never makes a second attempt: DELIVERY_MAX_RETRIES is out of
\* reach, since the record of the first attempt keeps the in-flight mark that
\* TelemetryQueue_Dequeue wants free.
THEOREM NoSecondAttempt == Spec => [](attempts <= 1)
<1>1. IInv => attempts <= 1
  BY DEF IInv, Attempted
<1> QED
  BY <1>1, InitIsCounted, NextKeepsIInv, PTL DEF Spec
=============================================================================
