-------------------------- MODULE EventQueueProof --------------------------
(***************************************************************************)
(* Machine-checked safety of EventQueue, for every catalogue, capacity and *)
(* reservation.                                                            *)
(***************************************************************************)
EXTENDS EventQueue, FiniteSetTheorems, TLAPS

\* What the shift loop of try_get leaves: one event fewer, the others in order.
LEMMA RemoveAtShifts ==
    ASSUME NEW S, NEW s \in Seq(S), NEW i \in 1 .. Len(s)
    PROVE  /\ RemoveAt(s, i) \in Seq(S)
           /\ Len(RemoveAt(s, i)) = Len(s) - 1
           /\ \A j \in 1 .. (Len(s) - 1) :
                 RemoveAt(s, i)[j] = IF j < i THEN s[j] ELSE s[j + 1]
<1>1. SubSeq(s, 1, i - 1) \in Seq(S) /\ Len(SubSeq(s, 1, i - 1)) = i - 1
  OBVIOUS
<1>2. SubSeq(s, i + 1, Len(s)) \in Seq(S) /\ Len(SubSeq(s, i + 1, Len(s))) = Len(s) - i
  OBVIOUS
<1>3. \A j \in 1 .. (i - 1) : SubSeq(s, 1, i - 1)[j] = s[j]
  OBVIOUS
<1>4. \A j \in 1 .. (Len(s) - i) : SubSeq(s, i + 1, Len(s))[j] = s[i + j]
  OBVIOUS
<1>5. ASSUME NEW a \in Seq(S), NEW b \in Seq(S)
      PROVE  /\ a \o b \in Seq(S)
             /\ Len(a \o b) = Len(a) + Len(b)
             /\ \A j \in 1 .. (Len(a) + Len(b)) :
                   (a \o b)[j] = IF j <= Len(a) THEN a[j] ELSE b[j - Len(a)]
  OBVIOUS
<1> DEFINE before == SubSeq(s, 1, i - 1)
           after == SubSeq(s, i + 1, Len(s))
<1>6. RemoveAt(s, i) = before \o after
  BY DEF RemoveAt
<1> HIDE DEF before, after
<1>7. /\ before \in Seq(S) /\ Len(before) = i - 1
      /\ after \in Seq(S) /\ Len(after) = Len(s) - i
      /\ \A j \in 1 .. (i - 1) : before[j] = s[j]
      /\ \A j \in 1 .. (Len(s) - i) : after[j] = s[i + j]
  BY <1>1, <1>2, <1>3, <1>4 DEF before, after
<1>8. /\ before \o after \in Seq(S)
      /\ Len(before \o after) = Len(s) - 1
      /\ \A j \in 1 .. (Len(s) - 1) :
            (before \o after)[j] = IF j <= i - 1 THEN before[j] ELSE after[j - (i - 1)]
  <2>1. /\ before \o after \in Seq(S)
        /\ Len(before \o after) = Len(before) + Len(after)
        /\ \A j \in 1 .. (Len(before) + Len(after)) :
              (before \o after)[j] =
                 IF j <= Len(before) THEN before[j] ELSE after[j - Len(before)]
    BY <1>5, <1>7
  <2>2. Len(before) = i - 1 /\ Len(before) + Len(after) = Len(s) - 1
    BY <1>7
  <2>3. QED
    BY <2>1, <2>2
<1>9. ASSUME NEW j \in 1 .. (Len(s) - 1)
      PROVE  (before \o after)[j] = IF j < i THEN s[j] ELSE s[j + 1]
  <2>1. CASE j < i
    BY <2>1, <1>7, <1>8
  <2>2. CASE ~(j < i)
    <3>1. j - (i - 1) \in 1 .. (Len(s) - i) /\ i + (j - (i - 1)) = j + 1 /\ ~(j <= i - 1)
      BY <2>2
    <3>2. after[j - (i - 1)] = s[j + 1]
      BY <3>1, <1>7
    <3>3. QED
      BY <2>2, <3>1, <3>2, <1>8
  <2>3. QED
    BY <2>1, <2>2
<1>10. QED
  BY <1>6, <1>8, <1>9

-----------------------------------------------------------------------------
(* Type correctness.                                                       *)

\* A wrapped counter stays in its range.
LEMMA BumpInRange ==
    ASSUME NEW c \in 0 .. (CounterModulus - 1)
    PROVE  Bump(c) \in 0 .. (CounterModulus - 1)
BY SizesAssumption DEF Bump

\* Every reachable state of the queue has its types: the fairness counter
\* stays within the budget and no pending event is outside the catalogue.
THEOREM TypeCorrect == Spec => []TypeOK
<1>1. Init => TypeOK
  <2>1. 0 \in 0 .. (CounterModulus - 1)
    BY SizesAssumption
  <2>2. <<>> \in Seq(Event)
    OBVIOUS
  <2>3. 0 \in 0 .. FairnessBudget /\ 0 \in 0 .. (FairnessBudget + 1)
    BY DEF FairnessBudget
  <2>4. [k \in Kinds |-> NoPayload] \in [Kinds -> Payloads \cup {NoPayload}]
    OBVIOUS
  <2>5. QED
    BY <2>1, <2>2, <2>3, <2>4, Zenon DEF Init, TypeOK
<1>2. TypeOK /\ [Next]_vars => TypeOK'
  <2> SUFFICES ASSUME TypeOK, [Next]_vars
               PROVE  TypeOK'
    OBVIOUS
  <2> USE DEF TypeOK
  <2>1. ASSUME NEW event \in Event, Post(event)
        PROVE  TypeOK'
    <3>0. event.payload \in Payloads
      BY DEF Event
    <3>1. CASE PostCoalesced(event)
      BY <3>0, <3>1 DEF PostCoalesced, Remember, IsCoalesceTarget
    <3>2. CASE PostAdmitted(event)
      BY <3>0, <3>2 DEF PostAdmitted, Remember
    <3>3. CASE PostEscalated(event)
      BY <3>3 DEF PostEscalated
    <3>4. CASE PostRefused(event)
      BY <3>4, BumpInRange DEF PostRefused
    <3>5. QED
      BY <2>1, <3>1, <3>2, <3>3, <3>4 DEF Post
  <2>2. CASE TryGet
    <3>1. PICK i \in DOMAIN buffer :
             /\ IsSelected(buffer, consecutive, i)
             /\ buffer' = RemoveAt(buffer, i)
             /\ consecutive' = BudgetAfter(buffer[i].kind.priority, consecutive)
             /\ starvation_count' =
                   IF ForceFairDequeue(consecutive) /\ buffer[i].kind.priority = CRITICAL
                   THEN Bump(starvation_count) ELSE starvation_count
             /\ bypassed' = BypassedAfter(i)
             /\ UNCHANGED <<critical_emergency, overflow_count, latest>>
      BY <2>2 DEF TryGet
    <3>2. buffer' \in Seq(Event)
      BY <3>1, RemoveAtShifts
    <3>3. consecutive' \in 0 .. FairnessBudget
      BY <3>1 DEF BudgetAfter, ForceFairDequeue, FairnessBudget
    <3>4. bypassed' \in 0 .. (FairnessBudget + 1)
      BY <3>1 DEF BypassedAfter, FairnessBudget
    <3>5. starvation_count' \in 0 .. (CounterModulus - 1)
      BY <3>1, BumpInRange
    <3>6. QED
      BY <3>1, <3>2, <3>3, <3>4, <3>5
  <2>3. CASE UNCHANGED vars
    BY <2>3 DEF vars
  <2>4. QED
    BY <2>1, <2>2, <2>3 DEF Next
<1>3. QED
  BY <1>1, <1>2, PTL DEF Spec

-----------------------------------------------------------------------------
(* The fairness budget.                                                    *)

\* Inductive: every dequeue that passed over an urgent head was counted by
\* consecutive_dequeue_count, and an empty queue has passed over nothing.
BypassesAreCounted ==
    /\ buffer = <<>> => bypassed = 0
    /\ buffer # <<>> /\ Head(buffer).kind.priority <= CONFIG
          => bypassed <= consecutive

LEMMA KindsOfEvents ==
    ASSUME NEW event \in Event
    PROVE  event.kind \in Kinds /\ event.kind.priority \in 0 .. 4
BY CatalogueAssumption DEF Event, Priorities, CRITICAL, BACKGROUND

LEMMA PostKeepsBypassCount ==
    ASSUME TypeOK, BypassesAreCounted, NEW event \in Event, Post(event)
    PROVE  BypassesAreCounted'
<1> USE DEF TypeOK, BypassesAreCounted
<1>1. CASE PostCoalesced(event)
  <2>1. PICK i \in DOMAIN buffer :
           IsCoalesceTarget(buffer, event, i) /\ buffer' = [buffer EXCEPT ![i] = event]
    BY <1>1 DEF PostCoalesced
  <2>2. buffer[i].kind.priority = event.kind.priority
    <3>1. buffer[i] \in Event
      BY <2>1
    <3>2. buffer[i].kind \in Kinds /\ event.kind \in Kinds
      BY <3>1, KindsOfEvents
    <3>3. QED
      BY <2>1, <3>2, OnePriorityPerSignal DEF IsCoalesceTarget, CanCoalesce, SameSignal
  <2>3. /\ buffer # <<>> /\ buffer' # <<>>
        /\ Head(buffer) = buffer[1] /\ Head(buffer') = buffer'[1]
    BY <2>1
  <2>4. buffer'[1].kind.priority = buffer[1].kind.priority
    BY <2>1, <2>2
  <2>5. UNCHANGED <<consecutive, bypassed>>
    BY <1>1 DEF PostCoalesced
  <2>6. QED
    BY <2>3, <2>4, <2>5
<1>2. CASE PostAdmitted(event)
  <2>1. buffer' = Append(buffer, event) /\ UNCHANGED <<consecutive, bypassed>>
    BY <1>2 DEF PostAdmitted
  <2>2. buffer' # <<>>
    BY <2>1
  <2>3. CASE buffer = <<>>
    BY <2>1, <2>2, <2>3
  <2>4. CASE buffer # <<>>
    <3>1. Head(buffer') = Head(buffer)
      BY <2>1, <2>4
    <3>2. QED
      BY <2>1, <2>2, <2>4, <3>1
  <2>5. QED
    BY <2>3, <2>4
<1>3. CASE PostEscalated(event)
  BY <1>3 DEF PostEscalated
<1>4. CASE PostRefused(event)
  BY <1>4 DEF PostRefused
<1>5. QED
  BY <1>1, <1>2, <1>3, <1>4 DEF Post

LEMMA TryGetKeepsBypassCount ==
    ASSUME TypeOK, BypassesAreCounted, TypeOK', TryGet
    PROVE  BypassesAreCounted'
<1> USE DEF TypeOK
<1>1. PICK i \in DOMAIN buffer :
         /\ IsSelected(buffer, consecutive, i)
         /\ buffer' = RemoveAt(buffer, i)
         /\ consecutive' = BudgetAfter(buffer[i].kind.priority, consecutive)
         /\ bypassed' = BypassedAfter(i)
  BY DEF TryGet
<1>2. CASE i = 1
  BY <1>1, <1>2 DEF BypassedAfter, BypassesAreCounted
<1>3. CASE i # 1
  <2>1. /\ ~ForceFairDequeue(consecutive)
        /\ buffer[i].kind.priority < buffer[1].kind.priority
    BY <1>1, <1>3 DEF IsSelected
  <2>2. Len(buffer') >= 1 /\ buffer'[1] = buffer[1] /\ buffer' # <<>>
    <3>0. buffer \in Seq(Event)
      OBVIOUS
    <3> HIDE DEF TypeOK
    <3>1. i \in 1 .. Len(buffer) /\ 1 < i /\ Len(buffer) >= 2
      BY <1>3, <3>0
    <3>2. /\ buffer' \in Seq(Event) /\ Len(buffer') = Len(buffer) - 1
          /\ buffer'[1] = IF 1 < i THEN buffer[1] ELSE buffer[2]
      BY <1>1, <3>0, <3>1, RemoveAtShifts
    <3>3. QED
      BY <3>0, <3>1, <3>2
  <2>3. Head(buffer') = buffer[1] /\ Head(buffer) = buffer[1] /\ buffer # <<>>
    BY <2>2
  <2>4. ASSUME buffer[1].kind.priority <= CONFIG
        PROVE  bypassed' <= consecutive'
    <3>1. buffer[1].kind.priority \in 0 .. 4 /\ buffer[i].kind.priority \in 0 .. 4
      BY <1>1, <2>2, KindsOfEvents
    <3>2. consecutive' = consecutive + 1
      <4> HIDE DEF TypeOK
      <4>1. buffer[i].kind.priority <= SHARED_RESOURCE
        BY <2>1, <2>4, <3>1 DEF SHARED_RESOURCE, CONFIG
      <4> QED
        BY <1>1, <2>1, <4>1 DEF BudgetAfter
    <3>3. bypassed <= consecutive
      BY <2>3, <2>4 DEF BypassesAreCounted
    <3>4. QED
      BY <1>1, <1>3, <3>2, <3>3 DEF BypassedAfter
  <2>5. QED
    BY <2>2, <2>3, <2>4 DEF BypassesAreCounted
<1>4. QED
  BY <1>2, <1>3

\* However many urgent events keep arriving, the event at the head of the
\* queue is passed over at most FairnessBudget times unless it is BACKGROUND.
THEOREM HeadBypassIsBounded == Spec => []HeadBypassBounded
<1>1. Init => BypassesAreCounted
  BY DEF Init, BypassesAreCounted
<1>2. TypeOK /\ TypeOK' /\ BypassesAreCounted /\ [Next]_vars => BypassesAreCounted'
  <2> SUFFICES ASSUME TypeOK, TypeOK', BypassesAreCounted, [Next]_vars
               PROVE  BypassesAreCounted'
    OBVIOUS
  <2>1. CASE \E event \in Event : Post(event)
    BY <2>1, PostKeepsBypassCount
  <2>2. CASE TryGet
    BY <2>2, TryGetKeepsBypassCount
  <2>3. CASE UNCHANGED vars
    BY <2>3 DEF vars, BypassesAreCounted
  <2>4. QED
    BY <2>1, <2>2, <2>3 DEF Next
<1>3. TypeOK /\ BypassesAreCounted => HeadBypassBounded
  BY DEF TypeOK, BypassesAreCounted, HeadBypassBounded, FairnessBudget
<1>4. QED
  BY <1>1, <1>2, <1>3, TypeCorrect, PTL DEF Spec

-----------------------------------------------------------------------------
(* LEVEL signals.                                                          *)

\* Where a pending event stood before the dequeue of the one at i.
Origin(j, i) == IF j < i THEN j ELSE j + 1

LEMMA OriginOfSurvivor ==
    ASSUME TypeOK, NEW i \in DOMAIN buffer, buffer' = RemoveAt(buffer, i),
           NEW j \in DOMAIN buffer'
    PROVE  /\ Origin(j, i) \in DOMAIN buffer
           /\ Origin(j, i) # i
           /\ buffer'[j] = buffer[Origin(j, i)]
<1>1. Len(buffer') = Len(buffer) - 1 /\ buffer' \in Seq(Event)
  BY RemoveAtShifts DEF TypeOK
<1>2. j \in 1 .. (Len(buffer) - 1)
  BY <1>1
<1>3. buffer'[j] = IF j < i THEN buffer[j] ELSE buffer[j + 1]
  <2>1. buffer \in Seq(Event) /\ i \in 1 .. Len(buffer)
    BY DEF TypeOK
  <2>2. \A l \in 1 .. (Len(buffer) - 1) :
           RemoveAt(buffer, i)[l] = IF l < i THEN buffer[l] ELSE buffer[l + 1]
    BY <2>1, RemoveAtShifts
  <2>3. QED
    BY <1>2, <2>2
<1>4. QED
  BY <1>2, <1>3 DEF Origin, TypeOK

LEMMA PostKeepsLatest ==
    ASSUME TypeOK, PendingLevelIsLatest, NEW event \in Event, Post(event)
    PROVE  PendingLevelIsLatest'
<1> USE DEF TypeOK
<1>0. /\ event.kind \in Kinds
      /\ \A j \in DOMAIN buffer : buffer[j].kind \in Kinds
  BY KindsOfEvents
<1>1. CASE PostCoalesced(event)
  <2>1. PICK i \in DOMAIN buffer :
           IsCoalesceTarget(buffer, event, i) /\ buffer' = [buffer EXCEPT ![i] = event]
    BY <1>1 DEF PostCoalesced
  <2>2. /\ DOMAIN buffer' = DOMAIN buffer
        /\ buffer'[i] = event
        /\ \A j \in DOMAIN buffer : j # i => buffer'[j] = buffer[j]
    BY <2>1
  <2>3. /\ CanCoalesce(event.kind) /\ CanCoalesce(buffer[i].kind)
        /\ SameSignal(buffer[i].kind, event.kind)
    BY <2>1 DEF IsCoalesceTarget
  <2>4. ASSUME NEW j \in DOMAIN buffer, j # i, CanCoalesce(buffer[j].kind)
        PROVE  /\ ~SameSignal(buffer[j].kind, event.kind)
               /\ ~SameSignal(event.kind, buffer[j].kind)
    BY <2>3, <2>4 DEF PendingLevelIsLatest, SameSignal
  <2>5. \A k \in Kinds :
           latest'[k] = IF /\ CanCoalesce(k) /\ CanCoalesce(event.kind)
                           /\ SameSignal(k, event.kind)
                        THEN event.payload ELSE latest[k]
    BY <1>1 DEF PostCoalesced, Remember
  <2>6. latest'[event.kind] = event.payload
    BY <1>0, <2>3, <2>5 DEF SameSignal
  <2>7. ASSUME NEW j \in DOMAIN buffer, j # i, CanCoalesce(buffer[j].kind)
        PROVE  latest'[buffer[j].kind] = latest[buffer[j].kind]
    BY <1>0, <2>4, <2>5, <2>7
  <2>8. ASSUME NEW j \in DOMAIN buffer', CanCoalesce(buffer'[j].kind)
        PROVE  buffer'[j].payload = latest'[buffer'[j].kind]
    BY <2>2, <2>6, <2>7, <2>8 DEF PendingLevelIsLatest
  <2>9. ASSUME NEW j \in DOMAIN buffer', NEW k \in DOMAIN buffer',
               CanCoalesce(buffer'[j].kind), CanCoalesce(buffer'[k].kind),
               SameSignal(buffer'[j].kind, buffer'[k].kind)
        PROVE  j = k
    BY <2>2, <2>4, <2>9 DEF PendingLevelIsLatest
  <2>10. QED
    BY <2>8, <2>9 DEF PendingLevelIsLatest
<1>2. CASE PostAdmitted(event)
  <2>1. /\ buffer' = Append(buffer, event)
        /\ DOMAIN buffer' = DOMAIN buffer \cup {Len(buffer) + 1}
        /\ Len(buffer) + 1 \notin DOMAIN buffer
        /\ buffer'[Len(buffer) + 1] = event
        /\ \A j \in DOMAIN buffer : buffer'[j] = buffer[j]
    BY <1>2 DEF PostAdmitted
  <2>2. ASSUME CanCoalesce(event.kind),
               NEW j \in DOMAIN buffer, CanCoalesce(buffer[j].kind)
        PROVE  /\ ~SameSignal(buffer[j].kind, event.kind)
               /\ ~SameSignal(event.kind, buffer[j].kind)
    <3>1. SUFFICES ASSUME SameSignal(buffer[j].kind, event.kind)
                   PROVE  Coalesces(buffer, event)
      BY <1>2 DEF PostAdmitted, SameSignal
    <3>2. ASSUME NEW l \in 1 .. (j - 1),
                 CanCoalesce(buffer[l].kind), SameSignal(buffer[l].kind, event.kind)
          PROVE  FALSE
      <4>1. l \in DOMAIN buffer /\ l # j
        OBVIOUS
      <4>2. SameSignal(buffer[l].kind, buffer[j].kind)
        BY <3>1, <3>2 DEF SameSignal
      <4>3. QED
        BY <2>2, <3>2, <4>1, <4>2 DEF PendingLevelIsLatest
    <3>3. IsCoalesceTarget(buffer, event, j)
      BY <2>2, <3>1, <3>2 DEF IsCoalesceTarget
    <3>4. QED
      BY <3>3 DEF Coalesces
  <2>3. \A k \in Kinds :
           latest'[k] = IF /\ CanCoalesce(k) /\ CanCoalesce(event.kind)
                           /\ SameSignal(k, event.kind)
                        THEN event.payload ELSE latest[k]
    BY <1>2 DEF PostAdmitted, Remember
  <2>4. CanCoalesce(event.kind) => latest'[event.kind] = event.payload
    BY <1>0, <2>3 DEF SameSignal
  <2>5. ASSUME NEW j \in DOMAIN buffer, CanCoalesce(buffer[j].kind)
        PROVE  latest'[buffer[j].kind] = latest[buffer[j].kind]
    BY <1>0, <2>2, <2>3, <2>5
  <2>6. ASSUME NEW j \in DOMAIN buffer', CanCoalesce(buffer'[j].kind)
        PROVE  buffer'[j].payload = latest'[buffer'[j].kind]
    BY <2>1, <2>4, <2>5, <2>6 DEF PendingLevelIsLatest
  <2>7. ASSUME NEW j \in DOMAIN buffer', NEW k \in DOMAIN buffer',
               CanCoalesce(buffer'[j].kind), CanCoalesce(buffer'[k].kind),
               SameSignal(buffer'[j].kind, buffer'[k].kind)
        PROVE  j = k
    BY <2>1, <2>2, <2>7 DEF PendingLevelIsLatest
  <2>8. QED
    BY <2>6, <2>7 DEF PendingLevelIsLatest
<1>3. CASE PostEscalated(event)
  BY <1>3 DEF PostEscalated, PendingLevelIsLatest
<1>4. CASE PostRefused(event)
  BY <1>4 DEF PostRefused, PendingLevelIsLatest
<1>5. QED
  BY <1>1, <1>2, <1>3, <1>4 DEF Post

LEMMA TryGetKeepsLatest ==
    ASSUME TypeOK, PendingLevelIsLatest, TryGet
    PROVE  PendingLevelIsLatest'
<1>1. PICK i \in DOMAIN buffer : buffer' = RemoveAt(buffer, i) /\ UNCHANGED latest
  BY DEF TryGet
<1>2. \A j \in DOMAIN buffer' :
         /\ Origin(j, i) \in DOMAIN buffer
         /\ buffer'[j] = buffer[Origin(j, i)]
  BY <1>1, OriginOfSurvivor
<1>3. ASSUME NEW j \in DOMAIN buffer', CanCoalesce(buffer'[j].kind)
      PROVE  buffer'[j].payload = latest'[buffer'[j].kind]
  BY <1>1, <1>2, <1>3 DEF PendingLevelIsLatest
<1>4. ASSUME NEW j \in DOMAIN buffer', NEW k \in DOMAIN buffer',
             CanCoalesce(buffer'[j].kind), CanCoalesce(buffer'[k].kind),
             SameSignal(buffer'[j].kind, buffer'[k].kind)
      PROVE  j = k
  <2>1. Origin(j, i) = Origin(k, i)
    BY <1>2, <1>4 DEF PendingLevelIsLatest
  <2>2. j \in Int /\ k \in Int /\ i \in Int
    BY <1>1, RemoveAtShifts DEF TypeOK
  <2>3. QED
    BY <2>1, <2>2 DEF Origin
<1>5. QED
  BY <1>3, <1>4 DEF PendingLevelIsLatest

\* What is pending for a LEVEL signal is one event and the newest one.
THEOREM LevelIsLatest == Spec => []PendingLevelIsLatest
<1>1. Init => PendingLevelIsLatest
  BY DEF Init, PendingLevelIsLatest
<1>2. TypeOK /\ PendingLevelIsLatest /\ [Next]_vars => PendingLevelIsLatest'
  <2> SUFFICES ASSUME TypeOK, PendingLevelIsLatest, [Next]_vars
               PROVE  PendingLevelIsLatest'
    OBVIOUS
  <2>1. CASE \E event \in Event : Post(event)
    BY <2>1, PostKeepsLatest
  <2>2. CASE TryGet
    BY <2>2, TryGetKeepsLatest
  <2>3. CASE UNCHANGED vars
    BY <2>3 DEF vars, PendingLevelIsLatest
  <2>4. QED
    BY <2>1, <2>2, <2>3 DEF Next
<1>3. QED
  BY <1>1, <1>2, TypeCorrect, PTL DEF Spec

-----------------------------------------------------------------------------
(* The share of the background.                                            *)

LEMMA BackgroundSlotsFinite ==
    ASSUME NEW buf \in Seq(Event)
    PROVE  LET slots == {i \in DOMAIN buf : IsBackground(buf[i].kind)}
           IN  /\ IsFiniteSet(slots)
               /\ Cardinality(slots) \in Nat
               /\ Cardinality(slots) <= Len(buf)
<1> DEFINE slots == {i \in DOMAIN buf : IsBackground(buf[i].kind)}
<1>1. /\ slots \subseteq 1 .. Len(buf)
      /\ Len(buf) \in Nat
  OBVIOUS
<1>2. IsFiniteSet(1 .. Len(buf)) /\ Cardinality(1 .. Len(buf)) = Len(buf)
  <2>1. Len(buf) \in Int /\ 1 \in Int /\ Len(buf) >= 0
    BY <1>1
  <2>2. IsFiniteSet(1 .. Len(buf))
    BY ONLY <2>1, FS_Interval
  <2>3. Cardinality(1 .. Len(buf)) = IF 1 > Len(buf) THEN 0 ELSE Len(buf) - 1 + 1
    BY ONLY <2>1, FS_Interval
  <2>4. QED
    BY <2>1, <2>2, <2>3
<1> HIDE DEF slots
<1>3. IsFiniteSet(slots) /\ Cardinality(slots) \in Nat /\ Cardinality(slots) <= Len(buf)
  BY <1>1, <1>2, FS_Subset, FS_CardinalityType
<1>4. QED
  BY <1>3 DEF slots

LEMMA PostKeepsBackgroundShare ==
    ASSUME TypeOK, TypeOK', BackgroundShareBounded, NEW event \in Event, Post(event)
    PROVE  BackgroundShareBounded'
<1> USE DEF TypeOK
<1>1. CASE PostCoalesced(event)
  <2>1. PICK i \in DOMAIN buffer :
           IsCoalesceTarget(buffer, event, i) /\ buffer' = [buffer EXCEPT ![i] = event]
    BY <1>1 DEF PostCoalesced
  <2>2. buffer[i].kind.priority = event.kind.priority
    <3>1. buffer[i].kind \in Kinds /\ event.kind \in Kinds
      BY <2>1, KindsOfEvents
    <3>2. QED
      BY <2>1, <3>1, OnePriorityPerSignal DEF IsCoalesceTarget, CanCoalesce, SameSignal
  <2>3. Len(buffer') = Len(buffer) /\ DOMAIN buffer' = DOMAIN buffer
    BY <2>1
  <2>4. \A j \in DOMAIN buffer :
           IsBackground(buffer'[j].kind) <=> IsBackground(buffer[j].kind)
    BY <2>1, <2>2 DEF IsBackground
  <2>5. BackgroundSlots' = BackgroundSlots
    BY <2>3, <2>4 DEF BackgroundSlots
  <2>6. QED
    BY <2>3, <2>5 DEF BackgroundShareBounded
<1>2. CASE PostAdmitted(event)
  <2>1. /\ Len(buffer') = Len(buffer) + 1
        /\ Len(buffer) < AdmissionLimit(event.kind)
        /\ DOMAIN buffer' = DOMAIN buffer \cup {Len(buffer) + 1}
        /\ buffer'[Len(buffer) + 1] = event
        /\ \A j \in DOMAIN buffer : buffer'[j] = buffer[j]
    BY <1>2 DEF PostAdmitted
  <2>2. Len(buffer') <= Capacity
    BY <2>1, SizesAssumption DEF AdmissionLimit
  <2>3. CASE IsBackground(event.kind)
    <3>1. Len(buffer') <= Capacity - ReservedCritical
      BY <2>1, <2>3, SizesAssumption DEF AdmissionLimit
    <3>2. Cardinality(BackgroundSlots') \in Nat /\ Cardinality(BackgroundSlots') <= Len(buffer')
      BY BackgroundSlotsFinite DEF BackgroundSlots
    <3>3. QED
      BY <2>2, <3>1, <3>2, SizesAssumption DEF BackgroundShareBounded
  <2>4. CASE ~IsBackground(event.kind)
    <3>1. BackgroundSlots' = BackgroundSlots
      BY <2>1, <2>4 DEF BackgroundSlots
    <3>2. QED
      BY <2>2, <3>1 DEF BackgroundShareBounded
  <2>5. QED
    BY <2>3, <2>4
<1>3. CASE PostEscalated(event)
  BY <1>3 DEF PostEscalated, BackgroundShareBounded, BackgroundSlots
<1>4. CASE PostRefused(event)
  BY <1>4 DEF PostRefused, BackgroundShareBounded, BackgroundSlots
<1>5. QED
  BY <1>1, <1>2, <1>3, <1>4 DEF Post

LEMMA TryGetKeepsBackgroundShare ==
    ASSUME TypeOK, BackgroundShareBounded, TryGet
    PROVE  BackgroundShareBounded'
<1>1. PICK i \in DOMAIN buffer : buffer' = RemoveAt(buffer, i)
  BY DEF TryGet
<1>2. \A j \in DOMAIN buffer' :
         /\ Origin(j, i) \in DOMAIN buffer
         /\ buffer'[j] = buffer[Origin(j, i)]
  BY <1>1, OriginOfSurvivor
<1>3. Len(buffer') = Len(buffer) - 1 /\ Len(buffer) \in Nat
  BY <1>1, RemoveAtShifts DEF TypeOK
<1> DEFINE f == [j \in BackgroundSlots' |-> Origin(j, i)]
<1>4. f \in Injection(BackgroundSlots', BackgroundSlots)
  <2>1. \A j \in BackgroundSlots' : Origin(j, i) \in BackgroundSlots
    BY <1>2 DEF BackgroundSlots
  <2>2. \A j, k \in BackgroundSlots' : Origin(j, i) = Origin(k, i) => j = k
    <3>1. i \in Int /\ \A j \in BackgroundSlots' : j \in Int
      BY <1>1, RemoveAtShifts DEF TypeOK, BackgroundSlots
    <3>2. QED
      BY <3>1 DEF Origin
  <2>3. QED
    BY <2>1, <2>2 DEF Injection, IsInjective
<1>5. /\ IsFiniteSet(BackgroundSlots')
      /\ Cardinality(BackgroundSlots') <= Cardinality(BackgroundSlots)
  <2>1. IsFiniteSet(BackgroundSlots)
    BY BackgroundSlotsFinite DEF BackgroundSlots, TypeOK
  <2>2. QED
    BY <1>4, <2>1, FS_Injection
<1>6. Cardinality(BackgroundSlots') \in Nat /\ Cardinality(BackgroundSlots) \in Nat
  <2>1. IsFiniteSet(BackgroundSlots)
    BY BackgroundSlotsFinite DEF BackgroundSlots, TypeOK
  <2>2. QED
    BY <1>5, <2>1, FS_CardinalityType
<1>7. QED
  BY <1>3, <1>5, <1>6, SizesAssumption DEF BackgroundShareBounded

\* Background events never hold a slot of the critical share, and the queue
\* never holds more than its capacity.
THEOREM BackgroundShareIsBounded == Spec => []BackgroundShareBounded
<1>1. Init => BackgroundShareBounded
  <2> SUFFICES ASSUME Init PROVE BackgroundShareBounded
    OBVIOUS
  <2>1. Len(buffer) = 0 /\ BackgroundSlots = {}
    BY DEF Init, BackgroundSlots
  <2>2. QED
    BY <2>1, FS_EmptySet, SizesAssumption DEF BackgroundShareBounded
<1>2. TypeOK /\ TypeOK' /\ BackgroundShareBounded /\ [Next]_vars => BackgroundShareBounded'
  <2> SUFFICES ASSUME TypeOK, TypeOK', BackgroundShareBounded, [Next]_vars
               PROVE  BackgroundShareBounded'
    OBVIOUS
  <2>1. CASE \E event \in Event : Post(event)
    BY <2>1, PostKeepsBackgroundShare
  <2>2. CASE TryGet
    BY <2>2, TryGetKeepsBackgroundShare
  <2>3. CASE UNCHANGED vars
    BY <2>3 DEF vars, BackgroundShareBounded, BackgroundSlots
  <2>4. QED
    BY <2>1, <2>2, <2>3 DEF Next
<1>3. QED
  BY <1>1, <1>2, TypeCorrect, PTL DEF Spec

-----------------------------------------------------------------------------
(* Order.                                                                  *)

\* No admission shortens the queue.
LEMMA PostDoesNotShorten ==
    ASSUME TypeOK, NEW event \in Event, Post(event)
    PROVE  ~(Len(buffer') < Len(buffer))
<1>1. buffer \in Seq(Event) /\ Len(buffer) \in Nat
  BY DEF TypeOK
<1>2. CASE PostCoalesced(event)
  <2>1. PICK i \in DOMAIN buffer : buffer' = [buffer EXCEPT ![i] = event]
    BY <1>2 DEF PostCoalesced
  <2>2. Len(buffer') = Len(buffer)
    BY <1>1, <2>1
  <2> QED
    BY <1>1, <2>2
<1>3. CASE PostAdmitted(event)
  <2>1. Len(buffer') = Len(buffer) + 1
    BY <1>1, <1>3 DEF PostAdmitted
  <2> QED
    BY <1>1, <2>1
<1>4. CASE PostEscalated(event) \/ PostRefused(event)
  <2>1. buffer' = buffer
    BY <1>4 DEF PostEscalated, PostRefused
  <2> QED
    BY <1>1, <2>1
<1> QED
  BY <1>2, <1>3, <1>4 DEF Post

\* Per-priority FIFO: whether the scan of try_get or the fair dequeue chose it, the
\* event that leaves is older than every pending event of its own priority.
THEOREM FifoIsKept == Spec => FifoWithinPriority
<1> DEFINE Fifo ==
       Len(buffer') < Len(buffer) =>
          \E d \in DOMAIN buffer :
              /\ buffer' = RemoveAt(buffer, d)
              /\ \A j \in 1 .. (d - 1) :
                    buffer[j].kind.priority # buffer[d].kind.priority
<1>1. TypeOK /\ [Next]_vars => Fifo
  <2> SUFFICES ASSUME TypeOK, [Next]_vars PROVE Fifo
    OBVIOUS
  <2>1. CASE \E event \in Event : Post(event)
    BY <2>1, PostDoesNotShorten
  <2>2. CASE TryGet
    <3>1. PICK d \in DOMAIN buffer :
             IsSelected(buffer, consecutive, d) /\ buffer' = RemoveAt(buffer, d)
      BY <2>2 DEF TryGet
    <3>2. d \in Int /\ \A j \in 1 .. (d - 1) : j \in DOMAIN buffer
      BY DEF TypeOK
    <3>3. \A j \in DOMAIN buffer : buffer[j].kind.priority \in Int
      <4>1. \A j \in DOMAIN buffer : buffer[j] \in Event
        BY DEF TypeOK
      <4>2. \A j \in DOMAIN buffer : buffer[j].kind.priority \in Priorities
        BY <4>1, CatalogueAssumption DEF Event
      <4> QED
        BY <4>2 DEF Priorities, CRITICAL, BACKGROUND
    <3>4. ASSUME NEW j \in 1 .. (d - 1)
          PROVE  buffer[j].kind.priority # buffer[d].kind.priority
      <4>1. CASE ForceFairDequeue(consecutive)
        \* The head has nobody before it.
        <5>1. d = 1
          BY <3>1, <4>1 DEF IsSelected
        <5> QED
          BY <5>1
      <4>2. CASE ~ForceFairDequeue(consecutive)
        <5>1. buffer[d].kind.priority < buffer[j].kind.priority
          BY <3>1, <4>2 DEF IsSelected
        <5> QED
          BY <3>2, <3>3, <5>1
      <4> QED
        BY <4>1, <4>2
    <3> QED
      BY <3>1, <3>4
  <2>3. CASE UNCHANGED vars
    <3>1. buffer' = buffer /\ Len(buffer) \in Nat
      BY <2>3 DEF vars, TypeOK
    <3> QED
      BY <3>1
  <2> QED
    BY <2>1, <2>2, <2>3 DEF Next
<1> QED
  BY <1>1, TypeCorrect, PTL DEF Spec, FifoWithinPriority
=============================================================================
