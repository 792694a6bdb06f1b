--------------------------- MODULE EventLoopProof ---------------------------
(***************************************************************************)
(* What the control plane guarantees for every catalogue of events, every  *)
(* set of jobs and every size of queue, table and budget.  The mode        *)
(* manager comes first; the scheduler follows, in three invariants that    *)
(* build on each other: types, the period grid, and the events that are    *)
(* outstanding for each job.                                               *)
(***************************************************************************)
EXTENDS EventLoop, FiniteSetTheorems, TLAPS

-----------------------------------------------------------------------------
(* The transition table.                                                   *)

\* Every transition of the table requests only actions that belong to the mode it
\* enters.
LEMMA RowsRequestEntryActions ==
    ASSUME NEW i \in DOMAIN TransitionTable, NEW a \in TransitionTable[i].actions
    PROVE  <<a, TransitionTable[i].to>> \in EntryModes
<1>1. i \in 1 .. 28
  BY DEF TransitionTable
<1>2. CASE i \in 1 .. 7
  BY <1>2 DEF TransitionTable, Row, EntryModes
<1>3. CASE i \in 8 .. 14
  BY <1>3 DEF TransitionTable, Row, EntryModes
<1>4. CASE i \in 15 .. 21
  BY <1>4 DEF TransitionTable, Row, EntryModes
<1>5. CASE i \in 22 .. 28
  BY <1>5 DEF TransitionTable, Row, EntryModes
<1> QED
  BY <1>1, <1>2, <1>3, <1>4, <1>5

\* What system_fsm_dispatch may do: leave everything, or commit a row of the
\* table that leads to another mode.
LEMMA DispatchEffect ==
    ASSUME NEW id, NEW delivery, NEW generation, NEW facts,
           Dispatch(id, delivery, generation, facts)
    PROVE  \/ UNCHANGED <<mode, mode_generation, pending_actions>>
           \/ /\ ~IsStale(delivery, generation)
              /\ mode' # mode
              /\ mode_generation' = mode_generation + 1
              /\ \A a \in pending_actions' : <<a, mode'>> \in EntryModes
<1>1. CASE IsStale(delivery, generation)
  BY <1>1 DEF Dispatch, Stay
<1>2. CASE ~IsStale(delivery, generation)
  <2>1. PICK i \in DOMAIN TransitionTable :
           /\ IsMatch(i, id, facts)
           /\ IF TransitionTable[i].to = mode THEN Stay ELSE Commit(TransitionTable[i])
    BY <1>2 DEF Dispatch
  <2>2. CASE TransitionTable[i].to = mode
    BY <2>1, <2>2 DEF Stay
  <2>3. CASE TransitionTable[i].to # mode
    <3>1. Commit(TransitionTable[i])
      BY <2>1, <2>3
    <3>2. /\ mode' = TransitionTable[i].to
          /\ mode_generation' = mode_generation + 1
          /\ pending_actions' = TransitionTable[i].actions
      BY <3>1 DEF Commit, Requested
    <3>3. \A a \in pending_actions' : <<a, mode'>> \in EntryModes
      BY <3>2, RowsRequestEntryActions
    <3> QED
      BY <1>2, <2>3, <3>2, <3>3
  <2> QED
    BY <2>2, <2>3
<1> QED
  BY <1>1, <1>2

\* The five steps of a turn and the steps around it, as one step sees them: who
\* may change the mode manager and the published context.
LEMMA WhoTouchesTheMode ==
    ASSUME [Next]_vars
    PROVE  \/ UNCHANGED fsmVars
           \/ DispatchOne
           \/ EndTurn
<1>1. CASE Turn
  BY <1>1 DEF Turn, BeginTurn, ScanJob, PostDue, BudgetElapsed
<1>2. CASE Produce \/ ScheduleJob \/ CancelJob \/ PublishGuards \/ Tick
  BY <1>2 DEF Produce, ScheduleJob, CancelJob, PublishGuards, Tick
<1>3. CASE UNCHANGED vars
  BY <1>3 DEF vars
<1> QED
  BY <1>1, <1>2, <1>3 DEF Next

\* A dispatched event either leaves the mode manager alone or reaches it.
LEMMA DispatchOneEffect ==
    ASSUME DispatchOne
    PROVE  \/ UNCHANGED fsmVars
           \/ \E event : HandleFsmEvent(event)
BY DEF DispatchOne

\* A turn ends with a reset, or with some actions completed.
LEMMA EndTurnEffect ==
    ASSUME EndTurn
    PROVE  \/ Reboot
           \/ /\ UNCHANGED <<mode, mode_generation, published>>
              /\ pending_actions' \subseteq pending_actions
BY DEF EndTurn

-----------------------------------------------------------------------------
(* Entry actions.                                                          *)

\* No step leaves an entry action waiting in a mode that did not request it: an
\* action that could not run (no handler, no budget) is dropped with its mode.
THEOREM ActionsFitMode == Spec => []PendingActionsFitMode
<1>1. Init => PendingActionsFitMode
  BY DEF Init, FsmInit, PendingActionsFitMode
<1>2. PendingActionsFitMode /\ [Next]_vars => PendingActionsFitMode'
  <2> SUFFICES ASSUME PendingActionsFitMode, [Next]_vars
               PROVE  PendingActionsFitMode'
    OBVIOUS
  <2> USE DEF PendingActionsFitMode
  <2>1. CASE UNCHANGED fsmVars
    BY <2>1 DEF fsmVars
  <2>2. CASE \E event : HandleFsmEvent(event)
    <3>1. PICK event : HandleFsmEvent(event)
      BY <2>2
    <3> QED
      BY <3>1, DispatchEffect DEF HandleFsmEvent, fsmVars
  <2>3. CASE EndTurn
    <3>1. CASE Reboot
      BY <3>1 DEF Reboot
    <3>2. CASE /\ UNCHANGED <<mode, mode_generation, published>>
               /\ pending_actions' \subseteq pending_actions
      BY <3>2
    <3> QED
      BY <2>3, <3>1, <3>2, EndTurnEffect
  <2> QED
    BY <2>1, <2>2, <2>3, WhoTouchesTheMode, DispatchOneEffect
<1> QED
  BY <1>1, <1>2, PTL DEF Spec

-----------------------------------------------------------------------------
(* Sequences of events.                                                    *)

\* What remains when one member is taken out: one fewer, the others in order.
IsWithout(shorter, s, i) ==
    /\ Len(shorter) = Len(s) - 1
    /\ \A j \in 1 .. (Len(s) - 1) : shorter[j] = IF j < i THEN s[j] ELSE s[j + 1]

\* RemoveAt takes out the member at the position, as the shifting loops of the C code do.
LEMMA RemoveAtIsWithout ==
    ASSUME NEW S, NEW s \in Seq(S), NEW i \in 1 .. Len(s)
    PROVE  RemoveAt(s, i) \in Seq(S) /\ IsWithout(RemoveAt(s, i), s, i)
<1> DEFINE before == SubSeq(s, 1, i - 1)
           after == SubSeq(s, i + 1, Len(s))
<1>1. /\ before \in Seq(S) /\ Len(before) = i - 1
      /\ after \in Seq(S) /\ Len(after) = Len(s) - i
      /\ \A j \in 1 .. (i - 1) : before[j] = s[j]
      /\ \A j \in 1 .. (Len(s) - i) : after[j] = s[i + j]
  OBVIOUS
<1>2. RemoveAt(s, i) = before \o after
  BY DEF RemoveAt
<1> HIDE DEF before, after
<1>3. ASSUME NEW a \in Seq(S), NEW b \in Seq(S)
      PROVE  /\ a \o b \in Seq(S)
             /\ Len(a \o b) = Len(a) + Len(b)
             /\ \A j \in 1 .. (Len(a) + Len(b)) :
                   (a \o b)[j] = IF j <= Len(a) THEN a[j] ELSE b[j - Len(a)]
  OBVIOUS
<1>4. /\ before \o after \in Seq(S)
      /\ Len(before \o after) = Len(s) - 1
      /\ \A j \in 1 .. (Len(s) - 1) :
            (before \o after)[j] = IF j <= i - 1 THEN before[j] ELSE after[j - (i - 1)]
  <2>1. /\ before \o after \in Seq(S)
        /\ Len(before \o after) = Len(before) + Len(after)
        /\ \A j \in 1 .. (Len(before) + Len(after)) :
              (before \o after)[j] =
                 IF j <= Len(before) THEN before[j] ELSE after[j - Len(before)]
    BY <1>1, <1>3
  <2>2. Len(before) = i - 1 /\ Len(before) + Len(after) = Len(s) - 1
    BY <1>1
  <2> QED
    BY <2>1, <2>2
<1>5. ASSUME NEW j \in 1 .. (Len(s) - 1)
      PROVE  (before \o after)[j] = IF j < i THEN s[j] ELSE s[j + 1]
  <2>1. CASE j < i
    BY <2>1, <1>1, <1>4
  <2>2. CASE ~(j < i)
    <3>1. j - (i - 1) \in 1 .. (Len(s) - i) /\ i + (j - (i - 1)) = j + 1 /\ ~(j <= i - 1)
      BY <2>2
    <3>2. after[j - (i - 1)] = s[j + 1]
      BY <1>1, <3>1
    <3>3. (before \o after)[j] = after[j - (i - 1)]
      BY <1>4, <3>1
    <3> QED
      BY <2>2, <3>2, <3>3
  <2> QED
    BY <2>1, <2>2
<1> QED
  BY <1>2, <1>4, <1>5 DEF IsWithout

\* A sequence is empty when its length is zero.
LEMMA EmptyWhenShort ==
    ASSUME NEW S, NEW s \in Seq(S)
    PROVE  s = <<>> <=> Len(s) = 0
OBVIOUS

\* A sequence over a set is one over every larger set.
LEMMA SequencesOfMore ==
    ASSUME NEW S, NEW T, S \subseteq T, NEW s \in Seq(S)
    PROVE  s \in Seq(T)
OBVIOUS

\* The tail takes out the first member.
LEMMA TailIsWithout ==
    ASSUME NEW S, NEW s \in Seq(S), s # <<>>
    PROVE  Tail(s) \in Seq(S) /\ IsWithout(Tail(s), s, 1) /\ Head(s) = s[1] /\ 1 \in DOMAIN s
BY DEF IsWithout

EventCount(events, id, generation) == Cardinality(EventsOf(events, id, generation))

\* The events of one job among a sequence can be counted.
LEMMA EventsAreFinite ==
    ASSUME NEW S, NEW s \in Seq(S), NEW id, NEW g
    PROVE  /\ IsFiniteSet(EventsOf(s, id, g))
           /\ EventCount(s, id, g) \in Nat
           /\ EventsOf(s, id, g) = {} <=> EventCount(s, id, g) = 0
<1>1. EventsOf(s, id, g) \in SUBSET (1 .. Len(s)) /\ Len(s) \in Int
  BY DEF EventsOf
<1>2. IsFiniteSet(1 .. Len(s))
  BY <1>1, FS_Interval
<1>3. IsFiniteSet(EventsOf(s, id, g))
  BY <1>1, <1>2, FS_Subset
<1> QED
  BY <1>3, FS_CardinalityType, FS_EmptySet DEF EventCount

\* Appending counts one more when the appended event is the job's, and nothing else.
LEMMA CountWhenAppended ==
    ASSUME NEW S, NEW s \in Seq(S), NEW e \in S, NEW id, NEW g
    PROVE  EventCount(Append(s, e), id, g) =
              IF /\ e.kind.delivery = "DEADLINE"
                 /\ e.payload = [correlation |-> id, generation |-> g]
              THEN EventCount(s, id, g) + 1 ELSE EventCount(s, id, g)
<1> DEFINE old == EventsOf(s, id, g)
           new == EventsOf(Append(s, e), id, g)
           counts == /\ e.kind.delivery = "DEADLINE"
                     /\ e.payload = [correlation |-> id, generation |-> g]
<1>1. IsFiniteSet(old) /\ Cardinality(old) \in Nat
  BY EventsAreFinite DEF EventCount
<1>2. Len(s) + 1 \notin old
  BY DEF EventsOf
<1>3. new = IF counts THEN old \cup {Len(s) + 1} ELSE old
  BY DEF EventsOf
<1> QED
  BY <1>1, <1>2, <1>3, FS_AddElement DEF EventCount

\* Taking a member out counts one fewer when it was the job's, and nothing else.
LEMMA CountWhenTakenOut ==
    ASSUME NEW S, NEW s \in Seq(S), NEW t \in Seq(S), NEW k \in DOMAIN s,
           IsWithout(t, s, k), NEW id, NEW g
    PROVE  EventCount(t, id, g) =
              IF k \in EventsOf(s, id, g) THEN EventCount(s, id, g) - 1
              ELSE EventCount(s, id, g)
<1> DEFINE old == EventsOf(s, id, g) \ {k}
           new == EventsOf(t, id, g)
           Origin(j) == IF j < k THEN j ELSE j + 1
           f == [j \in new |-> Origin(j)]
<1>1. IsFiniteSet(EventsOf(s, id, g)) /\ IsFiniteSet(new)
  BY EventsAreFinite
<1>2. DOMAIN s = 1 .. Len(s) /\ DOMAIN t = 1 .. (Len(s) - 1) /\ Len(s) \in Nat
  BY DEF IsWithout
<1>3. ASSUME NEW j \in 1 .. (Len(s) - 1)
      PROVE  t[j] = s[Origin(j)] /\ Origin(j) \in DOMAIN s \ {k}
  BY <1>2 DEF IsWithout
<1>4. \A j \in new : Origin(j) \in old
  BY <1>2, <1>3 DEF EventsOf
<1>5. \A i, j \in new : Origin(i) = Origin(j) => i = j
  BY <1>2 DEF EventsOf
<1>6. \A i \in old : \E j \in new : Origin(j) = i
  <2> SUFFICES ASSUME NEW i \in old PROVE \E j \in new : Origin(j) = i
    OBVIOUS
  <2> DEFINE j == IF i < k THEN i ELSE i - 1
  <2>1. i \in 1 .. Len(s) /\ i # k /\ i \in EventsOf(s, id, g)
    BY <1>2 DEF EventsOf
  <2>2. j \in 1 .. (Len(s) - 1) /\ Origin(j) = i
    BY <2>1
  <2>3. t[j] = s[i]
    BY <1>3, <2>2
  <2>4. j \in new
    BY <1>2, <2>1, <2>2, <2>3 DEF EventsOf
  <2> QED
    BY <2>2, <2>4
<1> HIDE DEF Origin
<1>7. f \in Bijection(new, old)
  BY <1>4, <1>5, <1>6 DEF Bijection, Injection, IsInjective, Surjection
<1>8. Cardinality(old) = Cardinality(new)
  BY <1>1, <1>7, FS_Bijection DEF ExistsBijection
<1> QED
  BY <1>1, <1>8, FS_RemoveElement DEF EventCount

\* The same of the event at the front, which is posted first.
LEMMA CountOfTail ==
    ASSUME NEW S, NEW s \in Seq(S), s # <<>>, NEW id, NEW g
    PROVE  EventCount(Tail(s), id, g) =
              IF 1 \in EventsOf(s, id, g) THEN EventCount(s, id, g) - 1
              ELSE EventCount(s, id, g)
<1>1. PICK k, t : k = 1 /\ t = Tail(s)
  OBVIOUS
<1>2. k \in DOMAIN s /\ t \in Seq(S) /\ IsWithout(t, s, k)
  <2>1. Tail(s) \in Seq(S) /\ IsWithout(Tail(s), s, 1) /\ 1 \in DOMAIN s
    BY TailIsWithout
  <2> QED
    BY <1>1, <2>1
<1>3. EventCount(t, id, g) =
         IF k \in EventsOf(s, id, g) THEN EventCount(s, id, g) - 1 ELSE EventCount(s, id, g)
  BY <1>2, CountWhenTakenOut
<1> QED
  BY <1>1, <1>3

-----------------------------------------------------------------------------
(* What the parts do.                                                      *)

JobRecord == [id : JobIds, kind : JobKinds, policy : Policies, anchor : Nat,
              period : Nat, deadline : Nat, generation : 1 .. MaxJobGeneration,
              pending : BOOLEAN]
QueuedEvent == [kind : FsmKinds \cup JobKinds, payload : Payload]
DueRecord ==
    [kind : JobKinds, payload : [correlation : JobIds, generation : 1 .. MaxJobGeneration]]

\* A post leaves the queue, appends the event, or overwrites a LEVEL event by another.
LEMMA PostEffect ==
    ASSUME NEW event, Queue!Post(event)
    PROVE  \/ buffer' = buffer
           \/ buffer' = Append(buffer, event)
           \/ /\ event.kind.delivery = "LEVEL"
              /\ \E i \in DOMAIN buffer :
                    /\ buffer[i].kind.delivery = "LEVEL"
                    /\ buffer' = [buffer EXCEPT ![i] = event]
BY DEF Queue!Post, Queue!PostCoalesced, Queue!PostAdmitted, Queue!PostEscalated,
       Queue!PostRefused, Queue!IsCoalesceTarget, Queue!CanCoalesce

\* The scan of try_get has one result.
LEMMA SelectionIsUnique ==
    ASSUME buffer \in Seq(QueuedEvent), NEW i, NEW j,
           Queue!IsSelected(buffer, consecutive, i), Queue!IsSelected(buffer, consecutive, j)
    PROVE  i = j
<1>1. i \in 1 .. Len(buffer) /\ j \in 1 .. Len(buffer)
  BY DEF Queue!IsSelected
<1>2. \A k \in 1 .. Len(buffer) : buffer[k].kind.priority \in Int
  <2> SUFFICES ASSUME NEW k \in 1 .. Len(buffer) PROVE buffer[k].kind.priority \in Int
    OBVIOUS
  <2>1. buffer[k] \in QueuedEvent
    OBVIOUS
  <2>2. buffer[k].kind \in FsmKinds \cup JobKinds
    BY <2>1 DEF QueuedEvent
  <2> QED
    BY <2>2, CatalogueAssumption DEF Queue!Priorities, Queue!CRITICAL, Queue!BACKGROUND
<1>3. CASE Queue!ForceFairDequeue(consecutive)
  BY <1>3 DEF Queue!IsSelected
<1>4. CASE ~Queue!ForceFairDequeue(consecutive)
  <2>1. /\ buffer[i].kind.priority <= buffer[j].kind.priority
        /\ buffer[j].kind.priority <= buffer[i].kind.priority
        /\ j \in 1 .. (i - 1) => buffer[i].kind.priority < buffer[j].kind.priority
        /\ i \in 1 .. (j - 1) => buffer[j].kind.priority < buffer[i].kind.priority
    <3>1. i \in DOMAIN buffer /\ j \in DOMAIN buffer
      BY DEF Queue!IsSelected
    <3> QED
      BY <1>4, <3>1 DEF Queue!IsSelected
  <2>2. buffer[i].kind.priority \in Int /\ buffer[j].kind.priority \in Int
    BY <1>1, <1>2
  <2> HIDE DEF Queue!IsSelected
  <2> QED
    BY <1>1, <2>1, <2>2
<1> QED
  BY <1>3, <1>4

\* try_get takes the selected event out of the buffer and leaves the others in order.
LEMMA TryGetEffect ==
    ASSUME buffer \in Seq(QueuedEvent), Queue!TryGet,
           NEW i \in DOMAIN buffer, Queue!IsSelected(buffer, consecutive, i)
    PROVE  /\ buffer' = RemoveAt(buffer, i)
           /\ buffer' \in Seq(QueuedEvent)
           /\ IsWithout(buffer', buffer, i)
<1>1. PICK j \in DOMAIN buffer :
         Queue!IsSelected(buffer, consecutive, j) /\ buffer' = RemoveAt(buffer, j)
  BY DEF Queue!TryGet, Queue!RemoveAt, RemoveAt
<1>2. j = i
  BY <1>1, SelectionIsUnique
<1>3. i \in 1 .. Len(buffer)
  OBVIOUS
<1>4. RemoveAt(buffer, i) \in Seq(QueuedEvent) /\ IsWithout(RemoveAt(buffer, i), buffer, i)
  BY <1>3, RemoveAtIsWithout
<1> QED
  BY <1>1, <1>2, <1>4

\* The grid: with whole periods elapsed since the anchor, the next instant of the
\* grid is later than now, and no instant that has passed is beyond the last slot.
LEMMA GridOfPeriods ==
    ASSUME NEW anchor \in Nat, NEW period \in Nat \ {0}, NEW t \in Nat, anchor <= t
    PROVE  /\ (t - anchor) \div period \in Nat
           /\ t < anchor + ((t - anchor) \div period + 1) * period
           /\ \A k \in Int : anchor + k * period <= t => k <= (t - anchor) \div period
<1> DEFINE d == t - anchor
           q == d \div period
<1>1. d \in Nat
  OBVIOUS
<1>2. q \in Nat /\ q * period <= d /\ d < (q + 1) * period
  BY <1>1
<1>3. ASSUME NEW k \in Int, anchor + k * period <= t
      PROVE  k <= q
  <2> HIDE DEF q
  <2>1. SUFFICES ASSUME k >= q + 1 PROVE FALSE
    BY <1>2
  <2>2. (k - (q + 1)) * period >= 0
    BY <1>2, <2>1
  <2>3. k * period = (k - (q + 1)) * period + (q + 1) * period
    BY <1>2
  <2>4. k * period \in Int /\ (q + 1) * period \in Int /\ (k - (q + 1)) * period \in Int
    BY <1>2
  <2> QED
    BY <1>1, <1>2, <1>3, <2>2, <2>3, <2>4
<1>4. t < anchor + (q + 1) * period
  <2>1. (q + 1) * period \in Int
    BY <1>2
  <2> HIDE DEF q
  <2> QED
    BY <1>2, <2>1
<1> QED
  BY <1>2, <1>3, <1>4

\* next_anchored returns a time in the future that is not before the anchor.
LEMMA NextAnchoredIsLater ==
    ASSUME NEW anchor \in Nat, NEW period \in Nat \ {0}, NEW t \in Nat
    PROVE  /\ NextAnchored(anchor, period, t) \in Nat
           /\ NextAnchored(anchor, period, t) > t
           /\ NextAnchored(anchor, period, t) >= anchor
<1>1. CASE anchor > t
  BY <1>1 DEF NextAnchored
<1>2. CASE ~(anchor > t)
  <2> DEFINE q == (t - anchor) \div period
  <2>1. q \in Nat /\ t < anchor + (q + 1) * period
    BY <1>2, GridOfPeriods
  <2>2. NextAnchored(anchor, period, t) = anchor + (q + 1) * period
    BY <1>2 DEF NextAnchored
  <2>3. (q + 1) * period \in Nat
    BY <2>1
  <2> HIDE DEF q
  <2> QED
    BY <1>2, <2>1, <2>2, <2>3
<1> QED
  BY <1>1, <1>2

-----------------------------------------------------------------------------
(* Type correctness.                                                       *)

TableTyped == jobs \in Seq(JobRecord) /\ Len(jobs) <= MaxJobs

TurnTyped ==
    /\ phase \in {"between", "scanning", "posting", "dispatching"}
    /\ IF phase = "scanning" THEN cursor \in DOMAIN jobs /\ Len(due) < MaxDueEvents
       ELSE cursor = 0
    /\ steps \in 0 .. MaxSteps
    /\ due \in Seq(DueRecord)
    /\ phase = "posting" => due # <<>>
    /\ due # <<>> => phase \in {"scanning", "posting"}

ModeTyped ==
    /\ mode \in Modes /\ mode_generation \in Nat \ {0}
    /\ pending_actions \subseteq Actions
    /\ published \in [mode : Modes, generation : Nat]

OwnersTyped ==
    /\ now \in Nat
    /\ issued \in [JobIds -> Nat]
    /\ fired \in [JobIds -> Int]
    /\ refused \subseteq JobIds

\* TypeOK with the types of the counters and histories that the steps compare.
TypeInv ==
    /\ buffer \in Seq(QueuedEvent)
    /\ TableTyped
    /\ TurnTyped
    /\ ModeTyped
    /\ OwnersTyped

\* A due event of the table is one that the queue can hold.
LEMMA DueRecordsAreEvents ==
    ASSUME NEW e \in DueRecord
    PROVE  /\ e \in [kind : JobKinds, payload : Payload] /\ e \in QueuedEvent
           /\ e.payload.correlation \in JobIds
<1>1. e.payload \in Payload
  BY LoopAssumption DEF DueRecord, Payload
<1> QED
  BY <1>1 DEF DueRecord, QueuedEvent

\* The inductive form implies the type invariant of the runs.
LEMMA TypeInvIsTypeOK == TypeInv => TypeOK
<1> SUFFICES ASSUME TypeInv PROVE TypeOK
  OBVIOUS
<1>1. due \in Seq([kind : JobKinds, payload : Payload])
  <2>1. due \in Seq(DueRecord)
    BY DEF TypeInv, TurnTyped
  <2>2. DueRecord \subseteq [kind : JobKinds, payload : Payload]
    BY DueRecordsAreEvents
  <2> QED
    BY ONLY <2>1, <2>2, SequencesOfMore
<1> QED
  BY <1>1 DEF TypeInv, TypeOK, TableTyped, TurnTyped, ModeTyped, OwnersTyped, JobRecord,
              QueuedEvent

\* After app_event_loop_init everything has its type.
LEMMA InitTyped == Init => TypeInv
<1> SUFFICES ASSUME Init PROVE TypeInv
  OBVIOUS
<1> USE DEF Init
<1>1. buffer \in Seq(QueuedEvent)
  BY DEF Queue!Init
<1>2. TableTyped
  BY SchedulerAssumption DEF SchedulerInit, TableTyped
<1>3. TurnTyped
  BY LoopAssumption DEF SchedulerInit, TurnTyped
<1>4. ModeTyped
  BY DEF FsmInit, ModeTyped, Modes, UnpublishedMode
<1>5. OwnersTyped
  BY DEF OwnersTyped
<1> QED
  BY <1>1, <1>2, <1>3, <1>4, <1>5 DEF TypeInv

\* A job record comes from a specification of its owner.
LEMMA SpecifiedJobs ==
    ASSUME NEW s \in JobSpecs
    PROVE  s.id \in JobIds /\ s.kind \in JobKinds /\ s.policy \in Policies /\ s.period \in Nat
BY CatalogueAssumption DEF JobIds, JobKinds

\* A post leaves events of the catalogue in the queue.
LEMMA PostTyped ==
    ASSUME buffer \in Seq(QueuedEvent), NEW event \in QueuedEvent, Queue!Post(event)
    PROVE  buffer' \in Seq(QueuedEvent)
<1>1. CASE buffer' = buffer \/ buffer' = Append(buffer, event)
  BY <1>1
<1>2. CASE \E i \in DOMAIN buffer : buffer' = [buffer EXCEPT ![i] = event]
  BY <1>2
<1> QED
  BY <1>1, <1>2, PostEffect

\* What a producer posts is an event of the queue's catalogue and not a deadline.
LEMMA ProducedEvents ==
    ASSUME ModeTyped, mode_generation <= MaxGeneration, NEW kind \in FsmKinds,
           NEW g \in IF kind.delivery = "COMPLETION"
                     THEN {mode_generation - 1, mode_generation} ELSE {0}
    PROVE  /\ FsmEvent(kind, g) \in QueuedEvent
           /\ FsmEvent(kind, g).kind.delivery # "DEADLINE"
<1>1. g \in 0 .. (MaxGeneration + MaxJobGeneration)
  BY LoopAssumption DEF ModeTyped
<1>2. [correlation |-> 0, generation |-> g] \in Payload
  BY <1>1 DEF Payload
<1> QED
  BY <1>2, CatalogueAssumption DEF FsmEvent, QueuedEvent

\* What a step may do to the queue.
LEMMA QueueSteps ==
    ASSUME TypeInv, [Next]_vars
    PROVE  \/ buffer' = buffer
           \/ PostDue /\ Queue!Post(due[1]) /\ due[1] \in DueRecord
           \/ DispatchOne
           \/ buffer' = <<>>
           \/ Produce /\ \E event \in QueuedEvent :
                            event.kind.delivery # "DEADLINE" /\ Queue!Post(event)
<1>1. CASE BeginTurn \/ ScanJob \/ BudgetElapsed
  BY <1>1 DEF BeginTurn, ScanJob, BudgetElapsed, queueVars
<1>2. CASE PostDue
  <2>1. due # <<>> /\ due \in Seq(DueRecord)
    BY <1>2 DEF PostDue, TypeInv, TurnTyped
  <2> QED
    BY <1>2, <2>1 DEF PostDue
<1>3. CASE EndTurn
  BY <1>3 DEF EndTurn, Reboot, queueVars
<1>4. CASE Produce
  BY <1>4, ProducedEvents DEF Produce, TypeInv
<1>5. CASE ScheduleJob \/ CancelJob \/ PublishGuards \/ Tick
  BY <1>5 DEF ScheduleJob, CancelJob, PublishGuards, Tick, queueVars
<1>6. CASE UNCHANGED vars
  BY <1>6 DEF vars, queueVars
<1> QED
  BY <1>1, <1>2, <1>3, <1>4, <1>5, <1>6 DEF Next, Turn

\* Every step leaves events of the catalogue in the queue.
LEMMA QueueStaysTyped ==
    ASSUME TypeInv, [Next]_vars
    PROVE  buffer' \in Seq(QueuedEvent)
<1> USE DEF TypeInv
<1>1. CASE PostDue /\ Queue!Post(due[1]) /\ due[1] \in DueRecord
  BY <1>1, PostTyped, DueRecordsAreEvents
<1>2. CASE DispatchOne
  <2>1. PICK i \in DOMAIN buffer : Queue!IsSelected(buffer, consecutive, i)
    BY <1>2 DEF DispatchOne
  <2> QED
    BY <1>2, <2>1, TryGetEffect DEF DispatchOne
<1>3. CASE \E event \in QueuedEvent : Queue!Post(event)
  BY <1>3, PostTyped
<1>4. CASE buffer' = buffer
  BY <1>4
<1>5. CASE buffer' = <<>>
  BY <1>5
<1> QED
  BY <1>1, <1>2, <1>3, <1>4, <1>5, QueueSteps

\* Every row of the table leads to a mode and requests actions.
LEMMA RowsAreTyped ==
    ASSUME NEW i \in DOMAIN TransitionTable
    PROVE  TransitionTable[i].to \in Modes /\ TransitionTable[i].actions \subseteq Actions
<1>1. i \in 1 .. 28
  BY DEF TransitionTable
<1>2. /\ "START_NORMAL" \in Actions /\ "ENTER_SERVICE" \in Actions
      /\ "START_RECOVERY" \in Actions /\ "ENTER_ERROR" \in Actions
      /\ "PREPARE_LOW_POWER" \in Actions /\ "RESUME_NORMAL" \in Actions
      /\ "REQUEST_RESET" \in Actions
  <2>1. DOMAIN ActionOrder = 1 .. 7
    BY DEF ActionOrder
  <2>2. /\ ActionOrder[1] = "START_NORMAL" /\ ActionOrder[2] = "ENTER_SERVICE"
        /\ ActionOrder[3] = "START_RECOVERY" /\ ActionOrder[4] = "ENTER_ERROR"
        /\ ActionOrder[5] = "PREPARE_LOW_POWER" /\ ActionOrder[6] = "RESUME_NORMAL"
        /\ ActionOrder[7] = "REQUEST_RESET"
    BY DEF ActionOrder
  <2>3. \A k \in 1 .. 7 : ActionOrder[k] \in Actions
    BY <2>1 DEF Actions, ToSet
  <2> QED
    BY <2>2, <2>3
<1>3. TransitionTable[i].to \in Modes
  <2>1. CASE i \in 1 .. 7
    BY <2>1 DEF TransitionTable, Row, Modes
  <2>2. CASE i \in 8 .. 14
    BY <2>2 DEF TransitionTable, Row, Modes
  <2>3. CASE i \in 15 .. 21
    BY <2>3 DEF TransitionTable, Row, Modes
  <2>4. CASE i \in 22 .. 28
    BY <2>4 DEF TransitionTable, Row, Modes
  <2> QED
    BY <1>1, <2>1, <2>2, <2>3, <2>4
<1>4. TransitionTable[i].actions \subseteq Actions
  <2>1. CASE i \in 1 .. 7
    BY <1>2, <2>1 DEF TransitionTable, Row
  <2>2. CASE i \in 8 .. 13
    BY <1>2, <2>2 DEF TransitionTable, Row
  <2>3. CASE i \in 15 .. 21
    BY <1>2, <2>3 DEF TransitionTable, Row
  <2>4. CASE i \in 22 .. 28
    BY <1>2, <2>4 DEF TransitionTable, Row
  <2>5. CASE i = 14
    <3>1. TransitionTable[14].actions = {"RESUME_NORMAL", "ENTER_SERVICE"}
      BY DEF TransitionTable, Row
    <3> QED
      BY <1>2, <2>5, <3>1
  <2> QED
    BY <1>1, <2>1, <2>2, <2>3, <2>4, <2>5
<1> QED
  BY <1>3, <1>4

\* system_fsm_dispatch enters modes and requests actions of their types.
LEMMA DispatchStaysTyped ==
    ASSUME ModeTyped, NEW id, NEW delivery, NEW generation, NEW facts,
           Dispatch(id, delivery, generation, facts)
    PROVE  /\ mode' \in Modes /\ mode_generation' \in Nat \ {0}
           /\ pending_actions' \subseteq Actions
<1>1. CASE Stay
  BY <1>1 DEF Stay, ModeTyped
<1>2. CASE \E i \in DOMAIN TransitionTable : Commit(TransitionTable[i])
  <2>1. PICK i \in DOMAIN TransitionTable : Commit(TransitionTable[i])
    BY <1>2
  <2>2. /\ mode' = TransitionTable[i].to
        /\ mode_generation' = mode_generation + 1
        /\ pending_actions' = TransitionTable[i].actions
    BY <2>1 DEF Commit, Requested
  <2> QED
    BY <2>2, RowsAreTyped DEF ModeTyped
<1> QED
  BY <1>1, <1>2 DEF Dispatch

\* What MovesOn makes of the table: the job under the cursor has a later deadline, or
\* is gone.
LEMMA MovesOnEffect ==
    ASSUME TypeInv, phase = "scanning", NEW pending \in BOOLEAN, MovesOn(now, pending)
    PROVE  LET job == jobs[cursor]
               moved == [job EXCEPT !.deadline = NextAnchored(job.anchor, job.period, now),
                                    !.pending = pending]
           IN  /\ cursor \in 1 .. Len(jobs) /\ job \in JobRecord
               /\ IF IsPeriodic(job)
                  THEN moved \in JobRecord /\ jobs' = [jobs EXCEPT ![cursor] = moved]
                  ELSE jobs' = RemoveAt(jobs, cursor) /\ IsWithout(jobs', jobs, cursor)
               /\ jobs' \in Seq(JobRecord)
               /\ Len(jobs') <= Len(jobs)
<1> DEFINE job == jobs[cursor]
           next == NextAnchored(job.anchor, job.period, now)
           moved == [job EXCEPT !.deadline = next, !.pending = pending]
<1>1. cursor \in 1 .. Len(jobs) /\ jobs \in Seq(JobRecord)
  BY DEF TypeInv, TurnTyped, TableTyped
<1>2. job \in JobRecord
  BY <1>1
<1>3. CASE IsPeriodic(job)
  <2>1. job.period \in Nat \ {0} /\ job.anchor \in Nat /\ now \in Nat
    BY <1>2, <1>3 DEF IsPeriodic, JobRecord, TypeInv, OwnersTyped
  <2>2. next \in Nat
    BY <2>1, NextAnchoredIsLater
  <2> HIDE DEF job, next
  <2>3. moved \in JobRecord
    BY <1>2, <2>2 DEF JobRecord
  <2>4. jobs' = [jobs EXCEPT ![cursor] = moved]
    BY <1>3 DEF MovesOn, job, next
  <2> HIDE DEF moved
  <2>5. jobs' \in Seq(JobRecord) /\ Len(jobs') = Len(jobs)
    BY <1>1, <2>3, <2>4
  <2> QED
    BY <1>1, <1>2, <1>3, <2>3, <2>4, <2>5 DEF job, next, moved
<1>4. CASE ~IsPeriodic(job)
  <2>1. jobs' = RemoveAt(jobs, cursor)
    BY <1>4 DEF MovesOn
  <2>2. jobs' \in Seq(JobRecord) /\ IsWithout(jobs', jobs, cursor)
    BY <1>1, <2>1, RemoveAtIsWithout
  <2> QED
    BY <1>1, <1>2, <1>4, <2>1, <2>2 DEF IsWithout
<1> QED
  BY <1>3, <1>4

\* Every step leaves the state of the mode manager with its type.
LEMMA ModeStaysTyped ==
    ASSUME TypeInv, [Next]_vars
    PROVE  ModeTyped'
<1> USE DEF TypeInv
<1>1. CASE UNCHANGED fsmVars
  BY <1>1 DEF fsmVars, ModeTyped
<1>2. CASE \E event : HandleFsmEvent(event)
  <2>1. PICK event : HandleFsmEvent(event)
    BY <1>2
  <2>2. CASE UNCHANGED fsmVars
    BY <2>2 DEF fsmVars, ModeTyped
  <2>3. CASE /\ Dispatch(event.kind.id, event.kind.delivery, event.payload.generation, evidence)
             /\ \/ published' = published
                \/ published' = [mode |-> mode', generation |-> mode_generation']
    <3>1. /\ mode' \in Modes /\ mode_generation' \in Nat \ {0}
          /\ pending_actions' \subseteq Actions
      BY <2>3, DispatchStaysTyped
    <3>2. published' \in [mode : Modes, generation : Nat]
      BY <2>3, <3>1 DEF ModeTyped
    <3> QED
      BY <3>1, <3>2 DEF ModeTyped
  <2> QED
    BY <2>1, <2>2, <2>3 DEF HandleFsmEvent
<1>3. CASE Reboot
  BY <1>3 DEF Reboot, ModeTyped, Modes, UnpublishedMode
<1>4. CASE UNCHANGED <<mode, mode_generation, published>> /\ pending_actions' \subseteq pending_actions
  BY <1>4 DEF ModeTyped
<1> QED
  BY <1>1, <1>2, <1>3, <1>4, WhoTouchesTheMode, DispatchOneEffect, EndTurnEffect

\* An acknowledgement changes flags only.
LEMMA AcknowledgedTyped ==
    ASSUME jobs \in Seq(JobRecord), NEW id, NEW generation
    PROVE  LET table == Acknowledged(jobs, id, generation)
           IN  /\ table \in Seq(JobRecord)
               /\ Len(table) = Len(jobs)
               /\ \A i \in DOMAIN jobs :
                     table[i] = IF jobs[i].id = id /\ jobs[i].generation = generation
                                THEN [jobs[i] EXCEPT !.pending = FALSE] ELSE jobs[i]
<1> DEFINE table == Acknowledged(jobs, id, generation)
           Flagged(i) == IF jobs[i].id = id /\ jobs[i].generation = generation
                         THEN [jobs[i] EXCEPT !.pending = FALSE] ELSE jobs[i]
<1>1. table = [i \in 1 .. Len(jobs) |-> Flagged(i)]
  BY DEF Acknowledged
<1>2. ASSUME NEW i \in 1 .. Len(jobs)
      PROVE  Flagged(i) \in JobRecord
  <2>1. jobs[i] \in JobRecord
    OBVIOUS
  <2> QED
    BY <2>1 DEF JobRecord
<1> HIDE DEF Flagged, table
<1>3. table \in Seq(JobRecord) /\ Len(table) = Len(jobs)
  BY <1>1, <1>2
<1>4. \A i \in DOMAIN jobs : table[i] = Flagged(i)
  BY <1>1
<1> QED
  BY <1>3, <1>4 DEF Flagged, table

\* A job that an owner adds, with an identifier that no job in the table has.
LEMMA ScheduledJob ==
    ASSUME TypeInv, ScheduleJob
    PROVE  \E job \in JobRecord :
              /\ jobs' = Append(jobs, job)
              /\ ~IsScheduled(job.id) /\ Len(jobs) < MaxJobs
              /\ job.pending = FALSE
              /\ job.generation = issued[job.id] + 1
              /\ IsPeriodic(job) => job.deadline >= job.anchor
              /\ issued' = [issued EXCEPT ![job.id] = @ + 1]
              /\ fired' = [fired EXCEPT ![job.id] = -1]
              /\ refused' = refused \ {job.id}
<1>1. PICK s \in JobSpecs :
         LET g == issued[s.id] + 1 IN
         /\ g <= MaxJobGeneration
         /\ IF s.period > 0
            THEN SchedulePeriodic(s.id, s.kind, now, s.period, s.policy, g, now)
            ELSE ScheduleOneShot(s.id, s.kind, now + 1, g)
         /\ issued' = [issued EXCEPT ![s.id] = g]
         /\ fired' = [fired EXCEPT ![s.id] = -1]
         /\ refused' = refused \ {s.id}
  BY DEF ScheduleJob
<1>2. s.id \in JobIds /\ s.kind \in JobKinds /\ s.policy \in Policies /\ s.period \in Nat
  BY SpecifiedJobs
<1> DEFINE g == issued[s.id] + 1
<1>3. g \in 1 .. MaxJobGeneration /\ now \in Nat
  BY <1>1, <1>2, LoopAssumption DEF TypeInv, OwnersTyped
<1>4. CASE s.period > 0
  <2> DEFINE next == NextAnchored(now, s.period, now)
             job == [id |-> s.id, kind |-> s.kind, policy |-> s.policy,
                     anchor |-> now, period |-> s.period, deadline |-> next,
                     generation |-> g, pending |-> FALSE]
  <2>1. next \in Nat /\ next >= now
    <3>1. s.period \in Nat \ {0} /\ now \in Nat
      BY <1>2, <1>3, <1>4
    <3> HIDE DEF next
    <3> QED
      BY ONLY <3>1, NextAnchoredIsLater DEF next
  <2>2. jobs' = Append(jobs, job) /\ HasRoom(s.id)
    BY <1>1, <1>4 DEF SchedulePeriodic
  <2> HIDE DEF next
  <2>3. job \in JobRecord
    BY <1>2, <1>3, <2>1 DEF JobRecord
  <2>4. /\ job.id = s.id /\ job.pending = FALSE /\ job.generation = g
        /\ job.deadline >= job.anchor
    BY <2>1
  <2> HIDE DEF job
  <2> QED
    BY <1>1, <2>2, <2>3, <2>4 DEF HasRoom
<1>5. CASE ~(s.period > 0)
  <2> DEFINE job == [id |-> s.id, kind |-> s.kind, policy |-> "SKIP",
                     anchor |-> now + 1, period |-> 0, deadline |-> now + 1,
                     generation |-> g, pending |-> FALSE]
  <2>1. jobs' = Append(jobs, job) /\ HasRoom(s.id)
    BY <1>1, <1>5 DEF ScheduleOneShot
  <2>2. job \in JobRecord
    BY <1>2, <1>3 DEF JobRecord, Policies
  <2>3. /\ job.id = s.id /\ job.pending = FALSE /\ job.generation = g
        /\ ~IsPeriodic(job)
    BY DEF IsPeriodic
  <2> HIDE DEF job
  <2> QED
    BY <1>1, <2>1, <2>2, <2>3 DEF HasRoom
<1> QED
  BY <1>4, <1>5

\* Who may change the table.
LEMMA TableSteps ==
    ASSUME [Next]_vars
    PROVE  \/ UNCHANGED jobs
           \/ ScanJob
           \/ DispatchOne /\ \E id, generation : jobs' = Acknowledged(jobs, id, generation)
           \/ ScheduleJob
           \/ CancelJob /\ \E i \in DOMAIN jobs : jobs' = RemoveAt(jobs, i)
           \/ Reboot
<1>1. CASE BeginTurn \/ PostDue \/ BudgetElapsed
  BY <1>1 DEF BeginTurn, PostDue, BudgetElapsed, jobVars
<1>2. CASE DispatchOne
  <2>1. PICK i \in DOMAIN buffer :
           jobs' = IF buffer[i].kind.delivery = "DEADLINE"
                   THEN Acknowledged(jobs, buffer[i].payload.correlation,
                                     buffer[i].payload.generation)
                   ELSE jobs
    BY <1>2 DEF DispatchOne
  <2> QED
    BY <1>2, <2>1
<1>3. CASE EndTurn
  BY <1>3 DEF EndTurn, jobVars
<1>4. CASE CancelJob
  BY <1>4 DEF CancelJob, Cancel
<1>5. CASE Produce \/ PublishGuards \/ Tick
  BY <1>5 DEF Produce, PublishGuards, Tick, jobVars
<1>6. CASE UNCHANGED vars
  BY <1>6 DEF vars, jobVars
<1> QED
  BY <1>1, <1>2, <1>3, <1>4, <1>5, <1>6 DEF Next, Turn

\* The two ways an iteration treats a job that is due for the table.
LEMMA ScanJobEffect ==
    ASSUME TypeInv, ScanJob
    PROVE  /\ phase = "scanning"
           /\ \/ UNCHANGED <<jobs, due, fired, refused>>
              \/ /\ MovesOn(now, FALSE)
                 /\ jobs[cursor].policy = "SKIP" /\ jobs[cursor].deadline <= now
                 /\ UNCHANGED <<due, fired, refused>>
              \/ /\ Fires(now)
                 /\ fired' = [fired EXCEPT ![jobs[cursor].id] =
                                  IF IsPeriodic(jobs[cursor]) THEN Slot(jobs[cursor]) ELSE 0]
                 /\ refused' = refused \ {jobs[cursor].id}
BY DEF ScanJob, Passes, Skips

\* Every step leaves at most SCHEDULER_MAX_JOBS well-formed jobs in the table.
LEMMA TableStaysTyped ==
    ASSUME TypeInv, [Next]_vars
    PROVE  TableTyped'
<1>0. jobs \in Seq(JobRecord) /\ Len(jobs) <= MaxJobs /\ MaxJobs \in Nat
  BY SchedulerAssumption DEF TypeInv, TableTyped
<1>1. CASE UNCHANGED jobs
  BY <1>0, <1>1 DEF TableTyped
<1>2. CASE ScanJob
  <2>1. CASE UNCHANGED jobs
    BY <1>0, <2>1 DEF TableTyped
  <2>2. CASE MovesOn(now, FALSE) \/ MovesOn(now, TRUE)
    <3>1. phase = "scanning"
      BY <1>2 DEF ScanJob
    <3>2. jobs' \in Seq(JobRecord) /\ Len(jobs') <= Len(jobs)
      BY <2>2, <3>1, MovesOnEffect
    <3> QED
      BY <1>0, <3>2 DEF TableTyped
  <2> QED
    BY <1>2, <2>1, <2>2, ScanJobEffect DEF Fires
<1>3. CASE \E id, generation : jobs' = Acknowledged(jobs, id, generation)
  BY <1>0, <1>3, AcknowledgedTyped DEF TableTyped
<1>4. CASE ScheduleJob
  <2>1. PICK job \in JobRecord : jobs' = Append(jobs, job) /\ Len(jobs) < MaxJobs
    BY <1>4, ScheduledJob
  <2> QED
    BY <1>0, <2>1 DEF TableTyped
<1>5. CASE \E i \in DOMAIN jobs : jobs' = RemoveAt(jobs, i)
  <2>1. PICK i \in 1 .. Len(jobs) : jobs' = RemoveAt(jobs, i)
    BY <1>0, <1>5
  <2>2. jobs' \in Seq(JobRecord) /\ Len(jobs') = Len(jobs) - 1
    BY <1>0, <2>1, RemoveAtIsWithout DEF IsWithout
  <2> QED
    BY <1>0, <2>2 DEF TableTyped
<1>6. CASE Reboot
  BY <1>0, <1>6 DEF Reboot, TableTyped
<1> QED
  BY <1>1, <1>2, <1>3, <1>4, <1>5, <1>6, TableSteps

\* Where an iteration leaves the loop.
LEMMA OnwardEffect ==
    ASSUME NEW table, NEW S, table \in Seq(S), NEW position \in Nat \ {0},
           NEW events, NEW T, events \in Seq(T), Onward(table, position, events)
    PROVE  /\ phase' \in {"scanning", "posting", "dispatching"}
           /\ IF phase' = "scanning"
              THEN cursor' \in DOMAIN table /\ Len(events) < MaxDueEvents
              ELSE cursor' = 0
           /\ phase' = "posting" => events # <<>>
           /\ events # <<>> => phase' \in {"scanning", "posting"}
<1>1. CASE InTable(table, position, events)
  <2>1. phase' = "scanning" /\ cursor' = position
    BY <1>1 DEF Onward
  <2>2. position <= Len(table) /\ Len(events) < MaxDueEvents
    BY <1>1 DEF InTable
  <2>3. position \in DOMAIN table
    BY <2>2
  <2> QED
    BY <2>1, <2>2, <2>3
<1>2. CASE ~InTable(table, position, events)
  BY <1>2 DEF Onward
<1> QED
  BY <1>1, <1>2

\* A job that fires adds its event to the ones to post.
LEMMA FiresEffect ==
    ASSUME TypeInv, phase = "scanning", Fires(now)
    PROVE  /\ jobs[cursor] \in JobRecord /\ cursor \in 1 .. Len(jobs)
           /\ DueEvent(jobs[cursor]) \in DueRecord
           /\ due \in Seq(DueRecord)
           /\ due' = Append(due, DueEvent(jobs[cursor]))
           /\ due' \in Seq(DueRecord)
           /\ Len(due') = Len(due) + 1
<1>1. cursor \in 1 .. Len(jobs) /\ jobs \in Seq(JobRecord) /\ due \in Seq(DueRecord)
  BY DEF TypeInv, TurnTyped, TableTyped
<1>2. jobs[cursor] \in JobRecord
  BY <1>1
<1>3. /\ jobs[cursor].id \in JobIds /\ jobs[cursor].kind \in JobKinds
      /\ jobs[cursor].generation \in 1 .. MaxJobGeneration
  BY <1>2 DEF JobRecord
<1>4. DueEvent(jobs[cursor]) \in DueRecord
  BY <1>3 DEF DueEvent, DueRecord
<1>5. due' = Append(due, DueEvent(jobs[cursor]))
  BY DEF Fires
<1> HIDE DEF DueRecord
<1> QED
  BY <1>1, <1>2, <1>4, <1>5

\* An iteration of scheduler_dispatch_due leaves the cursor inside the table that it leaves,
\* or ends the loop.
LEMMA ScanKeepsTurnTyped ==
    ASSUME TypeInv, ScanJob
    PROVE  TurnTyped'
<1>1. phase = "scanning" /\ Onward(jobs', NextPosition, due') /\ steps' = steps
  BY DEF ScanJob
<1>2. cursor \in 1 .. Len(jobs) /\ due \in Seq(DueRecord) /\ steps \in 0 .. MaxSteps
  BY <1>1 DEF TypeInv, TurnTyped, TableTyped
<1>3. NextPosition \in Nat \ {0}
  BY <1>2 DEF NextPosition
<1>4. jobs' \in Seq(JobRecord)
  <2>1. [Next]_vars
    BY DEF Next, Turn
  <2> QED
    BY <2>1, TableStaysTyped DEF TableTyped
<1>5. due' \in Seq(DueRecord)
  <2>1. CASE UNCHANGED due
    BY <1>2, <2>1
  <2>2. CASE Fires(now)
    BY <1>1, <2>2, FiresEffect
  <2> QED
    BY <2>1, <2>2, ScanJobEffect
<1> HIDE DEF NextPosition
<1>6. /\ phase' \in {"scanning", "posting", "dispatching"}
      /\ IF phase' = "scanning"
         THEN cursor' \in DOMAIN jobs' /\ Len(due') < MaxDueEvents
         ELSE cursor' = 0
      /\ phase' = "posting" => due' # <<>>
      /\ due' # <<>> => phase' \in {"scanning", "posting"}
  BY <1>1, <1>3, <1>4, <1>5, OnwardEffect
<1> QED
  BY <1>1, <1>2, <1>5, <1>6 DEF TurnTyped

\* Every step leaves phase, steps, cursor and due events in agreement.
LEMMA TurnStaysTyped ==
    ASSUME TypeInv, [Next]_vars
    PROVE  TurnTyped'
<1> USE DEF TypeInv
<1>1. CASE BeginTurn
  <2>1. due = <<>> /\ due \in Seq(DueRecord) /\ jobs \in Seq(JobRecord)
    BY <1>1 DEF BeginTurn, TurnTyped, TableTyped
  <2>2. Onward(jobs, 1, due) /\ UNCHANGED <<jobs, due>> /\ steps' = 0
    BY <1>1, <2>1 DEF BeginTurn, jobVars
  <2>3. /\ phase' \in {"scanning", "posting", "dispatching"}
        /\ IF phase' = "scanning"
           THEN cursor' \in DOMAIN jobs /\ Len(due) < MaxDueEvents
           ELSE cursor' = 0
        /\ phase' = "posting" => due # <<>>
        /\ due # <<>> => phase' \in {"scanning", "posting"}
    <3>1. 1 \in Nat \ {0}
      OBVIOUS
    <3> QED
      BY ONLY <2>1, <2>2, <3>1, OnwardEffect
  <2>4. steps' \in 0 .. MaxSteps /\ due' \in Seq(DueRecord) /\ due' = <<>>
    BY <2>1, <2>2, LoopAssumption
  <2>5. IF phase' = "scanning"
        THEN cursor' \in DOMAIN jobs' /\ Len(due') < MaxDueEvents
        ELSE cursor' = 0
    BY <2>2, <2>3
  <2> QED
    BY <2>1, <2>3, <2>4, <2>5 DEF TurnTyped
<1>2. CASE PostDue
  <2>1. /\ phase = "posting" /\ due # <<>> /\ due \in Seq(DueRecord)
        /\ cursor = 0 /\ steps \in 0 .. MaxSteps
    BY <1>2 DEF PostDue, TurnTyped
  <2>2. due' = Tail(due) /\ UNCHANGED <<cursor, steps>>
    BY <1>2 DEF PostDue
  <2>3. phase' = IF Len(due) = 1 THEN "dispatching" ELSE "posting"
    BY <1>2 DEF PostDue
  <2>4. due' \in Seq(DueRecord) /\ Len(due') = Len(due) - 1 /\ Len(due) \in Nat \ {0}
    BY <2>1, <2>2
  <2>5. due' = <<>> <=> Len(due) = 1
    <3>1. due' = <<>> <=> Len(due') = 0
      BY ONLY <2>4, EmptyWhenShort
    <3> QED
      BY <2>4, <3>1
  <2> QED
    BY <2>1, <2>2, <2>3, <2>4, <2>5 DEF TurnTyped
<1>3. CASE DispatchOne
  <2>1. phase = "dispatching" /\ UNCHANGED <<phase, cursor, due>> /\ steps' = steps + 1
    BY <1>3 DEF DispatchOne
  <2>2. steps < MaxSteps
    BY <1>3 DEF DispatchOne, CanDispatch
  <2> QED
    BY <2>1, <2>2, LoopAssumption DEF TurnTyped
<1>4. CASE Reboot
  BY <1>4, LoopAssumption DEF Reboot, TurnTyped
<1>5. CASE EndTurn /\ ~Reboot
  <2>1. phase = "dispatching" /\ phase' = "between" /\ UNCHANGED <<steps, cursor, due>>
    BY <1>5 DEF EndTurn
  <2> QED
    BY <2>1 DEF TurnTyped
<1>6. CASE BudgetElapsed
  <2>1. phase = "dispatching" /\ phase' = "between" /\ UNCHANGED <<steps, cursor, due>>
    BY <1>6 DEF BudgetElapsed
  <2> QED
    BY <2>1 DEF TurnTyped
<1>7. CASE ScheduleJob \/ CancelJob
  <2>1. UNCHANGED <<phase, steps, cursor, due>> /\ phase # "scanning"
    BY <1>7 DEF ScheduleJob, CancelJob, InHandler, turnVars
  <2> QED
    BY <2>1 DEF TurnTyped
<1>8. CASE Produce \/ PublishGuards \/ Tick \/ UNCHANGED vars
  <2>1. UNCHANGED <<phase, steps, cursor, due, jobs>>
    BY <1>8 DEF Produce, PublishGuards, Tick, vars, turnVars, jobVars
  <2> QED
    BY <2>1 DEF TurnTyped
<1> QED
  BY <1>1, <1>2, <1>3, <1>4, <1>5, <1>6, <1>7, <1>8, ScanKeepsTurnTyped DEF Next, Turn

\* The slot of a periodic job that is due.
LEMMA SlotTyped ==
    ASSUME NEW job \in JobRecord, IsPeriodic(job), now \in Nat
    PROVE  Slot(job) \in Int
<1>1. now - job.anchor \in Int /\ job.period \in Nat \ {0}
  BY DEF JobRecord, IsPeriodic
<1> QED
  BY <1>1 DEF Slot

\* Every step leaves what the owners know of their jobs with its type.
LEMMA OwnersStayTyped ==
    ASSUME TypeInv, [Next]_vars
    PROVE  OwnersTyped'
<1>0. OwnersTyped
  BY DEF TypeInv
<1>1. CASE ScanJob
  <2>1. UNCHANGED <<issued, now>>
    BY <1>1 DEF ScanJob
  <2>2. CASE UNCHANGED <<fired, refused>>
    BY <1>0, <2>1, <2>2 DEF OwnersTyped
  <2>3. CASE Fires(now) /\ ~UNCHANGED <<fired, refused>>
    <3>1. jobs[cursor] \in JobRecord
      BY <1>1, <2>3, ScanJobEffect, FiresEffect
    <3>2. /\ fired' = [fired EXCEPT ![jobs[cursor].id] =
                           IF IsPeriodic(jobs[cursor]) THEN Slot(jobs[cursor]) ELSE 0]
          /\ refused' = refused \ {jobs[cursor].id}
      BY <1>1, <2>3, ScanJobEffect
    <3>3. (IF IsPeriodic(jobs[cursor]) THEN Slot(jobs[cursor]) ELSE 0) \in Int
      BY <1>0, <3>1, SlotTyped DEF OwnersTyped
    <3> QED
      BY <1>0, <2>1, <3>2, <3>3 DEF OwnersTyped
  <2> QED
    BY <1>1, <2>2, <2>3, ScanJobEffect
<1>2. CASE PostDue
  <2>1. due # <<>> /\ due \in Seq(DueRecord)
    BY <1>2 DEF PostDue, TypeInv, TurnTyped
  <2>2. Head(due) \in DueRecord
    BY <2>1
  <2>3. Head(due).payload.correlation \in JobIds
    BY <2>2, DueRecordsAreEvents
  <2>4. refused' \subseteq refused \cup {Head(due).payload.correlation}
    BY <1>2 DEF PostDue
  <2>5. UNCHANGED <<issued, fired, now>>
    BY <1>2 DEF PostDue, jobVars
  <2> QED
    BY <1>0, <2>3, <2>4, <2>5 DEF OwnersTyped
<1>3. CASE ScheduleJob
  <2>1. PICK job \in JobRecord :
           /\ issued' = [issued EXCEPT ![job.id] = @ + 1]
           /\ fired' = [fired EXCEPT ![job.id] = -1]
           /\ refused' = refused \ {job.id}
    BY <1>3, ScheduledJob
  <2>2. now' = now
    BY <1>3 DEF ScheduleJob
  <2>3. job.id \in JobIds
    BY DEF JobRecord
  <2> QED
    BY <1>0, <2>1, <2>2, <2>3 DEF OwnersTyped
<1>4. CASE Reboot
  BY <1>4 DEF Reboot, OwnersTyped
<1>5. CASE Tick
  BY <1>0, <1>5 DEF Tick, OwnersTyped, jobVars
<1>6. CASE UNCHANGED <<issued, fired, now, refused>>
  BY <1>0, <1>6 DEF OwnersTyped
<1>7. CASE BeginTurn \/ DispatchOne \/ EndTurn \/ BudgetElapsed
  BY <1>4, <1>6, <1>7 DEF BeginTurn, DispatchOne, EndTurn, BudgetElapsed, jobVars
<1>8. CASE Produce \/ CancelJob \/ PublishGuards \/ UNCHANGED vars
  BY <1>6, <1>8 DEF Produce, CancelJob, PublishGuards, vars, jobVars
<1> QED
  BY <1>1, <1>2, <1>3, <1>5, <1>7, <1>8 DEF Next, Turn

\* The type invariant is inductive.
LEMMA TypeInvKept == TypeInv /\ [Next]_vars => TypeInv'
BY QueueStaysTyped, TableStaysTyped, TurnStaysTyped, ModeStaysTyped, OwnersStayTyped
   DEF TypeInv

\* The table never holds more than SCHEDULER_MAX_JOBS jobs, the loop of
\* scheduler_dispatch_due never leaves it although entries are removed under it, and
\* a turn never counts more steps than its budget.
THEOREM TypeCorrect == Spec => []TypeOK
<1>1. Spec => []TypeInv
  BY InitTyped, TypeInvKept, PTL DEF Spec
<1> QED
  BY <1>1, TypeInvIsTypeOK, PTL

-----------------------------------------------------------------------------
(* The grid.                                                               *)

\* No identifier is in the table twice.
DistinctIds == \A i, j \in DOMAIN jobs : jobs[i].id = jobs[j].id => i = j

\* The next deadline of a periodic job lies beyond the slot in which it fired last.
DeadlineAfterFiring(job) ==
    IsPeriodic(job) =>
        /\ job.deadline >= job.anchor
        /\ job.deadline >= job.anchor + (fired[job.id] + 1) * job.period

GridInv ==
    /\ TypeInv
    /\ DistinctIds
    /\ \A i \in DOMAIN jobs : DeadlineAfterFiring(jobs[i])

\* Removing a job leaves one job for each id, and the others as they were.
LEMMA RemovalKeepsDistinct ==
    ASSUME TypeInv, DistinctIds, NEW i \in 1 .. Len(jobs), jobs' \in Seq(JobRecord),
           IsWithout(jobs', jobs, i)
    PROVE  /\ DistinctIds'
           /\ \A k \in DOMAIN jobs' : \E j \in DOMAIN jobs :
                 j # i /\ jobs'[k] = jobs[j]
<1>1. jobs \in Seq(JobRecord)
  BY DEF TypeInv, TableTyped
<1> DEFINE Origin(k) == IF k < i THEN k ELSE k + 1
<1>2. DOMAIN jobs' = 1 .. (Len(jobs) - 1) /\ DOMAIN jobs = 1 .. Len(jobs) /\ Len(jobs) \in Nat
  BY <1>1 DEF IsWithout
<1>3. \A k \in 1 .. (Len(jobs) - 1) :
         Origin(k) \in DOMAIN jobs /\ Origin(k) # i /\ jobs'[k] = jobs[Origin(k)]
  BY <1>2 DEF IsWithout
<1>4. \A k, l \in 1 .. (Len(jobs) - 1) : Origin(k) = Origin(l) => k = l
  BY <1>2
<1> HIDE DEF Origin
<1>5. ASSUME NEW k \in DOMAIN jobs', NEW l \in DOMAIN jobs', jobs'[k].id = jobs'[l].id
      PROVE  k = l
  <2>1. /\ k \in 1 .. (Len(jobs) - 1) /\ Origin(k) \in DOMAIN jobs /\ jobs'[k] = jobs[Origin(k)]
        /\ l \in 1 .. (Len(jobs) - 1) /\ Origin(l) \in DOMAIN jobs /\ jobs'[l] = jobs[Origin(l)]
    BY <1>2, <1>3
  <2>2. Origin(k) = Origin(l)
    BY <1>5, <2>1 DEF DistinctIds
  <2> QED
    BY <1>4, <2>1, <2>2
<1>6. DistinctIds'
  BY <1>5 DEF DistinctIds
<1> QED
  BY <1>2, <1>3, <1>6

\* A job stays on its grid when it moves on: with an unchanged last slot when its
\* deadline is dropped, and with the slot of now when it fires.
LEMMA MovedJobOnGrid ==
    ASSUME NEW job \in JobRecord, IsPeriodic(job), now \in Nat, job.deadline <= now,
           job.deadline >= job.anchor,
           NEW f \in Int, job.deadline >= job.anchor + (f + 1) * job.period
    PROVE  LET next == NextAnchored(job.anchor, job.period, now)
           IN  /\ f < Slot(job) /\ Slot(job) \in Nat
               /\ next >= job.anchor
               /\ next >= job.anchor + (f + 1) * job.period
               /\ next = job.anchor + (Slot(job) + 1) * job.period
<1> DEFINE anchor == job.anchor
           period == job.period
           next == NextAnchored(anchor, period, now)
           q == (now - anchor) \div period
<1>1. anchor \in Nat /\ period \in Nat \ {0} /\ job.deadline \in Nat
  BY DEF JobRecord, IsPeriodic
<1>2. anchor <= now
  BY <1>1
<1>3. anchor + (f + 1) * period <= now
  <2>1. (f + 1) * period \in Int
    BY <1>1
  <2> QED
    BY <1>1, <2>1
<1>4. next = anchor + (q + 1) * period
  BY <1>1, <1>2 DEF NextAnchored
<1>5. Slot(job) = q
  BY DEF Slot
<1> HIDE DEF anchor, period, next, q
<1>6. q \in Nat /\ \A k \in Int : anchor + k * period <= now => k <= q
  BY ONLY <1>1, <1>2, now \in Nat, GridOfPeriods DEF q
<1>7. f < q
  <2>1. f + 1 <= q
    BY <1>3, <1>6
  <2> QED
    BY <1>6, <2>1
<1>8. next \in Nat /\ next > now /\ next >= anchor
  BY ONLY <1>1, now \in Nat, NextAnchoredIsLater DEF next
<1>9. next >= anchor + (f + 1) * period
  <2>1. (f + 1) * period \in Int
    BY <1>1
  <2> QED
    BY <1>1, <1>3, <1>8, <2>1
<1> QED
  BY <1>4, <1>5, <1>6, <1>7, <1>8, <1>9 DEF anchor, period, next

\* Who may change the slot in which a job fired last.
LEMMA FiredSteps ==
    ASSUME [Next]_vars
    PROVE  fired' = fired \/ ScanJob \/ ScheduleJob \/ Reboot
<1>1. CASE BeginTurn \/ PostDue \/ DispatchOne \/ EndTurn \/ BudgetElapsed
  BY <1>1 DEF BeginTurn, PostDue, DispatchOne, EndTurn, BudgetElapsed, jobVars
<1>2. CASE Produce \/ CancelJob \/ PublishGuards \/ Tick
  BY <1>2 DEF Produce, CancelJob, PublishGuards, Tick, jobVars
<1>3. CASE UNCHANGED vars
  BY <1>3 DEF vars, jobVars
<1> QED
  BY <1>1, <1>2, <1>3 DEF Next, Turn

\* A job that fires or skips moves on, past the slot in which it fired.
LEMMA ScanKeepsGrid ==
    ASSUME GridInv, ScanJob
    PROVE  DistinctIds' /\ \A i \in DOMAIN jobs' : DeadlineAfterFiring(jobs[i])'
<1> DEFINE job == jobs[cursor]
           next == NextAnchored(job.anchor, job.period, now)
<1>0. /\ TypeInv /\ DistinctIds /\ phase = "scanning"
      /\ \A i \in DOMAIN jobs : DeadlineAfterFiring(jobs[i])
      /\ cursor \in 1 .. Len(jobs) /\ jobs \in Seq(JobRecord) /\ now \in Nat
      /\ fired \in [JobIds -> Int]
  BY DEF GridInv, ScanJob, TypeInv, TurnTyped, TableTyped, OwnersTyped
<1>1. job \in JobRecord /\ job.id \in JobIds
  <2>1. job \in JobRecord
    BY ONLY <1>0
  <2> QED
    BY ONLY <2>1 DEF JobRecord
<1>2. CASE UNCHANGED <<jobs, fired>>
  <2>1. DistinctIds'
    BY <1>0, <1>2 DEF DistinctIds
  <2>2. \A i \in DOMAIN jobs' : DeadlineAfterFiring(jobs[i])'
    BY <1>0, <1>2 DEF DeadlineAfterFiring, IsPeriodic
  <2> QED
    BY <2>1, <2>2
<1>3. ASSUME NEW pending \in BOOLEAN, MovesOn(now, pending), job.deadline <= now,
             NEW slot, IsPeriodic(job) => slot \in {fired[job.id], Slot(job)},
             fired' = [fired EXCEPT ![job.id] = slot]
      PROVE  DistinctIds' /\ \A i \in DOMAIN jobs' : DeadlineAfterFiring(jobs[i])'
  <2>1. ASSUME NEW j \in DOMAIN jobs, j # cursor
        PROVE  fired'[jobs[j].id] = fired[jobs[j].id] /\ DeadlineAfterFiring(jobs[j])
    <3>0. jobs[j] \in JobRecord /\ cursor \in DOMAIN jobs
      BY ONLY <1>0, j \in DOMAIN jobs
    <3>1. jobs[j].id # job.id /\ jobs[j].id \in JobIds
      BY ONLY <1>0, <2>1, <3>0 DEF DistinctIds, JobRecord
    <3>2. fired'[jobs[j].id] = fired[jobs[j].id]
      BY <1>0, <1>3, <3>1
    <3> QED
      BY <1>0, <3>2
  <2>2. CASE IsPeriodic(job)
    <3> DEFINE moved == [job EXCEPT !.deadline = next, !.pending = pending]
    <3>1. jobs' = [jobs EXCEPT ![cursor] = moved] /\ moved \in JobRecord
      BY <1>0, <1>3, <2>2, MovesOnEffect
    <3>2. /\ moved.id = job.id /\ moved.anchor = job.anchor /\ moved.period = job.period
          /\ moved.deadline = next
      BY <1>1 DEF JobRecord
    <3>3. /\ next >= job.anchor
          /\ next >= job.anchor + (fired[job.id] + 1) * job.period
          /\ next = job.anchor + (Slot(job) + 1) * job.period
          /\ next \in Nat
      <4>1. job.deadline >= job.anchor
        BY <1>0, <2>2 DEF DeadlineAfterFiring
      <4>2. job.deadline >= job.anchor + (fired[job.id] + 1) * job.period
        BY <1>0, <2>2 DEF DeadlineAfterFiring
      <4>3. fired[job.id] \in Int
        BY <1>0, <1>1
      <4>4. next \in Nat
        <5>1. moved.deadline \in Nat
          BY <3>1 DEF JobRecord
        <5> QED
          BY <3>2, <5>1
      <4> HIDE DEF job
      <4> QED
        BY <1>0, <1>1, <1>3, <2>2, <4>1, <4>2, <4>3, <4>4, MovedJobOnGrid
    <3>4. fired'[job.id] = slot
      BY <1>0, <1>1, <1>3
    <3> HIDE DEF job, next, moved
    <3>5. next >= job.anchor + (fired'[job.id] + 1) * job.period
      BY <1>3, <2>2, <3>3, <3>4
    <3>6. \A i \in DOMAIN jobs' :
             jobs'[i] = IF i = cursor THEN moved ELSE jobs[i]
      BY <1>0, <3>1
    <3>7. DOMAIN jobs' = DOMAIN jobs
      BY <1>0, <3>1
    <3>8. DistinctIds'
      <4>1. \A i \in DOMAIN jobs : jobs'[i].id = jobs[i].id
        BY <3>2, <3>6, <3>7 DEF job
      <4> QED
        BY <1>0, <3>7, <4>1 DEF DistinctIds
    <3>9. ASSUME NEW i \in DOMAIN jobs'
          PROVE  DeadlineAfterFiring(jobs[i])'
      <4>1. CASE i = cursor
        BY <3>2, <3>3, <3>5, <3>6, <4>1 DEF DeadlineAfterFiring
      <4>2. CASE i # cursor
        BY <2>1, <3>6, <3>7, <4>2 DEF DeadlineAfterFiring, IsPeriodic
      <4> QED
        BY <4>1, <4>2
    <3> QED
      BY <3>8, <3>9
  <2>3. CASE ~IsPeriodic(job)
    <3>1. jobs' \in Seq(JobRecord) /\ IsWithout(jobs', jobs, cursor)
      BY <1>0, <1>3, <2>3, MovesOnEffect
    <3>2. DistinctIds' /\ \A k \in DOMAIN jobs' : \E j \in DOMAIN jobs :
                             j # cursor /\ jobs'[k] = jobs[j]
      BY <1>0, <3>1, RemovalKeepsDistinct
    <3> QED
      BY <2>1, <3>2 DEF DeadlineAfterFiring, IsPeriodic
  <2> QED
    BY <2>2, <2>3
<1>4. CASE MovesOn(now, FALSE) /\ job.deadline <= now /\ fired' = fired
  <2>1. fired' = [fired EXCEPT ![job.id] = fired[job.id]]
    BY <1>0, <1>1, <1>4
  <2> HIDE DEF job
  <2> QED
    BY <1>3, <1>4, <2>1
<1>5. CASE /\ Fires(now)
           /\ fired' = [fired EXCEPT ![job.id] = IF IsPeriodic(job) THEN Slot(job) ELSE 0]
  <2>1. MovesOn(now, TRUE) /\ job.deadline <= now
    BY <1>5 DEF Fires
  <2> HIDE DEF job
  <2> QED
    BY <1>3, <1>5, <2>1
<1> QED
  BY <1>0, <1>2, <1>4, <1>5, ScanJobEffect

\* The grid invariant is inductive.
LEMMA GridKept == GridInv /\ [Next]_vars => GridInv'
<1> SUFFICES ASSUME GridInv, [Next]_vars
             PROVE  DistinctIds' /\ \A i \in DOMAIN jobs' : DeadlineAfterFiring(jobs[i])'
  BY TypeInvKept DEF GridInv
<1>0. /\ TypeInv /\ DistinctIds
      /\ \A i \in DOMAIN jobs : DeadlineAfterFiring(jobs[i])
      /\ jobs \in Seq(JobRecord) /\ fired \in [JobIds -> Int]
  BY DEF GridInv, TypeInv, TableTyped, OwnersTyped
<1>1. CASE UNCHANGED <<jobs, fired>>
  <2>1. DistinctIds'
    BY <1>0, <1>1 DEF DistinctIds
  <2>2. \A i \in DOMAIN jobs' : DeadlineAfterFiring(jobs[i])'
    BY <1>0, <1>1 DEF DeadlineAfterFiring, IsPeriodic
  <2> QED
    BY <2>1, <2>2
<1>2. CASE ScanJob
  BY <1>2, ScanKeepsGrid
<1>3. CASE DispatchOne /\ \E id, generation : jobs' = Acknowledged(jobs, id, generation)
  <2>1. PICK id, generation : jobs' = Acknowledged(jobs, id, generation)
    BY <1>3
  <2>2. DOMAIN jobs' = DOMAIN jobs /\ fired' = fired
    BY <1>3, <2>1 DEF Acknowledged, DispatchOne
  <2>3. ASSUME NEW i \in DOMAIN jobs
        PROVE  /\ jobs'[i].id = jobs[i].id /\ jobs'[i].anchor = jobs[i].anchor
               /\ jobs'[i].period = jobs[i].period /\ jobs'[i].deadline = jobs[i].deadline
    <3>1. jobs[i] \in JobRecord
      BY ONLY <1>0, i \in DOMAIN jobs
    <3>2. jobs'[i] = IF jobs[i].id = id /\ jobs[i].generation = generation
                     THEN [jobs[i] EXCEPT !.pending = FALSE] ELSE jobs[i]
      BY <1>0, <2>1, AcknowledgedTyped
    <3> QED
      BY ONLY <3>1, <3>2 DEF JobRecord
  <2>4. DistinctIds'
    BY <1>0, <2>2, <2>3 DEF DistinctIds
  <2>5. \A i \in DOMAIN jobs' : DeadlineAfterFiring(jobs[i])'
    BY <1>0, <2>2, <2>3 DEF DeadlineAfterFiring, IsPeriodic
  <2> QED
    BY <2>4, <2>5
<1>4. CASE ScheduleJob
  <2>1. PICK job \in JobRecord :
           /\ jobs' = Append(jobs, job) /\ ~IsScheduled(job.id)
           /\ IsPeriodic(job) => job.deadline >= job.anchor
           /\ fired' = [fired EXCEPT ![job.id] = -1]
    BY <1>0, <1>4, ScheduledJob
  <2>2. /\ DOMAIN jobs' = 1 .. (Len(jobs) + 1) /\ DOMAIN jobs = 1 .. Len(jobs)
        /\ Len(jobs) \in Nat
        /\ jobs'[Len(jobs) + 1] = job
        /\ \A i \in 1 .. Len(jobs) : jobs'[i] = jobs[i]
    BY ONLY <1>0, <2>1
  <2>3. \A i \in 1 .. Len(jobs) : jobs[i].id # job.id
    BY <2>1, <2>2 DEF IsScheduled
  <2>4. DistinctIds'
    BY <1>0, <2>2, <2>3 DEF DistinctIds
  <2>5. ASSUME NEW i \in 1 .. Len(jobs)
        PROVE  DeadlineAfterFiring(jobs[i])'
    <3>1. jobs[i] \in JobRecord
      BY ONLY <1>0, i \in 1 .. Len(jobs)
    <3>2. fired'[jobs[i].id] = fired[jobs[i].id]
      BY ONLY <1>0, <2>1, <2>3, <3>1, i \in 1 .. Len(jobs) DEF JobRecord
    <3> QED
      BY <1>0, <2>2, <3>2 DEF DeadlineAfterFiring, IsPeriodic
  <2>6. ASSUME NEW i \in DOMAIN jobs', i = Len(jobs) + 1
        PROVE  DeadlineAfterFiring(jobs[i])'
    <3>1. job.id \in JobIds /\ job.anchor \in Nat /\ job.period \in Nat
      BY ONLY job \in JobRecord DEF JobRecord
    <3>2. fired'[job.id] = -1
      BY ONLY <1>0, <2>1, <3>1
    <3>3. job.anchor + (fired'[job.id] + 1) * job.period = job.anchor
      BY ONLY <3>1, <3>2
    <3>4. jobs'[i] = job
      BY <2>2, <2>6
    <3> QED
      BY <2>1, <3>3, <3>4 DEF DeadlineAfterFiring, IsPeriodic
  <2>7. \A i \in DOMAIN jobs' : DeadlineAfterFiring(jobs[i])'
    BY <2>2, <2>5, <2>6
  <2> QED
    BY <2>4, <2>7
<1>5. CASE CancelJob /\ \E i \in DOMAIN jobs : jobs' = RemoveAt(jobs, i)
  <2>1. PICK i \in 1 .. Len(jobs) : jobs' = RemoveAt(jobs, i)
    BY <1>0, <1>5
  <2>2. jobs' \in Seq(JobRecord) /\ IsWithout(jobs', jobs, i)
    BY ONLY <1>0, <2>1, RemoveAtIsWithout
  <2>3. DistinctIds' /\ \A k \in DOMAIN jobs' : \E j \in DOMAIN jobs : jobs'[k] = jobs[j]
    BY <1>0, <2>2, RemovalKeepsDistinct
  <2>4. fired' = fired
    BY <1>5 DEF CancelJob
  <2> QED
    BY <1>0, <2>3, <2>4 DEF DeadlineAfterFiring, IsPeriodic
<1>6. CASE Reboot
  BY <1>6 DEF Reboot, DistinctIds
<1>7. CASE UNCHANGED jobs /\ ~ScanJob /\ ~ScheduleJob /\ ~Reboot
  BY <1>1, <1>7, FiredSteps
<1> QED
  BY <1>2, <1>3, <1>4, <1>5, <1>6, <1>7, TableSteps

\* An empty table is on its grid.
LEMMA InitOnGrid == Init => GridInv
<1> SUFFICES ASSUME Init PROVE GridInv
  OBVIOUS
<1>1. jobs = <<>>
  BY DEF Init, SchedulerInit
<1> QED
  BY <1>1, InitTyped DEF GridInv, DistinctIds

\* Only a job that fires makes the list of due events longer.
LEMMA DueGrowsByFiring ==
    ASSUME TypeInv, [Next]_vars, Len(due') > Len(due)
    PROVE  ScanJob /\ Fires(now)
<1>0. due \in Seq(DueRecord) /\ Len(due) \in Nat
  BY DEF TypeInv, TurnTyped
<1>1. due' # due
  BY <1>0
<1>2. CASE ScanJob
  BY <1>1, <1>2, ScanJobEffect
<1>3. CASE PostDue
  <2>1. due # <<>> /\ due' = Tail(due)
    BY <1>3 DEF PostDue, TypeInv, TurnTyped
  <2>2. Len(due') = Len(due) - 1
    BY ONLY <1>0, <2>1
  <2> QED
    BY ONLY <1>0, <2>2, Len(due') > Len(due)
<1>4. CASE Reboot
  <2>1. Len(due') = 0
    BY <1>4 DEF Reboot
  <2> QED
    BY ONLY <1>0, <2>1, Len(due') > Len(due)
<1>5. CASE BeginTurn \/ DispatchOne \/ (EndTurn /\ ~Reboot) \/ BudgetElapsed
  BY <1>1, <1>5 DEF BeginTurn, DispatchOne, EndTurn, BudgetElapsed
<1>6. CASE Produce \/ ScheduleJob \/ CancelJob \/ PublishGuards \/ Tick \/ UNCHANGED vars
  BY <1>1, <1>6 DEF Produce, ScheduleJob, CancelJob, PublishGuards, Tick, vars, turnVars
<1> QED
  BY <1>2, <1>3, <1>4, <1>5, <1>6 DEF Next, Turn

\* However late a turn comes, however often an owner cancels and schedules a job again and
\* whatever the queue refuses: a periodic job fires at most once in each period of its grid.
THEOREM NoBurst == Spec => NoCatchUpBurst
<1>1. Spec => []GridInv
  BY InitOnGrid, GridKept, PTL DEF Spec
<1>2. GridInv /\ [Next]_vars =>
        [/\ Len(due') > Len(due)
         /\ IsPeriodic(jobs[cursor])
         => fired[jobs[cursor].id] < Slot(jobs[cursor])]_vars
  <2> SUFFICES ASSUME GridInv, [Next]_vars, Len(due') > Len(due), IsPeriodic(jobs[cursor])
               PROVE  fired[jobs[cursor].id] < Slot(jobs[cursor])
    OBVIOUS
  <2> DEFINE job == jobs[cursor]
  <2>1. TypeInv /\ ScanJob /\ Fires(now)
    BY DueGrowsByFiring DEF GridInv
  <2>2. job \in JobRecord /\ cursor \in 1 .. Len(jobs)
    BY <2>1, FiresEffect DEF ScanJob
  <2>3. job.deadline <= now
    BY <2>1 DEF Fires
  <2>4. DeadlineAfterFiring(job)
    <3>1. jobs \in Seq(JobRecord)
      BY <2>1 DEF TypeInv, TableTyped
    <3> QED
      BY <2>2, <3>1 DEF GridInv
  <2>5. now \in Nat /\ fired[job.id] \in Int
    BY <2>1, <2>2 DEF TypeInv, OwnersTyped, JobRecord
  <2>6. IsPeriodic(job)
    OBVIOUS
  <2> HIDE DEF job
  <2>7. fired[job.id] < Slot(job)
    BY <2>2, <2>3, <2>4, <2>5, <2>6, MovedJobOnGrid DEF DeadlineAfterFiring
  <2> QED
    BY <2>7 DEF job
<1> QED
  BY <1>1, <1>2, PTL DEF Spec, NoCatchUpBurst

-----------------------------------------------------------------------------
(* Pending flags and outstanding events.                                   *)

\* A job carries the generation that its owner gave last; so does an event that the loop
\* has yet to post, while events in the queue may be older.
JobsAreCurrent == \A i \in DOMAIN jobs : jobs[i].generation = issued[jobs[i].id]

DueAreCurrent ==
    \A i \in DOMAIN due : due[i].payload.generation = issued[due[i].payload.correlation]

QueuedWereIssued ==
    \A i \in DOMAIN buffer :
        buffer[i].kind.delivery = "DEADLINE" =>
            /\ buffer[i].payload.correlation \in JobIds
            /\ buffer[i].payload.generation <= issued[buffer[i].payload.correlation]

\* PendingMatchesOutstanding, of one job.
JobMatches(job) ==
    job.policy # "SKIP" =>
        DueCount(job.id, job.generation) =
            IF job.pending /\ job.id \notin refused THEN 1 ELSE 0

EventsInv ==
    /\ JobsAreCurrent
    /\ DueAreCurrent
    /\ QueuedWereIssued

PendingInv == GridInv /\ EventsInv /\ \A i \in DOMAIN jobs : JobMatches(jobs[i])

\* Due events are deadline events.
LEMMA DueRecordsAreDeadlines ==
    ASSUME NEW e \in DueRecord
    PROVE  e.kind.delivery = "DEADLINE"
BY CatalogueAssumption DEF DueRecord, JobKinds

\* An event of the modes does not touch the events of jobs.
LEMMA PostOfOthers ==
    ASSUME TypeInv, NEW event \in QueuedEvent, event.kind.delivery # "DEADLINE",
           Queue!Post(event)
    PROVE  /\ QueuedWereIssued /\ UNCHANGED issued => QueuedWereIssued'
           /\ \A id, g : EventCount(buffer', id, g) = EventCount(buffer, id, g)
<1>0. buffer \in Seq(QueuedEvent)
  BY DEF TypeInv
<1>1. CASE buffer' = buffer
  BY <1>1 DEF QueuedWereIssued
<1>2. CASE buffer' = Append(buffer, event)
  <2>1. ASSUME NEW id, NEW g
        PROVE  EventCount(buffer', id, g) = EventCount(buffer, id, g)
    <3>1. EventCount(Append(buffer, event), id, g) =
             IF /\ event.kind.delivery = "DEADLINE"
                /\ event.payload = [correlation |-> id, generation |-> g]
             THEN EventCount(buffer, id, g) + 1 ELSE EventCount(buffer, id, g)
      BY ONLY <1>0, event \in QueuedEvent, CountWhenAppended
    <3> QED
      BY ONLY <1>2, <3>1, event.kind.delivery # "DEADLINE"
  <2>2. /\ DOMAIN buffer' = 1 .. (Len(buffer) + 1) /\ DOMAIN buffer = 1 .. Len(buffer)
        /\ buffer'[Len(buffer) + 1] = event
        /\ \A i \in 1 .. Len(buffer) : buffer'[i] = buffer[i]
        /\ Len(buffer) \in Nat
    BY ONLY <1>0, <1>2, event \in QueuedEvent
  <2> QED
    BY <2>1, <2>2 DEF QueuedWereIssued
<1>3. CASE /\ event.kind.delivery = "LEVEL"
           /\ \E i \in DOMAIN buffer :
                 /\ buffer[i].kind.delivery = "LEVEL"
                 /\ buffer' = [buffer EXCEPT ![i] = event]
  <2>1. PICK i \in DOMAIN buffer :
           buffer[i].kind.delivery = "LEVEL" /\ buffer' = [buffer EXCEPT ![i] = event]
    BY <1>3
  <2>2. /\ DOMAIN buffer' = DOMAIN buffer
        /\ \A j \in DOMAIN buffer : buffer'[j] = IF j = i THEN event ELSE buffer[j]
    BY ONLY <1>0, <2>1
  <2>3. ASSUME NEW id, NEW g
        PROVE  EventsOf(buffer', id, g) = EventsOf(buffer, id, g)
    BY <2>1, <2>2 DEF EventsOf
  <2> QED
    BY <2>1, <2>2, <2>3 DEF QueuedWereIssued, EventCount
<1> QED
  BY <1>1, <1>2, <1>3, PostEffect

\* Who may change what the generations of jobs are compared with.
LEMMA IssuedSteps ==
    ASSUME [Next]_vars
    PROVE  issued' = issued \/ ScheduleJob \/ Reboot
<1>1. CASE BeginTurn \/ ScanJob \/ PostDue \/ DispatchOne \/ EndTurn \/ BudgetElapsed
  BY <1>1 DEF BeginTurn, ScanJob, PostDue, DispatchOne, EndTurn, BudgetElapsed, jobVars
<1>2. CASE Produce \/ CancelJob \/ PublishGuards \/ Tick
  BY <1>2 DEF Produce, CancelJob, PublishGuards, Tick, jobVars
<1>3. CASE UNCHANGED vars
  BY <1>3 DEF vars, jobVars
<1> QED
  BY <1>1, <1>2, <1>3 DEF Next, Turn

\* The steps that leave jobs and their events alone.
LEMMA QuietSteps ==
    ASSUME [Next]_vars
    PROVE  \/ UNCHANGED <<jobs, due, buffer, issued, refused>>
           \/ ScanJob \/ PostDue \/ DispatchOne \/ Reboot
           \/ Produce \/ ScheduleJob \/ CancelJob
<1>1. CASE BeginTurn \/ EndTurn \/ BudgetElapsed
  BY <1>1 DEF BeginTurn, EndTurn, BudgetElapsed, jobVars, queueVars
<1>2. CASE PublishGuards \/ Tick \/ UNCHANGED vars
  BY <1>2 DEF PublishGuards, Tick, vars, jobVars, queueVars, turnVars
<1> QED
  BY <1>1, <1>2 DEF Next, Turn

\* A loop that has ended leaves no event unposted behind it.
LEMMA NothingDueInHandlers ==
    ASSUME TypeInv, InHandler
    PROVE  due = <<>>
BY DEF TypeInv, TurnTyped, InHandler

\* The facts of PendingInv that the steps use.
LEMMA PendingFacts ==
    ASSUME PendingInv
    PROVE  /\ TypeInv /\ DistinctIds /\ JobsAreCurrent /\ DueAreCurrent /\ QueuedWereIssued
           /\ \A i \in DOMAIN jobs : JobMatches(jobs[i])
           /\ jobs \in Seq(JobRecord) /\ buffer \in Seq(QueuedEvent) /\ due \in Seq(DueRecord)
           /\ issued \in [JobIds -> Nat] /\ refused \subseteq JobIds
           /\ \A i \in DOMAIN jobs : jobs[i] \in JobRecord /\ jobs[i].id \in JobIds
<1>1. jobs \in Seq(JobRecord)
  BY DEF PendingInv, GridInv, TypeInv, TableTyped
<1>2. \A i \in DOMAIN jobs : jobs[i] \in JobRecord
  BY ONLY <1>1
<1>3. \A i \in DOMAIN jobs : jobs[i].id \in JobIds
  BY ONLY <1>2 DEF JobRecord
<1> QED
  BY <1>1, <1>2, <1>3 DEF PendingInv, EventsInv, GridInv, TypeInv, TurnTyped, OwnersTyped

\* A job fits the step's end when the events of its identifier and generation, its flag
\* and its refusal are as they were.
LEMMA JobUndisturbed ==
    ASSUME NEW job, NEW j, JobMatches(job), j.policy = job.policy, j.id = job.id,
           j.generation = job.generation, j.pending = job.pending,
           EventCount(due', job.id, job.generation)
               + EventCount(buffer', job.id, job.generation)
             = EventCount(due, job.id, job.generation)
               + EventCount(buffer, job.id, job.generation),
           job.id \in refused' <=> job.id \in refused
    PROVE  JobMatches(j)'
BY DEF JobMatches, DueCount, EventCount

\* The main loop posts one of the events it took: if the queue refuses it, its job stays
\* pending with nothing outstanding, and is remembered as refused.
LEMMA PostDueKeepsPending ==
    ASSUME PendingInv, PostDue
    PROVE  EventsInv' /\ \A i \in DOMAIN jobs' : JobMatches(jobs[i])'
<1>0. /\ TypeInv /\ DistinctIds /\ JobsAreCurrent /\ DueAreCurrent /\ QueuedWereIssued
      /\ \A i \in DOMAIN jobs : JobMatches(jobs[i])
      /\ jobs \in Seq(JobRecord) /\ buffer \in Seq(QueuedEvent) /\ due \in Seq(DueRecord)
      /\ issued \in [JobIds -> Nat] /\ refused \subseteq JobIds
      /\ \A i \in DOMAIN jobs : jobs[i] \in JobRecord /\ jobs[i].id \in JobIds
  BY PendingFacts
<1> DEFINE event == Head(due)
           id == event.payload.correlation
           g == event.payload.generation
<1>1. due # <<>> /\ Queue!Post(event) /\ due' = Tail(due)
  <2>1. phase = "posting"
    BY DEF PostDue
  <2> QED
    BY <1>0, <2>1 DEF PostDue, TypeInv, TurnTyped
<1>2. UNCHANGED <<jobs, issued>>
  BY DEF PostDue, jobVars
<1>3. refused' = IF buffer' = buffer THEN refused \cup {id} ELSE refused
  BY DEF PostDue
<1>4. /\ Tail(due) \in Seq(DueRecord) /\ IsWithout(Tail(due), due, 1)
      /\ event = due[1] /\ 1 \in DOMAIN due /\ 1 \in 1 .. Len(due)
  <2>1. /\ Tail(due) \in Seq(DueRecord) /\ IsWithout(Tail(due), due, 1)
        /\ event = due[1] /\ 1 \in DOMAIN due
    BY ONLY <1>0, <1>1, TailIsWithout
  <2> QED
    BY ONLY <1>0, <2>1
<1>5. event \in DueRecord /\ event \in QueuedEvent /\ id \in JobIds
      /\ event.kind.delivery = "DEADLINE"
  <2>1. event \in DueRecord
    BY ONLY <1>0, <1>4
  <2> QED
    BY <2>1, DueRecordsAreEvents, DueRecordsAreDeadlines
<1>6. g = issued[id]
  BY <1>0, <1>4 DEF DueAreCurrent
<1>7. event.payload = [correlation |-> id, generation |-> g]
  BY ONLY <1>5 DEF DueRecord
<1>8. buffer' = buffer \/ buffer' = Append(buffer, event)
  <2> HIDE DEF event
  <2> QED
    BY <1>1, <1>5, PostEffect
<1> HIDE DEF event, id, g
<1>9. ASSUME NEW i, NEW n
      PROVE  EventCount(due', i, n) = IF i = id /\ n = g THEN EventCount(due, i, n) - 1
                                      ELSE EventCount(due, i, n)
  <2>1. EventCount(due', i, n) = IF 1 \in EventsOf(due, i, n) THEN EventCount(due, i, n) - 1
                                 ELSE EventCount(due, i, n)
    <3>1. EventCount(Tail(due), i, n) =
             IF 1 \in EventsOf(due, i, n) THEN EventCount(due, i, n) - 1
             ELSE EventCount(due, i, n)
      BY ONLY <1>0, <1>1, CountOfTail
    <3> QED
      BY ONLY <1>1, <3>1
  <2>2. 1 \in EventsOf(due, i, n) <=> i = id /\ n = g
    BY ONLY <1>4, <1>5, <1>7 DEF EventsOf
  <2> QED
    BY ONLY <2>1, <2>2
<1>10. ASSUME NEW i, NEW n
       PROVE  /\ EventCount(due, i, n) \in Nat /\ EventCount(buffer, i, n) \in Nat
              /\ i = id /\ n = g => EventCount(due, i, n) # 0
  <2>1. EventCount(due, i, n) \in Nat /\ EventCount(buffer, i, n) \in Nat
    BY ONLY <1>0, EventsAreFinite
  <2>2. ASSUME i = id, n = g PROVE EventCount(due, i, n) # 0
    <3>1. 1 \in EventsOf(due, i, n)
      BY ONLY <2>2, <1>4, <1>5, <1>7 DEF EventsOf
    <3> QED
      BY ONLY <1>0, <3>1, EventsAreFinite
  <2> QED
    BY <2>1, <2>2
<1>11. JobsAreCurrent'
  BY <1>0, <1>2 DEF JobsAreCurrent
<1>12. DueAreCurrent'
  <2>1. \A k \in DOMAIN due' : \E l \in DOMAIN due : due'[k] = due[l]
    <3>1. /\ DOMAIN due' = 1 .. (Len(due) - 1) /\ DOMAIN due = 1 .. Len(due)
          /\ \A k \in 1 .. (Len(due) - 1) : due'[k] = due[k + 1]
          /\ Len(due) \in Nat
      BY ONLY <1>0, <1>1, <1>4 DEF IsWithout
    <3> QED
      BY ONLY <3>1
  <2> QED
    BY <1>0, <1>2, <2>1 DEF DueAreCurrent
<1>13. CASE buffer' = Append(buffer, event)
  <2>1. ASSUME NEW i, NEW n
        PROVE  EventCount(buffer', i, n) = IF i = id /\ n = g THEN EventCount(buffer, i, n) + 1
                                           ELSE EventCount(buffer, i, n)
    <3>1. EventCount(Append(buffer, event), i, n) =
             IF /\ event.kind.delivery = "DEADLINE"
                /\ event.payload = [correlation |-> i, generation |-> n]
             THEN EventCount(buffer, i, n) + 1 ELSE EventCount(buffer, i, n)
      BY ONLY <1>0, <1>5, CountWhenAppended
    <3> QED
      BY ONLY <1>5, <1>7, <1>13, <3>1
  <2>2. /\ DOMAIN buffer' = 1 .. (Len(buffer) + 1) /\ DOMAIN buffer = 1 .. Len(buffer)
        /\ buffer'[Len(buffer) + 1] = event
        /\ \A i \in 1 .. Len(buffer) : buffer'[i] = buffer[i]
        /\ Len(buffer) \in Nat /\ Len(buffer') = Len(buffer) + 1
    BY ONLY <1>0, <1>5, <1>13
  <2>3. QueuedWereIssued'
    <3>1. g <= issued[id]
      BY ONLY <1>0, <1>5, <1>6
    <3>2. event.payload.correlation = id /\ event.payload.generation = g
      BY DEF id, g
    <3> QED
      BY <1>0, <1>2, <1>5, <2>2, <3>1, <3>2 DEF QueuedWereIssued
  <2>4. refused' = refused
    BY <1>3, <2>2
  <2>5. ASSUME NEW k \in DOMAIN jobs
        PROVE  JobMatches(jobs[k])'
    <3> DEFINE i == jobs[k].id
               n == jobs[k].generation
    <3>1. EventCount(due', i, n) + EventCount(buffer', i, n)
            = EventCount(due, i, n) + EventCount(buffer, i, n)
      <4> HIDE DEF i, n
      <4>1. EventCount(due, i, n) \in Nat /\ EventCount(buffer, i, n) \in Nat
        BY <1>10
      <4> QED
        BY ONLY <1>9, <2>1, <4>1
    <3>2. JobMatches(jobs[k])
      BY <1>0
    <3> QED
      BY <1>2, <2>4, <3>1, <3>2, JobUndisturbed
  <2> QED
    BY <1>2, <1>11, <1>12, <2>3, <2>5 DEF EventsInv
<1>14. CASE buffer' = buffer
  <2>1. QueuedWereIssued'
    BY <1>0, <1>2, <1>14 DEF QueuedWereIssued
  <2>2. refused' = refused \cup {id}
    BY <1>3, <1>14
  <2>3. ASSUME NEW k \in DOMAIN jobs
        PROVE  JobMatches(jobs[k])'
    <3> DEFINE job == jobs[k]
    <3>1. JobMatches(job) /\ jobs'[k] = job
      BY <1>0, <1>2
    <3>2. job.generation = issued[job.id]
      BY <1>0 DEF JobsAreCurrent
    <3> HIDE DEF job
    <3>3. CASE job.id # id
      <4>1. EventCount(due', job.id, job.generation)
              = EventCount(due, job.id, job.generation)
        BY <1>9, <3>3
      <4>2. job.id \in refused' <=> job.id \in refused
        BY <2>2, <3>3
      <4> QED
        BY <1>14, <3>1, <4>1, <4>2, JobUndisturbed
    <3>4. CASE job.id = id
      <4>1. job.generation = g
        BY <1>6, <3>2, <3>4
      <4>2. /\ EventCount(due, job.id, job.generation) \in Nat \ {0}
            /\ EventCount(buffer, job.id, job.generation) \in Nat
        BY <1>10, <3>4, <4>1
      <4>3. EventCount(due', job.id, job.generation)
              = EventCount(due, job.id, job.generation) - 1
        BY <1>9, <3>4, <4>1
      <4>4. job.policy # "SKIP" =>
               EventCount(due, job.id, job.generation)
                 + EventCount(buffer, job.id, job.generation) \in {0, 1}
        BY <3>1 DEF JobMatches, DueCount, EventCount
      <4>5. job.policy # "SKIP" =>
               EventCount(due', job.id, job.generation)
                 + EventCount(buffer', job.id, job.generation) = 0
        BY ONLY <1>14, <4>2, <4>3, <4>4
      <4>6. job.id \in refused'
        BY <2>2, <3>4
      <4> QED
        BY <3>1, <4>5, <4>6 DEF JobMatches, DueCount, EventCount
    <3> QED
      BY <3>3, <3>4
  <2> QED
    BY <1>2, <1>11, <1>12, <2>1, <2>3 DEF EventsInv
<1> QED
  BY <1>8, <1>13, <1>14

\* An event is consumed: if its job is still the one that it was made for, the job's flag
\* goes with it; the event of a cancelled job touches nothing.
LEMMA DispatchOneKeepsPending ==
    ASSUME PendingInv, DispatchOne
    PROVE  EventsInv' /\ \A i \in DOMAIN jobs' : JobMatches(jobs[i])'
<1>0. /\ TypeInv /\ DistinctIds /\ JobsAreCurrent /\ DueAreCurrent /\ QueuedWereIssued
      /\ \A i \in DOMAIN jobs : JobMatches(jobs[i])
      /\ jobs \in Seq(JobRecord) /\ buffer \in Seq(QueuedEvent) /\ due \in Seq(DueRecord)
      /\ issued \in [JobIds -> Nat] /\ refused \subseteq JobIds
      /\ \A i \in DOMAIN jobs : jobs[i] \in JobRecord /\ jobs[i].id \in JobIds
  BY PendingFacts
<1>1. PICK p \in DOMAIN buffer :
         /\ Queue!IsSelected(buffer, consecutive, p)
         /\ jobs' = IF buffer[p].kind.delivery = "DEADLINE"
                    THEN Acknowledged(jobs, buffer[p].payload.correlation,
                                      buffer[p].payload.generation)
                    ELSE jobs
  BY DEF DispatchOne
<1>2. UNCHANGED <<due, issued, refused>> /\ Queue!TryGet
  BY DEF DispatchOne
<1>3. buffer' \in Seq(QueuedEvent) /\ IsWithout(buffer', buffer, p)
  BY <1>0, <1>1, <1>2, TryGetEffect
<1> DEFINE event == buffer[p]
           id == event.payload.correlation
           g == event.payload.generation
           isDeadline == event.kind.delivery = "DEADLINE"
<1>4. event.payload = [correlation |-> id, generation |-> g]
  <2>1. event \in QueuedEvent
    BY ONLY <1>0, <1>1
  <2> QED
    BY ONLY <2>1 DEF QueuedEvent, Payload
<1>5. jobs' = IF isDeadline THEN Acknowledged(jobs, id, g) ELSE jobs
  BY <1>1
<1>6. ASSUME NEW i, NEW n
      PROVE  EventCount(buffer', i, n) =
                IF isDeadline /\ i = id /\ n = g THEN EventCount(buffer, i, n) - 1
                ELSE EventCount(buffer, i, n)
  <2>1. EventCount(buffer', i, n) =
           IF p \in EventsOf(buffer, i, n) THEN EventCount(buffer, i, n) - 1
           ELSE EventCount(buffer, i, n)
    BY <1>0, <1>1, <1>3, CountWhenTakenOut
  <2>2. p \in EventsOf(buffer, i, n) <=> isDeadline /\ i = id /\ n = g
    BY ONLY <1>1, <1>4 DEF EventsOf
  <2> QED
    BY ONLY <2>1, <2>2
<1>7. ASSUME NEW i, NEW n
      PROVE  /\ EventCount(due, i, n) \in Nat /\ EventCount(buffer, i, n) \in Nat
             /\ isDeadline /\ i = id /\ n = g => EventCount(buffer, i, n) # 0
  <2>1. EventCount(due, i, n) \in Nat /\ EventCount(buffer, i, n) \in Nat
    BY ONLY <1>0, EventsAreFinite
  <2>2. ASSUME isDeadline, i = id, n = g PROVE EventCount(buffer, i, n) # 0
    <3>1. p \in EventsOf(buffer, i, n)
      BY ONLY <2>2, <1>1, <1>4 DEF EventsOf
    <3> QED
      BY ONLY <1>0, <3>1, EventsAreFinite
  <2> QED
    BY <2>1, <2>2
<1> HIDE DEF event, id, g, isDeadline
<1>8. DOMAIN jobs' = DOMAIN jobs
  BY <1>5 DEF Acknowledged
<1>9. ASSUME NEW k \in DOMAIN jobs
      PROVE  /\ jobs'[k] = IF isDeadline /\ jobs[k].id = id /\ jobs[k].generation = g
                           THEN [jobs[k] EXCEPT !.pending = FALSE] ELSE jobs[k]
             /\ jobs'[k].id = jobs[k].id /\ jobs'[k].generation = jobs[k].generation
             /\ jobs'[k].policy = jobs[k].policy
             /\ isDeadline /\ jobs[k].id = id /\ jobs[k].generation = g => jobs'[k].pending = FALSE
  <2>1. jobs'[k] = IF isDeadline /\ jobs[k].id = id /\ jobs[k].generation = g
                   THEN [jobs[k] EXCEPT !.pending = FALSE] ELSE jobs[k]
    <3>1. CASE isDeadline
      <4>1. Acknowledged(jobs, id, g)[k] =
               IF jobs[k].id = id /\ jobs[k].generation = g
               THEN [jobs[k] EXCEPT !.pending = FALSE] ELSE jobs[k]
        BY DEF Acknowledged
      <4> QED
        BY ONLY <1>5, <3>1, <4>1
    <3>2. CASE ~isDeadline
      BY ONLY <1>5, <3>2
    <3> QED
      BY <3>1, <3>2
  <2>2. jobs[k] \in JobRecord
    BY <1>0
  <2> QED
    BY ONLY <2>1, <2>2 DEF JobRecord
<1>10. JobsAreCurrent' /\ DueAreCurrent'
  BY <1>0, <1>2, <1>8, <1>9 DEF JobsAreCurrent, DueAreCurrent
<1>11. QueuedWereIssued'
  <2>1. /\ DOMAIN buffer' = 1 .. (Len(buffer) - 1) /\ DOMAIN buffer = 1 .. Len(buffer)
        /\ \A j \in 1 .. (Len(buffer) - 1) :
              buffer'[j] = IF j < p THEN buffer[j] ELSE buffer[j + 1]
        /\ Len(buffer) \in Nat /\ p \in 1 .. Len(buffer)
    BY ONLY <1>0, <1>1, <1>3 DEF IsWithout
  <2>2. \A k \in DOMAIN buffer' : \E l \in DOMAIN buffer : buffer'[k] = buffer[l]
    BY ONLY <2>1
  <2> QED
    BY <1>0, <1>2, <2>2 DEF QueuedWereIssued
<1>12. ASSUME NEW k \in DOMAIN jobs
       PROVE  JobMatches(jobs[k])'
  <2> DEFINE job == jobs[k]
  <2>1. JobMatches(job)
    BY <1>0
  <2>2. /\ jobs'[k].id = job.id /\ jobs'[k].generation = job.generation
        /\ jobs'[k].policy = job.policy
    BY <1>9
  <2>3. CASE isDeadline /\ job.id = id /\ job.generation = g
    <3>1. jobs'[k].pending = FALSE
      BY <1>9, <2>3
    <3> HIDE DEF job
    <3>2. /\ EventCount(due, job.id, job.generation) \in Nat
          /\ EventCount(buffer, job.id, job.generation) \in Nat \ {0}
      BY <1>7, <2>3
    <3>3. EventCount(buffer', job.id, job.generation)
            = EventCount(buffer, job.id, job.generation) - 1
      BY <1>6, <2>3
    <3>4. job.policy # "SKIP" =>
             EventCount(due, job.id, job.generation)
               + EventCount(buffer, job.id, job.generation) \in {0, 1}
      BY <2>1 DEF JobMatches, DueCount, EventCount
    <3>5. job.policy # "SKIP" =>
             EventCount(due', job.id, job.generation)
               + EventCount(buffer', job.id, job.generation) = 0
      BY ONLY <1>2, <3>2, <3>3, <3>4
    <3> QED
      BY <2>2, <3>1, <3>5 DEF JobMatches, DueCount, EventCount
  <2>4. CASE ~(isDeadline /\ job.id = id /\ job.generation = g)
    <3>1. jobs'[k] = job
      BY <1>9, <2>4
    <3> HIDE DEF job
    <3>2. EventCount(buffer', job.id, job.generation)
            = EventCount(buffer, job.id, job.generation)
      BY <1>6, <2>4
    <3> QED
      BY <1>2, <2>1, <3>1, <3>2, JobUndisturbed
  <2> QED
    BY <2>3, <2>4
<1> QED
  BY <1>8, <1>10, <1>11, <1>12 DEF EventsInv

\* The events of one job do not count for another.
LEMMA AnotherDueEvent ==
    ASSUME NEW job \in JobRecord, NEW id, NEW g, TypeInv, phase = "scanning", Fires(now),
           job = jobs[cursor]
    PROVE  EventCount(due', id, g) =
              IF id = job.id /\ g = job.generation THEN EventCount(due, id, g) + 1
              ELSE EventCount(due, id, g)
<1>1. /\ DueEvent(job) \in DueRecord /\ due \in Seq(DueRecord)
      /\ due' = Append(due, DueEvent(job))
  BY FiresEffect
<1>2. DueEvent(job).kind.delivery = "DEADLINE"
  BY <1>1, DueRecordsAreDeadlines
<1>3. DueEvent(job).payload = [correlation |-> job.id, generation |-> job.generation]
  BY DEF DueEvent
<1>4. EventCount(Append(due, DueEvent(job)), id, g) =
         IF /\ DueEvent(job).kind.delivery = "DEADLINE"
            /\ DueEvent(job).payload = [correlation |-> id, generation |-> g]
         THEN EventCount(due, id, g) + 1 ELSE EventCount(due, id, g)
  BY ONLY <1>1, CountWhenAppended
<1> QED
  BY ONLY <1>1, <1>2, <1>3, <1>4

\* After MovesOn, an entry of the table is one of the other jobs, or the job itself with
\* its new flag.
LEMMA MovedTable ==
    ASSUME TypeInv, phase = "scanning", NEW pending \in BOOLEAN, MovesOn(now, pending),
           DistinctIds, NEW k \in DOMAIN jobs'
    PROVE  \/ \E j \in DOMAIN jobs : j # cursor /\ jobs'[k] = jobs[j]
           \/ /\ jobs'[k].id = jobs[cursor].id
              /\ jobs'[k].generation = jobs[cursor].generation
              /\ jobs'[k].policy = jobs[cursor].policy
              /\ jobs'[k].pending = pending
<1> DEFINE job == jobs[cursor]
           moved == [job EXCEPT !.deadline = NextAnchored(job.anchor, job.period, now),
                                !.pending = pending]
<1>1. /\ cursor \in 1 .. Len(jobs) /\ job \in JobRecord /\ jobs \in Seq(JobRecord)
      /\ IF IsPeriodic(job)
         THEN moved \in JobRecord /\ jobs' = [jobs EXCEPT ![cursor] = moved]
         ELSE jobs' = RemoveAt(jobs, cursor) /\ IsWithout(jobs', jobs, cursor)
      /\ jobs' \in Seq(JobRecord)
  BY MovesOnEffect DEF TypeInv, TableTyped
<1>2. CASE IsPeriodic(job)
  <2>1. /\ moved.id = job.id /\ moved.generation = job.generation
        /\ moved.policy = job.policy /\ moved.pending = pending
    BY ONLY <1>1 DEF JobRecord
  <2> HIDE DEF moved
  <2>2. jobs' = [jobs EXCEPT ![cursor] = moved]
    BY <1>1, <1>2
  <2>3. k \in DOMAIN jobs /\ jobs'[k] = IF k = cursor THEN moved ELSE jobs[k]
    BY ONLY <1>1, <2>2, k \in DOMAIN jobs'
  <2> QED
    BY <2>1, <2>3
<1>3. CASE ~IsPeriodic(job)
  <2>1. IsWithout(jobs', jobs, cursor)
    BY <1>1, <1>3
  <2> QED
    BY <1>1, <2>1, RemovalKeepsDistinct
<1> QED
  BY <1>2, <1>3

\* A job that is passed over stays as it is.  One that is dropped has the policy SKIP.
\* One that fires had nothing outstanding, since it was not pending, and has one event now.
LEMMA ScanKeepsPending ==
    ASSUME PendingInv, ScanJob
    PROVE  EventsInv' /\ \A i \in DOMAIN jobs' : JobMatches(jobs[i])'
<1>0. /\ TypeInv /\ DistinctIds /\ JobsAreCurrent /\ DueAreCurrent /\ QueuedWereIssued
      /\ \A i \in DOMAIN jobs : JobMatches(jobs[i])
      /\ jobs \in Seq(JobRecord) /\ buffer \in Seq(QueuedEvent) /\ due \in Seq(DueRecord)
      /\ issued \in [JobIds -> Nat] /\ refused \subseteq JobIds
      /\ \A i \in DOMAIN jobs : jobs[i] \in JobRecord /\ jobs[i].id \in JobIds
  BY PendingFacts
<1>1. phase = "scanning" /\ UNCHANGED <<buffer, issued>>
  BY DEF ScanJob, queueVars
<1>2. cursor \in DOMAIN jobs
  BY <1>0, <1>1 DEF TypeInv, TurnTyped
<1>3. QueuedWereIssued'
  BY <1>0, <1>1 DEF QueuedWereIssued
<1> DEFINE job == jobs[cursor]
<1>4. job \in JobRecord /\ JobMatches(job) /\ job.generation = issued[job.id] /\ job.id \in JobIds
  BY <1>0, <1>2 DEF JobsAreCurrent
<1>5. ASSUME NEW j \in DOMAIN jobs, j # cursor
      PROVE  jobs[j].id # job.id /\ JobMatches(jobs[j]) /\ jobs[j].generation = issued[jobs[j].id]
  BY <1>0, <1>2, <1>5 DEF DistinctIds, JobsAreCurrent
<1>6. CASE UNCHANGED <<jobs, due, fired, refused>>
  <2>1. JobsAreCurrent' /\ DueAreCurrent'
    BY <1>0, <1>1, <1>6 DEF JobsAreCurrent, DueAreCurrent
  <2>2. ASSUME NEW i \in DOMAIN jobs'
        PROVE  JobMatches(jobs[i])'
    <3>1. JobMatches(jobs[i]) /\ jobs'[i] = jobs[i]
      BY <1>0, <1>6
    <3> QED
      BY <1>1, <1>6, <3>1, JobUndisturbed
  <2> QED
    BY <1>3, <2>1, <2>2 DEF EventsInv
<1>7. ASSUME NEW pending \in BOOLEAN, MovesOn(now, pending)
      PROVE  JobsAreCurrent'
  <2> SUFFICES ASSUME NEW k \in DOMAIN jobs'
               PROVE  jobs'[k].generation = issued'[jobs'[k].id]
    BY DEF JobsAreCurrent
  <2> QED
    BY <1>0, <1>1, <1>4, <1>5, <1>7, MovedTable
<1>8. CASE MovesOn(now, FALSE) /\ job.policy = "SKIP" /\ UNCHANGED <<due, fired, refused>>
  <2>1. JobsAreCurrent' /\ DueAreCurrent'
    BY <1>0, <1>1, <1>7, <1>8 DEF DueAreCurrent
  <2>2. ASSUME NEW k \in DOMAIN jobs'
        PROVE  JobMatches(jobs[k])'
    <3>1. CASE \E j \in DOMAIN jobs : j # cursor /\ jobs'[k] = jobs[j]
      <4>1. PICK j \in DOMAIN jobs : j # cursor /\ jobs'[k] = jobs[j]
        BY <3>1
      <4>2. JobMatches(jobs[j])
        BY <1>0
      <4> QED
        BY <1>1, <1>8, <4>1, <4>2, JobUndisturbed
    <3>2. CASE jobs'[k].policy = "SKIP"
      BY <3>2 DEF JobMatches
    <3> QED
      BY <1>0, <1>1, <1>8, <3>1, <3>2, MovedTable
  <2> QED
    BY <1>3, <2>1, <2>2 DEF EventsInv
<1>9. CASE Fires(now) /\ refused' = refused \ {job.id}
  <2>1. /\ MovesOn(now, TRUE) /\ job.pending = FALSE
        /\ due' = Append(due, DueEvent(job)) /\ DueEvent(job) \in DueRecord
    BY <1>0, <1>1, <1>4, <1>9, FiresEffect DEF Fires, JobRecord
  <2>2. DueAreCurrent'
    <3>1. /\ DOMAIN due' = 1 .. (Len(due) + 1) /\ DOMAIN due = 1 .. Len(due)
          /\ due'[Len(due) + 1] = DueEvent(job)
          /\ \A i \in 1 .. Len(due) : due'[i] = due[i]
          /\ Len(due) \in Nat
      BY ONLY <1>0, <2>1
    <3>2. /\ DueEvent(job).payload.correlation = job.id
          /\ DueEvent(job).payload.generation = job.generation
      BY DEF DueEvent
    <3> QED
      BY <1>0, <1>1, <1>4, <3>1, <3>2 DEF DueAreCurrent
  <2>3. ASSUME NEW i, NEW g
        PROVE  EventCount(due', i, g) =
                  IF i = job.id /\ g = job.generation THEN EventCount(due, i, g) + 1
                  ELSE EventCount(due, i, g)
    BY <1>0, <1>1, <1>4, <1>9, AnotherDueEvent
  <2>4. ASSUME NEW k \in DOMAIN jobs'
        PROVE  JobMatches(jobs[k])'
    <3>1. CASE \E j \in DOMAIN jobs : j # cursor /\ jobs'[k] = jobs[j]
      <4>1. PICK j \in DOMAIN jobs : j # cursor /\ jobs'[k] = jobs[j]
        BY <3>1
      <4>2. jobs[j].id # job.id /\ JobMatches(jobs[j])
        BY <1>5, <4>1
      <4>3. EventCount(due', jobs[j].id, jobs[j].generation)
              = EventCount(due, jobs[j].id, jobs[j].generation)
        BY <2>3, <4>2
      <4>4. jobs[j].id \in refused' <=> jobs[j].id \in refused
        BY <1>9, <4>2
      <4> QED
        BY <1>1, <4>1, <4>2, <4>3, <4>4, JobUndisturbed
    <3>2. CASE /\ jobs'[k].id = job.id /\ jobs'[k].generation = job.generation
               /\ jobs'[k].policy = job.policy /\ jobs'[k].pending = TRUE
      <4> HIDE DEF job
      <4>1. job.policy # "SKIP" =>
               EventCount(due, job.id, job.generation)
                 + EventCount(buffer, job.id, job.generation) = 0
        BY <1>4, <2>1 DEF JobMatches, DueCount, EventCount
      <4>2. /\ EventCount(due, job.id, job.generation) \in Nat
            /\ EventCount(buffer, job.id, job.generation) \in Nat
        BY ONLY <1>0, EventsAreFinite
      <4>3. EventCount(due', job.id, job.generation)
              = EventCount(due, job.id, job.generation) + 1
        BY <2>3
      <4>4. job.policy # "SKIP" =>
               EventCount(due', job.id, job.generation)
                 + EventCount(buffer', job.id, job.generation) = 1
        BY ONLY <1>1, <4>1, <4>2, <4>3
      <4>5. job.id \notin refused'
        BY <1>9
      <4> QED
        BY <3>2, <4>4, <4>5 DEF JobMatches, DueCount, EventCount
    <3> QED
      BY <1>0, <1>1, <2>1, <3>1, <3>2, MovedTable
  <2> QED
    BY <1>3, <1>7, <2>1, <2>2, <2>4 DEF EventsInv
<1> QED
  BY <1>0, <1>6, <1>8, <1>9, ScanJobEffect

\* A new job has a generation that no event carries yet.
LEMMA ScheduleKeepsPending ==
    ASSUME PendingInv, ScheduleJob
    PROVE  EventsInv' /\ \A i \in DOMAIN jobs' : JobMatches(jobs[i])'
<1>0. /\ TypeInv /\ DistinctIds /\ JobsAreCurrent /\ DueAreCurrent /\ QueuedWereIssued
      /\ \A i \in DOMAIN jobs : JobMatches(jobs[i])
      /\ jobs \in Seq(JobRecord) /\ buffer \in Seq(QueuedEvent) /\ due \in Seq(DueRecord)
      /\ issued \in [JobIds -> Nat] /\ refused \subseteq JobIds
      /\ \A i \in DOMAIN jobs : jobs[i] \in JobRecord /\ jobs[i].id \in JobIds
  BY PendingFacts
<1>1. PICK job \in JobRecord :
         /\ jobs' = Append(jobs, job) /\ ~IsScheduled(job.id)
         /\ job.pending = FALSE /\ job.generation = issued[job.id] + 1
         /\ issued' = [issued EXCEPT ![job.id] = @ + 1]
         /\ refused' = refused \ {job.id}
  BY <1>0, ScheduledJob
<1>2. UNCHANGED <<buffer, due>> /\ due = <<>>
  BY <1>0, NothingDueInHandlers DEF ScheduleJob, queueVars, turnVars
<1>3. job.id \in JobIds /\ job.generation \in Nat
  BY ONLY job \in JobRecord, <1>0, <1>1 DEF JobRecord
<1>4. /\ \A id \in JobIds : issued'[id] = IF id = job.id THEN issued[id] + 1 ELSE issued[id]
      /\ \A id \in JobIds : issued[id] \in Nat
  BY ONLY <1>0, <1>1
<1>5. /\ DOMAIN jobs' = 1 .. (Len(jobs) + 1) /\ DOMAIN jobs = 1 .. Len(jobs)
      /\ Len(jobs) \in Nat
      /\ jobs'[Len(jobs) + 1] = job
      /\ \A i \in 1 .. Len(jobs) : jobs'[i] = jobs[i]
  BY ONLY <1>0, <1>1
<1>6. \A i \in 1 .. Len(jobs) : jobs[i].id # job.id
  BY <1>1, <1>5 DEF IsScheduled
<1>7. JobsAreCurrent'
  BY <1>0, <1>1, <1>3, <1>4, <1>5, <1>6 DEF JobsAreCurrent
<1>8. DueAreCurrent'
  BY <1>2 DEF DueAreCurrent
<1>9. QueuedWereIssued'
  <2> SUFFICES ASSUME NEW i \in DOMAIN buffer, buffer[i].kind.delivery = "DEADLINE"
               PROVE  /\ buffer[i].payload.correlation \in JobIds
                      /\ buffer[i].payload.generation
                            <= issued'[buffer[i].payload.correlation]
    BY <1>2 DEF QueuedWereIssued
  <2>1. /\ buffer[i].payload.correlation \in JobIds
        /\ buffer[i].payload.generation <= issued[buffer[i].payload.correlation]
    BY <1>0 DEF QueuedWereIssued
  <2>2. buffer[i].payload.generation \in Int
    <3>1. buffer[i] \in QueuedEvent
      BY ONLY <1>0, i \in DOMAIN buffer
    <3> QED
      BY ONLY <3>1, LoopAssumption DEF QueuedEvent, Payload
  <2> QED
    BY ONLY <1>4, <2>1, <2>2
<1>10. EventCount(due, job.id, job.generation) = 0
  <2>1. EventsOf(due, job.id, job.generation) = {}
    BY <1>2 DEF EventsOf
  <2> QED
    BY ONLY <1>0, <2>1, EventsAreFinite
<1>11. EventCount(buffer, job.id, job.generation) = 0
  <2>1. ASSUME NEW i \in EventsOf(buffer, job.id, job.generation)
        PROVE  FALSE
    <3>1. /\ i \in DOMAIN buffer /\ buffer[i].kind.delivery = "DEADLINE"
          /\ buffer[i].payload.correlation = job.id
          /\ buffer[i].payload.generation = job.generation
      BY DEF EventsOf
    <3>2. job.generation <= issued[job.id]
      BY <1>0, <3>1 DEF QueuedWereIssued
    <3> QED
      BY ONLY <1>1, <1>3, <1>4, <3>2
  <2>2. EventsOf(buffer, job.id, job.generation) = {}
    BY <2>1
  <2> QED
    BY ONLY <1>0, <2>2, EventsAreFinite
<1>12. ASSUME NEW i \in DOMAIN jobs'
       PROVE  JobMatches(jobs[i])'
  <2>1. CASE i \in 1 .. Len(jobs)
    <3>1. jobs'[i] = jobs[i] /\ JobMatches(jobs[i]) /\ jobs[i].id # job.id
      BY <1>0, <1>5, <1>6, <2>1
    <3>2. jobs[i].id \in refused' <=> jobs[i].id \in refused
      BY <1>1, <3>1
    <3> QED
      BY <1>2, <3>1, <3>2, JobUndisturbed
  <2>2. CASE i = Len(jobs) + 1
    <3>1. jobs'[i] = job
      BY <1>5, <2>2
    <3> QED
      BY <1>1, <1>2, <1>10, <1>11, <3>1 DEF JobMatches, DueCount, EventCount
  <2> QED
    BY <1>5, <2>1, <2>2
<1> QED
  BY <1>7, <1>8, <1>9, <1>12 DEF EventsInv

\* A cancelled job takes its flag with it; its event stays and belongs to no job.
LEMMA CancelKeepsPending ==
    ASSUME PendingInv, CancelJob
    PROVE  EventsInv' /\ \A i \in DOMAIN jobs' : JobMatches(jobs[i])'
<1>0. /\ TypeInv /\ DistinctIds /\ JobsAreCurrent /\ DueAreCurrent /\ QueuedWereIssued
      /\ \A i \in DOMAIN jobs : JobMatches(jobs[i])
      /\ jobs \in Seq(JobRecord)
  BY PendingFacts
<1>1. UNCHANGED <<buffer, due, issued, refused>>
  BY DEF CancelJob, queueVars, turnVars
<1>2. PICK i \in DOMAIN jobs : jobs' = RemoveAt(jobs, i)
  BY DEF CancelJob, Cancel
<1>3. i \in 1 .. Len(jobs)
  BY ONLY <1>0, <1>2
<1>4. jobs' \in Seq(JobRecord) /\ IsWithout(jobs', jobs, i)
  BY ONLY <1>0, <1>2, <1>3, RemoveAtIsWithout
<1>5. \A k \in DOMAIN jobs' : \E j \in DOMAIN jobs : jobs'[k] = jobs[j]
  BY <1>0, <1>3, <1>4, RemovalKeepsDistinct
<1>6. EventsInv'
  BY <1>0, <1>1, <1>5 DEF EventsInv, JobsAreCurrent, DueAreCurrent, QueuedWereIssued
<1>7. ASSUME NEW k \in DOMAIN jobs'
      PROVE  JobMatches(jobs[k])'
  <2>1. PICK j \in DOMAIN jobs : jobs'[k] = jobs[j]
    BY <1>5
  <2>2. JobMatches(jobs[j])
    BY <1>0
  <2> QED
    BY <1>1, <2>1, <2>2, JobUndisturbed
<1> QED
  BY <1>6, <1>7

\* What producers post belongs to no job.
LEMMA ProduceKeepsPending ==
    ASSUME PendingInv, Produce
    PROVE  EventsInv' /\ \A i \in DOMAIN jobs' : JobMatches(jobs[i])'
<1>0. /\ TypeInv /\ JobsAreCurrent /\ DueAreCurrent /\ QueuedWereIssued
      /\ \A i \in DOMAIN jobs : JobMatches(jobs[i])
  BY PendingFacts
<1>1. UNCHANGED <<jobs, due, issued, refused>>
  BY DEF Produce, jobVars, turnVars
<1>2. PICK event \in QueuedEvent : event.kind.delivery # "DEADLINE" /\ Queue!Post(event)
  BY <1>0, ProducedEvents DEF Produce, TypeInv
<1>3. /\ QueuedWereIssued'
      /\ \A id, g : EventCount(buffer', id, g) = EventCount(buffer, id, g)
  BY <1>0, <1>1, <1>2, PostOfOthers
<1>4. JobsAreCurrent' /\ DueAreCurrent'
  BY <1>0, <1>1 DEF JobsAreCurrent, DueAreCurrent
<1>5. ASSUME NEW k \in DOMAIN jobs'
      PROVE  JobMatches(jobs[k])'
  <2>1. JobMatches(jobs[k]) /\ jobs'[k] = jobs[k]
    BY <1>0, <1>1
  <2>2. EventCount(buffer', jobs[k].id, jobs[k].generation)
          = EventCount(buffer, jobs[k].id, jobs[k].generation)
    BY <1>3
  <2> QED
    BY <1>1, <2>1, <2>2, JobUndisturbed
<1> QED
  BY <1>3, <1>4, <1>5 DEF EventsInv

\* The invariant of the pending flags is inductive.
LEMMA PendingKept == PendingInv /\ [Next]_vars => PendingInv'
<1> SUFFICES ASSUME PendingInv, [Next]_vars
             PROVE  EventsInv' /\ \A i \in DOMAIN jobs' : JobMatches(jobs[i])'
  BY GridKept DEF PendingInv
<1>1. CASE UNCHANGED <<jobs, due, buffer, issued, refused>>
  <2>1. /\ EventsInv /\ \A i \in DOMAIN jobs : JobMatches(jobs[i])
    BY DEF PendingInv
  <2>2. EventsInv'
    BY <1>1, <2>1 DEF EventsInv, JobsAreCurrent, DueAreCurrent, QueuedWereIssued
  <2>3. ASSUME NEW k \in DOMAIN jobs'
        PROVE  JobMatches(jobs[k])'
    <3>1. JobMatches(jobs[k]) /\ jobs'[k] = jobs[k]
      BY <1>1, <2>1
    <3> QED
      BY <1>1, <3>1, JobUndisturbed
  <2> QED
    BY <2>2, <2>3
<1>2. CASE Reboot
  BY <1>2 DEF Reboot, EventsInv, JobsAreCurrent, DueAreCurrent, QueuedWereIssued
<1> QED
  BY <1>1, <1>2, QuietSteps, ScanKeepsPending, PostDueKeepsPending, DispatchOneKeepsPending,
     ScheduleKeepsPending, CancelKeepsPending, ProduceKeepsPending

\* Whatever is cancelled, scheduled again, refused by the queue or dispatched late: a job
\* that signals once is marked pending exactly while its event is outstanding, so that no
\* event is lost by a flag left behind and none is posted twice.
THEOREM PendingIsOutstanding == Spec => []PendingMatchesOutstanding
<1>1. Init => PendingInv
  <2> SUFFICES ASSUME Init PROVE PendingInv
    OBVIOUS
  <2>1. jobs = <<>> /\ due = <<>> /\ buffer = <<>>
    BY DEF Init, SchedulerInit, Queue!Init
  <2> QED
    BY <2>1, InitOnGrid
       DEF PendingInv, EventsInv, JobsAreCurrent, DueAreCurrent, QueuedWereIssued
<1>2. PendingInv => PendingMatchesOutstanding
  BY DEF PendingInv, JobMatches, PendingMatchesOutstanding
<1> QED
  BY <1>1, <1>2, PendingKept, PTL DEF Spec

==============================================================================
