------------------------------ MODULE EventLoop ------------------------------
(***************************************************************************)
(* The cooperative control plane: app_event_loop_run_once with the event   *)
(* queue, the scheduler and the system mode manager it drives.  A turn     *)
(* walks over the job table, posts the events of the due jobs, dispatches  *)
(* events within its step budget and spends what is left on FSM actions.   *)
(* Interrupts post between any two steps; handlers of the main thread      *)
(* schedule and cancel jobs and publish guard evidence between dispatches. *)
(***************************************************************************)
EXTENDS Scheduler, SystemFsm, FiniteSets

CONSTANTS
    FsmKinds,           \* the FSM events that producers post: queue catalogue entries
    JobSpecs,           \* jobs the owners schedule: [id, kind, period, policy]
    EvidenceSets,       \* the guard evidence that owners publish
    BoundActions,       \* actions with a handler; REQUEST_RESET always has one
    WriteFaults,        \* what may fail of the transaction around an FSM event
    MaxSteps,           \* budget.max_service_steps (MaxDueEvents: max_events_per_turn)
    Capacity, ReservedCritical, CounterModulus, NoPayload,   \* of the queue
    MaxTime,            \* bound: the clock stops here
    MaxGeneration,      \* bound: producers stop posting above this mode generation
    MaxJobGeneration    \* bound: generations an owner gives one job identifier

ASSUME LoopAssumption ==
    /\ MaxSteps \in Nat \ {0}
    /\ "REQUEST_RESET" \in BoundActions /\ BoundActions \subseteq Actions
    /\ MaxGeneration \in Nat /\ MaxJobGeneration \in Nat
    /\ \A e \in EvidenceSets : IsFiniteSet(e)
    /\ WriteFaults \subseteq {"begin", "commit"}

VARIABLES
    buffer, consecutive, critical_emergency, overflow_count,
    starvation_count, latest, bypassed,                       \* the queue
    phase,        \* where run_once stands
    steps,        \* steps = events_processed_last_turn
    evidence,     \* guard_provider.evidence, as the set of true facts
    published,    \* the mode context in the repository's snapshot
    now,          \* monotonic_now_us
    issued,       \* the generation each job owner gave last
    fired,        \* history: the last period slot a job fired in, -1 if none
    refused       \* history: jobs whose last due event the queue refused

queueVars == <<buffer, consecutive, critical_emergency, overflow_count,
               starvation_count, latest, bypassed>>
fsmVars == <<mode, mode_generation, pending_actions, published>>
turnVars == <<phase, steps, cursor, due>>
jobVars == <<jobs, issued, fired>>
vars == <<queueVars, fsmVars, turnVars, jobVars, evidence, now, refused>>

JobKinds == {s.kind : s \in JobSpecs}
JobIds == {s.id : s \in JobSpecs}
Payload == [correlation : JobIds \cup {0}, generation : 0 .. (MaxGeneration + MaxJobGeneration)]

Queue == INSTANCE EventQueue WITH Kinds <- FsmKinds \cup JobKinds, Payloads <- Payload

\* Only the scheduler makes deadline events (monotonic_scheduler.c:202).
ASSUME CatalogueAssumption ==
    /\ \A k \in FsmKinds \cup JobKinds : k.priority \in Queue!Priorities
    /\ \A k \in FsmKinds : k.delivery # "DEADLINE"
    /\ \A s \in JobSpecs :
          s.kind.delivery = "DEADLINE" /\ s.period \in Nat /\ s.policy \in Policies

FsmEvent(kind, generation) ==
    [kind |-> kind, payload |-> [correlation |-> 0, generation |-> generation]]

\* What app_event_loop_init publishes: composition succeeded, no authorization.
InitialEvidence ==
    {"core_ready", "no_critical_blocker", "recovery_can_run", "wake_sources_armed",
     "safe_service_boundary", "safe_to_resume_normal", "return_normal",
     "reinitialize_allowed"}

\* data_repository_init zeroes the snapshot: INIT, but not yet generation 1.
UnpublishedMode == [mode |-> "INIT", generation |-> 0]

Init ==
    /\ Queue!Init
    /\ SchedulerInit
    /\ FsmInit
    /\ published = UnpublishedMode
    /\ phase = "between" /\ steps = 0
    /\ evidence = InitialEvidence
    /\ now = 0
    /\ issued = [id \in JobIds |-> 0]
    /\ fired = [id \in JobIds |-> -1]
    /\ refused = {}

Slot(job) == (now - job.anchor) \div job.period

-----------------------------------------------------------------------------
(* The turn.                                                               *)

\* Where a turn goes from a position of the scheduler's loop.
Onward(table, position, events) ==
    /\ phase' = IF InTable(table, position, events) THEN "scanning"
                ELSE IF events = <<>> THEN "dispatching" ELSE "posting"
    /\ cursor' = IF InTable(table, position, events) THEN position ELSE 0

\* run_once calls scheduler_dispatch_due.
BeginTurn ==
    /\ phase = "between"
    /\ steps' = 0
    /\ Onward(jobs, 1, <<>>)
    /\ UNCHANGED <<queueVars, fsmVars, due, jobVars, evidence, now, refused>>

\* The events that the loop takes are posted when it has ended.
ScanJob ==
    /\ phase = "scanning"
    /\ LET job == jobs[cursor] IN
          \/ /\ Passes(now) \/ Skips(now)
             /\ UNCHANGED <<fired, refused>>
          \/ /\ Fires(now)
             /\ fired' = [fired EXCEPT ![job.id] = IF IsPeriodic(job) THEN Slot(job) ELSE 0]
             /\ refused' = refused \ {job.id}
    /\ Onward(jobs', NextPosition, due')
    /\ UNCHANGED <<queueVars, fsmVars, steps, issued, evidence, now>>

\* The result of the post is ignored: an event the queue refuses is gone.
PostDue ==
    /\ phase = "posting"
    /\ Queue!Post(Head(due))
    /\ due' = Tail(due)
    /\ phase' = IF Len(due) = 1 THEN "dispatching" ELSE "posting"
    /\ refused' = IF buffer' = buffer
                  THEN refused \cup {Head(due).payload.correlation} ELSE refused
    /\ UNCHANGED <<fsmVars, steps, cursor, jobVars, evidence, now>>

\* fsm_event_handler.  Another write transaction that is still open refuses the
\* begin, and the event is gone; when the write or the commit fails, the mode has
\* changed and the snapshot has not.  Every owner of the firmware closes its
\* transaction in the handler that opened it, so neither happens in the composition.
HandleFsmEvent(event) ==
    \/ "begin" \in WriteFaults /\ UNCHANGED fsmVars
    \/ /\ Dispatch(event.kind.id, event.kind.delivery, event.payload.generation, evidence)
       /\ \/ /\ mode' # mode
             /\ published' = [mode |-> mode', generation |-> mode_generation']
          \/ /\ mode' = mode \/ "commit" \in WriteFaults
             /\ UNCHANGED published

CanDispatch == steps < MaxSteps /\ steps < MaxDueEvents /\ buffer # <<>>

\* One iteration: dequeue, route to the owner, acknowledge a deadline event.
DispatchOne ==
    /\ phase = "dispatching"
    /\ CanDispatch
    /\ Queue!TryGet
    /\ \E i \in DOMAIN buffer :
          LET event == buffer[i] IN
          /\ Queue!IsSelected(buffer, consecutive, i)
          /\ IF event.kind \in FsmKinds
             THEN HandleFsmEvent(event)
             ELSE UNCHANGED fsmVars
          /\ jobs' = IF event.kind.delivery = "DEADLINE"
                     THEN Acknowledged(jobs, event.payload.correlation,
                                       event.payload.generation)
                     ELSE jobs
    /\ steps' = steps + 1
    /\ UNCHANGED <<phase, cursor, due, issued, fired, evidence, now, refused>>

\* system_request_reset does not return: the firmware starts again.
Reboot ==
    /\ buffer' = <<>> /\ consecutive' = 0 /\ critical_emergency' = FALSE
    /\ overflow_count' = 0 /\ starvation_count' = 0 /\ bypassed' = 0
    /\ latest' = [k \in FsmKinds \cup JobKinds |-> NoPayload]
    /\ jobs' = <<>>
    /\ mode' = "INIT" /\ mode_generation' = 1 /\ pending_actions' = {}
    /\ published' = UnpublishedMode
    /\ phase' = "between" /\ steps' = 0 /\ cursor' = 0 /\ due' = <<>>
    /\ evidence' = InitialEvidence
    /\ now' = 0
    /\ issued' = [id \in JobIds |-> 0]
    /\ fired' = [id \in JobIds |-> -1]
    /\ refused' = {}

\* The steps that the events left are spent on pending actions.  A handler
\* completes its action, or leaves it pending (PENDING and FAILED).
EndTurn ==
    /\ phase = "dispatching"
    /\ ~CanDispatch
    /\ LET attempted == Attempted(BoundActions, MaxSteps - steps) IN
          IF "REQUEST_RESET" \in attempted
          THEN Reboot
          ELSE /\ \E completed \in SUBSET attempted :
                     pending_actions' = pending_actions \ completed
               /\ phase' = "between"
               /\ UNCHANGED <<queueVars, mode, mode_generation, published, steps,
                              cursor, due, jobVars, evidence, now, refused>>

\* budget.max_exec_us ran out: events and actions wait for a later turn.
BudgetElapsed ==
    /\ phase = "dispatching"
    /\ phase' = "between"
    /\ UNCHANGED <<queueVars, fsmVars, steps, cursor, due, jobVars, evidence, now, refused>>

-----------------------------------------------------------------------------
(* The surroundings.                                                       *)

\* An interrupt or a service posts; a completion carries the generation its
\* request was made in, which may be over by now (0: read before a transition).
Produce ==
    /\ mode_generation <= MaxGeneration
    /\ \E kind \in FsmKinds :
       \E g \in IF kind.delivery = "COMPLETION"
                THEN {mode_generation - 1, mode_generation} ELSE {0} :
          Queue!Post(FsmEvent(kind, g))
    /\ UNCHANGED <<fsmVars, turnVars, jobVars, evidence, now, refused>>

InHandler == phase \in {"between", "dispatching"}

\* An owner never gives one job identifier the same generation twice.
ScheduleJob ==
    /\ InHandler
    /\ \E s \in JobSpecs :
          LET g == issued[s.id] + 1 IN
          /\ g <= MaxJobGeneration
          /\ IF s.period > 0
             THEN SchedulePeriodic(s.id, s.kind, now, s.period, s.policy, g, now)
             ELSE ScheduleOneShot(s.id, s.kind, now + 1, g)
          /\ issued' = [issued EXCEPT ![s.id] = g]
          /\ fired' = [fired EXCEPT ![s.id] = -1]
          /\ refused' = refused \ {s.id}
    /\ UNCHANGED <<queueVars, fsmVars, turnVars, evidence, now>>

CancelJob ==
    /\ InHandler
    /\ \E id \in JobIds : Cancel(id, issued[id])
    /\ UNCHANGED <<queueVars, fsmVars, turnVars, issued, fired, evidence, now, refused>>

\* mode_guard_publish.
PublishGuards ==
    /\ InHandler
    /\ evidence' \in EvidenceSets
    /\ UNCHANGED <<queueVars, fsmVars, turnVars, jobVars, now, refused>>

\* Time is read at the start of a turn only.
Tick ==
    /\ phase = "between" /\ now < MaxTime
    /\ now' = now + 1
    /\ UNCHANGED <<queueVars, fsmVars, turnVars, jobVars, evidence, refused>>

Turn == BeginTurn \/ ScanJob \/ PostDue \/ DispatchOne \/ EndTurn \/ BudgetElapsed

Next ==
    \/ Turn
    \/ Produce
    \/ ScheduleJob
    \/ CancelJob
    \/ PublishGuards
    \/ Tick

Spec == Init /\ [][Next]_vars

\* The main loop calls run_once for ever, and a turn finishes.  DispatchOne is
\* strongly fair: the first look at the clock comes after the posting of at most
\* MaxDueEvents events, which does not use up every turn's execution budget.
FairSpec ==
    /\ Spec
    /\ WF_vars(BeginTurn)
    /\ WF_vars(ScanJob)
    /\ WF_vars(PostDue)
    /\ SF_vars(DispatchOne)
    /\ WF_vars(EndTurn)

-----------------------------------------------------------------------------
TypeOK ==
    /\ buffer \in Seq([kind : FsmKinds \cup JobKinds, payload : Payload])
    /\ jobs \in Seq([id : JobIds, kind : JobKinds, policy : Policies, anchor : Nat,
                     period : Nat, deadline : Nat, generation : 1 .. MaxJobGeneration,
                     pending : BOOLEAN])
    /\ Len(jobs) <= MaxJobs
    /\ mode \in Modes /\ published \in [mode : Modes, generation : Nat]
    /\ pending_actions \subseteq Actions
    /\ phase \in {"between", "scanning", "posting", "dispatching"}
    /\ IF phase = "scanning" THEN cursor \in DOMAIN jobs /\ Len(due) < MaxDueEvents
       ELSE cursor = 0
    /\ steps \in 0 .. MaxSteps
    /\ due \in Seq([kind : JobKinds, payload : Payload])
    /\ phase = "posting" => due # <<>>
    /\ due # <<>> => phase \in {"scanning", "posting"}
    /\ refused \subseteq JobIds

\* The modes that each action prepares.
EntryModes ==
    {<<"START_NORMAL", "NORMAL">>, <<"ENTER_SERVICE", "SERVICE">>,
     <<"START_RECOVERY", "RECOVERY">>, <<"ENTER_ERROR", "ERROR">>,
     <<"PREPARE_LOW_POWER", "LOW_POWER">>, <<"RESUME_NORMAL", "NORMAL">>,
     <<"RESUME_NORMAL", "SERVICE">>, <<"REQUEST_RESET", "INIT">>}

\* An action that is still waiting (no handler, no budget, PENDING) is never run
\* in a mode it was not requested for (system_fsm.c:194 replaces the mask): the
\* platform is not told to sleep after a wake, nor to recover in ERROR.
PendingActionsFitMode == \A a \in pending_actions : <<a, mode>> \in EntryModes

CriticalErrorPending == \E i \in DOMAIN buffer : buffer[i].kind.id = "CRITICAL_ERROR"

\* An admitted critical error stops normal operation in the end, whatever else is
\* posted, whichever mode the device is in by then and however often the budget
\* runs out (system_fsm.c:64-98, where rows of a mode and ANY rows compete).
CriticalErrorIsHandled == CriticalErrorPending ~> mode \in {"ERROR", "INIT"}

\* The due events of one scheduled job among a sequence of events.
EventsOf(events, id, generation) ==
    {i \in DOMAIN events :
        /\ events[i].kind.delivery = "DEADLINE"
        /\ events[i].payload = [correlation |-> id, generation |-> generation]}

DueCount(id, generation) ==
    Cardinality(EventsOf(due, id, generation)) + Cardinality(EventsOf(buffer, id, generation))

\* scheduler.h:46, for the jobs that do not SKIP: a job is marked pending exactly
\* while its one due event waits to be consumed, or was refused by the queue;
\* the events of a cancelled job never acknowledge its replacement.
PendingMatchesOutstanding ==
    \A i \in DOMAIN jobs :
        LET job == jobs[i] IN
        job.policy # "SKIP" =>
            DueCount(job.id, job.generation) =
                IF job.pending /\ job.id \notin refused THEN 1 ELSE 0

\* No burst of missed periods (02_event_model_and_scheduler.md:543): a periodic
\* job fires at most once per period of its grid, however late the turns come.
NoCatchUpBurst ==
    [][/\ Len(due') > Len(due)
       /\ IsPeriodic(jobs[cursor])
       => fired[jobs[cursor].id] < Slot(jobs[cursor])]_vars

=============================================================================
