------------------------------ MODULE SystemFsm ------------------------------
(***************************************************************************)
(* The system mode manager (app/system_fsm.c): the transition table, its   *)
(* first-match search under the guard evidence, the generation check of    *)
(* completions, and the mask of requested entry actions.                   *)
(* transition_sequence moves with mode_generation and last_record is never *)
(* read by the firmware: both are left out.                                *)
(***************************************************************************)
EXTENDS Integers, Sequences, SequencesExt

VARIABLES
    mode,              \* current_mode
    mode_generation,   \* uint32_t, far from its wrap
    pending_actions    \* the mask, as a set of action names

Modes == {"INIT", "NORMAL", "LOW_POWER", "SERVICE", "RECOVERY", "ERROR"}

\* FsmActionMask in bit order, the order in which the executor serves them.
ActionOrder == <<"START_NORMAL", "ENTER_SERVICE", "START_RECOVERY", "ENTER_ERROR",
                 "PREPARE_LOW_POWER", "RESUME_NORMAL", "REQUEST_RESET">>
Actions == ToSet(ActionOrder)

\* Event 0 of the table: matches every event.
AnyEvent == "ANY"

Row(event, from, to, actions, guards) ==
    [event |-> event, from |-> from, to |-> to, actions |-> actions, guards |-> guards]

TransitionTable == <<
    Row("INIT_COMPLETED", "INIT", "NORMAL", {"START_NORMAL"}, {"core_ready"}),
    Row("SERVICE_REQUEST", "INIT", "SERVICE", {"ENTER_SERVICE"},
        {"service_ready", "service_authorized"}),
    Row("RECOVERABLE_INIT_FAILURE", "INIT", "RECOVERY", {"START_RECOVERY"},
        {"recovery_can_run"}),
    Row("CRITICAL_INIT_FAILURE", "INIT", "ERROR", {"ENTER_ERROR"}, {}),
    Row(AnyEvent, "INIT", "INIT", {}, {}),

    Row("LOW_POWER_REQUEST", "NORMAL", "LOW_POWER", {"PREPARE_LOW_POWER"},
        {"no_critical_blocker", "wake_sources_armed"}),
    Row("LOW_POWER_REQUEST", "NORMAL", "NORMAL", {}, {}),
    Row("SERVICE_REQUEST", "NORMAL", "SERVICE", {"ENTER_SERVICE"},
        {"service_authorized", "safe_service_boundary"}),
    Row("SYSTEM_RECOVERY_REQUIRED", "NORMAL", "RECOVERY", {"START_RECOVERY"},
        {"recovery_can_run"}),
    Row("CRITICAL_ERROR", "NORMAL", "ERROR", {"ENTER_ERROR"}, {}),
    Row("CONNECTIVITY_CHANGED", "NORMAL", "NORMAL", {}, {}),
    Row(AnyEvent, "NORMAL", "NORMAL", {}, {}),

    Row("WAKE", "LOW_POWER", "NORMAL", {"RESUME_NORMAL"}, {}),
    Row("SERVICE_REQUEST", "LOW_POWER", "SERVICE", {"RESUME_NORMAL", "ENTER_SERVICE"},
        {"service_authorized"}),
    Row("CRITICAL_ERROR", "LOW_POWER", "ERROR", {"ENTER_ERROR"}, {}),
    Row(AnyEvent, "LOW_POWER", "LOW_POWER", {}, {}),

    Row("SERVICE_EXIT", "SERVICE", "NORMAL", {"START_NORMAL"}, {"safe_to_resume_normal"}),
    Row("SYSTEM_RECOVERY_REQUIRED", "SERVICE", "RECOVERY", {"START_RECOVERY"},
        {"recovery_can_run"}),
    Row("CRITICAL_ERROR", "SERVICE", "ERROR", {"ENTER_ERROR"}, {}),
    Row(AnyEvent, "SERVICE", "SERVICE", {}, {}),

    Row("RECOVERY_SUCCEEDED", "RECOVERY", "NORMAL", {"RESUME_NORMAL"}, {"return_normal"}),
    Row("RECOVERY_SUCCEEDED", "RECOVERY", "SERVICE", {"ENTER_SERVICE"}, {"return_service"}),
    Row("RECOVERY_FAILED", "RECOVERY", "ERROR", {"ENTER_ERROR"}, {}),
    Row("CRITICAL_ERROR", "RECOVERY", "ERROR", {"ENTER_ERROR"}, {}),
    Row(AnyEvent, "RECOVERY", "RECOVERY", {}, {}),

    Row("AUTHORIZED_RECOVERY_REQUEST", "ERROR", "RECOVERY", {"START_RECOVERY"},
        {"recovery_can_run"}),
    Row("CONTROLLED_REINITIALIZE", "ERROR", "INIT", {"REQUEST_RESET"},
        {"reinitialize_allowed"}),
    Row(AnyEvent, "ERROR", "ERROR", {}, {}) >>

FsmInit ==
    /\ mode = "INIT"
    /\ mode_generation = 1
    /\ pending_actions = {}

\* Mutant: the RECOVERY wildcard hides the rows of that mode.
MatchesWildcardFirst(row, id, evidence) ==
    /\ row.from = mode
    /\ row.event = AnyEvent \/ (row.event = id /\ mode # "RECOVERY")
    /\ row.guards \subseteq evidence

Matches(row, id, evidence) ==
    /\ row.from = mode
    /\ row.event \in {AnyEvent, id}
    /\ row.guards \subseteq evidence

\* The first matching row decides; the ANY rows leave no event without one, so
\* the unhandled-event policy after the search is never reached.
IsMatch(i, id, evidence) ==
    /\ Matches(TransitionTable[i], id, evidence)
    /\ \A j \in 1 .. (i - 1) : ~Matches(TransitionTable[j], id, evidence)

\* A completion of another mode generation; 0 means that the source has none.
IsStale(delivery, generation) ==
    delivery = "COMPLETION" /\ generation \notin {0, mode_generation}

\* Mutant: actions are added to the mask instead of replacing it.
RequestedBesideOld(row) == pending_actions \cup row.actions

Requested(row) == row.actions

Stay == UNCHANGED <<mode, mode_generation, pending_actions>>

\* FSM_TRANSITION_COMMITTED; ERROR -> NORMAL is refused whatever the table says.
Commit(row) ==
    /\ row.to # row.from
    /\ ~(row.from = "ERROR" /\ row.to = "NORMAL")
    /\ mode' = row.to
    /\ mode_generation' = mode_generation + 1
    /\ pending_actions' = Requested(row)

\* system_fsm_dispatch.
Dispatch(id, delivery, generation, evidence) ==
    IF IsStale(delivery, generation) THEN Stay
    ELSE \E i \in DOMAIN TransitionTable :
            /\ IsMatch(i, id, evidence)
            /\ IF TransitionTable[i].to = mode THEN Stay
               ELSE Commit(TransitionTable[i])

\* fsm_action_executor_run: bound actions are attempted in bit order, at most
\* limit of them; an action without a handler is passed over and stays pending.
Attempted(bound, limit) ==
    LET runnable == SelectSeq(ActionOrder, LAMBDA a : a \in pending_actions \cap bound)
    IN  {runnable[k] : k \in DOMAIN runnable \cap 1 .. limit}
=============================================================================
