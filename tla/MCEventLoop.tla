----------------------------- MODULE MCEventLoop -----------------------------
(* Catalogues for EventLoop.                                               *)
EXTENDS EventLoop

FsmKind(id, delivery, priority) ==
    [id |-> id, source |-> 0, priority |-> priority, delivery |-> delivery]

\* Modes: the events that reach every mode and leave it.
ModeKinds ==
    {FsmKind("CRITICAL_ERROR", "EDGE", 0),
     FsmKind("INIT_COMPLETED", "COMPLETION", 0),
     FsmKind("SYSTEM_RECOVERY_REQUIRED", "EDGE", 0),
     FsmKind("RECOVERY_SUCCEEDED", "COMPLETION", 1),
     FsmKind("CONTROLLED_REINITIALIZE", "EDGE", 1),
     FsmKind("LOW_POWER_REQUEST", "EDGE", 4),
     FsmKind("WAKE", "EDGE", 0),
     FsmKind("SERVICE_REQUEST", "EDGE", 3),
     FsmKind("AUTHORIZED_RECOVERY_REQUEST", "EDGE", 3)}

NoJobs == {}
\* An FSM event beside the due events.
InitFailure == {FsmKind("CRITICAL_INIT_FAILURE", "EDGE", 0)}
ServiceEvidence == (InitialEvidence \ {"return_normal"})
                       \cup {"service_authorized", "service_ready", "return_service"}
TwoEvidences == {InitialEvidence, ServiceEvidence}
ServiceAndReset == {"ENTER_SERVICE", "REQUEST_RESET"}

\* Jobs: the power sample of app_composition_init, a measurement job that must
\* not miss its sample, and a timeout.
JobKind(id, priority) ==
    [id |-> id, source |-> 1, priority |-> priority, delivery |-> "DEADLINE"]

PowerJob == [id |-> 1, kind |-> JobKind("POWER_SAMPLE_DUE", 4), period |-> 1, policy |-> "SKIP"]
SampleJob == [id |-> 2, kind |-> JobKind("PRESSURE_SAMPLE_DUE", 1), period |-> 1,
              policy |-> "SIGNAL_ONCE"]
TimeoutJob == [id |-> 3, kind |-> JobKind("PRESSURE_TIMEOUT", 1), period |-> 0, policy |-> "SKIP"]

ThreeJobs == {PowerJob, SampleJob, TimeoutJob}
OneEvidence == {InitialEvidence}
ResetOnly == {"REQUEST_RESET"}
=============================================================================
