---------------------------- MODULE LeakDetection ----------------------------
(***************************************************************************)
(* The leak detector (services/leak/leak_detection.c) and its evidence     *)
(* trackers (leak_tracker.c): which samples raise the leak state and which *)
(* clear it.  The pressure trackers, which only set evidence flags, and    *)
(* what a result reports beside its state are left out.                    *)
(***************************************************************************)
EXTENDS Integers

CONSTANTS
    Configs,       \* the configurations that may be applied
    Flows,         \* the flows of usable samples, negative when the water runs back
    MaxTime,       \* bound: time
    SampleNumbers, \* sample numbers: two, as they are only compared with the last
    MaxGeneration  \* bound: resets

Rules == {"CONTINUOUS", "BURST"}

Durations == Nat \ {0}

\* Thresholds, and for how long a flow must be beyond them.  Clear durations may be
\* zero: LeakConfig_Validate does not look at them.
Config == [entry : [Rules -> Int], low : [Rules -> Int],
           enter : [Rules -> Durations], clear : [Rules -> Nat],
           confirm : Durations, gap : Nat]

\* LeakConfig_Validate, of what is modelled.  It does not compare the clear threshold
\* of one rule with the thresholds of the other.
IsValid(c) ==
    /\ \A r \in Rules : c.low[r] < c.entry[r]
    /\ c.entry["CONTINUOUS"] < c.entry["BURST"]
    /\ c.confirm >= c.enter["CONTINUOUS"]

ASSUME ConfigsAssumption == Configs # {} /\ \A c \in Configs : c \in Config /\ IsValid(c)
ASSUME FlowsAssumption == Flows \subseteq Int
ASSUME BoundsAssumption == MaxTime \in Nat /\ SampleNumbers \subseteq Durations /\ MaxGeneration \in Nat

VARIABLES
    now,           \* monotonic time of the evaluation, never zero
    cfg,           \* svc.cfg
    state,         \* svc.state
    trackers,      \* svc.continuous_tracker and svc.burst_tracker
    last,          \* svc.last_flow_sequence
    generation,    \* svc.runtime_generation
    clearing,      \* history: when the run of samples began that may clear the
                   \* continuous rule, zero if the last one was none
    broken         \* history: an unusable or a reverse sample came into that run

history == <<clearing, broken>>
vars == <<now, cfg, state, trackers, last, generation, clearing, broken>>

Phases == {"INACTIVE", "PENDING", "ACTIVE", "CLEAR_PENDING", "SUSPENDED"}

\* LeakTracker_Init.  "count" is activation_count, "seen" last_usable_sample_us.
Fresh == [phase |-> "INACTIVE", from |-> "INACTIVE", entered |-> 0, since |-> 0,
          cleared |-> 0, seen |-> 0, count |-> 0]

AllFresh == [r \in Rules |-> Fresh]

Init ==
    /\ now = 1 /\ cfg \in Configs
    /\ state = "NORMAL" /\ trackers = AllFresh
    /\ last = 0 /\ generation = 1
    /\ clearing = 0 /\ broken = FALSE

-----------------------------------------------------------------------------
(* The evidence in a flow.                                                 *)

\* Not valid, fresh and accepted: neither condition is looked at.
Unusable == [usable |-> FALSE, flow |-> 0]

Samples == {Unusable} \cup [usable : {TRUE}, flow : Flows]

IsReverse(flow) == flow < 0

\* A burst is none of the continuous rule's flows; the direction is the flow's sign.
Entering(r, flow) ==
    /\ flow > 0 /\ flow >= cfg.entry[r]
    /\ r = "CONTINUOUS" => flow < cfg.entry["BURST"]

\* The direction is not asked.
Clearing(r, flow) == flow <= cfg.low[r]

-----------------------------------------------------------------------------
(* LeakTracker_Evaluate.                                                   *)

Suspended(t) ==
    IF t.phase \in {"INACTIVE", "SUSPENDED"} THEN t
    ELSE [t EXCEPT !.from = t.phase, !.phase = "SUSPENDED"]

\* Only a tracker that was never activated is given up for a gap.
IsGivenUp(t) ==
    /\ t.phase # "INACTIVE" /\ t.count = 0
    /\ t.seen > 0 /\ now - t.seen > cfg.gap

Interrupted(t) == IF IsGivenUp(t) THEN Fresh ELSE Suspended(t)

Resumed(t) ==
    IF t.phase = "SUSPENDED"
    THEN [t EXCEPT !.seen = now, !.phase = t.from, !.from = "INACTIVE"]
    ELSE [t EXCEPT !.seen = now]

ClearBegins(t) == [t EXCEPT !.phase = "CLEAR_PENDING", !.cleared = now]

FromInactive(t, r, flow) ==
    IF Entering(r, flow) THEN [t EXCEPT !.phase = "PENDING", !.entered = now] ELSE t

FromPending(t, r, flow) ==
    IF ~Entering(r, flow) THEN IF Clearing(r, flow) THEN ClearBegins(t) ELSE Fresh
    ELSE IF now - t.entered >= cfg.enter[r]
    THEN [t EXCEPT !.phase = "ACTIVE", !.since = now, !.count = @ + 1]
    ELSE t

FromActive(t, r, flow) == IF Clearing(r, flow) THEN ClearBegins(t) ELSE t

\* Mutant: a flow between the thresholds leaves the clear timer running.
FromClearPendingOverBand(t, r, flow) ==
    IF Entering(r, flow) THEN [t EXCEPT !.phase = "ACTIVE"]
    ELSE IF now - t.cleared >= cfg.clear[r] THEN Fresh
    ELSE t

FromClearPending(t, r, flow) ==
    IF Entering(r, flow) \/ ~Clearing(r, flow) THEN [t EXCEPT !.phase = "ACTIVE"]
    ELSE IF now - t.cleared >= cfg.clear[r] THEN Fresh
    ELSE t

Usable(t, r, flow) ==
    IF t.phase = "INACTIVE" THEN FromInactive(t, r, flow)
    ELSE IF t.phase = "PENDING" THEN FromPending(t, r, flow)
    ELSE IF t.phase = "ACTIVE" THEN FromActive(t, r, flow)
    ELSE FromClearPending(t, r, flow)

Tracked(r, sample) ==
    IF sample.usable THEN Usable(Resumed(trackers[r]), r, sample.flow) ELSE Interrupted(trackers[r])

-----------------------------------------------------------------------------
(* build_result: three tests, each on what the last one left.              *)

Raised(s, ts) ==
    IF s = "NORMAL" /\ ts["BURST"].phase = "ACTIVE" THEN "CONFIRMED"
    ELSE IF s = "NORMAL" /\ ts["CONTINUOUS"].phase = "ACTIVE" THEN "SUSPECTED"
    ELSE s

HasLasted(t) == t.since > 0 /\ now - t.since >= cfg.confirm

Settled(s, ts) ==
    IF s # "SUSPECTED" THEN s
    ELSE IF ts["BURST"].phase = "ACTIVE" THEN "CONFIRMED"
    ELSE IF ts["CONTINUOUS"].phase = "ACTIVE" /\ HasLasted(ts["CONTINUOUS"]) THEN "CONFIRMED"
    ELSE IF ts["CONTINUOUS"].phase = "INACTIVE" THEN "NORMAL"
    ELSE s

Released(s, ts) ==
    IF s = "CONFIRMED" /\ \A r \in Rules : ts[r].phase = "INACTIVE" THEN "NORMAL" ELSE s

-----------------------------------------------------------------------------
(* The operations.                                                         *)

\* An older sample than the last is taken as new.
IsDuplicate(sequence, source) == sequence = last /\ source = generation

\* What the sample means for a clear of the continuous rule.
Witnessed(sample) ==
    IF ~sample.usable THEN clearing' = 0 /\ broken' = (broken \/ clearing > 0)
    ELSE IF IsReverse(sample.flow) THEN clearing' = 0 /\ broken' = TRUE
    ELSE IF ~Clearing("CONTINUOUS", sample.flow) THEN clearing' = 0 /\ broken' = FALSE
    ELSE clearing' = (IF clearing = 0 THEN now ELSE clearing) /\ broken' = broken

\* LeakDetection_Evaluate.
Evaluate(sample, sequence, source) ==
    /\ ~IsDuplicate(sequence, source) /\ last' = sequence
    /\ trackers' = [r \in Rules |-> Tracked(r, sample)]
    /\ state' = Released(Settled(Raised(state, trackers'), trackers'), trackers')
    /\ Witnessed(sample)
    /\ UNCHANGED <<now, cfg, generation>>

\* Mutant: the trackers of a confirmed leak are reset too.
ApplyConfigResetsAll(c) ==
    /\ cfg' = c
    /\ trackers' = AllFresh
    /\ UNCHANGED <<now, state, last, generation, history>>

\* LeakDetection_ApplyConfig.
ApplyConfig(c) ==
    /\ cfg' = c
    /\ trackers' = IF state = "CONFIRMED" THEN trackers ELSE AllFresh
    /\ UNCHANGED <<now, state, last, generation, history>>

\* LeakDetection_Reset.
Reset ==
    /\ generation < MaxGeneration /\ generation' = generation + 1
    /\ state' = "NORMAL" /\ trackers' = AllFresh /\ last' = 0
    /\ UNCHANGED <<now, cfg, history>>

Tick == now < MaxTime /\ now' = now + 1 /\ UNCHANGED <<cfg, state, trackers, last, generation, history>>

Next ==
    \/ \E sample \in Samples, sequence \in SampleNumbers, source \in 1 .. MaxGeneration :
           Evaluate(sample, sequence, source)
    \/ \E c \in Configs : ApplyConfig(c)
    \/ Reset
    \/ Tick

Spec == Init /\ [][Next]_vars

-----------------------------------------------------------------------------
(* Properties.                                                             *)

\* Whatever is reset, suspended or reconfigured between evaluations, the state and
\* the trackers agree: an active burst is reported as confirmed, an active
\* continuous flow at least as suspected, and a confirmed leak has a tracker that
\* can still clear it.
StateFitsEvidence ==
    /\ trackers["BURST"].phase = "ACTIVE" => state = "CONFIRMED"
    /\ trackers["CONTINUOUS"].phase = "ACTIVE" => state # "NORMAL"
    /\ state = "CONFIRMED" => \E r \in Rules : trackers[r].phase # "INACTIVE"

\* An evaluation lets a suspicion raised by an entry of full duration go only when every
\* sample for the rule's clear duration met the clear condition: no flow between the
\* thresholds, no stale start of the timer, no suspension on the way to the clearing and
\* no gap of whatever length shortens that.  The exception is what the code adds to its
\* document: an unusable or a reverse sample in that time does not stop the timer.
SuspicionClearsByEvidence ==
    [][(/\ state = "SUSPECTED" /\ trackers["CONTINUOUS"].count > 0
        /\ trackers'["CONTINUOUS"].phase = "INACTIVE")
       => \A sample \in Samples, sequence \in SampleNumbers, source \in 1 .. MaxGeneration :
             Evaluate(sample, sequence, source) =>
                 /\ sample.usable
                 /\ broken' \/ (clearing' > 0 /\ now - clearing' >= cfg.clear["CONTINUOUS"])]_vars
=============================================================================
