------------------------------ MODULE LeakProof ------------------------------
(***************************************************************************)
(* Proofs about LeakDetection, for any configurations, times and numbers.  *)
(* The state agrees with the trackers after every operation because        *)
(* Evaluate derives it from them; that a suspicion is cleared by evidence  *)
(* needs what a running clear timer knows: Sound below.                    *)
(***************************************************************************)
EXTENDS LeakDetection, TLAPS

Tracker == [phase : Phases, from : Phases, entered : Nat, since : Nat,
            cleared : Nat, seen : Nat, count : Nat]

TypeOK ==
    /\ now \in Durations /\ cfg \in Configs
    /\ state \in {"NORMAL", "SUSPECTED", "CONFIRMED"}
    /\ trackers \in [Rules -> Tracker]
    /\ clearing \in Nat /\ broken \in BOOLEAN
    /\ generation \in Nat

\* The phase a tracker is in, or will resume in.
Standing(t) == IF t.phase = "SUSPENDED" THEN t.from ELSE t.phase

\* What holds of one tracker t, of a rule whose samples may clear it since c, unless
\* they were broken into.  A tracker resumes in a phase of its own; one that never got
\* past its entry was not activated; a running clear timer began no earlier than c.
Sound(t, c, b) ==
    /\ t.phase = "SUSPENDED" => t.from \in {"PENDING", "ACTIVE", "CLEAR_PENDING"}
    /\ Standing(t) \in {"INACTIVE", "PENDING"} => t.count = 0
    /\ Standing(t) = "CLEAR_PENDING" => b \/ (c > 0 /\ c <= t.cleared)

\* The history is of the continuous rule; of the other one nothing is claimed.
Excused(r, b) == r = "BURST" \/ b

IInv ==
    /\ TypeOK
    /\ StateFitsEvidence
    /\ clearing <= now
    /\ \A r \in Rules : Sound(trackers[r], clearing, Excused(r, broken))

\* A tracker that was activated and is now inactive had its clear duration.
ByEvidence(t, u, r, c, b) ==
    (t.count > 0 /\ u.phase = "INACTIVE") => b \/ (c > 0 /\ now - c >= cfg.clear[r])

-----------------------------------------------------------------------------
(* One tracker and one sample.                                             *)

LEMMA ConfigType ==
    ASSUME TypeOK, NEW r \in Rules
    PROVE  cfg.enter[r] \in Nat /\ cfg.clear[r] \in Nat /\ cfg.gap \in Nat /\ cfg.confirm \in Nat
<1>1. cfg \in Config
  BY ConfigsAssumption DEF TypeOK
<1> QED
  BY <1>1 DEF Config, Durations

LEMMA FreshIsSound ==
    ASSUME NEW c, NEW b
    PROVE  Fresh \in Tracker /\ Sound(Fresh, c, b) /\ Fresh.phase = "INACTIVE"
BY DEF Fresh, Tracker, Phases, Sound, Standing

\* An unusable sample gives up only what was never activated.
LEMMA InterruptedIsSound ==
    ASSUME TypeOK, NEW t \in Tracker, NEW c \in Nat, NEW b \in BOOLEAN, Sound(t, c, b),
           NEW d \in Nat, NEW e \in BOOLEAN, b \/ c > 0 => e
    PROVE  /\ Interrupted(t) \in Tracker
           /\ Sound(Interrupted(t), d, e)
           /\ t.count > 0 => Interrupted(t).phase # "INACTIVE"
<1>1. CASE IsGivenUp(t)
  <2>1. Interrupted(t) = Fresh /\ ~(t.count > 0)
    BY <1>1 DEF Interrupted, IsGivenUp
  <2> QED
    BY <2>1, FreshIsSound
<1>2. CASE ~IsGivenUp(t) /\ t.phase \in {"INACTIVE", "SUSPENDED"}
  <2>1. Interrupted(t) = t
    BY <1>2 DEF Interrupted, Suspended
  <2>2. t.phase = "INACTIVE" => t.count = 0
    BY DEF Sound, Standing
  <2> QED
    BY <1>2, <2>1, <2>2 DEF Sound, Standing
<1>3. CASE ~IsGivenUp(t) /\ t.phase \notin {"INACTIVE", "SUSPENDED"}
  <2>1. Interrupted(t) = [t EXCEPT !.from = t.phase, !.phase = "SUSPENDED"]
    BY <1>3 DEF Interrupted, Suspended
  <2>2. t.phase \in {"PENDING", "ACTIVE", "CLEAR_PENDING"}
    BY <1>3 DEF Tracker, Phases
  <2>3. Interrupted(t) \in Tracker
    BY <2>1, <2>2 DEF Tracker, Phases
  <2>4. /\ Interrupted(t).phase = "SUSPENDED" /\ Interrupted(t).from = t.phase
        /\ Interrupted(t).count = t.count /\ Interrupted(t).cleared = t.cleared
    BY <2>1 DEF Tracker
  <2> QED
    BY <2>2, <2>3, <2>4 DEF Sound, Standing
<1> QED
  BY <1>1, <1>2, <1>3

\* A tracker that resumes stands where it stood.
LEMMA ResumedIsSound ==
    ASSUME TypeOK, NEW t \in Tracker, NEW c \in Nat, NEW b \in BOOLEAN, Sound(t, c, b)
    PROVE  /\ Resumed(t) \in Tracker
           /\ Sound(Resumed(t), c, b)
           /\ Resumed(t).phase \in {"INACTIVE", "PENDING", "ACTIVE", "CLEAR_PENDING"}
           /\ Resumed(t).count = t.count
<1>0. now \in Nat
  BY DEF TypeOK, Durations
<1>1. CASE t.phase = "SUSPENDED"
  <2>1. Resumed(t) = [t EXCEPT !.seen = now, !.phase = t.from, !.from = "INACTIVE"]
    BY <1>1 DEF Resumed
  <2>2. t.from \in {"PENDING", "ACTIVE", "CLEAR_PENDING"}
    BY <1>1 DEF Sound
  <2>3. Resumed(t) \in Tracker
    BY <1>0, <2>1, <2>2 DEF Tracker, Phases
  <2>4. /\ Resumed(t).phase = t.from
        /\ Resumed(t).count = t.count /\ Resumed(t).cleared = t.cleared
    BY <2>1 DEF Tracker
  <2> QED
    BY <1>1, <2>2, <2>3, <2>4 DEF Sound, Standing
<1>2. CASE t.phase # "SUSPENDED"
  <2>1. Resumed(t) = [t EXCEPT !.seen = now]
    BY <1>2 DEF Resumed
  <2>2. Resumed(t) \in Tracker
    BY <1>0, <2>1 DEF Tracker
  <2>3. /\ Resumed(t).phase = t.phase /\ Resumed(t).from = t.from
        /\ Resumed(t).count = t.count /\ Resumed(t).cleared = t.cleared
    BY <2>1 DEF Tracker
  <2>4. t.phase \in {"INACTIVE", "PENDING", "ACTIVE", "CLEAR_PENDING"}
    BY <1>2 DEF Tracker, Phases
  <2> QED
    BY <1>2, <2>2, <2>3, <2>4 DEF Sound, Standing
<1> QED
  BY <1>1, <1>2

\* A clear timer that starts now, for a rule whose history is c and not later.
LEMMA ClearBeginsIsSound ==
    ASSUME TypeOK, NEW t \in Tracker, NEW c \in Nat, NEW b \in BOOLEAN, b \/ (c > 0 /\ c <= now)
    PROVE  /\ ClearBegins(t) \in Tracker
           /\ Sound(ClearBegins(t), c, b)
           /\ ClearBegins(t).phase = "CLEAR_PENDING"
<1>0. now \in Nat
  BY DEF TypeOK, Durations
<1>1. ClearBegins(t) \in Tracker
  BY <1>0 DEF ClearBegins, Tracker, Phases
<1>2. ClearBegins(t).phase = "CLEAR_PENDING" /\ ClearBegins(t).cleared = now
  BY DEF ClearBegins, Tracker
<1> QED
  BY <1>1, <1>2 DEF Sound, Standing

\* The history <<d, e>> after a usable sample that clears, from <<c, b>> before it.
Follows(c, b, d, e) ==
    /\ b => e
    /\ e \/ (d > 0 /\ d <= now /\ (c > 0 => d = c))

\* A usable sample: a clear timer is started with its history, and only a timer that
\* has run for the clear duration resets a tracker that was activated.
LEMMA UsableIsSound ==
    ASSUME TypeOK, NEW r \in Rules, NEW flow, NEW t \in Tracker,
           NEW c \in Nat, NEW b \in BOOLEAN, Sound(t, c, b),
           NEW d \in Nat, NEW e \in BOOLEAN, Clearing(r, flow) => Follows(c, b, d, e),
           t.phase \in {"INACTIVE", "PENDING", "ACTIVE", "CLEAR_PENDING"}
    PROVE  /\ Usable(t, r, flow) \in Tracker
           /\ Sound(Usable(t, r, flow), d, e)
           /\ ByEvidence(t, Usable(t, r, flow), r, d, e)
<1>0. now \in Nat /\ cfg.enter[r] \in Nat /\ cfg.clear[r] \in Nat
  BY ConfigType DEF TypeOK, Durations
<1>a. LET u == [t EXCEPT !.phase = "ACTIVE"] IN
      u \in Tracker /\ Sound(u, d, e) /\ ByEvidence(t, u, r, d, e)
  <2> DEFINE u == [t EXCEPT !.phase = "ACTIVE"]
  <2>1. u \in Tracker /\ u.phase = "ACTIVE"
    BY DEF Tracker, Phases
  <2> QED
    BY <2>1 DEF Sound, Standing, ByEvidence
<1>b. ASSUME Clearing(r, flow)
      PROVE  /\ ClearBegins(t) \in Tracker /\ Sound(ClearBegins(t), d, e)
             /\ ByEvidence(t, ClearBegins(t), r, d, e)
  <2>1. e \/ (d > 0 /\ d <= now)
    BY <1>b DEF Follows
  <2> QED
    BY <2>1, ClearBeginsIsSound DEF ByEvidence
<1>1. CASE t.phase = "INACTIVE"
  <2>0. t.count = 0
    BY <1>1 DEF Sound, Standing
  <2>1. CASE Entering(r, flow)
    <3>1. Usable(t, r, flow) = [t EXCEPT !.phase = "PENDING", !.entered = now]
      BY <1>1, <2>1 DEF Usable, FromInactive
    <3>2. [t EXCEPT !.phase = "PENDING", !.entered = now] \in Tracker
      BY <1>0 DEF Tracker, Phases
    <3>3. /\ [t EXCEPT !.phase = "PENDING", !.entered = now].phase = "PENDING"
          /\ [t EXCEPT !.phase = "PENDING", !.entered = now].count = t.count
      BY DEF Tracker
    <3> QED
      BY <2>0, <3>1, <3>2, <3>3 DEF Sound, Standing, ByEvidence
  <2>2. CASE ~Entering(r, flow)
    <3>1. Usable(t, r, flow) = t
      BY <1>1, <2>2 DEF Usable, FromInactive
    <3> QED
      BY <1>1, <2>0, <3>1 DEF Sound, Standing, ByEvidence
  <2> QED
    BY <2>1, <2>2
<1>2. CASE t.phase = "PENDING"
  <2>0. t.count = 0
    BY <1>2 DEF Sound, Standing
  <2>1. CASE ~Entering(r, flow) /\ Clearing(r, flow)
    <3>1. Usable(t, r, flow) = ClearBegins(t)
      BY <1>2, <2>1 DEF Usable, FromPending
    <3> QED
      BY <2>1, <3>1, <1>b
  <2>2. CASE ~Clearing(r, flow) /\ ~Entering(r, flow)
    <3>1. Usable(t, r, flow) = Fresh
      BY <1>2, <2>2 DEF Usable, FromPending
    <3> QED
      BY <2>0, <3>1, FreshIsSound DEF ByEvidence
  <2>3. CASE Entering(r, flow) /\ now - t.entered >= cfg.enter[r]
    <3> DEFINE u == [t EXCEPT !.phase = "ACTIVE", !.since = now, !.count = @ + 1]
    <3>1. Usable(t, r, flow) = u
      BY <1>2, <2>3 DEF Usable, FromPending
    <3>n. t.count + 1 \in Nat
      BY DEF Tracker
    <3>2. u \in Tracker
      BY <1>0, <3>n DEF Tracker, Phases
    <3>3. u.phase = "ACTIVE"
      BY DEF Tracker
    <3> HIDE DEF u
    <3> QED
      BY <3>1, <3>2, <3>3 DEF Sound, Standing, ByEvidence
  <2>4. CASE Entering(r, flow) /\ ~(now - t.entered >= cfg.enter[r])
    <3>1. Usable(t, r, flow) = t
      BY <1>2, <2>4 DEF Usable, FromPending
    <3> QED
      BY <1>2, <2>0, <3>1 DEF Sound, Standing, ByEvidence
  <2> QED
    BY <2>1, <2>2, <2>3, <2>4
<1>3. CASE t.phase = "ACTIVE"
  <2>1. CASE Clearing(r, flow)
    <3>1. Usable(t, r, flow) = ClearBegins(t)
      BY <1>3, <2>1 DEF Usable, FromActive
    <3> QED
      BY <2>1, <3>1, <1>b
  <2>2. CASE ~Clearing(r, flow)
    <3>1. Usable(t, r, flow) = t
      BY <1>3, <2>2 DEF Usable, FromActive
    <3> QED
      BY <1>3, <3>1 DEF Sound, Standing, ByEvidence
  <2> QED
    BY <2>1, <2>2
<1>4. CASE t.phase = "CLEAR_PENDING"
  <2>0. (b \/ (c > 0 /\ c <= t.cleared)) /\ t.cleared \in Nat
    BY <1>4 DEF Sound, Standing, Tracker
  <2>1. CASE Entering(r, flow) \/ ~Clearing(r, flow)
    <3>1. Usable(t, r, flow) = [t EXCEPT !.phase = "ACTIVE"]
      BY <1>4, <2>1 DEF Usable, FromClearPending
    <3> QED
      BY <3>1, <1>a
  <2>c. ASSUME Clearing(r, flow)
        PROVE  e \/ (d > 0 /\ d <= t.cleared)
    BY <2>0, <2>c DEF Follows
  <2>2. CASE /\ ~Entering(r, flow) /\ Clearing(r, flow)
             /\ now - t.cleared >= cfg.clear[r]
    <3>1. Usable(t, r, flow) = Fresh
      BY <1>4, <2>2 DEF Usable, FromClearPending
    <3>2. e \/ (d > 0 /\ now - d >= cfg.clear[r])
      BY <1>0, <2>0, <2>2, <2>c
    <3> QED
      BY <3>1, <3>2, FreshIsSound DEF ByEvidence
  <2>3. CASE /\ ~Entering(r, flow) /\ Clearing(r, flow)
             /\ ~(now - t.cleared >= cfg.clear[r])
    <3>1. Usable(t, r, flow) = t
      BY <1>4, <2>3 DEF Usable, FromClearPending
    <3> QED
      BY <1>4, <2>3, <2>c, <3>1 DEF Sound, Standing, ByEvidence
  <2> QED
    BY <2>1, <2>2, <2>3
<1> QED
  BY <1>1, <1>2, <1>3, <1>4

LEMMA TrackedIsSound ==
    ASSUME IInv, NEW r \in Rules, NEW sample, Witnessed(sample)
    PROVE  /\ clearing' \in Nat /\ clearing' <= now /\ broken' \in BOOLEAN
           /\ Tracked(r, sample) \in Tracker
           /\ Sound(Tracked(r, sample), clearing', Excused(r, broken'))
           /\ ByEvidence(trackers[r], Tracked(r, sample), r, clearing', Excused(r, broken'))
           /\ trackers[r].count > 0 /\ Tracked(r, sample).phase = "INACTIVE" => sample.usable
<1>0. /\ TypeOK /\ now \in Nat /\ now > 0 /\ trackers[r] \in Tracker
      /\ clearing \in Nat /\ clearing <= now /\ broken \in BOOLEAN
      /\ Sound(trackers[r], clearing, Excused(r, broken))
  BY DEF IInv, TypeOK, Durations
<1>1. PICK d, e : d = clearing' /\ e = broken'
  OBVIOUS
<1>2. d \in Nat /\ d <= now /\ e \in BOOLEAN
  <2>1. e \in BOOLEAN
    BY <1>0, <1>1, Zenon DEF Witnessed
  <2>2. d \in {0, now, clearing}
    BY <1>1 DEF Witnessed
  <2> QED
    BY <1>0, <2>1, <2>2
<1>3. Excused(r, broken) \in BOOLEAN /\ Excused(r, e) \in BOOLEAN
  BY DEF Excused
<1>4. CASE ~sample.usable
  <2>1. Tracked(r, sample) = Interrupted(trackers[r])
    BY <1>4 DEF Tracked
  <2>2. Excused(r, broken) \/ clearing > 0 => Excused(r, e)
    BY <1>1, <1>4 DEF Witnessed, Excused
  <2>3. /\ Interrupted(trackers[r]) \in Tracker
        /\ Sound(Interrupted(trackers[r]), d, Excused(r, e))
        /\ trackers[r].count > 0 => Interrupted(trackers[r]).phase # "INACTIVE"
    BY <1>0, <1>2, <1>3, <2>2, InterruptedIsSound
  <2> QED
    BY <1>1, <1>2, <2>1, <2>3 DEF ByEvidence
<1>5. CASE sample.usable
  <2>1. Tracked(r, sample) = Usable(Resumed(trackers[r]), r, sample.flow)
    BY <1>5 DEF Tracked
  <2>2. Clearing(r, sample.flow) => Follows(clearing, Excused(r, broken), d, Excused(r, e))
    <3>1. CASE r = "BURST"
      BY <3>1 DEF Follows, Excused
    <3>2. CASE r = "CONTINUOUS"
      BY <1>0, <1>1, <1>5, <3>2 DEF Witnessed, Follows, Excused
    <3> QED
      BY <3>1, <3>2 DEF Rules
  <2>3. /\ Resumed(trackers[r]) \in Tracker
        /\ Sound(Resumed(trackers[r]), clearing, Excused(r, broken))
        /\ Resumed(trackers[r]).phase \in {"INACTIVE", "PENDING", "ACTIVE", "CLEAR_PENDING"}
        /\ Resumed(trackers[r]).count = trackers[r].count
    BY <1>0, <1>3, ResumedIsSound
  <2>4. /\ Usable(Resumed(trackers[r]), r, sample.flow) \in Tracker
        /\ Sound(Usable(Resumed(trackers[r]), r, sample.flow), d, Excused(r, e))
        /\ ByEvidence(Resumed(trackers[r]), Usable(Resumed(trackers[r]), r, sample.flow), r,
                      d, Excused(r, e))
    BY <1>0, <1>2, <1>3, <2>2, <2>3, UsableIsSound
  <2>5. ByEvidence(trackers[r], Usable(Resumed(trackers[r]), r, sample.flow), r, d, Excused(r, e))
    BY <2>3, <2>4 DEF ByEvidence
  <2> QED
    BY <1>1, <1>2, <1>5, <2>1, <2>4, <2>5
<1> QED
  BY <1>4, <1>5

-----------------------------------------------------------------------------
(* The state that build_result derives.                                    *)

Judged(s, ts) == Released(Settled(Raised(s, ts), ts), ts)

\* Whatever the state was, what is derived from the trackers agrees with them.
LEMMA JudgedFits ==
    ASSUME NEW s \in {"NORMAL", "SUSPECTED", "CONFIRMED"}, NEW ts
    PROVE  /\ Judged(s, ts) \in {"NORMAL", "SUSPECTED", "CONFIRMED"}
           /\ ts["BURST"].phase = "ACTIVE" => Judged(s, ts) = "CONFIRMED"
           /\ ts["CONTINUOUS"].phase = "ACTIVE" => Judged(s, ts) # "NORMAL"
           /\ Judged(s, ts) = "CONFIRMED" => \E r \in Rules : ts[r].phase # "INACTIVE"
<1>1. Raised(s, ts) \in {"NORMAL", "SUSPECTED", "CONFIRMED"}
  BY DEF Raised
<1>2. /\ ts["BURST"].phase = "ACTIVE" => Raised(s, ts) # "NORMAL"
      /\ ts["CONTINUOUS"].phase = "ACTIVE" => Raised(s, ts) # "NORMAL"
  BY DEF Raised
<1> DEFINE a == Raised(s, ts)
<1> HIDE DEF a
<1>3. Settled(a, ts) \in {"NORMAL", "SUSPECTED", "CONFIRMED"}
  BY <1>1 DEF Settled, a
<1>4. /\ ts["BURST"].phase = "ACTIVE" => Settled(a, ts) = "CONFIRMED"
      /\ ts["CONTINUOUS"].phase = "ACTIVE" => Settled(a, ts) # "NORMAL"
  BY <1>1, <1>2 DEF Settled, a
<1> DEFINE b == Settled(a, ts)
<1> HIDE DEF b
<1>5. Judged(s, ts) = Released(b, ts)
  BY DEF Judged, a, b
<1>6. "BURST" \in Rules /\ "CONTINUOUS" \in Rules
  BY DEF Rules
<1> QED
  BY <1>3, <1>4, <1>5, <1>6 DEF Released, b

-----------------------------------------------------------------------------
(* The invariant.                                                          *)

LEMMA InitIInv == Init => IInv
<1> SUFFICES ASSUME Init
             PROVE  IInv
  OBVIOUS
<1>1. \A r \in Rules : trackers[r] = Fresh
  BY DEF Init, AllFresh
<1>2. TypeOK
  <2>1. trackers \in [Rules -> Tracker]
    <3>1. Fresh \in Tracker
      BY FreshIsSound
    <3> QED
      BY <3>1 DEF Init, AllFresh
  <2>2. broken \in BOOLEAN
    BY Zenon DEF Init
  <2> QED
    BY <2>1, <2>2 DEF Init, TypeOK, Durations
<1>3. Fresh.phase = "INACTIVE"
  BY FreshIsSound
<1>4. StateFitsEvidence
  BY <1>1, <1>3 DEF Init, StateFitsEvidence, Rules
<1>5. /\ clearing <= now
      /\ \A r \in Rules : Sound(trackers[r], clearing, Excused(r, broken))
  BY <1>1, FreshIsSound DEF Init
<1> QED
  BY <1>2, <1>4, <1>5 DEF IInv

LEMMA EvaluateKeeps ==
    ASSUME IInv, NEW sample, NEW sequence, NEW source, Evaluate(sample, sequence, source)
    PROVE  IInv'
<1>0. /\ trackers' = [r \in Rules |-> Tracked(r, sample)]
      /\ Witnessed(sample)
      /\ state' = Judged(state, trackers')
      /\ now' = now /\ cfg' = cfg /\ generation' = generation
  BY DEF Evaluate, Judged
<1>1. TypeOK'
  <2>1. trackers' \in [Rules -> Tracker] /\ clearing' \in Nat /\ broken' \in BOOLEAN
    BY <1>0, TrackedIsSound DEF Rules
  <2>2. state' \in {"NORMAL", "SUSPECTED", "CONFIRMED"}
    BY <1>0, JudgedFits DEF IInv, TypeOK
  <2> QED
    BY <1>0, <2>1, <2>2 DEF IInv, TypeOK
<1>2. StateFitsEvidence'
  BY <1>0, JudgedFits DEF IInv, TypeOK, StateFitsEvidence
<1>3. clearing' <= now'
  BY <1>0, TrackedIsSound DEF Rules
<1>4. ASSUME NEW r \in Rules
      PROVE  Sound(trackers'[r], clearing', Excused(r, broken'))
  BY <1>0, TrackedIsSound
<1> QED
  BY <1>1, <1>2, <1>3, <1>4 DEF IInv, Sound, Standing, Excused

LEMMA ResetTrackersAreSound ==
    ASSUME trackers' = AllFresh
    PROVE  /\ trackers' \in [Rules -> Tracker]
           /\ \A r \in Rules : /\ trackers'[r].phase = "INACTIVE"
                               /\ Sound(trackers'[r], clearing, Excused(r, broken))
BY FreshIsSound DEF AllFresh

LEMMA StepIInv == IInv /\ [Next]_vars => IInv'
<1> SUFFICES ASSUME IInv, [Next]_vars
             PROVE  IInv'
  OBVIOUS
<1>1. ASSUME NEW sample \in Samples, NEW sequence \in SampleNumbers,
             NEW source \in 1 .. MaxGeneration, Evaluate(sample, sequence, source)
      PROVE  IInv'
  BY <1>1, EvaluateKeeps
<1>2. ASSUME NEW c \in Configs, ApplyConfig(c)
      PROVE  IInv'
  <2>0. now' = now /\ cfg' = c /\ state' = state /\ UNCHANGED history
        /\ generation' = generation
    BY <1>2 DEF ApplyConfig, history
  <2>1. CASE state = "CONFIRMED"
    <3>1. trackers' = trackers
      BY <1>2, <2>1 DEF ApplyConfig
    <3> QED
      BY <2>0, <3>1 DEF history, IInv, TypeOK, StateFitsEvidence, Sound, Standing, Excused
  <2>2. CASE state # "CONFIRMED"
    <3>1. trackers' = AllFresh
      BY <1>2, <2>2 DEF ApplyConfig
    <3>2. StateFitsEvidence'
      BY <2>0, <2>2, <3>1, ResetTrackersAreSound DEF StateFitsEvidence, Rules
    <3> QED
      BY <2>0, <3>1, <3>2, ResetTrackersAreSound DEF history, IInv, TypeOK, Sound, Standing, Excused
  <2> QED
    BY <2>1, <2>2
<1>3. CASE Reset
  <2>0. /\ now' = now /\ cfg' = cfg /\ state' = "NORMAL" /\ UNCHANGED history
        /\ trackers' = AllFresh /\ generation' = generation + 1
    BY <1>3 DEF Reset, history
  <2>1. StateFitsEvidence'
    BY <2>0, ResetTrackersAreSound DEF StateFitsEvidence, Rules
  <2> QED
    BY <2>0, <2>1, ResetTrackersAreSound DEF history, IInv, TypeOK, Sound, Standing, Excused
<1>4. CASE Tick
  <2>0. now' = now + 1 /\ UNCHANGED <<cfg, state, trackers, clearing, broken, generation>>
    BY <1>4 DEF Tick, history
  <2>1. now \in Nat /\ now' \in Durations
    BY <2>0 DEF IInv, TypeOK, Durations
  <2>2. clearing' <= now'
    BY <2>0, <2>1 DEF IInv, TypeOK
  <2>3. TypeOK' /\ StateFitsEvidence'
    BY <2>0, <2>1 DEF IInv, TypeOK, StateFitsEvidence
  <2> QED
    BY <2>0, <2>2, <2>3 DEF IInv, Sound, Standing, Excused
<1>5. CASE UNCHANGED vars
  BY <1>5 DEF vars, IInv, TypeOK, StateFitsEvidence, Sound, Standing, Excused
<1> QED
  BY <1>1, <1>2, <1>3, <1>4, <1>5 DEF Next

-----------------------------------------------------------------------------
(* The theorems.                                                           *)

\* The state agrees with the trackers, for any configurations and any length of run.
THEOREM StateFits == Spec => []StateFitsEvidence
<1>1. IInv => StateFitsEvidence
  BY DEF IInv
<1> QED
  BY InitIInv, StepIInv, <1>1, PTL DEF Spec

\* An evaluation lets a suspicion that was raised by an entry of full duration go only
\* after a clear of full duration, but for samples the document would not let clear.
THEOREM ClearNeedsEvidence == Spec => SuspicionClearsByEvidence
<1> DEFINE Kept ==
      (/\ state = "SUSPECTED" /\ trackers["CONTINUOUS"].count > 0
       /\ trackers'["CONTINUOUS"].phase = "INACTIVE")
      => \A sample \in Samples, sequence \in SampleNumbers, source \in 1 .. MaxGeneration :
            Evaluate(sample, sequence, source) =>
                /\ sample.usable
                /\ broken' \/ (clearing' > 0 /\ now - clearing' >= cfg.clear["CONTINUOUS"])
<1>1. IInv /\ [Next]_vars => [Kept]_vars
  <2> SUFFICES ASSUME IInv,
                      trackers["CONTINUOUS"].count > 0,
                      trackers'["CONTINUOUS"].phase = "INACTIVE",
                      NEW sample \in Samples, NEW sequence, NEW source,
                      Evaluate(sample, sequence, source)
               PROVE  /\ sample.usable
                      /\ broken' \/ (clearing' > 0 /\ now - clearing' >= cfg.clear["CONTINUOUS"])
    OBVIOUS
  <2>1. "CONTINUOUS" \in Rules /\ Witnessed(sample)
    BY DEF Rules, Evaluate
  <2>2. trackers'["CONTINUOUS"] = Tracked("CONTINUOUS", sample)
    BY <2>1 DEF Evaluate
  <2>3. /\ sample.usable
        /\ ByEvidence(trackers["CONTINUOUS"], trackers'["CONTINUOUS"], "CONTINUOUS",
                      clearing', Excused("CONTINUOUS", broken'))
    BY <2>1, <2>2, TrackedIsSound
  <2> QED
    BY <2>3 DEF ByEvidence, Excused
<1> QED
  BY InitIInv, StepIInv, <1>1, PTL DEF Spec, SuspicionClearsByEvidence
=============================================================================
