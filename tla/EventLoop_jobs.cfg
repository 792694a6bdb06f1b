\* The power sample (SKIP), a sample that must be signalled, a timeout, one FSM event,
\* transactions that fail, a queue of two.
SPECIFICATION Spec
CONSTANTS
    MaxJobs = 2
    MaxDueEvents = 2
    FsmKinds <- InitFailure
    JobSpecs <- ThreeJobs
    EvidenceSets <- OneEvidence
    BoundActions <- ResetOnly
    WriteFaults = {"begin"}
    MaxSteps = 2
    Capacity = 2
    ReservedCritical = 1
    CounterModulus = 1
    NoPayload = NoPayload
    MaxTime = 2
    MaxGeneration = 1
    MaxJobGeneration = 2
INVARIANTS
    TypeOK
    PendingMatchesOutstanding
PROPERTIES
    NoCatchUpBurst
