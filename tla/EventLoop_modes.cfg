\* Nine FSM events in a queue of two, two guard evidences, no jobs.
SPECIFICATION FairSpec
CONSTANTS
    MaxJobs = 2
    MaxDueEvents = 2
    FsmKinds <- ModeKinds
    JobSpecs <- NoJobs
    EvidenceSets <- TwoEvidences
    BoundActions <- ServiceAndReset
    WriteFaults = {"commit"}
    MaxSteps = 2
    Capacity = 2
    ReservedCritical = 1
    CounterModulus = 1
    NoPayload = NoPayload
    MaxTime = 0
    MaxGeneration = 3
    MaxJobGeneration = 1
INVARIANTS
    PendingActionsFitMode
PROPERTIES
    CriticalErrorIsHandled
