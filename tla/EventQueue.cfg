\* Capacity 3 with 1 slot closed to background; two payloads per kind.
SPECIFICATION FairSpec
CONSTANTS
    Kinds <- QueueKinds
    Payloads = {p1, p2}
    NoPayload = NoPayload
    Capacity = 3
    ReservedCritical = 1
    CounterModulus = 2
INVARIANTS
    TypeOK
    BackgroundShareBounded
    HeadBypassBounded
    PendingLevelIsLatest
PROPERTIES
    FifoWithinPriority
    UrgentSignalsServed
