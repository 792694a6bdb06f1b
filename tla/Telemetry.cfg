\* A queue of two records, four records produced.
SPECIFICATION FairSpec
CONSTANTS
    Capacity = 2
    CounterModulus = 65536
    TTL = 2
    RetryDelay = 1
    MaxRetries = 2
    MaxRecords = 4
    MaxTime = 3
INVARIANTS
    TypeOK
    OneEntryPerRecord
    OneInFlight
PROPERTIES
    RecordsAreSettled
CHECK_DEADLOCK FALSE
