\* Two-chunk bodies, sequences modulo 8 that wrap after two commits.
SPECIFICATION FairSpec
CONSTANTS
    NChunks = 2
    SeqModulus = 8
    SeqBase = 6
    MaxNumber = 3
    MaxVersion = 3
    MaxFaults = 2
    MaxCrashes = 1
    Zero = Zero
    Torn = Torn
    Valid = Valid
    Foreign = Foreign
    Nothing = Nothing
INVARIANTS
    TypeOK
    AckedIsDurable
    NeverConflicting
PROPERTIES
    ActiveSlotUntouched
    OnlyCandidateLands
    ImplementsDurableStore
    CommitTerminates
    PendingIsPromoted
