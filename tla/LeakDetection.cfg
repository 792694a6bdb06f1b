\* Time for an entry, a confirmation, a clear and a gap in one behaviour.
SPECIFICATION Spec
CONSTANTS
    Configs <- TwoConfigs
    Flows <- SixFlows
    MaxTime = 7
    SampleNumbers = {1, 2}
    MaxGeneration = 2
INVARIANTS
    StateFitsEvidence
PROPERTIES
    SuspicionClearsByEvidence
CHECK_DEADLOCK FALSE
