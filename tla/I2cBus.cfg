\* Three pressure transfers, two F-RAM operations of up to two chunks, two aborts.
SPECIFICATION Spec
CONSTANTS
    Capacity = 2
    MaxLength = 2
    MaxOperations = 2
    MaxTransfers = 3
    MaxAborts = 2
    None = None
INVARIANTS
    OneNotice
    SidesAgree
PROPERTIES
    PressureGoesFirst
    ImplementsStoragePort
CHECK_DEADLOCK FALSE
