\* Four samples in both directions; gaps up to and beyond the one allowed.
SPECIFICATION Spec
CONSTANTS
    Rates <- BothWays
    MaxGap = 1
    MaxAge = 1
    Room = 2
    MaxIrqs = 4
    MaxTime = 3
    None = None
INVARIANTS
    VolumeIsOfPublishedFlow
    PublishedTogether
CHECK_DEADLOCK FALSE
