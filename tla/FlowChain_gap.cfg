\* A sample beyond the gap, with its temperature.
SPECIFICATION Spec
CONSTANTS
    Rates <- BothWays
    MaxGap = 1
    MaxAge = 1
    Room = 2
    MaxIrqs = 2
    MaxTime = 3
    None = None
PROPERTIES
    GapReanchors
CHECK_DEADLOCK FALSE
