\* Three samples, four events in the queue, three transactions on the bus.
SPECIFICATION PressureSpec
CONSTANTS
    PressureRoom = 4
    MaxSamples = 3
    MaxTransfers = 3
    Busy = Busy
    NoPressure = NoPressure
INVARIANTS
    PressureIsOfItsSample
CHECK_DEADLOCK FALSE
