\* One transfer may fail; no resets.
SPECIFICATION Spec
CONSTANTS
    NChunks = 2
    SeqModulus = 8
    SeqBase = 6
    MaxNumber = 3
    MaxVersion = 3
    MaxFaults = 1
    MaxCrashes = 0
    Zero = Zero
    Torn = Torn
    Valid = Valid
    Foreign = Foreign
    Nothing = Nothing
INVARIANTS
    AnsweredIsSelected
