\* Two writers, a reader that lives through at most one commit per attempt.
SPECIFICATION Spec
CONSTANTS
    Writers = {w1, w2}
    Readers = {r1}
    Fields = {"flow", "volume"}
    Values = {1}
    CommitsPerCopy = 1
    MaxCommits = 3
    NoSnapshot = NoSnapshot
INVARIANTS
    TypeOK
    ReadIsPublished
    ActiveIsPublished
PROPERTIES
    ActiveUntouched
    ImplementsRegister
SYMMETRY Symmetry
