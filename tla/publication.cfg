SPECIFICATION Spec
CONSTANTS
    Publishers = {p1, p2}
    CompileIds = {c1, c2}
    NumFiles = 2
    NoId = NoId
SYMMETRY PublisherSymmetry
CHECK_DEADLOCK FALSE
INVARIANTS
    FinalIsWhole
    OneFinalPerId
PROPERTIES
    AnsweredIsKept
