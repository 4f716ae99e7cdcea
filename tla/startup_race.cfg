SPECIFICATION AuditSpec
CONSTANTS
    Openers = {o1}
    Projects = {p1}
    Sessions = {s1, s2}
    EventIds = {e1}
    Bodies = {b1}
    Slots = {decision}
    LessonSlots = {}
    Texts = {t1}
    Blank = Blank
    MemoryIds = {m1}
    Nil = Nil
    Times <- MCTimes
    LeaseSeconds = 1
    MaxSequence = 1
    MaxProjectSeq = 2
    MaxAttempts = 2
SYMMETRY NameSymmetry
CHECK_DEADLOCK FALSE
INVARIANTS
    RaisedOnlyOnViolation
