SPECIFICATION Spec
CONSTANTS
    Projects = {p1}
    Sessions = {s1, s2}
    EventIds = {e1, e2}
    Bodies = {b1}
    Slots = {decision}
    LessonSlots = {}
    Texts = {t1}
    Blank = Blank
    MemoryIds = {m1, m2, m3}
    Nil = Nil
    Times <- MCTimes
    LeaseSeconds = 1
    MaxSequence = 2
    MaxProjectSeq = 4
    MaxAttempts = 2
SYMMETRY NameSymmetry
CHECK_DEADLOCK FALSE
INVARIANTS
    AlwaysRestartable
    SessionsInOrder
    RememberedOnce
    NewestIsActive
PROPERTIES
    ResultsAreFinal
    ImplementsLedger
