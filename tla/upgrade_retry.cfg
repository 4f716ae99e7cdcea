SPECIFICATION UpgradedSpec
CONSTANTS
    Projects = {p1}
    Sessions = {s1}
    EventIds = {e1, e2}
    Bodies = {b1}
    Slots = {decision}
    LessonSlots = {}
    Texts = {t1}
    Blank = Blank
    MemoryIds = {m1, m2}
    Nil = Nil
    Times <- MCTimes
    LeaseSeconds = 1
    MaxSequence = 2
    MaxProjectSeq = 2
    MaxAttempts = 3
SYMMETRY NameSymmetry
CHECK_DEADLOCK FALSE
INVARIANTS
    UpgradedRestartable
