SPECIFICATION RuntimeSpec
CONSTANTS
    p1 = p1
    s1 = s1
    s2 = s2
    e1 = e1
    e2 = e2
    b1 = b1
    w1 = w1
    t1 = t1
    t2 = t2
    x1 = x1
    x2 = x2
    Projects = {p1}
    Sessions = {s1, s2}
    EventIds = {e1}
    Bodies = {b1}
    Slots = {decision}
    LessonSlots = {}
    Texts = {x1, x2}
    Blank = Blank
    MemoryIds = {m1, m2}
    Nil = Nil
    Times = {0, 1}
    LeaseSeconds = 1
    MaxSequence = 1
    MaxProjectSeq = 2
    MaxAttempts = 2
    Threads = {t1, t2}
    Processes = {w1}
    ProcessOf <- OneProcess
    Requests <- TwoSessions
    SameMeaning <- OneRepeats
    CandidateLimit = 8
    ClockLimit = 1
    HttpClock = FALSE
    Nobody = Nobody
SYMMETRY IdSymmetry
CHECK_DEADLOCK FALSE
INVARIANTS
    DecisionsAreFresh
    NoActiveTwins
    ResponsesHold
PROPERTIES
    FirstAttemptsInOrder
    PendingIsLeased
