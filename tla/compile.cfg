SPECIFICATION ServiceSpec
CONSTANTS
    p1 = p1
    s1 = s1
    s2 = s2
    s3 = s3
    a = a
    b = b
    short = short
    long = long
    Projects = {p1}
    Sessions = {s1, s2, s3}
    EventIds = {e1}
    Bodies = {b1}
    Slots = {a, b}
    LessonSlots = {}
    Texts = {short, long}
    Blank = Blank
    MemoryIds = {m1, m2, m3}
    Nil = Nil
    Times = {0}
    LeaseSeconds = 1
    MaxSequence = 1
    MaxProjectSeq = 3
    MaxAttempts = 1
    Compiles = {c1}
    Components = {a, b}
    InScope <- MCInScope
    Budgets = {1, 4}
    Tokens <- MCTokens
    Scores = {0, 1}
    TopN = 2
    UnsafeSessions = {s3}
    UnsafeTexts = {}
SYMMETRY IdSymmetry
CHECK_DEADLOCK FALSE
INVARIANTS
    RefusedOnlyIfUnsafe
    PackIsOneMoment
    OmissionsAreJustified
