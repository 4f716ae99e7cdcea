SPECIFICATION MonitorSpec
CONSTANTS
    Tickets = {t1, t2, t3}
    TurnProjects = {p1, p2}
    MaxTurnSeq = 2
    MaxTurnAttempt = 2
    NoTicket = NoTicket
CHECK_DEADLOCK FALSE
INVARIANTS
    NoLostWakeup
PROPERTIES
    ImplementsTurnstile
    EveryTurnComes
