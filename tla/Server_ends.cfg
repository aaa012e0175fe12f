SPECIFICATION FairSpec
CONSTANTS
    Peers = {p1, p2}
    Callers = {c1}
    NULL = NULL
    Ids = {0, 1}
    Events = {e1}
    Habits = {}
    QueueCap = 2
    MaxSeq = 0
    MaxFlight = 2
PROPERTIES CallersReturn ShutdownEnds
CHECK_DEADLOCK FALSE
