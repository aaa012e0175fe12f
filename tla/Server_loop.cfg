SPECIFICATION Spec
CONSTANTS
    Peers = {p1, p2}
    Callers = {c1}
    NULL = NULL
    Ids = {0, 1}
    Events = {e1}
    Habits = {"late connection", "failed write"}
    QueueCap = 2
    MaxSeq = 1
    MaxFlight = 2
INVARIANTS ListedAreOpen WaitersAccounted AnswersReachAsker SignalsCounted
VIEW MCView
SYMMETRY MCSymmetry
CHECK_DEADLOCK FALSE
