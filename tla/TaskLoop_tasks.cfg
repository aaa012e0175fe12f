SPECIFICATION FairSpec
CONSTANTS
    Tasks = {t1, t2, t3}
    Timed = {t1, t2}
    Retrying = {t3}
    Steps = 3
    QueueCap = 2
INVARIANTS EndsOnce CookiesMatch
PROPERTIES TimedTasksEnd DeleteReturns
CHECK_DEADLOCK FALSE
