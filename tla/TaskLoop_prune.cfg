SPECIFICATION Spec
CONSTANTS
    Tasks = {t1, t2, t3}
    Timed = {t1, t2}
    Retrying = {}
    Steps = 3
    QueueCap = 2
INVARIANTS NoneDropped
CHECK_DEADLOCK FALSE
