SPECIFICATION FairSpec
PROPERTY CallsReturn
CONSTANTS
    Plugins = {p1}
    Names = {A}
    Jobs = {j1, j2}
    Quits = {x1}
    Ids = {0, 1}
    MaxQueue = 1
    NULL = NULL
    INVALID = INVALID
    Mishaps = {"crash", "bad name"}
    Habits = {"bad path", "missing", "no memory"}
INVARIANTS
    JobsAccounted
    RepliesMatch
    TimersFit
    WaitersAccounted
CHECK_DEADLOCK FALSE
