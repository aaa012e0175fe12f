SPECIFICATION Spec
CONSTANTS
    Plugins = {p1, p2}
    Names = {A}
    Jobs = {}
    Quits = {}
    Ids = {0, 1}
    MaxQueue = 1
    NULL = NULL
    INVALID = INVALID
    Mishaps = {"timeout"}
    Habits = {"shutdown", "get", "kill", "list"}
SYMMETRY MCSymmetry
VIEW MCView
INVARIANTS
    ObjectsAreHeld
    ChildrenReaped
CHECK_DEADLOCK FALSE
