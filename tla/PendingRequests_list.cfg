SPECIFICATION Spec
CONSTANTS
    Paths = {obj1, obj2}
    NULL = NULL
    STARTING_CAP = 4
    UINT32_MAX = 65535
    SIZE_MAX = 65535
    Habits = {"gaps"}
    MaxSeq = 16
    MaxOutstanding = 6
    SearchFuel = 8
INVARIANTS FindsPending
PROPERTIES RefinesSet
CHECK_DEADLOCK FALSE
