SPECIFICATION ServedSpec
CONSTANTS
    m1 = m1
    m2 = m2
    Paths = {m1, m2, a, b}
    Objects = {o1, o2, o3, o4}
    NULL = NULL
    TRAIT_TRAIT = TRAIT_TRAIT
    INTROSPECTION = INTROSPECTION
    Traits <- MCTraits
    MetaPath <- MCMetaPath
    Habits = {"no memory"}
    MaxRefs = 2
    Clients = {c1}
    MaxQueue = 2
INVARIANTS EntriesAreSafe RequestsNameObjects
VIEW MCView
SYMMETRY MCSymmetry
CHECK_DEADLOCK FALSE
