SPECIFICATION Spec
CONSTANTS
    m1 = m1
    m2 = m2
    Paths = {m1, m2, a, b, c}
    Objects = {o1, o2, o3, o4}
    NULL = NULL
    TRAIT_TRAIT = TRAIT_TRAIT
    INTROSPECTION = INTROSPECTION
    Traits <- MCTraits
    MetaPath <- MCMetaPath
    Habits = {"unknown trait", "same alias"}
    MaxRefs = 4
INVARIANTS NamesAgree RefcountsAgree
PROPERTIES BatchIsAtomic RefinesNameSpace
SYMMETRY MCSymmetry
CHECK_DEADLOCK FALSE
