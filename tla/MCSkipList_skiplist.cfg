CONSTANTS
    NKey = 3
    v1 = v1
    v2 = v2
    Value = {v1, v2}
    maxLevel_ = 2
    t1 = t1
    t2 = t2
    Thread = {t1, t2}
    null = null
SPECIFICATION Spec
SYMMETRY Symmetry
CHECK_DEADLOCK FALSE
INVARIANTS
    LevelsLinked
    CountersRight
    SearchFinds
    HoleIsTransient
PROPERTIES
    SetTakesEffect
    MapRefinement
