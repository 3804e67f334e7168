SPECIFICATION Spec
CONSTANTS
    k1 = k1
    k2 = k2
    c1 = c1
    c2 = c2
    c3 = c3
    c4 = c4
    Original = Original
    Absent = Absent
    Keys <- TwoKeys
    Calls <- FourCalls
    KeyOf <- BothAreRetried
    Serials = {TRUE, FALSE}
    MaxOverlap = 3
SYMMETRY Symmetry
VIEW View
INVARIANTS
    TypeOK
    DriftIsVisible
    AnswerIsTrue
PROPERTIES
    EndedIsFinal
    NoLostUpdate
    ReplayChangesNothing
