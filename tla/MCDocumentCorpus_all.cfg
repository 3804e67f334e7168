SPECIFICATION DocSpec
CONSTANTS
    x = x
    y = y
    k1 = k1
    k2 = k2
    c1 = c1
    c2 = c2
    c3 = c3
    c4 = c4
    NoVersion = NoVersion
    Versions <- TwoVersions
    Batches = 2
    DocKeys <- TwoDocKeys
    DocCalls <- FourDocCalls
    DocKeyOf <- BothAreRetried
    DocSerial = {TRUE, FALSE}
    LateRetries = FALSE
SYMMETRY DocSymmetry
INVARIANTS
    DocTypeOK
    CurrentIsReadable
    GapIsRecorded
    DeletedIsGone
    NewestIsCurrent
