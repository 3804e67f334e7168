SPECIFICATION Spec
CONSTANTS
    s1 = s1
    s2 = s2
    s3 = s3
    a1 = a1
    a2 = a2
    a3 = a3
    Sources = {s1, s2, s3}
    NoWinner = NoWinner
    Undated = Undated
    Global = "global"
    Adds = {a1, a2, a3}
    BatchOf <- Singles
    HintSets <- GlobalAndContextual
    Rebuilds = {}
    Mutations = {}
    Mutable <- NoneMutable
    MinimumEvidence = 1
    MinimumContexts = 1
    SupportOf <- ThreeFifths
    MinimumLead = 10
    MaxTime = 0
    MaxFaults = 0
CHECK_DEADLOCK FALSE
INVARIANTS
    ConflictIsNotHidden
