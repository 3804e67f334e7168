SPECIFICATION Spec
CONSTANTS
    s1 = s1
    s2 = s2
    s3 = s3
    a1 = a1
    a2 = a2
    a3 = a3
    Sources = {s1, s2, s3}
    NoWinner = NoWinner
    Undated = Undated
    Global = "global"
    Adds = {a1, a2}
    BatchOf <- Batches
    HintSets <- EchoesOrDated
    Rebuilds = {"r1"}
    Mutations = {"m1"}
    Mutable <- MutableEchoes
    MinimumEvidence = 2
    MinimumContexts = 2
    SupportOf <- ThreeFifths
    MinimumLead = 10
    MaxTime = 1
    MaxFaults = 1
CHECK_DEADLOCK FALSE
INVARIANTS
    TypeOK
    CanonicalMutationWins
    NothingIsLost
    WinnerIsEarned
