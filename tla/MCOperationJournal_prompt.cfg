SPECIFICATION Spec
CONSTANTS
    c1 = c1
    c2 = c2
    c3 = c3
    k1 = k1
    q1 = q1
    q2 = q2
    Null = Null
    Callers <- MCCallers
    Keys <- MCKeys
    KeyOf <- MCKeyOf
    RequestOf <- SameRequest
    MaxRecords = 2
    Lease = 1
    MaxTime = 2
    PromptAttempts = TRUE
    RepliesLost = FALSE
    UserEdits = {}
SYMMETRY Retries
INVARIANTS
    TypeOK
    OneAttempt
    AgreeOnResult
    ResumedExactly
    JournalInv
PROPERTIES
    CommittedIsFinal
    Implementation
