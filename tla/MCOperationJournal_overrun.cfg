SPECIFICATION Spec
CONSTANTS
    c1 = c1
    c2 = c2
    c3 = c3
    k1 = k1
    q1 = q1
    q2 = q2
    Null = Null
    Callers <- MCCallers
    Keys <- MCKeys
    KeyOf <- MCKeyOf
    RequestOf <- OtherRequest
    MaxRecords = 1
    Lease = 1
    MaxTime = 2
    PromptAttempts = FALSE
    RepliesLost = TRUE
    UserEdits <- EditsOfFirst
VIEW View
INVARIANTS
    SafeAfterOverruns
PROPERTIES
    EditSurvivesRetry
