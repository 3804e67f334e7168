SPECIFICATION Spec
CONSTANTS
    b1 = b1
    b2 = b2
    c1 = c1
    c2 = c2
    c3 = c3
    c4 = c4
    c5 = c5
    w1 = w1
    w2 = w2
    Null = Null
    Bytes <- TwoBytes
    Calls <- FourCalls
    Workers <- TwoWorkers
    MaxAttempts = 2
    SerialCalls = FALSE
    PromptWorkers = FALSE
SYMMETRY Symmetry
INVARIANTS
    StatesAgree
