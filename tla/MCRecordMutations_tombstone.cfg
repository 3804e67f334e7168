SPECIFICATION Spec
CONSTANTS
    k1 = k1
    k2 = k2
    c1 = c1
    c2 = c2
    c3 = c3
    c4 = c4
    Original = Original
    Absent = Absent
    Keys <- TwoKeys
    Calls <- TwoCalls
    KeyOf <- OneCallEach
    Serials = {FALSE}
    MaxOverlap = 2
PROPERTIES
    TombstoneIsFinal
