CONSTANTS
    Sessions = {s1}
    Names = {a, b}
    FirstSections <- Found
    AskedKinds = {"small", "undated", "allowed", "bad", "big"}
    FoundKinds = {"small"}
    CountCap = 2
    SizeCap = 1
    StaleThreshold = 2
    MaxPins = 3
    MaxCalls = 2
    MaxUngated = 1
    MaxFaults = 1
    s1 = s1
    a = a
    b = b
SPECIFICATION FairSpec
INVARIANTS
    TypeOK
PROPERTIES
    PrunedSafely
    NeverWorse
    DenialsJustified
    BlockEnds
CHECK_DEADLOCK FALSE
