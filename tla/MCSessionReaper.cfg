CONSTANTS
    s1 = s1
    s2 = s2
    s3 = s3
    Sessions = {s1, s2, s3}
    Legacy = {s1}
    MaxStarts = 2
    MaxEvents = 2
    MaxTicks = 2
    MaxFaults = 1
    MaxRegistrations = 1
SPECIFICATION Spec
INVARIANTS
    TypeOK
    RegistrationsKept
PROPERTIES
    HandoffsKept
    LifetimesKept
SYMMETRY Newer
\* every session may have ended
CHECK_DEADLOCK FALSE
