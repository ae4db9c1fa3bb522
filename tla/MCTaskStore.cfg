CONSTANTS
    h1 = h1
    h2 = h2
    a = a
    b = b
    m = m
    Hooks = {h1, h2}
    Tasks = {a, b}
    Teachbacks = {a}
    Mates = {m}
    Owner <- OwnerMC
    Blockers <- BlockersMC
    Exempt = {}
    Verdicts = {"GREEN", "RED"}
    MaxUpdates = 2
    MaxClaims = 2
    MaxFaults = 1
SPECIFICATION Spec
SYMMETRY Symmetry
INVARIANTS
    TypeOK
    Recorded
    TornOnlyByTwo
PROPERTIES
    SiblingsKept
    StartsAfterTeachback
CHECK_DEADLOCK FALSE
