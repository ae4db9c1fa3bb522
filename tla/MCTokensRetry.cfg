CONSTANTS
    Readers = {r1, r2}
    Minters = {m1}
    Retirers = {}
    Sessions = {s1}
    NoSession = s1
    Commands = {c1, c2}
    MaxUses = 2
    TTL = 1
    OrphanAge = 1
    MaxTime = 2
    MaxMints = 1
    NoFile = NoFile
    r1 = r1
    r2 = r2
    m1 = m1
    s1 = s1
    c1 = c1
    c2 = c2
SPECIFICATION Spec
SYMMETRY Symmetry
INVARIANTS
    SlotGrantedOnce
    NoUseAfterLast
