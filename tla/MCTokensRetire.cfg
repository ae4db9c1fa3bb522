CONSTANTS
    Readers = {r1}
    Minters = {m1}
    Retirers = {q1}
    Sessions = {s1, s0}
    NoSession = s0
    Commands = {c1}
    MaxUses = 2
    TTL = 0
    OrphanAge = 0
    MaxTime = 1
    MaxMints = 2
    NoFile = NoFile
    r1 = r1
    m1 = m1
    q1 = q1
    s1 = s1
    s0 = s0
    c1 = c1
SPECIFICATION Spec
SYMMETRY Symmetry
INVARIANTS
    NoReplay
