CONSTANTS
    w1 = w1
    w2 = w2
    Writers = {w1, w2}
    MaxStarts = 4
    MaxRemovals = 2
    MaxFaults = 2
SPECIFICATION Spec
INVARIANTS
    WorkAfterSecretary
PROPERTIES
    
    PromptsOpen
\* the session may have ended
CHECK_DEADLOCK FALSE
