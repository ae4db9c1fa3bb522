SPECIFICATION Spec
CONSTANTS
    a = a
    b = b
    c = c
    None = None
    Sessions = {a, b}
    Batch = 2
    MaxTable = 1
    MaxUpdates = 2
    MaxSends = 2
    MaxSeats = 3
    Strangers = TRUE
    Senders = {a}
    Stopping = {a}
    Crashing = {b}
    Stalling = {b}
    Failing = {b}
    MaxLapses = 1
INVARIANTS
    TypeOK
    OnePoller
    NoGhostFile
    RepliesReachAsker
PROPERTIES
    DeliveredOnceInOrder
\* every session may have stopped or died
CHECK_DEADLOCK FALSE
