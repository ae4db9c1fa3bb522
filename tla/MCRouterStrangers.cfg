SPECIFICATION FairSpec
CONSTANTS
    a = a
    b = b
    c = c
    None = None
    Sessions = {a}
    Batch = 1
    MaxTable = 2
    MaxUpdates = 3
    MaxSends = 0
    MaxSeats = 2
    Strangers = TRUE
    Senders = {}
    Stopping = {}
    Crashing = {}
    Stalling = {}
    Failing = {}
    MaxLapses = 0
PROPERTIES
    AuthorizedDelivered
