CONSTANTS
    a1 = a1
    a2 = a2
    Asks = {a1, a2}
    Timeout <- MCTimeout
    StaleAfter = 1
    MaxPending = 1
    QueueSize = 1
    QueueTTL = 0
    Note = Note
    Kinds = {"text", "voice", "button", "other"}
    MaxMessages = 2
    MaxReplies = 2
SPECIFICATION FairSpec
INVARIANTS
    TypeOK
    RepliesAccounted
    AnswersItsQuestion
PROPERTIES
    AsksEnd
CHECK_DEADLOCK FALSE
