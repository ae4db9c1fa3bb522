CONSTANTS
    Procs = {p1, p2}
    Suspended = {p2}
    Notes = {n1}
    Sizes = {300, 900}
    HeadTokens = 40
    NoteTokens = 300
    MaxMemories = 2
    TokenBudget <- Budgets
    CompressedCeiling = 128
    MaxSaves = 2
    MaxWrites = 3
    MaxEdits = 1
    NoProc = NoProc
    p1 = p1
    p2 = p2
    n1 = n1
SPECIFICATION FairSpec
INVARIANTS
    TypeOK
    MemoriesShown
    UserTextKept
PROPERTIES
    WritesAtomic
    OpsEnd
CHECK_DEADLOCK FALSE
