SPECIFICATION FairSpec
CONSTANTS
    b1 = b1
    b2 = b2
    b3 = b3
    handoff = handoff
    site = site
    Unlocked = Unlocked
    NoMarker = NoMarker
    Fires = {b1, b2, b3}
    Writers = {b1, b2, b3}
    Keys = {handoff, site}
    Checked = {site}
    Entries <- MCEntries
    Plan <- MCPlan
    ClaimFails = {b1}
    WriteFails = {b1, b2, b3}
    Killed = {b2}
INVARIANTS
    PiecesTogether
    MarkerBacked
    DuplicatesBounded
PROPERTIES
    FiresEnd
\* every fire ends
CHECK_DEADLOCK FALSE
