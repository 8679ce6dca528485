CONSTANTS
    u1 = u1
    u2 = u2
    card = card
    None = None
    Ufs = {u1}
    Others = {}
    Preferred = {u1}
    Frontends = {"tui"}
    Configs <- PlainOnly
    MaxJobs = 2
    Faults = TRUE

SPECIFICATION FairSpec
CHECK_DEADLOCK FALSE

PROPERTY StaysUsable
