CONSTANTS
    u1 = u1
    u2 = u2
    card = card
    None = None
    Ufs = {u1}
    Others = {}
    Preferred = {u1}
    Frontends = {"tui"}
    Configs <- PlainOnly
    MaxJobs = 2
    Faults = FALSE

SPECIFICATION Spec
CHECK_DEADLOCK FALSE

INVARIANT OneDestructiveOperation
