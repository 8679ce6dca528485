CONSTANTS
    u1 = u1
    u2 = u2
    card = card
    None = None
    Ufs = {u1}
    Others = {}
    Preferred = {u1}
    Frontends = {}
    Configs <- UnattendedOnly
    MaxJobs = 3
    Faults = FALSE

SPECIFICATION FairSpec
CHECK_DEADLOCK FALSE

PROPERTY UnattendedReprovisions
