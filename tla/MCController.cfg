CONSTANTS
    u1 = u1
    u2 = u2
    card = card
    None = None
    Ufs = {u1}
    Others = {card}
    Preferred = {u1}
    Frontends = {"tui"}
    Configs <- AnyConfig
    MaxJobs = 2
    Faults = TRUE

SPECIFICATION Spec
CHECK_DEADLOCK FALSE

INVARIANTS
    TypeOK
    PhaseTellsTheTruth
    PhaseSound
    OfferedOnlyIfChosen

PROPERTY DryRunTouchesNothing
