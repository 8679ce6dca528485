CONSTANTS
    desktop = "Desktop"
    Extras = {"Desktop"}
    Targets <- EveryKind
    Requests <- AllRequests
    Faults = TRUE
    Races = TRUE

SPECIFICATION FairSpec

INVARIANTS
    TypeOK
    VerifiedBeforeErased
    ErasedOnlyIfInstallable
    DoneMeansInstalled
    LeavesNothingMounted
    RetryNotRefused
    DryRunTouchesNothing
    BarAddsUp

PROPERTY RunEnds
