CONSTANTS
    Indexes = {1, 2}
    ReadsPending = FALSE
    MaxFaults = 3
    MinTarget = 8388608
    MaxUnits = 80
    Devices <- SmallDevices
    Files <- SchemeFiles
    BuiltIn <- Small
    Followed <- OnBoards
    Close <- CloseTo
    Other <- OtherThan

SPECIFICATION ProvisioningSpec

INVARIANT TypeOK
INVARIANT CompleteMeansProvisioned
INVARIANT ErasedOnlyAsAnnounced
INVARIANT PlanFits
INVARIANT SizesKept
INVARIANT ReadsBack
INVARIANT ComparedByClass
PROPERTY DryRunTouchesNothing
PROPERTY CanBeFinished
