CONSTANTS
    v1 = v1
    v2 = v2
    Versions <- MCVersions
    ImageSize <- MCImageSize
    LuSize <- MCLuSize
    LoaderStart = 1

SPECIFICATION Spec

INVARIANTS
    TypeOK
    PlanSound
    SwitchedIsLive

PROPERTIES
    NeverLosesBootloader
    KeepsPromise
