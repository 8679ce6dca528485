CONSTANTS
    desktop = "Desktop"
    Extras = {"Desktop"}
    Targets <- CardOnly
    Requests <- StreamingOwnMedia
    Faults = FALSE
    Races = FALSE

SPECIFICATION OwnMediaSpec

INVARIANT NeverErasesItsSource
