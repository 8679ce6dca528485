CONSTANTS
    Contents <- Items
    Length <- Bodies
    Urls <- BothUrls
    Published <- Served
    Republished <- Changes
    MaxResumes = 2
    Packs <- PackNames
    Profiles <- ProfileOrder
    Minimals = {"Minimal"}
    Requests <- Asked
    Purpose <- Purposes
    Jobs <- Everything
    OwnFiles <- Own
    Room = 11
    Margin = 1
    MaxOthers = 2
    MaxKills = 1

SPECIFICATION FairSpec
CHECK_DEADLOCK FALSE

INVARIANTS
    DeliversInOrder
    InstallsTheSelection
    InstallsWhatWasVerified
    KeepsHeadroom

PROPERTIES
    RemovesOnlyItsOwn
    StagingEnds
