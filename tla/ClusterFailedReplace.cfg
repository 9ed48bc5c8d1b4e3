SPECIFICATION Spec
CONSTANTS
    NoId = NoId
    NoConfig = NoConfig
    NoState = NoState
    NoValue = "null"
    Vals <- Values
    Ids = {c1, c2}
    Attrs <- ZoneAndVersion
    Immutable <- OnlyZone
    Webhooks <- NoAttrs
    Specs <- ZoneVersionSpecs
    FailFrom <- AllRollouts
    MaxFaults = 1
    MaxOrphans = 0
    MaxEdits = 1
    TimeoutsCharged = TRUE
PROPERTY FailedForcesReplace
