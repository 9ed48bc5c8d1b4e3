SPECIFICATION PatientSpec
CONSTANTS
    NoId = NoId
    NoConfig = NoConfig
    NoState = NoState
    NoValue = "null"
    Vals <- Values
    Ids = {c1, c2, c3, c4}
    Attrs <- ZoneAndVersion
    Immutable <- OnlyZone
    Webhooks <- NoAttrs
    Specs <- ZoneVersionSpecs
    FailFrom <- OnlyCreation
    MaxFaults = 2
    MaxOrphans = 0
    MaxEdits = 1
    TimeoutsCharged = TRUE
PROPERTY Converges
