SPECIFICATION PatientSpec
CONSTANTS
    NoConfig = NoConfig
    NoState = NoState
    Runs = {r1}
    Zones = {z1, z2}
    TagSets = {t1}
    Configs <- AnyTags
    MaxBuckets = 9
    MaxFaults = 2
    MaxEdits = 2
    MaxOutside = 1
    TimeoutsCharged = TRUE
INVARIANT TypeOK
PROPERTIES AppliedIsVisible Converges
