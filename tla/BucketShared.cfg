SPECIFICATION Spec
CONSTANTS
    NoConfig = NoConfig
    NoState = NoState
    Runs = {r1, r2}
    Zones = {z1, z2}
    TagSets = {t1}
    Configs <- NullOrTags
    MaxBuckets = 3
    MaxFaults = 1
    MaxEdits = 0
    MaxOutside = 1
    TimeoutsCharged = FALSE
SYMMETRY Symmetry
INVARIANT StateZoneIsBuckets
PROPERTY UntaintedKept
