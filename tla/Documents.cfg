SPECIFICATION PatientSpec
CONSTANTS
    Null = Null
    Bare = Bare
    Unknown = Unknown
    Modulus = 1024
    Absent = Absent
    Gone = Gone
    NoPlace = NoPlace
    NoConfig = NoConfig
    Places <- TwoPlaces
    Kinds <- AllKinds
    Models <- AllModels
    MaxFaults = 2
    MaxEdits = 1
PROPERTIES AppliedIsVisible StateNotBehind NoChangesMeansVisible InconsistentOnlyIfLossy Converges
