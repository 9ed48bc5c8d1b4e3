SPECIFICATION Spec
CONSTANTS
    Null = Null
    Bare = Bare
    Unknown = Unknown
    Modulus = 1024
    Absent = Absent
    Gone = Gone
    NoPlace = NoPlace
    NoConfig = NoConfig
    Places <- TwoPlaces
    Kinds <- OnlyPolicy
    Models <- AllModels
    MaxFaults = 0
    MaxEdits = 0
INVARIANT UnknownPrincipalIsError
