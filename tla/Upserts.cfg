SPECIFICATION PatientSpec
CONSTANTS
    Workspaces = {w1, w2}
    Names = {n1, n2}
    NoName = NoName
    Absent = Absent
    Null = Null
    Unknown = Unknown
    NoState = NoState
    NoConfig = NoConfig
    Kinds <- AllKinds
    Models <- AllModels
    Unconvertible <- NullPolicies
    MaxFaults = 1
    MaxEdits = 1
    MaxOutside = 1
INVARIANT FewOrphans
PROPERTY SuccessMeansAsAsked UnentitledUnaffected ForgottenMeansOff InconsistentOnlyIfListed Converges
