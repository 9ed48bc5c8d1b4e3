SPECIFICATION Spec
CONSTANTS
    Workspaces = {w1}
    Names = {n1}
    NoName = NoName
    Absent = Absent
    Null = Null
    Unknown = Unknown
    NoState = NoState
    NoConfig = NoConfig
    Kinds <- OnlySettings
    Models <- AllModels
    Unconvertible <- NullPolicies
    MaxFaults = 0
    MaxEdits = 1
    MaxOutside = 0
PROPERTY OmittedDaysStayNull
