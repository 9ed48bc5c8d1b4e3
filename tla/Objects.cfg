SPECIFICATION PatientSpec
CONSTANTS
    Null = Null
    Bare = Bare
    Unknown = Unknown
    NoServers = NoServers
    NoId = NoId
    NoConfig = NoConfig
    Modulus = 1024
    DefaultPorts <- ApiPorts
    DefaultRange = "range0"
    LatestVersion = "2.0.0"
    Kinds <- AllKinds
    Configs <- AllConfigs
    Engines <- AdvertisedEngines
    MaxObjects = 4
    MaxFaults = 1
    MaxOrphans = 1
    MaxEdits = 1
PROPERTIES Converges ImplementsOwnership SuccessMeansAsAsked NoChangesMeansAsAsked InconsistentOnlyIfLossy AcceptedUpdateRecorded
