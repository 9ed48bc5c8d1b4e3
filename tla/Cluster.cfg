SPECIFICATION TimelySpec
CONSTANTS
    NoId = NoId
    NoConfig = NoConfig
    NoState = NoState
    NoValue = "null"
    Vals <- Values
    Ids = {c1, c2}
    Attrs <- ThreeAttrs
    Immutable <- OnlyZone
    Webhooks <- OnlyWebhook
    Specs <- ThreeAttrSpecs
    FailFrom <- AllRollouts
    MaxFaults = 1
    MaxOrphans = 1
    MaxEdits = 2
    TimeoutsCharged = FALSE
INVARIANTS TypeOK NoOrphan RefreshedApplyKeepsSpec
PROPERTIES ForgetOnlyGone ImplementsOwnership SuccessMeansReady RunEnds
