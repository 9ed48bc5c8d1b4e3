SPECIFICATION FairSpec
CONSTANTS
    Callers = {p1, p2}
    NoCaller = NoCaller
    Keys = {k1, k2, k3, k4}
    NoKey = NoKey
    Lifetime = 5
    Margin = 2
    ValidationLimit = 1
    MaxUse = 2
INVARIANTS
    TypeOK
    KeyOutlivesUse
    OnlyAcceptedKeyCached
    FewLiveKeys
PROPERTY CallReturns
