SPECIFICATION Spec
CONSTANTS
    RetryMax = 2
    MaxDetails = 2
INVARIANTS
    TypeOK
    SettledIsFinal
    CancelStops
    ErrorsReported
    QuotaShadowed
