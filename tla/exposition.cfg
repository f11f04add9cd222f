SPECIFICATION Spec
CONSTANTS
    a = a
    b = b
    Endpoints <- AllEndpoints
    Labels <- TwoLabels
    MaxCycle = 2
INVARIANTS
    OneCyclePerFamily
    NothingOlderThanTimestamp
    TotalsAgreeAtRest
    OneSnapshotAtRest
