SPECIFICATION Spec
CONSTANTS
    c1 = c1
    c2 = c2
    Clients <- TwoClients
    Environments <- PairwiseEnvironments
    SendableKeys = {"key"}
    Requests <- SomeRequests
    Word32 = 70000
    Word64 = 100005
    Period = 3
    MaxLate = 7
INVARIANTS
    AcceptedFits
    TokenProtects
    OneCyclePerSlot
PROPERTIES
    ExitsAfterSignal
