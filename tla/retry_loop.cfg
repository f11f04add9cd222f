SPECIFICATION FetchSpec
CONSTANTS
    Word <- SmallWord
    MaxAttempts = 6
    BaseDelay = 5
    MaxDelay <- TenfoldDelay
    RequestTimeout = 3
INVARIANTS
    TypeOK
    BackoffNeverShrinks
    WithinBudget
PROPERTIES
    ImplementsContract
    ImplementsRetry
