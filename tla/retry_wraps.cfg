SPECIFICATION Spec
CONSTANTS
    Word <- SmallWord
    MaxAttempts <- LargestCount
    BaseDelay = 1
    MaxDelay <- TenfoldDelay
INVARIANT
    NeverPanics
