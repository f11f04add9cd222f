SPECIFICATION Spec
CONSTANTS
    Responses <- SomeResponses
    expose_remote_address = TRUE
    LowerCase <- LowerCaseX
    MaxLabelChars = 3
    MaxSessions = 3
    MaxText = 4
INVARIANTS
    ShowsTheSessions
    EveryTranscodeCounts
    TotalsNest
    LabelsAreClean
    NoSessionHidden
