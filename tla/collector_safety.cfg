SPECIFICATION Spec
CONSTANTS
    movies = movies
    shows = shows
    Endpoints <- ThreeEndpoints
    Libraries <- TwoLibraries
    ErrorKinds = {"http"}
    ServerConditions <- AnyServer
    MaxRetries = 1
    FailureThreshold = 3
    ResetTimeout = 2
INVARIANTS
    TypeOK
    QuietBetweenCycles
    TimestampTracksErrors
    FlawlessCycleCloses
    LibrariesComeFromAList
PROPERTIES
    UsesBreaker
    ReadinessMovesInCycles
