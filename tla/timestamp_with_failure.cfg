SPECIFICATION Spec
CONSTANTS
    movies = movies
    shows = shows
    Endpoints <- AllEndpoints
    Libraries <- OneLibrary
    ErrorKinds = {"http"}
    ServerConditions <- AnyServer
    MaxRetries = 0
    FailureThreshold = 3
    ResetTimeout = 1
INVARIANT
    TimestampMeansNoFailure
