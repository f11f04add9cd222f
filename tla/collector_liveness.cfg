SPECIFICATION FairSpec
CONSTANTS
    movies = movies
    shows = shows
    Endpoints <- TwoEndpoints
    Libraries <- OneLibrary
    ErrorKinds = {"http"}
    ServerConditions <- PlainServer
    MaxRetries = 1
    FailureThreshold = 3
    ResetTimeout = 2
PROPERTIES
    CycleEnds
    Recovers
    TripsOnBadKey
    ShutsDown
