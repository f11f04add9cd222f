SPECIFICATION FairSpec
CONSTANTS
    c1 = c1
    c2 = c2
    c3 = c3
    c4 = c4
    Callers <- FourCallers
    FailureThreshold = 3
    ResetTimeout = 3
INVARIANTS
    TypeOK
    OpenAdmitsNobody
    HalfOpenHasProbe
    TripsExactlyOnStreak
PROPERTIES
    CoolDownNeverRestarts
    EarlyCloseOnlyByVeteran
    HalfOpenSettles
