SPECIFICATION Spec
CONSTANTS
    c1 = c1
    c2 = c2
    c3 = c3
    c4 = c4
    Callers <- OneCaller
    FailureThreshold = 30
    ResetTimeout = 50
PROPERTY
    ImplementsStateMachine
