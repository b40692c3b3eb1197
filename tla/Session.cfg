\* Two tasks share a session, abandon calls or not, and the bridge may fail.
CONSTANTS
    c1 = c1
    c2 = c2
    NoCaller = NoCaller
    Callers <- TwoCallers
    MaxId = 4
SPECIFICATION Spec
SYMMETRY AnyCaller
INVARIANTS
    TypeOK
    AckedWritesOnServer
    RejectedWritesNotApplied
    ClosedSessionHasNoBridge
    CleanCloseLosesNothing
    OneRequestInFlight
PROPERTY ImplementsContract
\* The session ends for good once it is dropped.
CHECK_DEADLOCK FALSE
