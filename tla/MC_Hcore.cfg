SPECIFICATION Spec
CONSTANTS
    Starts = {s1}
    Stops = {p1}
    Restarts = {r1}
    None = None
INVARIANTS
    TypeOK
    StopPrevails
    RunningIsReported
    ListenerIsCurrent
PROPERTIES
    ImplementsCoreCalls
