SPECIFICATION Spec
CONSTANTS
    Servers = {a, b}
    Workers = 2
    Loops = {l1, l2}
    MaxGeneration = 2
    None = None
SYMMETRY Symmetry
INVARIANTS
    TypeOK
    RequestNotLost
    QuietMeansRanked
PROPERTY
    SwitchIsVerified
CHECK_DEADLOCK FALSE
