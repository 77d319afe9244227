CONSTANTS
    Alerts = {a1, a2, a3, a4}
    SourceOf <- OneSource
    RateLimit = 2
    Window = 2
    MaxChannels = 1
    MaxTime = 2
    MaxStarts = 2
    MaxStops = 2
CHECK_DEADLOCK FALSE
SPECIFICATION Spec
SYMMETRY Symmetry
INVARIANTS RateBound AlertInOnePlace
