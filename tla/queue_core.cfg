CONSTANTS
    Tasks = {t1, t2}
    WorkerCount = 2
    MaxRetries = 2
    MaxStarts = 2
    MayStop = TRUE
    MayExit = TRUE
CHECK_DEADLOCK FALSE
SPECIFICATION Spec
SYMMETRY Symmetry
INVARIANTS InOnePlace StateTruth RetriesBounded
PROPERTIES ImplementsLifecycle
