CONSTANTS
    Tasks = {t1, t2, t3}
    WorkerCount = 2
    MaxRetries = 2
    MaxStarts = 1
    MayStop = FALSE
    MayExit = FALSE
CHECK_DEADLOCK FALSE
SPECIFICATION FairSpec
PROPERTIES EveryTaskFinishes
