SPECIFICATION FairSpec
CONSTANTS
    Producers = {p1}
    RemoteTasks = {t1, t2}
    LocalTasks = {}
    RecvOps = {}
    StopOp = stop
    CqEntryCount = 2
    MaxMessages = 0
PROPERTIES EveryQueuedOpStarts
CHECK_DEADLOCK FALSE
