SPECIFICATION FairSpec
CONSTANTS
    Producers = {p1, p2}
    RemoteTasks = {t1, t2, t3}
    LocalTasks = {l1}
    RecvOps = {}
    StopOp = stop
    CqEntryCount = 2
    MaxMessages = 0
INVARIANTS NoLostWakeup SingleSignaller DequeueOnlyWhenActive
PROPERTIES ImplementsTaskLanes QueuedOpStarts
\* The loop ends when it is stopped.
CHECK_DEADLOCK FALSE
