SPECIFICATION FairSpec
CONSTANTS
    Producers = {p1}
    RemoteTasks = {}
    LocalTasks = {}
    RecvOps = {r1, r2}
    StopOp = stop
    CqEntryCount = 2
    MaxMessages = 2
INVARIANTS SlotAccounting InOnePlace
PROPERTIES PendingIoStarts
\* The loop ends when it is stopped.
CHECK_DEADLOCK FALSE
