CONSTANTS
    Workers = {w1, w2, w3}
    ConnIds = {c1, c2}
    MaxSlots = 2
    MaxGeneration = 4
    Pushers = {io}
    Poppers = {io}
    Nodes = {n1, n2, n3}
    MaxPushes = 5
    FnIds = {1}
    Objs = {o1, o2, o3}
    Blocks = {b1, b2}
    MaxParts = 2
    MaxRequests = 3
    MaxNexts = 3
    BufSize = 2
    MaxBytes = 5
    Names = {f1}
    MaxStored = 3
    LogicalRange = 3
    MaxTime = 1
    Requests = {r1, r2}
    Responses = {p1}
    Calls = {k1}
    MaxSize = 2
    MaxLoopErrors = 1
SPECIFICATION PartsSpec
INVARIANTS
    CallReachesNamedWorker
    SignatureKept
    OneOwner
    RequestsAnswered
    BytesInOrder
    LoadRestores
    AnswerIntact
    SeenIsPast
    ReplyAfterRequest
PROPERTIES
    ClockAdvances
SYMMETRY Symmetry
CHECK_DEADLOCK FALSE
