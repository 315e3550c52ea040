CONSTANTS
    Ops = {o1, o2}
    Kinds = {"send", "recv", "recvHeader", "recvBuffer", "connect", "accept"}
    Requests = {r1}
    CqEntryCount = 2
    MaxMessages = 1
    MaxConnReqs = 1

SPECIFICATION Spec
SYMMETRY Symmetry

INVARIANTS
    LinkedOnce
    SlotsCoverRequests
    ConnectionAccounted
