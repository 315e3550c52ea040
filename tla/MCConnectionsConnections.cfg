CONSTANTS
    Conns = {c1, c2, c3}
    Eps = {e1, e2}
    Requests = {r1, r2}
    ConnectionHandleError = TRUE
    MaxConnReqs = 1

SPECIFICATION Spec

INVARIANTS
    ConnectionsHeld
    EndpointsKnown
    CalledOnce

PROPERTY
    DestructorEnds
