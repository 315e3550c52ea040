SPECIFICATION FairSpec
CONSTANTS
    Rpcs = {r1, r2}
    Sessions = {s1, s2}
    Size = 1
CONSTRAINTS RacedAlone Canonical OneStopped StoppedApart
INVARIANTS HandlerOwned 
PROPERTIES RegisteredCompletes
\* The threads may all be at rest.
CHECK_DEADLOCK FALSE
