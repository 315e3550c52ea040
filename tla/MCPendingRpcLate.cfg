SPECIFICATION Spec
CONSTANTS
    Rpcs = {r1, r2}
    Sessions = {s1}
    Size = 1
CONSTRAINT OneAtATime
INVARIANTS CalledForItself
CHECK_DEADLOCK FALSE
