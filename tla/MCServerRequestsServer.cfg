CONSTANTS
    Msgs = {m1, m2}
    Ids = {i1, i2}
    Fns = {"mono", "trans", "keep"}
    Bypass = {"trans"}

SPECIFICATION SpecOneOrder

INVARIANTS
    SettledOnce
    IndexExact
    StoppedIsQuiet

PROPERTIES
    RequestAnswered
    StopReturns

CHECK_DEADLOCK FALSE
