SPECIFICATION Spec
CONSTANTS
    Ops = {o1, o2}
    CqEntryCount = 2
    DueTimes = {1, 2}
    MaxTime = 2
    CounterRange = 8
INVARIANTS CompletesOnceWhenDue TimerSlots TimerWakeupPending
PROPERTIES TimerCompletes
