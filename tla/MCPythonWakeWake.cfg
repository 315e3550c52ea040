SPECIFICATION FairSpec
CONSTANTS
    Producers = {p1, p2}
    Loops = {l1, l2}
    Tasks = {t1, t2}
    MaxStarts = 2
INVARIANTS NoTaskLost
PROPERTIES EnqueuedIsTaken
\* Everything may be at rest.
CHECK_DEADLOCK FALSE
