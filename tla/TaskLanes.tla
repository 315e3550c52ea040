------------------------------ MODULE TaskLanes ------------------------------
(***************************************************************************)
(* What scheduling on a ucx_am_context promises: an operation handed to    *)
(* schedule_impl joins the lane of the place it is scheduled from (the     *)
(* remote threads together, or the I/O thread), and the operations of a    *)
(* lane are started one at a time, each once, in the order they joined.    *)
(* A lane is the set of its waiting operations together with the order in  *)
(* which they joined.                                                      *)
(***************************************************************************)

CONSTANTS Lanes, Tasks

VARIABLES
    lane,       \* per lane: the operations that wait in it
    earlier,    \* the pairs <<s, t>> of one lane of which s joined first
    started

laneVars == <<lane, earlier, started>>

Init ==
    /\ lane = [l \in Lanes |-> {}]
    /\ earlier = {}
    /\ started = {}

Waiting == UNION {lane[l] : l \in Lanes}

Submit(l, t) ==
    /\ t \notin started \cup Waiting
    /\ lane' = [lane EXCEPT ![l] = @ \cup {t}]
    /\ earlier' = earlier \cup (lane[l] \X {t})
    /\ UNCHANGED started

First(l, t) == t \in lane[l] /\ \A s \in lane[l] : <<s, t>> \notin earlier

Others(t) == {p \in earlier : p[1] # t}

\* The first operation of lane l starts.
Start(l, t) ==
    /\ First(l, t)
    /\ lane' = [lane EXCEPT ![l] = @ \ {t}]
    /\ earlier' = Others(t)
    /\ started' = started \cup {t}

\* It starts, and its receiver submits the operation u to the lane k in the
\* same step.
StartAndSubmit(l, t, k, u) ==
    /\ First(l, t)
    /\ u \notin started \cup Waiting
    /\ lane' = [[lane EXCEPT ![l] = @ \ {t}] EXCEPT ![k] = @ \cup {u}]
    /\ earlier' = Others(t) \cup ((lane[k] \ {t}) \X {u})
    /\ started' = started \cup {t}

Next ==
    \E l \in Lanes, t \in Tasks :
      \/ Submit(l, t)
      \/ Start(l, t)
      \/ \E k \in Lanes, u \in Tasks : StartAndSubmit(l, t, k, u)

Spec == Init /\ [][Next]_laneVars
=============================================================================
