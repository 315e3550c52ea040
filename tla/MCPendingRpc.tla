---------------------------- MODULE MCPendingRpc ----------------------------
(***************************************************************************)
(* Instances of PendingRpc for TLC.                                        *)
(***************************************************************************)
EXTENDS PendingRpc, TLC

\* Beyond a race every property of the run calls holds by its hypothesis, and
\* the run goes on only with what the race of two threads over one call does.
RacedAlone == raced => nextRequestId = 2 /\ client = "running"

\* Calls are interchangeable, and so are sessions: which call is made first,
\* and with which session, does not matter.  (A symmetry set would not be sound
\* for the temporal property.)
FirstCall == CHOOSE r \in Rpcs : TRUE
FirstSession == CHOOSE s \in Sessions : TRUE
Canonical ==
    nextRequestId > 1 => id[FirstCall] = 1 /\ callSession[FirstCall] = FirstSession

\* At most one call is cancelled or has a send that fails.
OneStopped == Cardinality({r \in Rpcs : stopRequested[r]}) <= 1

\* A call is not stopped in a behaviour in which the client is.
StoppedApart == (\E r \in Rpcs : stopRequested[r]) => client = "running"

\* A call is made when the calls before it have completed.
OneAtATime ==
    \A r, q \in Rpcs :
      id[r] \in 1 .. id[q] - 1 => recv[r] \in {"value", "error", "done"}
=============================================================================
