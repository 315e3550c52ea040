------------------------------ MODULE Listener ------------------------------
(***************************************************************************)
(* The stream of accepted connections: accept_connection's next(), which   *)
(* opens the context's listener when there is none and then waits for      *)
(* connection requests, and cleanup().  One stream, whose user asks for    *)
(* the next element when the last has come and cleans up at the end.       *)
(***************************************************************************)
EXTENDS Naturals, Sequences, FiniteSets

CONSTANTS
    MaxRequests,    \* bound on the connection requests
    MaxNexts        \* bound on the calls of next()

VARIABLES
    listener,   \* ucpListener_: "none" or "open"
    requests,   \* epConnReqQueue_
    next,       \* the operation of next(): where it is
    settled,    \* per request: "unborn", "queued", "accepted", "rejected"
    nexts,      \* calls of next()
    stream      \* "running", "cleaned" or "destroyed" (the context is)

lsVars == <<listener, requests, next, settled, nexts, stream>>

LsInit ==
    /\ listener = "none"
    /\ requests = <<>>
    /\ next = "none"
    /\ settled = [r \in 1 .. MaxRequests |-> "unborn"]
    /\ nexts = 0
    /\ stream = "running"

Settle(rs, how) ==
    settled' = [r \in DOMAIN settled |->
                  IF \E i \in DOMAIN rs : rs[i] = r THEN how ELSE settled[r]]

\* ucp_listener_create.
Listen(ok) == listener' = IF ok THEN "open" ELSE "none"

\* The listener is only opened when there is none; if that fails the
\* operation ends with the error.
Next(ok) ==
    /\ stream = "running" /\ next = "none" /\ nexts < MaxNexts
    /\ nexts' = nexts + 1
    /\ IF listener = "none" THEN Listen(ok) ELSE ok /\ UNCHANGED listener
    /\ next' = IF ok THEN "started" ELSE "none"
    /\ UNCHANGED <<requests, settled, stream>>

\* accept_sender on the I/O thread takes every request there is or parks in
\* pendingAcptIoQueue_.
StartAccept ==
    /\ next = "started"
    /\ IF requests = <<>>
       THEN next' = "parked" /\ UNCHANGED <<requests, settled>>
       ELSE /\ Settle(requests, "accepted")
            /\ requests' = <<>>
            /\ next' = "none"
    /\ UNCHANGED <<listener, nexts, stream>>

\* connect_request_callback: a parked accept is scheduled again.
ConnectRequest(r) ==
    /\ listener = "open" /\ settled[r] = "unborn"
    /\ requests' = Append(requests, r)
    /\ settled' = [settled EXCEPT ![r] = "queued"]
    /\ next' = IF next = "parked" THEN "started" ELSE next
    /\ UNCHANGED <<listener, nexts, stream>>

\* The receiver's stop token: a parked accept is withdrawn and ends as done.
StopAccept ==
    /\ next = "parked"
    /\ next' = "none"
    /\ UNCHANGED <<listener, requests, settled, nexts, stream>>

\* The listener goes, the requests stay in the queue.
CleanupUnrejected ==
    /\ stream = "running" /\ next = "none"
    /\ listener' = "none"
    /\ stream' = "cleaned"
    /\ UNCHANGED <<requests, next, settled, nexts>>

\* cleanup: what is queued is rejected, whether or not UCX minds.
Cleanup ==
    /\ stream = "running" /\ next = "none"
    /\ Settle(requests, "rejected")
    /\ requests' = <<>>
    /\ listener' = "none"
    /\ stream' = "cleaned"
    /\ UNCHANGED <<next, nexts>>

\* ~ucx_am_context, with or without a cleanup before.
DestroyListener ==
    /\ stream # "destroyed" /\ next = "none"
    /\ listener' = "none"
    /\ stream' = "destroyed"
    /\ UNCHANGED <<requests, next, settled, nexts>>

LsNext ==
    \/ \E ok \in BOOLEAN : Next(ok)
    \/ StartAccept
    \/ \E r \in 1 .. MaxRequests : ConnectRequest(r)
    \/ StopAccept
    \/ Cleanup
    \/ DestroyListener

\* No connection request is forgotten: while a next() waits the listener is
\* open and no request is queued; each request is queued, given out or
\* rejected, and none is left without an answer once the stream is cleaned up
\* (next, cleanup, connect_request_callback).
RequestsAnswered ==
    /\ next = "parked" => listener = "open" /\ requests = <<>>
    /\ stream = "cleaned" => \A r \in DOMAIN settled : settled[r] # "queued"

=============================================================================
