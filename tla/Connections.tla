---------------------------- MODULE Connections ----------------------------
(***************************************************************************)
(* The connections of a ucx_am_context: UcxConnection, ConnectionManager   *)
(* and the code of ucx_am_context that makes, loses and destroys them.     *)
(*                                                                         *)
(* All of it runs on the I/O thread (the destructor after the loop has     *)
(* ended).  The hard part is re-entrance: disconnect_direct and the loops  *)
(* of the destructor call ucp_worker_progress, and UCX then calls back     *)
(* into this code: a request completes, an endpoint fails, a peer that is  *)
(* not known yet sends its first message, a connection is asked for.  pc   *)
(* says where the thread is and Progressing where UCX may call back.       *)
(*                                                                         *)
(* A connection's id is the address of its UCX endpoint.  Endpoints are    *)
(* modelled from their use: ucp_ep_create takes a free address, a close    *)
(* gives it back at once or after a while, an endpoint that is in error    *)
(* mode PEER reports at most one error and delivers no message after it.   *)
(* Assertions are taken as compiled out.                                   *)
(***************************************************************************)
EXTENDS Integers, Sequences, FiniteSets, SequencesExt

CONSTANTS
    Conns,                  \* UcxConnection objects, each constructed once
    Eps,                    \* addresses of endpoints
    Requests,               \* UcxRequest objects of the worker's pool
    ConnectionHandleError,  \* connectionHandleError_
    MaxConnReqs             \* bound on the length of epConnReqQueue_

ASSUME ConnectionsAssumption ==
    /\ ConnectionHandleError \in BOOLEAN
    /\ MaxConnReqs \in Nat
    /\ IsFiniteSet(Eps)

None == "none"

ASSUME NoneAssumption == None \notin Conns \cup Eps

VARIABLES
    pc,         \* where the I/O thread is
    cur,        \* the connection disconnect_direct is at work on, and where
                \* the thread goes on after it
    todo,       \* the connections a loop of the destructor has still to do
    mgr,        \* conn_manager_
    conn,       \* per connection object
    ep,         \* per endpoint: what UCX knows of it
    req,        \* per request
    connReqs    \* epConnReqQueue_, its length

vars == <<pc, cur, todo, mgr, conn, ep, req, connReqs>>

Unborn == [life |-> "unborn", ep |-> None, status |-> "ok",
           disconnecting |-> FALSE, closing |-> None]

Init ==
    /\ pc = "run"
    /\ cur = [conn |-> None, back |-> "run"]
    /\ todo = <<>>
    /\ mgr = [connections |-> <<>>, freeSlots |-> <<>>,
              activeMap |-> <<>>, inactiveMap |-> <<>>,
              failedConns |-> <<>>, disconnectingConns |-> <<>>]
    /\ conn = [c \in Conns |-> Unborn]
    /\ ep = [e \in Eps |-> [state |-> "free", handler |-> None]]
    /\ req = [r \in Requests |-> [out |-> FALSE, conn |-> None,
                                  callback |-> FALSE, called |-> 1]]
    /\ connReqs = 0

-----------------------------------------------------------------------------
(* ConnectionManager.                                                      *)

Erase(map, id) == [i \in DOMAIN map \ {id} |-> map[i]]

Insert(map, id, slot) ==
    [i \in DOMAIN map \cup {id} |-> IF i = id THEN slot ELSE map[i]]

AddConnection(m, id, c) ==
    LET slot == IF m.freeSlots = <<>> THEN Len(m.connections) + 1
                                      ELSE Head(m.freeSlots)
    IN [m EXCEPT
          !.freeSlots = IF @ = <<>> THEN @ ELSE Tail(@),
          !.connections = IF m.freeSlots = <<>> THEN Append(@, c)
                                                ELSE [@ EXCEPT ![slot] = c],
          !.activeMap = Insert(@, id, slot)]

RemoveConnectionToInactiveMap(m, id) ==
    IF id \notin DOMAIN m.activeMap THEN m
    ELSE [m EXCEPT !.activeMap = Erase(@, id),
                   !.inactiveMap = Insert(@, id, m.activeMap[id])]

RemoveConnectionToContainer(m, id, container, map) ==
    IF id \notin DOMAIN m[map] THEN m
    ELSE LET slot == m[map][id]
         IN [m EXCEPT ![container] = Append(@, m.connections[slot]),
                      !.connections[slot] = None,
                      ![map] = Erase(@, id),
                      !.freeSlots = Append(@, slot)]

RemoveConnectionToFailedQueue(m, id) ==
    RemoveConnectionToContainer(m, id, "failedConns", "activeMap")

MoveConnectionFromInactiveToDisconnectingQueue(m, id) ==
    RemoveConnectionToContainer(m, id, "disconnectingConns", "inactiveMap")

\* The slots are not given back: the manager is about to be cleared.
RemoveActiveConnectionsToDisconnectingQueue(m) ==
    LET ids == SetToSeq(DOMAIN m.activeMap)
        slots == {m.activeMap[id] : id \in DOMAIN m.activeMap}
    IN [m EXCEPT
          !.disconnectingConns =
             @ \o [i \in DOMAIN ids |-> m.connections[m.activeMap[ids[i]]]],
          !.connections = [s \in DOMAIN @ |-> IF s \in slots THEN None ELSE @[s]],
          !.activeMap = <<>>]

-----------------------------------------------------------------------------
(* Requests.                                                               *)

\* all_requests_ of a connection.
AllRequests(c) == {r \in Requests : req[r].out /\ req[r].conn = c}

\* UCX returns a request: a refusal or a result at once calls the callback
\* and leaves no trace.
ProcessRequest(c) ==
    /\ ep[conn[c].ep].state = "open"
    /\ \E r \in Requests : ~req[r].out
    /\ req' = [req EXCEPT ![CHOOSE r \in Requests : ~req[r].out] =
                  [out |-> TRUE, conn |-> c, callback |-> TRUE, called |-> 0]]
    /\ UNCHANGED <<pc, cur, todo, mgr, conn, ep, connReqs>>

\* The caller got the connection when it was active; one that has been
\* closed since cancels at once.
SendAmData(c) ==
    /\ pc = "run" /\ conn[c].life = "live"
    /\ conn[c].ep # None
    /\ ProcessRequest(c)

SendAmIovData(c) ==
    /\ pc = "run" /\ conn[c].life = "live"
    /\ conn[c].ep # None
    /\ ProcessRequest(c)

\* A message that came with its data completes at once; for the others the
\* code relies on the connection still being open.
RecvAmData(c) ==
    /\ pc = "run" /\ conn[c].life = "live"
    /\ conn[c].ep \in DOMAIN mgr.activeMap
    /\ ProcessRequest(c)

RecvAmIovData(c) ==
    /\ pc = "run" /\ conn[c].life = "live"
    /\ conn[c].ep \in DOMAIN mgr.activeMap
    /\ ProcessRequest(c)

\* Mutant: the request is handed back before its callback is looked at.
ForceKeepsCallback(rs) ==
    req' = [r \in Requests |->
              IF r \in rs THEN [req[r] EXCEPT !.conn = None, !.called = @ + 1]
                          ELSE req[r]]

\* What disconnect_direct does to the requests it could not get completed.
ForceRequests(rs) ==
    req' = [r \in Requests |->
              IF r \in rs
              THEN [req[r] EXCEPT !.conn = None, !.callback = FALSE,
                                  !.called = IF req[r].callback
                                             THEN @ + 1 ELSE @]
              ELSE req[r]]

\* UCX gets to callbacks only from ucp_worker_progress.
Progressing ==
    \/ pc = "run"
    \/ pc = "direct" /\ AllRequests(cur.conn) # {}
    \/ pc = "dropFailed" /\ mgr.failedConns # <<>>
    \/ pc = "wait" /\ mgr.disconnectingConns # <<>>

\* request_completed and request_release.
CommonRequestCallback(r) ==
    /\ Progressing
    /\ req[r].out
    /\ req' = [req EXCEPT ![r] = [out |-> FALSE, conn |-> None,
                                  callback |-> FALSE,
                                  called |-> IF req[r].callback
                                             THEN @.called + 1
                                             ELSE @.called]]
    /\ UNCHANGED <<pc, cur, todo, mgr, conn, ep, connReqs>>

-----------------------------------------------------------------------------
(* UcxConnection.                                                          *)

\* ep_close of the connections in cs; slow are the ones whose close takes
\* its time.  A connection that has no endpoint any more has nothing to do.
EpClose(cs, slow, after) ==
    LET closing == {conn[c].ep : c \in cs} \ {None}
        slowEps == {conn[c].ep : c \in slow}
    IN /\ slow \subseteq {c \in cs : conn[c].ep # None}
       /\ ep' = [e \in Eps |->
                   IF e \notin closing THEN ep[e]
                   ELSE [state |-> IF e \in slowEps THEN "closing" ELSE "free",
                         handler |-> None]]
       /\ conn' = [c \in Conns |->
                     IF c \notin cs THEN conn[c]
                     ELSE [after[c] EXCEPT
                             !.ep = None,
                             !.closing = IF after[c].life = "gone" THEN None
                                         ELSE IF c \in slow THEN conn[c].ep
                                         ELSE @]]

\* Objects are constructed one after the other: which is which is no matter.
Constructible == \E c \in Conns : conn[c].life = "unborn"

Constructed == CHOOSE c \in Conns : conn[c].life = "unborn"

\* The constructor.
NewConnection(e) == [Unborn EXCEPT !.life = "live", !.ep = e]

\* connect_common: the endpoint is made and the connection established.
ConnectCommon(e, handled) ==
    /\ Constructible
    /\ ep[e].state = "free"
    /\ ep' = [ep EXCEPT ![e] = [state |-> "open",
                                handler |-> IF handled THEN Constructed
                                                       ELSE None]]
    /\ conn' = [conn EXCEPT ![Constructed] = NewConnection(e)]

\* disconnect() of the connection of a connect that was cancelled.
Disconnect(c, slow) ==
    /\ pc = "run"
    /\ conn[c].life = "live"
    /\ conn[c].ep \in DOMAIN mgr.activeMap
    /\ mgr' = MoveConnectionFromInactiveToDisconnectingQueue(
                 RemoveConnectionToInactiveMap(mgr, conn[c].ep), conn[c].ep)
    /\ EpClose({c}, slow, [d \in {c} |->
                  [conn[d] EXCEPT !.disconnecting = TRUE, !.status = "error"]])
    /\ UNCHANGED <<pc, cur, todo, req, connReqs>>

\* Errors that handle_connection_error passes over.
ErrorIgnored(c) == conn[c].status = "error" \/ conn[c].disconnecting

\* Mutant: the entry of active_map_ stays, only the endpoint is told.
HandleErrorStaysActive(e) ==
    /\ Progressing
    /\ ep[e].state = "open"
    /\ ep[e].handler # None
    /\ ep' = [ep EXCEPT ![e].state = "failed"]
    /\ conn' = [conn EXCEPT ![ep[e].handler].status = "error"]
    /\ UNCHANGED <<pc, cur, todo, mgr, req, connReqs>>

\* error_callback, on an endpoint that was given a handler.
HandleConnectionError(e) ==
    /\ Progressing
    /\ ep[e].state = "open"
    /\ ep[e].handler # None
    /\ ep' = [ep EXCEPT ![e].state = "failed"]
    /\ LET c == ep[e].handler
       IN IF ErrorIgnored(c) THEN UNCHANGED <<conn, mgr>>
          ELSE /\ conn' = [conn EXCEPT ![c].status = "error"]
               /\ mgr' = RemoveConnectionToFailedQueue(mgr, conn[c].ep)
    /\ UNCHANGED <<pc, cur, todo, req, connReqs>>

\* The last part of disconnect_direct.
FinishDisconnectDirect(slow) ==
    /\ pc = "direct"
    /\ ForceRequests(AllRequests(cur.conn))
    /\ EpClose({cur.conn}, slow, conn)
    /\ pc' = cur.back
    /\ cur' = [conn |-> None, back |-> "run"]
    /\ UNCHANGED <<todo, mgr, connReqs>>

\* Mutant: only a connection whose endpoint was closed is done.
DisconnectProgressClosed(c) ==
    AllRequests(c) = {} /\ conn[c].closing = None /\ conn[c].ep = None

\* disconnect_progress; its callback is EmptyCallback.
DisconnectProgress(c) == AllRequests(c) = {} /\ conn[c].closing = None

\* A close that took its time is over.
CloseCompleted(e) ==
    /\ Progressing
    /\ ep[e].state = "closing"
    /\ ep' = [ep EXCEPT ![e].state = "free"]
    /\ conn' = [c \in Conns |-> IF conn[c].closing = e
                                THEN [conn[c] EXCEPT !.closing = None]
                                ELSE conn[c]]
    /\ UNCHANGED <<pc, cur, todo, mgr, req, connReqs>>

-----------------------------------------------------------------------------
(* ucx_am_context: connections made.                                       *)

HandleNewConnection(m, e) == AddConnection(m, e, Constructed)

\* create_new_connection with an address.  When ucp_ep_create fails the
\* connection is destroyed at once.
CreateNewConnection(e) == ConnectCommon(e, ConnectionHandleError)

\* From connect_sender.
Connect(e) ==
    /\ pc = "run"
    /\ CreateNewConnection(e)
    /\ mgr' = HandleNewConnection(mgr, e)
    /\ UNCHANGED <<pc, cur, todo, req, connReqs>>

\* create_new_connection with an endpoint that UCX made for a peer.
CreateNewConnectionForEp(e) == ConnectCommon(e, ConnectionHandleError)

\* am_recv_callback with a reply_ep that is not in the active map.
AmRecvCallback(e) ==
    /\ Progressing
    /\ CreateNewConnectionForEp(e)
    /\ mgr' = HandleNewConnection(mgr, e)
    /\ UNCHANGED <<pc, cur, todo, req, connReqs>>

\* The same when ucp_ep_modify_nb fails: the connection is closed in
\* handle_new_connection and destroyed, whether or not the close is over.
AmRecvCallbackRefused(e) ==
    /\ Progressing
    /\ ConnectionHandleError
    /\ Constructible
    /\ ep[e].state = "free"
    /\ ep' = [ep EXCEPT ![e].state = "closing"]
    /\ conn' = [conn EXCEPT ![Constructed].life = "gone"]
    /\ UNCHANGED <<pc, cur, todo, mgr, req, connReqs>>

ConnectRequestCallback ==
    /\ Progressing
    /\ connReqs < MaxConnReqs
    /\ connReqs' = connReqs + 1
    /\ UNCHANGED <<pc, cur, todo, mgr, conn, ep, req>>

\* progress_pending_conn_requests, from accept_sender: until the queue is
\* empty.
ProgressPendingConnRequests ==
    /\ pc = "run" /\ connReqs > 0
    /\ pc' = "accept"
    /\ UNCHANGED <<cur, todo, mgr, conn, ep, req, connReqs>>

\* UcxConnection::accept; the error callback is always given here.
Accept(e) == ConnectCommon(e, TRUE)

\* progress_conn_request.
ProgressConnRequest(e) ==
    /\ pc = "accept"
    /\ Accept(e)
    /\ mgr' = AddConnection(mgr, e, Constructed)
    /\ connReqs' = connReqs - 1
    /\ pc' = IF connReqs = 1 THEN "run" ELSE "accept"
    /\ UNCHANGED <<cur, todo, req>>

\* It has waited for longer than connTimeout_, or ucp_ep_create fails.
RejectConnRequest ==
    /\ pc = "accept"
    /\ connReqs' = connReqs - 1
    /\ pc' = IF connReqs = 1 THEN "run" ELSE "accept"
    /\ UNCHANGED <<cur, todo, mgr, conn, ep, req>>

-----------------------------------------------------------------------------
(* dispatch_connection_error_sender: failed connections handled.           *)

\* The connection leaves failedConns_ and its endpoint is closed, in a call
\* that UCX may re-enter.
Dispatch(c) ==
    /\ pc' = "direct"
    /\ cur' = [conn |-> c, back |-> "dispatch"]

\* Mutant: the connection is not taken out of failedConns_.
DispatchLeavesIt ==
    /\ pc \in {"run", "dispatch"} /\ mgr.failedConns # <<>>
    /\ Dispatch(Head(mgr.failedConns))
    /\ mgr' = [mgr EXCEPT
                 !.disconnectingConns = Append(@, Head(mgr.failedConns))]
    /\ UNCHANGED <<todo, conn, ep, req, connReqs>>

\* connection_error_handler_ says no.
DispatchConnectionError ==
    /\ pc \in {"run", "dispatch"} /\ mgr.failedConns # <<>>
    /\ Dispatch(Head(mgr.failedConns))
    /\ mgr' = [mgr EXCEPT
                 !.failedConns = Tail(@),
                 !.disconnectingConns = Append(@, Head(mgr.failedConns))]
    /\ UNCHANGED <<todo, conn, ep, req, connReqs>>

\* It says yes: recreate_connection_from_failed.
RecreateConnectionFromFailed(e) ==
    /\ pc \in {"run", "dispatch"} /\ mgr.failedConns # <<>>
    /\ CreateNewConnection(e)
    /\ Dispatch(Head(mgr.failedConns))
    /\ mgr' = [HandleNewConnection(mgr, e) EXCEPT
                 !.failedConns = Tail(@),
                 !.disconnectingConns = Append(@, Head(mgr.failedConns))]
    /\ UNCHANGED <<todo, req, connReqs>>

\* It says yes and the endpoint cannot be made: get_connection finds
\* nothing, and value() throws in a function that is noexcept.
RecreateFails ==
    /\ pc \in {"run", "dispatch"} /\ mgr.failedConns # <<>>
    /\ pc' = "terminated"
    /\ UNCHANGED <<cur, todo, mgr, conn, ep, req, connReqs>>

DispatchEnds ==
    /\ pc = "dispatch" /\ mgr.failedConns = <<>>
    /\ pc' = "run"
    /\ UNCHANGED <<cur, todo, mgr, conn, ep, req, connReqs>>

-----------------------------------------------------------------------------
(* ~ucx_am_context.                                                        *)

\* The for loops of destroy_connections that call disconnect_direct; end()
\* is read once, so connections that fail meanwhile are not visited.
DirectLoop(here, next) ==
    /\ pc = here
    /\ \/ /\ todo # <<>>
          /\ pc' = "direct"
          /\ cur' = [conn |-> Head(todo), back |-> here]
          /\ todo' = Tail(todo)
       \/ /\ todo = <<>>
          /\ pc' = next
          /\ UNCHANGED <<cur, todo>>
    /\ UNCHANGED <<mgr, conn, ep, req, connReqs>>

DestroyConnections ==
    /\ pc = "run"
    /\ pc' = "directFailed"
    /\ todo' = mgr.failedConns
    /\ UNCHANGED <<cur, mgr, conn, ep, req, connReqs>>

\* The destructor of UcxConnection; EpClose comes with it.
Destruct(c) == [conn[c] EXCEPT !.life = "gone"]

\* The indices in kept in their order.
Ascending(kept) ==
    {at \in [1 .. Cardinality(kept) -> kept] :
       /\ \A i, j \in DOMAIN at : i < j => at[i] < at[j]
       /\ \A k \in kept : \E i \in DOMAIN at : at[i] = k}

\* The connections in list that are done: erased, and destroyed.
RemoveDone(list, slow) ==
    LET done == {c \in ToSet(mgr[list]) : DisconnectProgress(c)}
        kept == {i \in DOMAIN mgr[list] : mgr[list][i] \notin done}
    IN /\ done # {}
       /\ \E at \in Ascending(kept) :
             mgr' = [mgr EXCEPT ![list] = [i \in DOMAIN at |-> mgr[list][at[i]]]]
       /\ EpClose(done, slow,
                  [c \in done |-> Destruct(c)])

RemoveFailedConnections(slow) ==
    /\ pc = "dropFailed"
    /\ RemoveDone("failedConns", slow)
    /\ UNCHANGED <<pc, cur, todo, req, connReqs>>

\* The loop goes round with nothing done.
FailedLoopIdles ==
    /\ pc = "dropFailed" /\ mgr.failedConns # <<>>
    /\ UNCHANGED vars

\* No failed connection is left: the active ones are moved.
NoMoreFailed ==
    /\ pc = "dropFailed" /\ mgr.failedConns = <<>>
    /\ mgr' = RemoveActiveConnectionsToDisconnectingQueue(mgr)
    /\ todo' = mgr'.disconnectingConns
    /\ pc' = "disconnectAll"
    /\ UNCHANGED <<cur, conn, ep, req, connReqs>>

\* disconnect() of each; the manager's maps do not have them any more.
DisconnectActive(slow) ==
    /\ pc = "disconnectAll" /\ todo # <<>>
    /\ todo' = Tail(todo)
    /\ LET c == Head(todo)
       IN IF conn[c].ep = None THEN slow = {} /\ UNCHANGED <<conn, ep>>
          ELSE EpClose({c}, slow, [d \in {c} |->
                 [conn[d] EXCEPT !.disconnecting = TRUE, !.status = "error"]])
    /\ UNCHANGED <<pc, cur, mgr, req, connReqs>>

AllDisconnected ==
    /\ pc = "disconnectAll" /\ todo = <<>>
    /\ pc' = "wait"
    /\ UNCHANGED <<cur, todo, mgr, conn, ep, req, connReqs>>

\* wait_disconnected_connections; disconnect_progress sets disconnect_cb_.
RemoveDisconnectedConnections(slow) ==
    /\ pc = "wait"
    /\ RemoveDone("disconnectingConns", slow)
    /\ UNCHANGED <<pc, cur, todo, req, connReqs>>

\* The list is empty or five seconds have passed.
WaitEnds ==
    /\ pc = "wait"
    /\ pc' = "directRest"
    /\ todo' = mgr.failedConns \o mgr.disconnectingConns
    /\ UNCHANGED <<cur, mgr, conn, ep, req, connReqs>>

Held(m) == (ToSet(m.connections) \cup ToSet(m.failedConns)
              \cup ToSet(m.disconnectingConns)) \ {None}

\* clear() destroys what is left; then the listener and the worker go.
Clear(slow) ==
    /\ pc = "clear"
    /\ mgr' = [mgr EXCEPT !.activeMap = <<>>, !.inactiveMap = <<>>,
                          !.failedConns = <<>>, !.disconnectingConns = <<>>,
                          !.connections = <<>>]
    /\ EpClose(Held(mgr), slow, [c \in Conns |-> Destruct(c)])
    /\ ForceRequests({r \in Requests : req[r].conn \in Held(mgr)})
    /\ pc' = "destroyed"
    /\ todo' = <<>>
    /\ UNCHANGED <<cur, connReqs>>

Destroyed == pc \in {"destroyed", "terminated"} /\ UNCHANGED vars

-----------------------------------------------------------------------------

Context ==
    \/ \E c \in Conns : \/ SendAmData(c) \/ SendAmIovData(c)
                         \/ RecvAmData(c) \/ RecvAmIovData(c)
    \/ \E e \in Eps : \/ Connect(e)
                       \/ ProgressConnRequest(e)
                       \/ RecreateConnectionFromFailed(e)
    \/ \E slow \in SUBSET Conns :
          \/ \E c \in Conns : Disconnect(c, slow)
          \/ FinishDisconnectDirect(slow)
          \/ RemoveFailedConnections(slow)
          \/ DisconnectActive(slow)
          \/ RemoveDisconnectedConnections(slow)
          \/ Clear(slow)
    \/ ProgressPendingConnRequests
    \/ RejectConnRequest
    \/ DispatchConnectionError
    \/ RecreateFails
    \/ DispatchEnds
    \/ DestroyConnections
    \/ DirectLoop("directFailed", "dropFailed")
    \/ FailedLoopIdles
    \/ NoMoreFailed
    \/ AllDisconnected
    \/ WaitEnds
    \/ DirectLoop("directRest", "clear")

Ucx ==
    \/ \E r \in Requests : CommonRequestCallback(r)
    \/ \E e \in Eps : \/ HandleConnectionError(e)
                       \/ CloseCompleted(e)
                       \/ AmRecvCallback(e)
                       \/ AmRecvCallbackRefused(e)
    \/ ConnectRequestCallback

Next == Context \/ Ucx \/ Destroyed

Teardown ==
    \/ \E slow \in SUBSET Conns :
          \/ FinishDisconnectDirect(slow)
          \/ RemoveFailedConnections(slow)
          \/ DisconnectActive(slow)
          \/ Clear(slow)
    \/ DirectLoop("directFailed", "dropFailed")
    \/ NoMoreFailed
    \/ AllDisconnected
    \/ WaitEnds
    \/ DirectLoop("directRest", "clear")

\* The destructor goes on, the wait for disconnected connections is bounded
\* by its time limit, and UCX completes the requests and closes it was asked
\* to cancel or to force.  Nothing makes the destructor start.
Fairness ==
    /\ WF_vars(Teardown)
    /\ \A r \in Requests : WF_vars(CommonRequestCallback(r))
    /\ \A e \in Eps : WF_vars(CloseCompleted(e))

Spec == Init /\ [][Next]_vars /\ Fairness

-----------------------------------------------------------------------------

Places == {"run", "accept", "direct", "dispatch", "terminated",
           "directFailed", "dropFailed", "disconnectAll", "wait",
           "directRest", "clear", "destroyed"}

Slots == DOMAIN mgr.connections

TypeOK ==
    /\ pc \in Places
    /\ cur \in [conn : Conns \cup {None}, back : Places]
    /\ todo \in Seq(Conns)
    /\ mgr.connections \in Seq(Conns \cup {None})
    /\ mgr.freeSlots \in Seq(Nat)
    /\ DOMAIN mgr.activeMap \subseteq Eps
    /\ mgr.inactiveMap = <<>>
    /\ mgr.failedConns \in Seq(Conns) /\ mgr.disconnectingConns \in Seq(Conns)
    /\ conn \in [Conns -> [life : {"unborn", "live", "gone"},
                            ep : Eps \cup {None}, status : {"ok", "error"},
                            disconnecting : BOOLEAN,
                            closing : Eps \cup {None}]]
    /\ ep \in [Eps -> [state : {"free", "open", "failed", "closing"},
                        handler : Conns \cup {None}]]
    /\ req \in [Requests -> [out : BOOLEAN, conn : Conns \cup {None},
                              callback : BOOLEAN, called : Nat]]
    /\ connReqs \in 0 .. MaxConnReqs

\* The destructor has not begun, or has not come to the active connections.
SlotsInUse ==
    \/ pc \in {"run", "accept", "dispatch", "directFailed", "dropFailed"}
    \/ pc = "direct" /\ cur.back \in {"dispatch", "directFailed"}

\* Before the destructor gives up the slots, every slot of connections_ is
\* either in freeSlots_, once and empty, or the slot of exactly one entry of
\* active_map_: add_connection never reuses a slot in use and none is lost.
SlotsPartitioned ==
    SlotsInUse =>
      LET used == {mgr.activeMap[id] : id \in DOMAIN mgr.activeMap}
          free == ToSet(mgr.freeSlots)
      IN /\ used \cup free = Slots /\ used \cap free = {}
         /\ IsInjective(mgr.freeSlots) /\ IsInjective(mgr.activeMap)
         /\ \A s \in Slots : mgr.connections[s] = None <=> s \in free

\* A connection that was made and not yet destroyed is held by exactly one
\* of connections_, failedConns_ and disconnectingConns_, once, also while
\* UCX re-enters the code that moves it.
OneOwner ==
    \A c \in Conns :
      Cardinality({s \in Slots : mgr.connections[s] = c})
        + Cardinality({i \in DOMAIN mgr.failedConns : mgr.failedConns[i] = c})
        + Cardinality({i \in DOMAIN mgr.disconnectingConns :
                         mgr.disconnectingConns[i] = c})
      = IF conn[c].life = "live" THEN 1 ELSE 0

\* The two together: ConnectionManager neither loses a connection or a slot
\* nor holds one twice.
ConnectionsHeld == TypeOK /\ SlotsPartitioned /\ OneOwner

\* get_connection(id) gives the connection that has the endpoint of that
\* address, one that is not in error; every endpoint UCX has open belongs to
\* one live connection, which is also the one its error handler points to.
EndpointOwned ==
    /\ \A id \in DOMAIN mgr.activeMap :
         LET c == mgr.connections[mgr.activeMap[id]]
         IN conn[c].ep = id /\ conn[c].status = "ok"
    /\ \A e \in Eps :
         LET owners == {c \in Conns : conn[c].life = "live" /\ conn[c].ep = e}
         IN IF ep[e].state \in {"open", "failed"}
            THEN Cardinality(owners) = 1 /\ ep[e].handler \in owners \cup {None}
            ELSE owners = {} /\ ep[e].handler = None

\* The callback of a request is called exactly once, by its completion or by
\* disconnect_direct, and a request that refers to a connection never
\* outlives it: the late completion of a forced request touches neither.
CalledOnce ==
    \A r \in Requests :
      /\ req[r].called = IF req[r].out /\ req[r].callback THEN 0 ELSE 1
      /\ req[r].conn # None => conn[req[r].conn].life = "live"

\* When the worker is destroyed no connection, open endpoint or uncalled
\* callback is left, whatever failed or connected during the destructor.
NothingLeftBehind ==
    pc = "destroyed" =>
      /\ \A c \in Conns : conn[c].life # "live"
      /\ \A e \in Eps : ep[e].state \in {"free", "closing"}
      /\ \A r \in Requests : ~req[r].callback

\* The handler of dispatch_connection_error gets the id of the connection
\* that failed: while it waits in failedConns_ its endpoint is not closed.
FailedKeepsItsId ==
    (pc \in {"run", "accept", "dispatch"} \/ cur.back = "dispatch") =>
      \A c \in ToSet(mgr.failedConns) :
        conn[c].ep # None /\ ep[conn[c].ep].state = "failed"

\* With what get_connection finds and what the error handler is told.
EndpointsKnown == EndpointOwned /\ FailedKeepsItsId

\* The destructor ends, with nothing left behind: its loop over the failed
\* connections has no time limit and stops only when their requests and
\* closes have completed.
DestructorEnds ==
    pc = "directFailed" ~> pc = "destroyed" /\ NothingLeftBehind

=============================================================================
