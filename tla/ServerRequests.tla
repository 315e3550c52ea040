--------------------------- MODULE ServerRequests ---------------------------
(***************************************************************************)
(* The server side of AxonWorker: starting and stopping it, the pipeline   *)
(* every request goes through, and the storage of retained requests.       *)
(*                                                                         *)
(* The receive loop runs on the server context's thread; it builds and     *)
(* starts the sender of a request, which runs on the thread pool under the *)
(* deadline, receives a rendezvous payload on the context's thread, calls  *)
(* the function and sends the answer.  StopServer runs on a user's thread  *)
(* and so does everything that works on the stored requests.  storage_ and *)
(* request_id_to_iterator_ have no lock: each access is one step here, and *)
(* keeping the threads apart is left to the user, as in the code.          *)
(***************************************************************************)
EXTENDS Naturals

CONSTANTS
    Msgs,       \* requests
    Ids,        \* message ids: the raw clock value of the header
    Fns,        \* registered functions, each named for its kind
    Bypass      \* functions that bypass_backpressure_checker_ lets through

None == "none"
Unregistered == "unregistered"
Malformed == "malformed"

ASSUME ServerAssumption ==
    /\ Fns \subseteq {"mono", "trans", "keep"}
    /\ Bypass \subseteq Fns
    /\ None \notin Msgs

VARIABLES
    req,        \* per request: path, function and id, as the client chose them
    msg,        \* per request: where it is in the pipeline
    desc,       \* requests with a descriptor in the context's amDescMap_
    stored,     \* storage_: the requests in arrival_requests_
    index,      \* request_id_to_iterator_
    cursor,     \* ProcessStoredRequests: the elements its iterator will reach
    server,     \* server_running_, server_stopped_, the loop, the thread, ...
    stopper     \* where the call of StopServer that stops the server is

vars == <<req, msg, desc, stored, index, cursor, server, stopper>>

\* The functions whose RetentionPolicy decides about the request.
Retaining == {"keep"}

\* "empty" is a rendezvous without tensor metas and without data.  Only a
\* retained request's id is looked at.
Requests ==
    {r \in [path : {"eager", "rndv", "empty"},
            fn : Fns \cup {Unregistered, Malformed}, id : Ids] :
       r.fn \in Retaining \/ r.id = CHOOSE i \in Ids : TRUE}

New == [st |-> "new", late |-> FALSE, pay |-> "op", ans |-> 0,
        unanswered |-> FALSE]

Init ==
    /\ req \in [Msgs -> Requests]
    /\ msg = [m \in Msgs |-> New]
    /\ desc = {}
    /\ stored = {}
    /\ index = [i \in Ids |-> None]
    /\ cursor = {}
    /\ server = [running |-> FALSE, stopped |-> FALSE, loop |-> "off",
                 thread |-> "none", stop |-> FALSE, contextStop |-> FALSE,
                 scopeClosed |-> FALSE]
    /\ stopper = "idle"

InScope == {"pool", "context", "receive", "call", "send", "error"}

InProgress(m) == msg[m].st \in InScope

\* The stop token of the sender under stop_when: the deadline's, which also
\* follows server_stop_source_.
StopRequested(m) == msg[m].late \/ server.stop

-----------------------------------------------------------------------------
(* Starting and stopping.                                                  *)

\* A closed scope spawns nothing: the future is done at once.  Called while
\* the thread still runs, after StopServer began, it would end the process
\* (server_thread_ is assigned while joinable).
StartServer ==
    /\ ~server.running
    /\ server.thread # "running"
    /\ server' = [server EXCEPT !.running = TRUE, !.thread = "running",
                                !.loop = IF server.scopeClosed
                                         THEN "ended" ELSE "on"]
    /\ UNCHANGED <<req, msg, desc, stored, index, cursor, stopper>>

\* Without server_stop_source_.request_stop().
StopServerSilently ==
    /\ stopper = "idle"
    /\ ~server.stopped
    /\ server' = [server EXCEPT !.stopped = TRUE, !.running = FALSE,
                                !.scopeClosed = @ \/ ~server.running]
    /\ stopper' = IF server.running THEN "future" ELSE "onlyScope"
    /\ UNCHANGED <<req, msg, desc, stored, index, cursor>>

StopServer ==
    /\ stopper = "idle"
    /\ ~server.stopped
    /\ server' = [server EXCEPT !.stopped = TRUE, !.running = FALSE,
                                !.stop = @ \/ server.running,
                                !.scopeClosed = @ \/ ~server.running]
    /\ stopper' = IF server.running THEN "future" ELSE "onlyScope"
    /\ UNCHANGED <<req, msg, desc, stored, index, cursor>>

\* sync_wait of server_future_, after which join closes the scope.
FutureEnds ==
    /\ stopper = "future"
    /\ server.loop = "ended"
    /\ server' = [server EXCEPT !.scopeClosed = TRUE]
    /\ stopper' = "scope"
    /\ UNCHANGED <<req, msg, desc, stored, index, cursor>>

\* Without joining server_async_scope_.
ScopeJoinedAtOnce ==
    /\ stopper \in {"scope", "onlyScope"}
    /\ stopper' = IF stopper = "scope" THEN "thread" ELSE "returned"
    /\ server' = [server EXCEPT !.contextStop = @ \/ stopper = "scope"]
    /\ UNCHANGED <<req, msg, desc, stored, index, cursor>>

ScopeJoined ==
    /\ stopper \in {"scope", "onlyScope"}
    /\ \A m \in Msgs : ~InProgress(m)
    /\ stopper' = IF stopper = "scope" THEN "thread" ELSE "returned"
    /\ server' = [server EXCEPT !.contextStop = @ \/ stopper = "scope"]
    /\ UNCHANGED <<req, msg, desc, stored, index, cursor>>

ThreadJoined ==
    /\ stopper = "thread"
    /\ server.thread = "exited"
    /\ stopper' = "returned"
    /\ UNCHANGED <<req, msg, desc, stored, index, cursor, server>>

\* run() returns when its stop token is set.
ThreadExits ==
    /\ server.thread = "running"
    /\ server.contextStop
    /\ server' = [server EXCEPT !.thread = "exited"]
    /\ UNCHANGED <<req, msg, desc, stored, index, cursor, stopper>>

\* The repeated receive is cancelled by server_stop_source_.
LoopEnds ==
    /\ server.loop = "on"
    /\ server.stop
    /\ server' = [server EXCEPT !.loop = "ended"]
    /\ UNCHANGED <<req, msg, desc, stored, index, cursor, stopper>>

-----------------------------------------------------------------------------
(* From the context's queue to the thread pool.                            *)

\* The context queues the message; a rendezvous message leaves a descriptor.
\* A message the callback refuses (its connection has failed, or there is no
\* memory) stays "new" for ever.
AmRecvCallback(m) ==
    /\ server.thread = "running"
    /\ msg[m].st = "new"
    /\ msg' = [msg EXCEPT ![m].st = "arrived"]
    /\ desc' = IF req[m].path # "eager" THEN desc \cup {m} ELSE desc
    /\ UNCHANGED <<req, stored, index, cursor, server, stopper>>

\* Why the header is refused, or "valid".  reject_messages_ is a flag any
\* thread may set: rejecting is what the load returns.
ServerProcessHeader(m, rejecting) ==
    CASE req[m].fn = Malformed -> "DeserializeError"
      [] req[m].fn # Malformed /\ rejecting /\ req[m].fn \notin Bypass ->
           "StorageBackpressure"
      [] req[m].fn = Unregistered /\ (~rejecting \/ req[m].fn \in Bypass) ->
           "NOT_FOUND"
      [] OTHER -> "valid"

\* A refused rendezvous request gives its descriptor back at once.
ServerProcessMessage(m, rejecting) ==
    IF ServerProcessHeader(m, rejecting) = "valid"
    THEN /\ msg' = [msg EXCEPT ![m].st = "pool"]
         /\ UNCHANGED desc
    ELSE /\ msg' = [msg EXCEPT ![m].st = "error"]
         /\ desc' = desc \ {m}

\* One turn of the loop: receive a message and spawn its sender, which runs
\* on this thread up to the thread pool.
ServerCtxLoop(m) ==
    /\ server.loop = "on"
    /\ msg[m].st = "arrived"
    /\ \E rejecting \in BOOLEAN : ServerProcessMessage(m, rejecting)
    /\ UNCHANGED <<req, stored, index, cursor, server, stopper>>

\* schedule_after(timeout_) of stop_when: the rest is asked to stop.
DeadlineExpires(m) ==
    /\ msg[m].st \in InScope \ {"error"}
    /\ ~msg[m].late
    /\ msg' = [msg EXCEPT ![m].late = TRUE]
    /\ UNCHANGED <<req, desc, stored, index, cursor, server, stopper>>

-----------------------------------------------------------------------------
(* The storage of requests.                                                *)

\* emplace on the index keeps an entry that is there.
Preserve(m) ==
    /\ stored' = stored \cup {m}
    /\ index' = [index EXCEPT ![req[m].id] = IF @ = None THEN m ELSE @]

\* The index entry stays.
EraseStoredRequestKeepsIndex(m) ==
    /\ stored' = stored \ {m}
    /\ msg' = [msg EXCEPT ![m].pay = IF @ = "storage" THEN "freed" ELSE @]
    /\ UNCHANGED index

\* Both erase the entry of the id, whichever request it points at.
EraseStoredRequest(m) ==
    /\ stored' = stored \ {m}
    /\ index' = [index EXCEPT ![req[m].id] = None]
    /\ msg' = [msg EXCEPT ![m].pay = IF @ = "storage" THEN "freed" ELSE @]

FindStoredRequest(i) == index[i]

\* What follows the visitor's answer; "Preserve" leaves the request alone.
ProcessLifecycleStatus(m, status) ==
    IF status \in {"Discard", "Error"}
    THEN EraseStoredRequest(m)
    ELSE UNCHANGED <<stored, index, msg>>

\* One request by its id, by the three overloads that take one.
ProcessStoredRequest(i, status) ==
    /\ FindStoredRequest(i) # None
    /\ ProcessLifecycleStatus(FindStoredRequest(i), status)
    /\ UNCHANGED <<req, desc, cursor, server, stopper>>

\* All of them: the iterator may or may not reach what is stored meanwhile.
ProcessStoredRequests ==
    /\ cursor = {}
    /\ stored # {}
    /\ cursor' = stored
    /\ UNCHANGED <<req, msg, desc, stored, index, server, stopper>>

ProcessNextStoredRequest(m, status) ==
    /\ m \in cursor
    /\ ProcessLifecycleStatus(m, status)
    /\ cursor' = IF status = "Error" THEN {} ELSE cursor \ {m}
    /\ UNCHANGED <<req, desc, server, stopper>>

\* EraseStoredRequest of the interface, which no visitor calls for a request
\* the iteration has not reached.
EraseByUser(m) ==
    /\ m \in stored
    /\ cursor = {}
    /\ EraseStoredRequest(m)
    /\ UNCHANGED <<req, desc, cursor, server, stopper>>

\* AxonStorage::load puts a saved request back, without an index entry.
Load(m) ==
    /\ msg[m].st = "new"
    /\ req[m].fn \in Retaining
    /\ msg' = [msg EXCEPT ![m].st = "loaded", ![m].pay = "storage"]
    /\ stored' = stored \cup {m}
    /\ UNCHANGED <<req, desc, index, cursor, server, stopper>>

-----------------------------------------------------------------------------
(* Calling the function.                                                   *)

\* The payload of a transient request is kept by the operation.  A retained
\* one moves into a shared AxonRequest that only the storage keeps alive
\* while the function is called with a reference to it.
ServerDispatchAndManageLifecycle(m) ==
    \/ /\ req[m].fn \notin Retaining
       /\ msg' = [msg EXCEPT ![m].st = "call"]
       /\ UNCHANGED <<stored, index>>
    \/ /\ req[m].fn \in Retaining
       /\ msg' = [msg EXCEPT ![m].st = "call", ![m].pay = "storage"]
       /\ Preserve(m)
    \/ /\ req[m].fn \in Retaining
       /\ msg' = [msg EXCEPT ![m].st = "call", ![m].pay = "freed"]
       /\ UNCHANGED <<stored, index>>

\* let_done: DEADLINE_EXCEEDED, also when it was the server that stopped.
ReturnTimeoutErrorContext(m) ==
    /\ msg' = [msg EXCEPT ![m].st = "error"]
    /\ UNCHANGED <<stored, index>>

\* Without let_error around the pipeline.
RethrowErrorContextLost(m) ==
    /\ msg' = [msg EXCEPT ![m].st = "done"]
    /\ UNCHANGED <<stored, index>>

\* just_error(...) of a handler, a failed step or a function that throws,
\* with RethrowErrorContextHelper_ behind it.
RethrowErrorContext(m) ==
    /\ msg' = [msg EXCEPT ![m].st = "error"]
    /\ UNCHANGED <<stored, index>>

\* The eager operator of the visitor.
ServerRequestHandlerEager(m) ==
    /\ req[m].path = "eager"
    /\ IF req[m].fn = "mono" THEN RethrowErrorContext(m)
       ELSE ServerDispatchAndManageLifecycle(m)

\* The rendezvous operator: the receive is scheduled on the context, or the
\* request is refused with its descriptor left where it is.
ServerRequestHandlerRndv(m) ==
    /\ req[m].path # "eager"
    /\ IF req[m].path = "empty" \/ req[m].fn = "mono"
       THEN RethrowErrorContext(m)
       ELSE /\ msg' = [msg EXCEPT ![m].st = "context"]
            /\ UNCHANGED <<stored, index>>

\* A thread of the pool runs the handler's sender, or finds the stop request.
ServerProcessValidMessage(m) ==
    /\ msg[m].st = "pool"
    /\ IF StopRequested(m) THEN ReturnTimeoutErrorContext(m)
       ELSE ServerRequestHandlerEager(m) \/ ServerRequestHandlerRndv(m)
    /\ UNCHANGED <<req, desc, cursor, server, stopper>>

\* On the context's thread.  Stopped before it starts, the receive leaves the
\* descriptor; started, it takes the descriptor whatever becomes of it.
ProcessRndvBuffer(m) ==
    /\ msg[m].st = "context"
    /\ \/ /\ StopRequested(m)
          /\ ReturnTimeoutErrorContext(m)
          /\ UNCHANGED desc
       \/ /\ msg' = [msg EXCEPT ![m].st = "receive"]
          /\ desc' = desc \ {m}
          /\ UNCHANGED <<stored, index>>
    /\ UNCHANGED <<req, cursor, server, stopper>>

\* The bundle's processor calls the function on the context's thread.
ServerProcessBufferBundle(m) ==
    /\ msg[m].st = "receive"
    /\ \/ ServerDispatchAndManageLifecycle(m)
       \/ RethrowErrorContext(m)
       \/ StopRequested(m) /\ ReturnTimeoutErrorContext(m)
    /\ UNCHANGED <<req, desc, cursor, server, stopper>>

FunctionReturns(m) ==
    /\ msg[m].st = "call"
    /\ msg' = [msg EXCEPT ![m].st = "send"]
    /\ UNCHANGED <<req, desc, stored, index, cursor, server, stopper>>

\* It throws, or is not called because the arguments do not fit: that is
\* every retained function with parameters, as its header was moved away.
FunctionFails(m) ==
    /\ msg[m].st = "call"
    /\ RethrowErrorContext(m)
    /\ UNCHANGED <<req, desc, cursor, server, stopper>>

-----------------------------------------------------------------------------
(* Answering.                                                              *)

\* The result of a completed send is taken for an error.
ServerHandleSendResponseMisread(m) ==
    /\ msg[m].st = "send"
    /\ msg' = [msg EXCEPT ![m].st = "error", ![m].ans = @ + 1]
    /\ UNCHANGED <<req, desc, stored, index, cursor, server, stopper>>

ServerHandleSendResponse(m) ==
    /\ msg[m].st = "send"
    /\ msg' = [msg EXCEPT ![m].st = "done", ![m].ans = @ + 1]
    /\ UNCHANGED <<req, desc, stored, index, cursor, server, stopper>>

\* A send that is asked to stop ends in done whether or not UCX had sent the
\* message by then, and let_done makes DEADLINE_EXCEEDED of it.
SendResponseStopped(m) ==
    /\ StopRequested(m)
    /\ \/ ReturnTimeoutErrorContext(m)
       \/ /\ msg' = [msg EXCEPT ![m].st = "error", ![m].ans = @ + 1]
          /\ UNCHANGED <<stored, index>>

\* The send itself fails, or is stopped.
SendResponseFails(m) ==
    /\ msg[m].st = "send"
    /\ RethrowErrorContext(m) \/ SendResponseStopped(m)
    /\ UNCHANGED <<req, desc, cursor, server, stopper>>

ServerHandleSendErrorResponse(m) ==
    /\ msg[m].st = "error"
    /\ msg' = [msg EXCEPT ![m].st = "done", ![m].ans = @ + 1]
    /\ UNCHANGED <<req, desc, stored, index, cursor, server, stopper>>

\* upon_error only reports it, and a stop ends it.
SendErrorResponseFails(m) ==
    /\ msg[m].st = "error"
    /\ msg' = [msg EXCEPT ![m].st = "done", ![m].unanswered = TRUE]
    /\ UNCHANGED <<req, desc, stored, index, cursor, server, stopper>>

-----------------------------------------------------------------------------
Pipeline(m) ==
    \/ ServerCtxLoop(m)
    \/ ServerProcessValidMessage(m)
    \/ ProcessRndvBuffer(m)
    \/ ServerProcessBufferBundle(m)
    \/ FunctionReturns(m)
    \/ FunctionFails(m)
    \/ ServerHandleSendResponse(m)
    \/ SendResponseFails(m)
    \/ ServerHandleSendErrorResponse(m)
    \/ SendErrorResponseFails(m)

Stopping ==
    \/ FutureEnds
    \/ ScopeJoined
    \/ ThreadJoined
    \/ ThreadExits
    \/ LoopEnds

Statuses == {"Discard", "Preserve", "Error"}

Next ==
    \/ StartServer
    \/ StopServer
    \/ Stopping
    \/ \E m \in Msgs :
         \/ AmRecvCallback(m)
         \/ Pipeline(m)
         \/ DeadlineExpires(m)
         \/ EraseByUser(m)
         \/ Load(m)
         \/ \E status \in Statuses : ProcessNextStoredRequest(m, status)
    \/ \E i \in Ids, status \in Statuses : ProcessStoredRequest(i, status)
    \/ ProcessStoredRequests

\* The threads run, functions return, and UCX completes what it was given.
Fairness ==
    /\ \A m \in Msgs : WF_vars(Pipeline(m))
    /\ WF_vars(Stopping)

Spec == Init /\ [][Next]_vars /\ Fairness

-----------------------------------------------------------------------------
\* A request is answered at most once, except that an error answer may follow
\* an answer whose send the deadline or StopServer overtook: the send ends in
\* done although UCX sent it, and let_done and let_error around
\* ServerHandleSendResponse_ answer again.  Never a third time, and never
\* twice without a stop.
AnsweredOnce ==
    \A m \in Msgs : msg[m].ans <= 1 \/ (msg[m].ans = 2 /\ StopRequested(m))

\* amDescMap_ holds descriptors only of requests that will still take them,
\* except three kinds the code forgets: a request for a function registered
\* without payload, one without tensor metas and data, and one stopped before
\* its receive has started.
DescriptorOwned ==
    \A m \in desc :
        \/ msg[m].st \in {"arrived", "pool", "context"}
        \/ req[m].fn = "mono" \/ req[m].path = "empty"
        \/ StopRequested(m)

\* The two together: a request ends once, for its caller and for UCX.
SettledOnce == AnsweredOnce /\ DescriptorOwned

\* request_id_to_iterator_ holds no iterator of an erased request, and none
\* under an id that is not the request's.
IndexPointsAtStored ==
    \A i \in Ids :
        index[i] # None => index[i] \in stored /\ req[index[i]].id = i

\* A request the server stored is found by its id as long as no other request
\* with this id is or was stored, loaded ones included.
Findable ==
    \A m \in stored :
        \/ index[req[m].id] = m
        \/ msg[m].st = "loaded"
        \/ \E n \in Msgs \ {m} :
             req[n].id = req[m].id /\ msg[n].pay \in {"storage", "freed"}

\* The two together: FindStoredRequest finds what is stored, and nothing else.
IndexExact == IndexPointsAtStored /\ Findable

\* When StopServer has returned, no request is being processed any more: the
\* function's objects may be destroyed.
StoppedIsQuiet ==
    stopper = "returned" => \A m \in Msgs : ~InProgress(m)

\* A request taken by the loop is answered, unless the answer could not be
\* sent.
RequestAnswered ==
    \A m \in Msgs :
        (msg[m].st \in InScope) ~> (msg[m].ans > 0 \/ msg[m].unanswered)

\* StopServer returns.
StopReturns == (stopper # "idle") ~> (stopper = "returned")

=============================================================================
