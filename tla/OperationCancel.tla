--------------------------- MODULE OperationCancel ---------------------------
(***************************************************************************)
(* The operations of ucx_am_context's senders (ucx_am_context.hpp) and how *)
(* they are stopped: send_sender_t, recv_sender, recv_header_sender,       *)
(* recv_buffer_sender_t, connect_sender and accept_sender.                 *)
(*                                                                         *)
(* An operation has two intrusive nodes: the operation itself and its      *)
(* cancel_operation cop_.  Whoever asks it to stop takes refCount_ from 1  *)
(* to 2, sets cancel_flag_ and hands cop_ to the I/O thread.  The actions  *)
(* of that thread are whole handlers; start_io is two (the stop callback   *)
(* is registered, then the submission is tried), since a stop request may  *)
(* come between.  A stop request of another thread is one step per atomic  *)
(* access.  stopCallback_.destruct() waits for a callback that is running, *)
(* which then only finds refCount_ = 0: the model lets it find that after  *)
(* the completion instead.                                                 *)
(*                                                                         *)
(* The remote queue's wakeup protocol is EventLoop's subject; here the     *)
(* loop takes what is in the queue every time round.  A delivered          *)
(* operation is freed by its owner, so the model stops ("crashed") when    *)
(* the I/O thread is about to touch one.                                   *)
(***************************************************************************)
EXTENDS Integers, Sequences, FiniteSets

CONSTANTS
    Ops,            \* operations, each of one of the Kinds
    Kinds,          \* senders the run is about
    Requests,       \* ucx_request objects of the worker's pool
    CqEntryCount,   \* kCompletionQueueEntryCount
    MaxMessages,    \* bound on the active messages that arrive
    MaxConnReqs     \* bound on the connection requests that arrive

AllKinds == {"send", "recv", "recvHeader", "recvBuffer", "connect", "accept"}

\* The senders both of whose completions count refCount_ down.
SymmetricKinds == {"recvBuffer", "connect"}

\* The senders that park and whose request_stop looks at onPending_.
ParkingKinds == {"recv", "recvHeader", "accept"}

ASSUME KindsAssumption == Kinds \subseteq AllKinds

ASSUME CqEntryCountAssumption == CqEntryCount \in Nat \ {0}

ASSUME BoundsAssumption == MaxMessages \in Nat /\ MaxConnReqs \in Nat

\* request_ = nullptr; DeferredReleaseCallback; a request back in the pool.
None == "none"
Deferred == "deferred"
Free == [cb |-> None, via |-> None]

ASSUME OpsAssumption == {None, Deferred} \cap (Ops \cup Requests) = {}

VARIABLES
    pc,             \* where the I/O thread is in run_impl
    cur,            \* the node whose execute_ it runs
    back,           \* where it goes on after that
    batch,          \* the queue execute_pending_local moved aside
    localQueue, remoteQueue, pendingIoQueue,
    pendingRecvIoQueue, pendingAcptIoQueue,
    cq,             \* the entries of the completion ring, oldest first
    sqUnflushedCount,
    requests,       \* per ucx_request: its callback and how it reports
    amDescQueue,    \* how the receive of each arrived message will go
    arrived,        \* messages that have arrived so far
    connReqs,       \* epConnReqQueue_, its length
    connArrived,    \* connection requests that have arrived so far
    kind,           \* per operation: its sender
    execute,        \* per operation: what its execute_ does
    copExecute,     \* per operation: what cop_.execute_ does
    callback,       \* per operation: the state of stopCallback_
    refCount,       \* per operation: refCount_
    cancelFlag,     \* per operation: cancel_flag_
    onPending,      \* per operation: onPending_
    request,        \* per operation: request_
    desc,           \* per operation: amDescMap_ holds its descriptor
    conn,           \* per operation: the connection a connect made
    completed,      \* per operation: how often its receiver was called
    stop            \* per operation: where its stop request has got

queueVars == <<batch, localQueue, remoteQueue, pendingIoQueue,
               pendingRecvIoQueue, pendingAcptIoQueue>>

inputVars == <<amDescQueue, arrived, connReqs, connArrived>>

opVars == <<kind, execute, copExecute, callback, refCount, cancelFlag,
            onPending, request, desc, conn, completed>>

vars == <<pc, cur, back, queueVars, cq, sqUnflushedCount, requests, inputVars,
          opVars, stop>>

-----------------------------------------------------------------------------

\* The two intrusive nodes of an operation.
Op(o) == <<o, "op">>
Cop(o) == <<o, "cop">>

Nodes == Ops \X {"op", "cop"}

\* Its data is in hand, has to be fetched, or its connection is gone.
MessageKinds == {"eager", "rndv", "gone"}

\* onPending_ starts as true in accept_sender and as false in the receives.
Init ==
    /\ pc = "progress"
    /\ cur = <<None, "op">>
    /\ back = "exec"
    /\ batch = <<>>
    /\ localQueue = <<>>
    /\ remoteQueue = <<>>
    /\ pendingIoQueue = <<>>
    /\ pendingRecvIoQueue = <<>>
    /\ pendingAcptIoQueue = <<>>
    /\ cq = <<>>
    /\ sqUnflushedCount = 0
    /\ requests = [r \in Requests |-> Free]
    /\ amDescQueue = <<>>
    /\ arrived = 0
    /\ connReqs = 0
    /\ connArrived = 0
    /\ kind \in [Ops -> Kinds]
    /\ execute = [o \in Ops |-> "new"]
    /\ copExecute = [o \in Ops |-> "unset"]
    /\ callback = [o \in Ops |-> "unset"]
    /\ refCount = [o \in Ops |-> 1]
    /\ cancelFlag = [o \in Ops |-> FALSE]
    /\ onPending = [o \in Ops |-> kind[o] = "accept"]
    /\ request = [o \in Ops |-> None]
    /\ desc = [o \in Ops |-> TRUE]
    /\ conn = [o \in Ops |-> "none"]
    /\ completed = [o \in Ops |-> 0]
    /\ stop = [o \in Ops |-> "no"]

CanSubmitIo ==
    /\ sqUnflushedCount < CqEntryCount
    /\ Len(cq) + sqUnflushedCount < CqEntryCount

-----------------------------------------------------------------------------
(***************************************************************************)
(* request_stop_local: what it does to the operation, and how cop_ gets    *)
(* its entry in the completion ring or waits in pendingIoQueue_.           *)
(***************************************************************************)

\* Mutant: the operation is put in the queue itself, instead of its cop_.
PostCopTwice(o) ==
    \/ /\ CanSubmitIo
       /\ cq' = Append(cq, Cop(o))
       /\ copExecute' = [copExecute EXCEPT ![o] = "stopComplete"]
       /\ UNCHANGED pendingIoQueue
    \/ /\ ~CanSubmitIo
       /\ pendingIoQueue' = Append(pendingIoQueue, Op(o))
       /\ copExecute' = [copExecute EXCEPT ![o] = "stopLocal"]
       /\ UNCHANGED cq

\* try_submit_io of a lambda that posts cop_; refused, cop_ comes back later.
PostCop(o) ==
    \/ /\ CanSubmitIo
       /\ cq' = Append(cq, Cop(o))
       /\ copExecute' = [copExecute EXCEPT ![o] = "stopComplete"]
       /\ UNCHANGED pendingIoQueue
    \/ /\ ~CanSubmitIo
       /\ pendingIoQueue' = Append(pendingIoQueue, Cop(o))
       /\ copExecute' = [copExecute EXCEPT ![o] = "stopLocal"]
       /\ UNCHANGED cq

\* The indices in kept in their order.
Ascending(kept) ==
    {at \in [1 .. Cardinality(kept) -> kept] :
       /\ \A i, j \in DOMAIN at : i < j => at[i] < at[j]
       /\ \A k \in kept : \E i \in DOMAIN at : at[i] = k}

\* erase(remove_if(...)): the queue without the node n; one sequence.
Erased(queue, n) ==
    {[i \in DOMAIN at |-> queue[at[i]]] :
       at \in Ascending({i \in DOMAIN queue : queue[i] # n})}

\* The request loses its callback whether or not it still is this send's:
\* request_ is not reset when the request completes.  It keeps its callback
\* when the connection is not valid any more (is_connection_valid).
RequestStopLocalSend(o) ==
    /\ kind[o] = "send"
    /\ \/ /\ request[o] # None
          /\ requests[request[o]] # Free
          /\ requests' = [requests EXCEPT ![request[o]].cb = Deferred]
       \/ UNCHANGED requests
    /\ PostCop(o)
    /\ UNCHANGED <<pendingRecvIoQueue, pendingAcptIoQueue, desc, conn>>

RequestStopLocalRecv(o) ==
    /\ kind[o] = "recv"
    /\ \/ /\ CanSubmitIo
          /\ pendingRecvIoQueue' \in Erased(pendingRecvIoQueue, Op(o))
       \/ ~CanSubmitIo /\ UNCHANGED pendingRecvIoQueue
    /\ PostCop(o)
    /\ UNCHANGED <<requests, pendingAcptIoQueue, desc, conn>>

RequestStopLocalRecvHeader(o) ==
    /\ kind[o] = "recvHeader"
    /\ \/ /\ CanSubmitIo
          /\ pendingRecvIoQueue' \in Erased(pendingRecvIoQueue, Op(o))
       \/ ~CanSubmitIo /\ UNCHANGED pendingRecvIoQueue
    /\ PostCop(o)
    /\ UNCHANGED <<requests, pendingAcptIoQueue, desc, conn>>

\* The request is cancelled in UCX, which completes it all the same.
RequestStopLocalRecvBuffer(o) ==
    /\ kind[o] = "recvBuffer"
    /\ desc' = [desc EXCEPT ![o] = desc[o] /\ ~CanSubmitIo]
    /\ PostCop(o)
    /\ UNCHANGED <<requests, pendingRecvIoQueue, pendingAcptIoQueue, conn>>

RequestStopLocalConnect(o) ==
    /\ kind[o] = "connect"
    /\ conn' = [conn EXCEPT ![o] = IF @ = "open" /\ CanSubmitIo
                                   THEN "disconnected" ELSE @]
    /\ PostCop(o)
    /\ UNCHANGED <<requests, pendingRecvIoQueue, pendingAcptIoQueue, desc>>

RequestStopLocalAccept(o) ==
    /\ kind[o] = "accept"
    /\ \/ /\ CanSubmitIo
          /\ pendingAcptIoQueue' \in Erased(pendingAcptIoQueue, Op(o))
       \/ ~CanSubmitIo /\ UNCHANGED pendingAcptIoQueue
    /\ PostCop(o)
    /\ UNCHANGED <<requests, pendingRecvIoQueue, desc, conn>>

RequestStopLocal(o) ==
    \/ RequestStopLocalSend(o)
    \/ RequestStopLocalRecv(o)
    \/ RequestStopLocalRecvHeader(o)
    \/ RequestStopLocalRecvBuffer(o)
    \/ RequestStopLocalConnect(o)
    \/ RequestStopLocalAccept(o)

\* request_stop on the I/O thread.
RequestStopOnIoThread(o) ==
    \/ /\ refCount[o] = 1
       /\ kind[o] \in ParkingKinds => onPending[o]
       /\ refCount' = [refCount EXCEPT ![o] = 2]
       /\ cancelFlag' = [cancelFlag EXCEPT ![o] = TRUE]
       /\ RequestStopLocal(o)
    \/ /\ refCount[o] # 1 \/ (kind[o] \in ParkingKinds /\ ~onPending[o])
       /\ UNCHANGED <<refCount, cancelFlag, requests, pendingIoQueue, cq,
                      pendingRecvIoQueue, pendingAcptIoQueue, copExecute, desc,
                      conn>>

-----------------------------------------------------------------------------
(***************************************************************************)
(* start_io, its first half: try_setup_start_io.                           *)
(***************************************************************************)

\* The stop callback is constructed once; it runs at once when the stop was
\* requested before.
TrySetupStartIo(o) ==
    /\ \/ /\ callback[o] = "unset"
          /\ stop[o] = "no"
          /\ callback' = [callback EXCEPT ![o] = "registered"]
          /\ UNCHANGED <<refCount, cancelFlag, requests, pendingIoQueue, cq,
                         pendingRecvIoQueue, pendingAcptIoQueue, copExecute,
                         desc, conn>>
       \/ /\ callback[o] = "unset"
          /\ stop[o] # "no"
          /\ callback' = [callback EXCEPT ![o] = "ran"]
          /\ RequestStopOnIoThread(o)
       \/ /\ callback[o] # "unset"
          /\ UNCHANGED <<callback, refCount, cancelFlag, requests,
                         pendingIoQueue, cq, pendingRecvIoQueue,
                         pendingAcptIoQueue, copExecute, desc, conn>>
    /\ pc' = "submit"
    /\ UNCHANGED <<cur, back, batch, localQueue, remoteQueue,
                   sqUnflushedCount, inputVars, kind, execute, onPending,
                   request, completed, stop>>

-----------------------------------------------------------------------------
(***************************************************************************)
(* The completions of an operation and of its cop_.                        *)
(***************************************************************************)

\* stopCallback_.destruct() and the call of the receiver.
Deliver(o) ==
    /\ completed' = [completed EXCEPT ![o] = @ + 1]
    /\ callback' = [callback EXCEPT ![o] = "gone"]

\* fetch_sub; the last one delivers.
CountDown(o) ==
    /\ refCount' = [refCount EXCEPT ![o] = @ - 1]
    /\ \/ refCount[o] = 1 /\ Deliver(o)
       \/ refCount[o] # 1 /\ UNCHANGED <<completed, callback>>

\* The same in the senders that park; pending is what onPending_ holds.
CountDownUnlessPending(o, pending) ==
    /\ refCount' = [refCount EXCEPT ![o] = @ - 1]
    /\ \/ (refCount[o] = 1 \/ pending) /\ Deliver(o)
       \/ ~(refCount[o] = 1 \/ pending) /\ UNCHANGED <<completed, callback>>

OnWriteComplete(o) == kind[o] = "send" /\ CountDown(o)

OnReadComplete(o, pending) ==
    kind[o] = "recv" /\ CountDownUnlessPending(o, pending)

OnReadHeaderComplete(o, pending) ==
    kind[o] = "recvHeader" /\ CountDownUnlessPending(o, pending)

OnReadBufferComplete(o) == kind[o] = "recvBuffer" /\ CountDown(o)

\* stop_requested(), though the stop has lost refCount_, makes it set_done; the
\* receiver is given the connection otherwise.
OnConnect(o) ==
    /\ kind[o] = "connect"
    /\ CountDown(o)
    /\ conn' = [conn EXCEPT ![o] =
                  IF @ = "open" /\ refCount[o] = 1 /\ stop[o] = "no"
                  THEN "given" ELSE @]

OnAccept(o) ==
    kind[o] = "accept" /\ CountDownUnlessPending(o, onPending[o])

OnComplete(o) ==
    \/ OnConnect(o)
    \/ /\ \/ OnWriteComplete(o)
          \/ OnReadComplete(o, onPending[o])
          \/ OnReadBufferComplete(o)
          \/ OnAccept(o)
       /\ UNCHANGED conn

\* cancel_operation::on_stop_complete of the asymmetric senders.
OnStopComplete(o) ==
    /\ kind[o] \notin SymmetricKinds
    /\ Deliver(o)
    /\ UNCHANGED refCount

OnStopCompleteRecvBuffer(o) == kind[o] = "recvBuffer" /\ CountDown(o)

OnStopCompleteConnect(o) == kind[o] = "connect" /\ CountDown(o)

-----------------------------------------------------------------------------
(***************************************************************************)
(* start_io, its second half: try_submit_io with the sender's lambda.      *)
(* The lambda's --sqUnflushedCount_ and try_submit_io's increment are one  *)
(* change here.                                                            *)
(***************************************************************************)

\* get_completion_queue_entry for the operation itself.
PostOp(o, handler) ==
    /\ cq' = Append(cq, Op(o))
    /\ execute' = [execute EXCEPT ![o] = handler]
    /\ UNCHANGED <<sqUnflushedCount, requests, request>>

\* Mutant: the slot of a request in progress is given back.
BeginRequestWithoutSlot(o, via) ==
    \E r \in Requests :
        /\ requests[r] = Free
        /\ requests' = [requests EXCEPT ![r] = [cb |-> o, via |-> via]]
        /\ request' = [request EXCEPT ![o] = r]
        /\ execute' = [execute EXCEPT ![o] = "complete"]
        /\ UNCHANGED <<cq, sqUnflushedCount>>

\* process_request with a request that is in progress.
BeginRequest(o, via) ==
    \E r \in Requests :
        /\ requests[r] = Free
        /\ requests' = [requests EXCEPT ![r] = [cb |-> o, via |-> via]]
        /\ request' = [request EXCEPT ![o] = r]
        /\ execute' = [execute EXCEPT ![o] = "complete"]
        /\ sqUnflushedCount' = sqUnflushedCount + 1
        /\ UNCHANGED cq

\* The submission is refused.
StartIoRefused(o) ==
    /\ ~CanSubmitIo
    /\ execute' = [execute EXCEPT ![o] = "start"]
    /\ pendingIoQueue' = Append(pendingIoQueue, Op(o))
    /\ UNCHANGED <<cq, sqUnflushedCount, requests, request, amDescQueue,
                   connReqs, pendingRecvIoQueue, pendingAcptIoQueue, desc,
                   conn, onPending, refCount, completed, callback>>

\* cancel_flag_ is set: no entry is posted, yet try_submit_io counts one.
StartIoCancelled(o) ==
    /\ CanSubmitIo
    /\ cancelFlag[o]
    /\ kind[o] \notin SymmetricKinds
    /\ sqUnflushedCount' = sqUnflushedCount + 1
    /\ UNCHANGED <<cq, execute, requests, request, pendingIoQueue, amDescQueue,
                   connReqs, pendingRecvIoQueue, pendingAcptIoQueue, desc,
                   conn, onPending, refCount, completed, callback>>

\* UCX takes the message at once or later; a small one reports through
\* direct_cb_, which puts the operation in front of pendingIoQueue_.
StartIoSend(o) ==
    /\ CanSubmitIo
    /\ ~cancelFlag[o]
    /\ kind[o] = "send"
    /\ \/ /\ \E via \in {"cqe", "direct"} : BeginRequest(o, via)
          /\ UNCHANGED pendingIoQueue
       \/ PostOp(o, "complete") /\ UNCHANGED pendingIoQueue
       \/ /\ pendingIoQueue' = <<Op(o)>> \o pendingIoQueue
          /\ execute' = [execute EXCEPT ![o] = "complete"]
          /\ UNCHANGED <<cq, sqUnflushedCount, requests, request>>
    /\ UNCHANGED <<amDescQueue, connReqs, pendingRecvIoQueue,
                   pendingAcptIoQueue, desc, conn, onPending, refCount,
                   completed, callback>>

\* No message: the receive is parked and its slot given back.
Park(o) ==
    /\ amDescQueue = <<>>
    /\ onPending' = [onPending EXCEPT ![o] = TRUE]
    /\ execute' = [execute EXCEPT ![o] = "start"]
    /\ pendingRecvIoQueue' = <<Op(o)>> \o pendingRecvIoQueue
    /\ UNCHANGED <<cq, sqUnflushedCount, requests, request, amDescQueue,
                   refCount, completed, callback>>

\* The next message is taken; how names how its receive goes.
TakeMessage(o, how) ==
    /\ amDescQueue # <<>>
    /\ Head(amDescQueue) = how
    /\ amDescQueue' = Tail(amDescQueue)
    /\ onPending' = [onPending EXCEPT ![o] = FALSE]
    /\ UNCHANGED pendingRecvIoQueue

\* The data is in hand: on_read_complete runs inside the lambda.
ReadInline(o) ==
    /\ OnReadComplete(o, FALSE) \/ OnReadHeaderComplete(o, FALSE)
    /\ execute' = [execute EXCEPT ![o] = "complete"]
    /\ UNCHANGED <<cq, sqUnflushedCount, requests, request>>

\* A transfer that cannot begin has its callback called at once; a message
\* whose connection is gone makes the receive start again.
StartIoRecv(o) ==
    /\ CanSubmitIo
    /\ ~cancelFlag[o]
    /\ kind[o] = "recv"
    /\ \/ Park(o)
       \/ TakeMessage(o, "eager") /\ ReadInline(o)
       \/ /\ TakeMessage(o, "rndv")
          /\ BeginRequest(o, "cqe") \/ PostOp(o, "complete")
          /\ UNCHANGED <<refCount, completed, callback>>
       \/ /\ TakeMessage(o, "gone")
          /\ PostOp(o, "start")
          /\ UNCHANGED <<refCount, completed, callback>>
    /\ UNCHANGED <<pendingIoQueue, connReqs, pendingAcptIoQueue, desc, conn>>

\* Every message completes inline: a rendezvous descriptor is put aside in
\* amDescMap_ for a recv_buffer_sender_t.
StartIoRecvHeader(o) ==
    /\ CanSubmitIo
    /\ ~cancelFlag[o]
    /\ kind[o] = "recvHeader"
    /\ \/ Park(o)
       \/ \E how \in {"eager", "rndv"} :
            TakeMessage(o, how) /\ ReadInline(o)
       \/ /\ TakeMessage(o, "gone")
          /\ PostOp(o, "start")
          /\ UNCHANGED <<refCount, completed, callback>>
    /\ UNCHANGED <<pendingIoQueue, connReqs, pendingAcptIoQueue, desc, conn>>

\* The descriptor is taken from amDescMap_.  Without it, or without its
\* connection, the operation starts again.
StartIoRecvBuffer(o) ==
    /\ CanSubmitIo
    /\ kind[o] = "recvBuffer"
    /\ desc' = [desc EXCEPT ![o] = FALSE]
    /\ \/ cancelFlag[o] /\ PostOp(o, "complete")
       \/ ~cancelFlag[o] /\ PostOp(o, "start")
       \/ /\ ~cancelFlag[o]
          /\ desc[o]
          /\ BeginRequest(o, "cqe") \/ PostOp(o, "complete")
    /\ UNCHANGED <<pendingIoQueue, amDescQueue, connReqs, pendingRecvIoQueue,
                   pendingAcptIoQueue, conn, onPending, refCount, completed,
                   callback>>

\* Mutant: a cancelled connect connects all the same.
StartIoConnectIgnoresFlag(o) ==
    /\ CanSubmitIo
    /\ kind[o] = "connect"
    /\ PostOp(o, "complete")
    /\ \/ UNCHANGED conn
       \/ conn' = [conn EXCEPT ![o] = "open"]
    /\ UNCHANGED <<pendingIoQueue, amDescQueue, connReqs, pendingRecvIoQueue,
                   pendingAcptIoQueue, desc, onPending, refCount, completed,
                   callback>>

\* create_new_connection makes a connection or fails.
StartIoConnect(o) ==
    /\ CanSubmitIo
    /\ kind[o] = "connect"
    /\ PostOp(o, "complete")
    /\ \/ UNCHANGED conn
       \/ ~cancelFlag[o] /\ conn' = [conn EXCEPT ![o] = "open"]
    /\ UNCHANGED <<pendingIoQueue, amDescQueue, connReqs, pendingRecvIoQueue,
                   pendingAcptIoQueue, desc, onPending, refCount, completed,
                   callback>>

\* progress_pending_conn_requests takes every request that waits.
StartIoAccept(o) ==
    /\ CanSubmitIo
    /\ ~cancelFlag[o]
    /\ kind[o] = "accept"
    /\ \/ /\ connReqs = 0
          /\ onPending' = [onPending EXCEPT ![o] = TRUE]
          /\ execute' = [execute EXCEPT ![o] = "start"]
          /\ pendingAcptIoQueue' = <<Op(o)>> \o pendingAcptIoQueue
          /\ UNCHANGED <<cq, sqUnflushedCount, requests, request, connReqs>>
       \/ /\ connReqs > 0
          /\ onPending' = [onPending EXCEPT ![o] = FALSE]
          /\ connReqs' = 0
          /\ PostOp(o, "complete")
          /\ UNCHANGED pendingAcptIoQueue
    /\ UNCHANGED <<pendingIoQueue, amDescQueue, pendingRecvIoQueue, desc, conn,
                   refCount, completed, callback>>

TrySubmitIo(o) ==
    /\ \/ StartIoRefused(o)
       \/ StartIoCancelled(o)
       \/ StartIoSend(o)
       \/ StartIoRecv(o)
       \/ StartIoRecvHeader(o)
       \/ StartIoRecvBuffer(o)
       \/ StartIoConnect(o)
       \/ StartIoAccept(o)
    /\ pc' = back
    /\ UNCHANGED <<cur, back, batch, localQueue, remoteQueue, arrived,
                   connArrived, kind, copExecute, cancelFlag, stop>>

-----------------------------------------------------------------------------
(***************************************************************************)
(* The I/O thread: the nodes it executes and the rest of the loop.         *)
(***************************************************************************)

\* execute_pending_local takes the next node of the batch.
TakeLocal ==
    /\ pc = "exec"
    /\ batch # <<>>
    /\ cur' = Head(batch)
    /\ batch' = Tail(batch)
    /\ back' = "exec"
    /\ pc' = "run"
    /\ UNCHANGED <<localQueue, remoteQueue, pendingIoQueue, pendingRecvIoQueue,
                   pendingAcptIoQueue, cq, sqUnflushedCount, requests,
                   inputVars, opVars, stop>>

\* acquire_completion_queue_items and acquire_remote_queued_items.
AcquireItems ==
    /\ pc = "exec"
    /\ batch = <<>>
    /\ localQueue' = localQueue \o cq \o remoteQueue
    /\ cq' = <<>>
    /\ remoteQueue' = <<>>
    /\ pc' = "pend"
    /\ UNCHANGED <<cur, back, batch, pendingIoQueue, pendingRecvIoQueue,
                   pendingAcptIoQueue, sqUnflushedCount, requests, inputVars,
                   opVars, stop>>

\* run_impl takes the next operation that waited for a slot.
TakePendingIo ==
    /\ pc = "pend"
    /\ pendingIoQueue # <<>>
    /\ CanSubmitIo
    /\ cur' = Head(pendingIoQueue)
    /\ pendingIoQueue' = Tail(pendingIoQueue)
    /\ back' = "pend"
    /\ pc' = "run"
    /\ UNCHANGED <<batch, localQueue, remoteQueue, pendingRecvIoQueue,
                   pendingAcptIoQueue, cq, sqUnflushedCount, requests,
                   inputVars, opVars, stop>>

EndPendingIo ==
    /\ pc = "pend"
    /\ pendingIoQueue = <<>> \/ ~CanSubmitIo
    /\ pc' = "progress"
    /\ UNCHANGED <<cur, back, queueVars, cq, sqUnflushedCount, requests,
                   inputVars, opVars, stop>>

\* progress_worker_event returns; the loop starts over.
EndProgress ==
    /\ pc = "progress"
    /\ batch' = localQueue
    /\ localQueue' = <<>>
    /\ pc' = "exec"
    /\ UNCHANGED <<cur, back, remoteQueue, pendingIoQueue, pendingRecvIoQueue,
                   pendingAcptIoQueue, cq, sqUnflushedCount, requests,
                   inputVars, opVars, stop>>

\* The operation of the node is there no more.
ExecuteFreed ==
    /\ pc = "run"
    /\ completed[cur[1]] > 0
    /\ pc' = "crashed"
    /\ UNCHANGED <<cur, back, queueVars, cq, sqUnflushedCount, requests,
                   inputVars, opVars, stop>>

\* on_schedule_complete.
ExecuteStart(o) ==
    /\ pc = "run"
    /\ cur = Op(o)
    /\ completed[o] = 0
    /\ execute[o] = "start"
    /\ TrySetupStartIo(o)

ExecuteComplete(o) ==
    /\ pc = "run"
    /\ cur = Op(o)
    /\ completed[o] = 0
    /\ execute[o] = "complete"
    /\ OnComplete(o)
    /\ pc' = back
    /\ UNCHANGED <<cur, back, queueVars, cq, sqUnflushedCount, requests,
                   inputVars, kind, execute, copExecute, cancelFlag, onPending,
                   request, desc, stop>>

\* on_schedule_stop_complete.
ExecuteStopLocal(o) ==
    /\ pc = "run"
    /\ cur = Cop(o)
    /\ completed[o] = 0
    /\ copExecute[o] = "stopLocal"
    /\ RequestStopLocal(o)
    /\ pc' = back
    /\ UNCHANGED <<cur, back, batch, localQueue, remoteQueue,
                   sqUnflushedCount, inputVars, kind, execute, callback,
                   refCount, cancelFlag, onPending, request, completed, stop>>

ExecuteStopComplete(o) ==
    /\ pc = "run"
    /\ cur = Cop(o)
    /\ completed[o] = 0
    /\ copExecute[o] = "stopComplete"
    /\ \/ OnStopComplete(o)
       \/ OnStopCompleteRecvBuffer(o)
       \/ OnStopCompleteConnect(o)
    /\ pc' = back
    /\ UNCHANGED <<cur, back, queueVars, cq, sqUnflushedCount, requests,
                   inputVars, kind, execute, copExecute, cancelFlag, onPending,
                   request, desc, conn, stop>>

SubmitIo(o) ==
    /\ pc = "submit"
    /\ cur = Op(o)
    /\ TrySubmitIo(o)

\* start() in a task that runs on the I/O thread.
StartOnIoThread(o) ==
    /\ pc = "exec"
    /\ execute[o] = "new"
    /\ execute' = [execute EXCEPT ![o] = "start"]
    /\ cur' = Op(o)
    /\ back' = "exec"
    /\ pc' = "run"
    /\ UNCHANGED <<queueVars, cq, sqUnflushedCount, requests, inputVars, kind,
                   copExecute, callback, refCount, cancelFlag, onPending,
                   request, desc, conn, completed, stop>>

\* A task that runs on the I/O thread asks the operation to stop.
StopOnIoThread(o) ==
    /\ pc = "exec"
    /\ stop[o] = "no"
    /\ callback[o] = "registered"
    /\ stop' = [stop EXCEPT ![o] = "finished"]
    /\ callback' = [callback EXCEPT ![o] = "ran"]
    /\ RequestStopOnIoThread(o)
    /\ UNCHANGED <<pc, cur, back, batch, localQueue, remoteQueue,
                   sqUnflushedCount, inputVars, kind, execute, onPending,
                   request, completed>>

-----------------------------------------------------------------------------
(***************************************************************************)
(* Callbacks of UCX, in progress_worker_event.                             *)
(***************************************************************************)

\* am_recv_callback: the message is queued and a parked receive woken.
MessageArrives(how) ==
    /\ pc = "progress"
    /\ arrived < MaxMessages
    /\ arrived' = arrived + 1
    /\ amDescQueue' = Append(amDescQueue, how)
    /\ \/ /\ pendingRecvIoQueue = <<>>
          /\ UNCHANGED <<pendingIoQueue, pendingRecvIoQueue>>
       \/ /\ pendingRecvIoQueue # <<>>
          /\ pendingIoQueue' = <<Head(pendingRecvIoQueue)>> \o pendingIoQueue
          /\ pendingRecvIoQueue' = Tail(pendingRecvIoQueue)
    /\ UNCHANGED <<pc, cur, back, batch, localQueue, remoteQueue,
                   pendingAcptIoQueue, cq, sqUnflushedCount, requests, connReqs,
                   connArrived, opVars, stop>>

\* The listener's callback: the same for connection requests.
ConnRequestArrives ==
    /\ pc = "progress"
    /\ connArrived < MaxConnReqs
    /\ connArrived' = connArrived + 1
    /\ connReqs' = connReqs + 1
    /\ \/ /\ pendingAcptIoQueue = <<>>
          /\ UNCHANGED <<pendingIoQueue, pendingAcptIoQueue>>
       \/ /\ pendingAcptIoQueue # <<>>
          /\ pendingIoQueue' = <<Head(pendingAcptIoQueue)>> \o pendingIoQueue
          /\ pendingAcptIoQueue' = Tail(pendingAcptIoQueue)
    /\ UNCHANGED <<pc, cur, back, batch, localQueue, remoteQueue,
                   pendingRecvIoQueue, cq, sqUnflushedCount, requests,
                   amDescQueue, arrived, opVars, stop>>

\* common_request_callback: the request's callback, then request_release.
RequestCompletes(r) ==
    /\ pc = "progress"
    /\ requests[r] # Free
    /\ requests' = [requests EXCEPT ![r] = Free]
    /\ LET o == requests[r].cb IN
       \/ /\ o = Deferred
          /\ UNCHANGED <<pc, cq, sqUnflushedCount, pendingIoQueue>>
       \/ /\ o # Deferred
          /\ completed[o] > 0
          /\ pc' = "crashed"
          /\ UNCHANGED <<cq, sqUnflushedCount, pendingIoQueue>>
       \/ /\ o # Deferred
          /\ completed[o] = 0
          /\ requests[r].via = "cqe"
          /\ cq' = Append(cq, Op(o))
          /\ sqUnflushedCount' = sqUnflushedCount - 1
          /\ UNCHANGED <<pc, pendingIoQueue>>
       \/ /\ o # Deferred
          /\ completed[o] = 0
          /\ requests[r].via = "direct"
          /\ pendingIoQueue' = <<Op(o)>> \o pendingIoQueue
          /\ sqUnflushedCount' = sqUnflushedCount - 1
          /\ UNCHANGED <<pc, cq>>
    /\ UNCHANGED <<cur, back, batch, localQueue, remoteQueue,
                   pendingRecvIoQueue, pendingAcptIoQueue, inputVars, opVars,
                   stop>>

-----------------------------------------------------------------------------
(***************************************************************************)
(* Other threads: start() and a stop request.                              *)
(***************************************************************************)

\* start() hands the operation to the I/O thread.
StartRemote(o) ==
    /\ execute[o] = "new"
    /\ execute' = [execute EXCEPT ![o] = "start"]
    /\ remoteQueue' = Append(remoteQueue, Op(o))
    /\ UNCHANGED <<pc, cur, back, batch, localQueue, pendingIoQueue,
                   pendingRecvIoQueue, pendingAcptIoQueue, cq,
                   sqUnflushedCount, requests, inputVars, kind, copExecute,
                   callback, refCount, cancelFlag, onPending, request, desc,
                   conn, completed, stop>>

StopRequested(o) ==
    /\ stop[o] = "no"
    /\ completed[o] = 0
    /\ stop' = [stop EXCEPT ![o] = "requested"]
    /\ UNCHANGED <<pc, cur, back, queueVars, cq, sqUnflushedCount, requests,
                   inputVars, opVars>>

\* The stop source runs the callback: request_stop loads onPending_.
StopLoadPending(o) ==
    /\ stop[o] = "requested"
    /\ callback[o] = "registered"
    /\ callback' = [callback EXCEPT ![o] = "ran"]
    /\ stop' = [stop EXCEPT ![o] =
                  IF kind[o] \in ParkingKinds /\ ~onPending[o]
                  THEN "finished" ELSE "cas"]
    /\ UNCHANGED <<pc, cur, back, queueVars, cq, sqUnflushedCount, requests,
                   inputVars, kind, execute, copExecute, refCount, cancelFlag,
                   onPending, request, desc, conn, completed>>

StopCas(o) ==
    /\ stop[o] = "cas"
    /\ \/ /\ refCount[o] = 1
          /\ refCount' = [refCount EXCEPT ![o] = 2]
          /\ stop' = [stop EXCEPT ![o] = "flag"]
       \/ /\ refCount[o] # 1
          /\ stop' = [stop EXCEPT ![o] = "finished"]
          /\ UNCHANGED refCount
    /\ UNCHANGED <<pc, cur, back, queueVars, cq, sqUnflushedCount, requests,
                   inputVars, kind, execute, copExecute, callback, cancelFlag,
                   onPending, request, desc, conn, completed>>

StopSetFlag(o) ==
    /\ stop[o] = "flag"
    /\ cancelFlag' = [cancelFlag EXCEPT ![o] = TRUE]
    /\ stop' = [stop EXCEPT ![o] = "enqueue"]
    /\ UNCHANGED <<pc, cur, back, queueVars, cq, sqUnflushedCount, requests,
                   inputVars, kind, execute, copExecute, callback, refCount,
                   onPending, request, desc, conn, completed>>

\* request_stop_remote.
RequestStopRemote(o) ==
    /\ stop[o] = "enqueue"
    /\ copExecute' = [copExecute EXCEPT ![o] = "stopLocal"]
    /\ remoteQueue' = Append(remoteQueue, Cop(o))
    /\ stop' = [stop EXCEPT ![o] = "finished"]
    /\ UNCHANGED <<pc, cur, back, batch, localQueue, pendingIoQueue,
                   pendingRecvIoQueue, pendingAcptIoQueue, cq,
                   sqUnflushedCount, requests, inputVars, kind, execute,
                   callback, refCount, cancelFlag, onPending, request, desc,
                   conn, completed>>

-----------------------------------------------------------------------------

\* What a use of freed memory does afterwards is not modelled.
Crashed ==
    /\ pc = "crashed"
    /\ UNCHANGED vars

IoThread ==
    \/ TakeLocal
    \/ AcquireItems
    \/ TakePendingIo
    \/ EndPendingIo
    \/ EndProgress
    \/ ExecuteFreed
    \/ \E o \in Ops :
        \/ ExecuteStart(o)
        \/ ExecuteComplete(o)
        \/ ExecuteStopLocal(o)
        \/ ExecuteStopComplete(o)
        \/ SubmitIo(o)

Tasks == \E o \in Ops : StartOnIoThread(o) \/ StopOnIoThread(o)

Ucx ==
    \/ \E how \in MessageKinds : MessageArrives(how)
    \/ ConnRequestArrives
    \/ \E r \in Requests : RequestCompletes(r)

Stopper(o) ==
    \/ StopLoadPending(o)
    \/ StopCas(o)
    \/ StopSetFlag(o)
    \/ RequestStopRemote(o)

Next ==
    \/ IoThread
    \/ Crashed
    \/ Tasks
    \/ Ucx
    \/ \E o \in Ops : StartRemote(o) \/ StopRequested(o) \/ Stopper(o)

\* The loop goes on, a stop request that has begun ends, and UCX completes
\* every request it has accepted.  Nothing need be started or stopped.
Fairness ==
    /\ WF_vars(IoThread)
    /\ \A o \in Ops : WF_vars(Stopper(o))
    /\ \A r \in Requests : SF_vars(RequestCompletes(r))

Spec == Init /\ [][Next]_vars /\ Fairness

-----------------------------------------------------------------------------

Callbacks == [cb : Ops \cup {Deferred}, via : {"cqe", "direct"}]

\* Every variable keeps its type.  In particular refCount_ never falls below
\* 0, where request_stop's assertion (expected == 0) would fail.
TypeOK ==
    /\ pc \in {"exec", "run", "submit", "pend", "progress", "crashed"}
    /\ cur \in Nodes \cup {<<None, "op">>}
    /\ back \in {"exec", "pend"}
    /\ \A q \in {batch, localQueue, remoteQueue, pendingIoQueue, cq,
                  pendingRecvIoQueue, pendingAcptIoQueue} : q \in Seq(Nodes)
    /\ sqUnflushedCount \in 0 .. CqEntryCount
    /\ requests \in [Requests -> Callbacks \cup {Free}]
    /\ amDescQueue \in Seq(MessageKinds)
    /\ arrived \in 0 .. MaxMessages
    /\ connReqs \in 0 .. connArrived
    /\ connArrived \in 0 .. MaxConnReqs
    /\ kind \in [Ops -> Kinds]
    /\ execute \in [Ops -> {"new", "start", "complete"}]
    /\ copExecute \in [Ops -> {"unset", "stopLocal", "stopComplete"}]
    /\ callback \in [Ops -> {"unset", "registered", "ran", "gone"}]
    /\ refCount \in [Ops -> 0 .. 2]
    /\ cancelFlag \in [Ops -> BOOLEAN]
    /\ onPending \in [Ops -> BOOLEAN]
    /\ request \in [Ops -> Requests \cup {None}]
    /\ desc \in [Ops -> BOOLEAN]
    /\ conn \in [Ops -> {"none", "open", "given", "disconnected"}]
    /\ completed \in [Ops -> 0 .. 1]
    /\ stop \in [Ops -> {"no", "requested", "cas", "flag", "enqueue",
                         "finished"}]

LiveRequests(o) == {r \in Requests : requests[r].cb = o}

\* How often n is in the sequence s.
Times(s, n) == Cardinality({i \in DOMAIN s : s[i] = n})

\* How often n is in the queues and the ring, or will be by a request.
Held(n) ==
    Times(batch, n) + Times(localQueue, n) + Times(remoteQueue, n)
      + Times(pendingIoQueue, n) + Times(pendingRecvIoQueue, n)
      + Times(pendingAcptIoQueue, n) + Times(cq, n)
      + (IF n[2] = "op" THEN Cardinality(LiveRequests(n[1])) ELSE 0)

Running(n) == pc \in {"run", "submit"} /\ cur = n

\* In how many places the I/O thread has n or will come to it.
Links(n) == Held(n) + (IF Running(n) THEN 1 ELSE 0)

\* A node is in one place at a time: in one of the queues, in the ring, in
\* the callback of one request, or being executed ("intrusive list breaks if
\* the same operation is submitted twice").
InOnePlace == \A n \in Nodes : Links(n) <= 1

Unlinked(o) == Links(Op(o)) = 0 /\ Links(Cop(o)) = 0

\* When a receiver of connect_sender or recv_buffer_sender_t is called, no
\* queue, entry or request leads to the operation any more, whatever the
\* order of completion and cancellation and with the ring full.
SymmetricIsUnlinked ==
    \A o \in Ops : kind[o] \in SymmetricKinds /\ completed[o] > 0 => Unlinked(o)

\* The two together: no node is linked twice, and none when its operation is
\* over (the intrusive queues, connect_sender, recv_buffer_sender_t).
LinkedOnce == TypeOK /\ InOnePlace /\ SymmetricIsUnlinked

\* Every request that will report to an operation holds a slot, so that the
\* entry its completion posts without asking is there.
SlotsCoverRequests ==
    Cardinality(UNION {LiveRequests(o) : o \in Ops}) <= sqUnflushedCount

\* The stop was requested, but not in time to take refCount_ to 2.
StopTooLate(o) == stop[o] # "no" /\ ~cancelFlag[o]

\* When the receiver of a connect is called, a connection that is open was given
\* to it with set_value; when a stop took refCount_ first, there is none left to
\* give.  The one exception is the stop_requested() branch of on_connect: a stop
\* that came too late makes it set_done and leaves the connection open.
ConnectionAccounted ==
    \A o \in Ops : completed[o] > 0 =>
      /\ conn[o] = "open" => StopTooLate(o)
      /\ conn[o] = "given" => ~cancelFlag[o]

=============================================================================
