------------------------- MODULE ServerRequestsProofs -------------------------
(***************************************************************************)
(* Proofs about ServerRequests for any set of requests, ids and functions: *)
(* a request is settled once, the index of the storage is exact, and a     *)
(* server that StopServer has stopped is quiet.                            *)
(***************************************************************************)
EXTENDS ServerRequests, TLAPS

-----------------------------------------------------------------------------
(***************************************************************************)
(* The inductive invariant.                                                *)
(***************************************************************************)

\* The points of the pipeline before the function is called.
BeforeCall == {"new", "arrived", "pool", "context", "receive"}

Points == {"new", "arrived", "pool", "context", "receive", "call", "send",
           "error", "done", "loaded"}

Payloads == {"op", "storage", "freed"}

MsgRecords == [st : Points, late : BOOLEAN, pay : Payloads,
               ans : Nat, unanswered : BOOLEAN]

Stations == {"idle", "future", "scope", "onlyScope", "thread", "returned"}

TypeOK ==
    /\ req \in [Msgs -> [path : {"eager", "rndv", "empty"},
                         fn : Fns \cup {Unregistered, Malformed}, id : Ids]]
    /\ msg \in [Msgs -> MsgRecords]
    /\ desc \subseteq Msgs
    /\ stored \subseteq Msgs
    /\ index \in [Ids -> Msgs \cup {None}]
    /\ cursor \subseteq Msgs
    /\ server \in [running : BOOLEAN, stopped : BOOLEAN,
                   loop : {"off", "on", "ended"},
                   thread : {"none", "running", "exited"}, stop : BOOLEAN,
                   contextStop : BOOLEAN, scopeClosed : BOOLEAN]
    /\ stopper \in Stations

\* A request that was answered is done, or it was stopped while its answer was
\* sent and the error answer is still to come.
AnswerEnds ==
    \A m \in Msgs :
        \/ msg[m].ans = 0
        \/ msg[m].ans = 1 /\ msg[m].st = "done"
        \/ msg[m].ans = 1 /\ msg[m].st = "error" /\ StopRequested(m)
        \/ msg[m].ans = 2 /\ msg[m].st = "done" /\ StopRequested(m)

\* Only a rendezvous message leaves a descriptor.
DescriptorIsRndv == \A m \in desc : req[m].path # "eager"

\* The storage takes the payload over with the call of the function, and what
\* it holds, or an iteration will still reach, was once taken over.
PayloadMoves ==
    \A m \in Msgs :
        /\ msg[m].st \in BeforeCall => msg[m].pay = "op"
        /\ m \in stored \cup cursor => msg[m].pay \in {"storage", "freed"}

\* The scope is closed before it is joined, it is only closed when no loop
\* spawns into it, and it is empty from the join on.
ScopeClosing ==
    /\ server.loop = "on" => ~server.scopeClosed
    /\ ~server.running /\ ~server.stopped => server.loop = "off"
    /\ server.stop => server.stopped
    /\ stopper \notin {"idle", "future"} => server.scopeClosed
    /\ stopper \in {"thread", "returned"} => \A m \in Msgs : ~InProgress(m)

IInv ==
    /\ TypeOK
    /\ AnswerEnds
    /\ DescriptorIsRndv /\ DescriptorOwned
    /\ PayloadMoves
    /\ IndexPointsAtStored /\ Findable
    /\ ScopeClosing

-----------------------------------------------------------------------------
(***************************************************************************)
(* Type correctness.                                                       *)
(***************************************************************************)

LEMMA InitType == Init => TypeOK
<1> SUFFICES ASSUME Init
             PROVE  TypeOK
  OBVIOUS
<1>1. req \in [Msgs -> [path : {"eager", "rndv", "empty"},
                        fn : Fns \cup {Unregistered, Malformed}, id : Ids]]
  BY DEF Init, Requests
<1>2. msg \in [Msgs -> MsgRecords]
  BY DEF Init, New, Points, Payloads, MsgRecords
<1>3. /\ desc \subseteq Msgs /\ stored \subseteq Msgs /\ cursor \subseteq Msgs
      /\ index \in [Ids -> Msgs \cup {None}]
  BY DEF Init
<1>4. /\ server \in [running : BOOLEAN, stopped : BOOLEAN,
                      loop : {"off", "on", "ended"},
                      thread : {"none", "running", "exited"}, stop : BOOLEAN,
                      contextStop : BOOLEAN, scopeClosed : BOOLEAN]
      /\ stopper \in Stations
  BY DEF Init, Stations
<1> QED
  BY <1>1, <1>2, <1>3, <1>4 DEF TypeOK

\* The steps that start and stop the server.
LEMMA ServerType ==
    ASSUME TypeOK, StartServer \/ StopServer \/ Stopping
    PROVE  TypeOK'
<1> USE DEF TypeOK, Stations
<1>1. CASE StartServer
  BY <1>1 DEF StartServer
<1>2. CASE StopServer
  BY <1>2 DEF StopServer
<1>3. CASE FutureEnds
  BY <1>3 DEF FutureEnds
<1>4. CASE ScopeJoined
  BY <1>4 DEF ScopeJoined
<1>5. CASE ThreadJoined
  BY <1>5 DEF ThreadJoined
<1>6. CASE ThreadExits
  BY <1>6 DEF ThreadExits
<1>7. CASE LoopEnds
  BY <1>7 DEF LoopEnds
<1> QED
  BY <1>1, <1>2, <1>3, <1>4, <1>5, <1>6, <1>7 DEF Stopping

\* What a step leaves in the record of request m; the others stay.
Assigned(m, st, late, pay, ans) ==
    /\ msg'[m].st = st /\ msg'[m].late = late
    /\ msg'[m].pay = pay /\ msg'[m].ans = ans
    /\ \A n \in Msgs \ {m} : msg'[n] = msg[n]

\* A step that assigns fields of one request's record keeps the records' type
\* and the other fields: one lemma for each set of fields that an action
\* assigns.
LEMMA PointUpdate ==
    ASSUME msg \in [Msgs -> MsgRecords], NEW m \in Msgs, NEW x \in Points,
           msg' = [msg EXCEPT ![m].st = x]
    PROVE  /\ msg' \in [Msgs -> MsgRecords]
           /\ Assigned(m, x, msg[m].late, msg[m].pay, msg[m].ans)
BY DEF MsgRecords, Assigned

LEMMA PayloadUpdate ==
    ASSUME msg \in [Msgs -> MsgRecords], NEW m \in Msgs, NEW x \in Payloads,
           msg' = [msg EXCEPT ![m].pay = x]
    PROVE  /\ msg' \in [Msgs -> MsgRecords]
           /\ Assigned(m, msg[m].st, msg[m].late, x, msg[m].ans)
BY DEF MsgRecords, Assigned, Payloads

LEMMA TakeOverUpdate ==
    ASSUME msg \in [Msgs -> MsgRecords], NEW m \in Msgs, NEW x \in Points, NEW y \in Payloads,
           msg' = [msg EXCEPT ![m].st = x, ![m].pay = y]
    PROVE  /\ msg' \in [Msgs -> MsgRecords]
           /\ Assigned(m, x, msg[m].late, y, msg[m].ans)
BY DEF MsgRecords, Assigned, Payloads

LEMMA AnswerUpdate ==
    ASSUME msg \in [Msgs -> MsgRecords], NEW m \in Msgs, NEW x \in Points,
           msg' = [msg EXCEPT ![m].st = x, ![m].ans = @ + 1]
    PROVE  /\ msg' \in [Msgs -> MsgRecords]
           /\ Assigned(m, x, msg[m].late, msg[m].pay, msg[m].ans + 1)
BY DEF MsgRecords, Assigned

LEMMA UnansweredUpdate ==
    ASSUME msg \in [Msgs -> MsgRecords], NEW m \in Msgs, NEW x \in Points,
           msg' = [msg EXCEPT ![m].st = x, ![m].unanswered = TRUE]
    PROVE  /\ msg' \in [Msgs -> MsgRecords]
           /\ Assigned(m, x, msg[m].late, msg[m].pay, msg[m].ans)
BY DEF MsgRecords, Assigned

LEMMA LateUpdate ==
    ASSUME msg \in [Msgs -> MsgRecords], NEW m \in Msgs,
           msg' = [msg EXCEPT ![m].late = TRUE]
    PROVE  /\ msg' \in [Msgs -> MsgRecords]
           /\ Assigned(m, msg[m].st, TRUE, msg[m].pay, msg[m].ans)
BY DEF MsgRecords, Assigned

\* What the handlers do to the storage and to the request they handle.
LEMMA HandlerType ==
    ASSUME TypeOK, NEW m \in Msgs,
           \/ ServerDispatchAndManageLifecycle(m)
           \/ RethrowErrorContext(m)
           \/ ReturnTimeoutErrorContext(m)
    PROVE  /\ msg' \in [Msgs -> MsgRecords]
           /\ stored' \subseteq Msgs
           /\ index' \in [Ids -> Msgs \cup {None}]
<1> USE DEF TypeOK
<1>1. CASE RethrowErrorContext(m) \/ ReturnTimeoutErrorContext(m)
  BY <1>1, PointUpdate
     DEF RethrowErrorContext, ReturnTimeoutErrorContext, Points
<1>2. CASE ServerDispatchAndManageLifecycle(m)
  <2>1. msg' \in [Msgs -> MsgRecords]
    BY <1>2, PointUpdate, TakeOverUpdate
       DEF ServerDispatchAndManageLifecycle, Points, Payloads
  <2>2. stored' \subseteq Msgs /\ index' \in [Ids -> Msgs \cup {None}]
    BY <1>2 DEF ServerDispatchAndManageLifecycle, Preserve
  <2> QED
    BY <2>1, <2>2
<1> QED
  BY <1>1, <1>2

LEMMA PipelineType ==
    ASSUME TypeOK, NEW m \in Msgs, Pipeline(m)
    PROVE  TypeOK'
<1> USE DEF Points
<1>1. CASE ServerCtxLoop(m)
  BY <1>1, PointUpdate DEF TypeOK, ServerCtxLoop, ServerProcessMessage
<1>2. CASE ServerProcessValidMessage(m)
  <2>1. CASE StopRequested(m)
    BY <1>2, <2>1, HandlerType DEF TypeOK, ServerProcessValidMessage
  <2>2. CASE ~StopRequested(m) /\ ServerRequestHandlerEager(m)
    BY <1>2, <2>2, HandlerType
       DEF TypeOK, ServerProcessValidMessage, ServerRequestHandlerEager
  <2>3. CASE ~StopRequested(m) /\ ServerRequestHandlerRndv(m)
    BY <1>2, <2>3, HandlerType, PointUpdate
       DEF TypeOK, ServerProcessValidMessage, ServerRequestHandlerRndv
  <2> QED
    BY <1>2, <2>1, <2>2, <2>3 DEF ServerProcessValidMessage
<1>3. CASE ProcessRndvBuffer(m)
  BY <1>3, HandlerType, PointUpdate DEF TypeOK, ProcessRndvBuffer
<1>4. CASE ServerProcessBufferBundle(m)
  BY <1>4, HandlerType DEF TypeOK, ServerProcessBufferBundle
<1>5. CASE FunctionReturns(m)
  BY <1>5, PointUpdate DEF TypeOK, FunctionReturns
<1>6. CASE FunctionFails(m)
  BY <1>6, HandlerType DEF TypeOK, FunctionFails
<1>7. CASE ServerHandleSendResponse(m)
  BY <1>7, AnswerUpdate DEF TypeOK, ServerHandleSendResponse
<1>8. CASE SendResponseFails(m)
  <2>1. CASE RethrowErrorContext(m)
    BY <1>8, <2>1, HandlerType DEF TypeOK, SendResponseFails
  <2>2. CASE SendResponseStopped(m)
    <3>1. msg' \in [Msgs -> MsgRecords] /\ UNCHANGED <<stored, index>>
      BY <2>2, AnswerUpdate, HandlerType
         DEF TypeOK, SendResponseStopped, ReturnTimeoutErrorContext
    <3> QED
      BY <1>8, <3>1 DEF TypeOK, SendResponseFails
  <2> QED
    BY <1>8, <2>1, <2>2 DEF SendResponseFails
<1>9. CASE ServerHandleSendErrorResponse(m)
  BY <1>9, AnswerUpdate DEF TypeOK, ServerHandleSendErrorResponse
<1>10. CASE SendErrorResponseFails(m)
  BY <1>10, UnansweredUpdate DEF TypeOK, SendErrorResponseFails
<1> QED
  BY <1>1, <1>2, <1>3, <1>4, <1>5, <1>6, <1>7, <1>8, <1>9, <1>10 DEF Pipeline

LEMMA EraseType ==
    ASSUME TypeOK, NEW m \in Msgs, EraseStoredRequest(m)
    PROVE  /\ msg' \in [Msgs -> MsgRecords]
           /\ stored' \subseteq Msgs
           /\ index' \in [Ids -> Msgs \cup {None}]
<1>1. msg[m].pay \in Payloads
  BY DEF TypeOK, MsgRecords
<1>2. (IF msg[m].pay = "storage" THEN "freed" ELSE msg[m].pay) \in Payloads
  BY <1>1 DEF Payloads
<1> QED
  BY <1>2, PayloadUpdate DEF TypeOK, EraseStoredRequest

LEMMA NextType == TypeOK /\ [Next]_vars => TypeOK'
<1> SUFFICES ASSUME TypeOK, [Next]_vars
             PROVE  TypeOK'
  OBVIOUS
<1>1. CASE StartServer \/ StopServer \/ Stopping
  BY <1>1, ServerType
<1>2. ASSUME NEW m \in Msgs, AmRecvCallback(m)
      PROVE  TypeOK'
  BY <1>2, PointUpdate DEF TypeOK, AmRecvCallback, Points
<1>3. ASSUME NEW m \in Msgs, Pipeline(m)
      PROVE  TypeOK'
  BY <1>3, PipelineType
<1>4. ASSUME NEW m \in Msgs, DeadlineExpires(m)
      PROVE  TypeOK'
  BY <1>4, LateUpdate DEF TypeOK, DeadlineExpires
<1>5. ASSUME NEW m \in Msgs, EraseByUser(m)
      PROVE  TypeOK'
  BY <1>5, EraseType DEF TypeOK, EraseByUser
<1>6. ASSUME NEW m \in Msgs, Load(m)
      PROVE  TypeOK'
  BY <1>6, TakeOverUpdate DEF TypeOK, Load, Points, Payloads
<1>7. ASSUME NEW m \in Msgs, NEW status \in Statuses,
             ProcessNextStoredRequest(m, status)
      PROVE  TypeOK'
  BY <1>7, EraseType
     DEF TypeOK, ProcessNextStoredRequest, ProcessLifecycleStatus
<1>8. ASSUME NEW i \in Ids, NEW status \in Statuses,
             ProcessStoredRequest(i, status)
      PROVE  TypeOK'
  BY <1>8, EraseType
     DEF TypeOK, ProcessStoredRequest, ProcessLifecycleStatus, FindStoredRequest
<1>9. CASE ProcessStoredRequests
  BY <1>9 DEF TypeOK, ProcessStoredRequests
<1>10. CASE UNCHANGED vars
  BY <1>10 DEF TypeOK, vars
<1> QED
  BY <1>1, <1>2, <1>3, <1>4, <1>5, <1>6, <1>7, <1>8, <1>9, <1>10 DEF Next

\* Every field keeps the type its member of AxonWorker has.
THEOREM ServerTypeCorrect == Spec => []TypeOK
BY InitType, NextType, PTL DEF Spec

-----------------------------------------------------------------------------
(***************************************************************************)
(* What a step of the pipeline does, in the terms of the invariant.        *)
(***************************************************************************)

WaitsForReceive == {"arrived", "pool", "context"}

\* A step of request m's pipeline changes no other request.  It adds an answer
\* only to end the request, moves the payload only to call the function, and
\* leaves a descriptor behind only where DescriptorOwned says so.
PipelineMove(m) ==
    /\ \A n \in Msgs \ {m} : msg'[n] = msg[n]
    /\ msg'[m].late = msg[m].late
    /\ msg[m].st \notin {"new", "done", "loaded"}
    /\ msg'[m].st # "loaded"
    /\ \/ msg'[m].ans = msg[m].ans
       \/ msg'[m].st = "done" /\ msg'[m].ans = msg[m].ans + 1
       \/ /\ msg[m].st = "send" /\ msg'[m].st = "error"
          /\ StopRequested(m) /\ msg'[m].ans = msg[m].ans + 1
    /\ msg[m].st = "error" => msg'[m].st = "done"
    /\ \/ msg'[m].pay = msg[m].pay
       \/ msg[m].st \in BeforeCall /\ msg'[m].pay \in {"storage", "freed"}
    /\ msg'[m].st \in BeforeCall =>
         msg[m].st \in BeforeCall /\ msg'[m].pay = msg[m].pay
    /\ InProgress(m) \/ server.loop = "on"
    /\ desc' \subseteq desc
    /\ \/ m \notin desc'
       \/ msg[m].st \notin WaitsForReceive
       \/ msg'[m].st \in WaitsForReceive
       \/ req[m].fn = "mono" \/ req[m].path = "empty"
       \/ StopRequested(m)
       \/ req[m].path = "eager"
    /\ \/ UNCHANGED <<stored, index>>
       \/ Preserve(m) /\ msg[m].st \in BeforeCall /\ msg'[m].pay = "storage"
    /\ UNCHANGED <<req, cursor, server, stopper>>

\* The call of the function, from the pool or from the receive.
LEMMA DispatchMoves ==
    ASSUME TypeOK, NEW m \in Msgs, ServerDispatchAndManageLifecycle(m),
           msg[m].st \in {"pool", "receive"},
           msg[m].st = "pool" => req[m].path = "eager",
           UNCHANGED <<req, desc, cursor, server, stopper>>
    PROVE  PipelineMove(m)
<1> USE DEF PipelineMove, Assigned, InProgress, InScope, BeforeCall,
            WaitsForReceive, Points, Payloads
<1>1. CASE /\ msg' = [msg EXCEPT ![m].st = "call"]
           /\ UNCHANGED <<stored, index>>
  <2>1. Assigned(m, "call", msg[m].late, msg[m].pay, msg[m].ans)
    BY <1>1, PointUpdate DEF TypeOK
  <2> QED
    BY <1>1, <2>1
<1>2. CASE /\ msg' = [msg EXCEPT ![m].st = "call", ![m].pay = "storage"]
           /\ Preserve(m)
  <2>1. Assigned(m, "call", msg[m].late, "storage", msg[m].ans)
    BY <1>2, TakeOverUpdate DEF TypeOK
  <2> QED
    BY <1>2, <2>1
<1>3. CASE /\ msg' = [msg EXCEPT ![m].st = "call", ![m].pay = "freed"]
           /\ UNCHANGED <<stored, index>>
  <2>1. Assigned(m, "call", msg[m].late, "freed", msg[m].ans)
    BY <1>3, TakeOverUpdate DEF TypeOK
  <2> QED
    BY <1>3, <2>1
<1> QED
  BY <1>1, <1>2, <1>3 DEF ServerDispatchAndManageLifecycle

\* A step to another point of the pipeline.
LEMMA PointMoves ==
    ASSUME TypeOK, NEW m \in Msgs, NEW x \in Points,
           msg' = [msg EXCEPT ![m].st = x],
           x \notin {"new", "arrived", "loaded"},
           msg[m].st \notin {"new", "error", "done", "loaded"},
           InProgress(m) \/ server.loop = "on",
           x \in BeforeCall => msg[m].st \in BeforeCall,
           \/ UNCHANGED desc /\ x \in WaitsForReceive
           \/ UNCHANGED desc /\ msg[m].st \notin WaitsForReceive
           \/ UNCHANGED desc /\ StopRequested(m)
           \/ UNCHANGED desc /\ (req[m].fn = "mono" \/ req[m].path = "empty")
           \/ desc' = desc \ {m},
           UNCHANGED <<req, stored, index, cursor, server, stopper>>
    PROVE  PipelineMove(m)
<1>1. Assigned(m, x, msg[m].late, msg[m].pay, msg[m].ans)
  BY PointUpdate DEF TypeOK
<1> QED
  BY <1>1 DEF PipelineMove, Assigned

LEMMA PipelineMoves ==
    ASSUME TypeOK, NEW m \in Msgs, Pipeline(m)
    PROVE  PipelineMove(m)
<1> USE DEF InProgress, InScope, BeforeCall, WaitsForReceive, Points,
            RethrowErrorContext, ReturnTimeoutErrorContext
<1>1. CASE ServerCtxLoop(m)
  BY <1>1, PointMoves DEF ServerCtxLoop, ServerProcessMessage
<1>2. CASE ServerProcessValidMessage(m)
  <2>1. CASE StopRequested(m)
    BY <1>2, <2>1, PointMoves DEF ServerProcessValidMessage
  <2>2. CASE ~StopRequested(m) /\ ServerRequestHandlerEager(m)
    BY <1>2, <2>2, PointMoves, DispatchMoves
       DEF ServerProcessValidMessage, ServerRequestHandlerEager
  <2>3. CASE ~StopRequested(m) /\ ServerRequestHandlerRndv(m)
    BY <1>2, <2>3, PointMoves
       DEF ServerProcessValidMessage, ServerRequestHandlerRndv
  <2> QED
    BY <1>2, <2>1, <2>2, <2>3 DEF ServerProcessValidMessage
<1>3. CASE ProcessRndvBuffer(m)
  BY <1>3, PointMoves DEF ProcessRndvBuffer
<1>4. CASE ServerProcessBufferBundle(m)
  BY <1>4, PointMoves, DispatchMoves DEF ServerProcessBufferBundle
<1>5. CASE FunctionReturns(m)
  BY <1>5, PointMoves DEF FunctionReturns
<1>6. CASE FunctionFails(m)
  BY <1>6, PointMoves DEF FunctionFails
<1>7. CASE ServerHandleSendResponse(m)
  <2>1. Assigned(m, "done", msg[m].late, msg[m].pay, msg[m].ans + 1)
    BY <1>7, AnswerUpdate DEF TypeOK, ServerHandleSendResponse
  <2> QED
    BY <1>7, <2>1 DEF ServerHandleSendResponse, PipelineMove, Assigned
<1>8. CASE SendResponseFails(m)
  <2>1. CASE RethrowErrorContext(m)
    BY <1>8, <2>1, PointMoves DEF SendResponseFails
  <2>2. CASE SendResponseStopped(m)
    <3>1. CASE ReturnTimeoutErrorContext(m)
      BY <1>8, <3>1, PointMoves DEF SendResponseFails
    <3>2. CASE msg' = [msg EXCEPT ![m].st = "error", ![m].ans = @ + 1]
      <4>1. Assigned(m, "error", msg[m].late, msg[m].pay, msg[m].ans + 1)
        BY <3>2, AnswerUpdate DEF TypeOK
      <4> QED
        BY <1>8, <2>2, <4>1
           DEF SendResponseFails, SendResponseStopped, PipelineMove, Assigned
    <3> QED
      BY <2>2, <3>1, <3>2 DEF SendResponseStopped
  <2> QED
    BY <1>8, <2>1, <2>2 DEF SendResponseFails
<1>9. CASE ServerHandleSendErrorResponse(m)
  <2>1. Assigned(m, "done", msg[m].late, msg[m].pay, msg[m].ans + 1)
    BY <1>9, AnswerUpdate DEF TypeOK, ServerHandleSendErrorResponse
  <2> QED
    BY <1>9, <2>1 DEF ServerHandleSendErrorResponse, PipelineMove, Assigned
<1>10. CASE SendErrorResponseFails(m)
  <2>1. Assigned(m, "done", msg[m].late, msg[m].pay, msg[m].ans)
    BY <1>10, UnansweredUpdate DEF TypeOK, SendErrorResponseFails
  <2> QED
    BY <1>10, <2>1 DEF SendErrorResponseFails, PipelineMove, Assigned
<1> QED
  BY <1>1, <1>2, <1>3, <1>4, <1>5, <1>6, <1>7, <1>8, <1>9, <1>10 DEF Pipeline

-----------------------------------------------------------------------------
(***************************************************************************)
(* The invariant is inductive.                                             *)
(***************************************************************************)

LEMMA InitInv == Init => IInv
<1> SUFFICES ASSUME Init
             PROVE  IInv
  OBVIOUS
<1>1. TypeOK
  BY InitType
<1>2. \A m \in Msgs : msg[m].st = "new" /\ msg[m].pay = "op" /\ msg[m].ans = 0
  BY DEF Init, New
<1>3. AnswerEnds /\ PayloadMoves
  BY <1>2 DEF Init, AnswerEnds, PayloadMoves
<1>4. /\ DescriptorIsRndv /\ DescriptorOwned
      /\ IndexPointsAtStored /\ Findable
  BY DEF Init, DescriptorIsRndv, DescriptorOwned, IndexPointsAtStored, Findable
<1>5. ScopeClosing
  BY DEF Init, ScopeClosing
<1> QED
  BY <1>1, <1>3, <1>4, <1>5 DEF IInv

\* The step that stores a request keeps the index exact: the entry it finds
\* under its id is that of another request.
LEMMA PreserveKeepsIndex ==
    ASSUME IInv, NEW m \in Msgs, Preserve(m), UNCHANGED req,
           msg[m].st \in BeforeCall, msg'[m].pay = "storage",
           \A n \in Msgs \ {m} : msg'[n] = msg[n]
    PROVE  IndexPointsAtStored' /\ Findable'
<1> USE DEF IInv
<1>1. m \notin stored
  BY DEF PayloadMoves
<1>2. index' = [index EXCEPT ![req[m].id] = IF @ = None THEN m ELSE @]
  BY DEF Preserve
<1>3. req[m].id \in Ids
  BY DEF TypeOK
<1>4. IndexPointsAtStored'
  BY <1>2 DEF IndexPointsAtStored, Preserve, TypeOK
<1>5. Findable'
  <2> SUFFICES ASSUME NEW n \in stored', index'[req[n].id] # n,
                      msg'[n].st # "loaded"
               PROVE  \E k \in Msgs \ {n} :
                        req[k].id = req[n].id /\ msg'[k].pay \in {"storage", "freed"}
    BY DEF Findable
  <2>1. CASE n = m
    <3>1. index[req[m].id] # None
      BY <1>2, <1>3, <2>1 DEF TypeOK
    <3>2. index[req[m].id] \in stored /\ req[index[req[m].id]].id = req[m].id
      BY <1>3, <3>1 DEF IndexPointsAtStored
    <3>3. index[req[m].id] # m /\ index[req[m].id] \in Msgs
      BY <1>1, <3>2 DEF TypeOK
    <3>4. msg[index[req[m].id]].pay \in {"storage", "freed"}
      BY <3>2, <3>3 DEF PayloadMoves
    <3> QED
      BY <2>1, <3>2, <3>3, <3>4
  <2>2. CASE n # m
    <3>1. n \in stored /\ n \in Msgs
      BY <2>2 DEF Preserve, TypeOK
    <3>2. CASE req[n].id = req[m].id
      BY <2>2, <3>2
    <3>3. CASE req[n].id # req[m].id
      <4>1. index'[req[n].id] = index[req[n].id]
        BY <1>2, <1>3, <3>1, <3>3 DEF TypeOK
      <4>2. msg[n].st # "loaded"
        BY <2>2, <3>1
      <4>3. PICK k \in Msgs \ {n} :
              req[k].id = req[n].id /\ msg[k].pay \in {"storage", "freed"}
        BY <3>1, <4>1, <4>2 DEF Findable
      <4> QED
        BY <3>3, <4>3
    <3> QED
      BY <3>2, <3>3
  <2> QED
    BY <2>1, <2>2
<1> QED
  BY <1>4, <1>5

LEMMA PipelineInv ==
    ASSUME IInv, NEW m \in Msgs, Pipeline(m)
    PROVE  IInv'
<1> USE DEF IInv
<1>1. PipelineMove(m)
  BY PipelineMoves
<1>2. TypeOK'
  BY PipelineType
<1>3. AnswerEnds'
  BY <1>1 DEF AnswerEnds, PipelineMove, StopRequested, TypeOK, MsgRecords
<1>4. DescriptorIsRndv' /\ DescriptorOwned'
  BY <1>1 DEF DescriptorIsRndv, DescriptorOwned, PipelineMove, StopRequested,
              WaitsForReceive, TypeOK
<1>5. PayloadMoves'
  BY <1>1 DEF PayloadMoves, PipelineMove, Preserve, TypeOK
<1>6. IndexPointsAtStored' /\ Findable'
  <2>1. CASE Preserve(m) /\ msg[m].st \in BeforeCall /\ msg'[m].pay = "storage"
    BY <1>1, <2>1, PreserveKeepsIndex DEF PipelineMove
  <2>2. CASE UNCHANGED <<stored, index>>
    <3>1. \A n \in Msgs : msg[n].pay \in {"storage", "freed"}
                            => msg'[n].pay \in {"storage", "freed"}
      BY <1>1 DEF PipelineMove
    <3>2. \A n \in stored : msg'[n].st = "loaded" <=> msg[n].st = "loaded"
      BY <1>1 DEF PipelineMove, TypeOK
    <3> QED
      BY <1>1, <2>2, <3>1, <3>2
         DEF PipelineMove, IndexPointsAtStored, Findable, TypeOK
  <2> QED
    BY <1>1, <2>1, <2>2 DEF PipelineMove
<1>7. ScopeClosing'
  BY <1>1 DEF ScopeClosing, PipelineMove, InProgress, TypeOK, Stations
<1> QED
  BY <1>2, <1>3, <1>4, <1>5, <1>6, <1>7

\* Erasing a request that is or was stored, by its id or by the iterator.
LEMMA EraseInv ==
    ASSUME IInv, NEW m \in stored \cup cursor, EraseStoredRequest(m),
           cursor' \subseteq cursor, UNCHANGED <<req, desc, server, stopper>>
    PROVE  IInv'
<1> USE DEF IInv
<1> m \in Msgs
  BY DEF TypeOK
<1> DEFINE pay == IF msg[m].pay = "storage" THEN "freed" ELSE msg[m].pay
<1>1. pay \in Payloads
  BY DEF TypeOK, MsgRecords, Payloads
<1>2. Assigned(m, msg[m].st, msg[m].late, pay, msg[m].ans)
  <2> msg' = [msg EXCEPT ![m].pay = pay]
    BY DEF EraseStoredRequest
  <2> HIDE DEF pay
  <2> QED
    BY <1>1, PayloadUpdate DEF TypeOK
<1>3. pay = "freed"
  BY DEF PayloadMoves
<1> HIDE DEF pay
<1>4. TypeOK'
  BY EraseType DEF TypeOK
<1>5. AnswerEnds'
  BY <1>2 DEF AnswerEnds, StopRequested, Assigned
<1>6. DescriptorIsRndv' /\ DescriptorOwned'
  BY <1>2 DEF DescriptorIsRndv, DescriptorOwned, Assigned, StopRequested, TypeOK
<1>7. PayloadMoves'
  <2>1. msg[m].pay \in {"storage", "freed"}
    BY DEF PayloadMoves
  <2>2. msg[m].st \notin BeforeCall
    BY <2>1 DEF PayloadMoves
  <2> QED
    BY <1>2, <1>3, <2>2 DEF PayloadMoves, Assigned, EraseStoredRequest
<1>8. IndexPointsAtStored'
  BY DEF IndexPointsAtStored, EraseStoredRequest, TypeOK
<1>9. Findable'
  <2> SUFFICES ASSUME NEW n \in stored', index'[req[n].id] # n,
                      msg'[n].st # "loaded"
               PROVE  \E k \in Msgs \ {n} :
                        req[k].id = req[n].id /\ msg'[k].pay \in {"storage", "freed"}
    BY DEF Findable
  <2>1. n \in stored /\ n \in Msgs /\ n # m
    BY DEF EraseStoredRequest, TypeOK
  <2>2. CASE req[n].id = req[m].id
    BY <1>2, <1>3, <2>1, <2>2 DEF Assigned
  <2>3. CASE req[n].id # req[m].id
    <3>1. index'[req[n].id] = index[req[n].id]
      BY <2>1, <2>3 DEF EraseStoredRequest, TypeOK
    <3>2. msg[n].st # "loaded"
      BY <1>2, <2>1 DEF Assigned
    <3>3. PICK k \in Msgs \ {n} :
            req[k].id = req[n].id /\ msg[k].pay \in {"storage", "freed"}
      BY <2>1, <3>1, <3>2 DEF Findable
    <3> QED
      BY <1>2, <2>3, <3>3 DEF Assigned
  <2> QED
    BY <2>2, <2>3
<1>10. ScopeClosing'
  BY <1>2 DEF ScopeClosing, Assigned, InProgress
<1> QED
  BY <1>4, <1>5, <1>6, <1>7, <1>8, <1>9, <1>10

LEMMA ServerInv ==
    ASSUME IInv, StartServer \/ StopServer \/ Stopping
    PROVE  IInv'
<1> USE DEF IInv
<1>1. /\ UNCHANGED <<req, msg, desc, stored, index, cursor>>
      /\ server.stop => server'.stop
  BY DEF StartServer, StopServer, Stopping, FutureEnds, ScopeJoined,
         ThreadJoined, ThreadExits, LoopEnds, TypeOK
<1>2. TypeOK'
  BY ServerType
<1>3. AnswerEnds' /\ PayloadMoves' /\ IndexPointsAtStored' /\ Findable'
  BY <1>1 DEF AnswerEnds, StopRequested, PayloadMoves, IndexPointsAtStored,
              Findable
<1>4. DescriptorIsRndv' /\ DescriptorOwned'
  BY <1>1 DEF DescriptorIsRndv, DescriptorOwned, StopRequested
<1>5. ScopeClosing'
  <2> USE DEF ScopeClosing, InProgress, TypeOK, Stations
  <2>1. CASE StartServer
    BY <2>1 DEF StartServer
  <2>2. CASE StopServer
    BY <2>2 DEF StopServer
  <2>3. CASE FutureEnds
    BY <2>3 DEF FutureEnds
  <2>4. CASE ScopeJoined
    BY <2>4 DEF ScopeJoined
  <2>5. CASE ThreadJoined
    BY <2>5 DEF ThreadJoined
  <2>6. CASE ThreadExits
    BY <2>6 DEF ThreadExits
  <2>7. CASE LoopEnds
    BY <2>7 DEF LoopEnds
  <2> QED
    BY <2>1, <2>2, <2>3, <2>4, <2>5, <2>6, <2>7 DEF Stopping
<1> QED
  BY <1>2, <1>3, <1>4, <1>5

LEMMA AmRecvCallbackInv ==
    ASSUME IInv, NEW m \in Msgs, AmRecvCallback(m)
    PROVE  IInv'
<1> USE DEF IInv
<1>1. TypeOK'
  BY NextType DEF Next
<1>2. /\ Assigned(m, "arrived", msg[m].late, msg[m].pay, msg[m].ans)
      /\ msg[m].st = "new"
      /\ UNCHANGED <<req, stored, index, cursor, server, stopper>>
  BY PointUpdate DEF AmRecvCallback, TypeOK, Points
<1>3. AnswerEnds' /\ PayloadMoves'
  BY <1>2 DEF AnswerEnds, StopRequested, PayloadMoves, Assigned, BeforeCall
<1>4. DescriptorIsRndv' /\ DescriptorOwned'
  BY <1>2 DEF DescriptorIsRndv, DescriptorOwned, StopRequested, Assigned,
              AmRecvCallback, TypeOK
<1>5. IndexPointsAtStored' /\ Findable'
  BY <1>2 DEF IndexPointsAtStored, Findable, Assigned, TypeOK
<1>6. ScopeClosing'
  BY <1>2 DEF ScopeClosing, InProgress, InScope, Assigned
<1> QED
  BY <1>1, <1>3, <1>4, <1>5, <1>6

LEMMA DeadlineExpiresInv ==
    ASSUME IInv, NEW m \in Msgs, DeadlineExpires(m)
    PROVE  IInv'
<1> USE DEF IInv
<1>1. TypeOK'
  BY NextType DEF Next
<1>2. /\ Assigned(m, msg[m].st, TRUE, msg[m].pay, msg[m].ans)
      /\ UNCHANGED <<req, desc, stored, index, cursor, server, stopper>>
  BY LateUpdate DEF DeadlineExpires, TypeOK
<1>3. AnswerEnds' /\ PayloadMoves'
  BY <1>2 DEF AnswerEnds, StopRequested, PayloadMoves, Assigned
<1>4. DescriptorIsRndv' /\ DescriptorOwned'
  BY <1>2 DEF DescriptorIsRndv, DescriptorOwned, StopRequested, Assigned, TypeOK
<1>5. IndexPointsAtStored' /\ Findable'
  <2>1. \A n \in Msgs : msg'[n].st = msg[n].st /\ msg'[n].pay = msg[n].pay
    BY <1>2 DEF Assigned
  <2> QED
    BY <1>2, <2>1 DEF IndexPointsAtStored, Findable, TypeOK
<1>6. ScopeClosing'
  BY <1>2 DEF ScopeClosing, InProgress, Assigned
<1> QED
  BY <1>1, <1>3, <1>4, <1>5, <1>6

LEMMA LoadInv ==
    ASSUME IInv, NEW m \in Msgs, Load(m)
    PROVE  IInv'
<1> USE DEF IInv
<1>1. TypeOK'
  BY NextType DEF Next
<1>2. /\ Assigned(m, "loaded", msg[m].late, "storage", msg[m].ans)
      /\ msg[m].st = "new"
      /\ stored' = stored \cup {m}
      /\ UNCHANGED <<req, desc, index, cursor, server, stopper>>
  BY TakeOverUpdate DEF Load, TypeOK, Points, Payloads
<1>3. AnswerEnds' /\ PayloadMoves'
  BY <1>2 DEF AnswerEnds, StopRequested, PayloadMoves, Assigned, BeforeCall
<1>4. DescriptorIsRndv' /\ DescriptorOwned'
  BY <1>2 DEF DescriptorIsRndv, DescriptorOwned, StopRequested, Assigned, TypeOK
<1>5. IndexPointsAtStored' /\ Findable'
  BY <1>2 DEF IndexPointsAtStored, Findable, Assigned, TypeOK
<1>6. ScopeClosing'
  BY <1>2 DEF ScopeClosing, InProgress, InScope, Assigned
<1> QED
  BY <1>1, <1>3, <1>4, <1>5, <1>6

LEMMA NextInv == IInv /\ [Next]_vars => IInv'
<1> SUFFICES ASSUME IInv, [Next]_vars
             PROVE  IInv'
  OBVIOUS
<1> USE DEF IInv
<1>1. CASE StartServer \/ StopServer \/ Stopping
  BY <1>1, ServerInv
<1>2. ASSUME NEW m \in Msgs,
             AmRecvCallback(m) \/ Pipeline(m) \/ DeadlineExpires(m) \/ Load(m)
      PROVE  IInv'
  BY <1>2, AmRecvCallbackInv, PipelineInv, DeadlineExpiresInv, LoadInv
<1>3. ASSUME NEW m \in Msgs, EraseByUser(m)
      PROVE  IInv'
  BY <1>3, EraseInv DEF EraseByUser
<1>4. ASSUME cursor' \subseteq Msgs, UNCHANGED <<req, msg, desc, stored, index,
                                                server, stopper>>,
             cursor' \subseteq cursor \cup stored
      PROVE  IInv'
  BY <1>4 DEF TypeOK, AnswerEnds, PayloadMoves, DescriptorIsRndv, DescriptorOwned,
              StopRequested, IndexPointsAtStored, Findable, ScopeClosing, InProgress
<1>5. ASSUME NEW m \in Msgs, NEW status \in Statuses,
             ProcessNextStoredRequest(m, status)
      PROVE  IInv'
  <2>1. m \in cursor /\ cursor' \subseteq cursor
    BY <1>5 DEF ProcessNextStoredRequest
  <2>2. CASE EraseStoredRequest(m)
    BY <1>5, <2>1, <2>2, EraseInv DEF ProcessNextStoredRequest
  <2>3. CASE UNCHANGED <<stored, index, msg>>
    BY <1>4, <1>5, <2>1, <2>3 DEF ProcessNextStoredRequest, TypeOK
  <2> QED
    BY <1>5, <2>2, <2>3 DEF ProcessNextStoredRequest, ProcessLifecycleStatus
<1>6. ASSUME NEW i \in Ids, NEW status \in Statuses,
             ProcessStoredRequest(i, status)
      PROVE  IInv'
  <2>1. index[i] \in stored
    BY <1>6 DEF ProcessStoredRequest, FindStoredRequest, IndexPointsAtStored
  <2>2. CASE EraseStoredRequest(index[i])
    BY <1>6, <2>1, <2>2, EraseInv DEF ProcessStoredRequest
  <2>3. CASE UNCHANGED <<stored, index, msg>>
    BY <1>4, <1>6, <2>3 DEF ProcessStoredRequest, TypeOK
  <2> QED
    BY <1>6, <2>2, <2>3
       DEF ProcessStoredRequest, ProcessLifecycleStatus, FindStoredRequest
<1>7. CASE ProcessStoredRequests
  BY <1>4, <1>7 DEF ProcessStoredRequests, TypeOK
<1>8. CASE UNCHANGED vars
  BY <1>4, <1>8 DEF vars, TypeOK
<1> QED
  BY <1>1, <1>2, <1>3, <1>5, <1>6, <1>7, <1>8 DEF Next

-----------------------------------------------------------------------------
(***************************************************************************)
(* The theorems.                                                           *)
(***************************************************************************)

\* The invariant of the pipeline, the storage and StopServer together.
THEOREM ServerInvariant == Spec => []IInv
BY InitInv, NextInv, PTL DEF Spec

\* stop_when, let_done and let_error of ServerProcessValidMessage_ give a
\* request a second answer only when a stop overtook the first one's send, and
\* never a third; a rendezvous descriptor is left in amDescMap_ only by a
\* function without payload, a request without tensors or a stop.
THEOREM RequestSettledOnce == Spec => []SettledOnce
<1>1. IInv => SettledOnce
  <2> SUFFICES ASSUME IInv
               PROVE  AnsweredOnce /\ DescriptorOwned
    BY DEF SettledOnce
  <2> QED
    BY DEF IInv, AnswerEnds, AnsweredOnce, TypeOK, MsgRecords
<1> QED
  BY <1>1, ServerInvariant, PTL

\* request_id_to_iterator_ follows storage_: FindStoredRequest never returns
\* an iterator of an erased request, and misses one only when another request
\* of the same id was stored, or it was loaded from a file.
THEOREM StorageIndexExact == Spec => []IndexExact
<1>1. IInv => IndexExact
  BY DEF IInv, IndexExact
<1> QED
  BY <1>1, ServerInvariant, PTL

\* No request is in the pipeline when StopServer returns.
THEOREM StopServerQuiets == Spec => []StoppedIsQuiet
<1>1. IInv => StoppedIsQuiet
  BY DEF IInv, ScopeClosing, StoppedIsQuiet
<1> QED
  BY <1>1, ServerInvariant, PTL
=============================================================================
