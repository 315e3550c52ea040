----------------------------- MODULE PendingRpc -----------------------------
(***************************************************************************)
(* The pending calls of an AxonWorker's client side: InvokeRpcImpl         *)
(* registers a response handler in pending_rpcs_ (RingBuffer, a slot per   *)
(* request id modulo its size), and three threads take handlers out again  *)
(* with PopPendingRpcResponseHandler_ and call them:                       *)
(*                                                                         *)
(*   "client"  the client context's thread, for a response;                *)
(*   "timer"   the time context's thread, for an expired deadline;         *)
(*   "stop"    the thread in StopClient, for what is still pending.        *)
(*                                                                         *)
(* The buffer takes no lock, so every access to a slot's state, session or *)
(* value and to size_ is a step of its own.  The other half of a call, the *)
(* send, matters here by its outcome only.                                 *)
(***************************************************************************)
EXTENDS Integers, Sequences, FiniteSets

CONSTANTS
    Rpcs,       \* the calls that are made
    Sessions,   \* the session ids that calls are made with
    Size        \* kPendingRpcBufferSize

ASSUME SizeAssumption == Size \in Nat \ {0}

ASSUME RpcsAssumption == IsFiniteSet(Rpcs)

Workers == {"client", "timer", "stop"}

\* What a slot's value can be besides a handler: moved from (or never set),
\* and destroyed.  Calling either is undefined.
Null == "null"
Destroyed == "destroyed"

Values == Rpcs \cup {Null, Destroyed}

ASSUME ValuesAssumption == Null \notin Rpcs /\ Destroyed \notin Rpcs

\* The default session of a slot that was never used.
NoSession == "none"

ASSUME SessionsAssumption == NoSession \notin Sessions

VARIABLES
    nextRequestId,  \* next_request_id_
    id,             \* per call: its request id, 0 before InvokeRpc
    callSession,    \* per call: its session id, set with the request id
    cpc,            \* per call: where the calling thread is in start()
    send,           \* per call: the send half
    recv,           \* per call: the receive half
    stopRequested,  \* per call: the stop token of the receive half
    cancelled,      \* per call: the caller asked to stop
    timer,          \* per call: the timeout sender
    answered,       \* calls whose response was taken from the network
    state,          \* per slot: Slot::state
    session,        \* per slot: Slot::session_id
    value,          \* per slot: Slot::value
    size,           \* size_
    wpc,            \* per worker: where it is in PopPendingRpcResponseHandler_
    job,            \* per worker: the slot and session it looks for, and why
    held,           \* per worker: the handler it has moved out
    client,         \* the client loop: running, told to stop, ended
    scan,           \* StopClient: the next slot to look at
    todo,           \* StopClient: pending_requests
    replaced,       \* history: calls whose handler another call's has replaced
    raced           \* history: two threads were inside one slot

identity == <<nextRequestId, id, callSession>>

callVars == <<identity, cpc, send, recv,
              stopRequested, cancelled, timer, answered>>

slotVars == <<state, session, value, size>>

workVars == <<wpc, job, held>>

stopVars == <<client, scan, todo>>

history == <<replaced, raced>>

vars == <<callVars, slotVars, workVars, stopVars, history>>

-----------------------------------------------------------------------------

Slots == 0 .. Size - 1

\* request_id_to_index
Index(r) == id[r] % Size

CallerPoints == {"new", "start", "cas", "compare", "update", "size", "session",
                 "value", "count", "arm", "started"}

WorkPoints == {"idle", "find", "check", "move", "reset", "erase", "destroy",
               "call", "crashed"}

NoJob == [slot |-> 0, session |-> NoSession, why |-> Null]

Init ==
    /\ nextRequestId = 1
    /\ id = [r \in Rpcs |-> 0]
    /\ callSession = [r \in Rpcs |-> NoSession]
    /\ cpc = [r \in Rpcs |-> "new"]
    /\ send = [r \in Rpcs |-> "none"]
    /\ recv = [r \in Rpcs |-> "none"]
    /\ stopRequested = [r \in Rpcs |-> FALSE]
    /\ cancelled = [r \in Rpcs |-> FALSE]
    /\ timer = [r \in Rpcs |-> "off"]
    /\ answered = {}
    /\ state = [i \in Slots |-> "empty"]
    /\ session = [i \in Slots |-> NoSession]
    /\ value = [i \in Slots |-> Null]
    /\ size = 0
    /\ wpc = [w \in Workers |-> "idle"]
    /\ job = [w \in Workers |-> NoJob]
    /\ held = [w \in Workers |-> Null]
    /\ client = "running"
    /\ scan = 0
    /\ todo = <<>>
    /\ replaced = {}
    /\ raced = FALSE

\* A caller that has acquired slot i and not finished constructing it, or has
\* found its session there and not written its value; a worker that has found
\* slot i and not finished erasing it.
CallersInside(i) ==
    {r \in Rpcs :
       Index(r) = i /\ cpc[r] \in {"update", "size", "session", "value"}}

WorkersInside(i) ==
    {w \in Workers : job[w].slot = i
                     /\ wpc[w] \in {"move", "reset", "erase", "destroy"}}

Busy(i) == CallersInside(i) \cup WorkersInside(i) # {}

\* What was read of slot i is used: too late when another thread is inside, or
\* has erased it since.
Overlaps(i) == Busy(i) \/ state[i] # "occupied"

-----------------------------------------------------------------------------
(***************************************************************************)
(* The calling thread: when_all starts the send, then the receive half;    *)
(* stop_when then starts the timeout.                                      *)
(***************************************************************************)

\* InvokeRpc takes the request id; when_all starts send_sender first, so a
\* response can come in before the handler is registered.
InvokeRpc(r, s) ==
    /\ cpc[r] = "new"
    /\ callSession' = [callSession EXCEPT ![r] = s]
    /\ id' = [id EXCEPT ![r] = nextRequestId]
    /\ nextRequestId' = nextRequestId + 1
    /\ send' = [send EXCEPT ![r] = "started"]
    /\ cpc' = [cpc EXCEPT ![r] = "start"]
    /\ UNCHANGED <<recv, stopRequested, cancelled, timer, answered,
                   slotVars, workVars, stopVars, history>>

\* The receive half starts: set_done when a stop was requested already.
StartReceive(r) ==
    /\ cpc[r] = "start"
    /\ IF stopRequested[r]
         THEN /\ recv' = [recv EXCEPT ![r] = "done"]
              /\ cpc' = [cpc EXCEPT ![r] = "arm"]
         ELSE /\ cpc' = [cpc EXCEPT ![r] = "cas"]
              /\ UNCHANGED recv
    /\ UNCHANGED <<identity, send, stopRequested, cancelled,
                   timer, answered, slotVars, workVars, stopVars, history>>

\* RingBuffer::emplace acquires the empty slot.
EmplaceAcquire(r) ==
    /\ cpc[r] = "cas"
    /\ state[Index(r)] = "empty"
    /\ state' = [state EXCEPT ![Index(r)] = "occupied"]
    /\ raced' = (raced \/ Busy(Index(r)))
    /\ cpc' = [cpc EXCEPT ![r] = "size"]
    /\ UNCHANGED <<identity, send, recv, stopRequested,
                   cancelled, timer, answered, session, value, size, workVars,
                   stopVars, replaced>>

\* The swap fails: the slot is occupied.
EmplaceOccupied(r) ==
    /\ cpc[r] = "cas"
    /\ state[Index(r)] = "occupied"
    /\ cpc' = [cpc EXCEPT ![r] = "compare"]
    /\ UNCHANGED <<identity, send, recv, stopRequested, cancelled,
                   timer, answered, slotVars, workVars, stopVars, history>>

\* The slot has the session of r, perhaps since a moment ago: an update.
EmplaceSame(r) ==
    /\ cpc[r] = "compare"
    /\ session[Index(r)] = callSession[r]
    /\ raced' = (raced \/ Overlaps(Index(r)))
    /\ cpc' = [cpc EXCEPT ![r] = "update"]
    /\ UNCHANGED <<identity, send, recv, stopRequested, cancelled,
                   timer, answered, slotVars, workVars, stopVars, replaced>>

EmplaceUpdate(r) ==
    /\ cpc[r] = "update"
    /\ value' = [value EXCEPT ![Index(r)] = r]
    /\ replaced' = replaced \cup ({value[Index(r)]} \cap Rpcs)
    /\ recv' = [recv EXCEPT ![r] = "waiting"]
    /\ cpc' = [cpc EXCEPT ![r] = "arm"]
    /\ UNCHANGED <<identity, send, stopRequested, cancelled, timer,
                   answered, state, session, size, workVars, stopVars, raced>>

\* emplace gives up: the slot has another session, or compare_exchange_weak
\* has failed although the slot is empty.
EmplaceGivesUp(r) ==
    \/ cpc[r] = "compare" /\ session[Index(r)] # callSession[r]
    \/ cpc[r] = "cas" /\ state[Index(r)] = "empty"

\* Mutant: the result of emplace is not looked at.
EmplaceRejectIgnored(r) ==
    /\ EmplaceGivesUp(r)
    /\ recv' = [recv EXCEPT ![r] = "waiting"]
    /\ cpc' = [cpc EXCEPT ![r] = "arm"]
    /\ UNCHANGED <<identity, send, stopRequested, cancelled,
                   timer, answered, slotVars, workVars, stopVars, history>>

\* The call fails when emplace does.
EmplaceReject(r) ==
    /\ EmplaceGivesUp(r)
    /\ recv' = [recv EXCEPT ![r] = "error"]
    /\ cpc' = [cpc EXCEPT ![r] = "arm"]
    /\ UNCHANGED <<identity, send, stopRequested, cancelled,
                   timer, answered, slotVars, workVars, stopVars, history>>

\* The check of size_ after the slot was acquired: full gives it back.
EmplaceCheckSize(r) ==
    /\ cpc[r] = "size"
    /\ IF size >= Size
         THEN /\ state' = [state EXCEPT ![Index(r)] = "empty"]
              /\ recv' = [recv EXCEPT ![r] = "error"]
              /\ cpc' = [cpc EXCEPT ![r] = "arm"]
         ELSE /\ cpc' = [cpc EXCEPT ![r] = "session"]
              /\ UNCHANGED <<state, recv>>
    /\ UNCHANGED <<identity, send, stopRequested, cancelled,
                   timer, answered, session, value, size, workVars, stopVars,
                   history>>

EmplaceSession(r) ==
    /\ cpc[r] = "session"
    /\ session' = [session EXCEPT ![Index(r)] = callSession[r]]
    /\ cpc' = [cpc EXCEPT ![r] = "value"]
    /\ UNCHANGED <<identity, send, recv, stopRequested,
                   cancelled, timer, answered, state, value, size, workVars,
                   stopVars, history>>

EmplaceValue(r) ==
    /\ cpc[r] = "value"
    /\ value' = [value EXCEPT ![Index(r)] = r]
    /\ recv' = [recv EXCEPT ![r] = "waiting"]
    /\ cpc' = [cpc EXCEPT ![r] = "count"]
    /\ UNCHANGED <<identity, send, stopRequested, cancelled,
                   timer, answered, state, session, size, workVars, stopVars,
                   history>>

EmplaceCount(r) ==
    /\ cpc[r] = "count"
    /\ size' = size + 1
    /\ cpc' = [cpc EXCEPT ![r] = "arm"]
    /\ UNCHANGED <<identity, send, recv, stopRequested,
                   cancelled, timer, answered, state, session, value,
                   workVars, stopVars, history>>

\* stop_when starts the timeout, unless the caller has asked to stop.
ArmTimer(r) ==
    /\ cpc[r] = "arm"
    /\ timer' = [timer EXCEPT ![r] = IF cancelled[r] THEN "off" ELSE "armed"]
    /\ cpc' = [cpc EXCEPT ![r] = "started"]
    /\ UNCHANGED <<identity, send, recv, stopRequested,
                   cancelled, answered, slotVars, workVars, stopVars, history>>

Emplace(r) ==
    \/ EmplaceAcquire(r)
    \/ EmplaceOccupied(r)
    \/ EmplaceSame(r)
    \/ EmplaceUpdate(r)
    \/ EmplaceReject(r)
    \/ EmplaceCheckSize(r)
    \/ EmplaceSession(r)
    \/ EmplaceValue(r)
    \/ EmplaceCount(r)

Caller(r) == StartReceive(r) \/ Emplace(r) \/ ArmTimer(r)

-----------------------------------------------------------------------------
(***************************************************************************)
(* The send half and the end of a call.                                    *)
(***************************************************************************)

\* The send finishes; when it fails, when_all asks the receive half to stop.
SendFinishes(r) ==
    /\ send[r] = "started"
    /\ \/ /\ send' = [send EXCEPT ![r] = "sent"]
          /\ UNCHANGED stopRequested
       \/ /\ send' = [send EXCEPT ![r] = "failed"]
          /\ stopRequested' = [stopRequested EXCEPT ![r] = TRUE]
    /\ UNCHANGED <<identity, cpc, recv, cancelled, timer,
                   answered, slotVars, workVars, stopVars, history>>

\* The caller's stop token: the timeout is cancelled with the rest; the
\* receive half looks at the token only when it starts or is called.
CancelCall(r) ==
    /\ cpc[r] # "new"
    /\ ~cancelled[r]
    /\ cancelled' = [cancelled EXCEPT ![r] = TRUE]
    /\ stopRequested' = [stopRequested EXCEPT ![r] = TRUE]
    /\ timer' = [timer EXCEPT ![r] = IF @ = "armed" THEN "off" ELSE @]
    /\ UNCHANGED <<identity, cpc, send, recv, answered,
                   slotVars, workVars, stopVars, history>>

\* Both halves are complete: stop_when cancels the timeout.
SourceCompletes(r) ==
    /\ recv[r] \in {"value", "error", "done"}
    /\ send[r] \in {"sent", "failed"}
    /\ timer[r] = "armed"
    /\ timer' = [timer EXCEPT ![r] = "off"]
    /\ UNCHANGED <<identity, cpc, send, recv, stopRequested,
                   cancelled, answered, slotVars, workVars, stopVars, history>>

-----------------------------------------------------------------------------
(***************************************************************************)
(* The three threads that pop handlers.                                    *)
(***************************************************************************)

Start(w, i, s, why) ==
    /\ wpc[w] = "idle"
    /\ wpc' = [wpc EXCEPT ![w] = "find"]
    /\ job' = [job EXCEPT ![w] = [slot |-> i, session |-> s, why |-> why]]

\* ClientProcessHeader_: the response to r was received.
ReceiveResponse(r) ==
    /\ client = "running"
    /\ send[r] \in {"started", "sent"}
    /\ r \notin answered
    /\ answered' = answered \cup {r}
    /\ Start("client", Index(r), callSession[r], r)
    /\ UNCHANGED <<held, identity, cpc, send, recv, stopRequested,
                   cancelled, timer, slotVars, stopVars, history>>

\* The deadline of r expires and its timeout_sender runs.
TimeoutExpires(r) ==
    /\ timer[r] = "armed"
    /\ timer' = [timer EXCEPT ![r] = "off"]
    /\ Start("timer", Index(r), callSession[r], r)
    /\ UNCHANGED <<held, identity, cpc, send, recv, stopRequested,
                   cancelled, answered, slotVars, stopVars, history>>

\* RingBuffer::find reads the state.
PopFind(w) ==
    LET found == state[job[w].slot] = "occupied"
    IN  /\ wpc[w] = "find"
        /\ wpc' = [wpc EXCEPT ![w] = IF found THEN "check" ELSE "idle"]
        /\ job' = IF found THEN job ELSE [job EXCEPT ![w] = NoJob]
        /\ UNCHANGED <<callVars, slotVars, held, stopVars, history>>

\* Mutant: the session is not compared.
PopCheckAnySession(w) ==
    /\ wpc[w] = "check"
    /\ wpc' = [wpc EXCEPT ![w] = "move"]
    /\ raced' = (raced \/ Overlaps(job[w].slot))
    /\ UNCHANGED <<callVars, slotVars, job, held, stopVars, replaced>>

\* find then compares the session, and nothing else.
PopCheck(w) ==
    LET i == job[w].slot
        found == session[i] = job[w].session
    IN  /\ wpc[w] = "check"
        /\ wpc' = [wpc EXCEPT ![w] = IF found THEN "move" ELSE "idle"]
        /\ job' = IF found THEN job ELSE [job EXCEPT ![w] = NoJob]
        /\ raced' = (raced \/ (found /\ Overlaps(i)))
        /\ UNCHANGED <<callVars, slotVars, held, stopVars, replaced>>

\* std::move(pending_rpcs_.at(index)): read the proxy, then reset it.
PopMove(w) ==
    /\ wpc[w] = "move"
    /\ held' = [held EXCEPT ![w] = value[job[w].slot]]
    /\ wpc' = [wpc EXCEPT ![w] = "reset"]
    /\ UNCHANGED <<callVars, slotVars, job, stopVars, history>>

PopReset(w) ==
    /\ wpc[w] = "reset"
    /\ value' = [value EXCEPT ![job[w].slot] = Null]
    /\ wpc' = [wpc EXCEPT ![w] = "erase"]
    /\ UNCHANGED <<callVars, state, session, size, job, held, stopVars, history>>

\* RingBuffer::erase(request_id): the session is not compared again and the
\* result is not used.
PopErase(w) ==
    /\ wpc[w] = "erase"
    /\ IF state[job[w].slot] = "occupied"
         THEN /\ state' = [state EXCEPT ![job[w].slot] = "empty"]
              /\ wpc' = [wpc EXCEPT ![w] = "destroy"]
         ELSE /\ wpc' = [wpc EXCEPT ![w] = "call"]
              /\ UNCHANGED state
    /\ UNCHANGED <<callVars, session, value, size, job, held, stopVars, history>>

\* Mutant: size_ is not decremented.
PopDestroyUncounted(w) ==
    /\ wpc[w] = "destroy"
    /\ value' = [value EXCEPT ![job[w].slot] = Destroyed]
    /\ wpc' = [wpc EXCEPT ![w] = "call"]
    /\ UNCHANGED <<callVars, state, session, size, job, held, stopVars, history>>

\* The rest of erase, after the slot was released: the destructors (the
\* session's does nothing) and size_.
PopDestroy(w) ==
    /\ wpc[w] = "destroy"
    /\ value' = [value EXCEPT ![job[w].slot] = Destroyed]
    /\ size' = size - 1
    /\ wpc' = [wpc EXCEPT ![w] = "call"]
    /\ UNCHANGED <<callVars, state, session, job, held, stopVars, history>>

Result(w, r) ==
    IF stopRequested[r] THEN "done"
    ELSE IF w = "client" THEN "value" ELSE "error"

\* The handler is called with the response, or with DEADLINE_EXCEEDED or
\* CANCELLED.  A response that reports an error is a "value" here.
CallHandler(w) ==
    /\ wpc[w] = "call"
    /\ held[w] \in Rpcs
    /\ recv' = [recv EXCEPT ![held[w]] = Result(w, held[w])]
    /\ wpc' = [wpc EXCEPT ![w] = "idle"]
    /\ job' = [job EXCEPT ![w] = NoJob]
    /\ held' = [held EXCEPT ![w] = Null]
    /\ UNCHANGED <<identity, cpc, send, stopRequested, cancelled,
                   timer, answered, slotVars, stopVars, history>>

\* The thread calls a proxy that holds nothing.
CallNothing(w) ==
    /\ wpc[w] = "call"
    /\ held[w] \notin Rpcs
    /\ wpc' = [wpc EXCEPT ![w] = "crashed"]
    /\ UNCHANGED <<callVars, slotVars, job, held, stopVars, history>>

Pop(w) ==
    \/ PopFind(w)
    \/ PopCheck(w)
    \/ PopMove(w)
    \/ PopReset(w)
    \/ PopErase(w)
    \/ PopDestroy(w)
    \/ CallHandler(w)
    \/ CallNothing(w)

-----------------------------------------------------------------------------
(***************************************************************************)
(* StopClient.                                                             *)
(***************************************************************************)

\* client_stop_source_.request_stop()
RequestStop ==
    /\ client = "running"
    /\ client' = "stopping"
    /\ UNCHANGED <<callVars, slotVars, workVars, scan, todo, history>>

\* client_future_ is ready: the client loop takes no more responses.
ClientLoopEnds ==
    /\ client = "stopping"
    /\ wpc["client"] = "idle"
    /\ client' = "scan"
    /\ UNCHANGED <<callVars, slotVars, workVars, scan, todo, history>>

ScanOn ==
    /\ scan' = scan + 1
    /\ client' = IF scan + 1 = Size THEN "drain" ELSE "scan"

\* The iteration over pending_rpcs_ looks for the next occupied slot.
ScanSlot ==
    /\ client = "scan"
    /\ IF state[scan] = "occupied" THEN client' = "entry" /\ UNCHANGED scan ELSE ScanOn
    /\ UNCHANGED <<callVars, slotVars, workVars, todo, history>>

\* The entry at the iterator; the index stands for the request id.
ScanEntry ==
    /\ client = "entry"
    /\ todo' = Append(todo, [slot |-> scan, session |-> session[scan]])
    /\ ScanOn
    /\ UNCHANGED <<callVars, slotVars, workVars, history>>

DrainPending ==
    /\ client = "drain"
    /\ todo # <<>>
    /\ todo' = Tail(todo)
    /\ Start("stop", Head(todo).slot, Head(todo).session, Null)
    /\ UNCHANGED <<held, callVars, slotVars, client, scan, history>>

DrainFinished ==
    /\ client = "drain"
    /\ todo = <<>>
    /\ wpc["stop"] = "idle"
    /\ client' = "stopped"
    /\ UNCHANGED <<callVars, slotVars, workVars, scan, todo, history>>

StopClient ==
    \/ RequestStop
    \/ ClientLoopEnds
    \/ ScanSlot
    \/ ScanEntry
    \/ DrainPending
    \/ DrainFinished

-----------------------------------------------------------------------------

Next ==
    \/ \E r \in Rpcs :
         \/ \E s \in Sessions : InvokeRpc(r, s)
         \/ Caller(r)
         \/ SendFinishes(r)
         \/ CancelCall(r)
         \/ SourceCompletes(r)
         \/ ReceiveResponse(r)
         \/ TimeoutExpires(r)
    \/ \E w \in Workers : Pop(w)
    \/ StopClient

Spec == Init /\ [][Next]_vars

-----------------------------------------------------------------------------
(***************************************************************************)
(* Properties.  raced records that two threads were inside one slot at     *)
(* once, which the buffer does not exclude: what holds from then on is     *)
(* undefined.  replaced records the calls whose handler was overwritten by *)
(* another call of the session, Size or a multiple of it later.            *)
(***************************************************************************)

\* Every variable keeps its type.
TypeOK ==
    /\ nextRequestId \in Nat
    /\ id \in [Rpcs -> Nat]
    /\ callSession \in [Rpcs -> Sessions \cup {NoSession}]
    /\ cpc \in [Rpcs -> CallerPoints]
    /\ send \in [Rpcs -> {"none", "started", "sent", "failed"}]
    /\ recv \in [Rpcs -> {"none", "waiting", "value", "error", "done"}]
    /\ stopRequested \in [Rpcs -> BOOLEAN]
    /\ cancelled \in [Rpcs -> BOOLEAN]
    /\ timer \in [Rpcs -> {"off", "armed"}]
    /\ answered \subseteq Rpcs
    /\ state \in [Slots -> {"empty", "occupied"}]
    /\ session \in [Slots -> Sessions \cup {NoSession}]
    /\ value \in [Slots -> Values]
    /\ size \in Int
    /\ wpc \in [Workers -> WorkPoints]
    /\ job \in [Workers -> [slot : Slots, session : Sessions \cup {NoSession},
                            why : Rpcs \cup {Null}]]
    /\ held \in [Workers -> Values]
    /\ client \in {"running", "stopping", "scan", "entry", "drain", "stopped"}
    /\ scan \in 0 .. Size
    /\ todo \in Seq([slot : Slots, session : Sessions \cup {NoSession}])
    /\ replaced \subseteq Rpcs
    /\ raced \in BOOLEAN

AsInt(b) == IF b THEN 1 ELSE 0

\* The places from which the handler of r can still be called: its slot, and
\* the workers that have moved it out.
Owners(r) ==
    AsInt(state[Index(r)] = "occupied" /\ value[Index(r)] = r)
      + Cardinality({w \in Workers : /\ held[w] = r
                                     /\ wpc[w] \in {"erase", "destroy", "call"}})

\* A receive half that waits can be completed from exactly one place, and one
\* that does not wait, or whose handler was replaced, from none: a response, a
\* deadline and StopClient that follow each other in any order never lose a
\* handler, call it twice or leave it behind for the next user of the slot,
\* also when a later call of the session has the slot by then.
OneOwner ==
    ~raced => \A r \in Rpcs :
      Owners(r) = AsInt(recv[r] = "waiting" /\ r \notin replaced)

\* The handler that a response, a deadline or StopClient calls is one of the
\* session and the slot it was sent for ("session_id for validation").
SessionKept ==
    ~raced => \A w \in Workers :
      wpc[w] = "call" => /\ callSession[held[w]] = job[w].session
                         /\ Index(held[w]) = job[w].slot

\* The two together: a handler is in one place, and never leaves its session.
HandlerOwned == TypeOK /\ OneOwner /\ SessionKept

\* axon_worker.hpp, of pending_rpcs_: "different request_ids map to different
\* slots, so no locking needed".  A handler is called for its own response or
\* deadline, or by StopClient, at least while no two threads have been inside
\* one slot.
CalledForItself ==
    ~raced => \A w \in Workers :
      wpc[w] = "call" => job[w].why \in {held[w], Null}

\* size_ lags behind the slots' states by the emplaces and erases under way,
\* never more: it does not drift, and never reports a full buffer, which
\* would refuse calls, while a slot is free.
SizeFollowsSlots ==
    ~raced =>
      /\ size = Cardinality({i \in Slots : state[i] = "occupied"})
                 + Cardinality({w \in Workers : wpc[w] = "destroy"})
                 - Cardinality({r \in Rpcs :
                      cpc[r] \in {"size", "session", "value", "count"}})
      /\ size >= Size => \A i \in Slots :
                           state[i] = "occupied" \/ WorkersInside(i) # {}

-----------------------------------------------------------------------------
(***************************************************************************)
(* Fairness: threads finish the calls they are in, deadlines expire, and   *)
(* StopClient, once entered, goes on.  Nothing obliges a response or a     *)
(* stop to come.  A call takes finitely many steps, so that one condition  *)
(* on all of these steps is as strong as one for each thread.              *)
(***************************************************************************)

Progress ==
    \/ \E r \in Rpcs : Caller(r) \/ TimeoutExpires(r)
    \/ \E w \in Workers : Pop(w)
    \/ ClientLoopEnds \/ ScanSlot \/ ScanEntry \/ DrainPending \/ DrainFinished

FairSpec == Spec /\ WF_vars(Progress)

\* Again and again no call waits, once registered, that its caller has not
\* cancelled and no other call has replaced: each one is completed, by its
\* deadline at the latest, also when its response overtook the registration and
\* was dropped.
RegisteredCompletes ==
    []<>(\A r \in Rpcs :
           recv[r] # "waiting" \/ cancelled[r] \/ r \in replaced \/ raced)

=============================================================================
