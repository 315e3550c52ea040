--------------------------- MODULE ClientResponses ---------------------------
(***************************************************************************)
(* The client's side of an answer: the loop that receives responses, the   *)
(* handler that is called with one, and how its data becomes the payload   *)
(* the caller asked for, which depends on whether UCX delivered the data   *)
(* with the message ("eager") or as a descriptor to receive it with        *)
(* ("rndv").  PendingRpc has the races for the handler.                    *)
(*                                                                         *)
(* Sizes are in bytes; a payload is the sequence of its parts' sizes.      *)
(***************************************************************************)
EXTENDS Naturals, Sequences, FiniteSets

CONSTANTS
    Calls,          \* calls of the client
    MaxSize,        \* bound on the size of a tensor
    MaxLoopErrors   \* bound on client_pipe_failed_count_

VARIABLES
    loop,       \* ClientCtxLoop_: "off", "running", "stopping", "ended", and
                \* "drained" when StopClient has cancelled the calls
    failures,   \* client_pipe_failed_count_
    call,       \* per call: its state, what it asks for, how it failed
    answer,     \* per call: the response that was received
    desc,       \* the calls whose descriptor is in amDescMap_
    result      \* per call: the parts the caller got

crVars == <<loop, failures, call, answer, desc, result>>

\* wants: "none" is std::monostate, "any" is PayloadVariant.  A custom memory
\* policy for "any" may return the other kind of buffer than expected.
Wants == {"none", "buf", "vec", "any"}
Policies == {"host", "custom", "otherKind"}

Metas ==
    {<<>>} \cup {<<a>> : a \in 1 .. MaxSize}
           \cup {<<a, b>> : a, b \in 1 .. MaxSize}

\* A descriptor is only made for data.
Answers ==
    {a \in [form : {"eager", "rndv"}, header : {"ok", "garbage"},
            status : {"ok", "error"}, metas : Metas,
            length : 0 .. 2 * MaxSize] : a.form = "rndv" => a.length > 0}

NoAnswer == [form |-> "none"]
Idle == [st |-> "idle", wants |-> "none", policy |-> "host", why |-> "none"]

CrInit ==
    /\ loop = "off"
    /\ failures = 0
    /\ call = [k \in Calls |-> Idle]
    /\ answer = [k \in Calls |-> NoAnswer]
    /\ desc = {}
    /\ result = [k \in Calls |-> <<>>]

Total(parts) ==
    LET sum[n \in 0 .. Len(parts)] ==
          IF n = 0 THEN 0 ELSE sum[n - 1] + parts[n]
    IN sum[Len(parts)]

Over(k) == call[k].st \in {"value", "error"}

-----------------------------------------------------------------------------
(* The loop.                                                               *)

StartClient(ok) ==
    /\ loop = "off"
    /\ loop' = IF ok THEN "running" ELSE "off"
    /\ UNCHANGED <<failures, call, answer, desc, result>>

RequestStop ==
    /\ loop = "running"
    /\ loop' = "stopping"
    /\ UNCHANGED <<failures, call, answer, desc, result>>

\* The predicate of repeat_effect_until, after every iteration.
Repeat == loop' = IF loop = "stopping" THEN "ended" ELSE loop

\* The receive that waits is stopped.
LoopStops ==
    /\ loop = "stopping"
    /\ Repeat
    /\ UNCHANGED <<failures, call, answer, desc, result>>

\* An error of the receive is counted, and the loop goes on.
ClientCtxLoopFails ==
    /\ loop \in {"running", "stopping"} /\ failures < MaxLoopErrors
    /\ failures' = failures + 1
    /\ Repeat
    /\ UNCHANGED <<call, answer, desc, result>>

\* StopClient calls the handlers that still wait once the loop has ended.
CancelPending ==
    /\ loop = "ended"
    /\ loop' = "drained"
    /\ call' = [k \in Calls |-> IF call[k].st = "waiting"
                               THEN [call[k] EXCEPT !.st = "error", !.why = "stopped"]
                               ELSE call[k]]
    /\ UNCHANGED <<failures, answer, desc, result>>

-----------------------------------------------------------------------------
(* What the handler makes of an answer.                                    *)

Fail(why) == [st |-> "error", parts |-> <<>>, why |-> why]
Value(parts) == [st |-> "value", parts |-> parts, why |-> "none"]
Receive(parts) == [st |-> "receiving", parts |-> parts, why |-> "none"]

\* to_buffer_vec throws when there is less data than the parts need.
ToBufferVec(length, sizes) ==
    IF Total(sizes) > length THEN Fail("sizes") ELSE Value(sizes)

\* A PayloadVariant is one buffer however many tensors there are.
EagerResponse(wants, a) ==
    CASE wants = "vec" -> ToBufferVec(a.length, IF a.metas = <<>>
                                                THEN <<a.length>> ELSE a.metas)
      [] wants = "none" -> Value(<<>>)
      [] wants \in {"buf", "any"} -> Value(<<a.length>>)

\* An answer without tensors has nothing to receive.
RndvMetasNoFallback(a) == a.metas

\* Without tensors the data is one tensor.
RndvMetas(a) ==
    IF a.metas = <<>> /\ a.length > 0 THEN <<a.length>> ELSE a.metas

\* A single buffer is made large enough by recv_buffer; a vector has the
\* sizes of the tensors.
ProcessRndvBuffer(kind, policy, wants, a) ==
    IF policy = "otherKind" /\ wants = "any" THEN Fail("policy")
    ELSE Receive(IF kind = "buf" THEN <<a.length>> ELSE RndvMetas(a))

RndvResponse(wants, policy, a) ==
    CASE RndvMetas(a) = <<>> -> Fail("empty")
      [] RndvMetas(a) # <<>> /\ wants = "none" -> Fail("monostate")
      [] RndvMetas(a) # <<>> /\ wants = "any" ->
           ProcessRndvBuffer(IF Len(RndvMetas(a)) = 1 THEN "buf" ELSE "vec",
                             policy, wants, a)
      [] RndvMetas(a) # <<>> /\ wants \in {"buf", "vec"} ->
           ProcessRndvBuffer(wants, policy, wants, a)

\* The callback of the call and then ClientResponseHandlerVisitor_.
HandleResponse(k, a) ==
    IF a.status = "error" THEN Fail("status")
    ELSE IF a.form = "eager" THEN EagerResponse(call[k].wants, a)
    ELSE RndvResponse(call[k].wants, call[k].policy, a)

\* A message without a header that can be read, or for which no handler is
\* waiting, is reported, and its descriptor stays.
ClientProcessResponseMessage(k, a) ==
    LET r == HandleResponse(k, a)
    IN /\ loop \in {"running", "stopping"}
       /\ call[k].st # "idle" /\ answer[k] = NoAnswer
       /\ answer' = [answer EXCEPT ![k] = a]
       /\ desc' = IF a.form = "rndv" THEN desc \cup {k} ELSE desc
       /\ IF a.header = "ok" /\ call[k].st = "waiting"
          THEN /\ call' = [call EXCEPT ![k].st = r.st, ![k].why = r.why]
               /\ result' = [result EXCEPT ![k] = r.parts]
          ELSE UNCHANGED <<call, result>>
       /\ Repeat
       /\ UNCHANGED failures

-----------------------------------------------------------------------------
(* The call.                                                               *)

\* Without a connection the send half fails, and with it the call.
ClientSendRequest(k, wants, policy, connected) ==
    /\ call[k].st = "idle"
    /\ call' = [call EXCEPT ![k] =
         [st |-> IF connected THEN "waiting" ELSE "error", wants |-> wants,
          policy |-> policy, why |-> IF connected THEN "none" ELSE "send"]]
    /\ UNCHANGED <<loop, failures, answer, desc, result>>

\* recv_buffer is over.  UCX truncates nothing: more data than there is room
\* for is an error.
RndvReceived(k, ok) ==
    LET fits == answer[k].length <= Total(result[k])
    IN /\ call[k].st = "receiving"
       /\ call' = [call EXCEPT ![k].st = IF ok /\ fits THEN "value" ELSE "error",
                               ![k].why = IF ~ok THEN "transfer"
                                          ELSE IF fits THEN "none" ELSE "sizes"]
       /\ desc' = desc \ {k}
       /\ UNCHANGED <<loop, failures, answer, result>>

\* timeout_sender: a waiting handler is popped, and an answer that comes later
\* finds none; a callback that is running and sees the stop ends the same way.
\* A receive is stopped: one under way releases the descriptor, one that has
\* not started leaves it.
Deadline(k) ==
    /\ call[k].st \in {"waiting", "receiving"}
    /\ call' = [call EXCEPT ![k].st = "error", ![k].why = "deadline"]
    /\ \/ UNCHANGED desc
       \/ call[k].st = "receiving" /\ desc' = desc \ {k}
    /\ UNCHANGED <<loop, failures, answer, result>>

CrNext ==
    \/ \E ok \in BOOLEAN : StartClient(ok)
    \/ RequestStop
    \/ LoopStops
    \/ CancelPending
    \/ ClientCtxLoopFails
    \/ \E k \in Calls :
         \/ \E a \in Answers : ClientProcessResponseMessage(k, a)
         \/ \E w \in Wants, p \in Policies, c \in BOOLEAN :
              ClientSendRequest(k, w, p, c)
         \/ \E ok \in BOOLEAN : RndvReceived(k, ok)
         \/ Deadline(k)

-----------------------------------------------------------------------------
\* The tensors account for the data, or there are none.
Honest(a) == a.metas = <<>> \/ Total(a.metas) = a.length

\* What the caller should get.
Expected(k) ==
    CASE call[k].wants = "none" -> <<>>
      [] call[k].wants = "vec" /\ answer[k].metas # <<>> -> answer[k].metas
      [] OTHER -> <<answer[k].length>>

Received(k) == answer[k] # NoAnswer

\* An answer whose tensors account for its data reaches its caller whole, in
\* the parts it asked for, whether UCX delivers it eagerly or by rendezvous:
\* it is lost only to the deadline, StopClient, a failed transfer or send, an
\* error status, or (by rendezvous only) a caller who wants no payload or a memory
\* policy that returns the wrong kind.  Only a PayloadVariant has other parts,
\* by rendezvous those of the tensors.  A descriptor is left in amDescMap_
\* only by an answer that no handler took or that the handler refused
\* (ClientResponseHandlerVisitor_, ClientProcessResponseMessage_).
AnswerIntact ==
    \A k \in Calls :
        /\ Received(k) /\ Honest(answer[k]) /\ call[k].st = "value" =>
             \/ result[k] = Expected(k)
             \/ call[k].wants = "any" /\ result[k] = answer[k].metas
        /\ Received(k) /\ Honest(answer[k]) /\ call[k].st = "error" =>
             \/ call[k].why \in {"deadline", "transfer", "send", "status", "stopped"}
             \/ answer[k].form = "rndv" /\ call[k].why \in {"monostate", "policy"}
        /\ k \in desc /\ Over(k) =>
             \/ answer[k].header = "garbage"
             \/ call[k].why \in {"deadline", "send", "status", "monostate",
                                 "policy"}

=============================================================================
