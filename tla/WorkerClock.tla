----------------------------- MODULE WorkerClock -----------------------------
(***************************************************************************)
(* The clock hlc_ of an AxonWorker.  The server context's thread merges    *)
(* the clock of every request, the client context's thread that of every   *)
(* response, and whichever thread a request fails on (server, thread pool  *)
(* or time context) ticks the clock and copies it into the error response. *)
(* hlc_ is not atomic and no lock protects it, so a merge or a tick is a   *)
(* load and, later, a store.  The clocks in messages are any clocks; the   *)
(* wall clock is read anew each time and may go back.                      *)
(***************************************************************************)
EXTENDS HybridLogicalClock, FiniteSets

CONSTANTS
    Requests,   \* the requests the worker receives
    Responses   \* the responses it receives

ASSUME MessagesAssumption == Requests \cap Responses = {}

Messages == Requests \cup Responses

VARIABLES
    hlc,        \* hlc_
    pc,         \* per message: how far its processing is
    received,   \* per message: the clock in its header
    next,       \* per message: the value about to be stored in hlc_
    reply,      \* per request: the clock in the error response
    wrapped,    \* history: a counter wrapped
    raced       \* history: two updates of hlc_ overlapped

vars == <<hlc, pc, received, next, reply, wrapped, raced>>

\* No header read yet, or no reply sent.
NoClock == [physical |-> -1, logical |-> 0]

Points == {"new", "merge", "handling", "tick", "copy", "done"}

\* Between the load and the store of an update of hlc_.
Updating(m) == pc[m] \in {"merge", "tick"}

Init ==
    /\ \E t \in Times : hlc = Now(t)
    /\ pc = [m \in Messages |-> "new"]
    /\ received = [m \in Messages |-> NoClock]
    /\ next = [m \in Messages |-> NoClock]
    /\ reply = [r \in Requests |-> NoClock]
    /\ wrapped = FALSE
    /\ raced = FALSE

\* The load of hlc_ for m and the value computed from it.
Load(m, remote, t) ==
    /\ next' = [next EXCEPT ![m] = Merge(hlc, remote, t)]
    /\ wrapped' = (wrapped \/ MergeWraps(hlc, remote, t))
    /\ raced' = (raced \/ \E o \in Messages : Updating(o))

Store(m) == hlc' = next[m]

\* A context's thread processes one message at a time up to its merge.
SameThread(m) == IF m \in Requests THEN Requests ELSE Responses

\* ServerProcessHeader_ and ClientProcessHeader_: Merge loads hlc_.
ReceiveHeader(m) ==
    /\ pc[m] = "new"
    /\ \A o \in SameThread(m) : pc[o] # "merge"
    /\ \E c \in Clocks, t \in Times :
         /\ received' = [received EXCEPT ![m] = c]
         /\ Load(m, c, t)
    /\ pc' = [pc EXCEPT ![m] = "merge"]
    /\ UNCHANGED <<hlc, reply>>

\* Merge stores: a request goes on to its handler or is refused, a response
\* is finished as far as the clock is concerned.
MergeStores(m) ==
    /\ pc[m] = "merge"
    /\ Store(m)
    /\ pc' = [pc EXCEPT ![m] = IF m \in Requests THEN "handling" ELSE "done"]
    /\ UNCHANGED <<received, next, reply, wrapped, raced>>

\* The handler answers by itself; the header it makes does not use hlc_.
RequestSucceeds(r) ==
    /\ pc[r] = "handling"
    /\ pc' = [pc EXCEPT ![r] = "done"]
    /\ UNCHANGED <<hlc, received, next, reply, wrapped, raced>>

\* ServerHandleSendErrorResponse_ for a request that was refused, failed or
\* ran out of time, or whose header could not be read: TickLocal loads hlc_.
RequestFails(r) ==
    /\ \/ pc[r] = "new" /\ \A o \in Requests : pc[o] # "merge"
       \/ pc[r] = "handling"
    /\ \E t \in Times : Load(r, hlc, t)
    /\ pc' = [pc EXCEPT ![r] = "tick"]
    /\ UNCHANGED <<hlc, received, reply>>

TickStores(r) ==
    /\ pc[r] = "tick"
    /\ Store(r)
    /\ pc' = [pc EXCEPT ![r] = "copy"]
    /\ UNCHANGED <<received, next, reply, wrapped, raced>>

\* Mutant: the request's clock is sent back.
SendErrorResponseEchoes(r) ==
    /\ pc[r] = "copy"
    /\ reply' = [reply EXCEPT ![r] = received[r]]
    /\ pc' = [pc EXCEPT ![r] = "done"]
    /\ UNCHANGED <<hlc, received, next, wrapped, raced>>

\* hlc_ is copied into the response's header.
SendErrorResponse(r) ==
    /\ pc[r] = "copy"
    /\ reply' = [reply EXCEPT ![r] = hlc]
    /\ pc' = [pc EXCEPT ![r] = "done"]
    /\ UNCHANGED <<hlc, received, next, wrapped, raced>>

Next ==
    \/ \E m \in Messages : ReceiveHeader(m) \/ MergeStores(m)
    \/ \E r \in Requests :
         \/ RequestSucceeds(r)
         \/ RequestFails(r)
         \/ TickStores(r)
         \/ SendErrorResponse(r)

Spec == Init /\ [][Next]_vars

-----------------------------------------------------------------------------

\* Every variable keeps its type.
TypeOK ==
    /\ hlc \in Clocks
    /\ pc \in [Messages -> Points]
    /\ received \in [Messages -> Clocks \cup {NoClock}]
    /\ next \in [Messages -> Clocks \cup {NoClock}]
    /\ reply \in [Requests -> Clocks \cup {NoClock}]
    /\ wrapped \in BOOLEAN
    /\ raced \in BOOLEAN

Ordered == ~wrapped /\ ~raced

\* The worker's clock only goes forward, whatever the wall clock and the
\* clocks in messages do.
ClockAdvances == [][Ordered' => hlc' = hlc \/ Before(hlc, hlc')]_hlc

\* Once a header was merged, hlc_ stays after the clock that came with it,
\* through all later merges and ticks: what the worker does from then on is
\* ordered after what it has heard of.
SeenIsPast ==
    Ordered => \A m \in Messages :
      received[m] # NoClock /\ pc[m] # "merge" => Before(received[m], hlc)

\* An error response is ordered after its request.
ReplyAfterRequest ==
    Ordered => \A r \in Requests :
      reply[r] # NoClock /\ received[r] # NoClock
        => Before(received[r], reply[r])

=============================================================================
