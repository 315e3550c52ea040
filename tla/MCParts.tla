------------------------------- MODULE MCParts -------------------------------
(***************************************************************************)
(* Small parts, each on its own, in one run: the first state picks a part  *)
(* and only that part moves.  A property of a part says nothing of the     *)
(* others; those of WorkerClock hold there because its state is initial.   *)
(***************************************************************************)
EXTENDS WorkerClock, Sequences, TLC

CONSTANTS Workers, ConnIds, MaxSlots, MaxGeneration
CONSTANTS Pushers, Poppers, Nodes, MaxPushes
CONSTANTS FnIds
CONSTANTS Objs, Blocks, MaxParts
CONSTANTS MaxRequests, MaxNexts
CONSTANTS BufSize, MaxBytes
CONSTANTS Names, MaxStored
CONSTANTS Calls, MaxSize, MaxLoopErrors

\* The streams have buffers.
ASSUME BufSizeAssumption == BufSize \in Nat \ {0}

\* A null pointer is no block of memory.
ASSUME NullAssumption == "null" \notin Blocks

\* The queue is made with a dummy node, and null is not the address of one.
ASSUME QueueAssumption ==
    Nodes # {} /\ "null" \notin Nodes /\ MaxPushes \in Nat

VARIABLES part
VARIABLES sm, slotOf, latest, gone, lost, cleared
VARIABLES q, thr, pushed, popped, touched
VARIABLES kind, fns, sigs, handlers, attempts, orphans
VARIABLES heap, wrong, objs, users, context, leaked, twice
VARIABLES listener, requests, accepting, settled, nexts, stream
VARIABLES file, short, out, in, produced, consumed
VARIABLES incoming, arrival, files, saved
VARIABLES loop, failures, call, answer, desc, result

\* Functions with up to two arguments, one payload and one builder at most.
ArgKinds == {"int", "tensor", "tensorVec", "buf", "vec", "builder"}
ArgSeqs ==
    {args \in UNION {[1 .. n -> ArgKinds] : n \in 0 .. 2} :
       /\ Cardinality({i \in DOMAIN args : args[i] \in {"buf", "vec"}}) <= 1
       /\ Cardinality({i \in DOMAIN args : args[i] = "builder"}) <= 1}
MCFunctions ==
    [args : ArgSeqs,
     ret : {<<>>, <<"int">>, <<"tensor", "buf">>, <<"tensor", "tensor">>},
     dyn : BOOLEAN]

RW == INSTANCE RemoteWorkers
LQ == INSTANCE LockFreeQueue
RD == INSTANCE RpcDispatch WITH Functions <- MCFunctions
MM == INSTANCE MessageMemory
LS == INSTANCE Listener WITH next <- accepting
FS == INSTANCE FileStreams
ST == INSTANCE StoredMessages
CR == INSTANCE ClientResponses

workerVars == <<sm, slotOf, latest, gone, lost, cleared>>
queueVars == <<q, thr, pushed, popped, touched>>
dispatchVars == <<kind, fns, sigs, handlers, attempts, orphans>>
memoryVars == <<heap, wrong, objs, users, context, leaked, twice>>
listenerVars == <<listener, requests, accepting, settled, nexts, stream>>
fileVars == <<file, short, out, in, produced, consumed>>
clockVars == vars
answerVars == <<loop, failures, call, answer, desc, result>>
storageVars == <<incoming, arrival, files, saved>>

Parts == {"workers", "queue", "dispatch", "memory", "listener",
          "files", "storage", "clock", "answers"}

\* Places and blocks are interchangeable, and so are requests; the action
\* property that is checked with the symmetry is symmetric itself.
Symmetry ==
    Permutations(Objs) \cup Permutations(Blocks) \cup Permutations(Requests)

PartsInit ==
    /\ part \in Parts
    /\ RW!RwInit /\ LQ!QInit /\ RD!RdInit /\ MM!MmInit
    /\ LS!LsInit /\ FS!FsInit /\ ST!StInit /\ CR!CrInit /\ Init
    /\ part # "dispatch" => kind = "sync"
    /\ part # "storage" => incoming.params = <<>> /\ incoming.header.function_id = 1
    /\ part # "clock" => hlc = Now(0)

Rest(p) ==
    /\ p # "workers" => UNCHANGED workerVars
    /\ p # "queue" => UNCHANGED queueVars
    /\ p # "dispatch" => UNCHANGED dispatchVars
    /\ p # "memory" => UNCHANGED memoryVars
    /\ p # "listener" => UNCHANGED listenerVars
    /\ p # "files" => UNCHANGED fileVars
    /\ p # "storage" => UNCHANGED storageVars
    /\ p # "clock" => UNCHANGED clockVars
    /\ p # "answers" => UNCHANGED answerVars

PartsNext ==
    /\ UNCHANGED part
    /\ \/ part = "workers" /\ RW!RwNext /\ Rest("workers")
       \/ part = "queue" /\ LQ!QNext /\ Rest("queue")
       \/ part = "dispatch" /\ RD!RdNext /\ Rest("dispatch")
       \/ part = "memory" /\ MM!MmNext /\ Rest("memory")
       \/ part = "listener" /\ LS!LsNext /\ Rest("listener")
       \/ part = "files" /\ FS!FsNext /\ Rest("files")
       \/ part = "storage" /\ ST!StNext /\ Rest("storage")
       \/ part = "clock" /\ Next /\ Rest("clock")
       \/ part = "answers" /\ CR!CrNext /\ Rest("answers")

partsVars == <<part, workerVars, queueVars, dispatchVars, memoryVars,
          listenerVars, fileVars, storageVars,
          clockVars, answerVars>>

PartsSpec == PartsInit /\ [][PartsNext]_partsVars

\* A key finds the worker it was made for and no other, whatever was erased
\* and connected since, and no slot is lost or handed out twice
\* (RemoteWorkers, of SlotMap).
CallReachesNamedWorker ==
    part = "workers" => RW!CallReachesNamedWorker /\ RW!FreeListExact

\* One thread gets back what it pushed, in that order (LockFreeQueue).
FirstInFirstOut == part = "queue" => LQ!FirstInFirstOut

\* A request that passes validation calls its function with the parameters and
\* the payload it takes, and what it returns is packed as its signature says
\* (RpcDispatch, of RpcDispatcher).
SignatureKept ==
    part = "dispatch" => RD!ValidatedRequestFits /\ RD!AnswerFitsSignature

\* A block of memory belongs to one object at a time and is freed with it
\* (MessageMemory, of UcxBuffer and its relatives).
OneOwner == part = "memory" => MM!OneOwner

\* axon_worker.cpp, where a request is refused: "Header ownership is transferred
\* to the caller, so we don't need to release the header".  No memory of a
\* message is freed twice.
NeverFreedTwice == part = "memory" => MM!NeverFreedTwice

\* A connection request is given out or rejected (Listener, of
\* accept_connection).
RequestsAnswered == part = "listener" => LS!RequestsAnswered

\* A file gives back the bytes written, in order (FileStreams, of
\* UnifexOutputStream and UnifexInputStream).
BytesInOrder == part = "files" => FS!BytesInOrder

\* A file gives back the requests saved to it (StoredMessages, of AxonStorage).
LoadRestores == part = "storage" => ST!LoadRestores

\* An answer reaches its caller whole, in the parts it asked for
\* (ClientResponses, of ClientResponseHandlerVisitor_).
AnswerIntact == part = "answers" => CR!AnswerIntact
=============================================================================
