----------------------------- MODULE PythonWake -----------------------------
(***************************************************************************)
(* PythonWakeManager (axon/python/src): C++ threads (Producers) hand       *)
(* completion tasks to Python through a lock-free queue and an eventfd;    *)
(* Python threads, each with an asyncio loop of its own (Loops), run them  *)
(* in ProcessQueue.  There is one manager per process.                     *)
(*                                                                         *)
(* A Python thread inside the manager's C++ code holds the GIL, so it only *)
(* interleaves with producers; while a task runs Python code the GIL may   *)
(* go to another thread.  lpc names the point a thread has reached; it     *)
(* does not hold the GIL at "run", nor while it waits for it or is on its  *)
(* way out of UnregisterAsyncioReader.                                     *)
(***************************************************************************)
EXTENDS Integers, Sequences, FiniteSets

CONSTANTS
    Producers,      \* C++ threads that complete operations
    Loops,          \* Python threads with a running asyncio loop
    Tasks,          \* the completion tasks
    MaxStarts       \* bound on the calls of RegisterAsyncioReader

ASSUME MaxStartsAssumption == MaxStarts \in Nat

ASSUME TasksAssumption == IsFiniteSet(Tasks)

NoLoop == "none"

ASSUME NoLoopAssumption == NoLoop \notin Loops

VARIABLES
    task,           \* per task: new, queued, ran, discarded
    queue,          \* queue_: its items, oldest first
    inactive,       \* queue_ is marked inactive
    eventFd,        \* the counter of event_fd_
    ppc,            \* per producer: about to write to event_fd_ or not
    lpc,            \* per loop: where its thread is in the manager
    batch,          \* per loop: the items ProcessQueue or ClearQueue took
    readerRefCount, \* reader_ref_count_
    reader,         \* per loop: add_reader is in force
    storedLoop,     \* stored_loop_
    started,        \* per loop: components started and not stopped, also those
                    \* whose registration failed
    starts          \* calls of RegisterAsyncioReader so far

queueVars == <<task, queue, inactive, eventFd>>

readerVars == <<readerRefCount, reader, storedLoop, started, starts>>

vars == <<queueVars, ppc, lpc, batch, readerVars>>

-----------------------------------------------------------------------------

\* The points of ProcessQueue, of ClearQueue (which enters at "clearMark")
\* and of the registration.
ProcessPoints == {"mark", "dequeue", "idleCheck"}

ClearPoints == {"clearMark", "clearDequeue", "clearIdleCheck"}

LoopPoints == {"idle", "run", "addReader", "process", "reset", "unregister",
               "crashed"}
                \cup ProcessPoints \cup ClearPoints

\* A thread that is between two steps of the manager's C++ code.
HoldsGil(l) == lpc[l] \in ProcessPoints \cup ClearPoints

GilFree(l) == \A k \in Loops \ {l} : ~HoldsGil(k)

Init ==
    /\ task = [t \in Tasks |-> "new"]
    /\ queue = <<>>
    /\ inactive = TRUE
    /\ eventFd = 0
    /\ ppc = [p \in Producers |-> "idle"]
    /\ lpc = [l \in Loops |-> "idle"]
    /\ batch = [l \in Loops |-> <<>>]
    /\ readerRefCount = 0
    /\ reader = [l \in Loops |-> FALSE]
    /\ storedLoop = NoLoop
    /\ started = [l \in Loops |-> 0]
    /\ starts = 0

-----------------------------------------------------------------------------
(***************************************************************************)
(* Enqueue.                                                                *)
(***************************************************************************)

\* A thread that holds the GIL runs the task at once.
EnqueueInline(t) ==
    /\ task[t] = "new"
    /\ \A l \in Loops : ~HoldsGil(l)
    /\ task' = [task EXCEPT ![t] = "inline"]
    /\ UNCHANGED <<queue, inactive, eventFd, ppc, lpc, batch, readerVars>>

\* Mutant: the wakeup is sent when the queue was active, not inactive.
EnqueueInverted(p, t) ==
    /\ ppc[p] = "idle"
    /\ task[t] = "new"
    /\ task' = [task EXCEPT ![t] = "queued"]
    /\ queue' = Append(queue, t)
    /\ inactive' = FALSE
    /\ ppc' = [ppc EXCEPT ![p] = IF inactive THEN "idle" ELSE "notify"]
    /\ UNCHANGED <<eventFd, lpc, batch, readerVars>>

\* queue_.enqueue: the first to find the queue inactive has to wake Python.
Enqueue(p, t) ==
    /\ ppc[p] = "idle"
    /\ task[t] = "new"
    /\ task' = [task EXCEPT ![t] = "queued"]
    /\ queue' = Append(queue, t)
    /\ inactive' = FALSE
    /\ ppc' = [ppc EXCEPT ![p] = IF inactive THEN "notify" ELSE "idle"]
    /\ UNCHANGED <<eventFd, lpc, batch, readerVars>>

NotifyPython(p) ==
    /\ ppc[p] = "notify"
    /\ eventFd' = eventFd + 1
    /\ ppc' = [ppc EXCEPT ![p] = "idle"]
    /\ UNCHANGED <<task, queue, inactive, lpc, batch, readerVars>>

-----------------------------------------------------------------------------
(***************************************************************************)
(* ProcessQueue and ClearQueue.                                            *)
(***************************************************************************)

\* ProcessQueue begins: the read of event_fd_ resets the counter.  A read that
\* fails (an exception in the code) needs a descriptor that is no eventfd.
ReadEventFd(l) ==
    /\ GilFree(l)
    /\ eventFd' = 0
    /\ lpc' = [lpc EXCEPT ![l] = "mark"]

\* The loop finds event_fd_ readable and calls the registered reader.
ReaderCallback(l) ==
    /\ lpc[l] = "idle"
    /\ reader[l]
    /\ eventFd > 0
    /\ ReadEventFd(l)
    /\ UNCHANGED <<task, queue, inactive, ppc, batch, readerVars>>

\* AxonFuture.__await__ calls _process_wake_queue without waiting.
FastPath(l) ==
    /\ lpc[l] = "idle"
    /\ started[l] > 0
    /\ ReadEventFd(l)
    /\ UNCHANGED <<task, queue, inactive, ppc, batch, readerVars>>

TryMarkActive(l) ==
    /\ lpc[l] \in {"mark", "clearMark"}
    /\ inactive' = FALSE
    /\ lpc' = [lpc EXCEPT ![l] = IF @ = "mark" THEN "dequeue" ELSE "clearDequeue"]
    /\ UNCHANGED <<task, queue, eventFd, ppc, batch, readerVars>>

\* dequeue_all on a queue that is not inactive.
DequeueAll(l) ==
    /\ lpc[l] \in {"dequeue", "clearDequeue"}
    /\ ~inactive
    /\ batch' = [batch EXCEPT ![l] = queue]
    /\ queue' = <<>>
    /\ lpc' = [lpc EXCEPT ![l] =
                 IF lpc[l] = "dequeue"
                   THEN IF queue = <<>> THEN "idleCheck" ELSE "run"
                   ELSE "clearIdleCheck"]
    /\ UNCHANGED <<task, inactive, eventFd, ppc, readerVars>>

\* dequeue_all on an inactive queue: not valid, the marker is taken for a node.
DequeueInactive(l) ==
    /\ lpc[l] \in {"dequeue", "clearDequeue"}
    /\ inactive
    /\ lpc' = [lpc EXCEPT ![l] = "crashed"]
    /\ UNCHANGED <<queueVars, ppc, batch, readerVars>>

\* The task at the head runs to its end, whatever exception it raises.
RunTask(l) ==
    /\ lpc[l] = "run"
    /\ GilFree(l)
    /\ task' = [task EXCEPT ![Head(batch[l])] = "ran"]
    /\ batch' = [batch EXCEPT ![l] = Tail(@)]
    /\ lpc' = [lpc EXCEPT ![l] = IF Len(batch[l]) = 1 THEN "dequeue" ELSE "run"]
    /\ UNCHANGED <<queue, inactive, eventFd, ppc, readerVars>>

\* Mutant: the queue is marked inactive although items have arrived.
TryMarkInactiveUnchecked(l) ==
    /\ lpc[l] = "idleCheck"
    /\ inactive' = TRUE
    /\ lpc' = [lpc EXCEPT ![l] = "idle"]
    /\ UNCHANGED <<task, queue, eventFd, ppc, batch, readerVars>>

\* try_mark_inactive: fails when items have arrived, and the loop goes round.
TryMarkInactive(l) ==
    /\ lpc[l] = "idleCheck"
    /\ IF queue = <<>>
         THEN inactive' = TRUE /\ lpc' = [lpc EXCEPT ![l] = "idle"]
         ELSE UNCHANGED inactive /\ lpc' = [lpc EXCEPT ![l] = "dequeue"]
    /\ UNCHANGED <<task, queue, eventFd, ppc, batch, readerVars>>

\* ClearQueue deletes the nodes of its batch, then tries to go inactive.
DiscardTask(l) ==
    /\ lpc[l] = "clearIdleCheck"
    /\ batch[l] # <<>>
    /\ task' = [task EXCEPT ![Head(batch[l])] = "discarded"]
    /\ batch' = [batch EXCEPT ![l] = Tail(@)]
    /\ lpc' = [lpc EXCEPT ![l] =
                 IF Len(batch[l]) = 1 THEN "clearDequeue" ELSE "clearIdleCheck"]
    /\ UNCHANGED <<queue, inactive, eventFd, ppc, readerVars>>

ClearMarkInactive(l) ==
    /\ lpc[l] = "clearIdleCheck"
    /\ batch[l] = <<>>
    /\ IF queue = <<>>
         THEN inactive' = TRUE /\ lpc' = [lpc EXCEPT ![l] = "idle"]
         ELSE UNCHANGED inactive /\ lpc' = [lpc EXCEPT ![l] = "clearDequeue"]
    /\ UNCHANGED <<task, queue, eventFd, ppc, batch, readerVars>>

ProcessQueue(l) ==
    \/ TryMarkActive(l)
    \/ DequeueAll(l)
    \/ DequeueInactive(l)
    \/ RunTask(l)
    \/ TryMarkInactive(l)
    \/ DiscardTask(l)
    \/ ClearMarkInactive(l)

-----------------------------------------------------------------------------
(***************************************************************************)
(* RegisterAsyncioReader (from start) and UnregisterAsyncioReader (from    *)
(* stop).                                                                  *)
(***************************************************************************)

\* reader_ref_count_.fetch_add, and the early return when the reader is on
\* this loop already; start_server and start_client of one runtime register
\* twice on one loop.
Register(l) ==
    /\ lpc[l] = "idle"
    /\ starts < MaxStarts
    /\ GilFree(l)
    /\ starts' = starts + 1
    /\ started' = [started EXCEPT ![l] = @ + 1]
    /\ readerRefCount' = readerRefCount + 1
    /\ lpc' = [lpc EXCEPT ![l] =
                 IF storedLoop = l /\ readerRefCount > 0 THEN "idle"
                 ELSE "addReader"]
    /\ UNCHANGED <<queueVars, ppc, batch, reader, storedLoop>>

AddReader(l) ==
    /\ lpc[l] = "addReader"
    /\ GilFree(l)
    /\ reader' = [reader EXCEPT ![l] = TRUE]
    /\ storedLoop' = l
    /\ lpc' = [lpc EXCEPT ![l] = "idle"]
    /\ UNCHANGED <<queueVars, ppc, batch, readerRefCount, started, starts>>

\* add_reader raises: the count is decremented again, and start goes on, since
\* it does not look at the result.
AddReaderFails(l) ==
    /\ lpc[l] = "addReader"
    /\ GilFree(l)
    /\ readerRefCount' = readerRefCount - 1
    /\ lpc' = [lpc EXCEPT ![l] = "idle"]
    /\ UNCHANGED <<queueVars, ppc, batch, reader, storedLoop, started, starts>>

\* A Python error before the loop is known: the count is decremented although
\* it was not incremented.
RegisterFails(l) ==
    /\ lpc[l] = "idle"
    /\ starts < MaxStarts
    /\ GilFree(l)
    /\ starts' = starts + 1
    /\ started' = [started EXCEPT ![l] = @ + 1]
    /\ readerRefCount' = readerRefCount - 1
    /\ UNCHANGED <<queueVars, ppc, lpc, batch, reader, storedLoop>>

\* fetch_sub without the GIL.  With more registrations left, what is queued is
\* processed once the thread has the GIL.
UnregisterShared(l) ==
    /\ lpc[l] = "idle"
    /\ started[l] > 0
    /\ readerRefCount > 1
    /\ readerRefCount' = readerRefCount - 1
    /\ started' = [started EXCEPT ![l] = @ - 1]
    /\ lpc' = [lpc EXCEPT ![l] = "process"]
    /\ UNCHANGED <<queueVars, ppc, batch, reader, storedLoop, starts>>

UnregisterProcess(l) ==
    /\ lpc[l] = "process"
    /\ ReadEventFd(l)
    /\ UNCHANGED <<task, queue, inactive, ppc, batch, readerVars>>

\* None was counted: the count is put back to 0 by a store of its own.
UnregisterUncounted(l) ==
    /\ lpc[l] = "idle"
    /\ started[l] > 0
    /\ readerRefCount <= 0
    /\ readerRefCount' = readerRefCount - 1
    /\ started' = [started EXCEPT ![l] = @ - 1]
    /\ lpc' = [lpc EXCEPT ![l] = "reset"]
    /\ UNCHANGED <<queueVars, ppc, batch, reader, storedLoop, starts>>

ResetRefCount(l) ==
    /\ lpc[l] = "reset"
    /\ readerRefCount' = 0
    /\ lpc' = [lpc EXCEPT ![l] = "idle"]
    /\ UNCHANGED <<queueVars, ppc, batch, reader, storedLoop, started, starts>>

\* The last one: the rest is done when the thread gets the GIL.
UnregisterLast(l) ==
    /\ lpc[l] = "idle"
    /\ started[l] > 0
    /\ readerRefCount = 1
    /\ readerRefCount' = 0
    /\ started' = [started EXCEPT ![l] = @ - 1]
    /\ lpc' = [lpc EXCEPT ![l] = "unregister"]
    /\ UNCHANGED <<queueVars, ppc, batch, reader, storedLoop, starts>>

\* remove_reader on the running loop, then ClearQueue.
RemoveReader(l) ==
    /\ lpc[l] = "unregister"
    /\ GilFree(l)
    /\ reader' = [reader EXCEPT ![l] = FALSE]
    /\ lpc' = [lpc EXCEPT ![l] = "clearMark"]
    /\ UNCHANGED <<queueVars, ppc, batch, readerRefCount, storedLoop, started,
                   starts>>

\* stop was called where no loop runs: nothing is removed or cleared.
RemoveReaderFails(l) ==
    /\ lpc[l] = "unregister"
    /\ GilFree(l)
    /\ lpc' = [lpc EXCEPT ![l] = "idle"]
    /\ UNCHANGED <<queueVars, ppc, batch, readerVars>>

Unregister(l) ==
    \/ UnregisterShared(l)
    \/ UnregisterProcess(l)
    \/ UnregisterUncounted(l)
    \/ ResetRefCount(l)
    \/ UnregisterLast(l)
    \/ RemoveReader(l)
    \/ RemoveReaderFails(l)

-----------------------------------------------------------------------------

Next ==
    \/ \E t \in Tasks : EnqueueInline(t)
    \/ \E p \in Producers, t \in Tasks : Enqueue(p, t)
    \/ \E p \in Producers : NotifyPython(p)
    \/ \E l \in Loops :
         \/ ReaderCallback(l)
         \/ FastPath(l)
         \/ ProcessQueue(l)
         \/ Register(l)
         \/ AddReader(l)
         \/ AddReaderFails(l)
         \/ RegisterFails(l)
         \/ Unregister(l)

Spec == Init /\ [][Next]_vars

-----------------------------------------------------------------------------

\* Every variable keeps its type.
TypeOK ==
    /\ task \in [Tasks -> {"new", "queued", "ran", "discarded", "inline"}]
    /\ queue \in Seq(Tasks)
    /\ inactive \in BOOLEAN
    /\ eventFd \in Nat
    /\ ppc \in [Producers -> {"idle", "notify"}]
    /\ lpc \in [Loops -> LoopPoints]
    /\ batch \in [Loops -> Seq(Tasks)]
    /\ readerRefCount \in Int
    /\ reader \in [Loops -> BOOLEAN]
    /\ storedLoop \in Loops \cup {NoLoop}
    /\ started \in [Loops -> Nat]
    /\ starts \in 0 .. MaxStarts

\* A thread that will look at the queue again before it lets go of it.
Draining(l) == lpc[l] \in {"run", "mark", "clearMark", "dequeue", "clearDequeue",
                           "idleCheck", "clearIdleCheck"}

\* The edge-triggered wakeup of Enqueue loses nothing: while a task is queued,
\* the eventfd is readable, a producer is about to write to it, or a thread is
\* still draining, through every order of the read, the marks and the fast
\* path, and also while no reader is registered.
WakeupPending ==
    queue # <<>> => \/ eventFd > 0
                    \/ \E p \in Producers : ppc[p] = "notify"
                    \/ \E l \in Loops : Draining(l) \/ lpc[l] = "crashed"

Crashed == \E l \in Loops : lpc[l] = "crashed"

\* A task that was enqueued and neither run nor discarded is in the queue or in
\* one batch, and nowhere twice: no drain that is cut short by another
\* thread's loses a task or runs it again.
QueuedInOnePlace ==
    \A t \in Tasks :
      Cardinality({i \in DOMAIN queue : queue[i] = t})
        + Cardinality({p \in Loops \X (1 .. Cardinality(Tasks)) :
                         /\ p[2] \in DOMAIN batch[p[1]]
                         /\ batch[p[1]][p[2]] = t})
      = (IF task[t] = "queued" THEN 1 ELSE 0)

\* The two together: Enqueue and ProcessQueue lose no task and run none twice.
NoTaskLost == TypeOK /\ WakeupPending /\ QueuedInOnePlace

-----------------------------------------------------------------------------
(***************************************************************************)
(* Fairness: a producer finishes Enqueue, a thread goes on inside the      *)
(* manager and gets the GIL again and again (the interpreter switches      *)
(* threads), and a loop calls the reader of a descriptor that keeps        *)
(* becoming readable.  Nothing obliges anyone to start, stop or await.     *)
(***************************************************************************)

FairSpec ==
    /\ Spec
    /\ \A p \in Producers : WF_vars(NotifyPython(p))
    /\ \A l \in Loops :
         /\ SF_vars(ProcessQueue(l))
         /\ SF_vars(ReaderCallback(l))
         /\ SF_vars(AddReader(l) \/ AddReaderFails(l) \/ UnregisterProcess(l)
                      \/ ResetRefCount(l) \/ RemoveReader(l)
                      \/ RemoveReaderFails(l))

\* An enqueued task is taken from the queue as long as some loop has a reader.
EnqueuedIsTaken ==
    \A t \in Tasks :
      task[t] = "queued"
        ~> (task[t] # "queued" \/ Crashed \/ \A l \in Loops : ~reader[l])

=============================================================================
