------------------------------ MODULE EventLoop ------------------------------
(***************************************************************************)
(* The run loop of ucx_am_context (ucx_am_context.cpp, run_impl) and the   *)
(* remote threads that hand operations to it.                              *)
(*                                                                         *)
(* One thread, the I/O thread, runs the loop; pc names the point it has    *)
(* reached.  Other threads (Producers) call schedule_remote.  The remote   *)
(* queue, remoteQueueEventEntry_ and the completion ring are shared, so a  *)
(* producer's call and the places where the I/O thread touches shared      *)
(* memory are split at every atomic access; everything the I/O thread does *)
(* to its own data in between is one step.                                 *)
(*                                                                         *)
(* An operation is a schedule_sender operation (a task), a recv_sender     *)
(* operation or the stop_operation of run().  Timers, cancellation and the *)
(* other senders are not part of this module.                              *)
(***************************************************************************)
EXTENDS Integers, Sequences, FiniteSets

CONSTANTS
    Producers,      \* threads other than the I/O thread
    RemoteTasks,    \* schedule_sender operations started on a producer
    LocalTasks,     \* schedule_sender operations started on the I/O thread
    RecvOps,        \* recv_sender operations, started on a producer
    StopOp,         \* run()'s stop_operation
    CqEntryCount,   \* kCompletionQueueEntryCount
    MaxMessages     \* bound on the active messages that arrive

RemoteOps == RemoteTasks \cup RecvOps \cup {StopOp}

Ops == RemoteOps \cup LocalTasks

\* The user_data of the completion entry a producer posts.
RemoteQueueEvent == "remote_queue_event"

\* A slot of the ring that was never written; no operation.
Unused == "unused"

Entries == Ops \cup {RemoteQueueEvent, Unused}

ASSUME CqEntryCountAssumption == CqEntryCount \in Nat \ {0}

ASSUME MaxMessagesAssumption == MaxMessages \in Nat

ASSUME RecvOpsAssumption == IsFiniteSet(RecvOps)

ASSUME OpsAssumption ==
    /\ RemoteQueueEvent \notin Ops
    /\ Unused \notin Ops
    /\ StopOp \notin RemoteTasks \cup RecvOps \cup LocalTasks
    /\ RemoteTasks \cap RecvOps = {}
    /\ LocalTasks \cap (RemoteTasks \cup RecvOps) = {}

VARIABLES
    pc,                     \* where the I/O thread is in run_impl
    phase,                  \* per operation: what its execute_ will do next
    batch,                  \* the queue execute_pending_local moved aside
    localQueue,             \* localQueue_
    pendingIoQueue,         \* pendingIoQueue_
    pendingRecvIoQueue,     \* pendingRecvIoQueue_
    amDescQueue,            \* amDescQueue_: how each arrived message will go
    arrived,                \* messages that have arrived so far
    remoteQueue,            \* remoteQueue_: its items, oldest first
    inactive,               \* remoteQueue_: marked inactive
    remoteQueueEventEntry,  \* remoteQueueEventEntry_
    remoteQueueReadSubmitted,
    sqUnflushedCount,
    cqPendingCount,
    cqEntries,              \* cqEntries_, the user_data of each slot
    cqHead,
    cqTail,
    cqEnd,                  \* the cqTail acquire_completion_queue_items loaded
    shouldStop,
    post,                   \* the completion the I/O thread is posting
    ppc,                    \* per producer: where it is in schedule_remote
    ptail,                  \* per producer: the cqTail_ it has loaded
    torn,                   \* history: two updates of cqTail_ overlapped
    lateReset               \* history: a registration lost its entry flag

ioVars == <<pc, phase, batch, localQueue, pendingIoQueue, pendingRecvIoQueue,
            amDescQueue, arrived, shouldStop, post>>

countVars == <<remoteQueueReadSubmitted, sqUnflushedCount, cqPendingCount>>

cqVars == <<cqEntries, cqHead, cqTail, cqEnd>>

remoteVars == <<remoteQueue, inactive, remoteQueueEventEntry>>

producerVars == <<ppc, ptail>>

historyVars == <<torn, lateReset>>

vars == <<ioVars, countVars, cqVars, remoteVars, producerVars, historyVars>>

-----------------------------------------------------------------------------

LoopPoints == {"top", "exec", "cq", "drain", "remote", "pend", "idle",
               "mark", "progress", "post", "stopped", "overrun"}

ProducerPoints == {"idle", "loadEntry", "loadTail", "write", "store", "reset"}

\* "queued": execute_ starts the operation; "start": execute_ runs start_io
\* again; "inflight": UCX holds the request; "complete": execute_ delivers the
\* result; "done": delivered.
Phases == {"new", "queued", "start", "inflight", "complete", "done"}

\* How a message's receive will go: its data is in hand (eager), has to be
\* fetched (rndv), or its connection has been removed meanwhile (gone).
MessageKinds == {"eager", "rndv", "gone"}

NoPost == [op |-> Unused, tail |-> 0, ret |-> "top"]

Slot(i) == i % CqEntryCount

Init ==
    /\ pc = "progress"
    /\ phase = [o \in Ops |-> "new"]
    /\ batch = <<>>
    /\ localQueue = <<>>
    /\ pendingIoQueue = <<>>
    /\ pendingRecvIoQueue = <<>>
    /\ amDescQueue = <<>>
    /\ arrived = 0
    /\ remoteQueue = <<>>
    /\ inactive = FALSE
    /\ remoteQueueEventEntry = FALSE
    /\ remoteQueueReadSubmitted = FALSE
    /\ sqUnflushedCount = 0
    /\ cqPendingCount = 0
    /\ cqEntries = [s \in 0 .. CqEntryCount - 1 |-> Unused]
    /\ cqHead = 0
    /\ cqTail = 0
    /\ cqEnd = 0
    /\ shouldStop = FALSE
    /\ post = NoPost
    /\ ppc = [p \in Producers |-> "idle"]
    /\ ptail = [p \in Producers |-> 0]
    /\ torn = FALSE
    /\ lateReset = FALSE

-----------------------------------------------------------------------------
(***************************************************************************)
(* Producers: schedule_remote, signal_remote_queue and                     *)
(* submit_remote_queue_event, one step per atomic access.                  *)
(***************************************************************************)

\* Mutant: every producer signals, also when the queue was active.
ScheduleRemoteSignalsAlways(p, o) ==
    /\ ppc[p] = "idle"
    /\ phase[o] = "new"
    /\ phase' = [phase EXCEPT ![o] = "queued"]
    /\ remoteQueue' = Append(remoteQueue, o)
    /\ inactive' = FALSE
    /\ ppc' = [ppc EXCEPT ![p] = "loadEntry"]
    /\ UNCHANGED <<pc, batch, localQueue, pendingIoQueue, pendingRecvIoQueue,
                   amDescQueue, arrived, shouldStop, post, countVars, cqVars,
                   remoteQueueEventEntry, ptail, historyVars>>

\* remoteQueue_.enqueue(op): true when the queue was marked inactive.
ScheduleRemote(p, o) ==
    /\ ppc[p] = "idle"
    /\ phase[o] = "new"
    /\ phase' = [phase EXCEPT ![o] = "queued"]
    /\ remoteQueue' = Append(remoteQueue, o)
    /\ inactive' = FALSE
    /\ ppc' = [ppc EXCEPT ![p] = IF inactive THEN "loadEntry" ELSE "idle"]
    /\ UNCHANGED <<pc, batch, localQueue, pendingIoQueue, pendingRecvIoQueue,
                   amDescQueue, arrived, shouldStop, post, countVars, cqVars,
                   remoteQueueEventEntry, ptail, historyVars>>

SignalLoadEntry(p) ==
    /\ ppc[p] = "loadEntry"
    /\ ppc' = [ppc EXCEPT ![p] =
                 IF remoteQueueEventEntry THEN "loadTail" ELSE "idle"]
    /\ UNCHANGED <<ioVars, countVars, cqVars, remoteVars, ptail, historyVars>>

SubmitEventLoadTail(p) ==
    /\ ppc[p] = "loadTail"
    /\ ptail' = [ptail EXCEPT ![p] = cqTail]
    /\ ppc' = [ppc EXCEPT ![p] = "write"]
    /\ UNCHANGED <<ioVars, countVars, cqVars, remoteVars, historyVars>>

SubmitEventWrite(p) ==
    /\ ppc[p] = "write"
    /\ cqEntries' = [cqEntries EXCEPT ![Slot(ptail[p])] = RemoteQueueEvent]
    /\ torn' = (torn \/ ptail[p] # cqTail)
    /\ ppc' = [ppc EXCEPT ![p] = "store"]
    /\ UNCHANGED <<ioVars, countVars, cqHead, cqTail, cqEnd, remoteVars, ptail,
                   lateReset>>

SubmitEventStoreTail(p) ==
    /\ ppc[p] = "store"
    /\ cqTail' = ptail[p] + 1
    /\ torn' = (torn \/ ptail[p] # cqTail)
    /\ ppc' = [ppc EXCEPT ![p] = "reset"]
    /\ UNCHANGED <<ioVars, countVars, cqEntries, cqHead, cqEnd, remoteVars, ptail,
                   lateReset>>

\* The flag is cleared only now, after the event could be consumed.
SignalResetEntry(p) ==
    /\ ppc[p] = "reset"
    /\ remoteQueueEventEntry' = FALSE
    /\ lateReset' = (lateReset \/ inactive
                               \/ \E q \in Producers : ppc[q] = "loadEntry")
    /\ ppc' = [ppc EXCEPT ![p] = "idle"]
    /\ UNCHANGED <<ioVars, countVars, cqVars, remoteQueue, inactive, ptail,
                   torn>>

SignalRemoteQueue(p) ==
    \/ SignalLoadEntry(p)
    \/ SubmitEventLoadTail(p)
    \/ SubmitEventWrite(p)
    \/ SubmitEventStoreTail(p)
    \/ SignalResetEntry(p)

-----------------------------------------------------------------------------
(***************************************************************************)
(* The I/O thread.                                                         *)
(***************************************************************************)

CanSubmitIo ==
    /\ sqUnflushedCount < CqEntryCount
    /\ cqPendingCount + sqUnflushedCount < CqEntryCount

\* execute_pending_local moves the whole local queue aside.
ExecutePendingLocal ==
    /\ pc = "top"
    /\ batch' = localQueue
    /\ localQueue' = <<>>
    /\ pc' = "exec"
    /\ UNCHANGED <<phase, pendingIoQueue, pendingRecvIoQueue, amDescQueue,
                   arrived, shouldStop, post, countVars, cqVars, remoteVars,
                   producerVars, historyVars>>

\* schedule_sender's execute_impl: the receiver runs and may schedule another
\* task from the I/O thread (schedule_impl, schedule_local).
ExecuteTask ==
    /\ pc = "exec"
    /\ batch # <<>>
    /\ Head(batch) \in RemoteTasks \cup LocalTasks
    /\ \/ /\ phase' = [phase EXCEPT ![Head(batch)] = "done"]
          /\ UNCHANGED localQueue
       \/ \E o \in LocalTasks :
            /\ phase[o] = "new"
            /\ phase' = [phase EXCEPT ![Head(batch)] = "done", ![o] = "queued"]
            /\ localQueue' = Append(localQueue, o)
    /\ batch' = Tail(batch)
    /\ UNCHANGED <<pc, pendingIoQueue, pendingRecvIoQueue, amDescQueue,
                   arrived, shouldStop, post, countVars, cqVars, remoteVars,
                   producerVars, historyVars>>

ExecuteStop ==
    /\ pc = "exec"
    /\ batch # <<>>
    /\ Head(batch) = StopOp
    /\ phase' = [phase EXCEPT ![StopOp] = "done"]
    /\ shouldStop' = TRUE
    /\ batch' = Tail(batch)
    /\ UNCHANGED <<pc, localQueue, pendingIoQueue, pendingRecvIoQueue,
                   amDescQueue, arrived, post, countVars, cqVars, remoteVars,
                   producerVars, historyVars>>

\* recv_sender's on_read_complete.
ExecuteReadComplete ==
    /\ pc = "exec"
    /\ batch # <<>>
    /\ Head(batch) \in RecvOps
    /\ phase[Head(batch)] = "complete"
    /\ phase' = [phase EXCEPT ![Head(batch)] = "done"]
    /\ batch' = Tail(batch)
    /\ UNCHANGED <<pc, localQueue, pendingIoQueue, pendingRecvIoQueue,
                   amDescQueue, arrived, shouldStop, post, countVars, cqVars,
                   remoteVars, producerVars, historyVars>>

\* recv_sender's start_io: submission is refused, the operation waits.
StartIoRefused(o) ==
    /\ ~CanSubmitIo
    /\ phase' = [phase EXCEPT ![o] = "start"]
    /\ UNCHANGED <<pc, pendingRecvIoQueue, amDescQueue, sqUnflushedCount,
                   cqPendingCount, post>>

\* Mutant: a parked receive keeps its slot.
StartIoNoMessageKeepsSlot(o) ==
    /\ CanSubmitIo
    /\ amDescQueue = <<>>
    /\ phase' = [phase EXCEPT ![o] = "start"]
    /\ pendingRecvIoQueue' = <<o>> \o pendingRecvIoQueue
    /\ sqUnflushedCount' = sqUnflushedCount + 1
    /\ UNCHANGED <<pc, amDescQueue, cqPendingCount, post>>

\* start_io with no message: parked at the front, the slot is given back.
StartIoNoMessage(o) ==
    /\ CanSubmitIo
    /\ amDescQueue = <<>>
    /\ phase' = [phase EXCEPT ![o] = "start"]
    /\ pendingRecvIoQueue' = <<o>> \o pendingRecvIoQueue
    /\ UNCHANGED <<pc, amDescQueue, sqUnflushedCount, cqPendingCount, post>>

\* Mutant: the slot of an eager receive is not given back.
StartIoEagerKeepsSlot(o) ==
    /\ CanSubmitIo
    /\ amDescQueue # <<>>
    /\ Head(amDescQueue) = "eager"
    /\ phase' = [phase EXCEPT ![o] = "done"]
    /\ amDescQueue' = Tail(amDescQueue)
    /\ sqUnflushedCount' = sqUnflushedCount + 1
    /\ UNCHANGED <<pc, pendingRecvIoQueue, cqPendingCount, post>>

\* start_io with an eager message: on_read_complete runs inline, after the
\* decrement and before the increment of sqUnflushedCount_; the two are one
\* step here, so that what the receiver submits meanwhile comes after it.
StartIoEager(o) ==
    /\ CanSubmitIo
    /\ amDescQueue # <<>>
    /\ Head(amDescQueue) = "eager"
    /\ phase' = [phase EXCEPT ![o] = "done"]
    /\ amDescQueue' = Tail(amDescQueue)
    /\ UNCHANGED <<pc, pendingRecvIoQueue, sqUnflushedCount, cqPendingCount,
                   post>>

\* start_io with a rendezvous message whose transfer is now in flight.
StartIoRndv(o) ==
    /\ CanSubmitIo
    /\ amDescQueue # <<>>
    /\ Head(amDescQueue) = "rndv"
    /\ phase' = [phase EXCEPT ![o] = "inflight"]
    /\ amDescQueue' = Tail(amDescQueue)
    /\ sqUnflushedCount' = sqUnflushedCount + 1
    /\ UNCHANGED <<pc, pendingRecvIoQueue, cqPendingCount, post>>

\* start_io that posts its own completion while it submits: the transfer is
\* complete at once, or the connection is gone, which runs start_io again.
\* get_completion_queue_entry takes the slot from sqUnflushedCount_ before
\* try_submit_io adds it there.
StartIoPosts(o, ret) ==
    /\ CanSubmitIo
    /\ amDescQueue # <<>>
    /\ Head(amDescQueue) \in {"rndv", "gone"}
    /\ phase' = [phase EXCEPT ![o] =
                   IF Head(amDescQueue) = "gone" THEN "start" ELSE "complete"]
    /\ amDescQueue' = Tail(amDescQueue)
    /\ cqPendingCount' = cqPendingCount + 1
    /\ post' = [op |-> o, tail |-> cqTail, ret |-> ret]
    /\ pc' = "post"
    /\ UNCHANGED <<pendingRecvIoQueue, sqUnflushedCount>>

StartIoAdmitted(o, ret) ==
    \/ StartIoNoMessage(o)
    \/ StartIoEager(o)
    \/ StartIoRndv(o)
    \/ StartIoPosts(o, ret)

\* A receive taken from the local queue.
ExecuteStartIo ==
    /\ pc = "exec"
    /\ batch # <<>>
    /\ Head(batch) \in RecvOps
    /\ phase[Head(batch)] \in {"queued", "start"}
    /\ \/ /\ StartIoRefused(Head(batch))
          /\ pendingIoQueue' = Append(pendingIoQueue, Head(batch))
       \/ /\ StartIoAdmitted(Head(batch), "exec")
          /\ UNCHANGED pendingIoQueue
    /\ batch' = Tail(batch)
    /\ UNCHANGED <<localQueue, arrived, shouldStop, remoteQueueReadSubmitted,
                   cqVars, remoteVars, producerVars, historyVars>>

\* The batch is finished; run_impl leaves the loop when shouldStop is set.
BatchFinished ==
    /\ pc = "exec"
    /\ batch = <<>>
    /\ pc' = IF shouldStop THEN "stopped" ELSE "cq"
    /\ UNCHANGED <<phase, batch, localQueue, pendingIoQueue,
                   pendingRecvIoQueue, amDescQueue, arrived, shouldStop, post,
                   countVars, cqVars, remoteVars, producerVars, historyVars>>

\* acquire_completion_queue_items loads the tail once; the loop that follows
\* takes one entry per step.  The code stores cqHead_ and subtracts count from
\* cqPendingCount_ after the loop; nobody else reads either, so the model
\* advances both entry by entry.
LoadCompletionQueueTail ==
    /\ pc = "cq"
    /\ cqTail - cqHead \in 0 .. CqEntryCount
    /\ cqEnd' = cqTail
    /\ pc' = IF cqHead = cqTail THEN "remote" ELSE "drain"
    /\ UNCHANGED <<phase, batch, localQueue, pendingIoQueue,
                   pendingRecvIoQueue, amDescQueue, arrived, shouldStop, post,
                   countVars, cqEntries, cqHead, cqTail, remoteVars,
                   producerVars, historyVars>>

\* The remote queue's event: the count it never entered is not reduced.
TakeRemoteQueueEvent ==
    /\ cqEntries[Slot(cqHead)] = RemoteQueueEvent
    /\ remoteQueueReadSubmitted' = FALSE
    /\ sqUnflushedCount' = sqUnflushedCount - 1
    /\ UNCHANGED <<localQueue, cqPendingCount>>

\* An operation's completion: its execute_ runs with the next batch.
TakeOpCompletion ==
    /\ cqEntries[Slot(cqHead)] \in Ops
    /\ localQueue' = Append(localQueue, cqEntries[Slot(cqHead)])
    /\ cqPendingCount' = cqPendingCount - 1
    /\ UNCHANGED <<remoteQueueReadSubmitted, sqUnflushedCount>>

AcquireCompletionQueueItem ==
    /\ pc = "drain"
    /\ TakeRemoteQueueEvent \/ TakeOpCompletion
    /\ cqHead' = cqHead + 1
    /\ pc' = IF cqHead + 1 = cqEnd THEN "remote" ELSE "drain"
    /\ UNCHANGED <<phase, batch, pendingIoQueue, pendingRecvIoQueue,
                   amDescQueue, arrived, shouldStop, post, cqEntries, cqTail,
                   cqEnd, remoteVars, producerVars, historyVars>>

\* UNIFEX_ASSERT(count <= cqEntryCount_) fails: cqTail_ - cqHead_, an unsigned
\* difference, is out of range.  The model ends here.
CompletionCountOverrun ==
    /\ pc = "cq"
    /\ cqTail - cqHead \notin 0 .. CqEntryCount
    /\ pc' = "overrun"
    /\ UNCHANGED <<phase, batch, localQueue, pendingIoQueue,
                   pendingRecvIoQueue, amDescQueue, arrived, shouldStop, post,
                   countVars, cqVars, remoteVars, producerVars, historyVars>>

\* Mutant: the items are taken in the order of the atomic list, newest first.
AcquireRemoteQueuedItemsReversed ==
    /\ pc = "remote"
    /\ IF remoteQueueReadSubmitted
         THEN UNCHANGED <<localQueue, remoteQueue>>
         ELSE /\ localQueue' = localQueue \o
                   [i \in DOMAIN remoteQueue |->
                      remoteQueue[Len(remoteQueue) + 1 - i]]
              /\ remoteQueue' = <<>>
    /\ pc' = "pend"
    /\ UNCHANGED <<phase, batch, pendingIoQueue, pendingRecvIoQueue,
                   amDescQueue, arrived, shouldStop, post, countVars, cqVars,
                   inactive, remoteQueueEventEntry, producerVars, historyVars>>

\* acquire_remote_queued_items, skipped while a notification is registered.
AcquireRemoteQueuedItems ==
    /\ pc = "remote"
    /\ IF remoteQueueReadSubmitted
         THEN UNCHANGED <<localQueue, remoteQueue>>
         ELSE /\ localQueue' = localQueue \o remoteQueue
              /\ remoteQueue' = <<>>
    /\ pc' = "pend"
    /\ UNCHANGED <<phase, batch, pendingIoQueue, pendingRecvIoQueue,
                   amDescQueue, arrived, shouldStop, post, countVars, cqVars,
                   inactive, remoteQueueEventEntry, producerVars, historyVars>>

\* One turn of the loop over pendingIoQueue_; as in a batch, execute_ decides
\* what runs, and it is start_io for every operation that is put there.
ExecutePendingIo ==
    /\ pc = "pend"
    /\ pendingIoQueue # <<>>
    /\ phase[Head(pendingIoQueue)] = "start"
    /\ StartIoAdmitted(Head(pendingIoQueue), "pend")
    /\ pendingIoQueue' = Tail(pendingIoQueue)
    /\ UNCHANGED <<batch, localQueue, arrived, shouldStop,
                   remoteQueueReadSubmitted, cqVars, remoteVars, producerVars,
                   historyVars>>

PendingIoFinished ==
    /\ pc = "pend"
    /\ pendingIoQueue = <<>> \/ ~CanSubmitIo
    /\ pc' = "idle"
    /\ UNCHANGED <<phase, batch, localQueue, pendingIoQueue,
                   pendingRecvIoQueue, amDescQueue, arrived, shouldStop, post,
                   countVars, cqVars, remoteVars, producerVars, historyVars>>

WantsNotification ==
    /\ sqUnflushedCount = 0
    /\ localQueue = <<>>
    /\ ~remoteQueueReadSubmitted
    /\ CanSubmitIo

\* try_register_remote_queue_notification, first half: arm the entry.
RegisterArm ==
    /\ pc = "idle"
    /\ IF WantsNotification
         THEN pc' = "mark" /\ remoteQueueEventEntry' = TRUE
         ELSE pc' = "progress" /\ UNCHANGED remoteQueueEventEntry
    /\ UNCHANGED <<phase, batch, localQueue, pendingIoQueue,
                   pendingRecvIoQueue, amDescQueue, arrived, shouldStop, post,
                   countVars, cqVars, remoteQueue, inactive, producerVars,
                   historyVars>>

\* Mutant: run_impl does not keep the result of a successful registration.
RegisterMarkInactiveForgotten ==
    /\ pc = "mark"
    /\ remoteQueue = <<>>
    /\ inactive' = TRUE
    /\ sqUnflushedCount' = sqUnflushedCount + 1
    /\ pc' = "progress"
    /\ UNCHANGED <<phase, batch, localQueue, pendingIoQueue,
                   pendingRecvIoQueue, amDescQueue, arrived, shouldStop, post,
                   remoteQueueReadSubmitted, cqPendingCount, cqVars,
                   remoteQueue, remoteQueueEventEntry, producerVars,
                   historyVars>>

\* Mutant: the queue is marked inactive without looking whether it is empty.
RegisterMarkInactiveUnchecked ==
    /\ pc = "mark"
    /\ inactive' = TRUE
    /\ remoteQueueReadSubmitted' = TRUE
    /\ sqUnflushedCount' = sqUnflushedCount + 1
    /\ lateReset' = (lateReset \/ ~remoteQueueEventEntry)
    /\ pc' = "progress"
    /\ UNCHANGED <<phase, batch, localQueue, pendingIoQueue,
                   pendingRecvIoQueue, amDescQueue, arrived, shouldStop, post,
                   cqPendingCount, cqVars, remoteQueue, remoteQueueEventEntry,
                   producerVars, torn>>

\* try_mark_inactive_or_dequeue_all found the queue empty: registered.
RegisterMarkInactive ==
    /\ pc = "mark"
    /\ remoteQueue = <<>>
    /\ inactive' = TRUE
    /\ remoteQueueReadSubmitted' = TRUE
    /\ sqUnflushedCount' = sqUnflushedCount + 1
    /\ lateReset' = (lateReset \/ ~remoteQueueEventEntry)
    /\ pc' = "progress"
    /\ UNCHANGED <<phase, batch, localQueue, pendingIoQueue,
                   pendingRecvIoQueue, amDescQueue, arrived, shouldStop, post,
                   cqPendingCount, cqVars, remoteQueue, remoteQueueEventEntry,
                   producerVars, torn>>

\* Mutant: populateRemoteQueueSqe returns true although it found items.
RegisterDequeueAllRegisters ==
    /\ pc = "mark"
    /\ remoteQueue # <<>>
    /\ remoteQueueEventEntry' = FALSE
    /\ localQueue' = localQueue \o remoteQueue
    /\ remoteQueue' = <<>>
    /\ remoteQueueReadSubmitted' = TRUE
    /\ sqUnflushedCount' = sqUnflushedCount + 1
    /\ pc' = "progress"
    /\ UNCHANGED <<phase, batch, pendingIoQueue, pendingRecvIoQueue,
                   amDescQueue, arrived, shouldStop, post, cqPendingCount,
                   cqVars, inactive, producerVars, historyVars>>

\* It found items instead: disarm, take them, do not register.
RegisterDequeueAll ==
    /\ pc = "mark"
    /\ remoteQueue # <<>>
    /\ remoteQueueEventEntry' = FALSE
    /\ localQueue' = localQueue \o remoteQueue
    /\ remoteQueue' = <<>>
    /\ pc' = "progress"
    /\ UNCHANGED <<phase, batch, pendingIoQueue, pendingRecvIoQueue,
                   amDescQueue, arrived, shouldStop, post, countVars, cqVars,
                   inactive, producerVars, historyVars>>

\* Mutant: pop_front is missing, the woken receive stays parked as well.
AmRecvCallbackNoPop ==
    /\ pc = "progress"
    /\ arrived < MaxMessages
    /\ arrived' = arrived + 1
    /\ \E kind \in MessageKinds : amDescQueue' = Append(amDescQueue, kind)
    /\ IF pendingRecvIoQueue = <<>>
         THEN UNCHANGED pendingIoQueue
         ELSE pendingIoQueue' = <<Head(pendingRecvIoQueue)>> \o pendingIoQueue
    /\ UNCHANGED <<pc, phase, batch, localQueue, pendingRecvIoQueue,
                   shouldStop, post, countVars, cqVars, remoteVars,
                   producerVars, historyVars>>

\* am_recv_callback, run by ucp_worker_progress: queue the message and wake
\* the receive at the front of pendingRecvIoQueue_.
AmRecvCallback ==
    /\ pc = "progress"
    /\ arrived < MaxMessages
    /\ arrived' = arrived + 1
    /\ \E kind \in MessageKinds : amDescQueue' = Append(amDescQueue, kind)
    /\ IF pendingRecvIoQueue = <<>>
         THEN UNCHANGED <<pendingIoQueue, pendingRecvIoQueue>>
         ELSE /\ pendingIoQueue' = <<Head(pendingRecvIoQueue)>> \o pendingIoQueue
              /\ pendingRecvIoQueue' = Tail(pendingRecvIoQueue)
    /\ UNCHANGED <<pc, phase, batch, localQueue, shouldStop, post, countVars,
                   cqVars, remoteVars, producerVars, historyVars>>

\* A transfer finishes in ucp_worker_progress; its callback takes a completion
\* entry (get_completion_queue_entry) and has loaded cqTail_.
RequestCallback(o) ==
    /\ pc = "progress"
    /\ phase[o] = "inflight"
    /\ phase' = [phase EXCEPT ![o] = "complete"]
    /\ sqUnflushedCount' = sqUnflushedCount - 1
    /\ cqPendingCount' = cqPendingCount + 1
    /\ post' = [op |-> o, tail |-> cqTail, ret |-> "progress"]
    /\ pc' = "post"
    /\ UNCHANGED <<batch, localQueue, pendingIoQueue, pendingRecvIoQueue,
                   amDescQueue, arrived, shouldStop, remoteQueueReadSubmitted,
                   cqVars, remoteVars, producerVars, historyVars>>

ProgressFinished ==
    /\ pc = "progress"
    /\ pc' = "top"
    /\ UNCHANGED <<phase, batch, localQueue, pendingIoQueue,
                   pendingRecvIoQueue, amDescQueue, arrived, shouldStop, post,
                   countVars, cqVars, remoteVars, producerVars, historyVars>>

\* get_and_update_cq_entry: cqTail_ is stored and the entry filled in.
PostCompletion ==
    /\ pc = "post"
    /\ cqEntries' = [cqEntries EXCEPT ![Slot(post.tail)] = post.op]
    /\ cqTail' = post.tail + 1
    /\ torn' = (torn \/ post.tail # cqTail)
    /\ pc' = post.ret
    /\ post' = NoPost
    /\ UNCHANGED <<phase, batch, localQueue, pendingIoQueue,
                   pendingRecvIoQueue, amDescQueue, arrived, shouldStop,
                   countVars, cqHead, cqEnd, remoteVars, producerVars, lateReset>>

IoThread ==
    \/ ExecutePendingLocal
    \/ ExecuteTask
    \/ ExecuteStop
    \/ ExecuteReadComplete
    \/ ExecuteStartIo
    \/ BatchFinished
    \/ LoadCompletionQueueTail
    \/ AcquireCompletionQueueItem
    \/ CompletionCountOverrun
    \/ AcquireRemoteQueuedItems
    \/ ExecutePendingIo
    \/ PendingIoFinished
    \/ RegisterArm
    \/ RegisterMarkInactive
    \/ RegisterDequeueAll
    \/ AmRecvCallback
    \/ \E o \in RecvOps : RequestCallback(o)
    \/ ProgressFinished
    \/ PostCompletion

Next ==
    \/ \E p \in Producers, o \in RemoteOps : ScheduleRemote(p, o)
    \/ \E p \in Producers : SignalRemoteQueue(p)
    \/ IoThread

Spec == Init /\ [][Next]_vars
-----------------------------------------------------------------------------
(***************************************************************************)
(* Properties.  torn and lateReset record the two races of the             *)
(* notification protocol that the code does not exclude; the run           *)
(* lost_wakeup shows what the second leads to, and the invariants below    *)
(* state what holds as long as they have not happened.                     *)
(***************************************************************************)

\* Every variable keeps its type; in particular only operations, the remote
\* queue's event and never-written slots are in the ring, and nothing but an
\* operation is ever handed to execute_pending_local.
TypeOK ==
    /\ pc \in LoopPoints
    /\ phase \in [Ops -> Phases]
    /\ batch \in Seq(Ops)
    /\ localQueue \in Seq(Ops)
    /\ pendingIoQueue \in Seq(RecvOps)
    /\ pendingRecvIoQueue \in Seq(RecvOps)
    /\ amDescQueue \in Seq(MessageKinds)
    /\ arrived \in 0 .. MaxMessages
    /\ remoteQueue \in Seq(RemoteOps)
    /\ inactive \in BOOLEAN
    /\ remoteQueueEventEntry \in BOOLEAN
    /\ remoteQueueReadSubmitted \in BOOLEAN
    /\ sqUnflushedCount \in Int
    /\ cqPendingCount \in Int
    /\ cqEntries \in [0 .. CqEntryCount - 1 -> Entries]
    /\ cqHead \in Nat
    /\ cqTail \in Nat
    /\ cqEnd \in Nat
    /\ shouldStop \in BOOLEAN
    /\ post \in [op : Ops \cup {Unused}, tail : Nat, ret : LoopPoints]
    /\ ppc \in [Producers -> ProducerPoints]
    /\ ptail \in [Producers -> Nat]
    /\ torn \in BOOLEAN
    /\ lateReset \in BOOLEAN

\* A completion entry for the remote queue waits in the ring.
EventPending ==
    \E i \in cqHead .. cqTail - 1 : cqEntries[Slot(i)] = RemoteQueueEvent

SignalPoints == {"loadEntry", "loadTail", "write", "store"}

\* A producer that found the queue inactive has not yet published its event.
Signalling == \E p \in Producers : ppc[p] \in SignalPoints

\* While a notification is registered the loop does not look at the remote
\* queue (run_impl tests remoteQueueReadSubmitted_).  Once a producer has
\* queued something, the wakeup is therefore still under way: a producer is
\* about to post it (signal_remote_queue), or it is in the ring.
NoLostWakeup ==
    ~torn /\ ~lateReset /\ remoteQueueReadSubmitted /\ ~inactive
      => Signalling \/ EventPending

\* submit_remote_queue_event updates cqTail_ with a load and a store, so it
\* must not be run by two producers at once: between two registrations only
\* the producer that found the queue inactive signals.
SingleSignaller ==
    ~torn => \A p, q \in Producers :
      ppc[p] \in SignalPoints /\ ppc[q] \in SignalPoints => p = q

\* remoteQueue_.dequeue_all may only be called on a queue that is not marked
\* inactive (acquire_remote_queued_items asserts !remoteQueueReadSubmitted_).
DequeueOnlyWhenActive ==
    ~torn /\ ~remoteQueueReadSubmitted => ~inactive

InFlight == {o \in RecvOps : phase[o] = "inflight"}

AsInt(b) == IF b THEN 1 ELSE 0

\* The two counters are exact although start_io, get_completion_queue_entry,
\* acquire_completion_queue_items and the registration each move them by one
\* at different moments, and the producer that posts an event moves neither:
\* sqUnflushedCount_ counts the registration and the transfers in flight,
\* cqPendingCount_ the operations' entries in the ring or being posted.
SlotAccounting ==
    ~torn =>
      /\ sqUnflushedCount =
           AsInt(remoteQueueReadSubmitted) + Cardinality(InFlight)
      /\ cqPendingCount + AsInt(EventPending) =
           cqTail - cqHead + AsInt(pc = "post")

\* The ring is never overfull: an entry is never written over one the loop
\* has not consumed, because the slot a producer's event will need is kept
\* free by the registration's unit of sqUnflushedCount_.
CompletionRingBounded ==
    ~torn => /\ sqUnflushedCount + cqPendingCount <= CqEntryCount
             /\ cqTail - cqHead \in 0 .. CqEntryCount
             /\ (pc = "post" \/ Signalling) => cqTail - cqHead < CqEntryCount

Count(seq, o) == Cardinality({i \in DOMAIN seq : seq[i] = o})

Places(o) ==
    Count(batch, o) + Count(localQueue, o) + Count(pendingIoQueue, o)
      + Count(pendingRecvIoQueue, o) + Count(remoteQueue, o)
      + Cardinality({i \in cqHead .. cqTail - 1 : cqEntries[Slot(i)] = o})
      + AsInt(pc = "post" /\ post.op = o) + AsInt(phase[o] = "inflight")

\* The queues are intrusive (operation_base::next_), so an operation in two of
\* them corrupts both, and one in none is never completed: from its start to
\* its completion an operation is in exactly one queue, in the ring once, or
\* held by UCX, through every hand-over between them.
InOnePlace ==
    ~torn => \A o \in Ops :
               Places(o) = AsInt(phase[o] \notin {"new", "done"})

\* The operations of one lane: those scheduled by the producers, or those
\* scheduled on the I/O thread itself.
LaneOps(l) == IF l = "remote" THEN RemoteOps ELSE LocalTasks

Unstarted(l) == {o \in LaneOps(l) : phase[o] = "queued"}

\* What has been scheduled, in the order in which the loop will come to it.
Backlog == batch \o localQueue \o remoteQueue

\* The pairs <<a, b>> of operations with an a before a b in the sequence.
InOrder(seq) ==
    {p \in Ops \X Ops :
       \E i, j \in DOMAIN seq : i < j /\ seq[i] = p[1] /\ seq[j] = p[2]}

LaneNames == {"remote", "local"}

Lanes == INSTANCE TaskLanes WITH
    Lanes <- LaneNames,
    Tasks <- Ops,
    lane <- [l \in LaneNames |-> Unstarted(l)],
    earlier <- {p \in InOrder(Backlog) :
                  \E l \in LaneNames : p \in Unstarted(l) \X Unstarted(l)},
    started <- {o \in Ops : phase[o] \notin {"new", "queued"}}

\* The loop implements TaskLanes: whichever of the two paths an operation
\* takes from the remote queue to the local queue
\* (acquire_remote_queued_items or try_register_remote_queue_notification),
\* it starts once and in the order in which it was scheduled.
ImplementsTaskLanes == Lanes!Spec

-----------------------------------------------------------------------------
(***************************************************************************)
(* Fairness: the I/O thread keeps running, a producer finishes the call it *)
(* is in, and UCX, while it is progressed, finishes the transfers it was   *)
(* given.  Nothing obliges a producer to schedule or a message to arrive.  *)
(***************************************************************************)

FairSpec ==
    /\ Spec
    /\ WF_vars(IoThread)
    /\ \A p \in Producers : WF_vars(SignalRemoteQueue(p))
    /\ \A o \in RecvOps : SF_vars(RequestCallback(o))

\* An operation handed to schedule_remote is started, unless the loop stops or
\* one of the two races has happened.
QueuedOpStarts ==
    \A o \in RemoteOps :
      phase[o] = "queued"
        ~> (phase[o] # "queued" \/ torn \/ lateReset \/ pc = "stopped")

\* A receive that waits for a slot, or that a message has woken, is run from
\* pendingIoQueue_, unless the loop stops or a completion was lost to an
\* overlap of cqTail_ updates: no sequence of submissions, completions and
\* registrations leaks the slots it needs.
PendingIoStarts ==
    \A o \in RecvOps :
      Count(pendingIoQueue, o) > 0
        ~> (Count(pendingIoQueue, o) = 0 \/ torn \/ pc = "stopped")

\* What schedule_remote's comment says: the first to queue an item on an
\* inactive queue signals the I/O thread, so that every queued operation is
\* started.  The late remoteQueueEventEntry_.store(false) breaks it.
EveryQueuedOpStarts ==
    \A o \in RemoteOps :
      phase[o] = "queued" ~> (phase[o] # "queued" \/ pc = "stopped")

=============================================================================
