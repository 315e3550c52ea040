------------------------------- MODULE Timers -------------------------------
(***************************************************************************)
(* The timers of ucx_am_context: schedule_at_sender's operations, the list *)
(* timers_, update_timers, the one POSIX timer and its signal handler, and *)
(* the slots and entries of the completion ring they use.                  *)
(*                                                                         *)
(* The I/O thread goes round execute_pending_local, the acquisition of     *)
(* completions, update_timers and the remote queue (whose wakeup protocol  *)
(* is EventLoop's subject).  A stop request of another thread is one step  *)
(* per atomic access; destruct() of a stop callback waits for it.  The     *)
(* signal handler may run on any thread: it loads the ring's counters in   *)
(* one step and stores them in another, and the model stops ("torn") when  *)
(* they changed in between, since EventLoop models what follows.           *)
(***************************************************************************)
EXTENDS Integers, Sequences, FiniteSets

CONSTANTS
    Ops,            \* schedule_at operations
    CqEntryCount,   \* kCompletionQueueEntryCount
    DueTimes,       \* due times of the operations
    MaxTime,        \* bound on the monotonic clock
    CounterRange    \* values of activeTimerCount_, 2^32 in the code

ASSUME TimersAssumption ==
    /\ CqEntryCount \in Nat \ {0}
    /\ MaxTime \in Nat \ {0}
    /\ DueTimes \subseteq 1 .. MaxTime
    /\ CounterRange \in Nat /\ CounterRange > CqEntryCount + 1

None == "none"
NoTime == 0
NoSlot == -1

ASSUME OpsAssumption == None \notin Ops

VARIABLES
    pc,             \* where the I/O thread is in run_impl
    batch,          \* the queue execute_pending_local moved aside
    localQueue, remoteQueue,
    timers,         \* timers_, by due time, first come first among equals
    timersAreDirty,
    currentDueTime,
    io,             \* the ring, its counters, the POSIX timer
    handler,        \* the signal handler and the counters it has loaded
    now,            \* monotonic_clock
    due,            \* per operation: dueTime_
    canBeCancelled, \* per operation
    execute,        \* per operation: what execute_ does
    elapsed,        \* per operation: timer_elapsed_flag of state_
    cancelPending,  \* per operation: cancel_pending_flag of state_
    stopRequested,  \* per operation: its stop token
    callback,       \* per operation: stopCallback_
    stopper,        \* per operation: a stop request of another thread
    completed       \* per operation: how its receiver was called

opVars == <<due, canBeCancelled, execute, elapsed, cancelPending,
            stopRequested, callback, stopper, completed>>

vars == <<pc, batch, localQueue, remoteQueue, timers, timersAreDirty,
          currentDueTime, io, handler, now, opVars>>

Idle == [on |-> FALSE, sq |-> 0, cq |-> 0, tail |-> 0]

\* timerId_ of the process's first timer is 0, which "if (timerId_)" takes
\* for no timer.  leaked and doubled are history: slots that no entry will
\* give back, and a timer for which two entries were posted.
InitIo == {[sqUnflushedCount |-> 0, cq |-> <<>>, tail |-> 0,
            activeTimerCount |-> 0, armed |-> NoTime, timerId |-> id,
            lastTimerOp |-> None, entryRef |-> [o \in Ops |-> NoSlot],
            leaked |-> 0, doubled |-> FALSE] : id \in {"zero", "set"}}

Init ==
    /\ pc = "take"
    /\ batch = <<>>
    /\ localQueue = <<>>
    /\ remoteQueue = <<>>
    /\ timers = <<>>
    /\ timersAreDirty = FALSE
    /\ currentDueTime = NoTime
    /\ io \in InitIo
    /\ handler = Idle
    /\ now = 1
    /\ due \in [Ops -> DueTimes]
    /\ canBeCancelled \in [Ops -> BOOLEAN]
    /\ execute = [o \in Ops |-> "new"]
    /\ elapsed = [o \in Ops |-> FALSE]
    /\ cancelPending = [o \in Ops |-> FALSE]
    /\ stopRequested = [o \in Ops |-> FALSE]
    /\ callback = [o \in Ops |-> "unset"]
    /\ stopper = [o \in Ops |-> "no"]
    /\ completed = [o \in Ops |-> "no"]

-----------------------------------------------------------------------------
(* Sequences.  SelectSeq with a set for its test, so that the proofs can   *)
(* unfold it.                                                              *)

Keep(s, S) ==
    LET kept[i \in 0 .. Len(s)] ==
          IF i = 0 THEN <<>>
          ELSE IF s[i] \in S THEN Append(kept[i - 1], s[i]) ELSE kept[i - 1]
    IN kept[Len(s)]

Has(s, o) == \E i \in DOMAIN s : s[i] = o

-----------------------------------------------------------------------------
(* The ring and the POSIX timer, as functions of io.                       *)

CanSubmitIo(r) ==
    /\ r.sqUnflushedCount < CqEntryCount
    /\ Len(r.cq) + r.sqUnflushedCount < CqEntryCount

SubmitTimerCompletionQueueEntry(r) ==
    [r EXCEPT !.sqUnflushedCount = @ - 1,
              !.cq = Append(@, [slot |-> r.tail, res |-> 0]),
              !.tail = (@ + 1) % CqEntryCount]

\* The cancellation posts an entry of its own.  It gives back the slot it
\* takes, and not the one taken when the timer was armed.
CancelTimer(r) ==
    LET posted == SubmitTimerCompletionQueueEntry(r)
        gone == r.timerId # "zero"
        ref == IF r.lastTimerOp = None THEN NoSlot
               ELSE r.entryRef[r.lastTimerOp]
    IN [posted EXCEPT
          !.sqUnflushedCount = @ + 1,
          !.armed = IF gone THEN NoTime ELSE @,
          !.timerId = IF gone THEN "deleted" ELSE @,
          !.cq = [i \in DOMAIN @ |->
                    IF @[i].slot = ref THEN [@[i] EXCEPT !.res = 1]
                                       ELSE @[i]],
          !.lastTimerOp = None,
          !.leaked = IF gone /\ r.armed # NoTime THEN @ + 1 ELSE @,
          !.doubled = @ \/ r.armed = NoTime \/ ~gone]

ArmTimerUncounted(r, o, wholeSeconds) ==
    [r EXCEPT !.lastTimerOp = o, !.armed = due[o],
              !.sqUnflushedCount = @ + 1]

\* Posted at once when the time has come (or is a whole number of seconds
\* away), or when timer_settime fails because the timer was deleted.
ArmTimer(r, o, wholeSeconds) ==
    LET atOnce == due[o] <= now \/ wholeSeconds
        last == [r EXCEPT !.lastTimerOp = o]
        populated ==
          IF atOnce
          THEN [SubmitTimerCompletionQueueEntry(last)
                  EXCEPT !.entryRef[o] = r.tail]
          ELSE IF r.timerId = "deleted"
          THEN SubmitTimerCompletionQueueEntry(last)
          ELSE [last EXCEPT !.armed = due[o],
                            !.leaked = IF r.armed # NoTime THEN @ + 1 ELSE @]
    IN [populated EXCEPT
          !.sqUnflushedCount = @ + 1,
          !.activeTimerCount = (@ + 1) % CounterRange]

-----------------------------------------------------------------------------
(* The operation: start, completion, stop.                                 *)

ScheduleAtUnmarked(o) ==
    /\ timers' = Append(timers, o)
    /\ UNCHANGED timersAreDirty

\* timers_.insert and the mark when the operation is the first to come due.
ScheduleAtImpl(o) ==
    LET before == Keep(timers, {p \in Ops : due[p] <= due[o]})
        after == Keep(timers, {p \in Ops : due[p] > due[o]})
    IN /\ timers' = before \o <<o>> \o after
       /\ timersAreDirty' = (timersAreDirty \/ before = <<>>)

RemoveTimer(o) ==
    /\ timers' = Keep(timers, Ops \ {o})
    /\ timersAreDirty' = (timersAreDirty \/ Head(timers) = o)

\* start_local up to the construction of the stop callback.
StartLocal(o) ==
    IF canBeCancelled[o] /\ stopRequested[o]
    THEN /\ execute' = [execute EXCEPT ![o] = "done"]
         /\ localQueue' = Append(localQueue, o)
         /\ pc' = "exec"
         /\ UNCHANGED <<timers, timersAreDirty, callback>>
    ELSE /\ execute' = [execute EXCEPT ![o] = "value"]
         /\ ScheduleAtImpl(o)
         /\ callback' = [callback EXCEPT
                           ![o] = IF canBeCancelled[o] THEN "pending"
                                                       ELSE "unset"]
         /\ pc' = IF canBeCancelled[o] THEN "construct" ELSE "exec"
         /\ UNCHANGED localQueue

RequestStopLocal(o) ==
    /\ callback' = [callback EXCEPT ![o] = "gone"]
    /\ execute' = [execute EXCEPT ![o] = "done"]
    /\ IF ~elapsed[o]
       THEN /\ RemoveTimer(o)
            /\ localQueue' = Append(localQueue, o)
       ELSE UNCHANGED <<timers, timersAreDirty, localQueue>>

\* The callback's construction runs it when the stop has come by now.
ConstructCallback(o) ==
    /\ pc = "construct"
    /\ callback[o] = "pending"
    /\ IF stopRequested[o]
       THEN RequestStopLocal(o)
       ELSE /\ callback' = [callback EXCEPT ![o] = "registered"]
            /\ UNCHANGED <<execute, timers, timersAreDirty, localQueue>>
    /\ pc' = "exec"
    /\ UNCHANGED <<batch, remoteQueue, currentDueTime, io, handler, now, due,
                   canBeCancelled, elapsed, cancelPending, stopRequested,
                   stopper, completed>>

Complete(o, how) == completed' = [completed EXCEPT ![o] = how]

\* destruct(): the callback is removed, or waited for if it is running.
DestructCallback(o) ==
    /\ stopper[o] \in {"no", "finished"}
    /\ callback' = [callback EXCEPT ![o] = "gone"]

MaybeCompleteWithValue(o) ==
    /\ IF canBeCancelled[o] THEN DestructCallback(o) ELSE UNCHANGED callback
    /\ Complete(o, IF canBeCancelled[o] /\ stopRequested[o] THEN "done"
                                                            ELSE "value")

RemoveTimerFromQueueAndCompleteWithDone(o) ==
    /\ DestructCallback(o)
    /\ IF ~elapsed[o] THEN RemoveTimer(o)
                      ELSE UNCHANGED <<timers, timersAreDirty>>
    /\ Complete(o, "done")

-----------------------------------------------------------------------------
(* The I/O thread.                                                         *)

TakeLocal ==
    /\ pc = "take"
    /\ pc' = "exec"
    /\ batch' = localQueue
    /\ localQueue' = <<>>
    /\ UNCHANGED <<remoteQueue, timers, timersAreDirty, currentDueTime, io,
                   handler, now, opVars>>

\* execute_(item) of the next item of the batch.
ExecuteItem ==
    /\ pc = "exec"
    /\ batch # <<>>
    /\ batch' = Tail(batch)
    /\ LET o == Head(batch) IN
        \/ /\ execute[o] = "schedule"
           /\ StartLocal(o)
           /\ UNCHANGED completed
        \/ /\ execute[o] = "value"
           /\ MaybeCompleteWithValue(o)
           /\ UNCHANGED <<pc, localQueue, timers, timersAreDirty, execute>>
        \/ /\ execute[o] = "done"
           /\ Complete(o, "done")
           /\ UNCHANGED <<pc, localQueue, timers, timersAreDirty, execute,
                          callback>>
        \/ /\ execute[o] = "remove"
           /\ RemoveTimerFromQueueAndCompleteWithDone(o)
           /\ UNCHANGED <<pc, localQueue, execute>>
    /\ UNCHANGED <<remoteQueue, currentDueTime, io, handler, now, due,
                   canBeCancelled, elapsed, cancelPending, stopRequested,
                   stopper>>

\* The timers' part of acquire_completion_queue_items.
AcquireCompletionQueueItems ==
    /\ pc = "exec"
    /\ batch = <<>>
    /\ pc' = "timers"
    /\ io' = [io EXCEPT
                !.cq = <<>>,
                !.activeTimerCount = (@ - Len(io.cq)) % CounterRange]
    /\ timersAreDirty' =
         (timersAreDirty \/ \E i \in DOMAIN io.cq : io.cq[i].res = 0)
    /\ currentDueTime' =
         IF \E n \in 1 .. Len(io.cq) :
               (io.activeTimerCount - n) % CounterRange = 0
         THEN NoTime ELSE currentDueTime
    /\ UNCHANGED <<batch, localQueue, remoteQueue, timers, handler, now, opVars>>

ReapIgnoresCancel(o) == TRUE

\* Whether the elapsed timer is the loop's to schedule: a thread that has
\* set cancel_pending_flag will enqueue the operation itself.
ReapSchedules(o) == ~(canBeCancelled[o] /\ cancelPending[o])

Elapsed(o) == due[o] <= now

\* What update_timers asks of the POSIX timer once the elapsed are reaped.
UpdatePosixTimer(rest, wholeSeconds) ==
    LET top == Head(rest)
        cancelled == CancelTimer(io)
    IN CASE rest = <<>> /\ currentDueTime # NoTime /\ CanSubmitIo(io) ->
              /\ io' = cancelled
              /\ currentDueTime' = NoTime
              /\ timersAreDirty' = FALSE
         [] rest = <<>> /\ (currentDueTime = NoTime \/ ~CanSubmitIo(io)) ->
              UNCHANGED <<io, currentDueTime, timersAreDirty>>
         [] rest # <<>> /\ currentDueTime = NoTime ->
              IF CanSubmitIo(io)
              THEN /\ io' = ArmTimer(io, top, wholeSeconds)
                   /\ currentDueTime' = due[top]
                   /\ timersAreDirty' = FALSE
              ELSE UNCHANGED <<io, currentDueTime, timersAreDirty>>
         [] rest # <<>> /\ currentDueTime # NoTime
              /\ due[top] < currentDueTime ->
              IF ~CanSubmitIo(io)
              THEN UNCHANGED <<io, currentDueTime, timersAreDirty>>
              ELSE IF CanSubmitIo(cancelled)
              THEN /\ io' = ArmTimer(cancelled, top, wholeSeconds)
                   /\ currentDueTime' = due[top]
                   /\ timersAreDirty' = FALSE
              ELSE /\ io' = cancelled
                   /\ currentDueTime' = NoTime
                   /\ UNCHANGED timersAreDirty
         [] OTHER -> /\ timersAreDirty' = FALSE
                     /\ UNCHANGED <<io, currentDueTime>>

UpdateTimers(wholeSeconds) ==
    LET past == Keep(timers, {o \in Ops : Elapsed(o)})
        rest == Keep(timers, {o \in Ops : ~Elapsed(o)})
    IN /\ pc = "timers"
       /\ timersAreDirty
       /\ pc' = "remote"
       /\ timers' = rest
       /\ elapsed' = [o \in Ops |-> \/ elapsed[o]
                                    \/ Has(past, o) /\ canBeCancelled[o]]
       /\ localQueue' = localQueue \o Keep(past, {o \in Ops : ReapSchedules(o)})
       /\ UpdatePosixTimer(rest, wholeSeconds)
       /\ UNCHANGED <<batch, remoteQueue, handler, now, due, canBeCancelled,
                      execute, cancelPending, stopRequested, callback,
                      stopper, completed>>

TimersClean ==
    /\ pc = "timers"
    /\ ~timersAreDirty
    /\ pc' = "remote"
    /\ UNCHANGED <<batch, localQueue, remoteQueue, timers, timersAreDirty,
                   currentDueTime, io, handler, now, opVars>>

AcquireRemoteQueuedItems ==
    /\ pc = "remote"
    /\ pc' = "take"
    /\ localQueue' = localQueue \o remoteQueue
    /\ remoteQueue' = <<>>
    /\ UNCHANGED <<batch, timers, timersAreDirty, currentDueTime, io,
                   handler, now, opVars>>

IoThread ==
    \/ TakeLocal
    \/ ExecuteItem
    \/ \E o \in Ops : ConstructCallback(o)
    \/ AcquireCompletionQueueItems
    \/ \E wholeSeconds \in BOOLEAN : UpdateTimers(wholeSeconds)
    \/ TimersClean
    \/ AcquireRemoteQueuedItems

-----------------------------------------------------------------------------
(* Other threads, tasks on the I/O thread, the clock and the signal.       *)

\* start() by a task that runs on the I/O thread.
StartOnIoThread(o) ==
    /\ pc = "exec"
    /\ execute[o] = "new"
    /\ StartLocal(o)
    /\ UNCHANGED <<batch, remoteQueue, currentDueTime, io, handler, now, due,
                   canBeCancelled, elapsed, cancelPending, stopRequested,
                   stopper, completed>>

StartRemote(o) ==
    /\ execute[o] = "new"
    /\ execute' = [execute EXCEPT ![o] = "schedule"]
    /\ remoteQueue' = Append(remoteQueue, o)
    /\ UNCHANGED <<pc, batch, localQueue, timers, timersAreDirty,
                   currentDueTime, io, handler, now, due, canBeCancelled,
                   elapsed, cancelPending, stopRequested, callback, stopper,
                   completed>>

\* The stop source is asked to stop by a task on the I/O thread.
StopOnIoThread(o) ==
    /\ pc = "exec"
    /\ canBeCancelled[o] /\ ~stopRequested[o] /\ completed[o] = "no"
    /\ stopRequested' = [stopRequested EXCEPT ![o] = TRUE]
    /\ IF callback[o] = "registered"
       THEN RequestStopLocal(o)
       ELSE UNCHANGED <<callback, execute, timers, timersAreDirty, localQueue>>
    /\ UNCHANGED <<pc, batch, remoteQueue, currentDueTime, io, handler, now,
                   due, canBeCancelled, elapsed, cancelPending, stopper,
                   completed>>

\* The same by another thread, which then runs the callback.
StopRemote(o) ==
    /\ canBeCancelled[o] /\ ~stopRequested[o] /\ completed[o] = "no"
    /\ stopRequested' = [stopRequested EXCEPT ![o] = TRUE]
    /\ stopper' = [stopper EXCEPT
                     ![o] = IF callback[o] = "registered" THEN "running"
                                                          ELSE "finished"]
    /\ UNCHANGED <<pc, batch, localQueue, remoteQueue, timers, timersAreDirty,
                   currentDueTime, io, handler, now, due, canBeCancelled,
                   execute, elapsed, cancelPending, callback, completed>>

RequestStopRemoteLeavesIt(o) ==
    /\ stopper[o] = "running"
    /\ cancelPending' = [cancelPending EXCEPT ![o] = TRUE]
    /\ stopper' = [stopper EXCEPT ![o] = "finished"]
    /\ UNCHANGED <<pc, batch, localQueue, remoteQueue, timers, timersAreDirty,
                   currentDueTime, io, handler, now, due, canBeCancelled,
                   execute, elapsed, stopRequested, callback, completed>>

RequestStopRemote(o) ==
    /\ stopper[o] = "running"
    /\ cancelPending' = [cancelPending EXCEPT ![o] = TRUE]
    /\ stopper' = [stopper EXCEPT
                     ![o] = IF elapsed[o] THEN "finished" ELSE "enqueue"]
    /\ UNCHANGED <<pc, batch, localQueue, remoteQueue, timers, timersAreDirty,
                   currentDueTime, io, handler, now, due, canBeCancelled,
                   execute, elapsed, stopRequested, callback, completed>>

RequestStopRemoteSchedules(o) ==
    /\ stopper[o] = "enqueue"
    /\ stopper' = [stopper EXCEPT ![o] = "finished"]
    /\ execute' = [execute EXCEPT ![o] = "remove"]
    /\ remoteQueue' = Append(remoteQueue, o)
    /\ UNCHANGED <<pc, batch, localQueue, timers, timersAreDirty,
                   currentDueTime, io, handler, now, due, canBeCancelled,
                   elapsed, cancelPending, stopRequested, callback, completed>>

Tick ==
    /\ now < MaxTime
    /\ now' = now + 1
    /\ UNCHANGED <<pc, batch, localQueue, remoteQueue, timers, timersAreDirty,
                   currentDueTime, io, handler, opVars>>

Counters == [on |-> TRUE, sq |-> io.sqUnflushedCount, cq |-> Len(io.cq),
             tail |-> io.tail]

\* The POSIX timer expires and its handler has loaded the counters.
TimerTimeout ==
    /\ ~handler.on
    /\ pc # "torn"
    /\ io.armed # NoTime /\ io.armed <= now
    /\ io' = [io EXCEPT !.armed = NoTime]
    /\ handler' = Counters
    /\ UNCHANGED <<pc, batch, localQueue, remoteQueue, timers, timersAreDirty,
                   currentDueTime, now, opVars>>

TimerTimeoutCallback ==
    /\ handler.on
    /\ handler' = Idle
    /\ IF handler = Counters
       THEN io' = SubmitTimerCompletionQueueEntry(io) /\ UNCHANGED pc
       ELSE pc' = "torn" /\ UNCHANGED io
    /\ UNCHANGED <<batch, localQueue, remoteQueue, timers, timersAreDirty,
                   currentDueTime, now, opVars>>

Torn ==
    /\ pc = "torn"
    /\ UNCHANGED vars

Next ==
    \/ IoThread
    \/ \E o \in Ops :
        \/ StartOnIoThread(o) \/ StartRemote(o)
        \/ StopOnIoThread(o) \/ StopRemote(o)
        \/ RequestStopRemote(o) \/ RequestStopRemoteSchedules(o)
    \/ Tick
    \/ TimerTimeout
    \/ TimerTimeoutCallback
    \/ Torn

\* The loop spins, a stop request that has begun ends, time passes, and the
\* kernel delivers the signal.  Nothing need be started or stopped.
Fairness ==
    /\ WF_vars(IoThread)
    /\ \A o \in Ops : WF_vars(RequestStopRemote(o)
                                \/ RequestStopRemoteSchedules(o))
    /\ WF_vars(Tick)
    /\ WF_vars(TimerTimeout)
    /\ WF_vars(TimerTimeoutCallback)

Spec == Init /\ [][Next]_vars /\ Fairness

-----------------------------------------------------------------------------

\* Every variable keeps its type: in particular the ring's counters stay
\* within its size.
TypeOK ==
    /\ pc \in {"take", "exec", "construct", "timers", "remote", "torn"}
    /\ \A q \in {batch, localQueue, remoteQueue, timers} : q \in Seq(Ops)
    /\ timersAreDirty \in BOOLEAN
    /\ currentDueTime \in 0 .. MaxTime
    /\ io.sqUnflushedCount \in 0 .. CqEntryCount
    /\ Len(io.cq) + io.sqUnflushedCount \in 0 .. CqEntryCount
    /\ io.activeTimerCount \in 0 .. CounterRange - 1
    /\ io.armed \in 0 .. MaxTime
    /\ execute \in [Ops -> {"new", "schedule", "value", "done", "remove"}]
    /\ callback \in [Ops -> {"unset", "pending", "registered", "gone"}]
    /\ stopper \in [Ops -> {"no", "running", "enqueue", "finished"}]
    /\ completed \in [Ops -> {"no", "value", "done"}]

\* How often o is in s.
Times(s, o) == Cardinality({i \in DOMAIN s : s[i] = o})

Links(o) == Times(batch, o) + Times(localQueue, o) + Times(remoteQueue, o)

\* An operation is in one of the ready queues at a time, in timers_ once, and
\* in none of them when its receiver has been called: whoever wins the race
\* of timer_elapsed_flag and cancel_pending_flag, one side enqueues it.
FiredOrRemoved ==
    \A o \in Ops :
        /\ Links(o) <= 1
        /\ Times(timers, o) <= 1
        /\ completed[o] # "no" => Links(o) = 0 /\ ~Has(timers, o)

\* Before any overlap: every slot that is taken belongs to the armed timer, to
\* the handler of an earlier one, or to a timer that was cancelled; and activeTimerCount_ is the
\* number of entries posted or to come, unless one timer got two.
TimerSlots ==
    pc # "torn" =>
        LET coming == (IF io.armed # NoTime THEN 1 ELSE 0)
                        + (IF handler.on THEN 1 ELSE 0)
        IN /\ io.sqUnflushedCount = io.leaked + coming
           /\ ~io.doubled => io.activeTimerCount = Len(io.cq) + coming

\* A loop that does not mean to look at timers_ again will be told to: an
\* entry is in the ring or being posted, or the POSIX timer is armed for a
\* time no later than the first due.
WillWake ==
    timers # <<>> /\ ~timersAreDirty =>
        \/ io.cq # <<>>
        \/ handler.on
        \/ io.armed # NoTime /\ io.armed <= due[Head(timers)]

\* While no timer had two entries, update_timers and the acquisition of
\* completions together forget no timer.
TimerWakeupPending == pc # "torn" /\ ~io.doubled => WillWake

\* A receiver gets its value only when its time has come, whatever entries
\* the cancellation of other timers and deleted timers have posted early.
ValueWhenDue ==
    \A o \in Ops : completed[o] = "value" => due[o] <= now

\* The two together: an operation is completed once, by its time or by a
\* cancellation, and not before its time (update_timers, request_stop).
CompletesOnceWhenDue == TypeOK /\ FiredOrRemoved /\ ValueWhenDue

\* An operation that was started completes, as long as the slots that
\* cancellations keep have not filled the ring, no counter was torn and no
\* timer had two entries.
TimerCompletes ==
    \A o \in Ops :
        execute[o] # "new" ~> \/ completed[o] # "no"
                              \/ pc = "torn"
                              \/ io.doubled
                              \/ io.leaked = CqEntryCount

=============================================================================
