--------------------------- MODULE PythonWakeProofs ---------------------------
(***************************************************************************)
(* Proofs about PythonWake for any number of producers, loops and tasks:   *)
(* the edge-triggered wakeup is never lost, and no task is lost or run     *)
(* twice by drains that overlap.                                           *)
(***************************************************************************)
EXTENDS PythonWake, FiniteSetTheorems, SequenceTheorems, TLAPS

-----------------------------------------------------------------------------
(***************************************************************************)
(* The inductive invariant.                                                *)
(***************************************************************************)

\* Someone will look at the queue.
Woken ==
    \/ eventFd > 0
    \/ \E p \in Producers : ppc[p] = "notify"
    \/ \E l \in Loops : Draining(l) \/ lpc[l] = "crashed"

\* An item is queued only while the queue is active, and an active queue will
\* be looked at: the second half is what the wakeup's edge relies on.
Active ==
    /\ queue # <<>> => ~inactive
    /\ ~inactive => Woken

\* A thread has a batch only between taking it and its last item.
Batches ==
    \A l \in Loops :
        /\ lpc[l] = "run" => batch[l] # <<>>
        /\ lpc[l] \notin {"run", "clearIdleCheck"} => batch[l] = <<>>

\* No task is twice in the queue and the batches.
Distinct ==
    /\ \A i, j \in DOMAIN queue : queue[i] = queue[j] => i = j
    /\ \A l \in Loops : \A i, j \in DOMAIN batch[l] :
         batch[l][i] = batch[l][j] => i = j
    /\ \A l \in Loops : \A i \in DOMAIN queue, j \in DOMAIN batch[l] :
         queue[i] # batch[l][j]
    /\ \A l, k \in Loops : l # k =>
         \A i \in DOMAIN batch[l], j \in DOMAIN batch[k] : batch[l][i] # batch[k][j]

InQueue(t) == \E i \in DOMAIN queue : queue[i] = t
InBatch(l, t) == \E i \in DOMAIN batch[l] : batch[l][i] = t

\* The tasks in the queue and the batches are the ones that are queued.
Queued ==
    \A t \in Tasks :
        task[t] = "queued" <=> InQueue(t) \/ \E l \in Loops : InBatch(l, t)

IInv == TypeOK /\ Active /\ Batches /\ Distinct /\ Queued

-----------------------------------------------------------------------------
(***************************************************************************)
(* Sequences.                                                              *)
(***************************************************************************)

LEMMA AppendElements ==
    ASSUME NEW T, NEW s \in Seq(T), NEW x \in T
    PROVE  /\ Append(s, x) \in Seq(T)
           /\ Append(s, x) # <<>>
           /\ DOMAIN Append(s, x) = DOMAIN s \cup {Len(s) + 1}
           /\ Len(s) + 1 \notin DOMAIN s
           /\ Append(s, x)[Len(s) + 1] = x
           /\ \A i \in DOMAIN s : Append(s, x)[i] = s[i]
<1>1. DOMAIN s = 1 .. Len(s) /\ Len(s) \in Nat
  OBVIOUS
<1> QED
  BY <1>1, AppendProperties

LEMMA TailElements ==
    ASSUME NEW T, NEW s \in Seq(T), s # <<>>
    PROVE  /\ Head(s) \in T /\ Head(s) = s[1] /\ 1 \in DOMAIN s
           /\ Tail(s) \in Seq(T)
           /\ (Tail(s) = <<>>) <=> (Len(s) = 1)
           /\ \A i \in DOMAIN Tail(s) : i + 1 \in DOMAIN s /\ Tail(s)[i] = s[i + 1]
                                        /\ i \in Int /\ i + 1 # 1
           /\ \A i \in DOMAIN s : i # 1 => /\ i - 1 \in DOMAIN Tail(s)
                                           /\ Tail(s)[i - 1] = s[i]
<1>1. DOMAIN s = 1 .. Len(s) /\ Len(s) \in Nat /\ Len(s) # 0
  BY EmptySeq
<1>2. /\ Head(s) \in T /\ Head(s) = s[1] /\ Tail(s) \in Seq(T)
      /\ Len(Tail(s)) = Len(s) - 1
      /\ \A i \in 1 .. Len(Tail(s)) : Tail(s)[i] = s[i + 1]
  BY <1>1, HeadTailProperties
<1>3. DOMAIN Tail(s) = 1 .. Len(s) - 1
  BY <1>1, <1>2
<1>4. (Tail(s) = <<>>) <=> (Len(s) = 1)
  BY <1>1, <1>2, EmptySeq
<1> QED
  BY <1>1, <1>2, <1>3, <1>4

-----------------------------------------------------------------------------
(***************************************************************************)
(* Type correctness.                                                       *)
(***************************************************************************)

LEMMA InitType == Init => TypeOK
BY MaxStartsAssumption DEF Init, TypeOK, LoopPoints, NoLoop

LEMMA EnqueueType ==
    ASSUME TypeOK, NEW p \in Producers, NEW t \in Tasks, Enqueue(p, t)
    PROVE  TypeOK'
<1>1. queue' \in Seq(Tasks)
  BY AppendElements DEF TypeOK, Enqueue
<1> QED
  BY <1>1 DEF TypeOK, Enqueue, readerVars

LEMMA QueueType ==
    ASSUME TypeOK, Batches, NEW l \in Loops, ProcessQueue(l)
    PROVE  TypeOK'
<1> USE DEF readerVars, queueVars, LoopPoints, ProcessPoints, ClearPoints
<1>1. CASE TryMarkActive(l)
  BY <1>1 DEF TypeOK, TryMarkActive
<1>2. CASE DequeueAll(l)
  <2>1. <<>> \in Seq(Tasks)
    OBVIOUS
  <2> QED
    BY <1>2, <2>1 DEF TypeOK, DequeueAll
<1>3. CASE DequeueInactive(l)
  BY <1>3 DEF TypeOK, DequeueInactive
<1>4. CASE RunTask(l)
  <2>1. Head(batch[l]) \in Tasks /\ Tail(batch[l]) \in Seq(Tasks)
    BY <1>4, TailElements DEF TypeOK, Batches, RunTask
  <2> QED
    BY <1>4, <2>1 DEF TypeOK, RunTask
<1>5. CASE TryMarkInactive(l)
  BY <1>5 DEF TypeOK, TryMarkInactive
<1>6. CASE DiscardTask(l)
  <2>1. Head(batch[l]) \in Tasks /\ Tail(batch[l]) \in Seq(Tasks)
    BY <1>6, TailElements DEF TypeOK, DiscardTask
  <2> QED
    BY <1>6, <2>1 DEF TypeOK, DiscardTask
<1>7. CASE ClearMarkInactive(l)
  BY <1>7 DEF TypeOK, ClearMarkInactive
<1> QED
  BY <1>1, <1>2, <1>3, <1>4, <1>5, <1>6, <1>7 DEF ProcessQueue

LEMMA ReaderType ==
    ASSUME TypeOK, NEW l \in Loops,
           \/ ReaderCallback(l) \/ FastPath(l)
           \/ Register(l) \/ AddReader(l) \/ AddReaderFails(l) \/ RegisterFails(l)
           \/ Unregister(l)
    PROVE  TypeOK'
<1> USE DEF TypeOK, readerVars, queueVars, LoopPoints, ProcessPoints, ClearPoints,
            ReadEventFd
<1>1. CASE ReaderCallback(l)
  BY <1>1 DEF ReaderCallback
<1>13. CASE FastPath(l)
  BY <1>13 DEF FastPath
<1>2. CASE Register(l)
  BY <1>2, MaxStartsAssumption DEF Register
<1>3. CASE RegisterFails(l)
  BY <1>3, MaxStartsAssumption DEF RegisterFails
<1>4. CASE AddReader(l)
  BY <1>4 DEF AddReader
<1>5. CASE AddReaderFails(l)
  BY <1>5 DEF AddReaderFails
<1>6. CASE UnregisterShared(l)
  BY <1>6 DEF UnregisterShared
<1>7. CASE UnregisterProcess(l)
  BY <1>7 DEF UnregisterProcess
<1>8. CASE UnregisterUncounted(l)
  BY <1>8 DEF UnregisterUncounted
<1>9. CASE ResetRefCount(l)
  BY <1>9 DEF ResetRefCount
<1>10. CASE UnregisterLast(l)
  BY <1>10 DEF UnregisterLast
<1>11. CASE RemoveReader(l)
  BY <1>11 DEF RemoveReader
<1>12. CASE RemoveReaderFails(l)
  BY <1>12 DEF RemoveReaderFails
<1> QED
  BY <1>1, <1>2, <1>3, <1>4, <1>5, <1>6, <1>7, <1>8, <1>9, <1>10, <1>11, <1>12, <1>13
  DEF Unregister

LEMMA NextType == TypeOK /\ Batches /\ [Next]_vars => TypeOK'
<1> SUFFICES ASSUME TypeOK, Batches, [Next]_vars
             PROVE  TypeOK'
  OBVIOUS
<1>1. ASSUME NEW t \in Tasks, EnqueueInline(t)
      PROVE  TypeOK'
  BY <1>1 DEF TypeOK, EnqueueInline, readerVars
<1>2. ASSUME NEW p \in Producers, NotifyPython(p)
      PROVE  TypeOK'
  BY <1>2 DEF TypeOK, NotifyPython, readerVars
<1>3. CASE UNCHANGED vars
  BY <1>3 DEF TypeOK, vars, queueVars, readerVars
<1> QED
  BY <1>1, <1>2, <1>3, EnqueueType, QueueType, ReaderType DEF Next

-----------------------------------------------------------------------------
(***************************************************************************)
(* Where the tasks are.                                                    *)
(***************************************************************************)

Places == Distinct /\ Queued

LEMMA PlacesKept ==
    ASSUME Places, UNCHANGED <<queue, batch>>,
           \A t \in Tasks : task'[t] = "queued" <=> task[t] = "queued"
    PROVE  Places'
BY DEF Places, Distinct, Queued, InQueue, InBatch

\* A task that was new goes to the end of the queue.
LEMMA EnqueuePlaces ==
    ASSUME TypeOK, Places, NEW p \in Producers, NEW t \in Tasks, Enqueue(p, t)
    PROVE  Places'
<1>1. /\ batch' = batch /\ queue' = Append(queue, t) /\ queue \in Seq(Tasks)
      /\ task[t] = "new" /\ task'[t] = "queued"
      /\ \A u \in Tasks \ {t} : task'[u] = task[u]
  BY DEF TypeOK, Enqueue
<1>2. /\ DOMAIN queue' = DOMAIN queue \cup {Len(queue) + 1}
      /\ Len(queue) + 1 \notin DOMAIN queue /\ queue'[Len(queue) + 1] = t
      /\ \A i \in DOMAIN queue : queue'[i] = queue[i]
  BY <1>1, AppendElements
<1>3. ~InQueue(t) /\ \A l \in Loops : ~InBatch(l, t)
  BY <1>1 DEF Places, Queued
<1>4. Distinct'
  BY <1>1, <1>2, <1>3 DEF Places, Distinct, InQueue, InBatch
<1>5. Queued'
  <2>1. \A u \in Tasks : InQueue(u)' <=> InQueue(u) \/ u = t
    BY <1>2 DEF InQueue
  <2>2. \A u \in Tasks, l \in Loops : InBatch(l, u)' <=> InBatch(l, u)
    BY <1>1 DEF InBatch
  <2> QED
    BY <1>1, <2>1, <2>2 DEF Places, Queued
<1> QED
  BY <1>4, <1>5 DEF Places

\* The queue moves as a whole to a thread that has no batch.
LEMMA DequeuePlaces ==
    ASSUME TypeOK, Batches, Places, NEW l \in Loops, DequeueAll(l)
    PROVE  Places'
<1>1. /\ task' = task /\ queue' = <<>> /\ batch[l] = <<>> /\ batch'[l] = queue
      /\ \A k \in Loops \ {l} : batch'[k] = batch[k]
  BY DEF TypeOK, Batches, DequeueAll
<1>2. DOMAIN queue' = {} /\ DOMAIN batch[l] = {}
  BY <1>1
<1>3. Distinct'
  BY <1>1, <1>2 DEF Places, Distinct
<1>4. Queued'
  <2>1. \A u \in Tasks : ~InQueue(u)' /\ ~InBatch(l, u)
    BY <1>2 DEF InQueue, InBatch
  <2>2. \A u \in Tasks : InBatch(l, u)' <=> InQueue(u)
    BY <1>1 DEF InQueue, InBatch
  <2>3. \A u \in Tasks, k \in Loops \ {l} : InBatch(k, u)' <=> InBatch(k, u)
    BY <1>1 DEF InBatch
  <2> QED
    BY <1>1, <2>1, <2>2, <2>3 DEF Places, Queued
<1> QED
  BY <1>3, <1>4 DEF Places

\* The head of a batch is run or discarded, and is nowhere any more.
LEMMA HeadPlaces ==
    ASSUME TypeOK, Places, NEW l \in Loops, batch[l] # <<>>, NEW how,
           how # "queued", task' = [task EXCEPT ![Head(batch[l])] = how],
           batch' = [batch EXCEPT ![l] = Tail(@)], UNCHANGED queue
    PROVE  Places'
<1>1. batch[l] \in Seq(Tasks)
  BY DEF TypeOK
<1>6. PICK h \in Tasks : h = Head(batch[l])
  BY <1>1, TailElements
<1>2. /\ h \in Tasks /\ h = batch[l][1] /\ 1 \in DOMAIN batch[l]
      /\ \A i \in DOMAIN Tail(batch[l]) :
           /\ i + 1 \in DOMAIN batch[l] /\ Tail(batch[l])[i] = batch[l][i + 1]
           /\ i \in Int /\ i + 1 # 1
      /\ \A i \in DOMAIN batch[l] : i # 1 =>
           i - 1 \in DOMAIN Tail(batch[l]) /\ Tail(batch[l])[i - 1] = batch[l][i]
  BY <1>1, <1>6, TailElements
<1>3. /\ batch'[l] = Tail(batch[l]) /\ \A k \in Loops \ {l} : batch'[k] = batch[k]
      /\ task'[h] # "queued" /\ \A u \in Tasks \ {h} : task'[u] = task[u]
  BY <1>6 DEF TypeOK
<1>4. Distinct'
  <2>1. \A i, j \in DOMAIN batch'[l] : batch'[l][i] = batch'[l][j] => i = j
    <3> SUFFICES ASSUME NEW i \in DOMAIN batch'[l], NEW j \in DOMAIN batch'[l],
                        batch'[l][i] = batch'[l][j]
                 PROVE  i = j
      OBVIOUS
    <3>1. /\ i + 1 \in DOMAIN batch[l] /\ j + 1 \in DOMAIN batch[l]
          /\ batch[l][i + 1] = batch[l][j + 1] /\ i \in Int /\ j \in Int
      BY <1>2, <1>3
    <3>2. i + 1 = j + 1
      BY <3>1 DEF Places, Distinct
    <3> QED
      BY <3>1, <3>2
  <2>2. \A k \in Loops : \A j \in DOMAIN batch'[k] :
          \E i \in DOMAIN batch[k] : batch[k][i] = batch'[k][j]
    BY <1>2, <1>3
  <2>3. \A k \in Loops \ {l} : \A i, j \in DOMAIN batch'[k] :
          batch'[k][i] = batch'[k][j] => i = j
    BY <1>3 DEF Places, Distinct
  <2>4. \A k \in Loops : \A i \in DOMAIN queue, j \in DOMAIN batch'[k] :
          queue[i] # batch'[k][j]
    BY <2>2 DEF Places, Distinct
  <2>5. \A k, m \in Loops : k # m =>
          \A i \in DOMAIN batch'[k], j \in DOMAIN batch'[m] :
            batch'[k][i] # batch'[m][j]
    BY <2>2 DEF Places, Distinct
  <2> QED
    BY <2>1, <2>3, <2>4, <2>5 DEF Places, Distinct
<1>5. Queued'
  <2>1. \A u \in Tasks : InQueue(u)' <=> InQueue(u)
    BY DEF InQueue
  <2>2. \A u \in Tasks, k \in Loops \ {l} : InBatch(k, u)' <=> InBatch(k, u)
    BY <1>3 DEF InBatch
  <2>3. \A u \in Tasks \ {h} : InBatch(l, u)' <=> InBatch(l, u)
    <3>1. \A i \in DOMAIN batch'[l] :
            i + 1 \in DOMAIN batch[l] /\ batch'[l][i] = batch[l][i + 1]
      BY <1>2, <1>3
    <3>2. \A i \in DOMAIN batch[l] : batch[l][i] # h =>
            i - 1 \in DOMAIN batch'[l] /\ batch'[l][i - 1] = batch[l][i]
      BY <1>2, <1>3
    <3> QED
      BY <3>1, <3>2 DEF InBatch
  <2>4. ~InQueue(h) /\ \A k \in Loops \ {l} : ~InBatch(k, h)
    BY <1>2 DEF Places, Distinct, InQueue, InBatch
  <2>5. ~InBatch(l, h)'
    <3> SUFFICES ASSUME NEW i \in DOMAIN batch'[l], batch'[l][i] = h
                 PROVE  FALSE
      BY DEF InBatch
    <3>1. i + 1 \in DOMAIN batch[l] /\ batch[l][i + 1] = batch[l][1] /\ i + 1 # 1
      BY <1>2, <1>3
    <3> QED
      BY <1>2, <3>1 DEF Places, Distinct
  <2> QED
    BY <1>2, <1>3, <2>1, <2>2, <2>3, <2>4, <2>5 DEF Places, Queued
<1> QED
  BY <1>4, <1>5 DEF Places

LEMMA NextPlaces == TypeOK /\ Batches /\ Places /\ [Next]_vars => Places'
<1> SUFFICES ASSUME TypeOK, Batches, Places, [Next]_vars
             PROVE  Places'
  OBVIOUS
<1> USE DEF queueVars, readerVars
<1>1. ASSUME NEW t \in Tasks, EnqueueInline(t)
      PROVE  Places'
  <2>1. UNCHANGED <<queue, batch>>
        /\ \A u \in Tasks : task'[u] = "queued" <=> task[u] = "queued"
    BY <1>1 DEF TypeOK, EnqueueInline
  <2> QED
    BY <2>1, PlacesKept
<1>2. ASSUME NEW l \in Loops, RunTask(l)
      PROVE  Places'
  BY <1>2, HeadPlaces DEF RunTask, Batches
<1>3. ASSUME NEW l \in Loops, DiscardTask(l)
      PROVE  Places'
  BY <1>3, HeadPlaces DEF DiscardTask
<1>4. ASSUME NEW l \in Loops,
             \/ TryMarkActive(l) \/ DequeueInactive(l) \/ TryMarkInactive(l)
             \/ ClearMarkInactive(l)
      PROVE  Places'
  <2>1. UNCHANGED <<task, queue, batch>>
    BY <1>4 DEF TryMarkActive, DequeueInactive, TryMarkInactive, ClearMarkInactive
  <2> QED
    BY <2>1, PlacesKept
<1>5. ASSUME NEW l \in Loops,
             \/ ReaderCallback(l) \/ FastPath(l)
             \/ Register(l) \/ AddReader(l) \/ AddReaderFails(l) \/ RegisterFails(l)
             \/ Unregister(l)
      PROVE  Places'
  <2>1. UNCHANGED <<task, queue, batch>>
    BY <1>5 DEF ReaderCallback, FastPath, Register, AddReader, AddReaderFails,
                RegisterFails, Unregister, UnregisterShared, UnregisterProcess,
                UnregisterUncounted, ResetRefCount, UnregisterLast, RemoveReader,
                RemoveReaderFails
  <2> QED
    BY <2>1, PlacesKept
<1>6. ASSUME (\E p \in Producers : NotifyPython(p)) \/ UNCHANGED vars
      PROVE  Places'
  <2>1. UNCHANGED <<task, queue, batch>>
    BY <1>6 DEF NotifyPython, vars
  <2> QED
    BY <2>1, PlacesKept
<1> QED
  BY <1>1, <1>2, <1>3, <1>4, <1>5, <1>6, EnqueuePlaces, DequeuePlaces
  DEF Next, ProcessQueue

-----------------------------------------------------------------------------
(***************************************************************************)
(* The wakeup.                                                             *)
(***************************************************************************)

\* Threads that are neither draining nor crashed come and go.
LEMMA ActiveKept ==
    ASSUME Active, UNCHANGED <<queue, inactive, ppc>>, eventFd' = eventFd,
           \A l \in Loops : Draining(l) \/ lpc[l] = "crashed" => lpc'[l] = lpc[l]
    PROVE  Active'
BY DEF Active, Woken, Draining

\* A thread that is draining after the step is enough.
LEMMA ActiveBy ==
    ASSUME NEW l \in Loops, Draining(l)' \/ lpc'[l] = "crashed",
           queue' # <<>> => ~inactive'
    PROVE  Active'
BY DEF Active, Woken

LEMMA QueueActive ==
    ASSUME TypeOK, Active, NEW l \in Loops, ProcessQueue(l)
    PROVE  Active'
<1>1. CASE TryMarkActive(l)
  <2>1. ~inactive' /\ lpc'[l] \in {"dequeue", "clearDequeue"}
    BY <1>1 DEF TypeOK, TryMarkActive
  <2> QED
    BY <2>1, ActiveBy DEF Draining
<1>2. CASE DequeueAll(l)
  <2>1. queue' = <<>> /\ lpc'[l] \in {"idleCheck", "run", "clearIdleCheck"}
    BY <1>2 DEF TypeOK, DequeueAll
  <2> QED
    BY <2>1, ActiveBy DEF Draining
<1>3. CASE DequeueInactive(l)
  <2>1. UNCHANGED <<queue, inactive>> /\ lpc'[l] = "crashed"
    BY <1>3 DEF TypeOK, DequeueInactive, queueVars
  <2> QED
    BY <2>1, ActiveBy DEF Active
<1>4. CASE RunTask(l)
  <2>1. UNCHANGED <<queue, inactive>> /\ lpc'[l] \in {"dequeue", "run"}
    BY <1>4 DEF TypeOK, RunTask
  <2> QED
    BY <2>1, ActiveBy DEF Active, Draining
<1>5. CASE TryMarkInactive(l)
  <2>1. \/ queue' = <<>> /\ inactive'
        \/ UNCHANGED <<queue, inactive>> /\ lpc'[l] = "dequeue"
    BY <1>5 DEF TypeOK, TryMarkInactive
  <2>2. ASSUME UNCHANGED <<queue, inactive>>, lpc'[l] = "dequeue"
        PROVE  Active'
    BY <2>2, ActiveBy DEF Active, Draining
  <2>3. ASSUME queue' = <<>>, inactive'
        PROVE  Active'
    BY <2>3 DEF Active
  <2> QED
    BY <2>1, <2>2, <2>3
<1>6. CASE DiscardTask(l)
  <2>1. UNCHANGED <<queue, inactive>> /\ lpc'[l] \in {"clearDequeue", "clearIdleCheck"}
    BY <1>6 DEF TypeOK, DiscardTask
  <2> QED
    BY <2>1, ActiveBy DEF Active, Draining
<1>7. CASE ClearMarkInactive(l)
  <2>1. \/ queue' = <<>> /\ inactive'
        \/ UNCHANGED <<queue, inactive>> /\ lpc'[l] = "clearDequeue"
    BY <1>7 DEF TypeOK, ClearMarkInactive
  <2>2. ASSUME UNCHANGED <<queue, inactive>>, lpc'[l] = "clearDequeue"
        PROVE  Active'
    BY <2>2, ActiveBy DEF Active, Draining
  <2>3. ASSUME queue' = <<>>, inactive'
        PROVE  Active'
    BY <2>3 DEF Active
  <2> QED
    BY <2>1, <2>2, <2>3
<1> QED
  BY <1>1, <1>2, <1>3, <1>4, <1>5, <1>6, <1>7 DEF ProcessQueue

\* The steps of a thread outside ProcessQueue and ClearQueue.
Outside == {"idle", "addReader", "process", "reset", "unregister"}

LEMMA ReaderSteps ==
    ASSUME TypeOK, NEW l \in Loops,
           \/ ReaderCallback(l) \/ FastPath(l)
           \/ Register(l) \/ AddReader(l) \/ AddReaderFails(l) \/ RegisterFails(l)
           \/ Unregister(l)
    PROVE  /\ UNCHANGED <<task, queue, inactive, ppc, batch>>
           /\ \A k \in Loops \ {l} : lpc'[k] = lpc[k]
           /\ lpc[l] \in Outside
           /\ \/ lpc'[l] \in {"mark", "clearMark"}
              \/ lpc'[l] \in Outside /\ eventFd' = eventFd
<1> USE DEF queueVars, readerVars, ReadEventFd, Outside
<1>1. CASE ReaderCallback(l) \/ FastPath(l)
  BY <1>1 DEF TypeOK, ReaderCallback, FastPath
<1>2. CASE Register(l) \/ AddReader(l) \/ AddReaderFails(l) \/ RegisterFails(l)
  BY <1>2 DEF TypeOK, Register, AddReader, AddReaderFails, RegisterFails
<1>3. CASE Unregister(l)
  BY <1>3 DEF TypeOK, Unregister, UnregisterShared, UnregisterProcess,
              UnregisterUncounted, ResetRefCount, UnregisterLast, RemoveReader,
              RemoveReaderFails
<1> QED
  BY <1>1, <1>2, <1>3

LEMMA NextActive == TypeOK /\ Active /\ [Next]_vars => Active'
<1> SUFFICES ASSUME TypeOK, Active, [Next]_vars
             PROVE  Active'
  OBVIOUS
<1> USE DEF queueVars, readerVars
<1>1. ASSUME NEW t \in Tasks, EnqueueInline(t)
      PROVE  Active'
  BY <1>1, ActiveKept DEF EnqueueInline
<1>2. ASSUME NEW p \in Producers, NEW t \in Tasks, Enqueue(p, t)
      PROVE  Active'
  <2>1. /\ ~inactive' /\ UNCHANGED <<eventFd, lpc>>
        /\ \A r \in Producers \ {p} : ppc'[r] = ppc[r]
        /\ ppc[p] = "idle"
        /\ inactive => ppc'[p] = "notify"
    BY <1>2 DEF TypeOK, Enqueue
  <2>2. CASE inactive
    BY <2>1, <2>2 DEF Active, Woken
  <2>3. CASE ~inactive
    BY <2>1, <2>3 DEF Active, Woken, Draining
  <2> QED
    BY <2>2, <2>3
<1>3. ASSUME NEW p \in Producers, NotifyPython(p)
      PROVE  Active'
  <2>1. UNCHANGED <<queue, inactive>> /\ eventFd' > 0
    BY <1>3 DEF TypeOK, NotifyPython
  <2> QED
    BY <2>1 DEF Active, Woken
<1>4. ASSUME NEW l \in Loops,
             \/ ReaderCallback(l) \/ FastPath(l)
             \/ Register(l) \/ AddReader(l) \/ AddReaderFails(l) \/ RegisterFails(l)
             \/ Unregister(l)
      PROVE  Active'
  <2>1. /\ UNCHANGED <<task, queue, inactive, ppc, batch>>
        /\ \A k \in Loops \ {l} : lpc'[k] = lpc[k]
        /\ lpc[l] \in Outside
        /\ \/ lpc'[l] \in {"mark", "clearMark"}
           \/ lpc'[l] \in Outside /\ eventFd' = eventFd
    BY <1>4, ReaderSteps
  <2>2. ASSUME lpc'[l] \in {"mark", "clearMark"}
        PROVE  Active'
    BY <2>1, <2>2, ActiveBy DEF Active, Draining
  <2>3. ASSUME lpc'[l] \in Outside, eventFd' = eventFd
        PROVE  Active'
    BY <2>1, <2>3, ActiveKept DEF Draining, Outside
  <2> QED
    BY <2>1, <2>2, <2>3
<1>5. CASE UNCHANGED vars
  BY <1>5, ActiveKept DEF vars
<1> QED
  BY <1>1, <1>2, <1>3, <1>4, <1>5, QueueActive DEF Next

LEMMA NextBatches == TypeOK /\ Batches /\ [Next]_vars => Batches'
<1> SUFFICES ASSUME TypeOK, Batches, [Next]_vars
             PROVE  Batches'
  OBVIOUS
<1> USE DEF queueVars, readerVars
<1>1. ASSUME NEW l \in Loops, ProcessQueue(l)
      PROVE  Batches'
  <2>1. \A k \in Loops \ {l} : lpc'[k] = lpc[k] /\ batch'[k] = batch[k]
    BY <1>1 DEF TypeOK, ProcessQueue, TryMarkActive, DequeueAll, DequeueInactive,
                RunTask, TryMarkInactive, DiscardTask, ClearMarkInactive
  <2>2. CASE RunTask(l)
    <3>1. /\ batch[l] # <<>> /\ batch[l] \in Seq(Tasks) /\ batch'[l] = Tail(batch[l])
          /\ lpc'[l] = IF Len(batch[l]) = 1 THEN "dequeue" ELSE "run"
      BY <2>2 DEF TypeOK, Batches, RunTask
    <3> QED
      BY <2>1, <3>1, TailElements DEF Batches
  <2>3. CASE DiscardTask(l)
    <3>1. /\ batch[l] # <<>> /\ batch[l] \in Seq(Tasks) /\ batch'[l] = Tail(batch[l])
          /\ lpc'[l] = IF Len(batch[l]) = 1 THEN "clearDequeue" ELSE "clearIdleCheck"
      BY <2>3 DEF TypeOK, Batches, DiscardTask
    <3> QED
      BY <2>1, <3>1, TailElements DEF Batches
  <2>4. CASE DequeueAll(l)
    <3>1. /\ batch'[l] = queue
          /\ \/ lpc'[l] = "idleCheck" /\ queue = <<>>
             \/ lpc'[l] = "run" /\ queue # <<>>
             \/ lpc'[l] = "clearIdleCheck"
      BY <2>4 DEF TypeOK, DequeueAll
    <3> QED
      BY <2>1, <3>1 DEF Batches
  <2>5. CASE TryMarkActive(l) \/ DequeueInactive(l) \/ TryMarkInactive(l)
             \/ ClearMarkInactive(l)
    <3>1. /\ batch'[l] = batch[l] /\ lpc'[l] # "run"
          /\ lpc[l] \notin {"run", "clearIdleCheck"} \/ batch[l] = <<>>
      BY <2>5 DEF TypeOK, TryMarkActive, DequeueInactive, TryMarkInactive,
                  ClearMarkInactive
    <3> QED
      BY <2>1, <3>1 DEF Batches
  <2> QED
    BY <1>1, <2>2, <2>3, <2>4, <2>5 DEF ProcessQueue
<1>2. ASSUME NEW l \in Loops,
             \/ ReaderCallback(l) \/ FastPath(l)
             \/ Register(l) \/ AddReader(l) \/ AddReaderFails(l) \/ RegisterFails(l)
             \/ Unregister(l)
      PROVE  Batches'
  <2>1. /\ UNCHANGED batch
        /\ \A k \in Loops \ {l} : lpc'[k] = lpc[k]
        /\ lpc[l] \in Outside
        /\ lpc'[l] \in Outside \cup {"mark", "clearMark"}
    BY <1>2, ReaderSteps
  <2> QED
    BY <2>1 DEF Batches, Outside
<1>3. ASSUME \/ \E t \in Tasks : EnqueueInline(t)
             \/ \E p \in Producers, t \in Tasks : Enqueue(p, t)
             \/ \E p \in Producers : NotifyPython(p)
             \/ UNCHANGED vars
      PROVE  Batches'
  <2>1. UNCHANGED <<lpc, batch>>
    BY <1>3 DEF EnqueueInline, Enqueue, NotifyPython, vars
  <2> QED
    BY <2>1 DEF Batches
<1> QED
  BY <1>1, <1>2, <1>3 DEF Next

-----------------------------------------------------------------------------

LEMMA InitInv == Init => IInv
<1> SUFFICES ASSUME Init
             PROVE  IInv
  OBVIOUS
<1>1. TypeOK
  BY InitType
<1>2. Active /\ Batches
  BY DEF Init, Active, Batches
<1>3. DOMAIN queue = {} /\ \A l \in Loops : DOMAIN batch[l] = {}
  BY DEF Init
<1>4. Distinct /\ Queued
  BY <1>3 DEF Init, Distinct, Queued, InQueue, InBatch
<1> QED
  BY <1>1, <1>2, <1>4 DEF IInv

\* The invariant holds of every reachable state of the wake manager.
THEOREM WakeInvariant == Spec => []IInv
<1>1. Init => IInv
  BY InitInv
<1>2. IInv /\ [Next]_vars => IInv'
  BY NextType, NextActive, NextBatches, NextPlaces DEF IInv, Places
<1> QED
  BY <1>1, <1>2, PTL DEF Spec

\* Positions counted: none, or the only one there is.
LEMMA OneOrNone ==
    ASSUME NEW S, \A x, y \in S : x = y
    PROVE  /\ S = {} => Cardinality(S) = 0
           /\ S # {} => Cardinality(S) = 1
<1>1. ASSUME S # {}
      PROVE  \E x : S = {x}
  BY <1>1
<1> QED
  BY <1>1, FS_EmptySet, FS_Singleton

\* A batch is no longer than there are tasks.
LEMMA BatchLength ==
    ASSUME TypeOK, Distinct, NEW l \in Loops
    PROVE  DOMAIN batch[l] \subseteq 1 .. Cardinality(Tasks)
<1>1. batch[l] \in Seq(Tasks) /\ Len(batch[l]) \in Nat
      /\ DOMAIN batch[l] = 1 .. Len(batch[l])
  BY DEF TypeOK
<1>2. batch[l] \in Injection(DOMAIN batch[l], Tasks)
  BY <1>1 DEF Distinct, Injection, IsInjective
<1>3. Cardinality(DOMAIN batch[l]) <= Cardinality(Tasks)
  BY <1>2, TasksAssumption, FS_Injection
<1>4. Cardinality(1 .. Len(batch[l])) = Len(batch[l])
  BY <1>1, FS_Interval
<1>5. Cardinality(Tasks) \in Nat
  BY TasksAssumption, FS_CardinalityType
<1> QED
  BY <1>1, <1>3, <1>4, <1>5

LEMMA PlacesCounted == IInv => QueuedInOnePlace
<1> SUFFICES ASSUME IInv, NEW t \in Tasks
             PROVE  Cardinality({i \in DOMAIN queue : queue[i] = t})
                      + Cardinality({p \in Loops \X (1 .. Cardinality(Tasks)) :
                                       /\ p[2] \in DOMAIN batch[p[1]]
                                       /\ batch[p[1]][p[2]] = t})
                    = (IF task[t] = "queued" THEN 1 ELSE 0)
  BY DEF QueuedInOnePlace
<1> DEFINE Q == {i \in DOMAIN queue : queue[i] = t}
           B == {p \in Loops \X (1 .. Cardinality(Tasks)) :
                   /\ p[2] \in DOMAIN batch[p[1]]
                   /\ batch[p[1]][p[2]] = t}
<1>1. Q # {} <=> InQueue(t)
  BY DEF InQueue
<1>2. B # {} <=> \E l \in Loops : InBatch(l, t)
  <2>1. ASSUME NEW l \in Loops, NEW i \in DOMAIN batch[l], batch[l][i] = t
        PROVE  <<l, i>> \in B
    <3>1. i \in 1 .. Cardinality(Tasks)
      BY <2>1, BatchLength DEF IInv
    <3> QED
      BY <2>1, <3>1
  <2>2. ASSUME NEW p \in B
        PROVE  \E l \in Loops : InBatch(l, t)
    BY DEF InBatch
  <2> QED
    BY <2>1, <2>2 DEF InBatch
<1>3. \A i, j \in Q : i = j
  BY DEF IInv, Distinct
<1>4. \A p, r \in B : p = r
  <2> SUFFICES ASSUME NEW p \in B, NEW r \in B
               PROVE  p = r
    OBVIOUS
  <2>1. /\ p = <<p[1], p[2]>> /\ p[1] \in Loops /\ p[2] \in DOMAIN batch[p[1]]
        /\ batch[p[1]][p[2]] = t
    OBVIOUS
  <2>2. /\ r = <<r[1], r[2]>> /\ r[1] \in Loops /\ r[2] \in DOMAIN batch[r[1]]
        /\ batch[r[1]][r[2]] = t
    OBVIOUS
  <2>3. p[1] = r[1]
    BY <2>1, <2>2 DEF IInv, Distinct
  <2>4. p[2] = r[2]
    BY <2>1, <2>2, <2>3 DEF IInv, Distinct
  <2> QED
    BY <2>1, <2>2, <2>3, <2>4
<1>5. Q = {} \/ B = {}
  <2>1. ASSUME NEW i \in Q, NEW p \in B
        PROVE  FALSE
    BY DEF IInv, Distinct
  <2> QED
    BY <2>1
<1>6. task[t] = "queued" <=> Q # {} \/ B # {}
  BY <1>1, <1>2 DEF IInv, Queued
<1>7. /\ Q = {} => Cardinality(Q) = 0
      /\ Q # {} => Cardinality(Q) = 1
      /\ B = {} => Cardinality(B) = 0
      /\ B # {} => Cardinality(B) = 1
  BY <1>3, <1>4, OneOrNone
<1> HIDE DEF Q, B
<1>8. Cardinality(Q) + Cardinality(B) = (IF task[t] = "queued" THEN 1 ELSE 0)
  BY <1>5, <1>6, <1>7
<1> QED
  BY <1>8 DEF Q, B

\* Enqueue and ProcessQueue lose no task and run none twice, and a queued task
\* always has a wakeup on its way: for any number of producers, loops, tasks.
THEOREM NoTaskIsLost == Spec => []NoTaskLost
<1>1. IInv => WakeupPending
  BY DEF IInv, Active, Woken, WakeupPending
<1>2. IInv => NoTaskLost
  BY <1>1, PlacesCounted DEF NoTaskLost, IInv
<1> QED
  BY <1>2, WakeInvariant, PTL
=============================================================================
