--------------------------- MODULE EventLoopProofs ---------------------------
(***************************************************************************)
(* Proofs about EventLoop for any number of threads, operations, messages  *)
(* and ring entries.                                                       *)
(***************************************************************************)
EXTENDS EventLoop, FiniteSetTheorems, SequenceTheorems, TLAPS

-----------------------------------------------------------------------------
(***************************************************************************)
(* The inductive invariant.                                                *)
(***************************************************************************)

\* How far the registration of a remote queue notification has got.  It is
\* made, the queue is marked inactive, one producer signals, its event waits
\* in the ring: each of these excludes the others.
Registration ==
    /\ Signalling => remoteQueueReadSubmitted /\ ~inactive /\ ~EventPending
    /\ EventPending => remoteQueueReadSubmitted /\ ~inactive
    /\ inactive => remoteQueueReadSubmitted
    /\ pc = "mark" => ~remoteQueueReadSubmitted /\ CanSubmitIo

\* At most one entry of the ring is the remote queue's event.
OneEvent ==
    \A i, j \in cqHead .. cqTail - 1 :
      /\ cqEntries[Slot(i)] = RemoteQueueEvent
      /\ cqEntries[Slot(j)] = RemoteQueueEvent
      => i = j

\* The entry flag is set for the producer that will look at it.
EntryArmed ==
    ~lateReset /\ (inactive \/ \E p \in Producers : ppc[p] = "loadEntry")
      => remoteQueueEventEntry

\* What is known of the tails that the threads have loaded.
LoadedTails ==
    /\ cqHead <= cqTail
    /\ cqEnd <= cqTail
    /\ pc = "drain" => cqHead < cqEnd
    /\ pc = "post" => /\ post.tail <= cqTail
                      /\ post.op \in Ops
                      /\ post.ret \in {"exec", "pend", "progress"}
    /\ \A p \in Producers :
         /\ ppc[p] \in {"write", "store"} => ptail[p] <= cqTail
         /\ ppc[p] = "store" /\ ptail[p] = cqTail
              => cqEntries[Slot(cqTail)] = RemoteQueueEvent
    /\ pc # "overrun"

Untorn ==
    /\ SingleSignaller
    /\ Registration
    /\ OneEvent
    /\ EntryArmed
    /\ LoadedTails
    /\ NoLostWakeup
    /\ SlotAccounting
    /\ sqUnflushedCount + cqPendingCount <= CqEntryCount

IInv == TypeOK /\ (~torn => Untorn)

-----------------------------------------------------------------------------
(***************************************************************************)
(* Type correctness.                                                       *)
(***************************************************************************)

\* A ring index names a slot (cqMask_).
LEMMA SlotType ==
    ASSUME NEW i \in Nat
    PROVE  Slot(i) \in 0 .. CqEntryCount - 1
BY CqEntryCountAssumption DEF Slot

\* What start_io does to an operation keeps the types.
LEMMA StartIoType ==
    ASSUME TypeOK, NEW o \in RecvOps, NEW ret \in LoopPoints, pc \in LoopPoints,
           StartIoRefused(o) \/ StartIoAdmitted(o, ret)
    PROVE  /\ pc' \in LoopPoints
           /\ phase' \in [Ops -> Phases]
           /\ pendingRecvIoQueue' \in Seq(RecvOps)
           /\ amDescQueue' \in Seq(MessageKinds)
           /\ sqUnflushedCount' \in Int
           /\ cqPendingCount' \in Int
           /\ post' \in [op : Ops \cup {Unused}, tail : Nat, ret : LoopPoints]
<1> USE DEF TypeOK, Phases
<1> o \in Ops
  BY DEF Ops, RemoteOps
<1>1. CASE StartIoRefused(o)
  BY <1>1 DEF StartIoRefused
<1>2. CASE StartIoNoMessage(o)
  BY <1>2 DEF StartIoNoMessage
<1>3. CASE StartIoEager(o)
  BY <1>3 DEF StartIoEager
<1>4. CASE StartIoRndv(o)
  BY <1>4 DEF StartIoRndv
<1>5. CASE StartIoPosts(o, ret)
  BY <1>5 DEF StartIoPosts, LoopPoints
<1> QED
  BY <1>1, <1>2, <1>3, <1>4, <1>5 DEF StartIoAdmitted

LEMMA InitType == Init => TypeOK
<1> SUFFICES ASSUME Init
             PROVE  TypeOK
  OBVIOUS
<1> USE DEF Init
<1>1. /\ batch \in Seq(Ops) /\ localQueue \in Seq(Ops)
      /\ pendingIoQueue \in Seq(RecvOps) /\ pendingRecvIoQueue \in Seq(RecvOps)
      /\ amDescQueue \in Seq(MessageKinds) /\ remoteQueue \in Seq(RemoteOps)
  OBVIOUS
<1>2. /\ pc \in LoopPoints
      /\ post \in [op : Ops \cup {Unused}, tail : Nat, ret : LoopPoints]
  BY DEF LoopPoints, NoPost
<1>3. phase \in [Ops -> Phases]
  BY DEF Phases
<1>4. ppc \in [Producers -> ProducerPoints] /\ ptail \in [Producers -> Nat]
  BY DEF ProducerPoints
<1>5. cqEntries \in [0 .. CqEntryCount - 1 -> Entries]
  BY DEF Entries
<1>6. arrived \in 0 .. MaxMessages
  BY MaxMessagesAssumption
<1>7. /\ inactive \in BOOLEAN /\ remoteQueueEventEntry \in BOOLEAN
      /\ remoteQueueReadSubmitted \in BOOLEAN /\ shouldStop \in BOOLEAN
      /\ torn \in BOOLEAN /\ lateReset \in BOOLEAN
  OBVIOUS
<1>8. /\ sqUnflushedCount \in Int /\ cqPendingCount \in Int
      /\ cqHead \in Nat /\ cqTail \in Nat /\ cqEnd \in Nat
  OBVIOUS
<1> HIDE DEF Init
<1> QED
  BY <1>1, <1>2, <1>3, <1>4, <1>5, <1>6, <1>7, <1>8 DEF TypeOK

LEMMA ProducerType ==
    ASSUME TypeOK, NEW p \in Producers, SignalRemoteQueue(p)
    PROVE  TypeOK'
<1> USE DEF TypeOK, ProducerPoints, ioVars, countVars, cqVars, remoteVars,
            historyVars
<1>1. CASE SignalLoadEntry(p)
  BY <1>1 DEF SignalLoadEntry
<1>2. CASE SubmitEventLoadTail(p)
  BY <1>2 DEF SubmitEventLoadTail
<1>3. CASE SubmitEventWrite(p)
  <2> Slot(ptail[p]) \in 0 .. CqEntryCount - 1
    BY SlotType
  <2> QED
    BY <1>3 DEF SubmitEventWrite, Entries
<1>4. CASE SubmitEventStoreTail(p)
  BY <1>4 DEF SubmitEventStoreTail
<1>5. CASE SignalResetEntry(p)
  BY <1>5 DEF SignalResetEntry
<1> QED
  BY <1>1, <1>2, <1>3, <1>4, <1>5 DEF SignalRemoteQueue

LEMMA NextType == TypeOK /\ [Next]_vars => TypeOK'
<1> SUFFICES ASSUME TypeOK, [Next]_vars
             PROVE  TypeOK'
  OBVIOUS
<1> USE DEF TypeOK, ioVars, countVars, cqVars, remoteVars, producerVars,
            historyVars
<1>1. ASSUME NEW p \in Producers, NEW o \in RemoteOps, ScheduleRemote(p, o)
      PROVE  TypeOK'
  <2>1. o \in Ops
    BY DEF Ops
  <2>2. phase' \in [Ops -> Phases]
    BY <1>1, <2>1 DEF ScheduleRemote, Phases
  <2>3. ppc' \in [Producers -> ProducerPoints]
    BY <1>1 DEF ScheduleRemote, ProducerPoints
  <2>4. remoteQueue' \in Seq(RemoteOps)
    BY <1>1 DEF ScheduleRemote
  <2> QED
    BY <1>1, <2>2, <2>3, <2>4 DEF ScheduleRemote
<1>2. ASSUME NEW p \in Producers, SignalRemoteQueue(p)
      PROVE  TypeOK'
  BY <1>2, ProducerType
<1>3. CASE ExecutePendingLocal
  BY <1>3 DEF ExecutePendingLocal, LoopPoints
<1>4. CASE ExecuteTask
  <2>1. Head(batch) \in Ops /\ batch' \in Seq(Ops)
    BY <1>4, HeadTailProperties DEF ExecuteTask
  <2>2. phase' \in [Ops -> Phases] /\ localQueue' \in Seq(Ops)
    <3>1. CASE /\ phase' = [phase EXCEPT ![Head(batch)] = "done"]
               /\ UNCHANGED localQueue
      BY <3>1, <2>1 DEF Phases
    <3>2. ASSUME NEW o \in LocalTasks,
                 phase' = [phase EXCEPT ![Head(batch)] = "done", ![o] = "queued"],
                 localQueue' = Append(localQueue, o)
          PROVE  phase' \in [Ops -> Phases] /\ localQueue' \in Seq(Ops)
      <4> o \in Ops
        BY DEF Ops
      <4>1. phase' \in [Ops -> Phases]
        BY <3>2, <2>1 DEF Phases
      <4>2. localQueue' \in Seq(Ops)
        BY <3>2
      <4> QED
        BY <4>1, <4>2
    <3> QED
      BY <1>4, <3>1, <3>2 DEF ExecuteTask
  <2> QED
    BY <1>4, <2>1, <2>2 DEF ExecuteTask
<1>5. CASE ExecuteStop
  BY <1>5 DEF ExecuteStop, Phases
<1>6. CASE ExecuteReadComplete
  BY <1>6 DEF ExecuteReadComplete, Phases
<1>7. CASE ExecuteStartIo
  <2> "exec" \in LoopPoints
    BY DEF LoopPoints
  <2> QED
    <3>1. Head(batch) \in RecvOps /\ batch' \in Seq(Ops)
      BY <1>7, HeadTailProperties DEF ExecuteStartIo
    <3>2. pendingIoQueue' \in Seq(RecvOps)
      <4>1. \/ pendingIoQueue' = Append(pendingIoQueue, Head(batch))
            \/ pendingIoQueue' = pendingIoQueue
        BY <1>7 DEF ExecuteStartIo
      <4>2. Append(pendingIoQueue, Head(batch)) \in Seq(RecvOps)
        BY <3>1, AppendProperties
      <4> QED
        BY <4>1, <4>2
    <3>3. \/ StartIoRefused(Head(batch))
          \/ StartIoAdmitted(Head(batch), "exec")
      BY <1>7 DEF ExecuteStartIo
    <3>4. /\ pc' \in LoopPoints
          /\ phase' \in [Ops -> Phases]
          /\ pendingRecvIoQueue' \in Seq(RecvOps)
          /\ amDescQueue' \in Seq(MessageKinds)
          /\ sqUnflushedCount' \in Int
          /\ cqPendingCount' \in Int
          /\ post' \in [op : Ops \cup {Unused}, tail : Nat, ret : LoopPoints]
      BY <3>1, <3>3, StartIoType
    <3> QED
      BY <1>7, <3>1, <3>2, <3>4 DEF ExecuteStartIo
<1>8. CASE BatchFinished
  BY <1>8 DEF BatchFinished, LoopPoints
<1>9. CASE LoadCompletionQueueTail
  BY <1>9 DEF LoadCompletionQueueTail, LoopPoints
<1>10. CASE AcquireCompletionQueueItem
  <2>1. CASE TakeRemoteQueueEvent
    <3>1. remoteQueueReadSubmitted' \in BOOLEAN
      BY <2>1, Zenon DEF TakeRemoteQueueEvent
    <3>4. sqUnflushedCount' \in Int
      BY <2>1 DEF TakeRemoteQueueEvent
    <3>2. cqHead' \in Nat /\ pc' \in LoopPoints
      BY <1>10 DEF AcquireCompletionQueueItem, LoopPoints
    <3>3. UNCHANGED <<localQueue, cqPendingCount>>
      BY <2>1 DEF TakeRemoteQueueEvent
    <3> QED
      BY <1>10, <3>1, <3>2, <3>3, <3>4 DEF AcquireCompletionQueueItem
  <2>2. CASE TakeOpCompletion
    BY <1>10, <2>2 DEF AcquireCompletionQueueItem, TakeOpCompletion, LoopPoints
  <2> QED
    BY <1>10, <2>1, <2>2 DEF AcquireCompletionQueueItem
<1>11. CASE CompletionCountOverrun
  BY <1>11 DEF CompletionCountOverrun, LoopPoints
<1>12. CASE AcquireRemoteQueuedItems
  <2>1. remoteQueue \in Seq(Ops)
    BY SeqMonotonic DEF Ops
  <2>2. localQueue' \in Seq(Ops) /\ remoteQueue' \in Seq(RemoteOps)
    <3>1. CASE remoteQueueReadSubmitted
      BY <1>12, <3>1 DEF AcquireRemoteQueuedItems
    <3>2. CASE ~remoteQueueReadSubmitted
      <4>1. localQueue \o remoteQueue \in Seq(Ops)
        BY <2>1, ConcatProperties
      <4>2. localQueue' = localQueue \o remoteQueue /\ remoteQueue' = <<>>
        BY <1>12, <3>2 DEF AcquireRemoteQueuedItems
      <4>3. <<>> \in Seq(RemoteOps)
        OBVIOUS
      <4> QED
        BY <4>1, <4>2, <4>3, Zenon
    <3> QED
      BY <3>1, <3>2
  <2> QED
    BY <1>12, <2>2 DEF AcquireRemoteQueuedItems, LoopPoints
<1>13. CASE ExecutePendingIo
  <2> "pend" \in LoopPoints
    BY DEF LoopPoints
  <2> QED
    BY <1>13, StartIoType DEF ExecutePendingIo
<1>14. CASE PendingIoFinished
  BY <1>14 DEF PendingIoFinished, LoopPoints
<1>15. CASE RegisterArm
  <2>1. CASE WantsNotification
    BY <1>15, <2>1 DEF RegisterArm, LoopPoints
  <2>2. CASE ~WantsNotification
    BY <1>15, <2>2 DEF RegisterArm, LoopPoints
  <2> QED
    BY <2>1, <2>2
<1>16. CASE RegisterMarkInactive
  BY <1>16 DEF RegisterMarkInactive, LoopPoints
<1>17. CASE RegisterDequeueAll
  <2>1. remoteQueue \in Seq(Ops)
    BY SeqMonotonic DEF Ops
  <2>2. localQueue' \in Seq(Ops) /\ remoteQueue' \in Seq(RemoteOps)
    <3>1. localQueue' = localQueue \o remoteQueue /\ remoteQueue' = <<>>
      BY <1>17 DEF RegisterDequeueAll
    <3>2. localQueue \o remoteQueue \in Seq(Ops)
      BY <2>1, ConcatProperties
    <3>3. <<>> \in Seq(RemoteOps)
      OBVIOUS
    <3> QED
      BY <3>1, <3>2, <3>3, Zenon
  <2>3. pc' \in LoopPoints /\ remoteQueueEventEntry' \in BOOLEAN
    BY <1>17 DEF RegisterDequeueAll, LoopPoints
  <2> QED
    BY <1>17, <2>2, <2>3 DEF RegisterDequeueAll
<1>18. CASE AmRecvCallback
  <2>1. amDescQueue' \in Seq(MessageKinds) /\ arrived' \in 0 .. MaxMessages
    BY <1>18, MaxMessagesAssumption DEF AmRecvCallback
  <2>2. /\ phase' \in [Ops -> Phases]
        /\ pendingIoQueue' \in Seq(RecvOps)
        /\ pendingRecvIoQueue' \in Seq(RecvOps)
    <3>1. CASE pendingRecvIoQueue = <<>>
      BY <1>18, <3>1 DEF AmRecvCallback
    <3>2. CASE pendingRecvIoQueue # <<>>
      <4>1. /\ Head(pendingRecvIoQueue) \in RecvOps
            /\ Tail(pendingRecvIoQueue) \in Seq(RecvOps)
        BY <3>2, HeadTailProperties
      <4>2. Head(pendingRecvIoQueue) \in Ops
        BY <4>1 DEF Ops, RemoteOps
      <4>3. <<Head(pendingRecvIoQueue)>> \o pendingIoQueue \in Seq(RecvOps)
        BY <4>1
      <4> QED
        BY <1>18, <3>2, <4>1, <4>2, <4>3 DEF AmRecvCallback, Phases
    <3> QED
      BY <3>1, <3>2
  <2> QED
    BY <1>18, <2>1, <2>2 DEF AmRecvCallback
<1>19. ASSUME NEW o \in RecvOps, RequestCallback(o)
       PROVE  TypeOK'
  BY <1>19 DEF RequestCallback, Phases, LoopPoints, Ops, RemoteOps
<1>20. CASE ProgressFinished
  BY <1>20 DEF ProgressFinished, LoopPoints
<1>21. CASE PostCompletion
  <2> Slot(post.tail) \in 0 .. CqEntryCount - 1
    BY SlotType
  <2> QED
    BY <1>21 DEF PostCompletion, NoPost, LoopPoints, Entries
<1>22. CASE UNCHANGED vars
  BY <1>22 DEF vars
<1> QED
  BY <1>1, <1>2, <1>3, <1>4, <1>5, <1>6, <1>7, <1>8, <1>9, <1>10, <1>11,
     <1>12, <1>13, <1>14, <1>15, <1>16, <1>17, <1>18, <1>19, <1>20, <1>21,
     <1>22
  DEF Next, IoThread

\* Type correctness of the run loop and its producers: in particular nothing
\* but an operation reaches execute_pending_local, whatever the interleaving
\* of the threads that write the completion ring.
THEOREM TypeCorrect == Spec => []TypeOK
BY InitType, NextType, PTL DEF Spec
-----------------------------------------------------------------------------
(***************************************************************************)
(* The ring.                                                               *)
(***************************************************************************)

\* Two different indices less than a ring apart have different slots.
LEMMA SlotDistinct ==
    ASSUME NEW i \in Nat, NEW j \in Nat, i < j, j - i < CqEntryCount
    PROVE  Slot(i) # Slot(j)
<1> DEFINE N == CqEntryCount
           a == i \div N
           b == j \div N
<1>1. N \in Nat \ {0}
  BY CqEntryCountAssumption
<1> HIDE DEF N
<1>2. a \in Int /\ b \in Int /\ i % N \in Int /\ j % N \in Int
  BY <1>1
<1>3. i = N * a + (i % N) /\ j = N * b + (j % N)
  BY <1>1
<1> HIDE DEF a, b
<1>4. ASSUME i % N = j % N
      PROVE  FALSE
  <2>1. j - i = N * b - N * a
    BY <1>1, <1>2, <1>3, <1>4
  <2>2. N * b - N * a = N * (b - a)
    BY <1>1, <1>2
  <2>3. 0 < N * (b - a) /\ N * (b - a) < N
    BY <2>1, <2>2 DEF N
  <2>4. CASE b - a >= 1
    <3>1. N * ((b - a) - 1) >= 0
      BY <1>1, <1>2, <2>4
    <3> QED
      BY <1>1, <1>2, <2>3, <3>1
  <2>5. CASE b - a <= 0
    <3>1. N * (0 - (b - a)) >= 0
      BY <1>1, <1>2, <2>5
    <3> QED
      BY <1>1, <1>2, <2>3, <3>1
  <2> QED
    BY <1>2, <2>4, <2>5
<1> QED
  BY <1>4 DEF Slot, N

\* Writing the slot of cqTail_ leaves the entries of the ring alone as long as
\* the ring is not full.
LEMMA RingKept ==
    ASSUME TypeOK, NEW e, cqTail - cqHead < CqEntryCount,
           cqEntries' = [cqEntries EXCEPT ![Slot(cqTail)] = e]
    PROVE  /\ cqEntries'[Slot(cqTail)] = e
           /\ \A i \in cqHead .. cqTail - 1 :
                cqEntries'[Slot(i)] = cqEntries[Slot(i)]
<1>1. Slot(cqTail) \in 0 .. CqEntryCount - 1
  BY SlotType DEF TypeOK
<1>2. cqEntries'[Slot(cqTail)] = e
  BY <1>1 DEF TypeOK
<1>3. ASSUME NEW i \in cqHead .. cqTail - 1
      PROVE  cqEntries'[Slot(i)] = cqEntries[Slot(i)]
  <2>1. i \in Nat /\ cqTail \in Nat /\ i < cqTail /\ cqTail - i < CqEntryCount
    BY CqEntryCountAssumption DEF TypeOK
  <2>2. Slot(i) # Slot(cqTail)
    BY <2>1, SlotDistinct
  <2>3. Slot(i) \in 0 .. CqEntryCount - 1
    BY <2>1, SlotType
  <2> QED
    BY <1>1, <2>2, <2>3 DEF TypeOK
<1> QED
  BY <1>2, <1>3

LEMMA InFlightFinite == IsFiniteSet(InFlight) /\ Cardinality(InFlight) \in Nat
<1>1. InFlight \subseteq RecvOps
  BY DEF InFlight
<1> QED
  BY <1>1, RecvOpsAssumption, FS_Subset, FS_CardinalityType

\* The counters leave room in the ring for whoever is about to write to it.
LEMMA Room ==
    ASSUME TypeOK, Untorn, ~torn
    PROVE  /\ cqTail - cqHead \in 0 .. CqEntryCount
           /\ pc = "post" \/ Signalling => cqTail - cqHead < CqEntryCount
<1> DEFINE card == Cardinality(InFlight)
           ev == AsInt(EventPending)
           po == AsInt(pc = "post")
           rd == AsInt(remoteQueueReadSubmitted)
<1>1. card \in Nat
  BY InFlightFinite
<1>2. /\ ev \in {0, 1} /\ po \in {0, 1} /\ rd \in {0, 1}
      /\ pc = "post" => po = 1
      /\ EventPending => rd = 1
      /\ ~EventPending => ev = 0
      /\ Signalling => rd = 1 /\ ev = 0
  BY DEF AsInt, Untorn, Registration
<1>3. /\ sqUnflushedCount = rd + card
      /\ cqPendingCount + ev = cqTail - cqHead + po
      /\ sqUnflushedCount + cqPendingCount <= CqEntryCount
  BY DEF Untorn, SlotAccounting
<1>4. /\ sqUnflushedCount \in Int /\ cqPendingCount \in Int
      /\ cqHead \in Int /\ cqTail \in Int /\ CqEntryCount \in Int
  BY CqEntryCountAssumption DEF TypeOK
<1> HIDE DEF card, ev, po, rd
<1>5. ev <= rd
  BY <1>2
<1>6. cqHead <= cqTail
  BY DEF Untorn, LoadedTails
<1> QED
  BY <1>1, <1>2, <1>3, <1>4, <1>5, <1>6

-----------------------------------------------------------------------------
(***************************************************************************)
(* Steps that keep the invariant.                                          *)
(***************************************************************************)

\* What the counters and the ring depend on is left alone.
LEMMA CountsKept ==
    ASSUME SlotAccounting, ~torn,
           UNCHANGED <<countVars, cqEntries, cqHead, cqTail>>,
           InFlight' = InFlight, (pc = "post") <=> (pc' = "post")
    PROVE  /\ EventPending' <=> EventPending
           /\ OneEvent <=> OneEvent'
           /\ SlotAccounting'
<1>1. EventPending' <=> EventPending
  BY DEF EventPending
<1>2. OneEvent <=> OneEvent'
  BY DEF OneEvent
<1>3. /\ AsInt(EventPending)' = AsInt(EventPending)
      /\ AsInt(pc = "post")' = AsInt(pc = "post")
      /\ AsInt(remoteQueueReadSubmitted)' = AsInt(remoteQueueReadSubmitted)
  BY <1>1 DEF AsInt, countVars
<1> QED
  BY <1>1, <1>2, <1>3 DEF SlotAccounting, countVars

\* A step of the I/O thread on its own data.
LEMMA QuietStep ==
    ASSUME Untorn, ~torn,
           UNCHANGED <<countVars, cqVars, inactive, producerVars, historyVars,
                       post>>,
           InFlight' = InFlight,
           remoteQueueEventEntry' = remoteQueueEventEntry
             \/ remoteQueueEventEntry' = TRUE,
           pc # "post",
           pc' \notin {"post", "drain", "overrun"},
           pc' = "mark" => pc = "mark" \/ (~remoteQueueReadSubmitted /\ CanSubmitIo)
    PROVE  Untorn'
<1> USE DEF Untorn, countVars, cqVars, producerVars, historyVars
<1>1. /\ EventPending' <=> EventPending
      /\ OneEvent'
      /\ SlotAccounting'
  BY CountsKept
<1>2. Signalling' <=> Signalling
  BY DEF Signalling
<1>3. SingleSignaller'
  BY DEF SingleSignaller
<1>4. Registration'
  BY <1>1, <1>2 DEF Registration, CanSubmitIo
<1>5. EntryArmed'
  BY DEF EntryArmed
<1>6. LoadedTails'
  BY DEF LoadedTails
<1>7. NoLostWakeup'
  BY <1>1, <1>2 DEF NoLostWakeup
<1> QED
  BY <1>1, <1>3, <1>4, <1>5, <1>6, <1>7

LEMMA ScheduleRemoteStep ==
    ASSUME TypeOK, TypeOK', Untorn, ~torn,
           NEW p \in Producers, NEW o \in RemoteOps, ScheduleRemote(p, o)
    PROVE  Untorn'
<1> USE DEF Untorn
<1>0. /\ UNCHANGED <<pc, countVars, cqVars, remoteQueueEventEntry, ptail, post,
                     historyVars>>
      /\ inactive' = FALSE
      /\ ppc[p] = "idle"
      /\ ppc' = [ppc EXCEPT ![p] = IF inactive THEN "loadEntry" ELSE "idle"]
      /\ phase[o] = "new"
      /\ phase' = [phase EXCEPT ![o] = "queued"]
  BY DEF ScheduleRemote
<1>1. InFlight' = InFlight
  <2>1. \A r \in RecvOps : phase'[r] = "inflight" <=> phase[r] = "inflight"
    BY <1>0 DEF TypeOK, Ops, RemoteOps
  <2> QED
    BY <2>1 DEF InFlight
<1>2. /\ EventPending' <=> EventPending
      /\ OneEvent'
      /\ SlotAccounting'
  BY <1>0, <1>1, CountsKept DEF cqVars
<1>3. \A q \in Producers : q # p => ppc'[q] = ppc[q]
  BY <1>0 DEF TypeOK
<1>4. ppc'[p] = IF inactive THEN "loadEntry" ELSE "idle"
  BY <1>0 DEF TypeOK
<1>5. LoadedTails'
  <2>1. \A q \in Producers : ppc'[q] \in {"write", "store"} => ppc'[q] = ppc[q]
    BY <1>3, <1>4
  <2> QED
    BY <1>0, <2>1 DEF LoadedTails, cqVars
<1>6. CASE inactive
  <2>1. ~Signalling /\ ~EventPending /\ remoteQueueReadSubmitted
    BY <1>6 DEF Registration
  <2>2. \A q \in Producers : ppc[q] \notin SignalPoints
    BY <2>1 DEF Signalling
  <2>3. Signalling'
    BY <1>4, <1>6 DEF Signalling, SignalPoints
  <2>4. SingleSignaller'
    BY <1>3, <2>2 DEF SingleSignaller
  <2>5. Registration'
    BY <1>0, <1>2, <2>1 DEF Registration, CanSubmitIo, countVars
  <2>6. EntryArmed'
    BY <1>0, <1>6 DEF EntryArmed, historyVars
  <2>7. NoLostWakeup'
    BY <2>3 DEF NoLostWakeup
  <2> QED
    BY <1>0, <1>2, <1>5, <2>4, <2>5, <2>6, <2>7 DEF countVars
<1>7. CASE ~inactive
  <2>1. \A q \in Producers : ppc'[q] = ppc[q]
    BY <1>0, <1>3, <1>4, <1>7
  <2>2. Signalling' <=> Signalling
    BY <2>1 DEF Signalling
  <2>3. inactive' <=> inactive
    BY <1>0, <1>7
  <2>4. SingleSignaller'
    BY <1>0, <2>1 DEF SingleSignaller, historyVars
  <2>5. Registration'
    BY <1>0, <1>2, <2>2, <2>3 DEF Registration, CanSubmitIo, countVars
  <2>6. EntryArmed'
    BY <1>0, <2>1, <2>3 DEF EntryArmed, historyVars
  <2>7. NoLostWakeup'
    BY <1>0, <1>2, <2>2, <2>3 DEF NoLostWakeup, historyVars, countVars
  <2> QED
    BY <1>0, <1>2, <1>5, <2>4, <2>5, <2>6, <2>7 DEF countVars
<1> QED
  BY <1>6, <1>7

\* A producer that has not yet published its event moves on, or finds the
\* entry flag cleared and gives up.
LEMMA SignalLoadEntryStep ==
    ASSUME TypeOK, TypeOK', Untorn, ~torn, NEW p \in Producers,
           SignalLoadEntry(p)
    PROVE  Untorn'
<1> USE DEF Untorn
<1>0. /\ UNCHANGED <<ioVars, countVars, cqVars, remoteVars, ptail, historyVars>>
      /\ ppc[p] = "loadEntry"
      /\ ppc' = [ppc EXCEPT ![p] =
                   IF remoteQueueEventEntry THEN "loadTail" ELSE "idle"]
  BY DEF SignalLoadEntry
<1>1. InFlight' = InFlight
  BY <1>0 DEF InFlight, ioVars
<1>2. /\ EventPending' <=> EventPending
      /\ OneEvent'
      /\ SlotAccounting'
  BY <1>0, <1>1, CountsKept DEF cqVars, ioVars
<1>3. /\ \A q \in Producers : q # p => ppc'[q] = ppc[q]
      /\ ppc'[p] = IF remoteQueueEventEntry THEN "loadTail" ELSE "idle"
  BY <1>0 DEF TypeOK
<1>4. \A q \in Producers :
        /\ ppc'[q] \in SignalPoints => ppc[q] \in SignalPoints
        /\ ppc'[q] = "loadEntry" => ppc[q] = "loadEntry"
        /\ ppc'[q] \in {"write", "store"} => ppc'[q] = ppc[q]
  BY <1>0, <1>3 DEF SignalPoints
<1>5. SingleSignaller'
  BY <1>0, <1>4 DEF SingleSignaller, historyVars
<1>6. Signalling /\ (Signalling' => Signalling)
  BY <1>0, <1>4 DEF Signalling, SignalPoints
<1>7. Registration'
  BY <1>0, <1>2, <1>6 DEF Registration, CanSubmitIo, countVars, remoteVars,
                          ioVars
<1>8. EntryArmed'
  BY <1>0, <1>4 DEF EntryArmed, historyVars, remoteVars
<1>9. LoadedTails'
  BY <1>0, <1>4 DEF LoadedTails, cqVars, ioVars
<1>10. NoLostWakeup'
  <2>1. CASE remoteQueueEventEntry
    <3>1. Signalling'
      BY <1>3, <2>1 DEF Signalling, SignalPoints
    <3> QED
      BY <3>1 DEF NoLostWakeup
  <2>2. CASE ~remoteQueueEventEntry
    <3>1. lateReset
      BY <1>0, <2>2 DEF EntryArmed
    <3> QED
      BY <1>0, <3>1 DEF NoLostWakeup, historyVars
  <2> QED
    BY <2>1, <2>2
<1> QED
  BY <1>0, <1>2, <1>5, <1>7, <1>8, <1>9, <1>10 DEF countVars

LEMMA SubmitEventLoadTailStep ==
    ASSUME TypeOK, TypeOK', Untorn, ~torn, NEW p \in Producers,
           SubmitEventLoadTail(p)
    PROVE  Untorn'
<1> USE DEF Untorn
<1>0. /\ UNCHANGED <<ioVars, countVars, cqVars, remoteVars, historyVars>>
      /\ ppc[p] = "loadTail"
      /\ ppc' = [ppc EXCEPT ![p] = "write"]
      /\ ptail' = [ptail EXCEPT ![p] = cqTail]
  BY DEF SubmitEventLoadTail
<1>1. InFlight' = InFlight
  BY <1>0 DEF InFlight, ioVars
<1>2. /\ EventPending' <=> EventPending
      /\ OneEvent'
      /\ SlotAccounting'
  BY <1>0, <1>1, CountsKept DEF cqVars, ioVars
<1>3. /\ \A q \in Producers : q # p => ppc'[q] = ppc[q] /\ ptail'[q] = ptail[q]
      /\ ppc'[p] = "write"
      /\ ptail'[p] = cqTail
  BY <1>0 DEF TypeOK
<1>4. \A q \in Producers :
        /\ ppc'[q] \in SignalPoints <=> ppc[q] \in SignalPoints
        /\ ppc'[q] = "loadEntry" => ppc[q] = "loadEntry"
  BY <1>0, <1>3 DEF SignalPoints
<1>5. SingleSignaller'
  BY <1>0, <1>4 DEF SingleSignaller, historyVars
<1>6. Signalling' <=> Signalling
  BY <1>4 DEF Signalling
<1>7. Registration'
  BY <1>0, <1>2, <1>6 DEF Registration, CanSubmitIo, countVars, remoteVars,
                          ioVars
<1>8. EntryArmed'
  BY <1>0, <1>4 DEF EntryArmed, historyVars, remoteVars
<1>9. LoadedTails'
  <2>1. cqTail' = cqTail /\ cqEntries' = cqEntries /\ cqTail <= cqTail
    BY <1>0 DEF cqVars, TypeOK
  <2>2. \A q \in Producers :
          /\ ppc'[q] \in {"write", "store"} => ptail'[q] <= cqTail
          /\ ppc'[q] = "store" /\ ptail'[q] = cqTail
               => cqEntries[Slot(cqTail)] = RemoteQueueEvent
    BY <1>3, <2>1 DEF LoadedTails
  <2> QED
    BY <1>0, <2>1, <2>2 DEF LoadedTails, cqVars, ioVars
<1>10. NoLostWakeup'
  BY <1>0, <1>2, <1>6 DEF NoLostWakeup, historyVars, countVars, remoteVars
<1> QED
  BY <1>0, <1>2, <1>5, <1>7, <1>8, <1>9, <1>10 DEF countVars

\* The event is written to the slot of cqTail_, which is free.
LEMMA SubmitEventWriteStep ==
    ASSUME TypeOK, TypeOK', Untorn, ~torn, ~torn', NEW p \in Producers,
           SubmitEventWrite(p)
    PROVE  Untorn'
<1> USE DEF Untorn
<1>0. /\ UNCHANGED <<ioVars, countVars, cqHead, cqTail, cqEnd, remoteVars,
                     ptail, lateReset>>
      /\ ppc[p] = "write"
      /\ ppc' = [ppc EXCEPT ![p] = "store"]
      /\ cqEntries' = [cqEntries EXCEPT ![Slot(ptail[p])] = RemoteQueueEvent]
      /\ ptail[p] = cqTail
  BY DEF SubmitEventWrite
<1>1. InFlight' = InFlight
  BY <1>0 DEF InFlight, ioVars
<1>2. Signalling
  BY <1>0 DEF Signalling, SignalPoints
<1>3. /\ cqEntries'[Slot(cqTail)] = RemoteQueueEvent
      /\ \A i \in cqHead .. cqTail - 1 :
           cqEntries'[Slot(i)] = cqEntries[Slot(i)]
  BY <1>0, <1>2, Room, RingKept
<1>4. /\ EventPending' <=> EventPending
      /\ OneEvent'
  BY <1>0, <1>3 DEF EventPending, OneEvent
<1>5. SlotAccounting'
  <2>1. /\ AsInt(EventPending)' = AsInt(EventPending)
        /\ AsInt(pc = "post")' = AsInt(pc = "post")
        /\ AsInt(remoteQueueReadSubmitted)' = AsInt(remoteQueueReadSubmitted)
    BY <1>0, <1>4 DEF AsInt, countVars, ioVars
  <2> QED
    BY <1>0, <1>1, <2>1 DEF SlotAccounting, countVars
<1>6. /\ \A q \in Producers : q # p => ppc'[q] = ppc[q]
      /\ ppc'[p] = "store"
  BY <1>0 DEF TypeOK
<1>7. \A q \in Producers :
        /\ ppc'[q] \in SignalPoints <=> ppc[q] \in SignalPoints
        /\ ppc'[q] = "loadEntry" => ppc[q] = "loadEntry"
        /\ ppc'[q] \in {"write", "store"} => ppc[q] \in {"write", "store"}
  BY <1>0, <1>6 DEF SignalPoints
<1>8. SingleSignaller'
  BY <1>7 DEF SingleSignaller
<1>9. Signalling' <=> Signalling
  BY <1>7 DEF Signalling
<1>10. Registration'
  BY <1>0, <1>4, <1>9 DEF Registration, CanSubmitIo, countVars, remoteVars,
                          ioVars
<1>11. EntryArmed'
  BY <1>0, <1>7 DEF EntryArmed, remoteVars
<1>12. LoadedTails'
  BY <1>0, <1>3, <1>7 DEF LoadedTails, ioVars
<1>13. NoLostWakeup'
  BY <1>2, <1>9 DEF NoLostWakeup
<1> QED
  BY <1>0, <1>4, <1>5, <1>8, <1>10, <1>11, <1>12, <1>13 DEF countVars

\* The event is published: the signaller is done and its event takes over.
LEMMA SubmitEventStoreTailStep ==
    ASSUME TypeOK, TypeOK', Untorn, ~torn, ~torn', NEW p \in Producers,
           SubmitEventStoreTail(p)
    PROVE  Untorn'
<1> USE DEF Untorn
<1>0. /\ UNCHANGED <<ioVars, countVars, cqEntries, cqHead, cqEnd, remoteVars,
                     ptail, lateReset>>
      /\ ppc[p] = "store"
      /\ ppc' = [ppc EXCEPT ![p] = "reset"]
      /\ cqTail' = cqTail + 1
      /\ ptail[p] = cqTail
  BY DEF SubmitEventStoreTail
<1>1. InFlight' = InFlight
  BY <1>0 DEF InFlight, ioVars
<1>2. Signalling /\ ~EventPending /\ remoteQueueReadSubmitted /\ ~inactive
  BY <1>0 DEF Signalling, SignalPoints, Registration
<1>3. cqEntries[Slot(cqTail)] = RemoteQueueEvent
  BY <1>0 DEF LoadedTails
<1>4. cqHead \in Nat /\ cqTail \in Nat /\ cqHead <= cqTail
  BY DEF TypeOK, LoadedTails
<1>5. \A i \in cqHead' .. cqTail' - 1 : i = cqTail \/ i \in cqHead .. cqTail - 1
  BY <1>0, <1>4
<1>6. EventPending'
  <2>1. cqTail \in cqHead' .. cqTail' - 1
    BY <1>0, <1>4
  <2> QED
    BY <1>0, <1>3, <2>1 DEF EventPending
<1>7. OneEvent'
  BY <1>0, <1>2, <1>5 DEF EventPending, OneEvent
<1>8. SlotAccounting'
  <2>1. /\ AsInt(EventPending) = 0 /\ AsInt(EventPending)' = 1
        /\ AsInt(pc = "post")' = AsInt(pc = "post")
        /\ AsInt(pc = "post") \in Int
        /\ AsInt(remoteQueueReadSubmitted)' = AsInt(remoteQueueReadSubmitted)
    BY <1>0, <1>2, <1>6 DEF AsInt, countVars, ioVars
  <2>2. cqPendingCount \in Int
    BY DEF TypeOK
  <2> QED
    BY <1>0, <1>1, <1>4, <2>1, <2>2 DEF SlotAccounting, countVars
<1>9. \A q \in Producers : ppc'[q] \notin SignalPoints
  <2>1. \A q \in Producers : q # p => ppc[q] \notin SignalPoints
    BY <1>0 DEF SingleSignaller, SignalPoints
  <2> QED
    BY <1>0, <2>1 DEF TypeOK, SignalPoints
<1>10. SingleSignaller'
  BY <1>9 DEF SingleSignaller
<1>11. ~Signalling'
  BY <1>9 DEF Signalling
<1>12. Registration'
  BY <1>0, <1>2, <1>11 DEF Registration, CanSubmitIo, countVars, remoteVars,
                           ioVars
<1>13. EntryArmed'
  BY <1>0, <1>2, <1>9 DEF EntryArmed, remoteVars, SignalPoints
<1>14. LoadedTails'
  <2>1. cqHead' <= cqTail' /\ cqEnd' <= cqTail'
    <3>1. cqEnd \in Nat
      BY DEF TypeOK
    <3>2. cqEnd <= cqTail
      BY DEF LoadedTails
    <3> QED
      BY <1>0, <1>4, <3>1, <3>2
  <2>2. pc = "post" => post.tail <= cqTail + 1
    <3>1. post.tail \in Nat
      BY DEF TypeOK
    <3>2. pc = "post" => post.tail <= cqTail
      BY DEF LoadedTails
    <3> QED
      BY <1>4, <3>1, <3>2
  <2>3. \A q \in Producers : ppc'[q] \notin {"write", "store"}
    BY <1>9 DEF SignalPoints
  <2> QED
    BY <1>0, <2>1, <2>2, <2>3 DEF LoadedTails, ioVars
<1>15. NoLostWakeup'
  BY <1>6 DEF NoLostWakeup
<1> QED
  BY <1>0, <1>7, <1>8, <1>10, <1>12, <1>13, <1>14, <1>15 DEF countVars

LEMMA SignalResetEntryStep ==
    ASSUME TypeOK, TypeOK', Untorn, ~torn, NEW p \in Producers,
           SignalResetEntry(p)
    PROVE  Untorn'
<1> USE DEF Untorn
<1>0. /\ UNCHANGED <<ioVars, countVars, cqVars, remoteQueue, inactive, ptail,
                     torn>>
      /\ ppc[p] = "reset"
      /\ ppc' = [ppc EXCEPT ![p] = "idle"]
      /\ lateReset' = (lateReset \/ inactive
                                 \/ \E q \in Producers : ppc[q] = "loadEntry")
  BY DEF SignalResetEntry
<1>1. InFlight' = InFlight
  BY <1>0 DEF InFlight, ioVars
<1>2. /\ EventPending' <=> EventPending
      /\ OneEvent'
      /\ SlotAccounting'
  BY <1>0, <1>1, CountsKept DEF cqVars, ioVars
<1>3. /\ \A q \in Producers : q # p => ppc'[q] = ppc[q]
      /\ ppc'[p] = "idle"
  BY <1>0 DEF TypeOK
<1>4. \A q \in Producers :
        /\ ppc'[q] \in SignalPoints <=> ppc[q] \in SignalPoints
        /\ ppc'[q] = "loadEntry" => ppc[q] = "loadEntry"
        /\ ppc'[q] \in {"write", "store"} => ppc'[q] = ppc[q]
  BY <1>0, <1>3 DEF SignalPoints
<1>5. SingleSignaller'
  BY <1>0, <1>4 DEF SingleSignaller
<1>6. Signalling' <=> Signalling
  BY <1>4 DEF Signalling
<1>7. Registration'
  BY <1>0, <1>2, <1>6 DEF Registration, CanSubmitIo, countVars, ioVars
<1>8. EntryArmed'
  BY <1>0, <1>4 DEF EntryArmed
<1>9. LoadedTails'
  BY <1>0, <1>4 DEF LoadedTails, cqVars, ioVars
<1>10. NoLostWakeup'
  BY <1>0, <1>2, <1>6 DEF NoLostWakeup, countVars
<1> QED
  BY <1>0, <1>2, <1>5, <1>7, <1>8, <1>9, <1>10 DEF countVars

\* A step that moves counters and transfers, and may begin to post.
LEMMA CountStep ==
    ASSUME TypeOK, Untorn, ~torn,
           UNCHANGED <<remoteQueueReadSubmitted, cqVars, remoteVars,
                       producerVars, historyVars>>,
           pc' \notin {"mark", "drain", "overrun"},
           pc' = "post" => /\ post'.tail <= cqTail
                           /\ post'.op \in Ops
                           /\ post'.ret \in {"exec", "pend", "progress"},
           SlotAccounting',
           sqUnflushedCount' + cqPendingCount' <= CqEntryCount
    PROVE  Untorn'
<1> USE DEF Untorn, cqVars, remoteVars, producerVars, historyVars
<1>1. (EventPending' <=> EventPending) /\ OneEvent'
  BY DEF EventPending, OneEvent
<1>2. Signalling' <=> Signalling
  BY DEF Signalling
<1>3. SingleSignaller'
  BY DEF SingleSignaller
<1>4. Registration'
  BY <1>1, <1>2 DEF Registration
<1>5. EntryArmed'
  BY DEF EntryArmed
<1>6. LoadedTails'
  BY DEF LoadedTails
<1>7. NoLostWakeup'
  BY <1>1, <1>2 DEF NoLostWakeup
<1> QED
  BY <1>1, <1>3, <1>4, <1>5, <1>6, <1>7

\* The phase of an operation that is not in flight changes.
LEMMA InFlightKept ==
    ASSUME TypeOK, NEW o, NEW ph,
           phase' = [phase EXCEPT ![o] = ph],
           ph # "inflight",
           o \in RecvOps => phase[o] # "inflight"
    PROVE  InFlight' = InFlight
<1>1. \A r \in RecvOps : phase'[r] = "inflight" <=> phase[r] = "inflight"
  BY DEF TypeOK, Ops, RemoteOps
<1> QED
  BY <1>1 DEF InFlight

\* start_io, from a batch or from pendingIoQueue_.
LEMMA StartIoStep ==
    ASSUME TypeOK, TypeOK', Untorn, ~torn,
           NEW o \in RecvOps, NEW ret \in {"exec", "pend"},
           pc = ret, phase[o] \in {"queued", "start"},
           UNCHANGED <<remoteQueueReadSubmitted, cqVars, remoteVars,
                       producerVars, historyVars>>,
           StartIoRefused(o) \/ StartIoAdmitted(o, ret)
    PROVE  Untorn'
<1>1. ASSUME phase' = [phase EXCEPT ![o] = "start"]
               \/ phase' = [phase EXCEPT ![o] = "done"],
             UNCHANGED <<pc, sqUnflushedCount, cqPendingCount, post>>
      PROVE  Untorn'
  <2>1. InFlight' = InFlight
    BY <1>1, InFlightKept
  <2> QED
    BY <1>1, <2>1, QuietStep DEF countVars, remoteVars
<1>2. CASE StartIoRefused(o)
  BY <1>1, <1>2 DEF StartIoRefused
<1>3. CASE StartIoNoMessage(o)
  BY <1>1, <1>3 DEF StartIoNoMessage
<1>4. CASE StartIoEager(o)
  BY <1>1, <1>4 DEF StartIoEager
<1>5. AsInt(remoteQueueReadSubmitted)' = AsInt(remoteQueueReadSubmitted)
      /\ AsInt(remoteQueueReadSubmitted) \in Int
      /\ AsInt(EventPending)' = AsInt(EventPending)
      /\ AsInt(EventPending) \in Int
      /\ AsInt(pc = "post") = 0
  BY DEF AsInt, EventPending, cqVars
<1>6. /\ sqUnflushedCount \in Int /\ cqPendingCount \in Int
      /\ cqHead \in Int /\ cqTail \in Int /\ CqEntryCount \in Int
  BY CqEntryCountAssumption DEF TypeOK
<1>7. CASE StartIoRndv(o)
  <2>1. o \notin InFlight
    BY DEF InFlight
  <2>2. InFlight' = InFlight \cup {o}
    <3>1. \A r \in RecvOps :
            phase'[r] = "inflight" <=> phase[r] = "inflight" \/ r = o
      BY <1>7 DEF StartIoRndv, TypeOK, Ops, RemoteOps
    <3> QED
      BY <3>1 DEF InFlight
  <2>3. Cardinality(InFlight)' = Cardinality(InFlight) + 1
    BY <2>1, <2>2, InFlightFinite, FS_AddElement
  <2>4. Cardinality(InFlight) \in Int
    BY InFlightFinite
  <2>5. /\ sqUnflushedCount' = sqUnflushedCount + 1
        /\ cqPendingCount' = cqPendingCount
        /\ cqPendingCount + sqUnflushedCount < CqEntryCount
        /\ pc' = pc
    BY <1>7 DEF StartIoRndv, CanSubmitIo
  <2>6. AsInt(pc = "post")' = AsInt(pc = "post")
    BY <2>5
  <2>7. SlotAccounting'
    BY <1>5, <1>6, <2>3, <2>4, <2>5, <2>6
    DEF Untorn, SlotAccounting, cqVars, historyVars
  <2> QED
    BY <1>6, <2>5, <2>7, CountStep
<1>8. CASE StartIoPosts(o, ret)
  <2>1. InFlight' = InFlight
    <3> DEFINE ph == IF Head(amDescQueue) = "gone" THEN "start" ELSE "complete"
    <3>1. phase' = [phase EXCEPT ![o] = ph]
      BY <1>8 DEF StartIoPosts
    <3>2. ph # "inflight"
      OBVIOUS
    <3> QED
      BY <3>1, <3>2, InFlightKept
  <2>2. /\ sqUnflushedCount' = sqUnflushedCount
        /\ cqPendingCount' = cqPendingCount + 1
        /\ cqPendingCount + sqUnflushedCount < CqEntryCount
        /\ pc' = "post"
        /\ post' = [op |-> o, tail |-> cqTail, ret |-> ret]
    BY <1>8 DEF StartIoPosts, CanSubmitIo
  <2>3. AsInt(pc = "post")' = 1
    BY <2>2 DEF AsInt
  <2>4. SlotAccounting'
    BY <1>5, <1>6, <2>1, <2>2, <2>3 DEF Untorn, SlotAccounting, cqVars, historyVars
  <2>5. post'.tail <= cqTail /\ post'.op \in Ops
    BY <1>6, <2>2 DEF Ops, RemoteOps
  <2>6. post'.ret \in {"exec", "pend", "progress"}
    BY <2>2
  <2> QED
    BY <1>6, <2>2, <2>4, <2>5, <2>6, CountStep
<1> QED
  BY <1>2, <1>3, <1>4, <1>7, <1>8 DEF StartIoAdmitted

LEMMA RequestCallbackStep ==
    ASSUME TypeOK, TypeOK', Untorn, ~torn, NEW o \in RecvOps,
           RequestCallback(o)
    PROVE  Untorn'
<1>1. AsInt(remoteQueueReadSubmitted)' = AsInt(remoteQueueReadSubmitted)
      /\ AsInt(remoteQueueReadSubmitted) \in Int
      /\ AsInt(EventPending)' = AsInt(EventPending)
      /\ AsInt(EventPending) \in Int
      /\ AsInt(pc = "post") = 0
      /\ AsInt(pc = "post")' = 1
  BY DEF AsInt, EventPending, cqVars, RequestCallback
<1>2. /\ sqUnflushedCount \in Int /\ cqPendingCount \in Int
      /\ cqHead \in Int /\ cqTail \in Int /\ CqEntryCount \in Int
  BY CqEntryCountAssumption DEF TypeOK
<1>3. o \in InFlight
  BY DEF InFlight, RequestCallback
<1>4. InFlight' = InFlight \ {o}
  <2>1. \A r \in RecvOps :
          phase'[r] = "inflight" <=> phase[r] = "inflight" /\ r # o
    BY DEF RequestCallback, TypeOK, Ops, RemoteOps
  <2> QED
    BY <2>1 DEF InFlight
<1>5. Cardinality(InFlight)' = Cardinality(InFlight) - 1
  BY <1>3, <1>4, InFlightFinite, FS_RemoveElement
<1>6. Cardinality(InFlight) \in Int
  BY InFlightFinite
<1>7. /\ sqUnflushedCount' = sqUnflushedCount - 1
      /\ cqPendingCount' = cqPendingCount + 1
      /\ pc' = "post"
      /\ post' = [op |-> o, tail |-> cqTail, ret |-> "progress"]
      /\ UNCHANGED <<remoteQueueReadSubmitted, cqVars, remoteVars,
                     producerVars, historyVars>>
  BY DEF RequestCallback
<1>8. SlotAccounting'
  BY <1>1, <1>2, <1>5, <1>6, <1>7 DEF Untorn, SlotAccounting, cqVars, historyVars
<1>9. post'.tail <= cqTail /\ post'.op \in Ops
  BY <1>2, <1>7 DEF Ops, RemoteOps
<1>10. post'.ret \in {"exec", "pend", "progress"}
  BY <1>7
<1>11. sqUnflushedCount' + cqPendingCount' <= CqEntryCount
  BY <1>2, <1>7 DEF Untorn
<1> QED
  BY <1>7, <1>8, <1>9, <1>10, <1>11, CountStep

\* The completion is written to the slot of cqTail_, which is free.
LEMMA PostCompletionStep ==
    ASSUME TypeOK, TypeOK', Untorn, ~torn, ~torn', PostCompletion
    PROVE  Untorn'
<1> USE DEF Untorn
<1>0. /\ UNCHANGED <<phase, countVars, cqHead, cqEnd, remoteVars, producerVars,
                     lateReset>>
      /\ pc = "post"
      /\ post.tail = cqTail
      /\ cqEntries' = [cqEntries EXCEPT ![Slot(cqTail)] = post.op]
      /\ cqTail' = cqTail + 1
      /\ pc' = post.ret
  BY DEF PostCompletion
<1>1. post.op # RemoteQueueEvent /\ post.ret \in {"exec", "pend", "progress"}
  BY <1>0, OpsAssumption DEF LoadedTails
<1>2. /\ cqEntries'[Slot(cqTail)] # RemoteQueueEvent
      /\ \A i \in cqHead .. cqTail - 1 :
           cqEntries'[Slot(i)] = cqEntries[Slot(i)]
  BY <1>0, <1>1, Room, RingKept
<1>3. cqHead \in Nat /\ cqTail \in Nat /\ cqHead <= cqTail
  BY DEF TypeOK, LoadedTails
<1>4. \A i \in Int : i \in cqHead' .. cqTail' - 1
                       <=> i = cqTail \/ i \in cqHead .. cqTail - 1
  BY <1>0, <1>3
<1>5. EventPending' <=> EventPending
  BY <1>0, <1>2, <1>4 DEF EventPending
<1>6. OneEvent'
  BY <1>0, <1>2, <1>4 DEF OneEvent
<1>7. SlotAccounting'
  <2>1. /\ AsInt(EventPending)' = AsInt(EventPending)
        /\ AsInt(EventPending) \in Int
        /\ AsInt(pc = "post") = 1 /\ AsInt(pc = "post")' = 0
        /\ AsInt(remoteQueueReadSubmitted)' = AsInt(remoteQueueReadSubmitted)
    BY <1>0, <1>1, <1>5 DEF AsInt, countVars
  <2>2. cqPendingCount \in Int
    BY DEF TypeOK
  <2>3. InFlight' = InFlight
    BY <1>0 DEF InFlight
  <2> QED
    BY <1>0, <1>3, <2>1, <2>2, <2>3 DEF SlotAccounting, countVars
<1>8. Signalling' <=> Signalling
  BY <1>0 DEF Signalling, producerVars
<1>9. SingleSignaller'
  BY <1>0 DEF SingleSignaller, producerVars
<1>10. Registration'
  BY <1>0, <1>1, <1>5, <1>8 DEF Registration, countVars, remoteVars
<1>11. EntryArmed'
  BY <1>0 DEF EntryArmed, remoteVars, producerVars
<1>12. LoadedTails'
  <2>1. cqHead' <= cqTail' /\ cqEnd' <= cqTail'
    BY <1>0, <1>3 DEF LoadedTails, TypeOK
  <2>2. \A q \in Producers :
          ppc'[q] \in {"write", "store"} => ptail'[q] <= cqTail /\ ptail'[q] \in Nat
    BY <1>0 DEF LoadedTails, producerVars, TypeOK
  <2>3. \A q \in Producers :
          ppc'[q] \in {"write", "store"} => ptail'[q] <= cqTail' /\ ptail'[q] # cqTail'
    BY <1>0, <1>3, <2>2
  <2> QED
    BY <1>0, <1>1, <2>1, <2>3 DEF LoadedTails
<1>13. NoLostWakeup'
  BY <1>0, <1>5, <1>8 DEF NoLostWakeup, countVars, remoteVars
<1> QED
  BY <1>0, <1>6, <1>7, <1>9, <1>10, <1>11, <1>12, <1>13 DEF countVars

\* acquire_completion_queue_items takes an entry.
LEMMA AcquireItemStep ==
    ASSUME TypeOK, TypeOK', Untorn, ~torn, AcquireCompletionQueueItem
    PROVE  Untorn'
<1> USE DEF Untorn
<1>0. /\ UNCHANGED <<phase, post, cqEntries, cqTail, cqEnd, remoteVars,
                     producerVars, historyVars>>
      /\ pc = "drain"
      /\ cqHead' = cqHead + 1
      /\ pc' = IF cqHead + 1 = cqEnd THEN "remote" ELSE "drain"
      /\ TakeRemoteQueueEvent \/ TakeOpCompletion
  BY DEF AcquireCompletionQueueItem
<1>1. /\ cqHead \in Nat /\ cqTail \in Nat /\ cqEnd \in Nat
      /\ cqHead < cqEnd /\ cqEnd <= cqTail
      /\ cqPendingCount \in Int /\ sqUnflushedCount \in Int
      /\ CqEntryCount \in Int
  BY <1>0, CqEntryCountAssumption DEF TypeOK, LoadedTails
<1>2. \A i \in cqHead .. cqTail - 1 : i = cqHead \/ i \in cqHead' .. cqTail' - 1
  BY <1>0, <1>1
<1>3. \A i \in cqHead' .. cqTail' - 1 : i \in cqHead .. cqTail - 1 /\ i # cqHead
  BY <1>0, <1>1
<1>4. cqHead \in cqHead .. cqTail - 1
  BY <1>1
<1>5. OneEvent'
  BY <1>0, <1>3 DEF OneEvent
<1>6. InFlight' = InFlight
  BY <1>0 DEF InFlight
<1>7. SingleSignaller' /\ (Signalling' <=> Signalling)
  BY <1>0 DEF SingleSignaller, Signalling, producerVars, historyVars
<1>8. LoadedTails'
  <2>1. cqHead' <= cqTail' /\ (pc' = "drain" => cqHead' < cqEnd')
    BY <1>0, <1>1
  <2> QED
    BY <1>0, <2>1 DEF LoadedTails, producerVars
<1>9. AsInt(pc = "post") = 0 /\ AsInt(pc = "post")' = 0
  BY <1>0 DEF AsInt
<1>10. EntryArmed'
  BY <1>0 DEF EntryArmed, remoteVars, producerVars, historyVars
<1>11. CASE TakeRemoteQueueEvent
  <2>1. /\ cqEntries[Slot(cqHead)] = RemoteQueueEvent
        /\ remoteQueueReadSubmitted' = FALSE
        /\ sqUnflushedCount' = sqUnflushedCount - 1
        /\ cqPendingCount' = cqPendingCount
    BY <1>11 DEF TakeRemoteQueueEvent
  <2>2. EventPending
    BY <1>4, <2>1 DEF EventPending
  <2>3. remoteQueueReadSubmitted /\ ~inactive /\ ~Signalling
    BY <2>2 DEF Registration
  <2>4. ~EventPending'
    BY <1>0, <1>3, <1>4, <2>1 DEF EventPending, OneEvent
  <2>5. Registration'
    BY <1>0, <1>7, <2>3, <2>4 DEF Registration, remoteVars
  <2>6. /\ AsInt(EventPending) = 1 /\ AsInt(EventPending)' = 0
        /\ AsInt(remoteQueueReadSubmitted) = 1
        /\ AsInt(remoteQueueReadSubmitted)' = 0
    BY <2>1, <2>2, <2>3, <2>4 DEF AsInt
  <2>7. SlotAccounting'
    <3>1. Cardinality(InFlight) \in Int /\ Cardinality(InFlight)' = Cardinality(InFlight)
      BY <1>6, InFlightFinite
    <3> QED
      BY <1>0, <1>1, <1>9, <2>1, <2>6, <3>1 DEF SlotAccounting, historyVars
  <2>8. NoLostWakeup'
    BY <2>1 DEF NoLostWakeup
  <2>9. sqUnflushedCount' + cqPendingCount' <= CqEntryCount
    BY <1>1, <2>1
  <2> QED
    BY <1>5, <1>7, <1>8, <1>10, <2>5, <2>7, <2>8, <2>9
<1>12. CASE TakeOpCompletion
  <2>1. /\ cqEntries[Slot(cqHead)] # RemoteQueueEvent
        /\ remoteQueueReadSubmitted' = remoteQueueReadSubmitted
        /\ sqUnflushedCount' = sqUnflushedCount
        /\ cqPendingCount' = cqPendingCount - 1
    BY <1>12, OpsAssumption DEF TakeOpCompletion
  <2>2. EventPending' <=> EventPending
    BY <1>0, <1>2, <1>3, <2>1 DEF EventPending
  <2>3. Registration'
    BY <1>0, <1>7, <2>1, <2>2 DEF Registration, remoteVars
  <2>4. /\ AsInt(EventPending)' = AsInt(EventPending)
        /\ AsInt(EventPending) \in Int
        /\ AsInt(remoteQueueReadSubmitted)' = AsInt(remoteQueueReadSubmitted)
    BY <2>1, <2>2 DEF AsInt
  <2>5. SlotAccounting'
    BY <1>0, <1>1, <1>6, <1>9, <2>1, <2>4 DEF SlotAccounting, historyVars
  <2>6. NoLostWakeup'
    BY <1>0, <1>7, <2>1, <2>2 DEF NoLostWakeup, remoteVars, historyVars
  <2>7. sqUnflushedCount' + cqPendingCount' <= CqEntryCount
    BY <1>1, <2>1
  <2> QED
    BY <1>5, <1>7, <1>8, <1>10, <2>3, <2>5, <2>6, <2>7
<1> QED
  BY <1>0, <1>11, <1>12

LEMMA LoadTailStep ==
    ASSUME TypeOK, TypeOK', Untorn, ~torn, LoadCompletionQueueTail
    PROVE  Untorn'
<1> USE DEF Untorn
<1>0. /\ UNCHANGED <<phase, post, countVars, cqEntries, cqHead, cqTail,
                     remoteVars, producerVars, historyVars>>
      /\ pc = "cq"
      /\ cqEnd' = cqTail
      /\ pc' = IF cqHead = cqTail THEN "remote" ELSE "drain"
  BY DEF LoadCompletionQueueTail
<1>1. InFlight' = InFlight
  BY <1>0 DEF InFlight
<1>2. /\ EventPending' <=> EventPending
      /\ OneEvent'
      /\ SlotAccounting'
  BY <1>0, <1>1, CountsKept
<1>3. SingleSignaller' /\ (Signalling' <=> Signalling)
  BY <1>0 DEF SingleSignaller, Signalling, producerVars, historyVars
<1>4. Registration'
  BY <1>0, <1>2, <1>3 DEF Registration, remoteVars, countVars
<1>5. EntryArmed'
  BY <1>0 DEF EntryArmed, remoteVars, producerVars, historyVars
<1>6. LoadedTails'
  <2>1. cqEnd' <= cqTail' /\ (pc' = "drain" => cqHead' < cqEnd')
    BY <1>0 DEF LoadedTails, TypeOK
  <2> QED
    BY <1>0, <2>1 DEF LoadedTails, producerVars
<1>7. NoLostWakeup'
  BY <1>0, <1>2, <1>3 DEF NoLostWakeup, remoteVars, countVars, historyVars
<1> QED
  BY <1>0, <1>2, <1>3, <1>4, <1>5, <1>6, <1>7 DEF countVars

\* The registration is made: nobody was signalling and no event was waiting.
LEMMA RegisterMarkInactiveStep ==
    ASSUME TypeOK, TypeOK', Untorn, ~torn, RegisterMarkInactive
    PROVE  Untorn'
<1> USE DEF Untorn
<1>0. /\ UNCHANGED <<phase, post, cqPendingCount, cqVars,
                     remoteQueueEventEntry, producerVars, torn>>
      /\ pc = "mark"
      /\ inactive' = TRUE
      /\ remoteQueueReadSubmitted' = TRUE
      /\ sqUnflushedCount' = sqUnflushedCount + 1
      /\ lateReset' = (lateReset \/ ~remoteQueueEventEntry)
      /\ pc' = "progress"
  BY DEF RegisterMarkInactive
<1>1. /\ ~remoteQueueReadSubmitted /\ ~Signalling /\ ~EventPending
      /\ cqPendingCount + sqUnflushedCount < CqEntryCount
  BY <1>0 DEF Registration, CanSubmitIo
<1>2. /\ cqPendingCount \in Int /\ sqUnflushedCount \in Int
      /\ CqEntryCount \in Int
  BY CqEntryCountAssumption DEF TypeOK
<1>3. /\ SingleSignaller' /\ ~Signalling'
      /\ ~EventPending' /\ OneEvent'
  BY <1>0, <1>1 DEF SingleSignaller, Signalling, EventPending, OneEvent,
                    producerVars, cqVars
<1>4. Registration'
  BY <1>0, <1>3 DEF Registration
<1>5. EntryArmed'
  BY <1>0 DEF EntryArmed
<1>6. LoadedTails'
  BY <1>0 DEF LoadedTails, producerVars, cqVars
<1>7. NoLostWakeup'
  BY <1>0 DEF NoLostWakeup
<1>8. SlotAccounting'
  <2>1. /\ AsInt(EventPending)' = AsInt(EventPending)
        /\ AsInt(pc = "post")' = AsInt(pc = "post")
        /\ AsInt(remoteQueueReadSubmitted) = 0
        /\ AsInt(remoteQueueReadSubmitted)' = 1
    BY <1>0, <1>1, <1>3 DEF AsInt
  <2>2. /\ Cardinality(InFlight) \in Int
        /\ Cardinality(InFlight)' = Cardinality(InFlight)
    BY <1>0, InFlightFinite DEF InFlight
  <2> QED
    BY <1>0, <1>2, <2>1, <2>2 DEF SlotAccounting, cqVars
<1>9. sqUnflushedCount' + cqPendingCount' <= CqEntryCount
  BY <1>0, <1>1, <1>2
<1> QED
  BY <1>3, <1>4, <1>5, <1>6, <1>7, <1>8, <1>9

LEMMA RegisterDequeueAllStep ==
    ASSUME TypeOK, TypeOK', Untorn, ~torn, RegisterDequeueAll
    PROVE  Untorn'
<1> USE DEF Untorn
<1>0. /\ UNCHANGED <<phase, post, countVars, cqVars, inactive, producerVars,
                     historyVars>>
      /\ pc = "mark"
      /\ pc' = "progress"
  BY DEF RegisterDequeueAll
<1>1. ~inactive /\ ~Signalling
  BY <1>0 DEF Registration
<1>2. InFlight' = InFlight
  BY <1>0 DEF InFlight
<1>3. /\ EventPending' <=> EventPending
      /\ OneEvent'
      /\ SlotAccounting'
  BY <1>0, <1>2, CountsKept DEF cqVars
<1>4. SingleSignaller' /\ (Signalling' <=> Signalling)
  BY <1>0 DEF SingleSignaller, Signalling, producerVars, historyVars
<1>5. Registration'
  BY <1>0, <1>3, <1>4 DEF Registration, countVars
<1>6. EntryArmed'
  BY <1>0, <1>1 DEF EntryArmed, Signalling, SignalPoints, producerVars
<1>7. LoadedTails'
  BY <1>0 DEF LoadedTails, producerVars, cqVars
<1>8. NoLostWakeup'
  BY <1>0, <1>3, <1>4 DEF NoLostWakeup, countVars, historyVars
<1> QED
  BY <1>0, <1>3, <1>4, <1>5, <1>6, <1>7, <1>8 DEF countVars

-----------------------------------------------------------------------------
(***************************************************************************)
(* The invariant is inductive.                                             *)
(***************************************************************************)

LEMMA InitUntorn == Init => Untorn
<1> SUFFICES ASSUME Init
             PROVE  Untorn
  OBVIOUS
<1>1. TypeOK
  BY InitType
<1>2. cqHead .. cqTail - 1 = {}
  BY DEF Init
<1>3. ~EventPending /\ OneEvent
  BY <1>2 DEF EventPending, OneEvent
<1>4. \A p \in Producers : ppc[p] = "idle"
  BY DEF Init
<1>5. SingleSignaller /\ ~Signalling
  BY <1>4 DEF SingleSignaller, Signalling, SignalPoints
<1>6. Registration /\ NoLostWakeup
  BY <1>3, <1>5 DEF Init, Registration, NoLostWakeup
<1>7. EntryArmed
  BY <1>4 DEF Init, EntryArmed
<1>8. LoadedTails
  BY <1>4 DEF Init, LoadedTails
<1>9. SlotAccounting
  <2>1. InFlight = {}
    BY DEF Init, InFlight, Ops, RemoteOps
  <2>2. Cardinality(InFlight) = 0
    BY <2>1, FS_EmptySet
  <2>3. /\ AsInt(EventPending) = 0 /\ AsInt(pc = "post") = 0
        /\ AsInt(remoteQueueReadSubmitted) = 0
    BY <1>3 DEF Init, AsInt
  <2> QED
    BY <2>2, <2>3 DEF Init, SlotAccounting
<1>10. sqUnflushedCount + cqPendingCount <= CqEntryCount
  BY CqEntryCountAssumption DEF Init
<1> QED
  BY <1>3, <1>5, <1>6, <1>7, <1>8, <1>9, <1>10 DEF Untorn

\* Steps of the I/O thread on its own data, one by one.
LEMMA QuietActions ==
    ASSUME TypeOK, TypeOK', Untorn, ~torn,
           \/ ExecutePendingLocal \/ ExecuteTask \/ ExecuteStop
           \/ ExecuteReadComplete \/ BatchFinished
           \/ AcquireRemoteQueuedItems \/ PendingIoFinished
           \/ RegisterArm \/ AmRecvCallback \/ ProgressFinished
    PROVE  Untorn'
<1>1. CASE ExecutePendingLocal
  <2>1. InFlight' = InFlight
    BY <1>1 DEF ExecutePendingLocal, InFlight
  <2> QED
    BY <1>1, <2>1, QuietStep DEF ExecutePendingLocal, remoteVars
<1>2. CASE ExecuteTask
  <2>1. \A r \in RecvOps : phase'[r] = phase[r]
    <3>1. phase \in [Ops -> Phases] /\ RecvOps \subseteq Ops
      BY DEF TypeOK, Ops, RemoteOps
    <3>2. Head(batch) \notin RecvOps /\ LocalTasks \cap RecvOps = {}
      BY <1>2, OpsAssumption DEF ExecuteTask
    <3>3. \/ phase' = [phase EXCEPT ![Head(batch)] = "done"]
          \/ \E o \in LocalTasks :
               phase' = [phase EXCEPT ![Head(batch)] = "done", ![o] = "queued"]
      BY <1>2 DEF ExecuteTask
    <3> QED
      BY <3>1, <3>2, <3>3
  <2>2. InFlight' = InFlight
    BY <2>1 DEF InFlight
  <2> QED
    BY <1>2, <2>2, QuietStep DEF ExecuteTask, remoteVars
<1>3. CASE ExecuteStop
  <2>1. StopOp \notin RecvOps
    BY OpsAssumption
  <2>2. InFlight' = InFlight
    BY <1>3, <2>1, InFlightKept DEF ExecuteStop
  <2> QED
    BY <1>3, <2>2, QuietStep DEF ExecuteStop, remoteVars
<1>4. CASE ExecuteReadComplete
  <2>1. InFlight' = InFlight
    BY <1>4, InFlightKept DEF ExecuteReadComplete
  <2> QED
    BY <1>4, <2>1, QuietStep DEF ExecuteReadComplete, remoteVars
<1>5. CASE BatchFinished
  <2>1. InFlight' = InFlight
    BY <1>5 DEF BatchFinished, InFlight
  <2> QED
    BY <1>5, <2>1, QuietStep DEF BatchFinished, remoteVars
<1>6. CASE AcquireRemoteQueuedItems
  <2>1. InFlight' = InFlight
    BY <1>6 DEF AcquireRemoteQueuedItems, InFlight
  <2> QED
    BY <1>6, <2>1, QuietStep DEF AcquireRemoteQueuedItems
<1>7. CASE PendingIoFinished
  <2>1. InFlight' = InFlight
    BY <1>7 DEF PendingIoFinished, InFlight
  <2> QED
    BY <1>7, <2>1, QuietStep DEF PendingIoFinished, remoteVars
<1>8. CASE RegisterArm
  <2>1. InFlight' = InFlight
    BY <1>8 DEF RegisterArm, InFlight
  <2>2. /\ pc = "idle" /\ pc' \in {"mark", "progress"}
        /\ pc' = "mark" => WantsNotification
        /\ \/ remoteQueueEventEntry' = remoteQueueEventEntry
           \/ remoteQueueEventEntry' = TRUE
        /\ UNCHANGED <<countVars, cqVars, inactive, producerVars, historyVars,
                       post>>
    BY <1>8 DEF RegisterArm
  <2> QED
    BY <2>1, <2>2, QuietStep DEF WantsNotification
<1>9. CASE AmRecvCallback
  <2>1. InFlight' = InFlight
    BY <1>9 DEF AmRecvCallback, InFlight
  <2> QED
    BY <1>9, <2>1, QuietStep DEF AmRecvCallback, remoteVars
<1>10. CASE ProgressFinished
  <2>1. InFlight' = InFlight
    BY <1>10 DEF ProgressFinished, InFlight
  <2> QED
    BY <1>10, <2>1, QuietStep DEF ProgressFinished, remoteVars
<1> QED
  BY <1>1, <1>2, <1>3, <1>4, <1>5, <1>6, <1>7, <1>8, <1>9, <1>10

\* An overlap of two updates of cqTail_ is never forgotten.
LEMMA TornStays == TypeOK /\ [Next]_vars /\ torn => torn'
<1> SUFFICES ASSUME TypeOK, [Next]_vars, torn
             PROVE  torn'
  OBVIOUS
<1> USE DEF historyVars
<1>1. ASSUME NEW p \in Producers, NEW o \in RemoteOps, ScheduleRemote(p, o)
      PROVE  torn'
  BY <1>1 DEF ScheduleRemote
<1>2. ASSUME NEW p \in Producers, SignalRemoteQueue(p)
      PROVE  torn'
  BY <1>2 DEF SignalRemoteQueue, SignalLoadEntry, SubmitEventLoadTail,
              SubmitEventWrite, SubmitEventStoreTail, SignalResetEntry
<1>3. CASE IoThread
  BY <1>3 DEF IoThread, ExecutePendingLocal, ExecuteTask, ExecuteStop,
              ExecuteReadComplete, ExecuteStartIo, BatchFinished,
              LoadCompletionQueueTail, AcquireCompletionQueueItem,
              CompletionCountOverrun, AcquireRemoteQueuedItems,
              ExecutePendingIo, PendingIoFinished, RegisterArm,
              RegisterMarkInactive, RegisterDequeueAll, AmRecvCallback,
              RequestCallback, ProgressFinished, PostCompletion
<1>4. CASE UNCHANGED vars
  BY <1>4 DEF vars
<1> QED
  BY <1>1, <1>2, <1>3, <1>4 DEF Next

LEMMA NextUntorn ==
    ASSUME TypeOK, TypeOK', Untorn, ~torn, ~torn', [Next]_vars
    PROVE  Untorn'
<1>1. ASSUME NEW p \in Producers, NEW o \in RemoteOps, ScheduleRemote(p, o)
      PROVE  Untorn'
  BY <1>1, ScheduleRemoteStep
<1>2. ASSUME NEW p \in Producers, SignalRemoteQueue(p)
      PROVE  Untorn'
  BY <1>2, SignalLoadEntryStep, SubmitEventLoadTailStep, SubmitEventWriteStep,
     SubmitEventStoreTailStep, SignalResetEntryStep
  DEF SignalRemoteQueue
<1>3. CASE ExecuteStartIo
  <2>1. Head(batch) \in RecvOps /\ phase[Head(batch)] \in {"queued", "start"}
    BY <1>3 DEF ExecuteStartIo
  <2>2. StartIoRefused(Head(batch)) \/ StartIoAdmitted(Head(batch), "exec")
    BY <1>3 DEF ExecuteStartIo
  <2>3. /\ pc = "exec"
        /\ UNCHANGED <<remoteQueueReadSubmitted, cqVars, remoteVars,
                       producerVars, historyVars>>
    BY <1>3 DEF ExecuteStartIo
  <2> QED
    BY <2>1, <2>2, <2>3, StartIoStep
<1>4. CASE ExecutePendingIo
  <2>1. /\ Head(pendingIoQueue) \in RecvOps
        /\ phase[Head(pendingIoQueue)] \in {"queued", "start"}
    BY <1>4, HeadTailProperties DEF ExecutePendingIo, TypeOK
  <2>2. /\ pc = "pend"
        /\ StartIoAdmitted(Head(pendingIoQueue), "pend")
        /\ UNCHANGED <<remoteQueueReadSubmitted, cqVars, remoteVars,
                       producerVars, historyVars>>
    BY <1>4 DEF ExecutePendingIo
  <2> QED
    BY <2>1, <2>2, StartIoStep
<1>5. CASE CompletionCountOverrun
  <2>1. cqTail - cqHead \in 0 .. CqEntryCount
    BY Room
  <2> QED
    BY <1>5, <2>1 DEF CompletionCountOverrun
<1>6. CASE UNCHANGED vars
  <2>1. InFlight' = InFlight
    BY <1>6 DEF vars, ioVars, InFlight
  <2>2. /\ EventPending' <=> EventPending
        /\ OneEvent <=> OneEvent'
        /\ SlotAccounting'
    BY <1>6, <2>1, CountsKept DEF vars, ioVars, cqVars, Untorn
  <2> USE DEF Untorn
  <2>3. UNCHANGED <<pc, post, remoteQueueReadSubmitted, sqUnflushedCount,
                    cqPendingCount, cqEntries, cqHead, cqTail, cqEnd, inactive,
                    remoteQueueEventEntry, ppc, ptail, torn, lateReset>>
    BY <1>6 DEF vars, ioVars, countVars, cqVars, remoteVars, producerVars,
                historyVars
  <2>4. SingleSignaller' /\ (Signalling' <=> Signalling)
    BY <2>3 DEF SingleSignaller, Signalling
  <2>5. Registration'
    BY <2>2, <2>3, <2>4 DEF Registration, CanSubmitIo
  <2>6. EntryArmed'
    BY <2>3 DEF EntryArmed
  <2>7. LoadedTails'
    BY <2>3 DEF LoadedTails
  <2>8. NoLostWakeup'
    BY <2>2, <2>3, <2>4 DEF NoLostWakeup
  <2> QED
    BY <2>2, <2>3, <2>4, <2>5, <2>6, <2>7, <2>8
<1> QED
  BY <1>1, <1>2, <1>3, <1>4, <1>5, <1>6, QuietActions, LoadTailStep,
     AcquireItemStep, RegisterMarkInactiveStep, RegisterDequeueAllStep,
     RequestCallbackStep, PostCompletionStep
  DEF Next, IoThread

\* The inductive invariant holds in every reachable state.
THEOREM InductiveInvariant == Spec => []IInv
<1>1. Init => IInv
  BY InitType, InitUntorn DEF IInv
<1>2. IInv /\ [Next]_vars => IInv'
  BY NextType, TornStays, NextUntorn DEF IInv
<1> QED
  BY <1>1, <1>2, PTL DEF Spec

\* As long as no two updates of cqTail_ have overlapped, a registered
\* notification whose queue has been touched still has its wakeup under way,
\* for any number of threads and operations (schedule_remote and
\* try_register_remote_queue_notification).
THEOREM WakeupIsNotLost == Spec => []NoLostWakeup
<1>1. IInv => NoLostWakeup
  BY DEF IInv, Untorn, NoLostWakeup
<1> QED
  BY <1>1, InductiveInvariant, PTL

\* At most one thread runs signal_remote_queue up to its store of cqTail_.
THEOREM OneSignaller == Spec => []SingleSignaller
<1>1. IInv => SingleSignaller
  BY DEF IInv, Untorn, SingleSignaller
<1> QED
  BY <1>1, InductiveInvariant, PTL

\* acquire_remote_queued_items never dequeues from a queue marked inactive.
THEOREM DequeueIsLegal == Spec => []DequeueOnlyWhenActive
<1>1. IInv => DequeueOnlyWhenActive
  BY DEF IInv, Untorn, Registration, DequeueOnlyWhenActive
<1> QED
  BY <1>1, InductiveInvariant, PTL

\* sqUnflushedCount_ and cqPendingCount_ count exactly what they stand for.
THEOREM SlotsAreCounted == Spec => []SlotAccounting
<1>1. IInv => SlotAccounting
  BY DEF IInv, Untorn, SlotAccounting
<1> QED
  BY <1>1, InductiveInvariant, PTL

\* The completion ring is never overfull, whatever its size, and whoever is
\* about to write an entry finds a free slot.
THEOREM RingIsBounded == Spec => []CompletionRingBounded
<1>1. IInv => CompletionRingBounded
  <2> SUFFICES ASSUME TypeOK, Untorn, ~torn
               PROVE  CompletionRingBounded
    BY DEF IInv, CompletionRingBounded
  <2>1. cqTail - cqHead \in 0 .. CqEntryCount
    BY Room
  <2> QED
    BY <2>1, Room DEF CompletionRingBounded, Untorn
<1> QED
  BY <1>1, InductiveInvariant, PTL

-----------------------------------------------------------------------------
(***************************************************************************)
(* The refinement of TaskLanes.  Nothing here depends on torn: the ring    *)
(* only ever holds receives that have been started, so an overlap of two   *)
(* updates of cqTail_ can lose or repeat a completion but cannot make an   *)
(* operation that has not started overtake another.                        *)
(***************************************************************************)

\* The operations that occur in a sequence.
Members(seq) == {o \in Ops : \E i \in DOMAIN seq : seq[i] = o}

LEMMA MembersConcat ==
    ASSUME NEW s \in Seq(Ops), NEW t \in Seq(Ops)
    PROVE  Members(s \o t) = Members(s) \cup Members(t)
<1>1. ASSUME NEW o \in Members(s \o t)
      PROVE  o \in Members(s) \cup Members(t)
  <2>1. PICK i \in 1 .. Len(s) + Len(t) : (s \o t)[i] = o
    BY <1>1 DEF Members
  <2>2. CASE i <= Len(s)
    BY <2>1, <2>2, <1>1 DEF Members
  <2>3. CASE i > Len(s)
    <3>1. i - Len(s) \in DOMAIN t /\ t[i - Len(s)] = o
      BY <2>1, <2>3
    <3> QED
      BY <3>1, <1>1 DEF Members
  <2> QED
    BY <2>2, <2>3
<1>2. ASSUME NEW o \in Members(s)
      PROVE  o \in Members(s \o t)
  <2>1. PICK i \in DOMAIN s : s[i] = o
    BY <1>2 DEF Members
  <2>2. i \in DOMAIN (s \o t) /\ (s \o t)[i] = o
    BY <2>1
  <2> QED
    BY <2>2, <1>2 DEF Members
<1>3. ASSUME NEW o \in Members(t)
      PROVE  o \in Members(s \o t)
  <2>1. PICK i \in DOMAIN t : t[i] = o
    BY <1>3 DEF Members
  <2>2. Len(s) + i \in DOMAIN (s \o t) /\ (s \o t)[Len(s) + i] = o
    BY <2>1
  <2> QED
    BY <2>2, <1>3 DEF Members
<1> QED
  BY <1>1, <1>2, <1>3

LEMMA MembersOne ==
    ASSUME NEW o \in Ops
    PROVE  Members(<<o>>) = {o} /\ InOrder(<<o>>) = {}
BY DEF Members, InOrder

LEMMA MembersEmpty == Members(<<>>) = {} /\ InOrder(<<>>) = {}
BY DEF Members, InOrder

LEMMA InOrderConcat ==
    ASSUME NEW s \in Seq(Ops), NEW t \in Seq(Ops)
    PROVE  InOrder(s \o t) =
             InOrder(s) \cup InOrder(t) \cup (Members(s) \X Members(t))
<1> DEFINE st == s \o t
<1>0. /\ st \in Seq(Ops) /\ DOMAIN st = 1 .. Len(s) + Len(t)
      /\ \A i \in 1 .. Len(s) : st[i] = s[i]
      /\ \A i \in 1 .. Len(t) : st[Len(s) + i] = t[i]
      /\ DOMAIN s = 1 .. Len(s) /\ DOMAIN t = 1 .. Len(t)
      /\ Len(s) \in Nat /\ Len(t) \in Nat
  OBVIOUS
<1> HIDE DEF st
<1>1. ASSUME NEW a \in Ops, NEW b \in Ops, <<a, b>> \in InOrder(st)
      PROVE  <<a, b>> \in InOrder(s) \cup InOrder(t) \cup (Members(s) \X Members(t))
  <2>1. PICK i \in DOMAIN st, j \in DOMAIN st : i < j /\ st[i] = a /\ st[j] = b
    BY <1>1 DEF InOrder
  <2>2. CASE j <= Len(s)
    <3>1. i \in DOMAIN s /\ j \in DOMAIN s /\ s[i] = a /\ s[j] = b
      BY <1>0, <2>1, <2>2
    <3> QED
      BY <3>1, <2>1 DEF InOrder
  <2>3. CASE i > Len(s)
    <3>1. PICK k \in 1 .. Len(t), l \in 1 .. Len(t) :
            i = Len(s) + k /\ j = Len(s) + l
      <4>1. i - Len(s) \in 1 .. Len(t) /\ j - Len(s) \in 1 .. Len(t)
        BY <1>0, <2>1, <2>3
      <4>2. i = Len(s) + (i - Len(s)) /\ j = Len(s) + (j - Len(s))
        BY <1>0, <2>1
      <4> QED
        BY <4>1, <4>2
    <3>2. k < l /\ t[k] = a /\ t[l] = b
      BY <1>0, <2>1, <3>1
    <3> QED
      BY <1>0, <3>2 DEF InOrder
  <2>4. CASE i <= Len(s) /\ j > Len(s)
    <3>1. i \in DOMAIN s /\ s[i] = a
      BY <1>0, <2>1, <2>4
    <3>2. j - Len(s) \in DOMAIN t /\ t[j - Len(s)] = b
      BY <1>0, <2>1, <2>4
    <3>3. a \in Members(s) /\ b \in Members(t)
      BY <3>1, <3>2 DEF Members
    <3> QED
      BY <3>3
  <2> QED
    BY <2>2, <2>3, <2>4, <1>0, <2>1
<1>2. ASSUME NEW a \in Ops, NEW b \in Ops, <<a, b>> \in InOrder(s)
      PROVE  <<a, b>> \in InOrder(st)
  <2>1. PICK i \in DOMAIN s, j \in DOMAIN s : i < j /\ s[i] = a /\ s[j] = b
    BY <1>2 DEF InOrder
  <2>2. i \in DOMAIN st /\ j \in DOMAIN st /\ st[i] = a /\ st[j] = b
    BY <1>0, <2>1
  <2> QED
    BY <2>1, <2>2 DEF InOrder
<1>3. ASSUME NEW a \in Ops, NEW b \in Ops, <<a, b>> \in InOrder(t)
      PROVE  <<a, b>> \in InOrder(st)
  <2>1. PICK i \in DOMAIN t, j \in DOMAIN t : i < j /\ t[i] = a /\ t[j] = b
    BY <1>3 DEF InOrder
  <2>2. /\ Len(s) + i \in DOMAIN st /\ Len(s) + j \in DOMAIN st
        /\ Len(s) + i < Len(s) + j
        /\ st[Len(s) + i] = a /\ st[Len(s) + j] = b
    BY <1>0, <2>1
  <2> QED
    BY <2>2 DEF InOrder
<1>4. ASSUME NEW a \in Members(s), NEW b \in Members(t)
      PROVE  <<a, b>> \in InOrder(st)
  <2>1. PICK i \in DOMAIN s, j \in DOMAIN t : s[i] = a /\ t[j] = b
    BY <1>4 DEF Members
  <2>2. /\ i \in DOMAIN st /\ Len(s) + j \in DOMAIN st
        /\ i < Len(s) + j
        /\ st[i] = a /\ st[Len(s) + j] = b
    BY <1>0, <2>1
  <2>3. a \in Ops /\ b \in Ops
    BY DEF Members
  <2> QED
    BY <2>2, <2>3 DEF InOrder
<1>5. /\ InOrder(st) \subseteq Ops \X Ops
      /\ InOrder(s) \subseteq Ops \X Ops
      /\ InOrder(t) \subseteq Ops \X Ops
      /\ Members(s) \subseteq Ops /\ Members(t) \subseteq Ops
  BY DEF InOrder, Members
<1>6. \A a, b \in Ops : <<a, b>> \in InOrder(st)
        <=> <<a, b>> \in InOrder(s) \cup InOrder(t) \cup (Members(s) \X Members(t))
  BY <1>1, <1>2, <1>3, <1>4
<1>7. InOrder(st) = InOrder(s) \cup InOrder(t) \cup (Members(s) \X Members(t))
  BY <1>5, <1>6
<1> QED
  BY <1>7 DEF st

\* A receive that has been started, and is not started a second time as a
\* scheduled operation.
Begun(o) == o \in RecvOps /\ phase[o] \notin {"new", "queued"}

\* What waits in the backlog is not started yet or a receive that comes back;
\* what is not started yet waits there, at one place.
LinedUp ==
    /\ \A o \in Members(Backlog) : phase[o] = "queued" \/ Begun(o)
    /\ \A o \in Ops : phase[o] = "queued" =>
         o \in Members(Backlog) /\ <<o, o>> \notin InOrder(Backlog)

LEMMA LaneFacts ==
    /\ LaneOps("remote") = RemoteOps /\ LaneOps("local") = LocalTasks
    /\ \A l \in LaneNames : LaneOps(l) \subseteq Ops
    /\ \A o \in Ops : \E l \in LaneNames : o \in LaneOps(l)
    /\ \A o \in Ops : \A k, l \in LaneNames :
         o \in LaneOps(k) /\ o \in LaneOps(l) => k = l
    /\ RecvOps \subseteq RemoteOps
    /\ LaneNames = {"remote", "local"}
BY OpsAssumption DEF LaneOps, LaneNames, Ops, RemoteOps

LEMMA KeptStep ==
    ASSUME LinedUp,
           Members(Backlog)' = Members(Backlog),
           InOrder(Backlog)' = InOrder(Backlog),
           \A o \in Ops : phase'[o] = phase[o] \/ (Begun(o) /\ Begun(o)')
    PROVE  LinedUp' /\ UNCHANGED Lanes!laneVars
<1>1. \A o \in Ops : /\ phase'[o] = "queued" <=> phase[o] = "queued"
                     /\ phase'[o] = "new" <=> phase[o] = "new"
                     /\ Begun(o) <=> Begun(o)'
  BY DEF Begun
<1>2. Members(Backlog) \subseteq Ops
  BY DEF Members
<1>3. LinedUp'
  BY <1>1, <1>2 DEF LinedUp
<1>4. \A l \in LaneNames : Unstarted(l)' = Unstarted(l)
  BY <1>1, LaneFacts DEF Unstarted
<1>5. UNCHANGED Lanes!laneVars
  BY <1>1, <1>4 DEF Lanes!laneVars
<1> QED
  BY <1>3, <1>5

LEMMA InsertedStep ==
    ASSUME LinedUp, NEW x, Begun(x),
           phase' = phase,
           Members(Backlog)' = Members(Backlog) \cup {x},
           InOrder(Backlog) \subseteq InOrder(Backlog)',
           \A a, b \in Ops : <<a, b>> \in InOrder(Backlog)' =>
             <<a, b>> \in InOrder(Backlog) \/ a = x \/ b = x
    PROVE  LinedUp' /\ UNCHANGED Lanes!laneVars
<1>1. \A o \in Ops : Begun(o) <=> Begun(o)'
  BY DEF Begun
<1>2. Members(Backlog) \subseteq Ops /\ x \in Ops
  BY LaneFacts DEF Members, Begun, Ops
<1>3. phase[x] # "queued"
  BY DEF Begun
<1>4. LinedUp'
  BY <1>1, <1>2, <1>3 DEF LinedUp
<1>5. \A l \in LaneNames : Unstarted(l)' = Unstarted(l) /\ x \notin Unstarted(l)
  BY <1>3 DEF Unstarted
<1>6. {p \in InOrder(Backlog) : \E l \in LaneNames : p \in Unstarted(l) \X Unstarted(l)}'
       = {p \in InOrder(Backlog) : \E l \in LaneNames : p \in Unstarted(l) \X Unstarted(l)}
  <2>1. \A l \in LaneNames : Unstarted(l) \subseteq Ops
    BY LaneFacts DEF Unstarted
  <2>2. ASSUME NEW p \in InOrder(Backlog)', NEW l \in LaneNames,
               p \in Unstarted(l) \X Unstarted(l)
        PROVE  p \in InOrder(Backlog)
    <3>1. PICK a \in Unstarted(l), b \in Unstarted(l) : p = <<a, b>>
      BY <2>2
    <3> QED
      BY <3>1, <2>1, <2>2, <1>5
  <2> QED
    BY <2>2, <1>5
<1>7. UNCHANGED Lanes!laneVars
  BY <1>5, <1>6 DEF Lanes!laneVars
<1> QED
  BY <1>4, <1>7

LEMMA SubmitStep ==
    ASSUME LinedUp, NEW x \in RemoteOps,
           phase \in [Ops -> Phases],
           phase[x] = "new",
           phase' = [phase EXCEPT ![x] = "queued"],
           Members(Backlog)' = Members(Backlog) \cup {x},
           InOrder(Backlog)' = InOrder(Backlog) \cup (Members(Backlog) \X {x})
    PROVE  LinedUp' /\ Lanes!Next
<1>1. x \in Ops /\ x \in LaneOps("remote") /\ "remote" \in LaneNames
  BY LaneFacts DEF Ops
<1>2. phase'[x] = "queued" /\ \A o \in Ops : o # x => phase'[o] = phase[o]
  BY <1>1
<1>3. x \notin Members(Backlog)
  BY DEF LinedUp, Begun
<1>4. \A o \in Ops : o # x => (Begun(o) <=> Begun(o)')
  BY <1>2 DEF Begun
<1>5. Members(Backlog) \subseteq Ops /\ InOrder(Backlog) \subseteq Ops \X Ops
  BY DEF Members, InOrder
<1>6. \A o \in Ops : <<o, x>> \in InOrder(Backlog) \/ <<x, o>> \in InOrder(Backlog)
        => x \in Members(Backlog)
  BY DEF InOrder, Members
<1>7. LinedUp'
  <2>1. \A o \in Members(Backlog)' : phase'[o] = "queued" \/ Begun(o)'
    BY <1>2, <1>4, <1>5 DEF LinedUp
  <2>2. \A o \in Ops : phase'[o] = "queued" =>
          o \in Members(Backlog)' /\ <<o, o>> \notin InOrder(Backlog)'
    BY <1>2, <1>3, <1>5, <1>6 DEF LinedUp
  <2> QED
    BY <2>1, <2>2 DEF LinedUp
<1>8. /\ Unstarted("remote")' = Unstarted("remote") \cup {x}
      /\ Unstarted("local")' = Unstarted("local")
  <2>1. x \notin LaneOps("local")
    BY <1>1, LaneFacts
  <2> QED
    BY <1>1, <1>2, <2>1, LaneFacts DEF Unstarted
<1>9. Unstarted("remote") \subseteq Members(Backlog) /\ Unstarted("local") \subseteq Members(Backlog)
  BY LaneFacts DEF Unstarted, LinedUp
<1>10. {p \in InOrder(Backlog) : \E l \in LaneNames : p \in Unstarted(l) \X Unstarted(l)}'
       = {p \in InOrder(Backlog) : \E l \in LaneNames : p \in Unstarted(l) \X Unstarted(l)}
           \cup (Unstarted("remote") \X {x})
  <2> DEFINE E == {p \in InOrder(Backlog) : \E l \in LaneNames : p \in Unstarted(l) \X Unstarted(l)}
  <2>1. ASSUME NEW p \in E'
        PROVE  p \in E \cup (Unstarted("remote") \X {x})
    <3>1. PICK l \in LaneNames : p \in Unstarted(l)' \X Unstarted(l)'
      BY <2>1
    <3>2. PICK a \in Unstarted(l)', b \in Unstarted(l)' : p = <<a, b>>
      BY <3>1
    <3>3. a \in Ops /\ b \in Ops
      BY LaneFacts DEF Unstarted
    <3>4. CASE p \in InOrder(Backlog)
      <4>1. a # x /\ b # x
        BY <3>2, <3>3, <3>4, <1>6, <1>3
      <4>2. a \in Unstarted(l) /\ b \in Unstarted(l)
        BY <1>8, <4>1, LaneFacts
      <4> QED
        BY <4>2, <3>2, <3>4
    <3>5. CASE p \in Members(Backlog) \X {x}
      <4>1. b = x /\ a # x
        BY <3>2, <3>5, <1>3
      <4>2. l = "remote"
        BY <4>1, <1>8, <1>9, <1>3, <3>2, LaneFacts
      <4> QED
        BY <4>1, <4>2, <1>8, <3>2
    <3> QED
      BY <3>4, <3>5, <2>1
  <2>2. ASSUME NEW p \in E
        PROVE  p \in E'
    <3>1. PICK l \in LaneNames : p \in Unstarted(l) \X Unstarted(l)
      BY <2>2
    <3>2. Unstarted(l) \subseteq Unstarted(l)'
      BY <1>8, LaneFacts
    <3>3. p \in Unstarted(l)' \X Unstarted(l)' /\ p \in InOrder(Backlog)'
      BY <3>1, <3>2, <2>2
    <3> QED
      BY <3>3
  <2>3. ASSUME NEW a \in Unstarted("remote")
        PROVE  <<a, x>> \in E'
    <3>1. a \in Unstarted("remote")' /\ x \in Unstarted("remote")'
      BY <1>8
    <3>2. <<a, x>> \in InOrder(Backlog)'
      BY <1>9
    <3> QED
      BY <3>1, <3>2, LaneFacts
  <2> QED
    BY <2>1, <2>2, <2>3
<1>11. {o \in Ops : phase[o] \notin {"new", "queued"}}' = {o \in Ops : phase[o] \notin {"new", "queued"}}
  BY <1>2
<1>12. Lanes!Submit("remote", x)
  <2>1. x \notin {o \in Ops : phase[o] \notin {"new", "queued"}}
    OBVIOUS
  <2>2. \A l \in LaneNames : x \notin Unstarted(l)
    BY <1>3, <1>9, LaneFacts
  <2>3. x \notin Lanes!Waiting
    BY <2>2 DEF Lanes!Waiting
  <2>4. [l \in LaneNames |-> Unstarted(l)]'
          = [[l \in LaneNames |-> Unstarted(l)] EXCEPT !["remote"] = @ \cup {x}]
    BY <1>8, LaneFacts
  <2>5. [l \in LaneNames |-> Unstarted(l)]["remote"] = Unstarted("remote")
    BY <1>1
  <2> QED
    BY <2>1, <2>3, <2>4, <2>5, <1>10, <1>11 DEF Lanes!Submit
<1>13. Lanes!Next
  BY <1>1, <1>12 DEF Lanes!Next
<1> QED
  BY <1>7, <1>13

LEMMA DroppedStep ==
    ASSUME LinedUp, NEW h \in Ops, NEW v \in Phases \ {"new", "queued"},
           phase \in [Ops -> Phases],
           phase' = [phase EXCEPT ![h] = v],
           Members(Backlog) = {h} \cup Members(Backlog)',
           InOrder(Backlog) = InOrder(Backlog)' \cup ({h} \X Members(Backlog)')
    PROVE  LinedUp' /\ [Lanes!Next]_(Lanes!laneVars)
<1>1. phase'[h] = v /\ \A o \in Ops : o # h => phase'[o] = phase[o]
  OBVIOUS
<1>2. \A o \in Ops : o # h => (Begun(o) <=> Begun(o)')
  BY <1>1 DEF Begun
<1>3. Members(Backlog)' \subseteq Ops /\ InOrder(Backlog)' \subseteq Ops \X Ops
  BY DEF Members, InOrder
<1>4. h \in Members(Backlog)' => Begun(h)'
  <2>1. ASSUME h \in Members(Backlog)'
        PROVE  Begun(h)'
    <3>1. <<h, h>> \in InOrder(Backlog)
      BY <2>1
    <3>2. phase[h] # "queued"
      BY <3>1 DEF LinedUp
    <3>3. Begun(h)
      BY <3>2 DEF LinedUp
    <3> QED
      BY <3>3, <1>1 DEF Begun
  <2> QED
    BY <2>1
<1>5. LinedUp'
  <2>1. \A o \in Members(Backlog)' : phase'[o] = "queued" \/ Begun(o)'
    BY <1>1, <1>2, <1>3, <1>4 DEF LinedUp
  <2>2. \A o \in Ops : phase'[o] = "queued" =>
          o \in Members(Backlog)' /\ <<o, o>> \notin InOrder(Backlog)'
    BY <1>1, <1>3 DEF LinedUp
  <2> QED
    BY <2>1, <2>2 DEF LinedUp
<1> DEFINE E == {p \in InOrder(Backlog) : \E n \in LaneNames : p \in Unstarted(n) \X Unstarted(n)}
<1>6. CASE phase[h] # "queued"
  <2>1. \A l \in LaneNames : Unstarted(l)' = Unstarted(l) /\ h \notin Unstarted(l)
    BY <1>6, <1>1, LaneFacts DEF Unstarted
  <2>2. Begun(h)
    BY <1>6 DEF LinedUp
  <2>3. {o \in Ops : phase[o] \notin {"new", "queued"}}' = {o \in Ops : phase[o] \notin {"new", "queued"}}
    BY <2>2, <1>1 DEF Begun
  <2>4. ASSUME NEW p \in E
        PROVE  p \in E'
    <3>1. PICK l \in LaneNames : p \in Unstarted(l) \X Unstarted(l)
      BY <2>4
    <3>10. PICK a \in Unstarted(l), b \in Unstarted(l) : p = <<a, b>>
      BY <3>1
    <3>2. a # h
      BY <2>1
    <3>3. p \in InOrder(Backlog)'
      BY <3>1, <3>10, <3>2, <2>4
    <3> QED
      BY <3>1, <3>10, <3>3, <2>1
  <2>5. ASSUME NEW p \in E'
        PROVE  p \in E
    BY <2>5, <2>1
  <2>6. E' = E
    BY <2>4, <2>5
  <2> QED
    BY <1>5, <2>1, <2>3, <2>6 DEF Lanes!laneVars
<1>7. CASE phase[h] = "queued"
  <2>1. PICK l \in LaneNames : h \in LaneOps(l)
    BY LaneFacts
  <2>2. h \notin Members(Backlog)'
    <3>1. <<h, h>> \notin InOrder(Backlog)
      BY <1>7 DEF LinedUp
    <3> QED
      BY <3>1
  <2>3. /\ Unstarted(l)' = Unstarted(l) \ {h}
        /\ \A k \in LaneNames \ {l} : Unstarted(k)' = Unstarted(k) /\ h \notin Unstarted(k)
        /\ h \in Unstarted(l)
    BY <1>1, <1>7, <2>1, LaneFacts DEF Unstarted
  <2>4. \A o \in Ops : <<o, h>> \notin InOrder(Backlog)' /\ <<h, o>> \notin InOrder(Backlog)'
    BY <2>2 DEF InOrder, Members
  <2>5. \A o \in Ops : <<o, h>> \notin InOrder(Backlog)
    BY <2>2, <2>4
  <2>6. E' = {p \in E : p[1] # h}
    <3>1. ASSUME NEW p \in E'
          PROVE  p \in E /\ p[1] # h
      <4>1. PICK k \in LaneNames : p \in Unstarted(k)' \X Unstarted(k)'
        BY <3>1
      <4>2. PICK a \in Unstarted(k)', b \in Unstarted(k)' : p = <<a, b>>
        BY <4>1
      <4>3. a \in Unstarted(k) /\ b \in Unstarted(k) /\ a # h
        BY <2>3
      <4> QED
        BY <4>2, <4>3, <3>1
    <3>2. ASSUME NEW p \in E, p[1] # h
          PROVE  p \in E'
      <4>1. PICK k \in LaneNames : p \in Unstarted(k) \X Unstarted(k)
        BY <3>2
      <4>10. PICK a \in Unstarted(k), b \in Unstarted(k) : p = <<a, b>>
        BY <4>1
      <4>2. a # h /\ a \in Ops /\ b \in Ops
        BY <4>1, <4>10, <3>2, LaneFacts DEF Unstarted
      <4>3. b # h
        BY <4>1, <4>10, <4>2, <2>5, <3>2
      <4>4. a \in Unstarted(k)' /\ b \in Unstarted(k)'
        BY <4>2, <4>3, <2>3
      <4>5. p \in InOrder(Backlog)'
        BY <4>1, <4>10, <4>2, <3>2
      <4> QED
        BY <4>1, <4>10, <4>4, <4>5
    <3> QED
      BY <3>1, <3>2
  <2>7. {o \in Ops : phase[o] \notin {"new", "queued"}}' = {o \in Ops : phase[o] \notin {"new", "queued"}} \cup {h}
    BY <1>1
  <2>8. [k \in LaneNames |-> Unstarted(k)]'
          = [[k \in LaneNames |-> Unstarted(k)] EXCEPT ![l] = @ \ {h}]
    BY <2>3
  <2>9. Lanes!First(l, h)
    <3>1. \A s \in Unstarted(l) : <<s, h>> \notin E
      BY <2>5, LaneFacts DEF Unstarted
    <3> QED
      BY <2>3, <3>1 DEF Lanes!First
  <2>10. Lanes!Others(h) = {p \in E : p[1] # h}
    BY DEF Lanes!Others
  <2>11. Lanes!Start(l, h)
    BY <2>6, <2>7, <2>8, <2>9, <2>10 DEF Lanes!Start
  <2> QED
    BY <1>5, <2>11 DEF Lanes!Next
<1> QED
  BY <1>6, <1>7

LEMMA DroppedAndSubmittedStep ==
    ASSUME LinedUp, NEW h \in Ops, NEW x \in LocalTasks,
           NEW M, NEW R \in SUBSET RemoteOps, NEW O,
           phase \in [Ops -> Phases],
           phase[h] = "queued", phase[x] = "new",
           phase' = [phase EXCEPT ![h] = "done", ![x] = "queued"],
           Members(Backlog) = {h} \cup M \cup R,
           InOrder(Backlog) = O \cup ({h} \X (M \cup R)),
           Members(Backlog)' = M \cup R \cup {x},
           InOrder(Backlog)' = O \cup (M \X {x}) \cup ({x} \X R)
    PROVE  LinedUp' /\ Lanes!Next
<1>0. x \in Ops /\ x # h /\ "local" \in LaneNames
      /\ \A l \in LaneNames : x \in LaneOps(l) => l = "local"
  BY LaneFacts DEF Ops
<1>1. /\ phase'[h] = "done" /\ phase'[x] = "queued"
      /\ \A o \in Ops : o # h /\ o # x => phase'[o] = phase[o]
  BY <1>0
<1>2. \A o \in Ops : o # h /\ o # x => (Begun(o) <=> Begun(o)')
  BY <1>1 DEF Begun
<1>3. M \cup R \subseteq Ops /\ O \subseteq Ops \X Ops
  <2>1. Members(Backlog) \subseteq Ops /\ InOrder(Backlog) \subseteq Ops \X Ops
    BY DEF Members, InOrder
  <2> QED
    BY <2>1
<1>4. h \notin M \cup R
  <2>1. <<h, h>> \notin InOrder(Backlog)
    BY DEF LinedUp
  <2> QED
    BY <2>1
<1>5. x \notin M \cup R
  BY DEF LinedUp, Begun
<1>6. \A o \in Ops : /\ <<o, x>> \notin O /\ <<x, o>> \notin O
                     /\ <<o, h>> \notin O /\ <<h, o>> \notin O
  <2>1. \A a, b \in Ops : <<a, b>> \in InOrder(Backlog) =>
          a \in Members(Backlog) /\ b \in Members(Backlog)
    BY DEF InOrder, Members
  <2>2. \A a, b \in Ops : <<a, b>> \in InOrder(Backlog)' =>
          a \in Members(Backlog)' /\ b \in Members(Backlog)'
    BY DEF InOrder, Members
  <2>3. \A a, b \in Ops : <<a, b>> \in O =>
          a \in {h} \cup M \cup R /\ b \in {h} \cup M \cup R
    BY <2>1
  <2>4. \A a, b \in Ops : <<a, b>> \in O =>
          a \in {x} \cup M \cup R /\ b \in {x} \cup M \cup R
    BY <2>2
  <2> QED
    BY <2>3, <2>4, <1>0, <1>4, <1>5
<1>7. LinedUp'
  <2>1. \A o \in Members(Backlog)' : phase'[o] = "queued" \/ Begun(o)'
    BY <1>0, <1>1, <1>2, <1>3, <1>4 DEF LinedUp
  <2>2. \A o \in Ops : phase'[o] = "queued" =>
          o \in Members(Backlog)' /\ <<o, o>> \notin InOrder(Backlog)'
    <3>1. ASSUME NEW o \in Ops, phase'[o] = "queued", o # x
          PROVE  o \in Members(Backlog)' /\ <<o, o>> \notin InOrder(Backlog)'
      <4>1. o # h /\ phase[o] = "queued"
        BY <1>1, <3>1
      <4>2. o \in Members(Backlog) /\ <<o, o>> \notin InOrder(Backlog)
        BY <4>1 DEF LinedUp
      <4> QED
        BY <4>1, <4>2, <3>1
    <3>2. x \in Members(Backlog)' /\ <<x, x>> \notin InOrder(Backlog)'
      BY <1>0, <1>5, <1>6
    <3> QED
      BY <3>1, <3>2
  <2> QED
    BY <2>1, <2>2 DEF LinedUp
<1> DEFINE E == {p \in InOrder(Backlog) : \E n \in LaneNames : p \in Unstarted(n) \X Unstarted(n)}
<1>8. PICK l \in LaneNames : h \in LaneOps(l)
  BY LaneFacts
<1>9. /\ \A k \in LaneNames : Unstarted(k) \subseteq {h} \cup M \cup R
      /\ Unstarted("local") \subseteq {h} \cup M
      /\ h \in Unstarted(l)
      /\ \A k \in LaneNames : h \in Unstarted(k) => k = l
      /\ \A k \in LaneNames : x \notin Unstarted(k)
      /\ \A k \in LaneNames : Unstarted(k) \subseteq Ops
  <2>1. \A o \in Ops : phase[o] = "queued" => o \in {h} \cup M \cup R
    BY DEF LinedUp
  <2>2. R \cap LocalTasks = {}
    BY LaneFacts, OpsAssumption DEF Ops, RemoteOps
  <2> QED
    BY <1>8, <2>1, <2>2, LaneFacts DEF Unstarted
<1>10. \A k \in LaneNames :
         Unstarted(k)' = IF k = "local" THEN (Unstarted(k) \ {h}) \cup {x}
                                        ELSE Unstarted(k) \ {h}
  BY <1>0, <1>1, LaneFacts DEF Unstarted
<1>11. [k \in LaneNames |-> Unstarted(k)]'
         = [[[k \in LaneNames |-> Unstarted(k)] EXCEPT ![l] = @ \ {h}]
              EXCEPT !["local"] = @ \cup {x}]
  <2>1. \A k \in LaneNames : k # l => Unstarted(k) \ {h} = Unstarted(k)
    BY <1>9
  <2> QED
    BY <1>0, <1>10, <2>1
<1>12. E' = {p \in E : p[1] # h} \cup ((Unstarted("local") \ {h}) \X {x})
  <2>1. ASSUME NEW p \in E'
        PROVE  p \in {q \in E : q[1] # h} \cup ((Unstarted("local") \ {h}) \X {x})
    <3>1. PICK k \in LaneNames : p \in Unstarted(k)' \X Unstarted(k)'
      BY <2>1
    <3>2. PICK a \in Unstarted(k)', b \in Unstarted(k)' : p = <<a, b>>
      BY <3>1
    <3>3. a # h /\ b # h /\ (a # x => a \in Unstarted(k)) /\ (b # x => b \in Unstarted(k))
      BY <1>10, <1>0
    <3>4. a \in Ops /\ b \in Ops
      BY <3>3, <1>0, <1>9
    <3>5. CASE p \in O
      <4>1. a # x /\ b # x
        BY <3>2, <3>4, <3>5, <1>6
      <4>2. p \in InOrder(Backlog)
        BY <3>5
      <4>3. p \in E
        BY <3>2, <3>3, <4>1, <4>2
      <4> QED
        BY <4>3, <3>2, <3>3
    <3>6. CASE p \in M \X {x}
      <4>1. b = x /\ a # x
        BY <3>2, <3>6, <1>5
      <4>2. k = "local"
        BY <4>1, <1>9, <1>10
      <4> QED
        BY <3>2, <3>3, <4>1, <4>2
    <3>7. CASE p \in {x} \X R
      <4>1. a = x /\ b \in R /\ b # x
        BY <3>2, <3>7, <1>5
      <4>2. k = "local"
        BY <4>1, <1>9, <1>10
      <4>3. b \in LocalTasks
        BY <3>3, <4>1, <4>2, LaneFacts DEF Unstarted
      <4> QED
        BY <4>1, <4>3, OpsAssumption DEF RemoteOps
    <3> QED
      BY <2>1, <3>5, <3>6, <3>7
  <2>2. ASSUME NEW p \in E, p[1] # h
        PROVE  p \in E'
    <3>1. PICK k \in LaneNames : p \in Unstarted(k) \X Unstarted(k)
      BY <2>2
    <3>10. PICK a \in Unstarted(k), b \in Unstarted(k) : p = <<a, b>>
      BY <3>1
    <3>2. a # h /\ a \in Ops /\ b \in Ops
      BY <3>1, <3>10, <2>2, <1>9
    <3>3. p \in O
      BY <3>1, <3>10, <3>2, <2>2
    <3>4. b # h
      BY <3>1, <3>10, <3>2, <3>3, <1>6
    <3>5. a \in Unstarted(k)' /\ b \in Unstarted(k)'
      BY <3>2, <3>4, <1>10
    <3> QED
      BY <3>1, <3>10, <3>3, <3>5
  <2>3. ASSUME NEW a \in Unstarted("local") \ {h}
        PROVE  <<a, x>> \in E'
    <3>1. a \in M
      BY <1>9
    <3>2. a \in Unstarted("local")' /\ x \in Unstarted("local")'
      BY <1>0, <1>10
    <3> QED
      BY <1>0, <3>1, <3>2
  <2> QED
    BY <2>1, <2>2, <2>3
<1>13. {o \in Ops : phase[o] \notin {"new", "queued"}}' = {o \in Ops : phase[o] \notin {"new", "queued"}} \cup {h}
  BY <1>0, <1>1
<1>14. Lanes!First(l, h)
  <2>1. \A s \in Unstarted(l) : <<s, h>> \notin E
    BY <1>6, <1>9, <1>4
  <2> QED
    BY <1>9, <2>1 DEF Lanes!First
<1>15. Lanes!Others(h) = {p \in E : p[1] # h}
  BY DEF Lanes!Others
<1>16. Lanes!StartAndSubmit(l, h, "local", x)
  <2>1. x \notin {o \in Ops : phase[o] \notin {"new", "queued"}} \cup Lanes!Waiting
    BY <1>9 DEF Lanes!Waiting
  <2>2. [k \in LaneNames |-> Unstarted(k)]["local"] = Unstarted("local")
    BY <1>0
  <2> QED
    BY <1>11, <1>12, <1>13, <1>14, <1>15, <2>1, <2>2 DEF Lanes!StartAndSubmit
<1>17. Lanes!Next
  BY <1>0, <1>16 DEF Lanes!Next
<1> QED
  BY <1>7, <1>17

LEMMA HeadSplit ==
    ASSUME NEW s \in Seq(Ops), s # <<>>
    PROVE  /\ Head(s) \in Ops /\ Tail(s) \in Seq(Ops)
           /\ Members(s) = {Head(s)} \cup Members(Tail(s))
           /\ InOrder(s) = InOrder(Tail(s)) \cup ({Head(s)} \X Members(Tail(s)))
<1>1. Head(s) \in Ops /\ Tail(s) \in Seq(Ops) /\ <<Head(s)>> \in Seq(Ops)
  OBVIOUS
<1>2. s = <<Head(s)>> \o Tail(s)
  OBVIOUS
<1> DEFINE one == <<Head(s)>>
           rest == Tail(s)
<1>3. /\ Members(one \o rest) = Members(one) \cup Members(rest)
      /\ InOrder(one \o rest) =
           InOrder(one) \cup InOrder(rest) \cup (Members(one) \X Members(rest))
  BY <1>1, MembersConcat, InOrderConcat
<1>4. Members(one) = {Head(s)} /\ InOrder(one) = {}
  BY <1>1, MembersOne
<1>5. /\ Members(s) = Members(one) \cup Members(rest)
      /\ InOrder(s) =
           InOrder(one) \cup InOrder(rest) \cup (Members(one) \X Members(rest))
  BY <1>2, <1>3, Zenon
<1> QED
  BY <1>1, <1>4, <1>5

LEMMA AppendSplit ==
    ASSUME NEW s \in Seq(Ops), NEW o \in Ops
    PROVE  /\ Append(s, o) \in Seq(Ops)
           /\ Members(Append(s, o)) = Members(s) \cup {o}
           /\ InOrder(Append(s, o)) = InOrder(s) \cup (Members(s) \X {o})
<1>1. <<o>> \in Seq(Ops) /\ Append(s, o) \in Seq(Ops) /\ Append(s, o) = s \o <<o>>
  OBVIOUS
<1> DEFINE one == <<o>>
<1>2. /\ Members(s \o one) = Members(s) \cup Members(one)
      /\ InOrder(s \o one) =
           InOrder(s) \cup InOrder(one) \cup (Members(s) \X Members(one))
  BY <1>1, MembersConcat, InOrderConcat
<1>3. Members(one) = {o} /\ InOrder(one) = {}
  BY MembersOne
<1>4. /\ Members(Append(s, o)) = Members(s) \cup Members(one)
      /\ InOrder(Append(s, o)) =
           InOrder(s) \cup InOrder(one) \cup (Members(s) \X Members(one))
  BY <1>1, <1>2, Zenon
<1> QED
  BY <1>1, <1>3, <1>4

LEMMA ConsFacts ==
    ASSUME NEW h \in Ops, NEW t \in Seq(Ops)
    PROVE  /\ <<h>> \o t \in Seq(Ops) /\ <<h>> \o t # <<>>
           /\ Head(<<h>> \o t) = h /\ Tail(<<h>> \o t) = t
<1>1. <<h>> \o t \in Seq(Ops) /\ Len(<<h>> \o t) = 1 + Len(t) /\ (<<h>> \o t)[1] = h
  OBVIOUS
<1>2. Head(<<h>> \o t) = h /\ <<h>> \o t # <<>>
  BY <1>1
<1>3. Tail(<<h>> \o t) \in Seq(Ops) /\ Len(Tail(<<h>> \o t)) = Len(t)
  BY <1>1, <1>2
<1>4. \A i \in 1 .. Len(t) : Tail(<<h>> \o t)[i] = t[i]
  BY <1>1, <1>2
<1>5. Tail(<<h>> \o t) = t
  BY <1>3, <1>4
<1> QED
  BY <1>1, <1>2, <1>5

LEMMA ThreeParts ==
    ASSUME NEW b \in Seq(Ops), NEW l \in Seq(Ops), NEW r \in Seq(Ops)
    PROVE  /\ b \o l \o r \in Seq(Ops)
           /\ Members(b \o l \o r) = Members(b) \cup Members(l) \cup Members(r)
           /\ InOrder(b \o l \o r) =
                InOrder(b) \cup InOrder(l) \cup InOrder(r)
                  \cup (Members(b) \X Members(l))
                  \cup ((Members(b) \cup Members(l)) \X Members(r))
<1> DEFINE bl == b \o l
<1>1. bl \in Seq(Ops) /\ bl \o r \in Seq(Ops)
  OBVIOUS
<1>2. /\ Members(bl) = Members(b) \cup Members(l)
      /\ InOrder(bl) = InOrder(b) \cup InOrder(l) \cup (Members(b) \X Members(l))
  BY MembersConcat, InOrderConcat
<1> HIDE DEF bl
<1>3. /\ Members(bl \o r) = Members(bl) \cup Members(r)
      /\ InOrder(bl \o r) =
           InOrder(bl) \cup InOrder(r) \cup (Members(bl) \X Members(r))
  BY <1>1, MembersConcat, InOrderConcat
<1>4. /\ Members(bl \o r) = Members(b) \cup Members(l) \cup Members(r)
      /\ InOrder(bl \o r) =
                InOrder(b) \cup InOrder(l) \cup InOrder(r)
                  \cup (Members(b) \X Members(l))
                  \cup ((Members(b) \cup Members(l)) \X Members(r))
  BY <1>2, <1>3
<1> QED
  BY <1>1, <1>4 DEF bl

LEMMA QueueTypes ==
    ASSUME TypeOK
    PROVE  /\ batch \in Seq(Ops) /\ localQueue \in Seq(Ops)
           /\ remoteQueue \in Seq(Ops)
           /\ Members(remoteQueue) \subseteq RemoteOps
           /\ pendingIoQueue \in Seq(Ops) /\ pendingRecvIoQueue \in Seq(Ops)
           /\ phase \in [Ops -> Phases]
<1>1. RemoteOps \subseteq Ops /\ RecvOps \subseteq Ops
  BY DEF Ops, RemoteOps
<1>2. /\ batch \in Seq(Ops) /\ localQueue \in Seq(Ops)
      /\ remoteQueue \in Seq(RemoteOps)
      /\ pendingIoQueue \in Seq(RecvOps) /\ pendingRecvIoQueue \in Seq(RecvOps)
      /\ phase \in [Ops -> Phases]
  BY DEF TypeOK
<1>3. \A S, T : S \subseteq T => Seq(S) \subseteq Seq(T)
  OBVIOUS
<1>4. Members(remoteQueue) \subseteq RemoteOps
  BY <1>2 DEF Members
<1> QED
  BY <1>1, <1>2, <1>3, <1>4

\* Started receives wait for a slot or a message, are being posted or are in
\* the ring; nothing else is.
Sidelined ==
    /\ \A s \in 0 .. CqEntryCount - 1 : cqEntries[s] \in Ops => Begun(cqEntries[s])
    /\ post.op \in Ops => Begun(post.op)
    /\ \A o \in Members(pendingIoQueue) \cup Members(pendingRecvIoQueue) : Begun(o)

\* The batch is empty unless it is being executed.
BatchPoint ==
    batch # <<>> => pc = "exec" \/ (pc = "post" /\ post.ret = "exec")

LaneInv == LinedUp /\ Sidelined /\ BatchPoint

Simulated == LinedUp' /\ [Lanes!Next]_(Lanes!laneVars)

\* A step that neither touches the queues nor the phases.
LEMMA IdleSimulated ==
    ASSUME TypeOK, LinedUp, UNCHANGED <<phase, batch, localQueue, remoteQueue>>
    PROVE  Simulated
<1>1. Backlog' = Backlog
  BY DEF Backlog
<1>2. Members(Backlog)' = Members(Backlog) /\ InOrder(Backlog)' = InOrder(Backlog)
  BY <1>1 DEF Members, InOrder
<1> QED
  BY <1>2, KeptStep DEF Simulated

\* Only a started receive changes its phase.
LEMMA RunSimulated ==
    ASSUME TypeOK, LinedUp, UNCHANGED <<batch, localQueue, remoteQueue>>,
           \A o \in Ops : phase'[o] = phase[o] \/ (Begun(o) /\ Begun(o)')
    PROVE  Simulated
<1>1. Backlog' = Backlog
  BY DEF Backlog
<1>2. Members(Backlog)' = Members(Backlog) /\ InOrder(Backlog)' = InOrder(Backlog)
  BY <1>1 DEF Members, InOrder
<1> QED
  BY <1>2, KeptStep DEF Simulated

\* Operations move from one queue to the next without overtaking.
LEMMA MovedSimulated ==
    ASSUME TypeOK, LinedUp, phase' = phase,
           \/ batch = <<>> /\ batch' = localQueue /\ localQueue' = <<>>
                /\ remoteQueue' = remoteQueue
           \/ batch' = batch /\ localQueue' = localQueue \o remoteQueue
                /\ remoteQueue' = <<>>
    PROVE  Simulated
<1>1. batch \in Seq(Ops) /\ localQueue \in Seq(Ops) /\ remoteQueue \in Seq(Ops)
  BY QueueTypes
<1>2. CASE batch = <<>> /\ batch' = localQueue /\ localQueue' = <<>>
             /\ remoteQueue' = remoteQueue
  <2>1. Backlog = localQueue \o remoteQueue
    BY <1>1, <1>2 DEF Backlog
  <2>2. Backlog' = localQueue \o remoteQueue
    BY <1>1, <1>2 DEF Backlog
  <2> QED
    BY <2>1, <2>2, KeptStep DEF Simulated
<1>3. CASE batch' = batch /\ localQueue' = localQueue \o remoteQueue
             /\ remoteQueue' = <<>>
  <2>1. Backlog' = batch \o (localQueue \o remoteQueue)
    BY <1>1, <1>3 DEF Backlog
  <2>2. Backlog = batch \o (localQueue \o remoteQueue)
    BY <1>1 DEF Backlog
  <2> QED
    BY <2>1, <2>2, KeptStep DEF Simulated
<1> QED
  BY <1>2, <1>3

\* A completion taken from the ring joins the local queue.
LEMMA TakenSimulated ==
    ASSUME TypeOK, LinedUp, NEW x, Begun(x), x \in Ops,
           phase' = phase, batch' = batch, remoteQueue' = remoteQueue,
           localQueue' = Append(localQueue, x)
    PROVE  Simulated
<1>1. batch \in Seq(Ops) /\ localQueue \in Seq(Ops) /\ remoteQueue \in Seq(Ops)
  BY QueueTypes
<1>2. /\ localQueue' \in Seq(Ops)
      /\ Members(localQueue)' = Members(localQueue) \cup {x}
      /\ InOrder(localQueue)' = InOrder(localQueue) \cup (Members(localQueue) \X {x})
  BY <1>1, AppendSplit
<1>3. /\ Members(Backlog) = Members(batch) \cup Members(localQueue) \cup Members(remoteQueue)
      /\ InOrder(Backlog) =
            InOrder(batch) \cup InOrder(localQueue) \cup InOrder(remoteQueue)
              \cup (Members(batch) \X Members(localQueue))
              \cup ((Members(batch) \cup Members(localQueue)) \X Members(remoteQueue))
  BY <1>1, ThreeParts DEF Backlog
<1>4. /\ Members(Backlog)' = Members(batch) \cup Members(localQueue)' \cup Members(remoteQueue)
      /\ InOrder(Backlog)' =
            InOrder(batch) \cup InOrder(localQueue)' \cup InOrder(remoteQueue)
              \cup (Members(batch) \X Members(localQueue)')
              \cup ((Members(batch) \cup Members(localQueue)') \X Members(remoteQueue))
  <2>1. PICK l : l = localQueue'
    OBVIOUS
  <2>2. Backlog' = batch \o l \o remoteQueue
    BY <2>1 DEF Backlog
  <2>3. /\ Members(batch \o l \o remoteQueue)
             = Members(batch) \cup Members(l) \cup Members(remoteQueue)
        /\ InOrder(batch \o l \o remoteQueue) =
              InOrder(batch) \cup InOrder(l) \cup InOrder(remoteQueue)
                \cup (Members(batch) \X Members(l))
                \cup ((Members(batch) \cup Members(l)) \X Members(remoteQueue))
    <3>1. l \in Seq(Ops)
      BY <1>2, <2>1
    <3> QED
      BY <1>1, <3>1, ThreeParts
  <2> QED
    BY <2>1, <2>2, <2>3, Zenon
<1>5. Members(Backlog)' = Members(Backlog) \cup {x}
  BY <1>2, <1>3, <1>4
<1>6. InOrder(Backlog) \subseteq InOrder(Backlog)'
  BY <1>2, <1>3, <1>4
<1>7. \A a, b \in Ops : <<a, b>> \in InOrder(Backlog)' =>
             <<a, b>> \in InOrder(Backlog) \/ a = x \/ b = x
  BY <1>2, <1>3, <1>4
<1> QED
  BY <1>5, <1>6, <1>7, InsertedStep DEF Simulated

\* schedule_remote: the operation joins the remote lane last.
LEMMA SubmitSimulated ==
    ASSUME TypeOK, LinedUp, NEW p \in Producers, NEW x \in RemoteOps,
           ScheduleRemote(p, x)
    PROVE  Simulated
<1>1. batch \in Seq(Ops) /\ localQueue \in Seq(Ops) /\ remoteQueue \in Seq(Ops)
      /\ phase \in [Ops -> Phases]
  BY QueueTypes
<1>2. /\ phase[x] = "new" /\ phase' = [phase EXCEPT ![x] = "queued"]
      /\ batch' = batch /\ localQueue' = localQueue
      /\ remoteQueue' = Append(remoteQueue, x)
  BY DEF ScheduleRemote
<1>3. x \in Ops /\ Backlog \in Seq(Ops)
  BY <1>1, ThreeParts DEF Ops, Backlog
<1>4. Backlog' = Append(Backlog, x)
  BY <1>1, <1>2, <1>3 DEF Backlog
<1>5. /\ Members(Backlog)' = Members(Backlog) \cup {x}
      /\ InOrder(Backlog)' = InOrder(Backlog) \cup (Members(Backlog) \X {x})
  BY <1>3, <1>4, AppendSplit
<1> QED
  BY <1>1, <1>2, <1>5, SubmitStep DEF Simulated

\* The operation at the head of the batch is taken and started, or it is a
\* receive that comes back.
LEMMA HeadSimulated ==
    ASSUME TypeOK, LinedUp, NEW v \in Phases \ {"new", "queued"},
           batch # <<>>, batch' = Tail(batch),
           phase' = [phase EXCEPT ![Head(batch)] = v],
           localQueue' = localQueue, remoteQueue' = remoteQueue
    PROVE  Simulated
<1>1. batch \in Seq(Ops) /\ localQueue \in Seq(Ops) /\ remoteQueue \in Seq(Ops)
      /\ phase \in [Ops -> Phases]
  BY QueueTypes
<1>2. Backlog \in Seq(Ops) /\ Backlog # <<>> /\ Head(Backlog) = Head(batch)
      /\ Backlog' = Tail(Backlog)
  <2>1. batch = <<Head(batch)>> \o Tail(batch)
    BY <1>1
  <2>2. Backlog = <<Head(batch)>> \o (Tail(batch) \o localQueue \o remoteQueue)
    BY <1>1, <2>1 DEF Backlog
  <2>3. Backlog' = Tail(batch) \o localQueue \o remoteQueue
    BY DEF Backlog
  <2> DEFINE rest == Tail(batch) \o localQueue \o remoteQueue
  <2>4. rest \in Seq(Ops) /\ Head(batch) \in Ops
    BY <1>1
  <2> HIDE DEF rest
  <2>5. /\ <<Head(batch)>> \o rest \in Seq(Ops)
        /\ <<Head(batch)>> \o rest # <<>>
        /\ Head(<<Head(batch)>> \o rest) = Head(batch)
        /\ Tail(<<Head(batch)>> \o rest) = rest
    BY <2>4, ConsFacts
  <2> QED
    BY <2>2, <2>3, <2>5, Zenon DEF rest
<1>3. /\ Head(batch) \in Ops
      /\ Members(Backlog) = {Head(batch)} \cup Members(Backlog)'
      /\ InOrder(Backlog) = InOrder(Backlog)' \cup ({Head(batch)} \X Members(Backlog)')
  BY <1>2, HeadSplit
<1> QED
  BY <1>1, <1>3, DroppedStep DEF Simulated

\* A task runs, and its receiver may schedule another one on the I/O thread.
LEMMA TaskSimulated ==
    ASSUME TypeOK, LinedUp, ExecuteTask
    PROVE  Simulated
<1>1. batch \in Seq(Ops) /\ localQueue \in Seq(Ops) /\ remoteQueue \in Seq(Ops)
      /\ phase \in [Ops -> Phases] /\ Members(remoteQueue) \subseteq RemoteOps
  BY QueueTypes
<1>2. /\ batch # <<>> /\ batch' = Tail(batch) /\ remoteQueue' = remoteQueue
      /\ Head(batch) \in RemoteTasks \cup LocalTasks
  BY DEF ExecuteTask, remoteVars
<1>3. CASE phase' = [phase EXCEPT ![Head(batch)] = "done"] /\ localQueue' = localQueue
  <2>1. "done" \in Phases \ {"new", "queued"}
    BY DEF Phases
  <2> QED
    BY <1>2, <1>3, <2>1, HeadSimulated
<1>4. ASSUME NEW x \in LocalTasks, phase[x] = "new",
             phase' = [phase EXCEPT ![Head(batch)] = "done", ![x] = "queued"],
             localQueue' = Append(localQueue, x)
      PROVE  Simulated
  <2> DEFINE h == Head(batch)
             b == Tail(batch)
             M == Members(b) \cup Members(localQueue)
             R == Members(remoteQueue)
             O == InOrder(b) \cup InOrder(localQueue) \cup InOrder(remoteQueue)
                    \cup (Members(b) \X Members(localQueue))
                    \cup ((Members(b) \cup Members(localQueue)) \X Members(remoteQueue))
  <2>1. /\ h \in Ops /\ b \in Seq(Ops)
        /\ Members(batch) = {h} \cup Members(b)
        /\ InOrder(batch) = InOrder(b) \cup ({h} \X Members(b))
    BY <1>1, <1>2, HeadSplit
  <2>2. x \in Ops
    BY DEF Ops
  <2>3. PICK l : l = Append(localQueue, x)
    OBVIOUS
  <2>4. /\ l \in Seq(Ops)
        /\ Members(l) = Members(localQueue) \cup {x}
        /\ InOrder(l) = InOrder(localQueue) \cup (Members(localQueue) \X {x})
    BY <1>1, <2>2, <2>3, AppendSplit
  <2>5. Backlog' = b \o l \o remoteQueue
    BY <1>2, <1>4, <2>3 DEF Backlog
  <2> HIDE DEF h, b
  <2>6. /\ Members(Backlog) = Members(batch) \cup Members(localQueue) \cup Members(remoteQueue)
        /\ InOrder(Backlog) =
              InOrder(batch) \cup InOrder(localQueue) \cup InOrder(remoteQueue)
                \cup (Members(batch) \X Members(localQueue))
                \cup ((Members(batch) \cup Members(localQueue)) \X Members(remoteQueue))
    BY <1>1, ThreeParts DEF Backlog
  <2>7. /\ Members(b \o l \o remoteQueue) = Members(b) \cup Members(l) \cup Members(remoteQueue)
        /\ InOrder(b \o l \o remoteQueue) =
              InOrder(b) \cup InOrder(l) \cup InOrder(remoteQueue)
                \cup (Members(b) \X Members(l))
                \cup ((Members(b) \cup Members(l)) \X Members(remoteQueue))
    BY <1>1, <2>1, <2>4, ThreeParts
  <2>8. /\ Members(Backlog)' = Members(b) \cup Members(l) \cup Members(remoteQueue)
        /\ InOrder(Backlog)' =
              InOrder(b) \cup InOrder(l) \cup InOrder(remoteQueue)
                \cup (Members(b) \X Members(l))
                \cup ((Members(b) \cup Members(l)) \X Members(remoteQueue))
    BY <2>5, <2>7, Zenon
  <2>9. Members(Backlog) = {h} \cup M \cup R
    BY <2>1, <2>6
  <2>10. InOrder(Backlog) = O \cup ({h} \X (M \cup R))
    BY <2>1, <2>6
  <2>11. Members(Backlog)' = M \cup R \cup {x}
    BY <2>4, <2>8
  <2>12. InOrder(Backlog)' = O \cup (M \X {x}) \cup ({x} \X R)
    BY <2>4, <2>8
  <2>13. phase[h] = "queued"
    <3>1. h \notin RecvOps
      BY <1>2, OpsAssumption DEF h
    <3> QED
      BY <3>1, <2>9 DEF LinedUp, Begun
  <2>14. phase' = [phase EXCEPT ![h] = "done", ![x] = "queued"]
    BY <1>4 DEF h
  <2> HIDE DEF M, R, O
  <2>15. R \in SUBSET RemoteOps
    BY <1>1 DEF R
  <2>16. PICK hh, MM, RR, OO : hh = h /\ MM = M /\ RR = R /\ OO = O
    OBVIOUS
  <2>17. /\ hh \in Ops /\ phase[hh] = "queued"
         /\ phase' = [phase EXCEPT ![hh] = "done", ![x] = "queued"]
         /\ Members(Backlog) = {hh} \cup MM \cup RR
         /\ InOrder(Backlog) = OO \cup ({hh} \X (MM \cup RR))
         /\ Members(Backlog)' = MM \cup RR \cup {x}
         /\ InOrder(Backlog)' = OO \cup (MM \X {x}) \cup ({x} \X RR)
         /\ RR \in SUBSET RemoteOps
    BY <2>1, <2>9, <2>10, <2>11, <2>12, <2>13, <2>14, <2>15, <2>16, Zenon
  <2>18. LinedUp' /\ Lanes!Next
    BY <1>1, <1>4, <2>17, DroppedAndSubmittedStep
  <2> QED
    BY <2>18 DEF Simulated
<1> QED
  BY <1>3, <1>4 DEF ExecuteTask

\* start_io leaves the operation it is run for started.
LEMMA StartIoPhase ==
    ASSUME NEW o, NEW ret, StartIoRefused(o) \/ StartIoAdmitted(o, ret)
    PROVE  \E v \in Phases \ {"new", "queued"} : phase' = [phase EXCEPT ![o] = v]
<1>1. {"start", "done", "inflight", "complete"} \subseteq Phases \ {"new", "queued"}
  BY DEF Phases
<1>2. CASE StartIoRefused(o)
  BY <1>1, <1>2 DEF StartIoRefused
<1>3. CASE StartIoNoMessage(o)
  BY <1>1, <1>3 DEF StartIoNoMessage
<1>4. CASE StartIoEager(o)
  BY <1>1, <1>4 DEF StartIoEager
<1>5. CASE StartIoRndv(o)
  BY <1>1, <1>5 DEF StartIoRndv
<1>6. CASE StartIoPosts(o, ret)
  BY <1>1, <1>6 DEF StartIoPosts
<1> QED
  BY <1>2, <1>3, <1>4, <1>5, <1>6 DEF StartIoAdmitted

\* Every step of the loop and of the producers is a step of the lanes.
LEMMA NextSimulated ==
    ASSUME TypeOK, LaneInv, [Next]_vars
    PROVE  Simulated
<1> USE DEF LaneInv
<1>1. ASSUME NEW p \in Producers, NEW o \in RemoteOps, ScheduleRemote(p, o)
      PROVE  Simulated
  BY <1>1, SubmitSimulated
<1>2. ASSUME NEW p \in Producers, SignalRemoteQueue(p)
      PROVE  Simulated
  <2>1. UNCHANGED <<phase, batch, localQueue, remoteQueue>>
    BY <1>2 DEF SignalRemoteQueue, SignalLoadEntry, SubmitEventLoadTail,
                SubmitEventWrite, SubmitEventStoreTail, SignalResetEntry,
                ioVars, remoteVars
  <2> QED
    BY <2>1, IdleSimulated
<1>3. CASE ExecutePendingLocal
  <2>1. batch = <<>>
    BY <1>3 DEF ExecutePendingLocal, BatchPoint
  <2> QED
    BY <1>3, <2>1, MovedSimulated DEF ExecutePendingLocal, remoteVars
<1>4. CASE ExecuteTask
  BY <1>4, TaskSimulated
<1>5. CASE ExecuteStop \/ ExecuteReadComplete
  <2>1. /\ batch # <<>> /\ batch' = Tail(batch)
        /\ phase' = [phase EXCEPT ![Head(batch)] = "done"]
        /\ UNCHANGED <<localQueue, remoteQueue>>
    BY <1>5 DEF ExecuteStop, ExecuteReadComplete, remoteVars
  <2>2. "done" \in Phases \ {"new", "queued"}
    BY DEF Phases
  <2> QED
    BY <2>1, <2>2, HeadSimulated
<1>6. CASE ExecuteStartIo
  <2>1. /\ batch # <<>> /\ batch' = Tail(batch)
        /\ StartIoRefused(Head(batch)) \/ StartIoAdmitted(Head(batch), "exec")
        /\ UNCHANGED <<localQueue, remoteQueue>>
    BY <1>6 DEF ExecuteStartIo, remoteVars
  <2>2. PICK v \in Phases \ {"new", "queued"} :
          phase' = [phase EXCEPT ![Head(batch)] = v]
    BY <2>1, StartIoPhase
  <2> QED
    BY <2>1, <2>2, HeadSimulated
<1>7. CASE BatchFinished \/ LoadCompletionQueueTail \/ CompletionCountOverrun
           \/ PendingIoFinished \/ RegisterArm \/ RegisterMarkInactive
           \/ AmRecvCallback \/ ProgressFinished \/ PostCompletion
  <2>1. UNCHANGED <<phase, batch, localQueue, remoteQueue>>
    BY <1>7 DEF BatchFinished, LoadCompletionQueueTail, CompletionCountOverrun,
                PendingIoFinished, RegisterArm, RegisterMarkInactive,
                AmRecvCallback, ProgressFinished, PostCompletion, remoteVars
  <2> QED
    BY <2>1, IdleSimulated
<1>8. CASE AcquireCompletionQueueItem
  <2>1. UNCHANGED <<phase, batch, remoteQueue>>
    BY <1>8 DEF AcquireCompletionQueueItem, remoteVars
  <2>2. CASE TakeRemoteQueueEvent
    BY <2>1, <2>2, IdleSimulated DEF TakeRemoteQueueEvent
  <2>3. CASE TakeOpCompletion
    <3>1. Slot(cqHead) \in 0 .. CqEntryCount - 1
      BY SlotType DEF TypeOK
    <3>2. PICK x : x = cqEntries[Slot(cqHead)]
      OBVIOUS
    <3>3. x \in Ops /\ Begun(x)
      BY <2>3, <3>1, <3>2 DEF TakeOpCompletion, Sidelined
    <3>4. localQueue' = Append(localQueue, x)
      BY <2>3, <3>2 DEF TakeOpCompletion
    <3> QED
      BY <2>1, <3>3, <3>4, TakenSimulated
  <2> QED
    BY <1>8, <2>2, <2>3 DEF AcquireCompletionQueueItem
<1>9. CASE AcquireRemoteQueuedItems
  <2>1. CASE remoteQueueReadSubmitted
    BY <1>9, <2>1, IdleSimulated DEF AcquireRemoteQueuedItems
  <2>2. CASE ~remoteQueueReadSubmitted
    BY <1>9, <2>2, MovedSimulated DEF AcquireRemoteQueuedItems
  <2> QED
    BY <2>1, <2>2
<1>10. CASE RegisterDequeueAll
  BY <1>10, MovedSimulated DEF RegisterDequeueAll
<1>11. CASE ExecutePendingIo
  <2>1. /\ pendingIoQueue # <<>>
        /\ StartIoAdmitted(Head(pendingIoQueue), "pend")
        /\ UNCHANGED <<batch, localQueue, remoteQueue>>
    BY <1>11 DEF ExecutePendingIo, remoteVars
  <2>2. Begun(Head(pendingIoQueue))
    BY <2>1, QueueTypes, HeadSplit DEF Sidelined
  <2>3. PICK v \in Phases \ {"new", "queued"} :
          phase' = [phase EXCEPT ![Head(pendingIoQueue)] = v]
    BY <2>1, StartIoPhase
  <2>4. \A o \in Ops : phase'[o] = phase[o] \/ (Begun(o) /\ Begun(o)')
    BY <2>2, <2>3, QueueTypes DEF Begun
  <2> QED
    BY <2>1, <2>4, RunSimulated
<1>12. ASSUME NEW r \in RecvOps, RequestCallback(r)
       PROVE  Simulated
  <2>1. /\ phase[r] = "inflight" /\ phase' = [phase EXCEPT ![r] = "complete"]
        /\ UNCHANGED <<batch, localQueue, remoteQueue>>
    BY <1>12 DEF RequestCallback, remoteVars
  <2>2. \A o \in Ops : phase'[o] = phase[o] \/ (Begun(o) /\ Begun(o)')
    BY <2>1, QueueTypes DEF Begun
  <2> QED
    BY <2>1, <2>2, RunSimulated
<1>13. CASE UNCHANGED vars
  <2>1. UNCHANGED <<phase, batch, localQueue, remoteQueue>>
    BY <1>13 DEF vars, ioVars, remoteVars
  <2> QED
    BY <2>1, IdleSimulated
<1> QED
  BY <1>1, <1>2, <1>3, <1>4, <1>5, <1>6, <1>7, <1>8, <1>9, <1>10, <1>11,
     <1>12, <1>13
  DEF Next, IoThread

\* A receive that has been started is never queued as new again.
LEMMA BegunStays ==
    ASSUME TypeOK, [Next]_vars, NEW o, Begun(o)
    PROVE  Begun(o)'
<1>1. phase \in [Ops -> Phases] /\ o \in Ops /\ o \in RecvOps
      /\ phase[o] \notin {"new", "queued"}
  BY QueueTypes DEF Begun, Ops, RemoteOps
<1> SUFFICES phase'[o] \notin {"new", "queued"}
  BY <1>1 DEF Begun
<1>2. ASSUME NEW y, NEW v \in Phases \ {"new", "queued"},
             phase' = [phase EXCEPT ![y] = v]
      PROVE  phase'[o] \notin {"new", "queued"}
  BY <1>1, <1>2
<1>3. ASSUME NEW p \in Producers, NEW x \in RemoteOps, ScheduleRemote(p, x)
      PROVE  phase'[o] \notin {"new", "queued"}
  <2>1. phase[x] = "new" /\ phase' = [phase EXCEPT ![x] = "queued"]
    BY <1>3 DEF ScheduleRemote
  <2> QED
    BY <1>1, <2>1
<1>4. ASSUME NEW p \in Producers, SignalRemoteQueue(p)
      PROVE  phase' = phase
  BY <1>4 DEF SignalRemoteQueue, SignalLoadEntry, SubmitEventLoadTail,
              SubmitEventWrite, SubmitEventStoreTail, SignalResetEntry, ioVars
<1>5. CASE ExecuteTask
  <2>1. Head(batch) \notin RecvOps /\ LocalTasks \cap RecvOps = {}
    BY <1>5, OpsAssumption DEF ExecuteTask
  <2>2. \/ phase' = [phase EXCEPT ![Head(batch)] = "done"]
        \/ \E x \in LocalTasks :
             phase' = [phase EXCEPT ![Head(batch)] = "done", ![x] = "queued"]
    BY <1>5 DEF ExecuteTask
  <2> QED
    BY <1>1, <2>1, <2>2
<1>6. "done" \in Phases \ {"new", "queued"} /\ "complete" \in Phases \ {"new", "queued"}
  BY DEF Phases
<1>7. CASE ExecuteStop \/ ExecuteReadComplete
  <2>1. phase' = [phase EXCEPT ![Head(batch)] = "done"]
    BY <1>7 DEF ExecuteStop, ExecuteReadComplete
  <2> QED
    BY <1>2, <1>6, <2>1
<1>8. ASSUME NEW r \in RecvOps, RequestCallback(r)
      PROVE  phase'[o] \notin {"new", "queued"}
  <2>1. phase' = [phase EXCEPT ![r] = "complete"]
    BY <1>8 DEF RequestCallback
  <2> QED
    BY <1>2, <1>6, <2>1
<1>9. CASE ExecuteStartIo
  <2>1. StartIoRefused(Head(batch)) \/ StartIoAdmitted(Head(batch), "exec")
    BY <1>9 DEF ExecuteStartIo
  <2> QED
    BY <1>2, <2>1, StartIoPhase
<1>10. CASE ExecutePendingIo
  <2>1. StartIoAdmitted(Head(pendingIoQueue), "pend")
    BY <1>10 DEF ExecutePendingIo
  <2> QED
    BY <1>2, <2>1, StartIoPhase
<1>11. CASE \/ BatchFinished \/ LoadCompletionQueueTail \/ CompletionCountOverrun
            \/ PendingIoFinished \/ RegisterArm \/ RegisterMarkInactive
            \/ AmRecvCallback \/ ProgressFinished \/ PostCompletion
            \/ ExecutePendingLocal \/ AcquireCompletionQueueItem
            \/ AcquireRemoteQueuedItems \/ RegisterDequeueAll \/ UNCHANGED vars
  BY <1>1, <1>11 DEF BatchFinished, LoadCompletionQueueTail,
     CompletionCountOverrun, PendingIoFinished, RegisterArm,
     RegisterMarkInactive, AmRecvCallback, ProgressFinished, PostCompletion,
     ExecutePendingLocal, AcquireCompletionQueueItem, AcquireRemoteQueuedItems,
     RegisterDequeueAll, vars, ioVars
<1> QED
  BY <1>1, <1>3, <1>4, <1>5, <1>7, <1>8, <1>9, <1>10, <1>11 DEF Next, IoThread

\* What the ring, the entry being posted and the two waiting queues hold.
LEMMA SidelinedKept ==
    ASSUME Sidelined, \A o : Begun(o) => Begun(o)',
           NEW B, B = {o \in RecvOps : phase'[o] \notin {"new", "queued"}},
           \A s \in 0 .. CqEntryCount - 1 : cqEntries'[s] \in Ops =>
             cqEntries'[s] = cqEntries[s] \/ cqEntries'[s] \in B,
           post'.op \in Ops => post'.op = post.op \/ post'.op \in B,
           \A o \in Members(pendingIoQueue)' \cup Members(pendingRecvIoQueue)' :
             o \in Members(pendingIoQueue) \cup Members(pendingRecvIoQueue) \cup B
    PROVE  Sidelined'
<1>0. \A o : Begun(o) => o \in B
  BY DEF Begun
<1>1. \A s \in 0 .. CqEntryCount - 1 : cqEntries'[s] \in Ops => cqEntries'[s] \in B
  BY <1>0 DEF Sidelined
<1>2. post'.op \in Ops => post'.op \in B
  BY <1>0 DEF Sidelined
<1>3. \A o \in Members(pendingIoQueue)' \cup Members(pendingRecvIoQueue)' : o \in B
  BY <1>0 DEF Sidelined
<1>4. \A o \in B : o \in RecvOps /\ phase'[o] \notin {"new", "queued"}
  OBVIOUS
<1> QED
  BY <1>1, <1>2, <1>3, <1>4 DEF Sidelined, Begun

\* start_io leaves what it puts aside or posts started.
LEMMA StartIoSidelined ==
    ASSUME TypeOK, Sidelined, [Next]_vars, NEW o \in RecvOps, NEW ret,
           StartIoRefused(o) \/ StartIoAdmitted(o, ret),
           cqEntries' = cqEntries,
           Members(pendingIoQueue)' \subseteq Members(pendingIoQueue) \cup {o}
    PROVE  Sidelined'
<1>1. PICK B : B = {x \in RecvOps : phase'[x] \notin {"new", "queued"}}
  OBVIOUS
<1>2. o \in Ops /\ phase \in [Ops -> Phases] /\ pendingRecvIoQueue \in Seq(Ops)
  BY QueueTypes DEF Ops, RemoteOps
<1>3. o \in B
  <2>1. PICK v \in Phases \ {"new", "queued"} : phase' = [phase EXCEPT ![o] = v]
    BY StartIoPhase
  <2> QED
    BY <1>1, <1>2, <2>1
<1>4. \A x : Begun(x) => Begun(x)'
  BY BegunStays
<1>5. post'.op = post.op \/ post'.op = o
  <2>1. CASE StartIoPosts(o, ret)
    <3>1. post' = [op |-> o, tail |-> cqTail, ret |-> ret]
      BY <2>1 DEF StartIoPosts
    <3> QED
      BY <3>1
  <2>2. CASE ~StartIoPosts(o, ret)
    <3>1. post' = post
      BY <2>2 DEF StartIoRefused, StartIoAdmitted, StartIoNoMessage, StartIoEager,
                  StartIoRndv
    <3> QED
      BY <3>1
  <2> QED
    BY <2>1, <2>2
<1>6. Members(pendingRecvIoQueue)' \subseteq Members(pendingRecvIoQueue) \cup {o}
  <2>1. CASE pendingRecvIoQueue' = pendingRecvIoQueue
    BY <2>1
  <2>2. CASE pendingRecvIoQueue' = <<o>> \o pendingRecvIoQueue
    <3> DEFINE one == <<o>>
    <3>1. one \in Seq(Ops) /\ Members(one) = {o}
      BY <1>2, MembersOne
    <3>2. Members(one \o pendingRecvIoQueue) = {o} \cup Members(pendingRecvIoQueue)
      BY <1>2, <3>1, MembersConcat
    <3> QED
      BY <2>2, <3>2
  <2> QED
    BY <2>1, <2>2 DEF StartIoRefused, StartIoAdmitted, StartIoNoMessage,
                      StartIoEager, StartIoRndv, StartIoPosts
<1> QED
  BY <1>1, <1>3, <1>4, <1>5, <1>6, SidelinedKept

LEMMA NextSidelined ==
    ASSUME TypeOK, Sidelined, [Next]_vars
    PROVE  Sidelined'
<1>1. PICK B : B = {x \in RecvOps : phase'[x] \notin {"new", "queued"}}
  OBVIOUS
<1>2. \A x : Begun(x) => Begun(x)'
  BY BegunStays
<1>3. /\ pendingIoQueue \in Seq(Ops) /\ pendingRecvIoQueue \in Seq(Ops)
      /\ phase \in [Ops -> Phases]
      /\ cqEntries \in [0 .. CqEntryCount - 1 -> Entries]
      /\ RecvOps \subseteq Ops
  BY QueueTypes DEF TypeOK, Ops, RemoteOps
<1>4. ASSUME UNCHANGED <<cqEntries, post, pendingIoQueue, pendingRecvIoQueue>>
      PROVE  Sidelined'
  <2>1. /\ Members(pendingIoQueue)' = Members(pendingIoQueue)
        /\ Members(pendingRecvIoQueue)' = Members(pendingRecvIoQueue)
    BY <1>4
  <2> QED
    BY <1>1, <1>2, <1>4, <2>1, SidelinedKept
<1>5. ASSUME NEW p \in Producers, NEW o \in RemoteOps, ScheduleRemote(p, o)
      PROVE  Sidelined'
  BY <1>4, <1>5 DEF ScheduleRemote, cqVars
<1>6. ASSUME NEW p \in Producers, SubmitEventWrite(p)
      PROVE  Sidelined'
  <2>1. /\ cqEntries' = [cqEntries EXCEPT ![Slot(ptail[p])] = RemoteQueueEvent]
        /\ UNCHANGED <<post, pendingIoQueue, pendingRecvIoQueue>>
    BY <1>6 DEF SubmitEventWrite, ioVars
  <2>2. \A s \in 0 .. CqEntryCount - 1 :
          cqEntries'[s] \in Ops => cqEntries'[s] = cqEntries[s]
    BY <1>3, <2>1, OpsAssumption
  <2>3. /\ Members(pendingIoQueue)' = Members(pendingIoQueue)
        /\ Members(pendingRecvIoQueue)' = Members(pendingRecvIoQueue)
    BY <2>1
  <2> QED
    BY <1>1, <1>2, <2>1, <2>2, <2>3, SidelinedKept
<1>7. ASSUME NEW p \in Producers,
             \/ SignalLoadEntry(p) \/ SubmitEventLoadTail(p)
             \/ SubmitEventStoreTail(p) \/ SignalResetEntry(p)
      PROVE  Sidelined'
  BY <1>4, <1>7 DEF SignalLoadEntry, SubmitEventLoadTail, SubmitEventStoreTail,
                    SignalResetEntry, ioVars, cqVars
<1>8. CASE ExecuteStartIo
  <2>1. /\ batch # <<>> /\ Head(batch) \in RecvOps /\ cqEntries' = cqEntries
        /\ StartIoRefused(Head(batch)) \/ StartIoAdmitted(Head(batch), "exec")
        /\ \/ pendingIoQueue' = pendingIoQueue
           \/ pendingIoQueue' = Append(pendingIoQueue, Head(batch))
    BY <1>8 DEF ExecuteStartIo, cqVars
  <2>2. Members(pendingIoQueue)' \subseteq Members(pendingIoQueue) \cup {Head(batch)}
    BY <1>3, <2>1, AppendSplit
  <2> QED
    BY <2>1, <2>2, StartIoSidelined
<1>9. CASE ExecutePendingIo
  <2>1. /\ pendingIoQueue # <<>> /\ cqEntries' = cqEntries
        /\ StartIoAdmitted(Head(pendingIoQueue), "pend")
        /\ pendingIoQueue' = Tail(pendingIoQueue)
    BY <1>9 DEF ExecutePendingIo, cqVars
  <2>2. Head(pendingIoQueue) \in RecvOps
    BY <2>1, HeadTailProperties DEF TypeOK
  <2>3. Members(pendingIoQueue)' \subseteq Members(pendingIoQueue) \cup {Head(pendingIoQueue)}
    BY <1>3, <2>1, HeadSplit
  <2> QED
    BY <2>1, <2>2, <2>3, StartIoSidelined
<1>10. CASE AmRecvCallback
  <2>1. UNCHANGED <<post, cqEntries>>
    BY <1>10 DEF AmRecvCallback, cqVars
  <2>2. \A o \in Members(pendingIoQueue)' \cup Members(pendingRecvIoQueue)' :
          o \in Members(pendingIoQueue) \cup Members(pendingRecvIoQueue)
    <3>1. CASE UNCHANGED <<pendingIoQueue, pendingRecvIoQueue>>
      BY <3>1
    <3>2. CASE /\ pendingRecvIoQueue # <<>>
               /\ pendingIoQueue' = <<Head(pendingRecvIoQueue)>> \o pendingIoQueue
               /\ pendingRecvIoQueue' = Tail(pendingRecvIoQueue)
      <4> DEFINE h == Head(pendingRecvIoQueue)
                 one == <<h>>
      <4>1. /\ h \in Ops
            /\ Members(pendingRecvIoQueue) = {h} \cup Members(pendingRecvIoQueue)'
        BY <1>3, <3>2, HeadSplit
      <4>2. one \in Seq(Ops) /\ Members(one) = {h}
        BY <4>1, MembersOne
      <4>3. Members(one \o pendingIoQueue) = {h} \cup Members(pendingIoQueue)
        BY <1>3, <4>2, MembersConcat
      <4> QED
        BY <3>2, <4>1, <4>3
    <3> QED
      BY <1>10, <3>1, <3>2 DEF AmRecvCallback
  <2> QED
    BY <1>1, <1>2, <2>1, <2>2, SidelinedKept
<1>11. ASSUME NEW r \in RecvOps, RequestCallback(r)
       PROVE  Sidelined'
  <2>1. /\ phase' = [phase EXCEPT ![r] = "complete"]
        /\ post' = [op |-> r, tail |-> cqTail, ret |-> "progress"]
        /\ UNCHANGED <<cqEntries, pendingIoQueue, pendingRecvIoQueue>>
    BY <1>11 DEF RequestCallback, cqVars
  <2>2. r \in B /\ post'.op = r
    BY <1>1, <1>3, <2>1
  <2>3. /\ Members(pendingIoQueue)' = Members(pendingIoQueue)
        /\ Members(pendingRecvIoQueue)' = Members(pendingRecvIoQueue)
    BY <2>1
  <2> QED
    BY <1>1, <1>2, <2>1, <2>2, <2>3, SidelinedKept
<1>12. CASE PostCompletion
  <2>1. /\ cqEntries' = [cqEntries EXCEPT ![Slot(post.tail)] = post.op]
        /\ post' = NoPost
        /\ UNCHANGED <<phase, pendingIoQueue, pendingRecvIoQueue>>
    BY <1>12 DEF PostCompletion
  <2>2. post'.op \notin Ops
    BY <2>1, OpsAssumption DEF NoPost
  <2>3. post.op \in Ops => post.op \in B
    BY <1>1, <2>1 DEF Sidelined, Begun
  <2>4. \A s \in 0 .. CqEntryCount - 1 : cqEntries'[s] \in Ops =>
          cqEntries'[s] = cqEntries[s] \/ cqEntries'[s] \in B
    BY <1>3, <2>1, <2>3
  <2>5. /\ Members(pendingIoQueue)' = Members(pendingIoQueue)
        /\ Members(pendingRecvIoQueue)' = Members(pendingRecvIoQueue)
    BY <2>1
  <2> QED
    BY <1>1, <1>2, <2>2, <2>4, <2>5, SidelinedKept
<1>13. CASE \/ BatchFinished \/ LoadCompletionQueueTail \/ CompletionCountOverrun
            \/ PendingIoFinished \/ RegisterArm \/ RegisterMarkInactive
            \/ ProgressFinished \/ ExecutePendingLocal
            \/ AcquireCompletionQueueItem \/ AcquireRemoteQueuedItems
            \/ RegisterDequeueAll \/ ExecuteTask \/ ExecuteStop
            \/ ExecuteReadComplete
  BY <1>4, <1>13 DEF BatchFinished, LoadCompletionQueueTail,
     CompletionCountOverrun, PendingIoFinished, RegisterArm,
     RegisterMarkInactive, ProgressFinished, ExecutePendingLocal,
     AcquireCompletionQueueItem, AcquireRemoteQueuedItems, RegisterDequeueAll,
     ExecuteTask, ExecuteStop, ExecuteReadComplete, cqVars
<1>14. CASE UNCHANGED vars
  BY <1>4, <1>14 DEF vars, ioVars, cqVars
<1> QED
  BY <1>5, <1>6, <1>7, <1>8, <1>9, <1>10, <1>11, <1>12, <1>13, <1>14
  DEF Next, IoThread, SignalRemoteQueue

LEMMA NextBatchPoint ==
    ASSUME TypeOK, BatchPoint, [Next]_vars
    PROVE  BatchPoint'
<1> USE DEF BatchPoint
<1>1. ASSUME UNCHANGED <<pc, batch, post>>
      PROVE  BatchPoint'
  BY <1>1
<1>2. ASSUME NEW p \in Producers, NEW o \in RemoteOps, ScheduleRemote(p, o)
      PROVE  BatchPoint'
  BY <1>1, <1>2 DEF ScheduleRemote
<1>3. ASSUME NEW p \in Producers, SignalRemoteQueue(p)
      PROVE  BatchPoint'
  BY <1>1, <1>3 DEF SignalRemoteQueue, SignalLoadEntry, SubmitEventLoadTail,
              SubmitEventWrite, SubmitEventStoreTail, SignalResetEntry, ioVars
<1>4. CASE \/ BatchFinished \/ LoadCompletionQueueTail \/ CompletionCountOverrun
           \/ PendingIoFinished \/ RegisterArm \/ RegisterMarkInactive
           \/ AmRecvCallback \/ ProgressFinished \/ AcquireCompletionQueueItem
           \/ AcquireRemoteQueuedItems \/ RegisterDequeueAll
  <2>1. batch = <<>> /\ batch' = batch
    BY <1>4 DEF BatchFinished, LoadCompletionQueueTail, CompletionCountOverrun,
       PendingIoFinished, RegisterArm, RegisterMarkInactive, AmRecvCallback,
       ProgressFinished, AcquireCompletionQueueItem, AcquireRemoteQueuedItems,
       RegisterDequeueAll
  <2> QED
    BY <2>1
<1>5. CASE ExecutePendingLocal \/ ExecuteTask \/ ExecuteStop \/ ExecuteReadComplete
  <2>1. pc' = "exec"
    BY <1>5 DEF ExecutePendingLocal, ExecuteTask, ExecuteStop, ExecuteReadComplete
  <2> QED
    BY <2>1
<1>6. CASE ExecuteStartIo
  <2>1. pc' = "exec" \/ (pc' = "post" /\ post' = [op |-> Head(batch), tail |-> cqTail, ret |-> "exec"])
    BY <1>6 DEF ExecuteStartIo, StartIoRefused, StartIoAdmitted,
       StartIoNoMessage, StartIoEager, StartIoRndv, StartIoPosts
  <2> QED
    BY <2>1
<1>7. CASE ExecutePendingIo
  <2>1. batch = <<>> /\ batch' = batch
    BY <1>7 DEF ExecutePendingIo
  <2> QED
    BY <2>1
<1>8. ASSUME NEW r \in RecvOps, RequestCallback(r)
      PROVE  BatchPoint'
  <2>1. batch = <<>> /\ batch' = batch
    BY <1>8 DEF RequestCallback
  <2> QED
    BY <2>1
<1>9. CASE PostCompletion
  BY <1>9 DEF PostCompletion
<1>10. CASE UNCHANGED vars
  BY <1>1, <1>10 DEF vars, ioVars
<1> QED
  BY <1>2, <1>3, <1>4, <1>5, <1>6, <1>7, <1>8, <1>9, <1>10 DEF Next, IoThread

LEMMA InitLanes == Init => LaneInv /\ Lanes!Init
<1> SUFFICES ASSUME Init
             PROVE  LaneInv /\ Lanes!Init
  OBVIOUS
<1>1. /\ phase = [o \in Ops |-> "new"] /\ batch = <<>> /\ localQueue = <<>>
      /\ remoteQueue = <<>> /\ pendingIoQueue = <<>> /\ pendingRecvIoQueue = <<>>
      /\ cqEntries = [s \in 0 .. CqEntryCount - 1 |-> Unused] /\ post = NoPost
  BY DEF Init
<1>2. Backlog = <<>>
  BY <1>1 DEF Backlog
<1>3. Members(Backlog) = {} /\ InOrder(Backlog) = {}
  BY <1>2, MembersEmpty
<1>4. LinedUp
  BY <1>1, <1>3 DEF LinedUp
<1>5. Sidelined
  BY <1>1, MembersEmpty, OpsAssumption DEF Sidelined, NoPost
<1>6. BatchPoint
  BY <1>1 DEF BatchPoint
<1>7. \A l \in LaneNames : Unstarted(l) = {}
  BY <1>1, LaneFacts DEF Unstarted
<1>8. Lanes!Init
  BY <1>1, <1>3, <1>7 DEF Lanes!Init
<1> QED
  BY <1>4, <1>5, <1>6, <1>8 DEF LaneInv

\* One step of the loop keeps the invariant and is a step of TaskLanes or a
\* stutter of it.
LEMMA StepOfLanes ==
    TypeOK /\ LaneInv /\ [Next]_vars => LaneInv' /\ [Lanes!Next]_(Lanes!laneVars)
BY NextSimulated, NextSidelined, NextBatchPoint DEF LaneInv, Simulated

LEMMA LanesKept == Spec => []LaneInv
BY StepOfLanes, InitLanes, TypeCorrect, PTL DEF Spec

\* run_impl, for any number of threads, operations and messages: an operation
\* handed to schedule_remote or schedule_local starts once, and after every
\* operation handed in before it from the same place.
THEOREM LanesAreImplemented == Spec => ImplementsTaskLanes
BY StepOfLanes, LanesKept, InitLanes, TypeCorrect, PTL
DEF Spec, ImplementsTaskLanes, Lanes!Spec

-----------------------------------------------------------------------------
(***************************************************************************)
(* An operation is in one place.  Every step moves an operation from one   *)
(* summand of Places to another, or starts or ends it together with its    *)
(* place; how often an operation occurs in a queue or in the ring is       *)
(* followed through the operations on sequences and on the ring.           *)
(***************************************************************************)

\* One if the two are the same.
Same(n, x) == IF n = x THEN 1 ELSE 0

LEMMA CountType ==
    ASSUME NEW T, NEW s \in Seq(T), NEW n
    PROVE  /\ IsFiniteSet({i \in DOMAIN s : s[i] = n})
           /\ Count(s, n) \in Nat
<1>1. DOMAIN s = 1 .. Len(s) /\ Len(s) \in Nat
  OBVIOUS
<1>2. IsFiniteSet(DOMAIN s)
  BY <1>1, FS_Interval
<1>3. {i \in DOMAIN s : s[i] = n} \subseteq DOMAIN s
  OBVIOUS
<1>4. IsFiniteSet({i \in DOMAIN s : s[i] = n})
  BY <1>2, <1>3, FS_Subset
<1> QED
  BY <1>4, FS_CardinalityType DEF Count

LEMMA CountEmpty == \A n : Count(<<>>, n) = 0
<1> TAKE n
<1>1. {i \in DOMAIN <<>> : <<>>[i] = n} = {}
  OBVIOUS
<1> QED
  BY <1>1, FS_EmptySet DEF Count

LEMMA CountAppend ==
    ASSUME NEW T, NEW s \in Seq(T), NEW x \in T, NEW n
    PROVE  Count(Append(s, x), n) = Count(s, n) + Same(n, x)
<1> DEFINE a == Append(s, x)
           P == {i \in DOMAIN s : s[i] = n}
           Q == {i \in DOMAIN a : a[i] = n}
<1>1. /\ Len(s) \in Nat /\ DOMAIN s = 1 .. Len(s)
      /\ DOMAIN a = 1 .. Len(s) + 1
      /\ a[Len(s) + 1] = x
      /\ \A i \in 1 .. Len(s) : a[i] = s[i]
  OBVIOUS
<1>2. IsFiniteSet(P)
  BY CountType
<1>3. Len(s) + 1 \notin P /\ DOMAIN a = DOMAIN s \cup {Len(s) + 1}
  BY <1>1
<1>4. CASE n = x
  <2>1. Q = P \cup {Len(s) + 1}
    <3> HIDE DEF a
    <3> QED
      BY <1>1, <1>3, <1>4
  <2>2. Cardinality(Q) = Cardinality(P) + 1
    <3> HIDE DEF P, Q
    <3> QED
      BY <1>2, <1>3, <2>1, FS_AddElement
  <2> QED
    BY <1>4, <2>2 DEF Count, Same
<1>5. CASE n # x
  <2>1. Q = P
    <3> HIDE DEF a
    <3> QED
      BY <1>1, <1>3, <1>5
  <2>2. Count(s, n) \in Nat
    BY CountType
  <2>3. Count(a, n) = Cardinality(Q) /\ Count(s, n) = Cardinality(P)
    BY DEF Count
  <2>4. Count(a, n) = Count(s, n)
    BY <2>1, <2>3, Zenon
  <2> HIDE DEF a, P, Q
  <2> QED
    BY <1>5, <2>2, <2>4 DEF Same, a
<1> QED
  BY <1>4, <1>5

LEMMA CountConcat ==
    ASSUME NEW T, NEW s \in Seq(T), NEW t \in Seq(T), NEW n
    PROVE  Count(s \o t, n) = Count(s, n) + Count(t, n)
<1> DEFINE c == s \o t
           l == Len(s)
           P == {i \in DOMAIN s : s[i] = n}
           R == {i \in DOMAIN t : t[i] = n}
           M == {i \in l + 1 .. l + Len(t) : c[i] = n}
           Q == {i \in DOMAIN c : c[i] = n}
<1>1. /\ l \in Nat /\ Len(t) \in Nat /\ DOMAIN s = 1 .. l /\ DOMAIN t = 1 .. Len(t)
      /\ DOMAIN c = 1 .. l + Len(t)
      /\ \A i \in 1 .. l : c[i] = s[i]
      /\ \A i \in l + 1 .. l + Len(t) : c[i] = t[i - l]
  OBVIOUS
<1>2. IsFiniteSet(P) /\ IsFiniteSet(R)
  BY CountType
<1> DEFINE f == [j \in R |-> j + l]
<1>3. f \in Bijection(R, M)
  <2> HIDE DEF c, l
  <2>1. \A j \in R : j \in 1 .. Len(t) /\ j + l \in l + 1 .. l + Len(t) /\ (j + l) - l = j
    BY <1>1
  <2>2. \A j \in R : f[j] = j + l /\ f[j] \in M
    BY <1>1, <2>1
  <2>3. f \in [R -> M]
    BY <2>2
  <2>4. \A j, k \in R : f[j] = f[k] => j = k
    BY <1>1, <2>1, <2>2
  <2>5. \A i \in M : \E j \in R : f[j] = i
    <3> TAKE i \in M
    <3>1. i - l \in R /\ (i - l) + l = i
      BY <1>1
    <3> QED
      BY <2>2, <3>1
  <2> HIDE DEF f, R, M
  <2>6. f \in Injection(R, M)
    BY <2>3, <2>4 DEF Injection, IsInjective
  <2>7. f \in Surjection(R, M)
    BY <2>3, <2>5 DEF Surjection
  <2> QED
    BY <2>6, <2>7 DEF Bijection
<1>4. ExistsBijection(R, M)
  BY <1>3 DEF ExistsBijection
<1>5. IsFiniteSet(M) /\ Cardinality(M) = Cardinality(R)
  <2> HIDE DEF R, M
  <2> QED
    BY <1>2, <1>4, FS_Bijection
<1>6. Q = P \cup M /\ P \cap M = {}
  <2> HIDE DEF c, l
  <2>1. \A i \in DOMAIN c : i \in 1 .. l \/ i \in l + 1 .. l + Len(t)
    BY <1>1
  <2>2. \A i \in 1 .. l : i \in DOMAIN c /\ i \notin l + 1 .. l + Len(t)
    BY <1>1
  <2>3. \A i \in l + 1 .. l + Len(t) : i \in DOMAIN c
    BY <1>1
  <2> QED
    BY <1>1, <2>1, <2>2, <2>3
<1>7. Cardinality(Q) = Cardinality(P) + Cardinality(M)
  <2>1. Cardinality(P) \in Nat /\ Cardinality(M) \in Nat
    BY <1>2, <1>5, FS_CardinalityType
  <2> HIDE DEF P, M, Q
  <2>2. Cardinality(P \cup M) = Cardinality(P) + Cardinality(M) - Cardinality(P \cap M)
    BY <1>2, <1>5, FS_Union
  <2>3. Cardinality(P \cap M) = 0
    BY <1>6, FS_EmptySet
  <2> QED
    BY <1>6, <2>1, <2>2, <2>3
<1> QED
  BY <1>5, <1>7 DEF Count

LEMMA CountCons ==
    ASSUME NEW T, NEW s \in Seq(T), NEW x \in T, NEW n
    PROVE  <<x>> \o s \in Seq(T) /\ Count(<<x>> \o s, n) = Count(s, n) + Same(n, x)
<1>1. <<x>> \in Seq(T) /\ <<>> \in Seq(T) /\ Append(<<>>, x) = <<x>>
  OBVIOUS
<1>2. Count(<<x>>, n) = Count(<<>>, n) + Same(n, x)
  <2>1. Count(Append(<<>>, x), n) = Count(<<>>, n) + Same(n, x)
    BY <1>1, CountAppend
  <2> QED
    BY <1>1, <2>1, Zenon
<1>3. Count(<<x>> \o s, n) = Count(<<x>>, n) + Count(s, n)
  BY <1>1, CountConcat
<1>4. Count(s, n) \in Nat /\ Count(<<>>, n) = 0
  BY CountType, CountEmpty
<1>5. Same(n, x) \in Nat
  BY DEF Same
<1>6. <<x>> \o s \in Seq(T)
  BY <1>1
<1> QED
  BY <1>2, <1>3, <1>4, <1>5, <1>6

LEMMA CountTail ==
    ASSUME NEW T, NEW s \in Seq(T), s # <<>>, NEW n
    PROVE  /\ Tail(s) \in Seq(T) /\ Head(s) \in T
           /\ Count(s, n) = Count(Tail(s), n) + Same(n, Head(s))
<1>1. Tail(s) \in Seq(T) /\ Head(s) \in T /\ s = <<Head(s)>> \o Tail(s)
  OBVIOUS
<1>2. Count(<<Head(s)>> \o Tail(s), n) = Count(Tail(s), n) + Same(n, Head(s))
  BY <1>1, CountCons
<1> QED
  BY <1>1, <1>2, Zenon

\* The entries of the ring that name the operation.
InRing(o) == {i \in cqHead .. cqTail - 1 : cqEntries[Slot(i)] = o}

Posting(o) == IF pc = "post" /\ post.op = o THEN 1 ELSE 0

Flying(o) == IF phase[o] = "inflight" THEN 1 ELSE 0

Alive(o) == IF phase[o] \notin {"new", "done"} THEN 1 ELSE 0

Placed == \A o \in Ops : Places(o) = Alive(o)

LEMMA PlacedIsInOnePlace == (~torn => Placed) <=> InOnePlace
BY DEF Placed, InOnePlace, Alive, AsInt

LEMMA RingType ==
    ASSUME TypeOK, NEW o
    PROVE  IsFiniteSet(InRing(o)) /\ Cardinality(InRing(o)) \in Nat
<1>1. cqHead \in Nat /\ cqTail - 1 \in Int
  BY DEF TypeOK
<1>2. IsFiniteSet(cqHead .. cqTail - 1)
  BY <1>1, FS_Interval
<1>3. InRing(o) \subseteq cqHead .. cqTail - 1
  BY DEF InRing
<1> QED
  BY <1>2, <1>3, FS_Subset, FS_CardinalityType

LEMMA RingPosted ==
    ASSUME TypeOK, cqHead <= cqTail, NEW e, NEW o,
           cqHead' = cqHead, cqTail' = cqTail + 1,
           cqEntries'[Slot(cqTail)] = e,
           \A i \in cqHead .. cqTail - 1 : cqEntries'[Slot(i)] = cqEntries[Slot(i)]
    PROVE  Cardinality(InRing(o))' = Cardinality(InRing(o)) + Same(o, e)
<1>1. cqHead \in Nat /\ cqTail \in Nat
  BY DEF TypeOK
<1>2. \A i : i \in cqHead' .. cqTail' - 1 <=> i = cqTail \/ i \in cqHead .. cqTail - 1
  BY <1>1
<1>3. cqTail \notin InRing(o)
  BY <1>1 DEF InRing
<1>4. IsFiniteSet(InRing(o)) /\ Cardinality(InRing(o)) \in Nat
  BY RingType
<1>5. CASE o = e
  <2>1. InRing(o)' = InRing(o) \cup {cqTail}
    BY <1>2, <1>5 DEF InRing
  <2>2. Cardinality(InRing(o) \cup {cqTail}) = Cardinality(InRing(o)) + 1
    BY <1>3, <1>4, FS_AddElement
  <2>3. Cardinality(InRing(o))' = Cardinality(InRing(o)) + 1
    BY <2>1, <2>2, Zenon
  <2> QED
    BY <1>5, <2>3 DEF Same
<1>6. CASE o # e
  <2>1. InRing(o)' = InRing(o)
    BY <1>2, <1>6 DEF InRing
  <2>2. Cardinality(InRing(o))' = Cardinality(InRing(o))
    BY <2>1, Zenon
  <2> QED
    BY <1>4, <1>6, <2>2 DEF Same
<1> QED
  BY <1>5, <1>6

LEMMA RingTaken ==
    ASSUME TypeOK, cqHead < cqTail, NEW o,
           cqHead' = cqHead + 1, cqTail' = cqTail, cqEntries' = cqEntries
    PROVE  Cardinality(InRing(o)) =
             Cardinality(InRing(o))' + Same(o, cqEntries[Slot(cqHead)])
<1>1. cqHead \in Nat /\ cqTail \in Nat
  BY DEF TypeOK
<1>2. \A i : i \in cqHead .. cqTail - 1 <=> i = cqHead \/ i \in cqHead' .. cqTail' - 1
  BY <1>1
<1>3. cqHead \notin InRing(o)'
  BY <1>1 DEF InRing
<1>4. IsFiniteSet(InRing(o)) /\ Cardinality(InRing(o)) \in Nat
  BY RingType
<1>5. CASE o = cqEntries[Slot(cqHead)]
  <2>1. InRing(o)' = InRing(o) \ {cqHead} /\ cqHead \in InRing(o)
    BY <1>2, <1>3, <1>5 DEF InRing
  <2>2. Cardinality(InRing(o) \ {cqHead}) = Cardinality(InRing(o)) - 1
    BY <1>4, <2>1, FS_RemoveElement
  <2>3. Cardinality(InRing(o))' = Cardinality(InRing(o)) - 1
    BY <2>1, <2>2, Zenon
  <2> QED
    BY <1>4, <1>5, <2>3 DEF Same
<1>6. CASE o # cqEntries[Slot(cqHead)]
  <2>1. InRing(o)' = InRing(o)
    BY <1>2, <1>6 DEF InRing
  <2>2. Cardinality(InRing(o))' = Cardinality(InRing(o))
    BY <2>1, Zenon
  <2> QED
    BY <1>4, <1>6, <2>2 DEF Same
<1> QED
  BY <1>5, <1>6

LEMMA PlacesSum ==
    \A o : Places(o) = Count(batch, o) + Count(localQueue, o) + Count(pendingIoQueue, o)
              + Count(pendingRecvIoQueue, o) + Count(remoteQueue, o)
              + Cardinality(InRing(o)) + Posting(o) + Flying(o)
BY DEF Places, InRing, Posting, Flying, AsInt

LEMMA PlacesType ==
    ASSUME TypeOK
    PROVE  \A o : /\ Count(batch, o) \in Nat /\ Count(localQueue, o) \in Nat
                  /\ Count(pendingIoQueue, o) \in Nat
                  /\ Count(pendingRecvIoQueue, o) \in Nat
                  /\ Count(remoteQueue, o) \in Nat
                  /\ Cardinality(InRing(o)) \in Nat
                  /\ Posting(o) \in {0, 1} /\ Flying(o) \in {0, 1}
                  /\ Alive(o) \in {0, 1}
<1> TAKE o
<1>1. /\ Count(batch, o) \in Nat /\ Count(localQueue, o) \in Nat
      /\ Count(pendingIoQueue, o) \in Nat
      /\ Count(pendingRecvIoQueue, o) \in Nat
      /\ Count(remoteQueue, o) \in Nat
  BY QueueTypes, CountType
<1>2. Cardinality(InRing(o)) \in Nat
  BY RingType
<1>3. Posting(o) \in {0, 1} /\ Flying(o) \in {0, 1} /\ Alive(o) \in {0, 1}
  BY DEF Posting, Flying, Alive
<1> QED
  BY <1>1, <1>2, <1>3

LEMMA PlacesSumNext ==
    \A o : Places(o)' = Count(batch, o)' + Count(localQueue, o)' + Count(pendingIoQueue, o)'
              + Count(pendingRecvIoQueue, o)' + Count(remoteQueue, o)'
              + Cardinality(InRing(o))' + Posting(o)' + Flying(o)'
BY DEF Places, InRing, Posting, Flying, AsInt

\* The ring and the entry being posted are left alone.
RingSame ==
    \A o : Cardinality(InRing(o))' = Cardinality(InRing(o)) /\ Posting(o)' = Posting(o)

LEMMA RingUnchanged ==
    ASSUME UNCHANGED <<cqEntries, cqHead, cqTail, post>>,
           (pc = "post") <=> (pc' = "post")
    PROVE  RingSame
<1> SUFFICES ASSUME NEW o
             PROVE  Cardinality(InRing(o))' = Cardinality(InRing(o)) /\ Posting(o)' = Posting(o)
  BY DEF RingSame
<1>1. InRing(o)' = InRing(o)
  BY DEF InRing
<1>2. Posting(o)' = Posting(o)
  BY DEF Posting
<1> QED
  BY <1>1, <1>2, Zenon

LEMMA QuietPlaced ==
    ASSUME TypeOK, Placed, RingSame,
           UNCHANGED <<phase, batch, localQueue, pendingIoQueue,
                       pendingRecvIoQueue, remoteQueue>>
    PROVE  Placed'
<1> SUFFICES ASSUME NEW o \in Ops
             PROVE  Places(o)' = Alive(o)'
  BY DEF Placed
<1>1. /\ Count(batch, o)' = Count(batch, o)
      /\ Count(localQueue, o)' = Count(localQueue, o)
      /\ Count(pendingIoQueue, o)' = Count(pendingIoQueue, o)
      /\ Count(pendingRecvIoQueue, o)' = Count(pendingRecvIoQueue, o)
      /\ Count(remoteQueue, o)' = Count(remoteQueue, o)
  BY Zenon
<1>2. Flying(o)' = Flying(o) /\ Alive(o)' = Alive(o)
  BY DEF Flying, Alive
<1>3. Cardinality(InRing(o))' = Cardinality(InRing(o)) /\ Posting(o)' = Posting(o)
  BY DEF RingSame
<1>4. Places(o) = Alive(o)
  BY DEF Placed
<1> QED
  BY <1>1, <1>2, <1>3, <1>4, PlacesSum, PlacesSumNext

\* The places of an operation add up to one while it is alive.
Tally(o) ==
    /\ Count(batch, o) + Count(localQueue, o) + Count(pendingIoQueue, o)
         + Count(pendingRecvIoQueue, o) + Count(remoteQueue, o)
         + Cardinality(InRing(o)) + Posting(o) + Flying(o) = Alive(o)
    /\ Count(batch, o) \in Nat /\ Count(localQueue, o) \in Nat
    /\ Count(pendingIoQueue, o) \in Nat
    /\ Count(pendingRecvIoQueue, o) \in Nat
    /\ Count(remoteQueue, o) \in Nat
    /\ Cardinality(InRing(o)) \in Nat
    /\ Posting(o) \in {0, 1} /\ Flying(o) \in {0, 1} /\ Alive(o) \in {0, 1}

LEMMA Alone ==
    ASSUME TypeOK, Placed, NEW o \in Ops
    PROVE  Tally(o)
<1>1. Places(o) = Alive(o)
  BY DEF Placed
<1> QED
  BY <1>1, PlacesSum, PlacesType DEF Tally

\* The same sum in the next state.
Sum(o) ==
    Count(batch, o) + Count(localQueue, o) + Count(pendingIoQueue, o)
      + Count(pendingRecvIoQueue, o) + Count(remoteQueue, o)
      + Cardinality(InRing(o)) + Posting(o) + Flying(o)

LEMMA SumNext ==
    ASSUME NEW o, Sum(o)' = Alive(o)'
    PROVE  Places(o)' = Alive(o)'
<1>1. Places(o)' = Sum(o)'
  BY PlacesSumNext DEF Sum
<1> QED
  BY <1>1

LEMMA SameType == \A n, x : Same(n, x) \in {0, 1}
BY DEF Same

LEMMA ScheduleRemotePlaced ==
    ASSUME TypeOK, Placed, NEW p \in Producers, NEW x \in RemoteOps,
           ScheduleRemote(p, x)
    PROVE  Placed'
<1> SUFFICES ASSUME NEW o \in Ops
             PROVE  Places(o)' = Alive(o)'
  BY DEF Placed
<1>1. /\ phase[x] = "new" /\ phase' = [phase EXCEPT ![x] = "queued"]
      /\ remoteQueue' = Append(remoteQueue, x)
      /\ UNCHANGED <<pc, batch, localQueue, pendingIoQueue, pendingRecvIoQueue,
                     post, cqEntries, cqHead, cqTail>>
  BY DEF ScheduleRemote, cqVars
<1>2. RingSame
  BY <1>1, RingUnchanged
<1>3. Count(remoteQueue, o)' = Count(remoteQueue, o) + Same(o, x)
  <2>1. remoteQueue \in Seq(Ops) /\ x \in Ops
    BY QueueTypes DEF Ops
  <2>2. Count(Append(remoteQueue, x), o) = Count(remoteQueue, o) + Same(o, x)
    BY <2>1, CountAppend
  <2> QED
    BY <1>1, <2>2
<1>4. Flying(o)' = Flying(o) /\ Alive(o)' = Alive(o) + Same(o, x)
  BY <1>1, QueueTypes DEF Flying, Alive, Same
<1>5. /\ Count(batch, o)' = Count(batch, o)
      /\ Count(localQueue, o)' = Count(localQueue, o)
      /\ Count(pendingIoQueue, o)' = Count(pendingIoQueue, o)
      /\ Count(pendingRecvIoQueue, o)' = Count(pendingRecvIoQueue, o)
      /\ Cardinality(InRing(o))' = Cardinality(InRing(o))
      /\ Posting(o)' = Posting(o)
  BY <1>1, <1>2 DEF RingSame
<1>6. Tally(o) /\ Same(o, x) \in {0, 1}
  BY Alone DEF Same
<1>7. Sum(o)' = Alive(o)'
  BY <1>3, <1>4, <1>5, <1>6 DEF Tally, Sum
<1> QED
  BY <1>7, SumNext

\* The head of a queue is alive and nowhere else.
LEMMA BatchHead ==
    ASSUME TypeOK, Placed, batch # <<>>
    PROVE  /\ Head(batch) \in Ops
           /\ Alive(Head(batch)) = 1 /\ Flying(Head(batch)) = 0
           /\ \A o : Count(batch, o) = Count(Tail(batch), o) + Same(o, Head(batch))
           /\ \A o : Count(Tail(batch), o) \in Nat
<1>1. batch \in Seq(Ops)
  BY QueueTypes
<1>2. Head(batch) \in Ops /\ Tail(batch) \in Seq(Ops)
  BY <1>1
<1>3. \A o : Count(batch, o) = Count(Tail(batch), o) + Same(o, Head(batch))
  BY <1>1, CountTail
<1>4. \A o : Count(Tail(batch), o) \in Nat
  BY <1>2, CountType
<1>5. Count(batch, Head(batch)) >= 1
  BY <1>3, <1>4 DEF Same
<1>6. Tally(Head(batch))
  BY <1>2, Alone
<1>7. Alive(Head(batch)) = 1 /\ Flying(Head(batch)) = 0
  BY <1>5, <1>6 DEF Tally
<1> QED
  BY <1>2, <1>3, <1>4, <1>7

LEMMA PendingHead ==
    ASSUME TypeOK, Placed, pendingIoQueue # <<>>
    PROVE  /\ Head(pendingIoQueue) \in Ops
           /\ Alive(Head(pendingIoQueue)) = 1 /\ Flying(Head(pendingIoQueue)) = 0
           /\ \A o : Count(pendingIoQueue, o)
                       = Count(Tail(pendingIoQueue), o) + Same(o, Head(pendingIoQueue))
           /\ \A o : Count(Tail(pendingIoQueue), o) \in Nat
<1>1. pendingIoQueue \in Seq(Ops)
  BY QueueTypes
<1>2. Head(pendingIoQueue) \in Ops /\ Tail(pendingIoQueue) \in Seq(Ops)
  BY <1>1
<1>3. \A o : Count(pendingIoQueue, o)
              = Count(Tail(pendingIoQueue), o) + Same(o, Head(pendingIoQueue))
  BY <1>1, CountTail
<1>4. \A o : Count(Tail(pendingIoQueue), o) \in Nat
  BY <1>2, CountType
<1>5. Count(pendingIoQueue, Head(pendingIoQueue)) >= 1
  BY <1>3, <1>4 DEF Same
<1>6. Tally(Head(pendingIoQueue))
  BY <1>2, Alone
<1>7. Alive(Head(pendingIoQueue)) = 1 /\ Flying(Head(pendingIoQueue)) = 0
  BY <1>5, <1>6 DEF Tally
<1> QED
  BY <1>2, <1>3, <1>4, <1>7

\* What leaves one of eight terms leaves their sum.
LEMMA TakenFromBoth ==
    ASSUME NEW c \in Nat, NEW l \in Nat, NEW p \in Nat, NEW r \in Nat, NEW m \in Nat,
           NEW i \in Nat, NEW t \in Nat, NEW f \in Nat, NEW b \in Nat, NEW n \in Nat,
           NEW k \in Nat, NEW s \in Nat, b = c + s, n = k + s,
           b + l + p + r + m + i + t + f = n
    PROVE  c + l + p + r + m + i + t + f = k
  BY SMT

\* The operation at the head of the batch is delivered.
LEMMA DonePlaced ==
    ASSUME TypeOK, Placed, RingSame, batch # <<>>, batch' = Tail(batch),
           phase' = [phase EXCEPT ![Head(batch)] = "done"],
           UNCHANGED <<localQueue, pendingIoQueue, pendingRecvIoQueue, remoteQueue>>
    PROVE  Placed'
<1> SUFFICES ASSUME NEW o \in Ops
             PROVE  Places(o)' = Alive(o)'
  BY DEF Placed
<1>1. Count(batch, o) = Count(batch, o)' + Same(o, Head(batch)) /\ Count(batch, o)' \in Nat
  BY BatchHead
<1>2. Flying(o)' = Flying(o) /\ Alive(o) = Alive(o)' + Same(o, Head(batch))
  <2>1. Head(batch) \in Ops /\ Alive(Head(batch)) = 1 /\ Flying(Head(batch)) = 0
    BY BatchHead
  <2>2. CASE o = Head(batch)
    BY <2>1, <2>2, QueueTypes DEF Flying, Alive, Same
  <2>3. CASE o # Head(batch)
    BY <2>1, <2>3, QueueTypes DEF Flying, Alive, Same
  <2> QED
    BY <2>2, <2>3
<1>3. /\ Count(localQueue, o)' = Count(localQueue, o)
      /\ Count(pendingIoQueue, o)' = Count(pendingIoQueue, o)
      /\ Count(pendingRecvIoQueue, o)' = Count(pendingRecvIoQueue, o)
      /\ Count(remoteQueue, o)' = Count(remoteQueue, o)
      /\ Cardinality(InRing(o))' = Cardinality(InRing(o))
      /\ Posting(o)' = Posting(o)
  BY DEF RingSame
<1>4. Tally(o) /\ Same(o, Head(batch)) \in {0, 1} /\ Alive(o)' \in {0, 1}
  BY Alone DEF Same, Alive
<1>5. Sum(o)' = Alive(o)'
  <2>1. PICK l, p, r, m, i, t, f \in Nat :
          /\ l = Count(localQueue, o) /\ p = Count(pendingIoQueue, o)
          /\ r = Count(pendingRecvIoQueue, o) /\ m = Count(remoteQueue, o)
          /\ i = Cardinality(InRing(o)) /\ t = Posting(o) /\ f = Flying(o)
    BY <1>4 DEF Tally
  <2>2. PICK b, c, n, k, s \in Nat :
          /\ b = Count(batch, o) /\ c = Count(batch, o)'
          /\ n = Alive(o) /\ k = Alive(o)' /\ s = Same(o, Head(batch))
    BY <1>1, <1>4 DEF Tally
  <2>3. b + l + p + r + m + i + t + f = n
    BY <1>4, <2>1, <2>2, Zenon DEF Tally
  <2>4. Sum(o)' = c + l + p + r + m + i + t + f
    BY <1>2, <1>3, <2>1, <2>2, Zenon DEF Sum
  <2>5. b = c + s /\ n = k + s
    BY <1>1, <1>2, <2>2, Zenon
  <2>6. c + l + p + r + m + i + t + f = k
    BY <2>3, <2>5, TakenFromBoth
  <2> QED
    BY <2>2, <2>4, <2>6, Zenon
<1> QED
  BY <1>5, SumNext

LEMMA TaskPlaced ==
    ASSUME TypeOK, Placed, ExecuteTask
    PROVE  Placed'
<1>1. /\ batch # <<>> /\ batch' = Tail(batch)
      /\ UNCHANGED <<pc, pendingIoQueue, pendingRecvIoQueue, remoteQueue,
                     post, cqEntries, cqHead, cqTail>>
  BY DEF ExecuteTask, cqVars, remoteVars
<1>2. RingSame
  BY <1>1, RingUnchanged
<1>3. CASE phase' = [phase EXCEPT ![Head(batch)] = "done"] /\ localQueue' = localQueue
  BY <1>1, <1>2, <1>3, DonePlaced
<1>4. ASSUME NEW x \in LocalTasks, phase[x] = "new",
             phase' = [phase EXCEPT ![Head(batch)] = "done", ![x] = "queued"],
             localQueue' = Append(localQueue, x)
      PROVE  Placed'
  <2> SUFFICES ASSUME NEW o \in Ops
               PROVE  Places(o)' = Alive(o)'
    BY DEF Placed
  <2>1. Count(batch, o) = Count(batch, o)' + Same(o, Head(batch)) /\ Count(batch, o)' \in Nat
    BY <1>1, BatchHead
  <2>2. Count(localQueue, o)' = Count(localQueue, o) + Same(o, x)
    <3>1. localQueue \in Seq(Ops) /\ x \in Ops
      BY QueueTypes DEF Ops
    <3>2. Count(Append(localQueue, x), o) = Count(localQueue, o) + Same(o, x)
      BY <3>1, CountAppend
    <3> QED
      BY <1>4, <3>2
  <2>3. Flying(o)' = Flying(o)
        /\ Alive(o) + Same(o, x) = Alive(o)' + Same(o, Head(batch))
    <3>1. Head(batch) \in Ops /\ Alive(Head(batch)) = 1 /\ Flying(Head(batch)) = 0
      BY <1>1, BatchHead
    <3>2. Head(batch) # x /\ x \in Ops
      BY <3>1, <1>4 DEF Alive, Ops
    <3>3. CASE o = Head(batch)
      BY <1>4, <3>1, <3>2, <3>3, QueueTypes DEF Flying, Alive, Same
    <3>4. CASE o # Head(batch)
      BY <1>4, <3>1, <3>2, <3>4, QueueTypes DEF Flying, Alive, Same
    <3> QED
      BY <3>3, <3>4
  <2>4. /\ Count(pendingIoQueue, o)' = Count(pendingIoQueue, o)
        /\ Count(pendingRecvIoQueue, o)' = Count(pendingRecvIoQueue, o)
        /\ Count(remoteQueue, o)' = Count(remoteQueue, o)
        /\ Cardinality(InRing(o))' = Cardinality(InRing(o))
        /\ Posting(o)' = Posting(o)
    BY <1>1, <1>2 DEF RingSame
  <2>5. Alive(o)' \in {0, 1} /\ Same(o, x) \in {0, 1} /\ Same(o, Head(batch)) \in {0, 1}
        /\ Tally(o)
    BY Alone DEF Alive, Same
  <2>6. Sum(o)' = Alive(o)'
    BY <2>1, <2>2, <2>3, <2>4, <2>5 DEF Tally, Sum
  <2> QED
    BY <2>6, SumNext
<1> QED
  BY <1>3, <1>4 DEF ExecuteTask

\* start_io: what the operation leaves behind in its source appears elsewhere,
\* unless it is delivered.
LEMMA StartIoPlaces ==
    ASSUME TypeOK, Placed, NEW x \in RecvOps, NEW ret, pc # "post",
           Alive(x) = 1, Flying(x) = 0, NEW o \in Ops, NEW refused \in {0, 1},
           \/ refused = 1 /\ StartIoRefused(x)
           \/ refused = 0 /\ StartIoAdmitted(x, ret)
    PROVE  /\ Count(pendingRecvIoQueue, o)' + Posting(o)' + Flying(o)'
                 + (IF refused = 1 THEN Same(o, x) ELSE 0) + Alive(o)
               = Count(pendingRecvIoQueue, o) + Posting(o) + Flying(o)
                   + Same(o, x) + Alive(o)'
           /\ Count(pendingRecvIoQueue, o)' \in Nat
<1>1. x \in Ops /\ phase \in [Ops -> Phases] /\ pendingRecvIoQueue \in Seq(Ops)
  BY QueueTypes DEF Ops, RemoteOps
<1>2. /\ Count(pendingRecvIoQueue, o) \in Nat /\ Posting(o) = 0
      /\ Same(o, x) \in {0, 1} /\ (o = x <=> Same(o, x) = 1)
      /\ Flying(o) \in {0, 1} /\ Alive(o) \in {0, 1}
  BY PlacesType DEF Posting, Same
<1>4. ASSUME pc' # "post"
      PROVE  Posting(o)' = 0
  BY <1>4 DEF Posting
<1>5. ASSUME pendingRecvIoQueue' = pendingRecvIoQueue
      PROVE  Count(pendingRecvIoQueue, o)' = Count(pendingRecvIoQueue, o)
  BY <1>5
<1>7. CASE refused = 1 /\ StartIoRefused(x)
  <2>1. /\ phase' = [phase EXCEPT ![x] = "start"] /\ pc' # "post"
        /\ pendingRecvIoQueue' = pendingRecvIoQueue
    BY <1>7 DEF StartIoRefused
  <2>2. /\ o # x => Flying(o)' = Flying(o) /\ Alive(o)' = Alive(o)
        /\ o = x => Flying(o)' = 0 /\ Alive(o)' = 1 /\ Flying(o) = 0 /\ Alive(o) = 1
    BY <1>1, <2>1 DEF Flying, Alive
  <2>3. Posting(o)' = 0 /\ Count(pendingRecvIoQueue, o)' = Count(pendingRecvIoQueue, o)
    BY <1>4, <1>5, <2>1
  <2> QED
    BY <1>2, <1>7, <2>2, <2>3
<1>8. CASE refused = 0 /\ StartIoNoMessage(x)
  <2>1. /\ phase' = [phase EXCEPT ![x] = "start"] /\ pc' # "post"
        /\ pendingRecvIoQueue' = <<x>> \o pendingRecvIoQueue
    BY <1>8 DEF StartIoNoMessage
  <2>2. Count(<<x>> \o pendingRecvIoQueue, o) = Count(pendingRecvIoQueue, o) + Same(o, x)
    BY <1>1, CountCons
  <2>3. Count(pendingRecvIoQueue, o)' = Count(pendingRecvIoQueue, o) + Same(o, x)
    BY <2>1, <2>2, Zenon
  <2>4. /\ o # x => Flying(o)' = Flying(o) /\ Alive(o)' = Alive(o)
        /\ o = x => Flying(o)' = 0 /\ Alive(o)' = 1 /\ Flying(o) = 0 /\ Alive(o) = 1
    BY <1>1, <2>1 DEF Flying, Alive
  <2>5. Posting(o)' = 0
    BY <1>4, <2>1
  <2> QED
    BY <1>2, <1>8, <2>3, <2>4, <2>5
<1>9. CASE refused = 0 /\ StartIoEager(x)
  <2>1. /\ phase' = [phase EXCEPT ![x] = "done"] /\ pc' # "post"
        /\ pendingRecvIoQueue' = pendingRecvIoQueue
    BY <1>9 DEF StartIoEager
  <2>2. /\ o # x => Flying(o)' = Flying(o) /\ Alive(o)' = Alive(o)
        /\ o = x => Flying(o)' = 0 /\ Alive(o)' = 0 /\ Flying(o) = 0 /\ Alive(o) = 1
    BY <1>1, <2>1 DEF Flying, Alive
  <2>3. Posting(o)' = 0 /\ Count(pendingRecvIoQueue, o)' = Count(pendingRecvIoQueue, o)
    BY <1>4, <1>5, <2>1
  <2> QED
    BY <1>2, <1>9, <2>2, <2>3
<1>10. CASE refused = 0 /\ StartIoRndv(x)
  <2>1. /\ phase' = [phase EXCEPT ![x] = "inflight"] /\ pc' # "post"
        /\ pendingRecvIoQueue' = pendingRecvIoQueue
    BY <1>10 DEF StartIoRndv
  <2>2. /\ o # x => Flying(o)' = Flying(o) /\ Alive(o)' = Alive(o)
        /\ o = x => Flying(o)' = 1 /\ Alive(o)' = 1 /\ Flying(o) = 0 /\ Alive(o) = 1
    BY <1>1, <2>1 DEF Flying, Alive
  <2>3. Posting(o)' = 0 /\ Count(pendingRecvIoQueue, o)' = Count(pendingRecvIoQueue, o)
    BY <1>4, <1>5, <2>1
  <2> QED
    BY <1>2, <1>10, <2>2, <2>3
<1>11. CASE refused = 0 /\ StartIoPosts(x, ret)
  <2>1. PICK v \in {"start", "complete"} : phase' = [phase EXCEPT ![x] = v]
    BY <1>11 DEF StartIoPosts
  <2>2. /\ pc' = "post" /\ post' = [op |-> x, tail |-> cqTail, ret |-> ret]
        /\ pendingRecvIoQueue' = pendingRecvIoQueue
    BY <1>11 DEF StartIoPosts
  <2>3. Posting(o)' = Same(o, x)
    BY <2>2 DEF Posting, Same
  <2>4. /\ o # x => Flying(o)' = Flying(o) /\ Alive(o)' = Alive(o)
        /\ o = x => Flying(o)' = 0 /\ Alive(o)' = 1 /\ Flying(o) = 0 /\ Alive(o) = 1
    BY <1>1, <2>1 DEF Flying, Alive
  <2>5. Count(pendingRecvIoQueue, o)' = Count(pendingRecvIoQueue, o)
    BY <1>5, <2>2
  <2> QED
    BY <1>2, <1>11, <2>3, <2>4, <2>5
<1> QED
  BY <1>7, <1>8, <1>9, <1>10, <1>11 DEF StartIoAdmitted

\* start_io run from the batch.
LEMMA StartIoPlaced ==
    ASSUME TypeOK, Placed, ExecuteStartIo
    PROVE  Placed'
<1>1. /\ pc = "exec" /\ batch # <<>> /\ Head(batch) \in RecvOps
      /\ UNCHANGED <<localQueue, remoteQueue, cqEntries, cqHead, cqTail>>
  BY DEF ExecuteStartIo, cqVars, remoteVars
<1>2. PICK refused \in {0, 1} :
        \/ /\ refused = 1 /\ StartIoRefused(Head(batch))
           /\ pendingIoQueue' = Append(pendingIoQueue, Head(batch))
        \/ /\ refused = 0 /\ StartIoAdmitted(Head(batch), "exec")
           /\ pendingIoQueue' = pendingIoQueue
  BY DEF ExecuteStartIo
<1> SUFFICES ASSUME NEW o \in Ops
             PROVE  Places(o)' = Alive(o)'
  BY DEF Placed
<1> DEFINE same == Same(o, Head(batch))
<1>3. /\ Count(pendingRecvIoQueue, o)' + Posting(o)' + Flying(o)'
            + (IF refused = 1 THEN same ELSE 0) + Alive(o)
          = Count(pendingRecvIoQueue, o) + Posting(o) + Flying(o) + same + Alive(o)'
      /\ Count(pendingRecvIoQueue, o)' \in Nat
  <2>1. Alive(Head(batch)) = 1 /\ Flying(Head(batch)) = 0 /\ pc # "post"
    BY <1>1, BatchHead
  <2> QED
    BY <1>1, <1>2, <2>1, StartIoPlaces
<1>4. Count(batch, o) = Count(batch, o)' + same /\ Count(batch, o)' \in Nat
  <2>1. batch' = Tail(batch)
    BY DEF ExecuteStartIo
  <2> QED
    BY <1>1, <2>1, BatchHead
<1>5. Count(pendingIoQueue, o)' = Count(pendingIoQueue, o) + (IF refused = 1 THEN same ELSE 0)
  <2>1. pendingIoQueue \in Seq(Ops) /\ Head(batch) \in Ops
    BY <1>1, QueueTypes, BatchHead
  <2>2. Count(Append(pendingIoQueue, Head(batch)), o) = Count(pendingIoQueue, o) + same
    BY <2>1, CountAppend
  <2>3. Count(pendingIoQueue, o) \in Nat
    BY PlacesType
  <2>4. CASE refused = 1
    <3>1. pendingIoQueue' = Append(pendingIoQueue, Head(batch))
      BY <1>2, <2>4
    <3>2. Count(pendingIoQueue, o)' = Count(pendingIoQueue, o) + same
      BY <2>2, <3>1, Zenon
    <3> HIDE DEF same
    <3> QED
      BY <2>4, <3>2
  <2>5. CASE refused = 0
    BY <1>2, <2>3, <2>5
  <2> QED
    BY <2>4, <2>5
<1>6. /\ Count(localQueue, o)' = Count(localQueue, o)
      /\ Count(remoteQueue, o)' = Count(remoteQueue, o)
      /\ Cardinality(InRing(o))' = Cardinality(InRing(o))
  BY <1>1 DEF InRing
<1>7. Tally(o) /\ same \in {0, 1}
      /\ Alive(o)' \in {0, 1} /\ Posting(o)' \in {0, 1} /\ Flying(o)' \in {0, 1}
  BY Alone DEF Same, Alive, Posting, Flying
<1> HIDE DEF same
<1>8. PICK b \in {0, same} : b = IF refused = 1 THEN same ELSE 0
  OBVIOUS
<1>9. /\ Count(pendingRecvIoQueue, o)' + Posting(o)' + Flying(o)' + b + Alive(o)
           = Count(pendingRecvIoQueue, o) + Posting(o) + Flying(o) + same + Alive(o)'
      /\ Count(pendingIoQueue, o)' = Count(pendingIoQueue, o) + b
      /\ b \in {0, 1} /\ Count(pendingRecvIoQueue, o)' \in Nat
  BY <1>3, <1>5, <1>7, <1>8, Zenon
<1>10. PICK rest \in Nat : rest = Count(localQueue, o) + Count(remoteQueue, o)
                                   + Cardinality(InRing(o))
  BY <1>7 DEF Tally
<1>11. PICK held \in Nat : held = Count(pendingRecvIoQueue, o)' + Posting(o)' + Flying(o)'
  BY <1>7, <1>9
<1>12. PICK was \in Nat : was = Count(pendingRecvIoQueue, o) + Posting(o) + Flying(o)
  BY <1>7 DEF Tally
<1>13. Sum(o)' = Count(batch, o)' + Count(pendingIoQueue, o)' + rest + held
  BY <1>4, <1>6, <1>7, <1>9, <1>10, <1>11 DEF Tally, Sum
<1>14. Count(batch, o) + Count(pendingIoQueue, o) + rest + was = Alive(o)
  BY <1>7, <1>10, <1>12 DEF Tally
<1>15. held + b + Alive(o) = was + same + Alive(o)'
  BY <1>7, <1>9, <1>11, <1>12 DEF Tally
<1>16. Sum(o)' = Alive(o)'
  BY <1>4, <1>7, <1>9, <1>13, <1>14, <1>15 DEF Tally
<1> QED
  BY <1>16, SumNext

\* start_io run from pendingIoQueue_.
LEMMA PendingIoPlaced ==
    ASSUME TypeOK, Placed, ExecutePendingIo
    PROVE  Placed'
<1>1. /\ pc = "pend" /\ pendingIoQueue # <<>> /\ Head(pendingIoQueue) \in RecvOps
      /\ StartIoAdmitted(Head(pendingIoQueue), "pend")
      /\ UNCHANGED <<batch, localQueue, remoteQueue, cqEntries, cqHead, cqTail>>
  BY HeadTailProperties DEF ExecutePendingIo, cqVars, remoteVars, TypeOK
<1> SUFFICES ASSUME NEW o \in Ops
             PROVE  Places(o)' = Alive(o)'
  BY DEF Placed
<1> DEFINE same == Same(o, Head(pendingIoQueue))
<1>2. PICK refused \in {0, 1} : refused = 0
  OBVIOUS
<1>3. /\ Count(pendingRecvIoQueue, o)' + Posting(o)' + Flying(o)'
            + (IF refused = 1 THEN same ELSE 0) + Alive(o)
          = Count(pendingRecvIoQueue, o) + Posting(o) + Flying(o) + same + Alive(o)'
      /\ Count(pendingRecvIoQueue, o)' \in Nat
  <2>1. Alive(Head(pendingIoQueue)) = 1 /\ Flying(Head(pendingIoQueue)) = 0 /\ pc # "post"
    BY <1>1, PendingHead
  <2> QED
    BY <1>1, <1>2, <2>1, StartIoPlaces
<1>4. Count(pendingIoQueue, o) = Count(pendingIoQueue, o)' + same /\ Count(pendingIoQueue, o)' \in Nat
  <2>1. pendingIoQueue' = Tail(pendingIoQueue)
    BY DEF ExecutePendingIo
  <2> QED
    BY <1>1, <2>1, PendingHead
<1>6. /\ Count(batch, o)' = Count(batch, o)
      /\ Count(localQueue, o)' = Count(localQueue, o)
      /\ Count(remoteQueue, o)' = Count(remoteQueue, o)
      /\ Cardinality(InRing(o))' = Cardinality(InRing(o))
  BY <1>1 DEF InRing
<1>7. Tally(o) /\ same \in {0, 1}
      /\ Alive(o)' \in {0, 1} /\ Posting(o)' \in {0, 1} /\ Flying(o)' \in {0, 1}
  BY Alone DEF Same, Alive, Posting, Flying
<1> HIDE DEF same
<1>8. Sum(o)' = Alive(o)'
  BY <1>2, <1>3, <1>4, <1>6, <1>7, SMTT(30) DEF Tally, Sum
<1> QED
  BY <1>8, SumNext

\* Operations move between queues and keep their phase.
LEMMA QueuesMovedPlaced ==
    ASSUME TypeOK, Placed, phase' = phase,
           \A o \in Ops :
             Count(batch, o)' + Count(localQueue, o)' + Count(pendingIoQueue, o)'
               + Count(pendingRecvIoQueue, o)' + Count(remoteQueue, o)'
               + Cardinality(InRing(o))' + Posting(o)'
             = Count(batch, o) + Count(localQueue, o) + Count(pendingIoQueue, o)
                 + Count(pendingRecvIoQueue, o) + Count(remoteQueue, o)
                 + Cardinality(InRing(o)) + Posting(o)
    PROVE  Placed'
<1> SUFFICES ASSUME NEW o \in Ops
             PROVE  Places(o)' = Alive(o)'
  BY DEF Placed
<1>1. Tally(o)
  BY Alone
<1>2. Flying(o)' = Flying(o) /\ Alive(o)' = Alive(o)
  BY DEF Flying, Alive
<1>3. Sum(o)' = Alive(o)'
  BY <1>1, <1>2 DEF Tally, Sum
<1> QED
  BY <1>3, SumNext

LEMMA PendingLocalPlaced ==
    ASSUME TypeOK, Placed, BatchPoint, ExecutePendingLocal
    PROVE  Placed'
<1>1. /\ batch = <<>> /\ batch' = localQueue /\ localQueue' = <<>> /\ phase' = phase
      /\ UNCHANGED <<pendingIoQueue, pendingRecvIoQueue, remoteQueue>>
  BY DEF ExecutePendingLocal, BatchPoint, remoteVars
<1>2. RingSame
  BY RingUnchanged DEF ExecutePendingLocal, cqVars
<1>3. ASSUME NEW o \in Ops
      PROVE  /\ Count(batch, o)' = Count(localQueue, o) /\ Count(batch, o) = 0
             /\ Count(localQueue, o)' = 0
             /\ Count(pendingIoQueue, o)' = Count(pendingIoQueue, o)
             /\ Count(pendingRecvIoQueue, o)' = Count(pendingRecvIoQueue, o)
             /\ Count(remoteQueue, o)' = Count(remoteQueue, o)
             /\ Cardinality(InRing(o))' = Cardinality(InRing(o))
             /\ Posting(o)' = Posting(o)
             /\ Count(localQueue, o) \in Nat
  BY <1>1, <1>2, CountEmpty, PlacesType DEF RingSame
<1> QED
  BY <1>1, <1>3, QueuesMovedPlaced

\* The remote queue is taken over whole.
LEMMA DequeuedPlaced ==
    ASSUME TypeOK, Placed, AcquireRemoteQueuedItems \/ RegisterDequeueAll
    PROVE  Placed'
<1>1. /\ phase' = phase
      /\ UNCHANGED <<batch, pendingIoQueue, pendingRecvIoQueue>>
      /\ \/ UNCHANGED <<localQueue, remoteQueue>>
         \/ localQueue' = localQueue \o remoteQueue /\ remoteQueue' = <<>>
  BY DEF AcquireRemoteQueuedItems, RegisterDequeueAll
<1>2. RingSame
  BY RingUnchanged DEF AcquireRemoteQueuedItems, RegisterDequeueAll, cqVars
<1>3. CASE UNCHANGED <<localQueue, remoteQueue>>
  BY <1>1, <1>2, <1>3, QuietPlaced
<1>4. CASE localQueue' = localQueue \o remoteQueue /\ remoteQueue' = <<>>
  <2>1. ASSUME NEW o \in Ops
        PROVE  /\ Count(localQueue, o)' = Count(localQueue, o) + Count(remoteQueue, o)
               /\ Count(remoteQueue, o)' = 0
               /\ Count(localQueue, o) \in Nat /\ Count(remoteQueue, o) \in Nat
    <3>1. localQueue \in Seq(Ops) /\ remoteQueue \in Seq(Ops)
      BY QueueTypes
    <3>2. Count(localQueue \o remoteQueue, o) = Count(localQueue, o) + Count(remoteQueue, o)
      BY <3>1, CountConcat
    <3> QED
      BY <1>4, <3>2, CountEmpty, PlacesType
  <2>2. ASSUME NEW o \in Ops
        PROVE  /\ Count(batch, o)' = Count(batch, o)
               /\ Count(pendingIoQueue, o)' = Count(pendingIoQueue, o)
               /\ Count(pendingRecvIoQueue, o)' = Count(pendingRecvIoQueue, o)
               /\ Cardinality(InRing(o))' = Cardinality(InRing(o))
               /\ Posting(o)' = Posting(o)
    BY <1>1, <1>2 DEF RingSame
  <2>3. ASSUME NEW o \in Ops
        PROVE  /\ Count(batch, o) \in Nat /\ Count(pendingIoQueue, o) \in Nat
               /\ Count(pendingRecvIoQueue, o) \in Nat
               /\ Cardinality(InRing(o)) \in Nat /\ Posting(o) \in Nat
    BY PlacesType
  <2> QED
    BY <1>1, <2>1, <2>2, <2>3, QueuesMovedPlaced
<1> QED
  BY <1>1, <1>3, <1>4

\* A message wakes the receive that was parked last.
LEMMA AmRecvPlaced ==
    ASSUME TypeOK, Placed, AmRecvCallback
    PROVE  Placed'
<1>1. /\ phase' = phase
      /\ UNCHANGED <<batch, localQueue, remoteQueue>>
      /\ \/ UNCHANGED <<pendingIoQueue, pendingRecvIoQueue>>
         \/ /\ pendingRecvIoQueue # <<>>
            /\ pendingIoQueue' = <<Head(pendingRecvIoQueue)>> \o pendingIoQueue
            /\ pendingRecvIoQueue' = Tail(pendingRecvIoQueue)
  BY DEF AmRecvCallback, remoteVars
<1>2. RingSame
  BY RingUnchanged DEF AmRecvCallback, cqVars
<1>3. CASE UNCHANGED <<pendingIoQueue, pendingRecvIoQueue>>
  BY <1>1, <1>2, <1>3, QuietPlaced
<1>4. CASE /\ pendingRecvIoQueue # <<>>
           /\ pendingIoQueue' = <<Head(pendingRecvIoQueue)>> \o pendingIoQueue
           /\ pendingRecvIoQueue' = Tail(pendingRecvIoQueue)
  <2>1. ASSUME NEW o \in Ops
        PROVE  /\ Count(pendingIoQueue, o)'
                    = Count(pendingIoQueue, o) + Same(o, Head(pendingRecvIoQueue))
               /\ Count(pendingRecvIoQueue, o)
                    = Count(pendingRecvIoQueue, o)' + Same(o, Head(pendingRecvIoQueue))
               /\ Count(pendingRecvIoQueue, o)' \in Nat
    <3>1. pendingIoQueue \in Seq(Ops) /\ pendingRecvIoQueue \in Seq(Ops)
      BY QueueTypes
    <3>2. /\ Tail(pendingRecvIoQueue) \in Seq(Ops) /\ Head(pendingRecvIoQueue) \in Ops
          /\ Count(pendingRecvIoQueue, o)
               = Count(Tail(pendingRecvIoQueue), o) + Same(o, Head(pendingRecvIoQueue))
      BY <1>4, <3>1, CountTail
    <3>3. Count(<<Head(pendingRecvIoQueue)>> \o pendingIoQueue, o)
            = Count(pendingIoQueue, o) + Same(o, Head(pendingRecvIoQueue))
      BY <3>1, <3>2, CountCons
    <3>4. Count(Tail(pendingRecvIoQueue), o) \in Nat
      BY <3>2, CountType
    <3> QED
      BY <1>4, <3>2, <3>3, <3>4, Zenon
  <2>2. ASSUME NEW o \in Ops
        PROVE  /\ Count(batch, o)' = Count(batch, o)
               /\ Count(localQueue, o)' = Count(localQueue, o)
               /\ Count(remoteQueue, o)' = Count(remoteQueue, o)
               /\ Cardinality(InRing(o))' = Cardinality(InRing(o))
               /\ Posting(o)' = Posting(o)
    BY <1>1, <1>2 DEF RingSame
  <2>3. ASSUME NEW o \in Ops
        PROVE  Count(batch, o)' + Count(localQueue, o)' + Count(pendingIoQueue, o)'
                 + Count(pendingRecvIoQueue, o)' + Count(remoteQueue, o)'
                 + Cardinality(InRing(o))' + Posting(o)'
               = Count(batch, o) + Count(localQueue, o) + Count(pendingIoQueue, o)
                   + Count(pendingRecvIoQueue, o) + Count(remoteQueue, o)
                   + Cardinality(InRing(o)) + Posting(o)
    <3>1. Tally(o) /\ Same(o, Head(pendingRecvIoQueue)) \in {0, 1}
      BY Alone DEF Same
    <3> QED
      BY <2>1, <2>2, <3>1 DEF Tally
  <2> QED
    BY <1>1, <2>3, QueuesMovedPlaced
<1> QED
  BY <1>1, <1>3, <1>4

\* An entry is taken from the ring: an operation's goes to the local queue.
LEMMA AcquirePlaced ==
    ASSUME TypeOK, Placed, LoadedTails, AcquireCompletionQueueItem
    PROVE  Placed'
<1>1. /\ pc = "drain" /\ pc' # "post" /\ phase' = phase /\ post' = post
      /\ cqHead' = cqHead + 1 /\ cqTail' = cqTail /\ cqEntries' = cqEntries
      /\ UNCHANGED <<batch, pendingIoQueue, pendingRecvIoQueue, remoteQueue>>
  BY DEF AcquireCompletionQueueItem, remoteVars
<1>2. cqHead < cqTail
  <2>1. cqHead \in Nat /\ cqTail \in Nat /\ cqEnd \in Nat
    BY DEF TypeOK
  <2> QED
    BY <1>1, <2>1 DEF LoadedTails
<1>3. PICK e : e = cqEntries[Slot(cqHead)]
  OBVIOUS
<1>4. \/ e = RemoteQueueEvent /\ localQueue' = localQueue
      \/ e \in Ops /\ localQueue' = Append(localQueue, e)
  BY <1>3 DEF AcquireCompletionQueueItem, TakeRemoteQueueEvent, TakeOpCompletion
<1>5. ASSUME NEW o \in Ops
      PROVE  Cardinality(InRing(o)) = Cardinality(InRing(o))' + Same(o, e)
  BY <1>1, <1>2, <1>3, RingTaken
<1>6. ASSUME NEW o \in Ops
      PROVE  Count(localQueue, o)' = Count(localQueue, o) + Same(o, e)
  <2>1. CASE e = RemoteQueueEvent /\ localQueue' = localQueue
    <3>1. Same(o, e) = 0
      BY <2>1, OpsAssumption DEF Same
    <3>2. Count(localQueue, o) \in Nat
      BY PlacesType
    <3> QED
      BY <2>1, <3>1, <3>2
  <2>2. CASE e \in Ops /\ localQueue' = Append(localQueue, e)
    <3>1. Count(Append(localQueue, e), o) = Count(localQueue, o) + Same(o, e)
      BY <2>2, QueueTypes, CountAppend
    <3> QED
      BY <2>2, <3>1, Zenon
  <2> QED
    BY <1>4, <2>1, <2>2
<1>7. ASSUME NEW o \in Ops
      PROVE  /\ Count(batch, o)' = Count(batch, o)
             /\ Count(pendingIoQueue, o)' = Count(pendingIoQueue, o)
             /\ Count(pendingRecvIoQueue, o)' = Count(pendingRecvIoQueue, o)
             /\ Count(remoteQueue, o)' = Count(remoteQueue, o)
             /\ Posting(o)' = Posting(o)
  BY <1>1 DEF Posting
<1>8. ASSUME NEW o \in Ops
      PROVE  Cardinality(InRing(o))' \in Nat
  <2>1. /\ cqHead + 1 \in Nat /\ cqTail - 1 \in Int
    BY DEF TypeOK
  <2>2. IsFiniteSet(cqHead + 1 .. cqTail - 1)
    BY <2>1, FS_Interval
  <2>3. InRing(o)' \subseteq cqHead + 1 .. cqTail - 1
    BY <1>1 DEF InRing
  <2> QED
    BY <2>2, <2>3, FS_Subset, FS_CardinalityType
<1>9. ASSUME NEW o \in Ops
      PROVE  Count(batch, o)' + Count(localQueue, o)' + Count(pendingIoQueue, o)'
               + Count(pendingRecvIoQueue, o)' + Count(remoteQueue, o)'
               + Cardinality(InRing(o))' + Posting(o)'
             = Count(batch, o) + Count(localQueue, o) + Count(pendingIoQueue, o)
                 + Count(pendingRecvIoQueue, o) + Count(remoteQueue, o)
                 + Cardinality(InRing(o)) + Posting(o)
  <2>1. Tally(o) /\ Same(o, e) \in {0, 1}
    BY Alone DEF Same
  <2> QED
    BY <1>5, <1>6, <1>7, <1>8, <2>1 DEF Tally
<1> QED
  BY <1>1, <1>9, QueuesMovedPlaced

\* A transfer's callback holds the operation until its entry is posted.
LEMMA RequestCallbackPlaced ==
    ASSUME TypeOK, Placed, NEW x \in RecvOps, RequestCallback(x)
    PROVE  Placed'
<1>1. /\ pc = "progress" /\ phase[x] = "inflight"
      /\ phase' = [phase EXCEPT ![x] = "complete"]
      /\ post' = [op |-> x, tail |-> cqTail, ret |-> "progress"] /\ pc' = "post"
      /\ UNCHANGED <<batch, localQueue, pendingIoQueue, pendingRecvIoQueue, remoteQueue,
                     cqEntries, cqHead, cqTail>>
  BY DEF RequestCallback, cqVars, remoteVars
<1> SUFFICES ASSUME NEW o \in Ops
             PROVE  Places(o)' = Alive(o)'
  BY DEF Placed
<1>2. /\ Count(batch, o)' = Count(batch, o)
      /\ Count(localQueue, o)' = Count(localQueue, o)
      /\ Count(pendingIoQueue, o)' = Count(pendingIoQueue, o)
      /\ Count(pendingRecvIoQueue, o)' = Count(pendingRecvIoQueue, o)
      /\ Count(remoteQueue, o)' = Count(remoteQueue, o)
      /\ Cardinality(InRing(o))' = Cardinality(InRing(o))
  BY <1>1 DEF InRing
<1>3. Posting(o) = 0 /\ Posting(o)' = Same(o, x)
  BY <1>1 DEF Posting, Same
<1>4. Flying(o) = Flying(o)' + Same(o, x) /\ Alive(o)' = Alive(o) /\ Flying(o)' \in {0, 1}
  <2>1. x \in Ops /\ phase \in [Ops -> Phases]
    BY QueueTypes DEF Ops, RemoteOps
  <2>2. CASE o = x
    BY <1>1, <2>1, <2>2 DEF Flying, Alive, Same
  <2>3. CASE o # x
    BY <1>1, <2>1, <2>3 DEF Flying, Alive, Same
  <2> QED
    BY <2>2, <2>3
<1>5. Tally(o) /\ Same(o, x) \in {0, 1}
  BY Alone DEF Same
<1>6. Sum(o)' = Alive(o)'
  BY <1>2, <1>3, <1>4, <1>5, SMTT(30) DEF Tally, Sum
<1> QED
  BY <1>6, SumNext

\* The entry is filled in and cqTail_ moves past it.
LEMMA PostCompletionPlaced ==
    ASSUME TypeOK, Placed, Untorn, ~torn, ~torn', PostCompletion
    PROVE  Placed'
<1>1. /\ pc = "post" /\ post.tail = cqTail /\ phase' = phase
      /\ cqEntries' = [cqEntries EXCEPT ![Slot(cqTail)] = post.op]
      /\ cqTail' = cqTail + 1 /\ cqHead' = cqHead
      /\ post' = NoPost
      /\ UNCHANGED <<batch, localQueue, pendingIoQueue, pendingRecvIoQueue, remoteQueue>>
  BY DEF PostCompletion, remoteVars
<1>2. cqTail - cqHead < CqEntryCount /\ cqHead <= cqTail
  BY <1>1, Room DEF Untorn, LoadedTails
<1>3. PICK e : e = post.op
  OBVIOUS
<1>4. /\ cqEntries'[Slot(cqTail)] = e
      /\ \A i \in cqHead .. cqTail - 1 : cqEntries'[Slot(i)] = cqEntries[Slot(i)]
  BY <1>1, <1>2, <1>3, RingKept
<1>5. ASSUME NEW o \in Ops
      PROVE  Cardinality(InRing(o))' = Cardinality(InRing(o)) + Same(o, e)
  BY <1>1, <1>2, <1>4, RingPosted
<1>6. ASSUME NEW o \in Ops
      PROVE  Posting(o) = Same(o, e) /\ Posting(o)' = 0
  <2>1. Posting(o) = Same(o, e)
    BY <1>1, <1>3 DEF Posting, Same
  <2>2. post'.op = Unused /\ Unused \notin Ops
    BY <1>1, OpsAssumption DEF NoPost
  <2> QED
    BY <2>1, <2>2 DEF Posting
<1>7. ASSUME NEW o \in Ops
      PROVE  /\ Count(batch, o)' = Count(batch, o)
             /\ Count(localQueue, o)' = Count(localQueue, o)
             /\ Count(pendingIoQueue, o)' = Count(pendingIoQueue, o)
             /\ Count(pendingRecvIoQueue, o)' = Count(pendingRecvIoQueue, o)
             /\ Count(remoteQueue, o)' = Count(remoteQueue, o)
  BY <1>1
<1>8. ASSUME NEW o \in Ops
      PROVE  Count(batch, o)' + Count(localQueue, o)' + Count(pendingIoQueue, o)'
               + Count(pendingRecvIoQueue, o)' + Count(remoteQueue, o)'
               + Cardinality(InRing(o))' + Posting(o)'
             = Count(batch, o) + Count(localQueue, o) + Count(pendingIoQueue, o)
                 + Count(pendingRecvIoQueue, o) + Count(remoteQueue, o)
                 + Cardinality(InRing(o)) + Posting(o)
  <2>1. Tally(o) /\ Same(o, e) \in {0, 1}
    BY Alone DEF Same
  <2> QED
    BY <1>5, <1>6, <1>7, <2>1 DEF Tally
<1> QED
  BY <1>1, <1>8, QueuesMovedPlaced

\* The event's slot is written beyond the ring.
LEMMA SubmitEventWritePlaced ==
    ASSUME TypeOK, Placed, Untorn, ~torn, ~torn', NEW p \in Producers, SubmitEventWrite(p)
    PROVE  Placed'
<1>1. /\ ppc[p] = "write" /\ ptail[p] = cqTail
      /\ cqEntries' = [cqEntries EXCEPT ![Slot(cqTail)] = RemoteQueueEvent]
      /\ UNCHANGED <<pc, post, phase, cqHead, cqTail, batch, localQueue, pendingIoQueue,
                     pendingRecvIoQueue, remoteQueue>>
  BY DEF SubmitEventWrite, ioVars, remoteVars
<1>2. Signalling
  BY <1>1 DEF Signalling, SignalPoints
<1>3. cqTail - cqHead < CqEntryCount
  BY <1>2, Room
<1>4. PICK e : e = RemoteQueueEvent
  OBVIOUS
<1>5. \A i \in cqHead .. cqTail - 1 : cqEntries'[Slot(i)] = cqEntries[Slot(i)]
  BY <1>1, <1>3, <1>4, RingKept
<1>6. RingSame
  <2> SUFFICES ASSUME NEW o
               PROVE  Cardinality(InRing(o))' = Cardinality(InRing(o)) /\ Posting(o)' = Posting(o)
    BY DEF RingSame
  <2>1. InRing(o)' = InRing(o)
    BY <1>1, <1>5 DEF InRing
  <2>2. Posting(o)' = Posting(o)
    BY <1>1 DEF Posting
  <2> QED
    BY <2>1, <2>2, Zenon
<1> QED
  BY <1>1, <1>6, QuietPlaced

\* The event enters the ring, and it is no operation's.
LEMMA SubmitEventStorePlaced ==
    ASSUME TypeOK, Placed, Untorn, ~torn, ~torn', NEW p \in Producers,
           SubmitEventStoreTail(p)
    PROVE  Placed'
<1>1. /\ ppc[p] = "store" /\ ptail[p] = cqTail
      /\ cqTail' = cqTail + 1 /\ cqEntries' = cqEntries
      /\ UNCHANGED <<pc, post, phase, cqHead, batch, localQueue, pendingIoQueue,
                     pendingRecvIoQueue, remoteQueue>>
  BY DEF SubmitEventStoreTail, ioVars, remoteVars
<1>2. cqEntries[Slot(cqTail)] = RemoteQueueEvent /\ cqHead <= cqTail
  BY <1>1 DEF Untorn, LoadedTails
<1>3. PICK e : e = RemoteQueueEvent
  OBVIOUS
<1>4. ASSUME NEW o \in Ops
      PROVE  Cardinality(InRing(o))' = Cardinality(InRing(o)) + Same(o, e)
  BY <1>1, <1>2, <1>3, RingPosted
<1>5. ASSUME NEW o \in Ops
      PROVE  Same(o, e) = 0
  BY <1>3, OpsAssumption DEF Same
<1>6. ASSUME NEW o \in Ops
      PROVE  /\ Count(batch, o)' = Count(batch, o)
             /\ Count(localQueue, o)' = Count(localQueue, o)
             /\ Count(pendingIoQueue, o)' = Count(pendingIoQueue, o)
             /\ Count(pendingRecvIoQueue, o)' = Count(pendingRecvIoQueue, o)
             /\ Count(remoteQueue, o)' = Count(remoteQueue, o)
             /\ Posting(o)' = Posting(o)
  BY <1>1 DEF Posting
<1>7. ASSUME NEW o \in Ops
      PROVE  Cardinality(InRing(o))' = Cardinality(InRing(o))
  BY <1>4, <1>5, RingType
<1> QED
  BY <1>1, <1>6, <1>7, QueuesMovedPlaced

\* The loop's bookkeeping moves no operation.
LEMMA BookkeepingPlaced ==
    ASSUME TypeOK, Placed,
           \/ BatchFinished \/ LoadCompletionQueueTail \/ CompletionCountOverrun
           \/ PendingIoFinished \/ RegisterArm \/ RegisterMarkInactive
           \/ ProgressFinished \/ UNCHANGED vars
    PROVE  Placed'
<1>1. /\ UNCHANGED <<phase, batch, localQueue, pendingIoQueue, pendingRecvIoQueue,
                     remoteQueue>>
      /\ UNCHANGED <<cqEntries, cqHead, cqTail, post>>
      /\ (pc = "post") <=> (pc' = "post")
  BY DEF BatchFinished, LoadCompletionQueueTail, CompletionCountOverrun,
         PendingIoFinished, RegisterArm, RegisterMarkInactive, ProgressFinished,
         vars, ioVars, cqVars, remoteVars
<1>2. RingSame
  BY <1>1, RingUnchanged
<1> QED
  BY <1>1, <1>2, QuietPlaced

\* Nor do the producer's steps that leave the ring alone.
LEMMA SignalPlaced ==
    ASSUME TypeOK, Placed, NEW p \in Producers,
           SignalLoadEntry(p) \/ SubmitEventLoadTail(p) \/ SignalResetEntry(p)
    PROVE  Placed'
<1>1. /\ UNCHANGED <<phase, batch, localQueue, pendingIoQueue, pendingRecvIoQueue,
                     remoteQueue>>
      /\ UNCHANGED <<cqEntries, cqHead, cqTail, post, pc>>
  BY DEF SignalLoadEntry, SubmitEventLoadTail, SignalResetEntry, ioVars, cqVars, remoteVars
<1>2. RingSame
  BY <1>1, RingUnchanged
<1> QED
  BY <1>1, <1>2, QuietPlaced

\* One step keeps every operation in its one place.
LEMMA NextPlaced ==
    ASSUME TypeOK, Placed, Untorn, BatchPoint, ~torn, ~torn', [Next]_vars
    PROVE  Placed'
<1>1. ASSUME NEW p \in Producers, NEW o \in RemoteOps, ScheduleRemote(p, o)
      PROVE  Placed'
  BY <1>1, ScheduleRemotePlaced
<1>2. ASSUME NEW p \in Producers, SignalRemoteQueue(p)
      PROVE  Placed'
  BY <1>2, SignalPlaced, SubmitEventWritePlaced, SubmitEventStorePlaced
  DEF SignalRemoteQueue
<1>3. CASE ExecuteStop \/ ExecuteReadComplete
  <2>1. /\ batch # <<>> /\ batch' = Tail(batch)
        /\ phase' = [phase EXCEPT ![Head(batch)] = "done"]
        /\ UNCHANGED <<localQueue, pendingIoQueue, pendingRecvIoQueue, remoteQueue>>
        /\ UNCHANGED <<cqEntries, cqHead, cqTail, post, pc>>
    BY <1>3 DEF ExecuteStop, ExecuteReadComplete, cqVars, remoteVars
  <2>2. RingSame
    BY <2>1, RingUnchanged
  <2> QED
    BY <2>1, <2>2, DonePlaced
<1>4. ASSUME NEW o \in RecvOps, RequestCallback(o)
      PROVE  Placed'
  BY <1>4, RequestCallbackPlaced
<1>5. CASE AcquireCompletionQueueItem
  BY <1>5, AcquirePlaced DEF Untorn
<1>6. CASE \/ BatchFinished \/ LoadCompletionQueueTail \/ CompletionCountOverrun
           \/ PendingIoFinished \/ RegisterArm \/ RegisterMarkInactive
           \/ ProgressFinished \/ UNCHANGED vars
  BY <1>6, BookkeepingPlaced
<1>7. CASE AcquireRemoteQueuedItems \/ RegisterDequeueAll
  BY <1>7, DequeuedPlaced
<1>8. CASE ExecutePendingLocal \/ ExecuteTask \/ ExecuteStartIo
  BY <1>8, PendingLocalPlaced, TaskPlaced, StartIoPlaced
<1>9. CASE ExecutePendingIo \/ AmRecvCallback \/ PostCompletion
  BY <1>9, PendingIoPlaced, AmRecvPlaced, PostCompletionPlaced
<1> QED
  BY <1>1, <1>2, <1>3, <1>4, <1>5, <1>6, <1>7, <1>8, <1>9 DEF Next, IoThread

LEMMA InitPlaced == Init => Placed
<1> SUFFICES ASSUME Init, NEW o \in Ops
             PROVE  Places(o) = Alive(o)
  BY DEF Placed
<1>1. /\ batch = <<>> /\ localQueue = <<>> /\ pendingIoQueue = <<>>
      /\ pendingRecvIoQueue = <<>> /\ remoteQueue = <<>>
      /\ cqHead = 0 /\ cqTail = 0 /\ pc # "post" /\ phase[o] = "new"
  BY DEF Init
<1>2. /\ Count(batch, o) = 0 /\ Count(localQueue, o) = 0 /\ Count(pendingIoQueue, o) = 0
      /\ Count(pendingRecvIoQueue, o) = 0 /\ Count(remoteQueue, o) = 0
  BY <1>1, CountEmpty
<1>3. Cardinality(InRing(o)) = 0
  <2>1. InRing(o) = {}
    BY <1>1 DEF InRing
  <2> QED
    BY <2>1, FS_EmptySet
<1>4. Posting(o) = 0 /\ Flying(o) = 0 /\ Alive(o) = 0
  BY <1>1 DEF Posting, Flying, Alive
<1> QED
  BY <1>2, <1>3, <1>4, PlacesSum

\* As long as no two updates of cqTail_ have overlapped, an operation that has
\* been started and not delivered is in exactly one queue, in the ring once, or
\* held by UCX (operation_base::next_ links it into one list only), for any
\* number of threads, operations and messages.
THEOREM OperationsInOnePlace == Spec => []InOnePlace
<1>1. Init => InOnePlace
  BY InitPlaced, PlacedIsInOnePlace
<1>2. IInv /\ LaneInv /\ InOnePlace /\ [Next]_vars => InOnePlace'
  <2> SUFFICES ASSUME TypeOK, Untorn, BatchPoint, Placed, ~torn, ~torn', [Next]_vars
               PROVE  Placed'
    <3>1. InOnePlace' <=> (~torn' => Placed')
      BY PlacedIsInOnePlace, PTL
    <3> QED
      BY <3>1, TornStays, PlacedIsInOnePlace DEF IInv, LaneInv
  <2> QED
    BY NextPlaced
<1> QED
  BY <1>1, <1>2, InductiveInvariant, LanesKept, PTL DEF Spec

=============================================================================
