--------------------------- MODULE PendingRpcProofs ---------------------------
(***************************************************************************)
(* Proofs about PendingRpc for any number of calls and sessions and any    *)
(* size of the buffer: as long as no two threads meet inside one slot, a   *)
(* response handler has exactly one owner until it is called or replaced,  *)
(* and stays in its session, and size_ follows the slots.                  *)
(***************************************************************************)
EXTENDS PendingRpc, FiniteSetTheorems, SequenceTheorems, TLAPS

-----------------------------------------------------------------------------
(***************************************************************************)
(* The inductive invariant.                                                *)
(***************************************************************************)

\* Where a caller, or a worker, is inside its slot (Busy).
CallerInside == {"update", "size", "session", "value"}
WorkerInside == {"move", "reset", "erase", "destroy"}

\* Where a caller has acquired an empty slot.
CallerBuilds == {"size", "session", "value"}

\* Where a worker has a handler in its hands.
Holding == {"reset", "erase", "destroy", "call"}

\* The handler of r has been put into its slot.
PlacedPoints == {"count", "arm", "started"}
Placed(r) == cpc[r] \in PlacedPoints

\* The iteration of StopClient stays within the buffer.
Scanning ==
    /\ client \in {"running", "stopping"} => scan = 0
    /\ client \in {"scan", "entry"} => scan < Size

\* No two threads are inside one slot.
Exclusive ==
    /\ \A r, q \in Rpcs :
         cpc[r] \in CallerInside /\ cpc[q] \in CallerInside /\ Index(r) = Index(q)
           => r = q
    /\ \A w, v \in Workers :
         wpc[w] \in WorkerInside /\ wpc[v] \in WorkerInside
         /\ job[w].slot = job[v].slot
           => w = v
    /\ \A r \in Rpcs, w \in Workers :
         cpc[r] \in CallerInside /\ wpc[w] \in WorkerInside
           => Index(r) # job[w].slot

\* What a slot holds at each point of the threads inside it.
SlotContents ==
    /\ \A r \in Rpcs :
         /\ cpc[r] \in CallerBuilds =>
              state[Index(r)] = "occupied" /\ value[Index(r)] \notin Rpcs
         /\ cpc[r] = "value" => session[Index(r)] = callSession[r]
         /\ cpc[r] = "update" => /\ state[Index(r)] = "occupied"
                                 /\ value[Index(r)] \in Rpcs
                                 /\ session[Index(r)] = callSession[r]
    /\ \A w \in Workers :
         /\ wpc[w] \in {"move", "reset"} =>
              /\ state[job[w].slot] = "occupied"
              /\ value[job[w].slot] \in Rpcs
              /\ session[job[w].slot] = job[w].session
         /\ wpc[w] = "reset" => held[w] = value[job[w].slot]
         /\ wpc[w] = "erase" =>
              state[job[w].slot] = "occupied" /\ value[job[w].slot] \notin Rpcs
         /\ wpc[w] = "destroy" => state[job[w].slot] = "empty"
    /\ \A i \in Slots :
         /\ state[i] = "empty" => value[i] \notin Rpcs
         /\ state[i] = "occupied" =>
              \/ value[i] \in Rpcs
              \/ \E r \in Rpcs : cpc[r] \in CallerBuilds /\ Index(r) = i
              \/ \E w \in Workers : wpc[w] = "erase" /\ job[w].slot = i
         /\ value[i] \in Rpcs => /\ Placed(value[i])
                                 /\ Index(value[i]) = i
                                 /\ callSession[value[i]] = session[i]

\* A worker holds the handler it found under its job's index and session.
Holds ==
    /\ \A w \in Workers :
         /\ wpc[w] # "crashed"
         /\ wpc[w] \in Holding => /\ held[w] \in Rpcs
                                  /\ Placed(held[w])
                                  /\ Index(held[w]) = job[w].slot
                                  /\ callSession[held[w]] = job[w].session
         /\ wpc[w] \notin Holding => held[w] = Null

\* A handler that waits is in its slot or in one worker's hands, unless
\* another call's has replaced it; no other handler is.
Owned ==
    /\ \A r \in Rpcs : recv[r] = "waiting" => Placed(r)
    /\ \A i \in Slots : value[i] \in Rpcs => recv[value[i]] = "waiting"
    /\ \A w \in Workers :
         /\ wpc[w] \in Holding => recv[held[w]] = "waiting"
         /\ wpc[w] \in Holding \ {"reset"} => value[job[w].slot] # held[w]
    /\ \A w, v \in Workers :
         wpc[w] \in Holding /\ wpc[v] \in Holding /\ held[w] = held[v] => w = v
    /\ \A r \in Rpcs :
         recv[r] = "waiting" /\ r \notin replaced =>
           \/ value[Index(r)] = r
           \/ \E w \in Workers : wpc[w] \in Holding /\ held[w] = r
    /\ \A r \in Rpcs : r \in replaced =>
         /\ Placed(r)
         /\ value[Index(r)] # r
         /\ \A w \in Workers : wpc[w] \in Holding => held[w] # r

OccupiedSlots == {i \in Slots : state[i] = "occupied"}
Destroying == {w \in Workers : wpc[w] = "destroy"}
Counting == {r \in Rpcs : cpc[r] \in {"size", "session", "value", "count"}}

SizeExact ==
    size = Cardinality(OccupiedSlots) + Cardinality(Destroying)
             - Cardinality(Counting)

Unraced == Exclusive /\ SlotContents /\ Holds /\ Owned /\ SizeExact

IInv ==
    /\ TypeOK
    /\ Scanning
    /\ ~raced => Unraced

-----------------------------------------------------------------------------
(***************************************************************************)
(* Type correctness.                                                       *)
(***************************************************************************)

\* A request id names a slot (request_id_to_index).
LEMMA IndexType ==
    ASSUME TypeOK, NEW r \in Rpcs
    PROVE  Index(r) \in Slots
BY SizeAssumption DEF TypeOK, Index, Slots

LEMMA NoJobType ==
    NoJob \in [slot : Slots, session : Sessions \cup {NoSession},
               why : Rpcs \cup {Null}]
BY SizeAssumption DEF NoJob, Slots

LEMMA InitType == Init => TypeOK /\ Scanning
<1> SUFFICES ASSUME Init
             PROVE  TypeOK /\ Scanning
  OBVIOUS
<1>1. /\ nextRequestId \in Nat /\ id \in [Rpcs -> Nat]
      /\ callSession \in [Rpcs -> Sessions \cup {NoSession}]
      /\ cpc \in [Rpcs -> CallerPoints]
      /\ send \in [Rpcs -> {"none", "started", "sent", "failed"}]
      /\ recv \in [Rpcs -> {"none", "waiting", "value", "error", "done"}]
      /\ stopRequested \in [Rpcs -> BOOLEAN]
      /\ cancelled \in [Rpcs -> BOOLEAN]
      /\ timer \in [Rpcs -> {"off", "armed"}]
      /\ answered \subseteq Rpcs
  BY DEF Init, CallerPoints
<1>2. /\ state \in [Slots -> {"empty", "occupied"}]
      /\ session \in [Slots -> Sessions \cup {NoSession}]
      /\ value \in [Slots -> Values]
      /\ size \in Int
  BY DEF Init, Values
<1>3. /\ wpc \in [Workers -> WorkPoints] /\ held \in [Workers -> Values]
      /\ job \in [Workers -> [slot : Slots, session : Sessions \cup {NoSession},
                              why : Rpcs \cup {Null}]]
  BY NoJobType DEF Init, WorkPoints, Values
<1>4. /\ client \in {"running", "stopping", "scan", "entry", "drain", "stopped"}
      /\ scan \in 0 .. Size
      /\ todo \in Seq([slot : Slots, session : Sessions \cup {NoSession}])
      /\ Scanning
  BY SizeAssumption DEF Init, Scanning
<1>5. raced \in BOOLEAN /\ replaced \subseteq Rpcs
  BY DEF Init
<1> QED
  BY <1>1, <1>2, <1>3, <1>4, <1>5 DEF TypeOK

LEMMA CallerType ==
    ASSUME TypeOK, NEW r \in Rpcs, Caller(r)
    PROVE  TypeOK'
<1> USE DEF TypeOK, CallerPoints, Values, identity, workVars, stopVars, slotVars, history
<1> Index(r) \in Slots
  BY IndexType
<1>1. CASE StartReceive(r)
  BY <1>1 DEF StartReceive
<1>2. CASE EmplaceAcquire(r)
  BY <1>2 DEF EmplaceAcquire
<1>3. CASE EmplaceUpdate(r)
  BY <1>3 DEF EmplaceUpdate
<1>4. CASE EmplaceReject(r)
  BY <1>4 DEF EmplaceReject
<1>5. CASE EmplaceCheckSize(r)
  BY <1>5 DEF EmplaceCheckSize
<1>6. CASE EmplaceSession(r)
  BY <1>6 DEF EmplaceSession
<1>7. CASE EmplaceValue(r)
  BY <1>7 DEF EmplaceValue
<1>8. CASE EmplaceCount(r)
  BY <1>8 DEF EmplaceCount
<1>9. CASE ArmTimer(r)
  BY <1>9 DEF ArmTimer
<1>10. CASE EmplaceOccupied(r)
  BY <1>10 DEF EmplaceOccupied
<1>11. CASE EmplaceSame(r)
  BY <1>11 DEF EmplaceSame
<1> QED
  BY <1>1, <1>2, <1>3, <1>4, <1>5, <1>6, <1>7, <1>8, <1>9, <1>10, <1>11
     DEF Caller, Emplace

LEMMA PopType ==
    ASSUME TypeOK, NEW w \in Workers, Pop(w)
    PROVE  TypeOK'
<1> USE DEF TypeOK, WorkPoints, Values, callVars, identity, stopVars, slotVars, history
<1> job[w].slot \in Slots
  OBVIOUS
<1>1. CASE PopFind(w)
  BY <1>1, NoJobType DEF PopFind
<1>2. CASE PopMove(w)
  BY <1>2 DEF PopMove
<1>3. CASE PopReset(w)
  BY <1>3 DEF PopReset
<1>4. CASE PopErase(w)
  <2>1. CASE state[job[w].slot] = "occupied"
    BY <1>4, <2>1 DEF PopErase
  <2>2. CASE state[job[w].slot] # "occupied"
    BY <1>4, <2>2 DEF PopErase
  <2> QED
    BY <2>1, <2>2
<1>5. CASE PopDestroy(w)
  BY <1>5 DEF PopDestroy
<1>6. CASE CallHandler(w)
  BY <1>6, NoJobType DEF CallHandler, Result
<1>7. CASE CallNothing(w)
  BY <1>7 DEF CallNothing
<1>8. CASE PopCheck(w)
  BY <1>8, NoJobType DEF PopCheck
<1> QED
  BY <1>1, <1>2, <1>3, <1>4, <1>5, <1>6, <1>7, <1>8 DEF Pop

LEMMA NextType == TypeOK /\ Scanning /\ [Next]_vars => TypeOK' /\ Scanning'
<1> SUFFICES ASSUME TypeOK, Scanning, [Next]_vars
             PROVE  TypeOK' /\ Scanning'
  OBVIOUS
<1> USE DEF callVars, slotVars, workVars, stopVars, identity, history
<1>1. ASSUME NEW r \in Rpcs, NEW s \in Sessions, InvokeRpc(r, s)
      PROVE  TypeOK' /\ Scanning'
  BY <1>1 DEF TypeOK, Scanning, InvokeRpc, CallerPoints
<1>2. ASSUME NEW r \in Rpcs, Caller(r)
      PROVE  TypeOK' /\ Scanning'
  BY <1>2, CallerType
     DEF Scanning, Caller, Emplace, StartReceive, EmplaceAcquire, EmplaceOccupied,
         EmplaceSame, EmplaceUpdate,
         EmplaceReject, EmplaceCheckSize, EmplaceSession, EmplaceValue,
         EmplaceCount, ArmTimer
<1>3. ASSUME NEW r \in Rpcs, SendFinishes(r)
      PROVE  TypeOK' /\ Scanning'
  BY <1>3 DEF TypeOK, Scanning, SendFinishes
<1>4. ASSUME NEW r \in Rpcs, CancelCall(r)
      PROVE  TypeOK' /\ Scanning'
  BY <1>4 DEF TypeOK, Scanning, CancelCall
<1>5. ASSUME NEW r \in Rpcs, SourceCompletes(r)
      PROVE  TypeOK' /\ Scanning'
  BY <1>5 DEF TypeOK, Scanning, SourceCompletes
<1>6. ASSUME NEW r \in Rpcs, ReceiveResponse(r)
      PROVE  TypeOK' /\ Scanning'
  BY <1>6, IndexType DEF TypeOK, Scanning, ReceiveResponse, Start, WorkPoints
<1>7. ASSUME NEW r \in Rpcs, TimeoutExpires(r)
      PROVE  TypeOK' /\ Scanning'
  BY <1>7, IndexType DEF TypeOK, Scanning, TimeoutExpires, Start, WorkPoints
<1>8. ASSUME NEW w \in Workers, Pop(w)
      PROVE  TypeOK' /\ Scanning'
  BY <1>8, PopType
     DEF Scanning, Pop, PopFind, PopCheck, PopMove, PopReset, PopErase, PopDestroy,
         CallHandler, CallNothing
<1>9. CASE RequestStop
  BY <1>9 DEF TypeOK, Scanning, RequestStop
<1>10. CASE ClientLoopEnds
  BY <1>10, SizeAssumption DEF TypeOK, Scanning, ClientLoopEnds
<1>11. CASE ScanSlot
  <2>1. scan \in Slots /\ scan + 1 \in 0 .. Size
    BY <1>11, SizeAssumption DEF ScanSlot, TypeOK, Scanning, Slots
  <2>2. TypeOK' /\ Scanning'
    BY <1>11, <2>1, SizeAssumption DEF ScanSlot, ScanOn, TypeOK, Scanning
  <2> QED
    BY <2>2
<1>15. CASE ScanEntry
  <2>1. scan \in Slots /\ scan + 1 \in 0 .. Size
    BY <1>15, SizeAssumption DEF ScanEntry, TypeOK, Scanning, Slots
  <2>2. [slot |-> scan, session |-> session[scan]]
          \in [slot : Slots, session : Sessions \cup {NoSession}]
    BY <2>1 DEF TypeOK
  <2>3. todo' \in Seq([slot : Slots, session : Sessions \cup {NoSession}])
    BY <1>15, <2>2, AppendProperties DEF ScanEntry, TypeOK
  <2>4. TypeOK'
    BY <1>15, <2>1, <2>3 DEF ScanEntry, ScanOn, TypeOK
  <2>5. Scanning'
    BY <1>15, <2>1, SizeAssumption DEF ScanEntry, ScanOn, Scanning
  <2> QED
    BY <2>4, <2>5
<1>12. CASE DrainPending
  <2>1. /\ Head(todo) \in [slot : Slots, session : Sessions \cup {NoSession}]
        /\ Tail(todo) \in Seq([slot : Slots, session : Sessions \cup {NoSession}])
    BY <1>12, HeadTailProperties DEF DrainPending, TypeOK
  <2> QED
    BY <1>12, <2>1 DEF TypeOK, Scanning, DrainPending, Start, WorkPoints, Workers
<1>13. CASE DrainFinished
  BY <1>13 DEF TypeOK, Scanning, DrainFinished
<1>14. CASE UNCHANGED vars
  BY <1>14 DEF TypeOK, Scanning, vars
<1> QED
  BY <1>1, <1>2, <1>3, <1>4, <1>5, <1>6, <1>7, <1>8, <1>9, <1>10, <1>11, <1>12,
     <1>13, <1>14, <1>15 DEF Next, StopClient

-----------------------------------------------------------------------------
(***************************************************************************)
(* Frames and counting.                                                    *)
(***************************************************************************)

\* What the invariant looks at.
core == <<id, callSession, cpc, recv, state, session, value, size, wpc, job, held,
          replaced>>

LEMMA CoreKept ==
    ASSUME Unraced, UNCHANGED core
    PROVE  Unraced'
<1> USE DEF core, Unraced, Index, Placed, PlacedPoints
<1>1. Exclusive'
  BY DEF Exclusive
<1>2. SlotContents'
  BY DEF SlotContents
<1>3. Holds'
  BY DEF Holds
<1>4. Owned'
  BY DEF Owned
<1>5. SizeExact'
  BY DEF SizeExact, OccupiedSlots, Destroying, Counting
<1> QED
  BY <1>1, <1>2, <1>3, <1>4, <1>5

LEMMA SetsFinite ==
    /\ IsFiniteSet(OccupiedSlots) /\ Cardinality(OccupiedSlots) \in Nat
    /\ IsFiniteSet(Destroying) /\ Cardinality(Destroying) \in Nat
    /\ IsFiniteSet(Counting) /\ Cardinality(Counting) \in Nat
<1>1. IsFiniteSet(Slots)
  BY SizeAssumption, FS_Interval DEF Slots
<1>2. IsFiniteSet(Workers)
  <2>1. IsFiniteSet({}) /\ IsFiniteSet({"client"})
        /\ IsFiniteSet({"client"} \cup {"timer"})
        /\ IsFiniteSet(({"client"} \cup {"timer"}) \cup {"stop"})
    BY FS_EmptySet, FS_AddElement, FS_Singleton
  <2>2. Workers = ({"client"} \cup {"timer"}) \cup {"stop"}
    BY DEF Workers
  <2> QED
    BY <2>1, <2>2
<1>3. IsFiniteSet(OccupiedSlots) /\ IsFiniteSet(Destroying) /\ IsFiniteSet(Counting)
  BY <1>1, <1>2, RpcsAssumption, FS_Subset DEF OccupiedSlots, Destroying, Counting
<1> QED
  BY <1>3, FS_CardinalityType

\* One element more or less.
LEMMA OneMore ==
    ASSUME NEW S, NEW T, NEW x, IsFiniteSet(S), x \notin S, T = S \cup {x}
    PROVE  Cardinality(T) = Cardinality(S) + 1
BY FS_AddElement

LEMMA OneLess ==
    ASSUME NEW S, NEW T, NEW x, IsFiniteSet(S), x \in S, T = S \ {x}
    PROVE  Cardinality(T) = Cardinality(S) - 1
BY FS_RemoveElement

-----------------------------------------------------------------------------
(***************************************************************************)
(* The calling thread keeps Unraced.                                       *)
(***************************************************************************)

\* InvokeRpc gives the call its id: nothing has looked at the old one.
LEMMA InvokeRpcStep ==
    ASSUME TypeOK, Unraced, NEW r \in Rpcs, NEW s \in Sessions,
           InvokeRpc(r, s)
    PROVE  Unraced'
<1> USE DEF Unraced
<1>1. /\ UNCHANGED <<recv, state, session, value, size, wpc, job, held, replaced>>
      /\ cpc[r] = "new" /\ cpc'[r] = "start" /\ callSession'[r] = s
      /\ \A q \in Rpcs \ {r} : /\ cpc'[q] = cpc[q] /\ id'[q] = id[q]
                               /\ callSession'[q] = callSession[q]
  BY DEF TypeOK, InvokeRpc, slotVars, workVars, history
<1>2. \A q \in Rpcs \ {r} : Index(q)' = Index(q) /\ (Placed(q)' <=> Placed(q))
  BY <1>1 DEF Index, Placed, PlacedPoints
<1>3. Exclusive'
  BY <1>1, <1>2 DEF Exclusive, CallerInside, CallerBuilds
<1>4. SlotContents'
  <2>1. \A i \in Slots : value[i] # r
    BY <1>1 DEF SlotContents, Placed, PlacedPoints
  <2> QED
    BY <1>1, <1>2, <2>1 DEF SlotContents, CallerInside, CallerBuilds
<1>5. Holds'
  <2>1. \A w \in Workers : wpc[w] \in Holding => held[w] # r
    BY <1>1 DEF Holds, Placed, PlacedPoints
  <2> QED
    BY <1>1, <1>2, <2>1 DEF Holds
<1>6. Owned'
  <2>1. recv[r] # "waiting"
    BY <1>1 DEF Owned, Placed, PlacedPoints
  <2>2. r \notin replaced
    BY <1>1 DEF Owned, Placed, PlacedPoints
  <2>3. \A q \in Rpcs : recv'[q] = "waiting" => Placed(q)'
    BY <1>1, <1>2, <2>1 DEF Owned
  <2>4. \A q \in Rpcs : recv'[q] = "waiting" /\ q \notin replaced' =>
           \/ value'[Index(q)'] = q
           \/ \E w \in Workers : wpc'[w] \in Holding /\ held'[w] = q
    BY <1>1, <1>2, <2>1 DEF Owned
  <2>5. \A q \in Rpcs : q \in replaced' =>
         /\ Placed(q)'
         /\ value'[Index(q)'] # q
         /\ \A w \in Workers : wpc'[w] \in Holding => held'[w] # q
    BY <1>1, <1>2, <2>2 DEF Owned
  <2> QED
    BY <1>1, <2>3, <2>4, <2>5 DEF Owned
<1>7. SizeExact'
  BY <1>1 DEF SizeExact, OccupiedSlots, Destroying, Counting
<1> QED
  BY <1>3, <1>4, <1>5, <1>6, <1>7

\* Only InvokeRpc changes ids and sessions.
LEMMA IdentityKept ==
    ASSUME UNCHANGED <<id, callSession>>
    PROVE  \A r \in Rpcs : Index(r)' = Index(r)
BY DEF Index

\* The steps of start() outside the slot.
LEMMA OutsideStep ==
    ASSUME Unraced, NEW r \in Rpcs,
           UNCHANGED <<id, callSession, state, session, value, size, wpc, job, held, replaced>>,
           \A q \in Rpcs \ {r} : cpc'[q] = cpc[q] /\ recv'[q] = recv[q],
           cpc[r] \notin CallerInside \cup {"count"},
           cpc'[r] \notin CallerInside \cup {"count"},
           Placed(r) => Placed(r)',
           recv'[r] = recv[r] \/ (recv'[r] # "waiting" /\ ~Placed(r))
    PROVE  Unraced'
<1> USE DEF Unraced
<1>1. \A q \in Rpcs : Index(q)' = Index(q)
  BY IdentityKept
<1>2. \A q \in Rpcs : Placed(q) => Placed(q)'
  BY DEF Placed, PlacedPoints
<1>3. \A q \in Rpcs : cpc'[q] \in CallerInside <=> cpc[q] \in CallerInside
  BY DEF CallerInside, CallerBuilds
<1>4. \A q \in Rpcs : recv'[q] = "waiting" => recv[q] = "waiting"
  OBVIOUS
<1>5. \A q \in Rpcs : Placed(q) => recv'[q] = recv[q]
  OBVIOUS
<1>6. Exclusive'
  BY <1>1, <1>3 DEF Exclusive
<1>7. SlotContents'
  <2>1. cpc[r] # "value" /\ cpc'[r] # "value"
    BY DEF CallerInside, CallerBuilds
  <2>2. \A q \in Rpcs : /\ cpc'[q] \in CallerBuilds <=> cpc[q] \in CallerBuilds
                        /\ cpc'[q] = "update" <=> cpc[q] = "update"
    BY DEF CallerInside, CallerBuilds
  <2> QED
    BY <1>1, <1>2, <1>3, <2>1, <2>2 DEF SlotContents
<1>8. Holds'
  BY <1>1, <1>2 DEF Holds
<1>9. Owned'
  <2>1. \A i \in Slots : value[i] \in Rpcs => Placed(value[i])
    BY DEF SlotContents
  <2>2. \A w \in Workers : wpc[w] \in Holding => held[w] \in Rpcs /\ Placed(held[w])
    BY DEF Holds
  <2> QED
    BY <1>1, <1>2, <1>4, <1>5, <2>1, <2>2 DEF Owned
<1>10. SizeExact'
  <2>1. Counting' = Counting
    BY DEF Counting, CallerInside, CallerBuilds
  <2> QED
    BY <2>1 DEF SizeExact, OccupiedSlots, Destroying
<1> QED
  BY <1>6, <1>7, <1>8, <1>9, <1>10

\* The compare-exchange of emplace takes an empty slot that nobody is in.
LEMMA EmplaceAcquireStep ==
    ASSUME TypeOK, Unraced, NEW r \in Rpcs, EmplaceAcquire(r), ~raced'
    PROVE  Unraced'
<1> USE DEF Unraced
<1>1. /\ UNCHANGED <<id, callSession, recv, session, value, size, wpc, job, held, replaced>>
      /\ cpc[r] = "cas" /\ cpc'[r] = "size"
      /\ \A q \in Rpcs \ {r} : cpc'[q] = cpc[q]
      /\ state[Index(r)] = "empty" /\ state'[Index(r)] = "occupied"
      /\ \A i \in Slots \ {Index(r)} : state'[i] = state[i]
      /\ Index(r) \in Slots
  BY IndexType DEF TypeOK, EmplaceAcquire, identity, workVars, history
<1>2. /\ \A q \in Rpcs : cpc[q] \in CallerInside => Index(q) # Index(r)
      /\ \A w \in Workers : wpc[w] \in WorkerInside => job[w].slot # Index(r)
  BY DEF EmplaceAcquire, Busy, CallersInside, WorkersInside, CallerInside, CallerBuilds,
         WorkerInside
<1>3. \A q \in Rpcs : /\ Index(q)' = Index(q)
                      /\ (Placed(q)' <=> Placed(q))
  BY <1>1, IdentityKept DEF Placed, PlacedPoints
<1>4. Exclusive'
  BY <1>1, <1>2, <1>3 DEF Exclusive, CallerInside, CallerBuilds
<1>5. SlotContents'
  <2>1. \A q \in Rpcs :
          /\ cpc'[q] \in CallerBuilds =>
               state'[Index(q)] = "occupied" /\ value[Index(q)] \notin Rpcs
          /\ cpc'[q] = "value" => session[Index(q)] = callSession[q]
          /\ cpc'[q] = "update" => /\ state'[Index(q)] = "occupied"
                                   /\ value[Index(q)] \in Rpcs
                                   /\ session[Index(q)] = callSession[q]
    BY <1>1, IndexType DEF SlotContents, CallerInside, CallerBuilds
  <2>2. \A w \in Workers :
          wpc[w] \in WorkerInside => state'[job[w].slot] = state[job[w].slot]
    BY <1>1, <1>2 DEF TypeOK
  <2>3. \A i \in Slots :
          state'[i] = "occupied" =>
              \/ value[i] \in Rpcs
              \/ \E q \in Rpcs : cpc'[q] \in CallerBuilds /\ Index(q) = i
              \/ \E w \in Workers : wpc[w] = "erase" /\ job[w].slot = i
    BY <1>1 DEF SlotContents, CallerInside, CallerBuilds
  <2> QED
    BY <1>1, <1>3, <2>1, <2>2, <2>3 DEF SlotContents, WorkerInside
<1>6. Holds'
  BY <1>1, <1>3 DEF Holds
<1>7. Owned'
  BY <1>1, <1>3 DEF Owned
<1>8. SizeExact'
  <2>1. OccupiedSlots' = OccupiedSlots \cup {Index(r)} /\ Index(r) \notin OccupiedSlots
    BY <1>1 DEF OccupiedSlots
  <2>2. Counting' = Counting \cup {r} /\ r \notin Counting
    BY <1>1 DEF Counting
  <2>3. Destroying' = Destroying
    BY <1>1 DEF Destroying
  <2>4. /\ Cardinality(OccupiedSlots') = Cardinality(OccupiedSlots) + 1
        /\ Cardinality(Counting') = Cardinality(Counting) + 1
    BY <2>1, <2>2, OneMore, SetsFinite
  <2> QED
    BY <1>1, <2>3, <2>4, SetsFinite DEF SizeExact
<1> QED
  BY <1>4, <1>5, <1>6, <1>7, <1>8

\* emplace has found its session in a slot that nobody is in.
LEMMA EmplaceSameStep ==
    ASSUME TypeOK, Unraced, NEW r \in Rpcs, EmplaceSame(r), ~raced'
    PROVE  Unraced'
<1> USE DEF Unraced
<1>1. /\ UNCHANGED <<id, callSession, recv, state, session, value, size, wpc, job,
                    held, replaced>>
      /\ cpc[r] = "compare" /\ cpc'[r] = "update"
      /\ \A q \in Rpcs \ {r} : cpc'[q] = cpc[q]
      /\ session[Index(r)] = callSession[r]
      /\ Index(r) \in Slots
  BY IndexType DEF TypeOK, EmplaceSame, identity, slotVars, workVars
<1>2. /\ state[Index(r)] = "occupied"
      /\ \A q \in Rpcs : cpc[q] \in CallerInside => Index(q) # Index(r)
      /\ \A w \in Workers : wpc[w] \in WorkerInside => job[w].slot # Index(r)
  BY DEF EmplaceSame, Overlaps, Busy, CallersInside, WorkersInside, CallerInside, CallerBuilds,
         WorkerInside
<1>3. \A q \in Rpcs : Index(q)' = Index(q) /\ (Placed(q)' <=> Placed(q))
  BY <1>1, IdentityKept DEF Placed, PlacedPoints
<1>4. value[Index(r)] \in Rpcs
  BY <1>1, <1>2 DEF SlotContents, CallerInside, CallerBuilds, WorkerInside
<1>5. Exclusive'
  BY <1>1, <1>2, <1>3 DEF Exclusive
<1>6. SlotContents'
  <2>1. \A q \in Rpcs : cpc'[q] \in CallerBuilds <=> cpc[q] \in CallerBuilds
    BY <1>1 DEF CallerBuilds
  <2> QED
    BY <1>1, <1>2, <1>3, <1>4, <2>1 DEF SlotContents
<1>7. Holds' /\ Owned'
  BY <1>1, <1>3 DEF Holds, Owned
<1>8. SizeExact'
  <2>1. Counting' = Counting
    BY <1>1 DEF Counting
  <2> QED
    BY <1>1, <2>1 DEF SizeExact, OccupiedSlots, Destroying
<1> QED
  BY <1>5, <1>6, <1>7, <1>8

\* emplace replaces the handler of another call, in a slot nobody else is in.
LEMMA EmplaceUpdateStep ==
    ASSUME TypeOK, Unraced, NEW r \in Rpcs, EmplaceUpdate(r)
    PROVE  Unraced'
<1> USE DEF Unraced
<1> DEFINE old == value[Index(r)]
<1>1. /\ UNCHANGED <<id, callSession, state, session, size, wpc, job, held>>
      /\ cpc[r] = "update" /\ cpc'[r] = "arm" /\ recv'[r] = "waiting"
      /\ \A q \in Rpcs \ {r} : cpc'[q] = cpc[q] /\ recv'[q] = recv[q]
      /\ value'[Index(r)] = r
      /\ \A i \in Slots \ {Index(r)} : value'[i] = value[i]
      /\ Index(r) \in Slots
      /\ replaced' = replaced \cup ({old} \cap Rpcs)
  BY IndexType DEF TypeOK, EmplaceUpdate, identity, workVars
<1>2. /\ state[Index(r)] = "occupied" /\ session[Index(r)] = callSession[r]
      /\ old \in Rpcs /\ Placed(old) /\ Index(old) = Index(r)
      /\ \A q \in Rpcs \ {r} : cpc[q] \in CallerInside => Index(q) # Index(r)
      /\ \A w \in Workers : wpc[w] \in WorkerInside => job[w].slot # Index(r)
  BY <1>1 DEF SlotContents, Exclusive, CallerInside, CallerBuilds
<1>3. \A q \in Rpcs : /\ Index(q)' = Index(q)
                      /\ Placed(q) => Placed(q)'
                      /\ cpc'[q] \in CallerInside => q # r /\ cpc[q] \in CallerInside
                      /\ cpc'[q] \in CallerBuilds => cpc[q] \in CallerBuilds
                      /\ cpc[q] \in CallerBuilds => cpc'[q] \in CallerBuilds
  <2>1. \A q \in Rpcs : Index(q)' = Index(q)
    BY <1>1, IdentityKept
  <2>3. ASSUME NEW q \in Rpcs, Placed(q)
        PROVE  Placed(q)'
    <3>1. q # r
      BY <1>1, <2>3 DEF Placed, PlacedPoints
    <3> QED
      BY <1>1, <2>3, <3>1 DEF Placed
  <2>2. /\ cpc'[r] \notin CallerInside \cup CallerBuilds
        /\ cpc[r] \notin CallerBuilds
    BY <1>1 DEF CallerInside, CallerBuilds
  <2> QED
    BY <1>1, <2>1, <2>2, <2>3
<1>4. Exclusive'
  BY <1>1, <1>3 DEF Exclusive
<1>5. ~Placed(r) /\ Placed(r)' /\ old # r /\ replaced' = replaced \cup {old}
  BY <1>1, <1>2 DEF Placed, PlacedPoints
<1>6. SlotContents'
  <2>1. \A q \in Rpcs : Index(q) \in Slots
    BY IndexType
  <2>2. \A q \in Rpcs :
             /\ cpc'[q] \in CallerBuilds =>
                  state[Index(q)] = "occupied" /\ value'[Index(q)] \notin Rpcs
             /\ cpc'[q] = "value" => session[Index(q)] = callSession[q]
             /\ cpc'[q] = "update" => /\ state[Index(q)] = "occupied"
                                      /\ value'[Index(q)] \in Rpcs
                                      /\ session[Index(q)] = callSession[q]
    BY <1>1, <1>2, <1>3, <2>1 DEF SlotContents, CallerInside, CallerBuilds
  <2>3. \A w \in Workers : job[w].slot \in Slots
    BY DEF TypeOK
  <2>4. \A w \in Workers :
          wpc[w] \in WorkerInside => value'[job[w].slot] = value[job[w].slot]
    BY <1>1, <1>2, <2>3
  <2>5. \A i \in Slots :
         /\ state[i] = "empty" => value'[i] \notin Rpcs
         /\ state[i] = "occupied" =>
              \/ value'[i] \in Rpcs
              \/ \E q \in Rpcs : cpc'[q] \in CallerBuilds /\ Index(q) = i
              \/ \E w \in Workers : wpc[w] = "erase" /\ job[w].slot = i
         /\ value'[i] \in Rpcs => /\ cpc'[value'[i]] \in PlacedPoints
                                  /\ Index(value'[i]) = i
                                  /\ callSession[value'[i]] = session[i]
    <3> TAKE i \in Slots
    <3>1. CASE i = Index(r)
      BY <1>1, <1>2, <1>5, <3>1 DEF Placed, PlacedPoints
    <3>2. CASE i # Index(r)
      <4>1. value'[i] = value[i]
        BY <1>1, <3>2
      <4>2. value[i] \in Rpcs => cpc'[value[i]] \in PlacedPoints
        BY <1>3 DEF SlotContents, Placed, PlacedPoints
      <4> QED
        BY <1>3, <4>1, <4>2 DEF SlotContents
    <3> QED
      BY <3>1, <3>2
  <2> QED
    BY <1>1, <1>3, <2>2, <2>4, <2>5 DEF SlotContents, WorkerInside, Placed, PlacedPoints
<1>7. Holds'
  BY <1>1, <1>3 DEF Holds
<1>8. Owned'
  <2>1. \A w \in Workers : wpc[w] \in Holding =>
          held[w] # r /\ held[w] \in Rpcs /\ recv'[held[w]] = "waiting"
    BY <1>1, <1>5 DEF Holds, Owned
  <2>2. \A i \in Slots : value'[i] \in Rpcs => recv'[value'[i]] = "waiting"
    BY <1>1 DEF Owned
  <2>3. \A w \in Workers : wpc[w] \in Holding \ {"reset"} =>
          value'[job[w].slot] # held[w]
    BY <1>1, <2>1 DEF Owned, TypeOK
  <2>4. \A q \in Rpcs :
          recv'[q] = "waiting" /\ q \notin replaced' =>
           \/ value'[Index(q)] = q
           \/ \E w \in Workers : wpc[w] \in Holding /\ held[w] = q
    <3> SUFFICES ASSUME NEW q \in Rpcs, q \notin replaced', recv'[q] = "waiting",
                        value'[Index(q)] # q
                 PROVE  \E w \in Workers : wpc[w] \in Holding /\ held[w] = q
      OBVIOUS
    <3>1. q # r /\ q # old /\ q \notin replaced /\ Index(q) \in Slots
      BY <1>1, <1>5, IndexType
    <3>2. value[Index(q)] # q
      BY <1>1, <3>1
    <3> QED
      BY <1>1, <3>1, <3>2 DEF Owned
  <2>5. \A q \in Rpcs : recv'[q] = "waiting" => Placed(q)'
    BY <1>1, <1>3, <1>5 DEF Owned
  <2>6. \A q \in replaced' : /\ q \in Rpcs /\ Placed(q)' /\ value'[Index(q)] # q
                             /\ \A w \in Workers : wpc[w] \in Holding => held[w] # q
    <3> SUFFICES ASSUME NEW q \in replaced'
                 PROVE  /\ q \in Rpcs /\ Placed(q)' /\ value'[Index(q)] # q
                        /\ \A w \in Workers : wpc[w] \in Holding => held[w] # q
      OBVIOUS
    <3>1. CASE q = old
      <4>1. value'[Index(q)] # q
        BY <1>1, <1>2, <1>5, <3>1
      <4>2. ASSUME NEW w \in Workers, wpc[w] \in Holding, held[w] = old
            PROVE  FALSE
        <5>1. job[w].slot = Index(r) /\ wpc[w] \notin WorkerInside
          BY <1>2, <4>2 DEF Holds
        <5>2. wpc[w] \in Holding \ {"reset"}
          BY <4>2, <5>1 DEF WorkerInside
        <5> QED
          BY <4>2, <5>1, <5>2 DEF Owned
      <4> QED
        BY <1>2, <1>3, <3>1, <4>1, <4>2
    <3>2. CASE q \in replaced
      <4>1. q \in Rpcs /\ Placed(q) /\ value[Index(q)] # q /\ Index(q) \in Slots
        BY <3>2, IndexType DEF Owned, TypeOK
      <4>2. q # r
        BY <1>5, <4>1
      <4>3. value'[Index(q)] # q
        BY <1>1, <4>1, <4>2
      <4> QED
        BY <1>3, <3>2, <4>1, <4>3 DEF Owned
    <3> QED
      BY <1>5, <3>1, <3>2
  <2> QED
    BY <1>1, <1>3, <2>1, <2>2, <2>3, <2>4, <2>5, <2>6 DEF Owned
<1>9. SizeExact'
  <2>1. Counting' = Counting
    BY <1>1 DEF Counting
  <2> QED
    BY <1>1, <2>1 DEF SizeExact, OccupiedSlots, Destroying
<1> QED
  BY <1>4, <1>6, <1>7, <1>8, <1>9

\* A full buffer: the slot is given back as it was.
LEMMA EmplaceCheckSizeStep ==
    ASSUME TypeOK, Unraced, NEW r \in Rpcs, EmplaceCheckSize(r)
    PROVE  Unraced'
<1> USE DEF Unraced
<1>1. /\ UNCHANGED <<id, callSession, session, value, size, wpc, job, held, replaced>>
      /\ cpc[r] = "size"
      /\ \A q \in Rpcs \ {r} : cpc'[q] = cpc[q] /\ recv'[q] = recv[q]
      /\ Index(r) \in Slots
  BY IndexType DEF TypeOK, EmplaceCheckSize, identity, workVars, history
<1>2. \A q \in Rpcs : Index(q)' = Index(q)
  BY <1>1, IdentityKept
<1>3. /\ \A q \in Rpcs \ {r} : cpc[q] \in CallerInside => Index(q) # Index(r)
      /\ \A w \in Workers : wpc[w] \in WorkerInside => job[w].slot # Index(r)
  BY <1>1 DEF Exclusive, CallerInside, CallerBuilds
<1>4. CASE size >= Size
  <2>1. /\ cpc'[r] = "arm" /\ recv'[r] = "error"
        /\ state'[Index(r)] = "empty" /\ state[Index(r)] = "occupied"
        /\ \A i \in Slots \ {Index(r)} : state'[i] = state[i]
        /\ value[Index(r)] \notin Rpcs
    BY <1>1, <1>4 DEF EmplaceCheckSize, TypeOK, SlotContents, CallerInside, CallerBuilds
  <2>2. \A q \in Rpcs : /\ Placed(q) => Placed(q)'
                        /\ Placed(q) => recv'[q] = recv[q]
                        /\ recv'[q] = "waiting" => recv[q] = "waiting"
    BY <1>1, <2>1 DEF Placed, PlacedPoints
  <2>3. Exclusive'
    BY <1>1, <1>2, <2>1 DEF Exclusive, CallerInside, CallerBuilds
  <2>4. SlotContents'
    <3>1. \A q \in Rpcs :
            /\ cpc'[q] \in CallerBuilds =>
                 state'[Index(q)] = "occupied" /\ value[Index(q)] \notin Rpcs
            /\ cpc'[q] = "value" => session[Index(q)] = callSession[q]
            /\ cpc'[q] = "update" => /\ state'[Index(q)] = "occupied"
                                     /\ value[Index(q)] \in Rpcs
                                     /\ session[Index(q)] = callSession[q]
      BY <1>1, <1>3, <2>1, IndexType DEF SlotContents, CallerInside, CallerBuilds
    <3>2. \A w \in Workers :
            wpc[w] \in WorkerInside => state'[job[w].slot] = state[job[w].slot]
      BY <1>3, <2>1 DEF TypeOK
    <3>3. \A i \in Slots :
            /\ state'[i] = "empty" => value[i] \notin Rpcs
            /\ state'[i] = "occupied" =>
                 \/ value[i] \in Rpcs
                 \/ \E q \in Rpcs : cpc'[q] \in CallerBuilds /\ Index(q) = i
                 \/ \E w \in Workers : wpc[w] = "erase" /\ job[w].slot = i
      BY <1>1, <2>1 DEF SlotContents
    <3> QED
      BY <1>1, <1>2, <2>2, <3>1, <3>2, <3>3 DEF SlotContents, WorkerInside
  <2>5. Holds'
    BY <1>1, <1>2, <2>2 DEF Holds
  <2>6. Owned'
    <3>1. \A i \in Slots : value[i] \in Rpcs => Placed(value[i])
      BY DEF SlotContents
    <3>2. \A w \in Workers : wpc[w] \in Holding => held[w] \in Rpcs /\ Placed(held[w])
      BY DEF Holds
    <3> QED
      BY <1>1, <1>2, <2>2, <3>1, <3>2 DEF Owned
  <2>7. SizeExact'
    <3>1. OccupiedSlots' = OccupiedSlots \ {Index(r)} /\ Index(r) \in OccupiedSlots
      BY <1>1, <2>1 DEF OccupiedSlots
    <3>2. Counting' = Counting \ {r} /\ r \in Counting
      BY <1>1, <2>1 DEF Counting
    <3>3. Destroying' = Destroying
      BY <1>1 DEF Destroying
    <3>4. /\ Cardinality(OccupiedSlots') = Cardinality(OccupiedSlots) - 1
          /\ Cardinality(Counting') = Cardinality(Counting) - 1
      BY <3>1, <3>2, OneLess, SetsFinite
    <3> QED
      BY <1>1, <3>3, <3>4, SetsFinite DEF SizeExact
  <2> QED
    BY <2>3, <2>4, <2>5, <2>6, <2>7
<1>5. CASE ~(size >= Size)
  <2>1. cpc'[r] = "session" /\ UNCHANGED <<state, recv>>
    BY <1>1, <1>5 DEF EmplaceCheckSize, TypeOK
  <2>2. \A q \in Rpcs : /\ cpc'[q] \in CallerInside <=> cpc[q] \in CallerInside
                        /\ cpc'[q] \in CallerBuilds <=> cpc[q] \in CallerBuilds
                        /\ cpc'[q] = "value" <=> cpc[q] = "value"
                        /\ cpc'[q] = "update" <=> cpc[q] = "update"
                        /\ Placed(q)' <=> Placed(q)
    BY <1>1, <2>1 DEF CallerInside, CallerBuilds, Placed, PlacedPoints
  <2>3. Exclusive'
    BY <1>1, <1>2, <2>2 DEF Exclusive
  <2>4. SlotContents'
    BY <1>1, <1>2, <2>1, <2>2 DEF SlotContents
  <2>5. Holds' /\ Owned'
    BY <1>1, <1>2, <2>1, <2>2 DEF Holds, Owned
  <2>6. SizeExact'
    <3>1. Counting' = Counting
      BY <1>1, <2>1 DEF Counting
    <3> QED
      BY <1>1, <2>1, <3>1 DEF SizeExact, OccupiedSlots, Destroying
  <2> QED
    BY <2>3, <2>4, <2>5, <2>6
<1> QED
  BY <1>4, <1>5

\* The slot gets its session; no handler is in it yet.
LEMMA EmplaceSessionStep ==
    ASSUME TypeOK, Unraced, NEW r \in Rpcs, EmplaceSession(r)
    PROVE  Unraced'
<1> USE DEF Unraced
<1>1. /\ UNCHANGED <<id, callSession, recv, state, value, size, wpc, job, held, replaced>>
      /\ cpc[r] = "session" /\ cpc'[r] = "value"
      /\ \A q \in Rpcs \ {r} : cpc'[q] = cpc[q]
      /\ session'[Index(r)] = callSession[r]
      /\ \A i \in Slots \ {Index(r)} : session'[i] = session[i]
      /\ Index(r) \in Slots
  BY IndexType DEF TypeOK, EmplaceSession, identity, workVars, history
<1>2. \A q \in Rpcs : /\ Index(q)' = Index(q)
                      /\ cpc'[q] \in CallerInside <=> cpc[q] \in CallerInside
                      /\ cpc'[q] \in CallerBuilds <=> cpc[q] \in CallerBuilds
                      /\ cpc'[q] = "update" <=> cpc[q] = "update"
                      /\ Placed(q)' <=> Placed(q)
  BY <1>1, IdentityKept DEF Placed, PlacedPoints, CallerInside, CallerBuilds
<1>3. /\ \A q \in Rpcs \ {r} : cpc[q] \in CallerInside => Index(q) # Index(r)
      /\ \A w \in Workers : wpc[w] \in WorkerInside => job[w].slot # Index(r)
      /\ value[Index(r)] \notin Rpcs
  BY <1>1 DEF Exclusive, SlotContents, CallerInside, CallerBuilds
<1>4. Exclusive'
  BY <1>1, <1>2 DEF Exclusive
<1>5. SlotContents'
  <2>1. \A q \in Rpcs :
          cpc'[q] \in {"value", "update"} => session'[Index(q)] = callSession[q]
    BY <1>1, <1>3, IndexType DEF SlotContents, CallerInside, CallerBuilds
  <2>2. \A w \in Workers :
          wpc[w] \in WorkerInside => session'[job[w].slot] = session[job[w].slot]
    BY <1>1, <1>3 DEF TypeOK
  <2>3. \A i \in Slots : value[i] \in Rpcs => session'[i] = session[i]
    BY <1>1, <1>3
  <2> QED
    BY <1>1, <1>2, <2>1, <2>2, <2>3 DEF SlotContents, WorkerInside
<1>6. Holds' /\ Owned'
  BY <1>1, <1>2 DEF Holds, Owned
<1>7. SizeExact'
  <2>1. Counting' = Counting
    BY <1>1 DEF Counting
  <2> QED
    BY <1>1, <2>1 DEF SizeExact, OccupiedSlots, Destroying
<1> QED
  BY <1>4, <1>5, <1>6, <1>7

\* The handler is in the slot: the call waits.
LEMMA EmplaceValueStep ==
    ASSUME TypeOK, Unraced, NEW r \in Rpcs, EmplaceValue(r)
    PROVE  Unraced'
<1> USE DEF Unraced
<1>1. /\ UNCHANGED <<id, callSession, state, session, size, wpc, job, held, replaced>>
      /\ cpc[r] = "value" /\ cpc'[r] = "count" /\ recv'[r] = "waiting"
      /\ \A q \in Rpcs \ {r} : cpc'[q] = cpc[q] /\ recv'[q] = recv[q]
      /\ value'[Index(r)] = r
      /\ \A i \in Slots \ {Index(r)} : value'[i] = value[i]
      /\ Index(r) \in Slots
  BY IndexType DEF TypeOK, EmplaceValue, identity, workVars, history
<1>2. \A q \in Rpcs : /\ Index(q)' = Index(q)
                      /\ cpc'[q] \in CallerInside => cpc[q] \in CallerInside
                      /\ Placed(q) => Placed(q)'
  BY <1>1, IdentityKept DEF Placed, PlacedPoints, CallerInside, CallerBuilds
<1>3. /\ \A q \in Rpcs \ {r} : cpc[q] \in CallerInside => Index(q) # Index(r)
      /\ \A w \in Workers : wpc[w] \in WorkerInside => job[w].slot # Index(r)
      /\ value[Index(r)] \notin Rpcs /\ state[Index(r)] = "occupied"
      /\ session[Index(r)] = callSession[r]
      /\ cpc'[r] \notin CallerInside
  BY <1>1 DEF Exclusive, SlotContents, CallerInside, CallerBuilds
<1>4. Exclusive'
  BY <1>1, <1>2 DEF Exclusive
<1>5. ~Placed(r) /\ Placed(r)'
  BY <1>1 DEF Placed, PlacedPoints
<1>6. SlotContents'
  <2>1. \A q \in Rpcs :
          /\ cpc'[q] \in CallerBuilds =>
               state[Index(q)] = "occupied" /\ value'[Index(q)] \notin Rpcs
          /\ cpc'[q] = "value" => session[Index(q)] = callSession[q]
          /\ cpc'[q] = "update" => /\ state[Index(q)] = "occupied"
                                   /\ value'[Index(q)] \in Rpcs
                                   /\ session[Index(q)] = callSession[q]
    BY <1>1, <1>2, <1>3, IndexType DEF SlotContents, CallerInside, CallerBuilds
  <2>2. \A w \in Workers :
          wpc[w] \in WorkerInside => value'[job[w].slot] = value[job[w].slot]
    BY <1>1, <1>3 DEF TypeOK
  <2>3. \A i \in Slots :
         /\ state[i] = "empty" => value'[i] \notin Rpcs
         /\ state[i] = "occupied" =>
              \/ value'[i] \in Rpcs
              \/ \E q \in Rpcs : cpc'[q] \in CallerBuilds /\ Index(q) = i
              \/ \E w \in Workers : wpc[w] = "erase" /\ job[w].slot = i
         /\ value'[i] \in Rpcs => /\ cpc'[value'[i]] \in PlacedPoints
                                  /\ Index(value'[i]) = i
                                  /\ callSession[value'[i]] = session[i]
    <3> TAKE i \in Slots
    <3>1. CASE i = Index(r)
      BY <1>1, <1>3, <1>5, <3>1 DEF Placed
    <3>2. CASE i # Index(r)
      <4>1. value'[i] = value[i]
        BY <1>1, <3>2
      <4>2. value[i] \in Rpcs => cpc'[value[i]] \in PlacedPoints
        BY <1>2 DEF SlotContents, Placed
      <4>3. \A q \in Rpcs : cpc[q] \in CallerBuilds /\ Index(q) = i
                             => cpc'[q] \in CallerBuilds
        BY <1>1, <3>2
      <4> QED
        BY <4>1, <4>2, <4>3 DEF SlotContents
    <3> QED
      BY <3>1, <3>2
  <2> QED
    BY <1>1, <1>2, <2>1, <2>2, <2>3 DEF SlotContents, WorkerInside, Placed
<1>7. Holds'
  BY <1>1, <1>2 DEF Holds
<1>8. Owned'
  <2>1. \A w \in Workers : wpc[w] \in Holding =>
          held[w] # r /\ held[w] \in Rpcs /\ recv'[held[w]] = "waiting"
    BY <1>1, <1>5 DEF Holds, Owned
  <2>2. \A i \in Slots : value'[i] \in Rpcs => recv'[value'[i]] = "waiting"
    BY <1>1 DEF Owned
  <2>3. \A w \in Workers : wpc[w] \in Holding \ {"reset"} =>
          value'[job[w].slot] # held[w]
    BY <1>1, <2>1 DEF Owned, TypeOK
  <2>4. \A q \in Rpcs :
          recv'[q] = "waiting" /\ q \notin replaced' =>
           \/ value'[Index(q)] = q
           \/ \E w \in Workers : wpc[w] \in Holding /\ held[w] = q
    BY <1>1, <1>3, IndexType DEF Owned
  <2>5. \A q \in Rpcs : recv'[q] = "waiting" => Placed(q)'
    BY <1>1, <1>2, <1>5 DEF Owned
  <2>6. \A q \in Rpcs : q \in replaced => q # r /\ value'[Index(q)] # q
    BY <1>1, <1>5, IndexType DEF Owned
  <2> QED
    BY <1>1, <1>2, <2>1, <2>2, <2>3, <2>4, <2>5, <2>6 DEF Owned
<1>9. SizeExact'
  <2>1. Counting' = Counting
    BY <1>1 DEF Counting
  <2> QED
    BY <1>1, <2>1 DEF SizeExact, OccupiedSlots, Destroying
<1> QED
  BY <1>4, <1>6, <1>7, <1>8, <1>9

\* size_ catches up with the slot.
LEMMA EmplaceCountStep ==
    ASSUME TypeOK, Unraced, NEW r \in Rpcs, EmplaceCount(r)
    PROVE  Unraced'
<1> USE DEF Unraced
<1>1. /\ UNCHANGED <<id, callSession, recv, state, session, value, wpc, job, held, replaced>>
      /\ cpc[r] = "count" /\ cpc'[r] = "arm" /\ size' = size + 1
      /\ \A q \in Rpcs \ {r} : cpc'[q] = cpc[q]
  BY DEF TypeOK, EmplaceCount, identity, workVars, history
<1>2. \A q \in Rpcs : /\ Index(q)' = Index(q)
                      /\ cpc'[q] \in CallerInside <=> cpc[q] \in CallerInside
                      /\ cpc'[q] \in CallerBuilds <=> cpc[q] \in CallerBuilds
                      /\ cpc'[q] = "value" <=> cpc[q] = "value"
                      /\ cpc'[q] = "update" <=> cpc[q] = "update"
                      /\ Placed(q)' <=> Placed(q)
  BY <1>1, IdentityKept DEF Placed, PlacedPoints, CallerInside, CallerBuilds
<1>3. Exclusive'
  BY <1>1, <1>2 DEF Exclusive
<1>4. SlotContents'
  BY <1>1, <1>2 DEF SlotContents
<1>5. Holds' /\ Owned'
  BY <1>1, <1>2 DEF Holds, Owned
<1>6. SizeExact'
  <2>1. Counting' = Counting \ {r} /\ r \in Counting
    BY <1>1 DEF Counting
  <2>2. OccupiedSlots' = OccupiedSlots /\ Destroying' = Destroying
    BY <1>1 DEF OccupiedSlots, Destroying
  <2>3. Cardinality(Counting') = Cardinality(Counting) - 1
    BY <2>1, OneLess, SetsFinite
  <2> QED
    BY <1>1, <2>2, <2>3, SetsFinite DEF SizeExact, TypeOK
<1> QED
  BY <1>3, <1>4, <1>5, <1>6

-----------------------------------------------------------------------------
(***************************************************************************)
(* The threads that pop handlers keep Unraced.                             *)
(***************************************************************************)

\* What a step of worker w outside every slot leaves alone.
LEMMA WorkerOutsideStep ==
    ASSUME Unraced, NEW w \in Workers,
           UNCHANGED <<id, callSession, cpc, recv, state, session, value, size, held, replaced>>,
           \A v \in Workers \ {w} : wpc'[v] = wpc[v] /\ job'[v] = job[v],
           wpc[w] \in {"idle", "find", "check"}, wpc'[w] \in {"idle", "find", "check"}
    PROVE  Unraced'
<1> USE DEF Unraced
<1>1. \A q \in Rpcs : /\ Index(q)' = Index(q)
                      /\ Placed(q)' <=> Placed(q)
  BY IdentityKept DEF Placed
<1>2. /\ wpc[w] \notin WorkerInside \cup Holding
      /\ wpc'[w] \notin WorkerInside \cup Holding
  BY DEF WorkerInside, Holding
<1>3. Exclusive'
  BY <1>1, <1>2 DEF Exclusive
<1>4. SlotContents'
  <2>1. \A v \in Workers : wpc'[v] \in WorkerInside =>
          v # w /\ wpc'[v] = wpc[v] /\ job'[v] = job[v]
    BY <1>2
  <2>2. \A v \in Workers : wpc[v] = "erase" => wpc'[v] = wpc[v] /\ job'[v] = job[v]
    BY <1>2 DEF WorkerInside
  <2> QED
    BY <1>1, <2>1, <2>2 DEF SlotContents, WorkerInside
<1>5. Holds'
  BY <1>1, <1>2 DEF Holds
<1>6. Owned'
  BY <1>1, <1>2 DEF Owned
<1>7. SizeExact'
  <2>1. Destroying' = Destroying
    BY DEF Destroying
  <2> QED
    BY <2>1 DEF SizeExact, OccupiedSlots, Counting
<1> QED
  BY <1>3, <1>4, <1>5, <1>6, <1>7

\* RingBuffer::find reads the state of a slot.
LEMMA PopFindStep ==
    ASSUME TypeOK, Unraced, NEW w \in Workers, PopFind(w)
    PROVE  Unraced'
<1>1. /\ UNCHANGED <<id, callSession, cpc, recv, state, session, value, size, held,
                    replaced>>
      /\ wpc[w] = "find" /\ wpc'[w] \in {"check", "idle"}
      /\ \A v \in Workers \ {w} : wpc'[v] = wpc[v] /\ job'[v] = job[v]
  BY DEF TypeOK, PopFind, callVars, identity, slotVars, history
<1> QED
  BY <1>1, WorkerOutsideStep

\* RingBuffer::find has its session: the worker enters a slot nobody is in,
\* which holds a handler of the session.
LEMMA PopCheckStep ==
    ASSUME TypeOK, Unraced, NEW w \in Workers, PopCheck(w), ~raced'
    PROVE  Unraced'
<1> USE DEF Unraced
<1> DEFINE i == job[w].slot
           found == session[i] = job[w].session
<1>1. /\ UNCHANGED <<id, callSession, cpc, recv, state, session, value, size, held,
                    replaced>>
      /\ wpc[w] = "check"
      /\ wpc'[w] = IF found THEN "move" ELSE "idle"
      /\ \A v \in Workers \ {w} : wpc'[v] = wpc[v] /\ job'[v] = job[v]
      /\ found => job' = job
      /\ i \in Slots
  BY DEF TypeOK, PopCheck, callVars, identity, slotVars
<1>2. CASE ~found
  <2>1. wpc'[w] = "idle"
    BY <1>1, <1>2
  <2> QED
    BY <1>1, <2>1, WorkerOutsideStep
<1>3. CASE found
  <2>1. wpc'[w] = "move" /\ job' = job
    BY <1>1, <1>3
  <2>2. /\ state[i] = "occupied"
        /\ \A q \in Rpcs : cpc[q] \in CallerInside => Index(q) # i
        /\ \A v \in Workers : wpc[v] \in WorkerInside => job[v].slot # i
    BY <1>3 DEF PopCheck, Overlaps, Busy, CallersInside, WorkersInside, CallerInside, CallerBuilds,
                WorkerInside
  <2>3. value[i] \in Rpcs
    BY <1>1, <2>2 DEF SlotContents, WorkerInside, CallerInside, CallerBuilds
  <2>4. \A q \in Rpcs : /\ Index(q)' = Index(q)
                        /\ Placed(q)' <=> Placed(q)
    BY <1>1, IdentityKept DEF Placed
  <2>5. Exclusive'
    BY <1>1, <2>1, <2>2, <2>4 DEF Exclusive
  <2>6. SlotContents'
    BY <1>1, <1>3, <2>1, <2>2, <2>3, <2>4 DEF SlotContents
  <2>7. Holds' /\ Owned'
    BY <1>1, <2>1, <2>4 DEF Holds, Owned, Holding
  <2>8. SizeExact'
    <3>1. Destroying' = Destroying
      BY <1>1, <2>1 DEF Destroying
    <3> QED
      BY <1>1, <3>1 DEF SizeExact, OccupiedSlots, Counting
  <2> QED
    BY <2>5, <2>6, <2>7, <2>8
<1> QED
  BY <1>2, <1>3

\* The proxy is copied out of the slot.
LEMMA PopMoveStep ==
    ASSUME TypeOK, Unraced, NEW w \in Workers, PopMove(w)
    PROVE  Unraced'
<1> USE DEF Unraced
<1> DEFINE i == job[w].slot
<1>1. /\ UNCHANGED <<id, callSession, cpc, recv, state, session, value, size, job, replaced>>
      /\ wpc[w] = "move" /\ wpc'[w] = "reset" /\ held'[w] = value[i]
      /\ \A v \in Workers \ {w} : wpc'[v] = wpc[v] /\ held'[v] = held[v]
      /\ i \in Slots
  BY DEF TypeOK, PopMove, callVars, identity, slotVars, history
<1>2. \A q \in Rpcs : /\ Index(q)' = Index(q)
                      /\ Placed(q)' <=> Placed(q)
  BY <1>1, IdentityKept DEF Placed
<1>3. /\ state[i] = "occupied" /\ value[i] \in Rpcs /\ session[i] = job[w].session
      /\ Placed(value[i]) /\ Index(value[i]) = i
      /\ callSession[value[i]] = job[w].session
  BY <1>1 DEF SlotContents
<1>4. \A v \in Workers : wpc'[v] \in WorkerInside <=> wpc[v] \in WorkerInside
  BY <1>1 DEF WorkerInside
<1>5. Exclusive'
  BY <1>1, <1>2, <1>4 DEF Exclusive
<1>6. SlotContents'
  BY <1>1, <1>2, <1>3 DEF SlotContents
<1>7. Holds'
  BY <1>1, <1>2, <1>3 DEF Holds, Holding
<1>8. Owned'
  <2>1. recv[value[i]] = "waiting"
    BY <1>1, <1>3 DEF Owned
  <2>2. \A v \in Workers \ {w} : wpc[v] \in Holding => held[v] # value[i]
    <3> SUFFICES ASSUME NEW v \in Workers \ {w}, wpc[v] \in Holding,
                        held[v] = value[i]
                 PROVE  FALSE
      OBVIOUS
    <3>1. job[v].slot = i
      BY <1>3 DEF Holds
    <3>2. CASE wpc[v] = "reset"
      BY <1>1, <3>1, <3>2 DEF Exclusive, WorkerInside
    <3>3. CASE wpc[v] # "reset"
      BY <3>1, <3>3 DEF Owned
    <3> QED
      BY <3>2, <3>3
  <2>3. wpc[w] \notin Holding
    BY <1>1 DEF Holding
  <2>4. \A v \in Workers :
         /\ wpc'[v] \in Holding => recv[held'[v]] = "waiting"
         /\ wpc'[v] \in Holding \ {"reset"} => value[job[v].slot] # held'[v]
    BY <1>1, <2>1 DEF Owned
  <2>5. \A u, v \in Workers :
         wpc'[u] \in Holding /\ wpc'[v] \in Holding /\ held'[u] = held'[v] => u = v
    BY <1>1, <2>2 DEF Owned
  <2>6. \A q \in Rpcs, v \in Workers : wpc[v] \in Holding /\ held[v] = q =>
          wpc'[v] \in Holding /\ held'[v] = q
    BY <1>1, <2>3
  <2>7. \A q \in Rpcs : q \in replaced =>
          \A v \in Workers : wpc'[v] \in Holding => held'[v] # q
    BY <1>1, <1>3 DEF Owned
  <2> QED
    BY <1>1, <1>2, <2>4, <2>5, <2>6, <2>7 DEF Owned
<1>9. SizeExact'
  <2>1. Destroying' = Destroying
    BY <1>1 DEF Destroying
  <2> QED
    BY <1>1, <2>1 DEF SizeExact, OccupiedSlots, Counting
<1> QED
  BY <1>5, <1>6, <1>7, <1>8, <1>9

\* The proxy left in the slot is empty: the handler has changed hands.
LEMMA PopResetStep ==
    ASSUME TypeOK, Unraced, NEW w \in Workers, PopReset(w)
    PROVE  Unraced'
<1> USE DEF Unraced
<1> DEFINE i == job[w].slot
<1>1. /\ UNCHANGED <<id, callSession, cpc, recv, state, session, size, job, held, replaced>>
      /\ wpc[w] = "reset" /\ wpc'[w] = "erase" /\ value'[i] \notin Rpcs
      /\ \A v \in Workers \ {w} : wpc'[v] = wpc[v]
      /\ \A j \in Slots \ {i} : value'[j] = value[j]
      /\ i \in Slots
  BY ValuesAssumption DEF TypeOK, PopReset, callVars, identity, history
<1>2. \A q \in Rpcs : /\ Index(q)' = Index(q)
                      /\ Placed(q)' <=> Placed(q)
  BY <1>1, IdentityKept DEF Placed
<1>3. /\ state[i] = "occupied" /\ held[w] = value[i] /\ held[w] \in Rpcs
      /\ Index(held[w]) = i
  BY <1>1 DEF SlotContents, Holds, Holding
<1>4. \A v \in Workers : /\ wpc'[v] \in WorkerInside <=> wpc[v] \in WorkerInside
                         /\ wpc'[v] \in Holding <=> wpc[v] \in Holding
  BY <1>1 DEF WorkerInside, Holding
<1>5. /\ \A q \in Rpcs : cpc[q] \in CallerInside => Index(q) # i
      /\ \A v \in Workers \ {w} : wpc[v] \in WorkerInside => job[v].slot # i
  BY <1>1 DEF Exclusive, WorkerInside
<1>6. Exclusive'
  BY <1>1, <1>2, <1>4 DEF Exclusive
<1>7. SlotContents'
  <2>1. \A q \in Rpcs : cpc[q] \in CallerInside => value'[Index(q)] = value[Index(q)]
    BY <1>1, <1>5, IndexType
  <2>2. \A v \in Workers \ {w} :
          wpc[v] \in WorkerInside => value'[job[v].slot] = value[job[v].slot]
    BY <1>1, <1>5 DEF TypeOK
  <2>3. \A v \in Workers :
          /\ wpc'[v] \in {"move", "reset"} => v # w /\ wpc[v] \in {"move", "reset"}
          /\ wpc'[v] = "erase" => v = w \/ wpc[v] = "erase"
          /\ wpc[v] = "erase" => wpc'[v] = "erase"
    BY <1>1
  <2>4. \A j \in Slots :
         /\ state[j] = "empty" => value'[j] \notin Rpcs
         /\ state[j] = "occupied" =>
              \/ value'[j] \in Rpcs
              \/ \E r \in Rpcs : cpc[r] \in CallerBuilds /\ Index(r) = j
              \/ \E v \in Workers : wpc'[v] = "erase" /\ job[v].slot = j
         /\ value'[j] \in Rpcs => j # i /\ value'[j] = value[j]
    BY <1>1, <2>3 DEF SlotContents
  <2> QED
    BY <1>1, <1>2, <1>3, <2>1, <2>2, <2>3, <2>4
       DEF SlotContents, WorkerInside, CallerInside, CallerBuilds
<1>8. Holds'
  BY <1>1, <1>2, <1>4 DEF Holds
<1>9. Owned'
  <2>1. \A v \in Workers : wpc'[v] \in Holding \ {"reset"} =>
          value'[job[v].slot] # held[v]
    <3> SUFFICES ASSUME NEW v \in Workers, wpc'[v] \in Holding \ {"reset"}
                 PROVE  value'[job[v].slot] # held[v]
      OBVIOUS
    <3>1. held[v] \in Rpcs
      BY <1>4 DEF Holds
    <3>2. CASE job[v].slot = i
      BY <1>1, <3>1, <3>2
    <3>3. CASE job[v].slot # i
      BY <1>1, <3>3 DEF Owned, TypeOK
    <3> QED
      BY <3>2, <3>3
  <2>2. \A j \in Slots : value'[j] \in Rpcs => recv[value'[j]] = "waiting"
    BY <1>1 DEF Owned
  <2>3. \A q \in Rpcs :
         recv[q] = "waiting" /\ q \notin replaced =>
           \/ value'[Index(q)] = q
           \/ \E v \in Workers : wpc'[v] \in Holding /\ held[v] = q
    BY <1>1, <1>3, <1>4, IndexType DEF Owned, Holding
  <2>4. \A q \in Rpcs : q \in replaced => value'[Index(q)] # q
    BY <1>1, IndexType DEF Owned
  <2> QED
    BY <1>1, <1>2, <1>4, <2>1, <2>2, <2>3, <2>4 DEF Owned
<1>10. SizeExact'
  <2>1. Destroying' = Destroying
    BY <1>1 DEF Destroying
  <2> QED
    BY <1>1, <2>1 DEF SizeExact, OccupiedSlots, Counting
<1> QED
  BY <1>6, <1>7, <1>8, <1>9, <1>10

\* RingBuffer::erase finds the slot as the worker left it and releases it.
LEMMA PopEraseStep ==
    ASSUME TypeOK, Unraced, NEW w \in Workers, PopErase(w)
    PROVE  Unraced'
<1> USE DEF Unraced
<1> DEFINE i == job[w].slot
<1>1. wpc[w] = "erase" /\ state[i] = "occupied" /\ value[i] \notin Rpcs /\ i \in Slots
  BY DEF PopErase, SlotContents, TypeOK
<1>2. /\ UNCHANGED <<id, callSession, cpc, recv, session, value, size, job, held, replaced>>
      /\ wpc'[w] = "destroy" /\ state'[i] = "empty"
      /\ \A v \in Workers \ {w} : wpc'[v] = wpc[v]
      /\ \A j \in Slots \ {i} : state'[j] = state[j]
  BY <1>1 DEF TypeOK, PopErase, callVars, identity, history
<1>3. \A q \in Rpcs : /\ Index(q)' = Index(q)
                      /\ Placed(q)' <=> Placed(q)
  BY <1>2, IdentityKept DEF Placed
<1>4. \A v \in Workers : /\ wpc'[v] \in WorkerInside <=> wpc[v] \in WorkerInside
                         /\ wpc'[v] \in Holding <=> wpc[v] \in Holding
                         /\ wpc'[v] = "reset" <=> wpc[v] = "reset"
                         /\ wpc'[v] = "move" <=> wpc[v] = "move"
                         /\ wpc'[v] # "crashed" <=> wpc[v] # "crashed"
  BY <1>1, <1>2 DEF WorkerInside, Holding
<1>5. /\ \A q \in Rpcs : cpc[q] \in CallerInside => Index(q) # i
      /\ \A v \in Workers \ {w} : wpc[v] \in WorkerInside => job[v].slot # i
  BY <1>1 DEF Exclusive, WorkerInside
<1>6. Exclusive'
  BY <1>2, <1>3, <1>4 DEF Exclusive
<1>7. SlotContents'
  <2>1. \A q \in Rpcs : cpc[q] \in CallerInside => state'[Index(q)] = state[Index(q)]
    BY <1>2, <1>5, IndexType
  <2>2. \A v \in Workers \ {w} :
          wpc[v] \in WorkerInside => state'[job[v].slot] = state[job[v].slot]
    BY <1>2, <1>5 DEF TypeOK
  <2>3. \A v \in Workers :
          /\ wpc'[v] \in {"move", "reset", "erase"} => v # w /\ wpc'[v] = wpc[v]
          /\ wpc'[v] = "destroy" => v = w \/ wpc[v] = "destroy"
    BY <1>2
  <2>4. \A j \in Slots :
         /\ state'[j] = "empty" => value[j] \notin Rpcs
         /\ state'[j] = "occupied" =>
              \/ value[j] \in Rpcs
              \/ \E r \in Rpcs : cpc[r] \in CallerBuilds /\ Index(r) = j
              \/ \E v \in Workers : wpc'[v] = "erase" /\ job[v].slot = j
    BY <1>1, <1>2 DEF SlotContents
  <2> QED
    BY <1>2, <1>3, <2>1, <2>2, <2>3, <2>4
       DEF SlotContents, WorkerInside, CallerInside, CallerBuilds
<1>8. Holds'
  BY <1>2, <1>3, <1>4 DEF Holds
<1>9. Owned'
  BY <1>2, <1>3, <1>4 DEF Owned
<1>10. SizeExact'
  <2>1. OccupiedSlots' = OccupiedSlots \ {i} /\ i \in OccupiedSlots
    BY <1>1, <1>2 DEF OccupiedSlots
  <2>2. Destroying' = Destroying \cup {w} /\ w \notin Destroying
    BY <1>1, <1>2 DEF Destroying
  <2>3. Counting' = Counting
    BY <1>2 DEF Counting
  <2>4. /\ Cardinality(OccupiedSlots') = Cardinality(OccupiedSlots) - 1
        /\ Cardinality(Destroying') = Cardinality(Destroying) + 1
    BY <2>1, <2>2, OneLess, OneMore, SetsFinite
  <2> QED
    BY <1>2, <2>3, <2>4, SetsFinite DEF SizeExact
<1> QED
  BY <1>6, <1>7, <1>8, <1>9, <1>10

\* The destructors run in a slot that is empty.
LEMMA PopDestroyStep ==
    ASSUME TypeOK, Unraced, NEW w \in Workers, PopDestroy(w)
    PROVE  Unraced'
<1> USE DEF Unraced
<1> DEFINE i == job[w].slot
<1>1. /\ UNCHANGED <<id, callSession, cpc, recv, state, session, job, held, replaced>>
      /\ wpc[w] = "destroy" /\ wpc'[w] = "call" /\ size' = size - 1
      /\ value'[i] \notin Rpcs
      /\ \A v \in Workers \ {w} : wpc'[v] = wpc[v]
      /\ \A j \in Slots \ {i} : value'[j] = value[j]
      /\ i \in Slots
  BY ValuesAssumption DEF TypeOK, PopDestroy, callVars, identity, history
<1>2. \A q \in Rpcs : /\ Index(q)' = Index(q)
                      /\ Placed(q)' <=> Placed(q)
  BY <1>1, IdentityKept DEF Placed
<1>3. state[i] = "empty" /\ value[i] \notin Rpcs
  BY <1>1 DEF SlotContents
<1>4. \A v \in Workers : /\ wpc'[v] \in WorkerInside => v # w /\ wpc'[v] = wpc[v]
                         /\ wpc'[v] \in Holding <=> wpc[v] \in Holding
                         /\ wpc'[v] = "reset" <=> wpc[v] = "reset"
                         /\ wpc'[v] = "erase" <=> wpc[v] = "erase"
                         /\ wpc'[v] # "crashed" <=> wpc[v] # "crashed"
  BY <1>1 DEF WorkerInside, Holding
<1>5. /\ \A q \in Rpcs : cpc[q] \in CallerInside => Index(q) # i
      /\ \A v \in Workers \ {w} : wpc[v] \in WorkerInside => job[v].slot # i
  BY <1>1 DEF Exclusive, WorkerInside
<1>6. \A j \in Slots : /\ value'[j] \in Rpcs => value'[j] = value[j]
                       /\ value[j] \in Rpcs => value'[j] = value[j]
  BY <1>1, <1>3
<1>7. Exclusive'
  BY <1>1, <1>2, <1>4 DEF Exclusive
<1>8. SlotContents'
  <2>1. \A q \in Rpcs : cpc[q] \in CallerInside => value'[Index(q)] = value[Index(q)]
    BY <1>1, <1>5, IndexType
  <2>2. \A v \in Workers \ {w} :
          wpc[v] \in WorkerInside => value'[job[v].slot] = value[job[v].slot]
    BY <1>1, <1>5 DEF TypeOK
  <2>3. \A j \in Slots :
         /\ state[j] = "empty" => value'[j] \notin Rpcs
         /\ state[j] = "occupied" =>
              \/ value'[j] \in Rpcs
              \/ \E r \in Rpcs : cpc[r] \in CallerBuilds /\ Index(r) = j
              \/ \E v \in Workers : wpc'[v] = "erase" /\ job[v].slot = j
    BY <1>4, <1>6 DEF SlotContents
  <2> QED
    BY <1>1, <1>2, <1>4, <1>6, <2>1, <2>2, <2>3
       DEF SlotContents, WorkerInside, CallerInside, CallerBuilds
<1>9. Holds'
  BY <1>1, <1>2, <1>4 DEF Holds
<1>10. Owned'
  <2>1. \A v \in Workers : wpc'[v] \in Holding \ {"reset"} =>
          value'[job[v].slot] # held[v]
    BY <1>4, <1>6 DEF Owned, Holds, TypeOK
  <2> QED
    BY <1>1, <1>2, <1>4, <1>6, <2>1, IndexType DEF Owned
<1>11. SizeExact'
  <2>1. Destroying' = Destroying \ {w} /\ w \in Destroying
    BY <1>1 DEF Destroying
  <2>2. OccupiedSlots' = OccupiedSlots /\ Counting' = Counting
    BY <1>1 DEF OccupiedSlots, Counting
  <2>3. Cardinality(Destroying') = Cardinality(Destroying) - 1
    BY <2>1, OneLess, SetsFinite
  <2> QED
    BY <1>1, <2>2, <2>3, SetsFinite DEF SizeExact, TypeOK
<1> QED
  BY <1>7, <1>8, <1>9, <1>10, <1>11

\* The handler is called and is gone.
LEMMA CallHandlerStep ==
    ASSUME TypeOK, Unraced, NEW w \in Workers, CallHandler(w)
    PROVE  Unraced'
<1> USE DEF Unraced
<1> DEFINE r == held[w]
<1>1. /\ UNCHANGED <<id, callSession, cpc, state, session, value, size, replaced>>
      /\ wpc[w] = "call" /\ wpc'[w] = "idle" /\ r \in Rpcs /\ held'[w] = Null
      /\ recv'[r] # "waiting"
      /\ \A q \in Rpcs \ {r} : recv'[q] = recv[q]
      /\ \A v \in Workers \ {w} :
           wpc'[v] = wpc[v] /\ job'[v] = job[v] /\ held'[v] = held[v]
  BY DEF TypeOK, CallHandler, identity, slotVars, history, Result
<1>2. \A q \in Rpcs : /\ Index(q)' = Index(q)
                      /\ Placed(q)' <=> Placed(q)
  BY <1>1, IdentityKept DEF Placed
<1>3. wpc[w] \notin WorkerInside /\ wpc[w] \in Holding \ {"reset"}
      /\ wpc'[w] \notin WorkerInside \cup Holding
  BY <1>1 DEF WorkerInside, Holding
<1>4. /\ \A i \in Slots : value[i] # r
      /\ \A v \in Workers \ {w} : wpc[v] \in Holding => held[v] # r
  <2>1. Index(r) = job[w].slot /\ value[job[w].slot] # r
    BY <1>3 DEF Holds, Owned
  <2>2. \A i \in Slots : value[i] = r => i = Index(r)
    BY <1>1 DEF SlotContents
  <2> QED
    BY <1>3, <2>1, <2>2 DEF Owned
<1>5. Exclusive'
  BY <1>1, <1>2, <1>3 DEF Exclusive
<1>6. SlotContents'
  <2>1. \A v \in Workers : wpc'[v] \in WorkerInside =>
          /\ v # w /\ wpc'[v] = wpc[v] /\ job'[v] = job[v] /\ held'[v] = held[v]
    BY <1>1, <1>3
  <2>2. \A v \in Workers : wpc[v] = "erase" => wpc'[v] = wpc[v] /\ job'[v] = job[v]
    BY <1>1
  <2> QED
    BY <1>1, <1>2, <2>1, <2>2 DEF SlotContents, WorkerInside
<1>7. Holds'
  BY <1>1, <1>2, <1>3 DEF Holds
<1>8. Owned'
  <2>1. \A q \in Rpcs : recv'[q] = "waiting" => q # r /\ recv[q] = "waiting"
    BY <1>1
  <2>2. \A v \in Workers : wpc'[v] \in Holding =>
          /\ v # w /\ wpc[v] \in Holding /\ wpc'[v] = wpc[v]
          /\ held'[v] = held[v] /\ job'[v] = job[v]
          /\ held[v] \in Rpcs /\ recv'[held[v]] = "waiting"
    BY <1>1, <1>3, <1>4 DEF Owned, Holds
  <2>3. \A i \in Slots : value[i] \in Rpcs => recv'[value[i]] = "waiting"
    BY <1>1, <1>4 DEF Owned
  <2>4. \A q \in Rpcs \ {r}, v \in Workers : wpc[v] \in Holding /\ held[v] = q =>
          wpc'[v] \in Holding /\ held'[v] = q
    BY <1>1
  <2> QED
    BY <1>1, <1>2, <2>1, <2>2, <2>3, <2>4 DEF Owned
<1>9. SizeExact'
  <2>1. Destroying' = Destroying
    BY <1>1 DEF Destroying
  <2> QED
    BY <1>1, <2>1 DEF SizeExact, OccupiedSlots, Counting
<1> QED
  BY <1>5, <1>6, <1>7, <1>8, <1>9

-----------------------------------------------------------------------------
(***************************************************************************)
(* The invariant is inductive.                                             *)
(***************************************************************************)

LEMMA InitInv == Init => IInv
<1> SUFFICES ASSUME Init
             PROVE  IInv
  OBVIOUS
<1>1. TypeOK /\ Scanning
  BY InitType
<1>3. Exclusive /\ Holds
  BY DEF Init, Exclusive, Holds, CallerInside, CallerBuilds, WorkerInside, Holding
<1>4. SlotContents
  <2>1. \A r \in Rpcs : Index(r) \in Slots
    BY <1>1, IndexType
  <2> QED
    BY <2>1, ValuesAssumption DEF Init, SlotContents, CallerInside, CallerBuilds
<1>5. Owned
  BY ValuesAssumption DEF Init, Owned, Holding
<1>6. SizeExact
  <2>1. OccupiedSlots = {} /\ Destroying = {} /\ Counting = {}
    BY DEF Init, OccupiedSlots, Destroying, Counting
  <2> QED
    BY <2>1, FS_EmptySet DEF Init, SizeExact
<1> QED
  BY <1>1, <1>3, <1>4, <1>5, <1>6 DEF IInv, Unraced

\* The history variable never comes back to FALSE.
LEMMA RacedStays == raced /\ [Next]_vars => raced'
<1> SUFFICES ASSUME raced, [Next]_vars
             PROVE  raced'
  OBVIOUS
<1> USE DEF callVars, slotVars, workVars, stopVars, identity, history
<1>1. ASSUME NEW r \in Rpcs, Caller(r)
      PROVE  raced'
  BY <1>1 DEF Caller, Emplace, StartReceive, EmplaceAcquire, EmplaceOccupied,
         EmplaceSame, EmplaceUpdate,
              EmplaceReject, EmplaceCheckSize, EmplaceSession, EmplaceValue,
              EmplaceCount, ArmTimer
<1>2. ASSUME NEW w \in Workers, Pop(w)
      PROVE  raced'
  BY <1>2 DEF Pop, PopFind, PopCheck, PopMove, PopReset, PopErase, PopDestroy, CallHandler,
              CallNothing
<1>3. ASSUME NEW r \in Rpcs,
             \/ \E s \in Sessions : InvokeRpc(r, s)
             \/ SendFinishes(r) \/ CancelCall(r) \/ SourceCompletes(r)
             \/ ReceiveResponse(r) \/ TimeoutExpires(r)
      PROVE  raced'
  BY <1>3 DEF InvokeRpc, SendFinishes, CancelCall, SourceCompletes, ReceiveResponse,
              TimeoutExpires
<1>4. CASE StopClient
  BY <1>4 DEF StopClient, RequestStop, ClientLoopEnds, ScanSlot, ScanEntry,
              DrainPending,
              DrainFinished
<1>5. CASE UNCHANGED vars
  BY <1>5 DEF vars
<1> QED
  BY <1>1, <1>2, <1>3, <1>4, <1>5 DEF Next

LEMMA CallerKeeps ==
    ASSUME TypeOK, Unraced, NEW r \in Rpcs, Caller(r), ~raced'
    PROVE  Unraced'
<1> USE DEF slotVars, workVars, identity, history
<1>1. CASE StartReceive(r)
  <2>1. /\ UNCHANGED <<id, callSession, state, session, value, size, wpc, job, held, replaced>>
        /\ \A q \in Rpcs \ {r} : cpc'[q] = cpc[q] /\ recv'[q] = recv[q]
        /\ cpc[r] = "start" /\ cpc'[r] \in {"arm", "cas"}
        /\ recv'[r] = recv[r] \/ recv'[r] # "waiting"
    BY <1>1 DEF TypeOK, StartReceive
  <2> QED
    BY <2>1, OutsideStep DEF CallerInside, CallerBuilds, Placed, PlacedPoints
<1>2. CASE EmplaceReject(r)
  <2>1. /\ UNCHANGED <<id, callSession, state, session, value, size, wpc, job, held, replaced>>
        /\ \A q \in Rpcs \ {r} : cpc'[q] = cpc[q] /\ recv'[q] = recv[q]
        /\ cpc[r] \in {"cas", "compare"} /\ cpc'[r] = "arm"
        /\ recv'[r] # "waiting"
    BY <1>2 DEF TypeOK, EmplaceReject, EmplaceGivesUp
  <2> QED
    BY <2>1, OutsideStep DEF CallerInside, CallerBuilds, Placed, PlacedPoints
<1>3. CASE ArmTimer(r)
  <2>1. /\ UNCHANGED <<id, callSession, state, session, value, size, wpc, job, held, replaced>>
        /\ \A q \in Rpcs \ {r} : cpc'[q] = cpc[q] /\ recv'[q] = recv[q]
        /\ cpc[r] = "arm" /\ cpc'[r] = "started"
        /\ recv'[r] = recv[r]
    BY <1>3 DEF TypeOK, ArmTimer
  <2>2. /\ cpc[r] \notin CallerInside \cup {"count"}
        /\ cpc'[r] \notin CallerInside \cup {"count"}
    BY <2>1 DEF CallerInside, CallerBuilds
  <2>3. Placed(r)'
    BY <2>1 DEF Placed, PlacedPoints
  <2> QED
    BY <2>1, <2>2, <2>3, OutsideStep
<1>4. CASE EmplaceOccupied(r)
  <2>1. /\ UNCHANGED <<id, callSession, state, session, value, size, wpc, job, held,
                      replaced>>
        /\ \A q \in Rpcs \ {r} : cpc'[q] = cpc[q] /\ recv'[q] = recv[q]
        /\ cpc[r] = "cas" /\ cpc'[r] = "compare"
        /\ recv'[r] = recv[r]
    BY <1>4 DEF TypeOK, EmplaceOccupied
  <2> QED
    BY <2>1, OutsideStep DEF CallerInside, CallerBuilds, Placed, PlacedPoints
<1> QED
  BY <1>1, <1>2, <1>3, <1>4, EmplaceAcquireStep, EmplaceSameStep, EmplaceUpdateStep,
     EmplaceCheckSizeStep,
     EmplaceSessionStep, EmplaceValueStep, EmplaceCountStep
     DEF Caller, Emplace

LEMMA PopKeeps ==
    ASSUME TypeOK, Unraced, NEW w \in Workers, Pop(w), ~raced'
    PROVE  Unraced'
<1>1. CASE CallNothing(w)
  BY <1>1 DEF CallNothing, Unraced, Holds, Holding
<1> QED
  BY <1>1, PopFindStep, PopCheckStep, PopMoveStep, PopResetStep, PopEraseStep, PopDestroyStep,
     CallHandlerStep DEF Pop

\* Every step keeps Unraced until two threads meet in a slot.
LEMMA NextUnraced ==
    ASSUME TypeOK, Unraced, [Next]_vars, ~raced'
    PROVE  Unraced'
<1> USE DEF callVars, slotVars, workVars, stopVars, identity, history
<1>1. ASSUME NEW r \in Rpcs, SendFinishes(r) \/ CancelCall(r) \/ SourceCompletes(r)
      PROVE  Unraced'
  <2>1. UNCHANGED core
    BY <1>1 DEF core, SendFinishes, CancelCall, SourceCompletes
  <2> QED
    BY <2>1, CoreKept
<1>2. ASSUME NEW w \in Workers, NEW i, NEW s, NEW why, Start(w, i, s, why),
             UNCHANGED <<id, callSession, cpc, recv, state, session, value, size, held, replaced>>
      PROVE  Unraced'
  <2>1. /\ \A v \in Workers \ {w} : wpc'[v] = wpc[v] /\ job'[v] = job[v]
        /\ wpc[w] = "idle" /\ wpc'[w] = "find"
    BY <1>2 DEF TypeOK, Start
  <2> QED
    BY <1>2, <2>1, WorkerOutsideStep
<1>3. ASSUME NEW r \in Rpcs, ReceiveResponse(r) \/ TimeoutExpires(r)
      PROVE  Unraced'
  <2>1. "client" \in Workers /\ "timer" \in Workers
    BY DEF Workers
  <2>2. CASE ReceiveResponse(r)
    BY <2>1, <2>2, <1>2 DEF ReceiveResponse
  <2>3. CASE TimeoutExpires(r)
    BY <2>1, <2>3, <1>2 DEF TimeoutExpires
  <2> QED
    BY <1>3, <2>2, <2>3
<1>4. CASE RequestStop \/ ClientLoopEnds \/ ScanSlot \/ ScanEntry \/ DrainFinished
  <2>1. UNCHANGED core
    BY <1>4 DEF core, RequestStop, ClientLoopEnds, ScanSlot, ScanEntry, DrainFinished
  <2> QED
    BY <2>1, CoreKept
<1>5. CASE DrainPending
  <2>1. "stop" \in Workers
    BY DEF Workers
  <2> QED
    BY <2>1, <1>5, <1>2 DEF DrainPending
<1>6. CASE UNCHANGED vars
  <2>1. UNCHANGED core
    BY <1>6 DEF core, vars
  <2> QED
    BY <2>1, CoreKept
<1> QED
  BY <1>1, <1>3, <1>4, <1>5, <1>6, InvokeRpcStep, CallerKeeps, PopKeeps
     DEF Next, StopClient

LEMMA NextInv == IInv /\ [Next]_vars => IInv'
BY NextType, NextUnraced, RacedStays DEF IInv

\* The invariant holds of every reachable state of the pending calls.
THEOREM PendingInvariant == Spec => []IInv
<1>1. Init => IInv
  BY InitInv
<1>2. IInv /\ [Next]_vars => IInv'
  BY NextInv
<1> QED
  BY <1>1, <1>2, PTL DEF Spec

-----------------------------------------------------------------------------
(***************************************************************************)
(* What the invariant says of the handlers and of size_.                   *)
(***************************************************************************)

\* A waiting handler is in its slot or in one worker's hands, others in none.
LEMMA WaitingHasOneOwner == IInv => OneOwner
<1> SUFFICES ASSUME TypeOK, Unraced, NEW r \in Rpcs
             PROVE  Owners(r) = AsInt(recv[r] = "waiting" /\ r \notin replaced)
  BY DEF IInv, OneOwner
<1> DEFINE H == {w \in Workers : /\ held[w] = r
                                 /\ wpc[w] \in {"erase", "destroy", "call"}}
<1>1. Index(r) \in Slots
  BY IndexType
<1>2. \A w \in H : /\ wpc[w] \in Holding \ {"reset"} /\ held[w] = r
                   /\ job[w].slot = Index(r) /\ value[Index(r)] # r
                   /\ recv[r] = "waiting" /\ r \notin replaced
  BY DEF Holding, Unraced, Holds, Owned
<1>3. value[Index(r)] = r => /\ state[Index(r)] = "occupied" /\ recv[r] = "waiting"
                             /\ r \notin replaced
  BY <1>1 DEF Unraced, SlotContents, Owned, TypeOK
<1>4. \A w, v \in H : w = v
  BY <1>2 DEF Unraced, Owned
<1>5. Owners(r) = AsInt(value[Index(r)] = r) + Cardinality(H)
  BY <1>3 DEF Owners
<1>6. CASE ~(recv[r] = "waiting" /\ r \notin replaced)
  <2>1. H = {} /\ value[Index(r)] # r
    BY <1>6, <1>2, <1>3
  <2> QED
    BY <1>5, <1>6, <2>1, FS_EmptySet DEF AsInt
<1>7. CASE value[Index(r)] = r
  <2>1. H = {} /\ recv[r] = "waiting" /\ r \notin replaced
    BY <1>7, <1>2, <1>3
  <2> QED
    BY <1>5, <1>7, <2>1, FS_EmptySet DEF AsInt
<1>8. CASE recv[r] = "waiting" /\ r \notin replaced /\ value[Index(r)] # r
  <2>1. PICK w \in Workers : wpc[w] \in Holding /\ held[w] = r
    BY <1>8 DEF Unraced, Owned
  <2>2. wpc[w] # "reset"
    BY <1>8, <2>1 DEF Unraced, SlotContents, Holds
  <2>3. w \in H
    BY <2>1, <2>2 DEF Holding
  <2>4. H = {w}
    BY <1>4, <2>3
  <2>5. Cardinality(H) = 1
    BY <2>4, FS_Singleton
  <2> QED
    BY <1>5, <1>8, <2>5 DEF AsInt
<1> QED
  BY <1>6, <1>7, <1>8

\* A response, a deadline and StopClient that follow each other in any order
\* (PopPendingRpcResponseHandler_) never lose a handler, call it twice or take
\* one of another session, also when later calls of a session use the slots of
\* earlier ones: for any number of calls and any size of the buffer, until two
\* threads meet in a slot.
THEOREM HandlersOwnedOnce == Spec => []HandlerOwned
<1>1. IInv => SessionKept
  BY DEF IInv, SessionKept, Unraced, Holds, Holding
<1>2. IInv => HandlerOwned
  BY <1>1, WaitingHasOneOwner DEF HandlerOwned, IInv
<1> QED
  BY <1>2, PendingInvariant, PTL

\* A free slot that nobody is erasing leaves size_ below the size.
LEMMA FullMeansTaken ==
    ASSUME TypeOK, Unraced, size >= Size, NEW i \in Slots,
           state[i] # "occupied", WorkersInside(i) = {}
    PROVE  FALSE
<1> DEFINE Rest == Slots \ (OccupiedSlots \cup {i})
           slot == [w \in Destroying |-> job[w].slot]
<1>1. IsFiniteSet(Slots) /\ Cardinality(Slots) = Size
  <2>1. 0 \in Int /\ Size - 1 \in Int /\ ~(0 > Size - 1) /\ (Size - 1) - 0 + 1 = Size
    BY SizeAssumption
  <2> QED
    BY <2>1, FS_Interval DEF Slots
<1>2. OccupiedSlots \subseteq Slots /\ i \notin OccupiedSlots
  BY DEF OccupiedSlots
<1>3. slot \in Injection(Destroying, Rest)
  <2>1. ASSUME NEW w \in Destroying
        PROVE  job[w].slot \in Rest
    <3>1. w \in Workers /\ wpc[w] = "destroy" /\ job[w].slot \in Slots
      BY <2>1 DEF Destroying, TypeOK
    <3>2. state[job[w].slot] = "empty"
      BY <3>1 DEF Unraced, SlotContents
    <3>3. job[w].slot # i
      BY <3>1 DEF WorkersInside
    <3> QED
      BY <3>1, <3>2, <3>3 DEF OccupiedSlots
  <2>2. \A w, v \in Destroying : job[w].slot = job[v].slot => w = v
    BY DEF Unraced, Exclusive, Destroying, WorkerInside
  <2>3. slot \in [Destroying -> Rest] /\ IsInjective(slot)
    BY <2>1, <2>2 DEF IsInjective
  <2> QED
    BY <2>3 DEF Injection
<1>4. IsFiniteSet(Rest)
  BY <1>1, FS_Difference
<1>5. Cardinality(Destroying) <= Cardinality(Rest)
  <2> HIDE DEF slot, Rest
  <2> QED
    BY <1>3, <1>4, FS_Injection
<1>6. /\ IsFiniteSet(OccupiedSlots \cup {i})
      /\ Cardinality(OccupiedSlots \cup {i}) = Cardinality(OccupiedSlots) + 1
  BY <1>2, SetsFinite, FS_AddElement
<1>7. Cardinality(Rest) = Size - (Cardinality(OccupiedSlots) + 1)
  <2>1. Slots \cap (OccupiedSlots \cup {i}) = OccupiedSlots \cup {i}
    BY <1>2
  <2> QED
    BY <1>1, <1>6, <2>1, FS_Difference
<1>8. size = Cardinality(OccupiedSlots) + Cardinality(Destroying)
               - Cardinality(Counting)
  BY DEF Unraced, SizeExact
<1> HIDE DEF Rest
<1> QED
  BY <1>5, <1>7, <1>8, SetsFinite, SizeAssumption

\* size_ (RingBuffer) never drifts from the slots' states, and reports a full
\* buffer only when every slot is occupied or being erased.
THEOREM SizeNeverDrifts == Spec => []SizeFollowsSlots
<1>1. ASSUME IInv
      PROVE  SizeFollowsSlots
  <2> SUFFICES ASSUME ~raced
               PROVE  /\ SizeExact
                      /\ size >= Size => \A i \in Slots :
                           state[i] = "occupied" \/ WorkersInside(i) # {}
    BY DEF SizeFollowsSlots, SizeExact, OccupiedSlots, Destroying, Counting
  <2> QED
    BY <1>1, FullMeansTaken DEF IInv, Unraced
<1> QED
  BY <1>1, PendingInvariant, PTL
=============================================================================
