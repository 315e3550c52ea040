---------------------------- MODULE PartsProofs ----------------------------
(***************************************************************************)
(* Theorems about the parts of MCParts: the worker's clock, the listener,  *)
(* the answers to the client, the remote workers, the dispatcher, the file *)
(* streams, the memory of messages, the queue of one thread and the saved  *)
(* requests.  Each is for every value of the constants.                    *)
(***************************************************************************)
EXTENDS PartsInvariants, FiniteSetTheorems, SequenceTheorems, WellFoundedInduction, TLAPS

-----------------------------------------------------------------------------
(***************************************************************************)
(* The clock's operators.                                                  *)
(***************************************************************************)

\* A value below the modulus is its own remainder.
LEMMA RemainderOfSmall ==
    ASSUME NEW n \in Nat \ {0}, NEW a \in 0 .. n - 1
    PROVE  a % n = a
  BY SMT

\* A remainder is below the modulus.
LEMMA RemainderRange ==
    ASSUME NEW n \in Nat \ {0}, NEW a \in Nat
    PROVE  a % n \in 0 .. n - 1
  BY SMT

\* BumpLogical stays inside the counter's width.
LEMMA BumpLogicalRange ==
    ASSUME NEW l \in -1 .. LogicalRange - 1
    PROVE  BumpLogical(l) \in 0 .. LogicalRange - 1
  BY LogicalRangeAssumption, RemainderRange, l + 1 \in Nat DEF BumpLogical

\* Below its last value the counter goes up by one.
LEMMA BumpLogicalIncrements ==
    ASSUME NEW l \in -1 .. LogicalRange - 1, l # LogicalRange - 1
    PROVE  BumpLogical(l) = l + 1
  <1>1. l + 1 \in 0 .. LogicalRange - 1
    BY LogicalRangeAssumption
  <1> QED
    BY <1>1, LogicalRangeAssumption, RemainderOfSmall DEF BumpLogical

\* operator< on the packed values is the order of Before: the counter never
\* spills into the physical part.
LEMMA RawOrder ==
    ASSUME NEW c \in Clocks, NEW d \in Clocks
    PROVE  Before(c, d) <=> Raw(c) < Raw(d)
  <1> DEFINE p == c.physical  u == d.physical  k == c.logical  l == d.logical
  <1>1. /\ p \in Nat /\ u \in Nat
        /\ k \in 0 .. LogicalRange - 1 /\ l \in 0 .. LogicalRange - 1
        /\ LogicalRange \in Nat \ {0}
    BY LogicalRangeAssumption, MaxTimeAssumption DEF Clocks, Times
  <1> HIDE DEF p, u, k, l
  <1>2. ASSUME NEW x \in Nat, NEW y \in Nat, x < y
        PROVE  x * LogicalRange + LogicalRange <= y * LogicalRange
    <2>1. PICK z \in Nat : y = x + 1 + z
      BY <1>2, y - x - 1 \in Nat, y = x + 1 + (y - x - 1)
    <2>2. y * LogicalRange = x * LogicalRange + LogicalRange + z * LogicalRange
      BY <2>1, <1>1, SMT
    <2>3. z * LogicalRange \in Nat /\ x * LogicalRange \in Nat
      BY <1>1, <2>1, SMT
    <2> QED
      BY <2>2, <2>3, <1>1
  <1>3. p * LogicalRange \in Nat /\ u * LogicalRange \in Nat
    BY <1>1, SMT
  <1>4. CASE p < u
    BY <1>1, <1>2, <1>3, <1>4 DEF Before, Raw, p, u, k, l
  <1>5. CASE u < p
    BY <1>1, <1>2, <1>3, <1>5 DEF Before, Raw, p, u, k, l
  <1>6. CASE p = u
    BY <1>1, <1>3, <1>6 DEF Before, Raw, p, u, k, l
  <1> QED
    BY <1>1, <1>4, <1>5, <1>6

\* What a clock is made of.
LEMMA ClockParts ==
    ASSUME NEW c \in Clocks
    PROVE  /\ c.physical \in 0 .. MaxTime
           /\ c.logical \in 0 .. LogicalRange - 1
           /\ c # NoClock
  BY MaxTimeAssumption DEF Clocks, Times, NoClock

\* Before is transitive.
LEMMA BeforeTransitive ==
    ASSUME NEW b \in Clocks, NEW c \in Clocks, NEW d \in Clocks,
           Before(b, c), Before(c, d)
    PROVE  Before(b, d)
  BY ClockParts, MaxTimeAssumption, LogicalRangeAssumption DEF Before

\* The base that Merge goes on from is a counter, or -1.
LEMMA LogicalBaseRange ==
    ASSUME NEW c \in Clocks, NEW d \in Clocks, NEW top \in Times
    PROVE  LogicalBase(c, d, top) \in -1 .. LogicalRange - 1
  BY ClockParts, LogicalRangeAssumption DEF LogicalBase, Larger

\* Merge returns a clock.
LEMMA MergeType ==
    ASSUME NEW c \in Clocks, NEW d \in Clocks, NEW t \in Times
    PROVE  Merge(c, d, t) \in Clocks
  <1> DEFINE top == Larger(t, Larger(c.physical, d.physical))
  <1>1. top \in Times
    BY ClockParts, MaxTimeAssumption DEF Larger, Times
  <1>2. BumpLogical(LogicalBase(c, d, top)) \in 0 .. LogicalRange - 1
    BY <1>1, LogicalBaseRange, BumpLogicalRange
  <1> HIDE DEF top
  <1>3. [physical |-> top, logical |-> BumpLogical(LogicalBase(c, d, top))]
          \in Clocks
    BY <1>1, <1>2 DEF Clocks
  <1>4. Now(t) \in Clocks
    BY LogicalRangeAssumption DEF Now, Clocks
  <1> QED
    BY <1>3, <1>4 DEF Merge, top

\* Merge returns a clock after both of its arguments, unless the counter it
\* goes on from is at its last value.
LEMMA MergeIsLater ==
    ASSUME NEW c \in Clocks, NEW d \in Clocks, NEW t \in Times,
           ~MergeWraps(c, d, t)
    PROVE  Before(c, Merge(c, d, t)) /\ Before(d, Merge(c, d, t))
  <1> DEFINE top == Larger(t, Larger(c.physical, d.physical))
             base == LogicalBase(c, d, top)
  <1>1. CASE WallClockAhead(c, d, t)
    BY <1>1 DEF WallClockAhead, Merge, Now, Before
  <1>2. CASE ~WallClockAhead(c, d, t)
    <2>1. top \in Times /\ top \in Nat
      BY ClockParts, MaxTimeAssumption DEF Larger, Times
    <2>2. base \in -1 .. LogicalRange - 1 /\ base # LogicalRange - 1
      BY <2>1, LogicalBaseRange DEF MergeWraps
    <2>3. BumpLogical(base) = base + 1
      BY <2>2, BumpLogicalIncrements
    <2>4. Merge(c, d, t) = [physical |-> top, logical |-> base + 1]
      BY <1>2, <2>3 DEF Merge
    <2>5. c.physical <= top /\ d.physical <= top
      BY ClockParts, MaxTimeAssumption DEF Larger, Times
    <2>6. /\ c.physical = top => c.logical <= base
          /\ d.physical = top => d.logical <= base
      BY <2>1, ClockParts, LogicalRangeAssumption DEF LogicalBase, Larger
    <2>7. /\ c.physical < top \/ c.physical = top
          /\ d.physical < top \/ d.physical = top
      BY <2>1, <2>5, ClockParts
    <2>8. /\ c.physical = top => c.logical < base + 1
          /\ d.physical = top => d.logical < base + 1
      BY <2>2, <2>6, ClockParts, LogicalRangeAssumption
    <2> HIDE DEF top, base
    <2> QED
      BY <2>4, <2>7, <2>8 DEF Before
  <1> QED
    BY <1>1, <1>2

-----------------------------------------------------------------------------
(***************************************************************************)
(* The clock's invariant, Inv, is kept.                                    *)
(***************************************************************************)

\* A load starts the only update there is, with a value that is later.
LEMMA LoadKeeps ==
    ASSUME Inv, NEW m \in Messages, ~Updating(m),
           NEW c \in Clocks, NEW t \in Times, Load(m, c, t), Ordered'
    PROVE  /\ Ordered
           /\ \A o \in Messages : ~Updating(o)
           /\ next'[m] \in Clocks
           /\ Before(hlc, next'[m]) /\ Before(c, next'[m])
  <1>1. Ordered /\ (\A o \in Messages : ~Updating(o)) /\ ~MergeWraps(hlc, c, t)
    BY Zenon DEF Load, Ordered
  <1>2. next'[m] = Merge(hlc, c, t)
    BY DEF Load, Inv, TypeOK
  <1>3. hlc \in Clocks
    BY DEF Inv, TypeOK
  <1> QED
    BY <1>1, <1>2, <1>3, MergeType, MergeIsLater

\* The first conjuncts of Inv survive a load.
LEMMA LoadType ==
    ASSUME Inv, NEW m \in Messages, NEW c \in Clocks, NEW t \in Times,
           Load(m, c, t)
    PROVE  /\ next' \in [Messages -> Clocks \cup {NoClock}]
           /\ next'[m] \in Clocks
           /\ \A o \in Messages \ {m} : next'[o] = next[o]
           /\ wrapped' \in BOOLEAN /\ raced' \in BOOLEAN
  <1>1. hlc \in Clocks /\ next \in [Messages -> Clocks \cup {NoClock}]
    BY DEF Inv, TypeOK
  <1>2. Merge(hlc, c, t) \in Clocks
    BY <1>1, MergeType
  <1>3. next' = [next EXCEPT ![m] = Merge(hlc, c, t)]
    BY DEF Load
  <1>4. wrapped' \in BOOLEAN /\ raced' \in BOOLEAN
    BY Zenon DEF Load, Inv, TypeOK
  <1> QED
    BY <1>1, <1>2, <1>3, <1>4

LEMMA InitInv == Init => Inv
  <1> SUFFICES ASSUME Init PROVE Inv
    OBVIOUS
  <1>1. hlc \in Clocks
    BY LogicalRangeAssumption DEF Init, Now, Clocks
  <1>2. TypeOK
    BY <1>1 DEF Init, TypeOK, Points
  <1>3. Pending /\ Headers /\ Finished /\ Causal
    BY DEF Init, Pending, Headers, Finished, Causal, OneUpdate, NextIsLater, Seen,
           Replied, Updating, Messages
  <1> QED
    BY <1>2, <1>3 DEF Inv

LEMMA ReceiveHeaderInv ==
    ASSUME Inv, NEW m \in Messages, ReceiveHeader(m)
    PROVE  Inv'
  <1>1. PICK c \in Clocks, t \in Times :
          received' = [received EXCEPT ![m] = c] /\ Load(m, c, t)
    BY DEF ReceiveHeader
  <1>2. /\ pc[m] = "new" /\ pc' = [pc EXCEPT ![m] = "merge"]
        /\ hlc' = hlc /\ reply' = reply
    BY DEF ReceiveHeader
  <1>3. /\ TypeOK /\ Pending /\ Headers /\ Finished /\ ~Updating(m)
    BY <1>2 DEF Inv, Updating
  <1>4. /\ pc' \in [Messages -> Points]
        /\ received' \in [Messages -> Clocks \cup {NoClock}]
    BY <1>1, <1>2, <1>3 DEF TypeOK, Points
  <1>5. TypeOK'
    BY <1>2, <1>3, <1>4, <1>1, LoadType DEF TypeOK
  <1>6. /\ pc'[m] = "merge" /\ received'[m] = c
        /\ \A o \in Messages \ {m} : pc'[o] = pc[o] /\ received'[o] = received[o]
    BY <1>1, <1>2, <1>3 DEF TypeOK
  <1>7. Pending' /\ Headers'
    BY <1>1, <1>3, <1>6, LoadType DEF Pending, Headers, Updating
  <1>9. Finished'
    BY <1>2, <1>3, <1>6 DEF Finished, Messages
  <1>8. ASSUME Ordered' PROVE Causal'
    <2>1. /\ Ordered /\ Causal
          /\ \A o \in Messages : ~Updating(o)
          /\ Before(hlc, next'[m]) /\ Before(c, next'[m])
      BY <1>1, <1>3, <1>8, LoadKeeps DEF Inv
    <2>2. OneUpdate'
      BY <1>6, <2>1 DEF OneUpdate, Updating
    <2>3. NextIsLater'
      BY <1>2, <1>6, <2>1 DEF NextIsLater, Updating
    <2>4. Seen'
      BY <1>2, <1>6, <2>1 DEF Causal, Seen
    <2>5. Replied'
      <3> SUFFICES ASSUME NEW r \in Requests,
                          reply'[r] # NoClock, received'[r] # NoClock
                   PROVE  Before(received'[r], reply'[r])
        BY DEF Replied
      <3>1. r \in Messages
        BY DEF Messages
      <3>2. CASE r # m
        BY <3>1, <3>2, <1>2, <1>6, <2>1 DEF Causal, Replied
      <3>3. CASE r = m
        BY <3>3, <1>2, <1>3 DEF Finished
      <3> QED
        BY <3>2, <3>3
    <2> QED
      BY <2>2, <2>3, <2>4, <2>5 DEF Causal
  <1> QED
    BY <1>5, <1>7, <1>8, <1>9 DEF Inv

\* A store moves hlc_ forward, so that nothing seen before comes after it.
LEMMA StoreKeeps ==
    ASSUME Inv, NEW m \in Messages, Updating(m), Store(m), Ordered,
           received' = received, reply' = reply, next' = next,
           pc' \in [Messages -> Points], ~Updating(m)',
           \A o \in Messages \ {m} : pc'[o] = pc[o]
    PROVE  Causal'
  <1>1. /\ TypeOK /\ Pending /\ Causal
    BY DEF Inv
  <1>2. hlc' \in Clocks /\ hlc \in Clocks /\ Before(hlc, hlc')
    BY <1>1 DEF Store, Pending, Causal, NextIsLater, TypeOK
  <1>3. \A o \in Messages : ~Updating(o)'
    BY <1>1 DEF Causal, OneUpdate, Updating
  <1>4. OneUpdate' /\ NextIsLater'
    BY <1>3 DEF OneUpdate, NextIsLater, Updating
  <1>5. Seen'
    <2> SUFFICES ASSUME NEW o \in Messages, received[o] # NoClock,
                        pc'[o] # "merge"
                 PROVE  Before(received[o], hlc')
      BY DEF Seen
    <2>1. received[o] \in Clocks
      BY <1>1 DEF TypeOK
    <2>2. CASE pc[o] = "merge"
      <3>1. o = m
        BY <2>2, <1>1 DEF Causal, OneUpdate, Updating
      <3> QED
        BY <2>2, <3>1, <1>1 DEF Causal, NextIsLater, Store
    <2>3. CASE pc[o] # "merge"
      <3>1. Before(received[o], hlc)
        BY <2>3, <1>1 DEF Causal, Seen
      <3> QED
        BY <3>1, <2>1, <1>2, BeforeTransitive
    <2> QED
      BY <2>2, <2>3
  <1>6. Replied'
    BY <1>1 DEF Causal, Replied
  <1> QED
    BY <1>4, <1>5, <1>6 DEF Causal

LEMMA MergeStoresInv ==
    ASSUME Inv, NEW m \in Messages, MergeStores(m)
    PROVE  Inv'
  <1>1. /\ pc[m] = "merge" /\ Store(m) /\ Updating(m)
        /\ received' = received /\ next' = next /\ reply' = reply
        /\ wrapped' = wrapped /\ raced' = raced
    BY DEF MergeStores, Updating
  <1>2. /\ TypeOK /\ Pending /\ Headers /\ Finished
    BY DEF Inv
  <1>3. /\ pc' \in [Messages -> Points] /\ pc'[m] \in {"handling", "done"}
        /\ \A o \in Messages \ {m} : pc'[o] = pc[o]
    BY <1>2 DEF MergeStores, TypeOK, Points
  <1>4. hlc' \in Clocks
    BY <1>1, <1>2 DEF Store, Pending
  <1>5. TypeOK'
    BY <1>1, <1>2, <1>3, <1>4 DEF TypeOK
  <1>6. Pending' /\ Headers' /\ Finished'
    BY <1>1, <1>2, <1>3 DEF Pending, Headers, Finished, Updating, Messages
  <1>7. ASSUME Ordered' PROVE Causal'
    BY <1>1, <1>3, <1>7, StoreKeeps DEF Ordered, Updating
  <1> QED
    BY <1>5, <1>6, <1>7 DEF Inv

LEMMA TickStoresInv ==
    ASSUME Inv, NEW r \in Requests, TickStores(r)
    PROVE  Inv'
  <1>0. r \in Messages
    BY DEF Messages
  <1>1. /\ pc[r] = "tick" /\ Store(r) /\ Updating(r)
        /\ received' = received /\ next' = next /\ reply' = reply
        /\ wrapped' = wrapped /\ raced' = raced
    BY DEF TickStores, Updating
  <1>2. /\ TypeOK /\ Pending /\ Headers /\ Finished
    BY DEF Inv
  <1>3. /\ pc' \in [Messages -> Points] /\ pc'[r] = "copy"
        /\ \A o \in Messages \ {r} : pc'[o] = pc[o]
    BY <1>0, <1>2 DEF TickStores, TypeOK, Points
  <1>4. hlc' \in Clocks
    BY <1>0, <1>1, <1>2 DEF Store, Pending
  <1>5. TypeOK'
    BY <1>1, <1>2, <1>3, <1>4 DEF TypeOK
  <1>6. Pending' /\ Headers' /\ Finished'
    BY <1>1, <1>2, <1>3 DEF Pending, Headers, Finished, Updating, Messages
  <1>7. ASSUME Ordered' PROVE Causal'
    BY <1>0, <1>1, <1>3, <1>7, StoreKeeps DEF Ordered, Updating
  <1> QED
    BY <1>5, <1>6, <1>7 DEF Inv

LEMMA RequestFailsInv ==
    ASSUME Inv, NEW r \in Requests, RequestFails(r)
    PROVE  Inv'
  <1>0. r \in Messages /\ hlc \in Clocks
    BY DEF Messages, Inv, TypeOK
  <1>1. PICK t \in Times : Load(r, hlc, t)
    BY DEF RequestFails
  <1>2. /\ pc[r] \in {"new", "handling"} /\ pc' = [pc EXCEPT ![r] = "tick"]
        /\ hlc' = hlc /\ reply' = reply /\ received' = received
    BY DEF RequestFails
  <1>3. /\ TypeOK /\ Pending /\ Headers /\ Finished /\ ~Updating(r)
    BY <1>2 DEF Inv, Updating
  <1>4. /\ pc' \in [Messages -> Points] /\ pc'[r] = "tick"
        /\ \A o \in Messages \ {r} : pc'[o] = pc[o]
    BY <1>0, <1>2, <1>3 DEF TypeOK, Points
  <1>5. TypeOK'
    BY <1>0, <1>1, <1>2, <1>3, <1>4, LoadType DEF TypeOK
  <1>6. Pending' /\ Headers' /\ Finished'
    BY <1>0, <1>1, <1>2, <1>3, <1>4, LoadType
       DEF Pending, Headers, Finished, Updating, Messages
  <1>7. ASSUME Ordered' PROVE Causal'
    <2>1. /\ Ordered /\ Causal
          /\ \A o \in Messages : ~Updating(o)
          /\ Before(hlc, next'[r])
      BY <1>0, <1>1, <1>3, <1>7, LoadKeeps DEF Inv
    <2>2. OneUpdate' /\ NextIsLater'
      BY <1>2, <1>4, <2>1 DEF OneUpdate, NextIsLater, Updating
    <2>3. Seen' /\ Replied'
      BY <1>2, <1>4, <2>1 DEF Causal, Seen, Replied
    <2> QED
      BY <2>2, <2>3 DEF Causal
  <1> QED
    BY <1>5, <1>6, <1>7 DEF Inv

LEMMA RequestSucceedsInv ==
    ASSUME Inv, NEW r \in Requests, RequestSucceeds(r)
    PROVE  Inv'
  <1>1. /\ pc[r] = "handling" /\ hlc' = hlc
        /\ received' = received /\ next' = next /\ reply' = reply
        /\ wrapped' = wrapped /\ raced' = raced
    BY DEF RequestSucceeds
  <1>2. /\ TypeOK /\ Pending /\ Headers /\ Finished /\ r \in Messages
    BY DEF Inv, Messages
  <1>3. /\ pc' \in [Messages -> Points] /\ pc'[r] = "done"
        /\ \A o \in Messages \ {r} : pc'[o] = pc[o]
    BY <1>2 DEF RequestSucceeds, TypeOK, Points
  <1>4. TypeOK'
    BY <1>1, <1>2, <1>3 DEF TypeOK
  <1>5. Pending' /\ Headers' /\ Finished'
    BY <1>1, <1>2, <1>3 DEF Pending, Headers, Finished, Updating, Messages
  <1>6. ASSUME Ordered' PROVE Causal'
    <2>1. Causal
      BY <1>1, <1>6 DEF Inv, Ordered
    <2> QED
      BY <1>1, <1>3, <2>1
         DEF Causal, OneUpdate, NextIsLater, Seen, Replied, Updating
  <1> QED
    BY <1>4, <1>5, <1>6 DEF Inv

LEMMA SendErrorResponseInv ==
    ASSUME Inv, NEW r \in Requests, SendErrorResponse(r)
    PROVE  Inv'
  <1>1. /\ pc[r] = "copy" /\ hlc' = hlc
        /\ received' = received /\ next' = next
        /\ reply' = [reply EXCEPT ![r] = hlc]
        /\ wrapped' = wrapped /\ raced' = raced
    BY DEF SendErrorResponse
  <1>2. /\ TypeOK /\ Pending /\ Headers /\ Finished /\ r \in Messages
    BY DEF Inv, Messages
  <1>3. /\ pc' \in [Messages -> Points] /\ pc'[r] = "done"
        /\ \A o \in Messages \ {r} : pc'[o] = pc[o]
    BY <1>2 DEF SendErrorResponse, TypeOK, Points
  <1>4. /\ reply' \in [Requests -> Clocks \cup {NoClock}] /\ reply'[r] = hlc
        /\ \A o \in Requests \ {r} : reply'[o] = reply[o]
    BY <1>1, <1>2 DEF TypeOK
  <1>5. TypeOK'
    BY <1>1, <1>2, <1>3, <1>4 DEF TypeOK
  <1>6. Pending' /\ Headers' /\ Finished'
    BY <1>1, <1>2, <1>3, <1>4 DEF Pending, Headers, Finished, Updating, Messages
  <1>7. ASSUME Ordered' PROVE Causal'
    <2>1. Causal
      BY <1>1, <1>7 DEF Inv, Ordered
    <2>2. OneUpdate' /\ NextIsLater' /\ Seen'
      BY <1>1, <1>3, <2>1
         DEF Causal, OneUpdate, NextIsLater, Seen, Updating
    <2>3. Replied'
      BY <1>1, <1>2, <1>4, <2>1 DEF Causal, Seen, Replied
    <2> QED
      BY <2>2, <2>3 DEF Causal
  <1> QED
    BY <1>5, <1>6, <1>7 DEF Inv

LEMMA StutterInv == Inv /\ UNCHANGED vars => Inv'
  BY DEF vars, Inv, TypeOK, Pending, Headers, Finished, Ordered, Causal,
         OneUpdate, NextIsLater, Seen, Replied, Updating

LEMMA NextInv == Inv /\ [Next]_vars => Inv'
  BY ReceiveHeaderInv, MergeStoresInv, RequestSucceedsInv, RequestFailsInv,
     TickStoresInv, SendErrorResponseInv, StutterInv DEF Next

-----------------------------------------------------------------------------

\* The inductive invariant behind the theorems below.
THEOREM ClockInvariant == Spec => []Inv
  BY InitInv, NextInv, PTL DEF Spec

\* hlc_ and every clock in a header or a response keep their types.
THEOREM ClockTypeCorrect == Spec => []TypeOK
  <1>1. Inv => TypeOK
    BY DEF Inv
  <1> QED
    BY <1>1, ClockInvariant, PTL

\* hlc_ stays after every clock it was merged with.
THEOREM SeenStaysPast == Spec => []SeenIsPast
  <1>1. Inv => SeenIsPast
    BY DEF Inv, Causal, Seen, SeenIsPast
  <1> QED
    BY <1>1, ClockInvariant, PTL

\* An error response carries a later clock than its request.
THEOREM ReplyIsAfterRequest == Spec => []ReplyAfterRequest
  <1>1. Inv => ReplyAfterRequest
    BY DEF Inv, Causal, Replied, ReplyAfterRequest
  <1> QED
    BY <1>1, ClockInvariant, PTL

\* hlc_ never goes back.
THEOREM ClockNeverGoesBack == Spec => ClockAdvances
  <1> DEFINE Advance == Ordered' => hlc' = hlc \/ Before(hlc, hlc')
  <1>1. ASSUME Inv, [Next]_vars PROVE [Advance]_hlc
    <2> SUFFICES ASSUME hlc' # hlc, Ordered' PROVE Before(hlc, hlc')
      OBVIOUS
    <2>1. PICK m \in Messages : Updating(m) /\ Store(m)
                                /\ wrapped' = wrapped /\ raced' = raced
      <3>1. CASE \E m \in Messages : MergeStores(m)
        BY <3>1 DEF MergeStores, Updating
      <3>2. CASE \E r \in Requests : TickStores(r)
        BY <3>2 DEF TickStores, Updating, Messages
      <3> QED
        BY <1>1, <3>1, <3>2 DEF Next, vars, ReceiveHeader, RequestSucceeds,
           RequestFails, SendErrorResponse
    <2>2. Causal
      BY <1>1, <2>1 DEF Inv, Ordered
    <2> QED
      BY <2>1, <2>2 DEF Causal, NextIsLater, Store
  <1> QED
    BY <1>1, ClockInvariant, PTL DEF Spec, ClockAdvances

LEMMA ListenerMoves ==
    [PartsNext]_partsVars => [LS!LsNext]_listenerVars
BY DEF PartsNext, partsVars, Rest, listenerVars

LEMMA ListenerInit == PartsInit => ListenerInv
BY DEF PartsInit, LS!LsInit, ListenerInv

LEMMA ListenerNext ==
    ASSUME ListenerInv, [LS!LsNext]_listenerVars
    PROVE  ListenerInv'
<1>1. ASSUME NEW ok \in BOOLEAN, LS!Next(ok)
      PROVE  ListenerInv'
  BY <1>1 DEF ListenerInv, LS!Next, LS!Listen
<1>2. CASE LS!StartAccept
  <2>1. CASE requests = <<>>
    BY <1>2, <2>1 DEF ListenerInv, LS!StartAccept
  <2>2. CASE requests # <<>>
    <3>1. /\ requests' = <<>> /\ accepting' = "none" /\ UNCHANGED <<listener, stream>>
          /\ accepting = "started"
          /\ settled' = [r \in DOMAIN settled |->
                          IF \E i \in DOMAIN requests : requests[i] = r
                          THEN "accepted" ELSE settled[r]]
      BY <1>2, <2>2 DEF LS!StartAccept, LS!Settle
    <3>2. DOMAIN settled' = 1 .. MaxRequests /\ requests' \in Seq(1 .. MaxRequests)
      BY <3>1 DEF ListenerInv
    <3>3. \A r \in DOMAIN settled' : settled'[r] # "queued"
      BY <3>1 DEF ListenerInv
    <3> QED
      BY <3>1, <3>2, <3>3 DEF ListenerInv
  <2> QED
    BY <2>1, <2>2
<1>3. ASSUME NEW r \in 1 .. MaxRequests, LS!ConnectRequest(r)
      PROVE  ListenerInv'
  <2>1. /\ listener = "open" /\ requests' = Append(requests, r)
        /\ settled' = [settled EXCEPT ![r] = "queued"]
        /\ accepting' = (IF accepting = "parked" THEN "started" ELSE accepting)
        /\ UNCHANGED <<listener, stream>>
    BY <1>3 DEF LS!ConnectRequest
  <2>2. /\ requests' \in Seq(1 .. MaxRequests) /\ DOMAIN settled' = 1 .. MaxRequests
        /\ \A i \in DOMAIN requests : i \in DOMAIN requests' /\ requests'[i] = requests[i]
        /\ \E i \in DOMAIN requests' : requests'[i] = r
        /\ \A s \in DOMAIN settled : s # r => settled'[s] = settled[s]
    BY <1>3, <2>1 DEF ListenerInv
  <2> QED
    BY <2>1, <2>2 DEF ListenerInv
<1>4. CASE LS!StopAccept
  BY <1>4 DEF ListenerInv, LS!StopAccept
<1>5. CASE LS!Cleanup
  BY <1>5 DEF ListenerInv, LS!Cleanup, LS!Settle
<1>6. CASE LS!DestroyListener
  BY <1>6 DEF ListenerInv, LS!DestroyListener
<1>7. CASE UNCHANGED listenerVars
  BY <1>7 DEF ListenerInv, listenerVars
<1> QED
  BY <1>1, <1>2, <1>3, <1>4, <1>5, <1>6, <1>7 DEF LS!LsNext

\* While a next() waits the listener is open and no request is queued; every
\* connection request is queued, given out or rejected, and none is left once
\* the stream is cleaned up (next, cleanup, connect_request_callback).
THEOREM RequestsAreAnswered == PartsSpec => []RequestsAnswered
<1>1. ListenerInv => RequestsAnswered
  BY DEF ListenerInv, RequestsAnswered, LS!RequestsAnswered
<1> QED
  BY <1>1, ListenerInit, ListenerNext, ListenerMoves, PTL DEF PartsSpec

LEMMA NatMin ==
    ASSUME NEW T \in SUBSET Nat, T # {}
    PROVE  \E x \in T : \A y \in T : x <= y
<1>1. PICK R : R = OpToRel(<, Nat)
  OBVIOUS
<1>2. IsWellFoundedOn(R, Nat)
  BY <1>1, NatLessThanWellFounded, Zenon
<1>3. \A x, y \in Nat : <<x, y>> \in R <=> x < y
  BY <1>1 DEF OpToRel
<1>4. PICK x \in T : \A y \in T : ~ (<<y, x>> \in R)
  BY <1>2, WFMin
<1>5. ASSUME NEW y \in T
      PROVE  x <= y
  <2>1. x \in Nat /\ y \in Nat
    OBVIOUS
  <2>2. ~ (y < x)
    BY <1>3, <1>4, <2>1
  <2> QED
    BY <2>1, <2>2
<1> QED
  BY <1>5

LEMMA TotalOne ==
    ASSUME NEW n \in Nat
    PROVE  CR!Total(<<n>>) = n
<1> DEFINE P == <<n>>
           F(g) == [k \in 0 .. Len(P) |-> IF k = 0 THEN 0 ELSE g[k - 1] + P[k]]
           s == CHOOSE g : g = F(g)
           h == [k \in 0 .. 1 |-> IF k = 0 THEN 0 ELSE n]
<1>1. Len(P) = 1 /\ P[1] = n
  OBVIOUS
<1>2. h = F(h)
  BY <1>1
<1>3. s = F(s)
  <2> HIDE DEF F, h
  <2> QED
    BY <1>2
<1>4. s[0] = 0 /\ s[1] = n
  <2> HIDE DEF s
  <2> QED
    BY <1>1, <1>3
<1> QED
  BY <1>1, <1>4 DEF CR!Total

LEMMA AnswersMove ==
    [PartsNext]_partsVars => [CR!CrNext]_answerVars
BY DEF PartsNext, partsVars, Rest, answerVars

LEMMA WholeIsExpected ==
    ASSUME NEW k \in Calls
    PROVE  Whole(call[k].wants, answer[k], result[k]) <=>
             \/ result[k] = CR!Expected(k)
             \/ call[k].wants = "any" /\ result[k] = answer[k].metas
<1> DEFINE w == call[k].wants
<1>1. CASE w = "none"
  <2>1. CR!Expected(k) = <<>>
    BY <1>1 DEF CR!Expected
  <2> QED
    BY <1>1, <2>1 DEF Whole
<1>2. CASE w = "vec" /\ answer[k].metas # <<>>
  <2>1. CR!Expected(k) = answer[k].metas
    BY <1>2 DEF CR!Expected
  <2> QED
    BY <1>2, <2>1 DEF Whole
<1>3. CASE w # "none" /\ ~(w = "vec" /\ answer[k].metas # <<>>)
  <2>1. CR!Expected(k) = <<answer[k].length>>
    BY <1>3 DEF CR!Expected
  <2> QED
    BY <1>3, <2>1 DEF Whole
<1> QED
  BY <1>1, <1>2, <1>3

LEMMA AnswerFields ==
    ASSUME NEW a \in CR!Answers
    PROVE  /\ a.form \in {"eager", "rndv"} /\ a.header \in {"ok", "garbage"}
           /\ a.status \in {"ok", "error"} /\ a.length \in Nat
           /\ a.form = "rndv" => a.length > 0
           /\ a # CR!NoAnswer
BY DEF CR!Answers, CR!NoAnswer

LEMMA EagerOutcome ==
    ASSUME NEW a \in CR!Answers, NEW w \in CR!Wants, a.form = "eager"
    PROVE  Outcome(w, a, CR!EagerResponse(w, a))
<1>1. CR!Total(<<a.length>>) = a.length /\ a.length \in Nat
  BY AnswerFields, TotalOne
<1>2. CASE w = "vec"
  <2>1. PICK sizes : sizes = IF a.metas = <<>> THEN <<a.length>> ELSE a.metas
    OBVIOUS
  <2>2. CR!EagerResponse(w, a) = CR!ToBufferVec(a.length, sizes)
    BY <1>2, <2>1 DEF CR!EagerResponse
  <2>3. CR!Honest(a) => CR!Total(sizes) = a.length /\ Whole(w, a, sizes)
    BY <1>1, <1>2, <2>1 DEF CR!Honest, Whole
  <2>4. CASE CR!Total(sizes) > a.length
    <3>1. CR!EagerResponse(w, a) = [st |-> "error", parts |-> <<>>, why |-> "sizes"]
      BY <2>2, <2>4 DEF CR!ToBufferVec, CR!Fail
    <3>2. ~CR!Honest(a)
      BY <1>1, <2>3, <2>4
    <3> QED
      BY <3>1, <3>2 DEF Outcome
  <2>5. CASE ~(CR!Total(sizes) > a.length)
    <3>1. CR!EagerResponse(w, a) = [st |-> "value", parts |-> sizes, why |-> "none"]
      BY <2>2, <2>5 DEF CR!ToBufferVec, CR!Value
    <3> QED
      BY <2>3, <3>1 DEF Outcome
  <2> QED
    BY <2>4, <2>5
<1>3. CASE w = "none"
  <2>1. CR!EagerResponse(w, a) = [st |-> "value", parts |-> <<>>, why |-> "none"]
    BY <1>3 DEF CR!EagerResponse, CR!Value
  <2> QED
    BY <1>3, <2>1 DEF Outcome, Whole
<1>4. CASE w \in {"buf", "any"}
  <2>1. CR!EagerResponse(w, a) = [st |-> "value", parts |-> <<a.length>>, why |-> "none"]
    BY <1>4 DEF CR!EagerResponse, CR!Value
  <2> QED
    BY <1>4, <2>1 DEF Outcome, Whole
<1> QED
  BY <1>2, <1>3, <1>4 DEF CR!Wants

LEMMA RndvOutcome ==
    ASSUME NEW a \in CR!Answers, NEW w \in CR!Wants, NEW p, a.form = "rndv"
    PROVE  Outcome(w, a, CR!RndvResponse(w, p, a))
<1>1. CR!Total(<<a.length>>) = a.length /\ a.length \in Nat /\ a.length > 0
  BY AnswerFields, TotalOne
<1>2. PICK m : m = CR!RndvMetas(a)
  OBVIOUS
<1>3. /\ m # <<>>
      /\ a.metas = <<>> => m = <<a.length>>
      /\ a.metas # <<>> => m = a.metas
  BY <1>1, <1>2 DEF CR!RndvMetas
<1>4. CASE w = "none"
  <2>1. CR!RndvResponse(w, p, a) = [st |-> "error", parts |-> <<>>, why |-> "monostate"]
    BY <1>2, <1>3, <1>4 DEF CR!RndvResponse, CR!Fail
  <2> QED
    BY <2>1 DEF Outcome
<1>5. CASE w # "none"
  <2>1. PICK kd \in {"buf", "vec"} :
          /\ CR!RndvResponse(w, p, a) = CR!ProcessRndvBuffer(kd, p, w, a)
          /\ w \in {"buf", "vec"} => kd = w
          /\ w = "any" => kd = IF Len(m) = 1 THEN "buf" ELSE "vec"
    BY <1>2, <1>3, <1>5 DEF CR!RndvResponse, CR!Wants
  <2>2. CASE p = "otherKind" /\ w = "any"
    <3>1. CR!RndvResponse(w, p, a) = [st |-> "error", parts |-> <<>>, why |-> "policy"]
      BY <2>1, <2>2 DEF CR!ProcessRndvBuffer, CR!Fail
    <3> QED
      BY <3>1 DEF Outcome
  <2>3. CASE ~(p = "otherKind" /\ w = "any")
    <3>1. PICK ps : ps = IF kd = "buf" THEN <<a.length>> ELSE m
      OBVIOUS
    <3>2. CR!RndvResponse(w, p, a) = [st |-> "receiving", parts |-> ps, why |-> "none"]
      BY <1>2, <2>1, <2>3, <3>1 DEF CR!ProcessRndvBuffer, CR!Receive
    <3>3. ps = <<a.length>> \/ (a.metas # <<>> /\ ps = a.metas)
      BY <1>3, <3>1
    <3>4. Whole(w, a, ps)
      <4>1. CASE w = "buf"
        BY <2>1, <3>1, <4>1 DEF Whole
      <4>2. CASE w = "vec"
        BY <1>3, <2>1, <3>1, <4>2 DEF Whole
      <4>3. CASE w = "any"
        BY <3>3, <4>3 DEF Whole
      <4> QED
        BY <1>5, <4>1, <4>2, <4>3 DEF CR!Wants
    <3>5. CR!Honest(a) => CR!Total(ps) = a.length
      BY <1>1, <3>3 DEF CR!Honest
    <3> QED
      BY <3>2, <3>4, <3>5 DEF Outcome
  <2> QED
    BY <2>2, <2>3
<1> QED
  BY <1>4, <1>5

LEMMA HandleOutcome ==
    ASSUME NEW k \in Calls, NEW a \in CR!Answers, call[k].wants \in CR!Wants
    PROVE  Outcome(call[k].wants, a, CR!HandleResponse(k, a))
<1>1. CASE a.status = "error"
  <2>1. CR!HandleResponse(k, a) = [st |-> "error", parts |-> <<>>, why |-> "status"]
    BY <1>1 DEF CR!HandleResponse, CR!Fail
  <2> QED
    BY <2>1 DEF Outcome
<1>2. CASE a.status # "error" /\ a.form = "eager"
  <2>1. CR!HandleResponse(k, a) = CR!EagerResponse(call[k].wants, a)
    BY <1>2 DEF CR!HandleResponse
  <2> QED
    BY <1>2, <2>1, EagerOutcome
<1>3. CASE a.status # "error" /\ a.form = "rndv"
  <2>1. CR!HandleResponse(k, a) = CR!RndvResponse(call[k].wants, call[k].policy, a)
    BY <1>3 DEF CR!HandleResponse
  <2> QED
    BY <1>3, <2>1, RndvOutcome
<1> QED
  BY <1>1, <1>2, <1>3, AnswerFields

LEMMA AnswersInit == PartsInit => AnswersInv
<1> SUFFICES ASSUME PartsInit
             PROVE  AnswersInv
  OBVIOUS
<1>1. /\ call = [k \in Calls |-> CR!Idle] /\ answer = [k \in Calls |-> CR!NoAnswer]
      /\ desc = {} /\ result = [k \in Calls |-> <<>>]
  BY DEF PartsInit, CR!CrInit
<1>2. CR!Idle \in Records /\ CR!Idle.st = "idle"
  BY DEF CR!Idle, Records, States, Whys, CR!Wants, CR!Policies
<1>3. ASSUME NEW k \in Calls
      PROVE  CallInv(k)
  <2>1. call[k].st = "idle" /\ answer[k] = CR!NoAnswer /\ k \notin desc
    BY <1>1, <1>2
  <2> QED
    BY <2>1 DEF CallInv, CR!Received
<1> QED
  BY <1>1, <1>2, <1>3 DEF AnswersInv

\* A call that is left alone keeps its invariant while the loop is not reopened.
LEMMA CallKept ==
    ASSUME NEW k \in Calls, CallInv(k), call'[k] = call[k], answer'[k] = answer[k],
           result'[k] = result[k], (k \in desc') <=> (k \in desc),
           loop = "drained" => loop' = "drained"
    PROVE  CallInv(k)'
<1>1. CR!Received(k)' <=> CR!Received(k)
  BY DEF CR!Received
<1> QED
  BY <1>1 DEF CallInv

LEMMA LoopMoves ==
    ASSUME AnswersInv, DOMAIN call' = Calls, UNCHANGED <<call, answer, desc, result>>,
           loop = "drained" => loop' = "drained"
    PROVE  AnswersInv'
<1>1. ASSUME NEW k \in Calls
      PROVE  CallInv(k)'
  BY CallKept DEF AnswersInv
<1> QED
  BY <1>1 DEF AnswersInv

\* One call moves and the others are left alone.
LEMMA OneCallMoves ==
    ASSUME AnswersInv, NEW x \in Calls, call' \in [Calls -> Records],
           DOMAIN answer' = Calls, DOMAIN result' = Calls,
           \A k \in Calls : k # x =>
             /\ call'[k] = call[k] /\ answer'[k] = answer[k] /\ result'[k] = result[k]
             /\ (k \in desc') <=> (k \in desc),
           loop = "drained" => loop' = "drained",
           CallInv(x)'
    PROVE  AnswersInv'
<1>1. ASSUME NEW k \in Calls
      PROVE  CallInv(k)'
  <2>1. CASE k = x
    BY <2>1
  <2>2. CASE k # x
    BY <2>2, CallKept DEF AnswersInv
  <2> QED
    BY <2>1, <2>2
<1> QED
  BY <1>1 DEF AnswersInv

LEMMA CancelMoves ==
    ASSUME AnswersInv, CR!CancelPending
    PROVE  AnswersInv'
<1>1. /\ loop = "ended" /\ loop' = "drained"
      /\ UNCHANGED <<answer, desc, result>> /\ call \in [Calls -> Records]
      /\ call' = [k \in Calls |-> IF call[k].st = "waiting"
                   THEN [call[k] EXCEPT !.st = "error", !.why = "stopped"]
                   ELSE call[k]]
  BY DEF CR!CancelPending, AnswersInv
<1>2. call' \in [Calls -> Records]
  BY <1>1 DEF Records, States, Whys
<1>3. ASSUME NEW k \in Calls
      PROVE  CallInv(k)'
  <2>1. CASE call[k].st = "waiting"
    <3>1. /\ call'[k].st = "error" /\ call'[k].why = "stopped"
          /\ call'[k].wants = call[k].wants
      BY <1>1, <2>1 DEF Records
    <3>2. CallInv(k) /\ (CR!Received(k)' <=> CR!Received(k))
      BY <1>1 DEF AnswersInv, CR!Received
    <3> QED
      BY <1>1, <2>1, <3>1, <3>2 DEF CallInv
  <2>2. CASE call[k].st # "waiting"
    BY <1>1, <2>2, CallKept DEF AnswersInv
  <2> QED
    BY <2>1, <2>2
<1> QED
  BY <1>1, <1>2, <1>3 DEF AnswersInv

LEMMA SendMoves ==
    ASSUME AnswersInv, NEW x \in Calls, NEW w \in CR!Wants, NEW p \in CR!Policies,
           NEW c \in BOOLEAN, CR!ClientSendRequest(x, w, p, c)
    PROVE  AnswersInv'
<1>1. PICK s \in {"waiting", "error"}, y \in {"none", "send"} :
        /\ call' = [call EXCEPT ![x] = [st |-> s, wants |-> w, policy |-> p, why |-> y]]
        /\ s = "error" => y = "send"
        /\ call[x].st = "idle" /\ call \in [Calls -> Records]
        /\ UNCHANGED <<loop, answer, desc, result>>
  BY DEF CR!ClientSendRequest, AnswersInv
<1>2. call' \in [Calls -> Records] /\ \A k \in Calls : k # x => call'[k] = call[k]
  BY <1>1 DEF Records, States, Whys
<1>3. call'[x].st = s /\ call'[x].why = y
  BY <1>1
<1>4. CallInv(x)'
  <2>1. CallInv(x) /\ (CR!Received(x)' <=> CR!Received(x))
    BY <1>1 DEF AnswersInv, CR!Received
  <2> QED
    BY <1>1, <1>3, <2>1 DEF CallInv
<1> QED
  BY <1>1, <1>2, <1>4, OneCallMoves DEF AnswersInv

LEMMA DeadlineMoves ==
    ASSUME AnswersInv, NEW x \in Calls, CR!Deadline(x)
    PROVE  AnswersInv'
<1>1. /\ call' = [call EXCEPT ![x].st = "error", ![x].why = "deadline"]
      /\ call[x].st \in {"waiting", "receiving"} /\ call \in [Calls -> Records]
      /\ desc' \subseteq desc /\ \A k \in Calls : k # x => ((k \in desc') <=> (k \in desc))
      /\ UNCHANGED <<loop, answer, result>>
  BY DEF CR!Deadline, AnswersInv
<1>2. call' \in [Calls -> Records] /\ \A k \in Calls : k # x => call'[k] = call[k]
  BY <1>1, ZenonT(20) DEF Records, States, Whys
<1>3. call'[x].st = "error" /\ call'[x].why = "deadline"
  BY <1>1 DEF Records, States, Whys
<1>4. CallInv(x)'
  <2>1. CallInv(x) /\ (CR!Received(x)' <=> CR!Received(x))
    BY <1>1 DEF AnswersInv, CR!Received
  <2> QED
    BY <1>1, <1>3, <2>1 DEF CallInv
<1> QED
  BY <1>1, <1>2, <1>4, OneCallMoves DEF AnswersInv

LEMMA ReceivedMoves ==
    ASSUME AnswersInv, NEW x \in Calls, NEW ok \in BOOLEAN, CR!RndvReceived(x, ok)
    PROVE  AnswersInv'
<1>1. PICK s \in {"value", "error"}, y \in {"none", "transfer", "sizes"} :
        /\ call' = [call EXCEPT ![x].st = s, ![x].why = y]
        /\ y = "sizes" => ~(answer[x].length <= CR!Total(result[x]))
        /\ s = "error" => y # "none"
        /\ call[x].st = "receiving" /\ call \in [Calls -> Records]
        /\ desc' = desc \ {x} /\ UNCHANGED <<loop, answer, result>>
  <2>2. PICK s : s = IF ok /\ answer[x].length <= CR!Total(result[x])
                     THEN "value" ELSE "error"
    OBVIOUS
  <2>3. PICK y : y = IF ~ok THEN "transfer"
                     ELSE IF answer[x].length <= CR!Total(result[x]) THEN "none" ELSE "sizes"
    OBVIOUS
  <2>4. call' = [call EXCEPT ![x].st = s, ![x].why = y]
    BY <2>2, <2>3 DEF CR!RndvReceived
  <2>5. /\ call[x].st = "receiving" /\ call \in [Calls -> Records]
        /\ desc' = desc \ {x} /\ UNCHANGED <<loop, answer, result>>
    BY DEF CR!RndvReceived, AnswersInv
  <2> QED
    BY <2>2, <2>3, <2>4, <2>5
<1>2. call' \in [Calls -> Records] /\ \A k \in Calls : k # x => call'[k] = call[k]
  BY <1>1, ZenonT(20) DEF Records, States, Whys
<1>3. call'[x].st = s /\ call'[x].why = y /\ call'[x].wants = call[x].wants
  BY <1>1 DEF Records, States, Whys
<1>4. CallInv(x)'
  <2>1. CallInv(x) /\ (CR!Received(x)' <=> CR!Received(x))
    BY <1>1 DEF AnswersInv, CR!Received
  <2>2. answer[x] \in CR!Answers /\ answer[x].length \in Nat
    BY <1>1, <2>1, AnswerFields DEF CallInv, CR!Received
  <2>3. y = "sizes" => ~CR!Honest(answer[x])
    BY <1>1, <2>1, <2>2 DEF CallInv
  <2>4. answer'[x] = answer[x] /\ result'[x] = result[x] /\ x \notin desc'
    BY <1>1
  <2> QED
    BY <1>1, <1>3, <2>1, <2>2, <2>3, <2>4 DEF CallInv
<1> QED
  BY <1>1, <1>2, <1>4, OneCallMoves DEF AnswersInv

LEMMA ResponseMoves ==
    ASSUME AnswersInv, NEW x \in Calls, NEW a \in CR!Answers,
           CR!ClientProcessResponseMessage(x, a)
    PROVE  AnswersInv'
<1>1. PICK r : r = CR!HandleResponse(x, a)
  OBVIOUS
<1>2. /\ loop # "drained" /\ call[x].st # "idle" /\ answer[x] = CR!NoAnswer
      /\ answer' = [answer EXCEPT ![x] = a]
      /\ desc' = IF a.form = "rndv" THEN desc \cup {x} ELSE desc
      /\ \/ /\ a.header = "ok" /\ call[x].st = "waiting"
            /\ call' = [call EXCEPT ![x].st = r.st, ![x].why = r.why]
            /\ result' = [result EXCEPT ![x] = r.parts]
         \/ /\ ~(a.header = "ok" /\ call[x].st = "waiting")
            /\ UNCHANGED <<call, result>>
      /\ call \in [Calls -> Records] /\ DOMAIN answer = Calls /\ DOMAIN result = Calls
      /\ CallInv(x)
  BY <1>1 DEF CR!ClientProcessResponseMessage, AnswersInv
<1>3. call[x].wants \in CR!Wants
  BY <1>2 DEF Records
<1>4. Outcome(call[x].wants, a, r)
  BY <1>1, <1>3, HandleOutcome
<1>5. /\ a.form \in {"eager", "rndv"} /\ a.header \in {"ok", "garbage"}
      /\ a # CR!NoAnswer
  BY AnswerFields
<1>6. /\ answer'[x] = a /\ CR!Received(x)' /\ ~CR!Received(x) /\ x \notin desc
      /\ (x \in desc') => a.form = "rndv"
      /\ \A k \in Calls : k # x => answer'[k] = answer[k] /\ ((k \in desc') <=> (k \in desc))
      /\ DOMAIN answer' = Calls
  BY <1>2, <1>5 DEF CR!Received, CallInv
<1>7. CASE a.header = "ok" /\ call[x].st = "waiting"
  <2>1. r.st \in States /\ r.why \in Whys
    BY <1>4 DEF Outcome, States, Whys
  <2>2. /\ call' = [call EXCEPT ![x].st = r.st, ![x].why = r.why]
        /\ result' = [result EXCEPT ![x] = r.parts]
    BY <1>2, <1>7
  <2>3. /\ call' \in [Calls -> Records]
        /\ call'[x].st = r.st /\ call'[x].why = r.why /\ call'[x].wants = call[x].wants
        /\ \A k \in Calls : k # x => call'[k] = call[k]
    <3>1. PICK v \in States, y \in Whys : v = r.st /\ y = r.why
      BY <2>1
    <3>2. call' = [call EXCEPT ![x].st = v, ![x].why = y]
      BY <2>2, <3>1
    <3>3. call \in [Calls -> Records]
      BY <1>2
    <3>4. /\ call' \in [Calls -> Records]
          /\ call'[x].st = v /\ call'[x].why = y /\ call'[x].wants = call[x].wants
          /\ \A k \in Calls : k # x => call'[k] = call[k]
      BY <3>2, <3>3 DEF Records
    <3> QED
      BY <3>1, <3>4
  <2>4. /\ result'[x] = r.parts /\ DOMAIN result' = Calls
        /\ \A k \in Calls : k # x => result'[k] = result[k]
    BY <1>2, <2>2
  <2>5. CallInv(x)'
    <3>1. CASE r.st = "value"
      BY <1>4, <1>6, <2>3, <2>4, <3>1 DEF CallInv, Outcome
    <3>2. CASE r.st = "receiving"
      BY <1>4, <1>6, <2>3, <2>4, <3>2 DEF CallInv, Outcome
    <3>3. CASE r.st = "error"
      BY <1>4, <1>5, <1>6, <2>3, <2>4, <3>3 DEF CallInv, Outcome
    <3> QED
      BY <1>4, <3>1, <3>2, <3>3 DEF Outcome
  <2> QED
    BY <1>2, <1>6, <2>3, <2>4, <2>5, OneCallMoves
<1>8. CASE ~(a.header = "ok" /\ call[x].st = "waiting")
  <2>1. UNCHANGED <<call, result>>
    BY <1>2, <1>8
  <2>2. CallInv(x)'
    BY <1>2, <1>5, <1>6, <1>8, <2>1 DEF CallInv
  <2> QED
    BY <1>2, <1>6, <2>1, <2>2, OneCallMoves
<1> QED
  BY <1>7, <1>8

LEMMA AnswersNext ==
    ASSUME AnswersInv, [CR!CrNext]_answerVars
    PROVE  AnswersInv'
<1>1. CASE \/ \E ok \in BOOLEAN : CR!StartClient(ok)
           \/ CR!RequestStop \/ CR!LoopStops \/ CR!ClientCtxLoopFails
           \/ UNCHANGED answerVars
  <2>1. /\ UNCHANGED <<call, answer, desc, result>>
        /\ loop = "drained" => loop' = "drained"
    BY <1>1 DEF CR!StartClient, CR!RequestStop, CR!LoopStops, CR!ClientCtxLoopFails,
                CR!Repeat, answerVars
  <2> QED
    BY <2>1, LoopMoves DEF AnswersInv
<1>2. CASE CR!CancelPending
  BY <1>2, CancelMoves
<1>3. ASSUME NEW k \in Calls,
             \/ \E a \in CR!Answers : CR!ClientProcessResponseMessage(k, a)
             \/ \E w \in CR!Wants, p \in CR!Policies, c \in BOOLEAN :
                  CR!ClientSendRequest(k, w, p, c)
             \/ \E ok \in BOOLEAN : CR!RndvReceived(k, ok)
             \/ CR!Deadline(k)
      PROVE  AnswersInv'
  BY <1>3, ResponseMoves, SendMoves, ReceivedMoves, DeadlineMoves
<1> QED
  BY <1>1, <1>2, <1>3 DEF CR!CrNext

\* An answer whose tensors account for its data reaches its caller whole, in
\* the parts it asked for, eagerly or by rendezvous; it is lost only to the
\* deadline, StopClient, a failed transfer or send, an error status or a caller
\* that cannot take it, and a descriptor is left in amDescMap_ only by an answer
\* nobody took (ClientResponseHandlerVisitor_, ClientProcessResponseMessage_).
THEOREM AnswersStayIntact == PartsSpec => []AnswerIntact
<1>1. AnswersInv => AnswerIntact
  <2> SUFFICES ASSUME AnswersInv, NEW k \in Calls
               PROVE
        /\ CR!Received(k) /\ CR!Honest(answer[k]) /\ call[k].st = "value" =>
             \/ result[k] = CR!Expected(k)
             \/ call[k].wants = "any" /\ result[k] = answer[k].metas
        /\ CR!Received(k) /\ CR!Honest(answer[k]) /\ call[k].st = "error" =>
             \/ call[k].why \in {"deadline", "transfer", "send", "status", "stopped"}
             \/ answer[k].form = "rndv" /\ call[k].why \in {"monostate", "policy"}
        /\ k \in desc /\ CR!Over(k) =>
             \/ answer[k].header = "garbage"
             \/ call[k].why \in {"deadline", "send", "status", "monostate",
                                 "policy"}
    BY DEF AnswerIntact, CR!AnswerIntact
  <2>1. CallInv(k)
    BY DEF AnswersInv
  <2>2. CR!Received(k) /\ CR!Honest(answer[k]) /\ call[k].st = "value" =>
             \/ result[k] = CR!Expected(k)
             \/ call[k].wants = "any" /\ result[k] = answer[k].metas
    BY <2>1, WholeIsExpected DEF CallInv
  <2> QED
    BY <2>1, <2>2 DEF CallInv, CR!Over
<1> QED
  BY <1>1, AnswersInit, AnswersNext, AnswersMove, PTL DEF PartsSpec

LEMMA SlotsFinite ==
    ASSUME NEW m \in Maps
    PROVE  IsFiniteSet(UsedSlots(m)) /\ Cardinality(UsedSlots(m)) \in Nat
<1>1. Len(m.slots) \in Nat
  BY DEF Maps
<1>2. IsFiniteSet(1 .. Len(m.slots))
  BY <1>1, FS_Interval
<1>3. UsedSlots(m) \subseteq 1 .. Len(m.slots)
  BY DEF UsedSlots
<1> QED
  BY <1>2, <1>3, FS_Subset, FS_CardinalityType

LEMMA ParityStep ==
    ASSUME NEW g \in Nat
    PROVE  g % 2 = 0 <=> ~((g + 1) % 2 = 0)
OBVIOUS

\* No more slots are on the list than there are.
LEMMA ChainShort ==
    ASSUME NEW m \in Maps, NEW list, Chain(m, list)
    PROVE  Len(list) <= Len(m.slots)
<1>1. /\ Len(m.slots) \in Nat /\ Len(list) \in Nat
      /\ list \in [1 .. Len(list) -> 1 .. Len(m.slots)]
  <2>1. m.slots \in Seq(SlotRecords)
    BY DEF Maps
  <2>2. Len(m.slots) \in Nat
    BY <2>1
  <2>3. list \in Seq(1 .. Len(m.slots))
    BY DEF Chain
  <2>4. Len(list) \in Nat /\ list \in [1 .. Len(list) -> 1 .. Len(m.slots)]
    BY <2>3
  <2> QED
    BY <2>2, <2>4
<1>2. /\ IsFiniteSet(1 .. Len(list)) /\ IsFiniteSet(1 .. Len(m.slots))
      /\ Cardinality(1 .. Len(list)) = Len(list)
      /\ Cardinality(1 .. Len(m.slots)) = Len(m.slots)
  <2>1. ASSUME NEW k \in Nat
        PROVE  IsFiniteSet(1 .. k) /\ Cardinality(1 .. k) = k
    <3>1. IsFiniteSet(1 .. k) /\ Cardinality(1 .. k) = IF 1 > k THEN 0 ELSE k - 1 + 1
      BY FS_Interval
    <3>2. (IF 1 > k THEN 0 ELSE k - 1 + 1) = k
      OBVIOUS
    <3> QED
      BY <3>1, <3>2
  <2> QED
    BY <1>1, <2>1
<1>3. ASSUME Len(m.slots) < Len(list)
      PROVE  FALSE
  <2>1. \E x, y \in 1 .. Len(list) : x # y /\ list[x] = list[y]
    BY <1>1, <1>2, <1>3, FS_PigeonHole
  <2> QED
    BY <2>1 DEF Chain
<1> QED
  BY <1>1, <1>3

\* Following nextFree from free_head_ visits the list.
LEMMA Followed ==
    ASSUME NEW list, sm \in Maps, Chain(sm, list)
    PROVE  RW!FreeList = Listed(list)
<1> DEFINE n == Len(sm.slots)
           F(g) == [k \in 0 .. n |->
                      IF k = 0 THEN sm.freeHead
                      ELSE IF g[k - 1] = 0 THEN 0
                      ELSE sm.slots[g[k - 1]].nextFree]
           f == CHOOSE g : g = F(g)
           h == [k \in 0 .. n |-> IF k < Len(list) THEN list[k + 1] ELSE 0]
<1>1. n \in Nat /\ Len(list) \in Nat /\ Len(list) <= n
  <2>1. sm.slots \in Seq(SlotRecords)
    BY DEF Maps
  <2>2. list \in Seq(1 .. Len(sm.slots))
    BY DEF Chain
  <2> QED
    BY <2>1, <2>2, ChainShort
<1>2. \A i \in 1 .. Len(list) : list[i] \in 1 .. n /\ list[i] # 0
  BY DEF Chain
<1>3. h = F(h)
  <2>1. ASSUME NEW k \in 0 .. n
        PROVE  h[k] = F(h)[k]
    <3>1. CASE k = 0
      BY <1>1, <3>1 DEF Chain
    <3>2. CASE k # 0
      <4>1. k - 1 \in 0 .. n /\ k \in Nat
        BY <1>1, <3>2
      <4>2. F(h)[k] = IF h[k - 1] = 0 THEN 0 ELSE sm.slots[h[k - 1]].nextFree
        BY <3>2
      <4>3. h[k - 1] = IF k - 1 < Len(list) THEN list[k] ELSE 0
        BY <4>1
      <4>4. CASE k - 1 < Len(list)
        <5>1. k \in 1 .. Len(list)
          BY <1>1, <3>2, <4>1, <4>4
        <5>2. h[k - 1] = list[k] /\ list[k] # 0
          BY <1>2, <4>3, <4>4, <5>1
        <5>3. F(h)[k] = sm.slots[list[k]].nextFree
          BY <4>2, <5>2
        <5>4. sm.slots[list[k]].nextFree = IF k = Len(list) THEN 0 ELSE list[k + 1]
          BY <5>1 DEF Chain
        <5>5. h[k] = IF k < Len(list) THEN list[k + 1] ELSE 0
          OBVIOUS
        <5>6. (k = Len(list)) <=> ~(k < Len(list))
          BY <1>1, <5>1
        <5> QED
          BY <5>3, <5>4, <5>5, <5>6
      <4>5. CASE ~(k - 1 < Len(list))
        <5>1. h[k - 1] = 0
          BY <4>3, <4>5
        <5>2. ~(k < Len(list))
          BY <1>1, <4>1, <4>5
        <5> QED
          BY <4>2, <5>1, <5>2
      <4> QED
        BY <4>4, <4>5
    <3> QED
      BY <3>1, <3>2
  <2>2. h = [k \in 0 .. n |-> h[k]] /\ F(h) = [k \in 0 .. n |-> F(h)[k]]
    OBVIOUS
  <2> HIDE DEF h, F
  <2> QED
    BY <2>1, <2>2
<1>4. f = F(f)
  <2> HIDE DEF F, h
  <2> QED
    BY <1>3
<1>5. \A k \in 0 .. n : f[k] = h[k]
  <2> DEFINE T == {k \in 0 .. n : f[k] # h[k]}
  <2>1. SUFFICES ASSUME T # {} PROVE FALSE
    OBVIOUS
  <2>2. T \in SUBSET Nat
    OBVIOUS
  <2>3. PICK x \in T : \A y \in T : x <= y
    <3> HIDE DEF T
    <3> QED
      BY <2>1, <2>2, NatMin
  <2>4. x \in 0 .. n /\ f[x] # h[x] /\ x \in Nat
    OBVIOUS
  <2>5. \A g : F(g)[x] = IF x = 0 THEN sm.freeHead
                         ELSE IF g[x - 1] = 0 THEN 0 ELSE sm.slots[g[x - 1]].nextFree
    BY <2>4
  <2>6. x # 0 => f[x - 1] = h[x - 1]
    <3> SUFFICES ASSUME x # 0 PROVE f[x - 1] = h[x - 1]
      OBVIOUS
    <3>1. x - 1 \in 0 .. n /\ ~(x <= x - 1)
      BY <1>1, <2>4
    <3> HIDE DEF f, h
    <3> QED
      BY <2>3, <3>1
  <2> HIDE DEF f, h, F, T
  <2>7. f[x] = F(f)[x] /\ h[x] = F(h)[x]
    BY <1>3, <1>4
  <2> QED
    BY <2>4, <2>5, <2>6, <2>7
<1>6. RW!FreeList = {f[k] : k \in 0 .. n} \ {0}
  BY DEF RW!FreeList, RW!InvalidIndex
<1>7. {f[k] : k \in 0 .. n} = {h[k] : k \in 0 .. n}
  <2> HIDE DEF f, h
  <2> QED
    BY <1>5
<1>8. {h[k] : k \in 0 .. n} \ {0} = Listed(list)
  <2>1. ASSUME NEW k \in 0 .. n, h[k] # 0
        PROVE  h[k] \in Listed(list)
    <3>1. k < Len(list) /\ h[k] = list[k + 1]
      BY <2>1
    <3>2. k + 1 \in 1 .. Len(list)
      BY <1>1, <3>1
    <3> QED
      BY <3>1, <3>2 DEF Listed
  <2>2. ASSUME NEW i \in 1 .. Len(list)
        PROVE  list[i] \in {h[k] : k \in 0 .. n} \ {0}
    <3>1. i - 1 \in 0 .. n /\ i - 1 < Len(list) /\ (i - 1) + 1 = i
      BY <1>1
    <3>2. h[i - 1] = list[i]
      BY <3>1
    <3> QED
      BY <1>2, <3>1, <3>2
  <2> HIDE DEF h
  <2> QED
    BY <2>1, <2>2 DEF Listed
<1> HIDE DEF f, h
<1> QED
  BY <1>6, <1>7, <1>8

\* The head of the list leaves it.
LEMMA ChainPop ==
    ASSUME NEW m \in Maps, NEW k \in Maps, NEW list, Chain(m, list),
           m.freeHead # 0, Len(k.slots) = Len(m.slots),
           k.freeHead = m.slots[m.freeHead].nextFree,
           \A i \in 1 .. Len(m.slots) :
             i # m.freeHead => k.slots[i].nextFree = m.slots[i].nextFree
    PROVE  /\ Chain(k, Tail(list)) /\ m.freeHead \in Listed(list)
           /\ Listed(Tail(list)) = Listed(list) \ {m.freeHead}
<1> DEFINE S == 1 .. Len(m.slots)
<1>1. list \in Seq(S) /\ list # <<>> /\ m.freeHead = list[1]
  BY DEF Chain
<1>2. /\ Len(list) \in Nat /\ Len(list) # 0 /\ Tail(list) \in Seq(S)
      /\ Len(Tail(list)) = Len(list) - 1
      /\ \A i \in 1 .. Len(list) - 1 : Tail(list)[i] = list[i + 1]
  <2> HIDE DEF S
  <2> QED
    BY <1>1
<1>3. \A i, j \in 1 .. Len(list) : list[i] = list[j] => i = j
  BY DEF Chain
<1>4. \A i \in 1 .. Len(list) : list[i] \in S
  BY <1>1
<1>5. \A i \in 1 .. Len(list) :
        m.slots[list[i]].nextFree = IF i = Len(list) THEN 0 ELSE list[i + 1]
  BY DEF Chain
<1> HIDE DEF S
<1>6. \A i, j \in 1 .. Len(list) - 1 : Tail(list)[i] = Tail(list)[j] => i = j
  <2> TAKE i, j \in 1 .. Len(list) - 1
  <2>1. i + 1 \in 1 .. Len(list) /\ j + 1 \in 1 .. Len(list)
    BY <1>2
  <2>2. Tail(list)[i] = list[i + 1] /\ Tail(list)[j] = list[j + 1]
    BY <1>2
  <2>3. list[i + 1] = list[j + 1] => i + 1 = j + 1
    BY <1>3, <2>1
  <2> QED
    BY <2>2, <2>3
<1> DEFINE t == Tail(list)
<1>n. PICK n \in Nat : n = Len(list) /\ n # 0 /\ Len(t) = n - 1
  BY <1>2
<1>m. /\ \A i \in 1 .. n - 1 : t[i] = list[i + 1]
      /\ \A i, j \in 1 .. n : list[i] = list[j] => i = j
      /\ \A i \in 1 .. n : list[i] \in S
      /\ \A i \in 1 .. n : i = n => m.slots[list[i]].nextFree = 0
      /\ \A i \in 1 .. n : i # n => m.slots[list[i]].nextFree = list[i + 1]
  BY <1>n, <1>2, <1>3, <1>4, <1>5
<1>t. t \in Seq(S)
  BY <1>2
<1>7. k.freeHead = IF t = <<>> THEN 0 ELSE t[1]
  <2>1. 1 \in 1 .. n
    BY <1>n
  <2>2. k.freeHead = m.slots[list[1]].nextFree
    BY <1>1
  <2> HIDE DEF t
  <2>3. CASE n = 1
    <3>1. t = <<>>
      <4>1. Len(t) = 0
        BY <1>n, <2>3
      <4> QED
        BY <1>t, <4>1
    <3>2. m.slots[list[1]].nextFree = 0
      BY <1>m, <2>1, <2>3
    <3> QED
      BY <2>2, <3>1, <3>2
  <2>4. CASE n # 1
    <3>1. 1 \in 1 .. n - 1
      BY <1>n, <2>4
    <3>2. Len(t) # 0
      BY <1>n, <2>4
    <3>3. t # <<>>
      BY <3>2
    <3>4. m.slots[list[1]].nextFree = list[1 + 1] /\ t[1] = list[1 + 1]
      BY <1>m, <2>1, <2>4, <3>1
    <3> QED
      BY <2>2, <3>3, <3>4
  <2> QED
    BY <2>3, <2>4
<1>8. \A i \in 1 .. Len(list) - 1 :
        k.slots[t[i]].nextFree = IF i = Len(list) - 1 THEN 0 ELSE t[i + 1]
  <2>0. SUFFICES ASSUME NEW i \in 1 .. n - 1
                 PROVE  k.slots[t[i]].nextFree = IF i = n - 1 THEN 0 ELSE t[i + 1]
    BY <1>n
  <2> HIDE DEF t
  <2>1. i + 1 \in 1 .. n /\ i + 1 # 1 /\ 1 \in 1 .. n
    BY <1>n
  <2>2. t[i] = list[i + 1] /\ list[i + 1] # m.freeHead /\ list[i + 1] \in S
    BY <1>1, <1>m, <2>1
  <2>3. k.slots[t[i]].nextFree = m.slots[list[i + 1]].nextFree
    BY <2>2 DEF S
  <2>5. CASE i = n - 1
    <3>1. i + 1 = n
      BY <2>5
    <3>2. m.slots[list[i + 1]].nextFree = 0
      BY <1>m, <2>1, <3>1
    <3> QED
      BY <2>3, <2>5, <3>2
  <2>6. CASE i # n - 1
    <3>1. i + 1 # n /\ i + 1 \in 1 .. n - 1
      BY <2>6
    <3>2. m.slots[list[i + 1]].nextFree = list[(i + 1) + 1]
      BY <1>m, <2>1, <3>1
    <3>3. t[i + 1] = list[(i + 1) + 1]
      BY <1>m, <3>1
    <3> QED
      BY <2>3, <2>6, <3>2, <3>3
  <2> QED
    BY <2>5, <2>6
<1>9. Chain(k, Tail(list))
  BY <1>2, <1>6, <1>7, <1>8 DEF Chain, S
<1>10. m.freeHead \in Listed(list)
  BY <1>1, <1>2 DEF Listed
<1>11. ASSUME NEW x \in Listed(Tail(list))
       PROVE  x \in Listed(list) \ {m.freeHead}
  <2>1. PICK i \in 1 .. Len(list) - 1 : x = Tail(list)[i]
    BY <1>2, <1>11 DEF Listed
  <2>2. i + 1 \in 1 .. Len(list) /\ i + 1 # 1 /\ 1 \in 1 .. Len(list)
    BY <1>2
  <2>3. x = list[i + 1]
    BY <1>2, <2>1
  <2> QED
    BY <1>1, <1>3, <2>2, <2>3 DEF Listed
<1>12. ASSUME NEW x \in Listed(list), x # m.freeHead
       PROVE  x \in Listed(Tail(list))
  <2>1. PICK i \in 1 .. Len(list) : x = list[i]
    BY <1>12 DEF Listed
  <2>2. i # 1
    BY <1>1, <1>12, <2>1
  <2>3. i - 1 \in 1 .. Len(list) - 1 /\ (i - 1) + 1 = i
    BY <1>2, <2>2
  <2>4. x = Tail(list)[i - 1]
    BY <1>2, <2>1, <2>3
  <2> QED
    BY <1>2, <2>3, <2>4 DEF Listed
<1> QED
  BY <1>9, <1>10, <1>11, <1>12

\* A slot that was not on the list becomes its head.
LEMMA ChainPush ==
    ASSUME NEW m \in Maps, NEW k \in Maps, NEW list, Chain(m, list),
           Len(k.slots) = Len(m.slots),
           NEW x \in 1 .. Len(m.slots), x \notin Listed(list),
           k.freeHead = x, k.slots[x].nextFree = m.freeHead,
           \A i \in 1 .. Len(m.slots) :
             i # x => k.slots[i].nextFree = m.slots[i].nextFree
    PROVE  \E new : Chain(k, new) /\ Listed(new) = Listed(list) \cup {x}
<1> DEFINE S == 1 .. Len(m.slots)
           new == [i \in 1 .. Len(list) + 1 |-> IF i = 1 THEN x ELSE list[i - 1]]
<1>1. list \in Seq(S)
  BY DEF Chain
<1>2. Len(list) \in Nat
  BY <1>1
<1>3. \A i, j \in 1 .. Len(list) : list[i] = list[j] => i = j
  BY DEF Chain
<1>4. \A i \in 1 .. Len(list) : list[i] \in S /\ list[i] # x
  BY <1>1 DEF Listed
<1>5. /\ m.freeHead = IF list = <<>> THEN 0 ELSE list[1]
      /\ \A i \in 1 .. Len(list) :
           m.slots[list[i]].nextFree = IF i = Len(list) THEN 0 ELSE list[i + 1]
  BY DEF Chain
<1>6. x \in S
  OBVIOUS
<1> HIDE DEF S
<1>7. /\ new[1] = x
      /\ \A i \in 1 .. Len(list) : new[i + 1] = list[i]
      /\ \A i \in 1 .. Len(list) + 1 :
           i = 1 \/ (i - 1 \in 1 .. Len(list) /\ (i - 1) + 1 = i /\ new[i] = list[i - 1])
  BY <1>2
<1>8. new \in Seq(S) /\ Len(new) = Len(list) + 1 /\ new # <<>>
  <2>1. new \in [1 .. Len(list) + 1 -> S]
    BY <1>2, <1>4, <1>6
  <2>2. Len(list) + 1 \in Nat
    BY <1>2
  <2> HIDE DEF new
  <2> QED
    BY <1>2, <2>1, <2>2
<1> HIDE DEF new
<1>9. \A i, j \in 1 .. Len(new) : new[i] = new[j] => i = j
  <2> TAKE i, j \in 1 .. Len(new)
  <2>1. i \in 1 .. Len(list) + 1 /\ j \in 1 .. Len(list) + 1
    BY <1>8
  <2>2. CASE i = 1 /\ j = 1
    BY <2>2
  <2>3. CASE i = 1 /\ j # 1
    BY <1>4, <1>7, <2>1, <2>3
  <2>4. CASE i # 1 /\ j = 1
    BY <1>4, <1>7, <2>1, <2>4
  <2>5. CASE i # 1 /\ j # 1
    <3>1. /\ i - 1 \in 1 .. Len(list) /\ (i - 1) + 1 = i /\ new[i] = list[i - 1]
          /\ j - 1 \in 1 .. Len(list) /\ (j - 1) + 1 = j /\ new[j] = list[j - 1]
      BY <1>7, <2>1, <2>5
    <3>2. new[i] = new[j] => i - 1 = j - 1
      BY <1>3, <3>1
    <3> QED
      BY <3>1, <3>2
  <2> QED
    BY <2>2, <2>3, <2>4, <2>5
<1>10. ASSUME NEW i \in 1 .. Len(new)
       PROVE  k.slots[new[i]].nextFree = IF i = Len(new) THEN 0 ELSE new[i + 1]
  <2>1. i \in 1 .. Len(list) + 1
    BY <1>8
  <2>2. CASE i = 1
    <3>1. k.slots[new[i]].nextFree = m.freeHead
      BY <1>7, <2>2
    <3>2. CASE list = <<>>
      <4>1. Len(new) = 1
        BY <1>8, <3>2
      <4> QED
        BY <1>5, <2>2, <3>1, <3>2, <4>1
    <3>3. CASE list # <<>>
      <4>1. 1 \in 1 .. Len(list) /\ Len(new) # 1
        BY <1>1, <1>2, <1>8, <3>3
      <4>2. new[1 + 1] = list[1]
        BY <1>7, <4>1
      <4> QED
        BY <1>5, <2>2, <3>1, <3>3, <4>1, <4>2
    <3> QED
      BY <3>2, <3>3
  <2>3. CASE i # 1
    <3>1. i - 1 \in 1 .. Len(list) /\ (i - 1) + 1 = i /\ new[i] = list[i - 1]
      BY <1>7, <2>1, <2>3
    <3>2. k.slots[new[i]].nextFree = m.slots[list[i - 1]].nextFree
      BY <1>4, <3>1 DEF S
    <3>3. m.slots[list[i - 1]].nextFree =
            IF i - 1 = Len(list) THEN 0 ELSE list[(i - 1) + 1]
      BY <1>5, <3>1
    <3>4. CASE i - 1 = Len(list)
      <4>1. i = Len(new)
        BY <1>2, <1>8, <3>4
      <4> QED
        BY <3>2, <3>3, <3>4, <4>1
    <3>5. CASE i - 1 # Len(list)
      <4>1. i # Len(new) /\ i \in 1 .. Len(list)
        BY <1>2, <1>8, <2>1, <3>1, <3>5
      <4>2. new[i + 1] = list[i]
        BY <1>7, <4>1
      <4> QED
        BY <3>1, <3>2, <3>3, <3>5, <4>1, <4>2
    <3> QED
      BY <3>4, <3>5
  <2> QED
    BY <2>2, <2>3
<1>11. Chain(k, new)
  BY <1>7, <1>8, <1>9, <1>10 DEF Chain, S
<1>12. ASSUME NEW y \in Listed(new)
       PROVE  y \in Listed(list) \cup {x}
  <2>1. PICK i \in 1 .. Len(list) + 1 : y = new[i]
    BY <1>8, <1>12 DEF Listed
  <2> QED
    BY <1>7, <2>1 DEF Listed
<1>13. ASSUME NEW y \in Listed(list)
       PROVE  y \in Listed(new)
  <2>1. PICK i \in 1 .. Len(list) : y = list[i]
    BY <1>13 DEF Listed
  <2>2. i + 1 \in 1 .. Len(new) /\ new[i + 1] = y
    BY <1>2, <1>7, <1>8, <2>1
  <2> QED
    BY <2>2 DEF Listed
<1>14. x \in Listed(new)
  <2>1. 1 \in 1 .. Len(new)
    BY <1>2, <1>8
  <2> QED
    BY <1>7, <2>1 DEF Listed
<1>15. Listed(new) = Listed(list) \cup {x}
  BY <1>12, <1>13, <1>14
<1> QED
  BY <1>11, <1>15

\* The links are left alone; slots may have been added.
LEMMA ChainSame ==
    ASSUME NEW m \in Maps, NEW k \in Maps, NEW list, Chain(m, list),
           Len(m.slots) <= Len(k.slots), k.freeHead = m.freeHead,
           \A i \in 1 .. Len(m.slots) : k.slots[i].nextFree = m.slots[i].nextFree
    PROVE  Chain(k, list)
<1>1. m.slots \in Seq(SlotRecords) /\ k.slots \in Seq(SlotRecords)
  BY DEF Maps
<1>2. Len(m.slots) \in Nat /\ Len(k.slots) \in Nat
  BY <1>1
<1>3. list \in Seq(1 .. Len(m.slots))
  BY DEF Chain
<1>4. 1 .. Len(m.slots) \subseteq 1 .. Len(k.slots)
  BY <1>2
<1>5. list \in Seq(1 .. Len(k.slots)) /\ \A i \in 1 .. Len(list) : list[i] \in 1 .. Len(m.slots)
  <2> DEFINE S == 1 .. Len(m.slots)
             R == 1 .. Len(k.slots)
  <2>1. list \in Seq(S) /\ S \subseteq R
    BY <1>3, <1>4
  <2> HIDE DEF S, R
  <2>2. list \in Seq(R) /\ \A i \in 1 .. Len(list) : list[i] \in S
    BY <2>1
  <2> QED
    BY <2>2 DEF S, R
<1> QED
  BY <1>5 DEF Chain

\* One slot of a sequence is replaced.
LEMMA SlotSet ==
    ASSUME NEW s \in Seq(SlotRecords), NEW h \in 1 .. Len(s), NEW r \in SlotRecords,
           NEW z, z = [s EXCEPT ![h] = r]
    PROVE  /\ z \in Seq(SlotRecords) /\ Len(z) = Len(s) /\ z[h] = r
           /\ \A i \in 1 .. Len(s) : i # h => z[i] = s[i]
<1> DEFINE n == Len(s)
<1>1. n \in Nat /\ s \in [1 .. n -> SlotRecords]
  OBVIOUS
<1>2. z \in [1 .. n -> SlotRecords] /\ z[h] = r /\ \A i \in 1 .. n : i # h => z[i] = s[i]
  BY <1>1
<1> HIDE DEF n
<1>3. z \in Seq(SlotRecords) /\ Len(z) = n
  BY <1>1, <1>2
<1> QED
  BY <1>2, <1>3 DEF n

\* One more slot.
LEMMA SlotAdded ==
    ASSUME NEW s \in Seq(SlotRecords), NEW r \in SlotRecords, NEW z, z = Append(s, r)
    PROVE  /\ z \in Seq(SlotRecords) /\ Len(z) = Len(s) + 1 /\ z[Len(s) + 1] = r
           /\ \A i \in 1 .. Len(s) : z[i] = s[i]
OBVIOUS

LEMMA FieldsOfMap ==
    ASSUME NEW m \in Maps
    PROVE  /\ m.slots \in Seq(SlotRecords) /\ Len(m.slots) \in Nat
           /\ m.freeHead \in Nat /\ m.count \in Nat
           /\ \A i \in 1 .. Len(m.slots) :
                /\ m.slots[i] \in SlotRecords /\ m.slots[i].generation \in Nat
                /\ m.slots[i].value \in Endpoints /\ m.slots[i].nextFree \in Nat
                /\ m.slots[i] = [generation |-> m.slots[i].generation,
                                 value |-> m.slots[i].value,
                                 nextFree |-> m.slots[i].nextFree]
<1>1. m.slots \in Seq(SlotRecords) /\ m.freeHead \in Nat /\ m.count \in Nat
  BY DEF Maps
<1>2. Len(m.slots) \in Nat /\ \A i \in 1 .. Len(m.slots) : m.slots[i] \in SlotRecords
  BY <1>1
<1>3. ASSUME NEW r \in SlotRecords
      PROVE  /\ r.generation \in Nat /\ r.value \in Endpoints /\ r.nextFree \in Nat
             /\ r = [generation |-> r.generation, value |-> r.value, nextFree |-> r.nextFree]
  BY DEF SlotRecords
<1> QED
  BY <1>1, <1>2, <1>3

LEMMA FieldsMakeMap ==
    ASSUME NEW s \in Seq(SlotRecords), NEW f \in Nat, NEW c \in Nat
    PROVE  /\ [slots |-> s, freeHead |-> f, count |-> c] \in Maps
           /\ [slots |-> s, freeHead |-> f, count |-> c].slots = s
           /\ [slots |-> s, freeHead |-> f, count |-> c].freeHead = f
           /\ [slots |-> s, freeHead |-> f, count |-> c].count = c
BY DEF Maps

LEMMA RecordMakesSlot ==
    ASSUME NEW g \in Nat, NEW v \in Endpoints, NEW f \in Nat
    PROVE  [generation |-> g, value |-> v, nextFree |-> f] \in SlotRecords
BY DEF SlotRecords

\* The free list of a map of which Chain holds is empty when free_head_ is
\* invalid, and starts at a free slot that is not lost otherwise.
LEMMA FreeHeadOf ==
    ASSUME NEW m, NEW lo, NEW list, m \in Maps, Chain(m, list),
           Listed(list) = FreeSlots(m) \ lo
    PROVE  /\ m.freeHead = 0 => FreeSlots(m) \ lo = {}
           /\ m.freeHead # 0 =>
                /\ m.freeHead \in 1 .. Len(m.slots) /\ m.freeHead \notin lo
                /\ ~RW!Occupied(m.slots[m.freeHead])
<1>1. list \in Seq(1 .. Len(m.slots))
  BY DEF Chain
<1>2. m.freeHead = IF list = <<>> THEN 0 ELSE list[1]
  BY DEF Chain
<1>3. CASE list = <<>>
  <2>1. Listed(list) = {}
    BY <1>3 DEF Listed
  <2> QED
    BY <1>2, <1>3, <2>1
<1>4. CASE list # <<>>
  <2>1. 1 \in 1 .. Len(list)
    BY <1>1, <1>4
  <2>2. list[1] \in Listed(list) /\ list[1] \in 1 .. Len(m.slots)
    BY <1>1, <2>1 DEF Listed
  <2>3. m.freeHead = list[1]
    BY <1>2, <1>4
  <2>4. m.freeHead \in FreeSlots(m) /\ m.freeHead \notin lo
    BY <2>2, <2>3
  <2>5. m.freeHead # 0
    BY <2>2, <2>3
  <2> QED
    BY <2>4, <2>5 DEF FreeSlots
<1> QED
  BY <1>3, <1>4

\* What emplace does: a slot that was free, or a new one, is occupied.
LEMMA Emplaced ==
    ASSUME NEW m, NEW lo, NEW v \in Endpoints, MapInv(m, lo),
           NEW i, i = RW!EmplaceIndex(m), NEW k, k = RW!Emplace(m, v)
    PROVE  /\ MapInv(k, lo)
           /\ Len(m.slots) \in Nat /\ Len(k.slots) \in Nat /\ Len(m.slots) <= Len(k.slots)
           /\ i \in 1 .. Len(k.slots)
           /\ k.slots[i].value = v /\ RW!Occupied(k.slots[i])
           /\ i \in 1 .. Len(m.slots) =>
                /\ ~RW!Occupied(m.slots[i])
                /\ m.slots[i].generation <= k.slots[i].generation
           /\ \A j \in 1 .. Len(m.slots) : j # i => k.slots[j] = m.slots[j]
<1>m. m \in Maps /\ lo \subseteq FreeSlots(m) /\ m.count = Cardinality(UsedSlots(m))
  BY DEF MapInv
<1>l. PICK list \in Seq(1 .. Len(m.slots)) :
        Chain(m, list) /\ Listed(list) = FreeSlots(m) \ lo
  BY DEF MapInv
<1>f. /\ m.slots \in Seq(SlotRecords) /\ Len(m.slots) \in Nat
      /\ m.freeHead \in Nat /\ m.count \in Nat
  BY <1>m, FieldsOfMap
<1>c. IsFiniteSet(UsedSlots(m))
  BY <1>m, SlotsFinite
<1>1. CASE m.freeHead # 0
  <2> DEFINE h == m.freeHead
             r == [generation |-> m.slots[h].generation + 1, value |-> v,
                   nextFree |-> m.slots[h].nextFree]
             z == [m.slots EXCEPT ![h] = r]
  <2>1. h \in 1 .. Len(m.slots) /\ h \notin lo /\ ~RW!Occupied(m.slots[h])
    BY <1>1, <1>m, <1>l, FreeHeadOf
  <2>2. /\ m.slots[h].generation \in Nat /\ m.slots[h].nextFree \in Nat
        /\ m.slots[h].value \in Endpoints
        /\ m.slots[h] = [generation |-> m.slots[h].generation,
                         value |-> m.slots[h].value,
                         nextFree |-> m.slots[h].nextFree]
    BY <1>m, <2>1, FieldsOfMap
  <2>3. r \in SlotRecords /\ r.generation = m.slots[h].generation + 1
        /\ r.value = v /\ r.nextFree = m.slots[h].nextFree
    <3>1. m.slots[h].generation + 1 \in Nat
      BY <2>2
    <3>2. r \in SlotRecords
      BY <2>2, <3>1, RecordMakesSlot
    <3> QED
      BY <3>2
  <2>4. i = h
    BY <1>1 DEF RW!EmplaceIndex, RW!InvalidIndex
  <2>5. k = [slots |-> z, freeHead |-> m.slots[h].nextFree, count |-> m.count + 1]
    <3>1. k = [slots |-> [m.slots EXCEPT ![h].value = v, ![h].generation = @ + 1],
               freeHead |-> m.slots[h].nextFree, count |-> m.count + 1]
      BY <1>1 DEF RW!Emplace, RW!InvalidIndex
    <3>2. [m.slots EXCEPT ![h].value = v, ![h].generation = @ + 1] = z
      BY <1>f, <2>1, <2>2, SMTT(20)
    <3> QED
      BY <3>1, <3>2
  <2>6. /\ z \in Seq(SlotRecords) /\ Len(z) = Len(m.slots) /\ z[h] = r
        /\ \A j \in 1 .. Len(m.slots) : j # h => z[j] = m.slots[j]
    <3> HIDE DEF r
    <3>1. PICK y : y = [m.slots EXCEPT ![h] = r]
      OBVIOUS
    <3> QED
      BY <1>f, <2>1, <2>3, <3>1, SlotSet
  <2> HIDE DEF h, r, z
  <2>7. k \in Maps /\ k.slots = z /\ k.freeHead = m.slots[h].nextFree /\ k.count = m.count + 1
    BY <1>f, <2>2, <2>5, <2>6, FieldsMakeMap
  <2>8. RW!Occupied(z[h])
    BY <2>1, <2>2, <2>3, <2>6, ParityStep DEF RW!Occupied
  <2>9. FreeSlots(k) = FreeSlots(m) \ {h} /\ UsedSlots(k) = UsedSlots(m) \cup {h}
    BY <2>1, <2>6, <2>7, <2>8 DEF FreeSlots, UsedSlots
  <2>10. h \notin UsedSlots(m)
    BY <2>1 DEF UsedSlots
  <2>11. k.count = Cardinality(UsedSlots(k))
    BY <1>m, <1>c, <2>7, <2>9, <2>10, FS_AddElement, ZenonT(20)
  <2>12. /\ Chain(k, Tail(list))
         /\ Listed(Tail(list)) = Listed(list) \ {h}
    <3>1. \A j \in 1 .. Len(m.slots) :
            j # m.freeHead => k.slots[j].nextFree = m.slots[j].nextFree
      BY <2>6, <2>7 DEF h
    <3>2. Len(k.slots) = Len(m.slots) /\ k.freeHead = m.slots[m.freeHead].nextFree
      BY <2>6, <2>7 DEF h
    <3> QED
      BY <1>1, <1>m, <1>l, <2>7, <3>1, <3>2, ChainPop, SMTT(20) DEF h
  <2>13. Tail(list) \in Seq(1 .. Len(k.slots))
    BY <2>12 DEF Chain
  <2>14. lo \subseteq FreeSlots(k) /\ Listed(Tail(list)) = FreeSlots(k) \ lo
    BY <1>m, <1>l, <2>1, <2>9, <2>12
  <2>15. MapInv(k, lo)
    BY <2>7, <2>11, <2>12, <2>13, <2>14 DEF MapInv
  <2>16. m.slots[i].generation <= k.slots[i].generation
    BY <2>2, <2>3, <2>4, <2>6, <2>7
  <2> QED
    BY <1>f, <2>1, <2>3, <2>4, <2>6, <2>7, <2>8, <2>15, <2>16
<1>2. CASE m.freeHead = 0
  <2> DEFINE r == [generation |-> 0, value |-> v, nextFree |-> 0]
             z == Append(m.slots, r)
             n == Len(m.slots)
  <2>1. i = n + 1
    BY <1>2 DEF RW!EmplaceIndex, RW!InvalidIndex
  <2>2. r \in SlotRecords /\ r.generation = 0 /\ r.value = v
    BY RecordMakesSlot
  <2>3. k = [slots |-> z, freeHead |-> 0, count |-> m.count + 1]
    <3>1. k = [m EXCEPT !.slots = Append(@, r), !.count = @ + 1]
      BY <1>2 DEF RW!Emplace, RW!InvalidIndex, RW!NewSlot
    <3>2. m = [slots |-> m.slots, freeHead |-> 0, count |-> m.count]
      BY <1>2, <1>m DEF Maps
    <3> HIDE DEF r
    <3> QED
      BY <1>2, <1>m, <3>1 DEF Maps
  <2>4. z \in Seq(SlotRecords) /\ Len(z) = n + 1 /\ z[n + 1] = r
        /\ \A j \in 1 .. n : z[j] = m.slots[j]
    <3> HIDE DEF r
    <3>1. PICK y : y = Append(m.slots, r)
      OBVIOUS
    <3> QED
      BY <1>f, <2>2, <3>1, SlotAdded
  <2> HIDE DEF r, z
  <2>5. k \in Maps /\ k.slots = z /\ k.freeHead = 0 /\ k.count = m.count + 1
    <3>1. m.count + 1 \in Nat /\ 0 \in Nat
      BY <1>f
    <3>2. [slots |-> z, freeHead |-> 0, count |-> m.count + 1] \in Maps
      BY <2>4, <3>1, FieldsMakeMap
    <3> QED
      BY <2>3, <3>2
  <2>6. RW!Occupied(z[n + 1])
    BY <2>2, <2>4 DEF RW!Occupied
  <2>7. /\ \A j : j \in 1 .. n + 1 <=> (j \in 1 .. n \/ j = n + 1)
        /\ n + 1 \notin 1 .. n
    BY <1>f
  <2> HIDE DEF n
  <2>8. FreeSlots(k) = FreeSlots(m) /\ UsedSlots(k) = UsedSlots(m) \cup {n + 1}
    <3>1. 1 .. Len(m.slots) = 1 .. n /\ 1 .. Len(k.slots) = 1 .. n + 1
      BY <2>4, <2>5 DEF n
    <3>2. \A j \in 1 .. n : k.slots[j] = m.slots[j]
      BY <2>4, <2>5
    <3>3. RW!Occupied(k.slots[n + 1])
      BY <2>5, <2>6
    <3> QED
      BY <2>7, <3>1, <3>2, <3>3 DEF FreeSlots, UsedSlots
  <2>9. n + 1 \notin UsedSlots(m)
    BY <2>7 DEF UsedSlots, n
  <2>10. k.count = Cardinality(UsedSlots(k))
    <3>1. PICK x : x = n + 1
      OBVIOUS
    <3>2. Cardinality(UsedSlots(m) \cup {x}) = Cardinality(UsedSlots(m)) + 1
      BY <1>c, <2>9, <3>1, FS_AddElement
    <3> QED
      BY <1>m, <2>5, <2>8, <3>1, <3>2
  <2>11. Chain(k, list)
    <3>1. \A j \in 1 .. Len(m.slots) : k.slots[j].nextFree = m.slots[j].nextFree
      BY <2>4, <2>5 DEF n
    <3>2. Len(m.slots) <= Len(k.slots) /\ k.freeHead = m.freeHead
      BY <1>2, <1>f, <2>4, <2>5 DEF n
    <3> QED
      BY <1>m, <1>l, <2>5, <3>1, <3>2, ChainSame
  <2>12. list \in Seq(1 .. Len(k.slots))
    BY <2>11 DEF Chain
  <2>13. MapInv(k, lo)
    BY <1>m, <1>l, <2>5, <2>8, <2>10, <2>11, <2>12 DEF MapInv
  <2>14. i \in 1 .. Len(k.slots) /\ i \notin 1 .. Len(m.slots)
         /\ Len(k.slots) \in Nat /\ Len(m.slots) <= Len(k.slots)
    BY <1>f, <2>1, <2>4, <2>5 DEF n
  <2>15. k.slots[i].value = v /\ RW!Occupied(k.slots[i])
    BY <2>1, <2>2, <2>4, <2>5, <2>6
  <2>16. \A j \in 1 .. Len(m.slots) : j # i => k.slots[j] = m.slots[j]
    BY <2>4, <2>5 DEF n
  <2> QED
    BY <1>f, <2>13, <2>14, <2>15, <2>16
<1> QED
  BY <1>1, <1>2

\* What emplace leaves when a constructor throws: a free slot on no list.
LEMMA Thrown ==
    ASSUME NEW m, NEW lo, MapInv(m, lo),
           NEW i, i = RW!EmplaceIndex(m), NEW k, k = RW!EmplaceThrows(m)
    PROVE  /\ MapInv(k, lo \cup {i})
           /\ Len(m.slots) \in Nat /\ Len(k.slots) \in Nat /\ Len(m.slots) <= Len(k.slots)
           /\ \A j \in 1 .. Len(m.slots) : k.slots[j] = m.slots[j]
<1>m. m \in Maps /\ lo \subseteq FreeSlots(m) /\ m.count = Cardinality(UsedSlots(m))
  BY DEF MapInv
<1>l. PICK list \in Seq(1 .. Len(m.slots)) :
        Chain(m, list) /\ Listed(list) = FreeSlots(m) \ lo
  BY DEF MapInv
<1>f. /\ m.slots \in Seq(SlotRecords) /\ Len(m.slots) \in Nat
      /\ m.freeHead \in Nat /\ m.count \in Nat
  BY <1>m, FieldsOfMap
<1>1. CASE m.freeHead # 0
  <2> DEFINE h == m.freeHead
  <2>1. h \in 1 .. Len(m.slots) /\ h \notin lo /\ ~RW!Occupied(m.slots[h])
    BY <1>1, <1>m, <1>l, FreeHeadOf
  <2>2. m.slots[h].nextFree \in Nat
    BY <1>m, <2>1, FieldsOfMap
  <2>3. i = h
    BY <1>1 DEF RW!EmplaceIndex, RW!InvalidIndex
  <2>4. k = [slots |-> m.slots, freeHead |-> m.slots[h].nextFree, count |-> m.count]
    <3>1. k = [m EXCEPT !.freeHead = m.slots[h].nextFree]
      BY <1>1 DEF RW!EmplaceThrows, RW!InvalidIndex
    <3> QED
      BY <1>m, <3>1 DEF Maps
  <2> HIDE DEF h
  <2>5. k \in Maps /\ k.slots = m.slots /\ k.freeHead = m.slots[h].nextFree /\ k.count = m.count
    BY <1>f, <2>2, <2>4, FieldsMakeMap
  <2>6. FreeSlots(k) = FreeSlots(m) /\ UsedSlots(k) = UsedSlots(m) /\ h \in FreeSlots(m)
    BY <2>1, <2>5 DEF FreeSlots, UsedSlots
  <2>7. Chain(k, Tail(list)) /\ Listed(Tail(list)) = Listed(list) \ {h}
    BY <1>1, <1>m, <1>l, <2>5, ChainPop DEF h
  <2>8. Tail(list) \in Seq(1 .. Len(k.slots))
    BY <2>7 DEF Chain
  <2>9. lo \cup {h} \subseteq FreeSlots(k) /\ Listed(Tail(list)) = FreeSlots(k) \ (lo \cup {h})
    BY <1>m, <1>l, <2>6, <2>7
  <2>10. k.count = Cardinality(UsedSlots(k))
    BY <1>m, <2>5, <2>6
  <2>11. MapInv(k, lo \cup {h})
    BY <2>5, <2>7, <2>8, <2>9, <2>10 DEF MapInv
  <2> QED
    BY <1>f, <2>3, <2>5, <2>11
<1>2. CASE m.freeHead = 0
  <2> DEFINE r == [generation |-> 1, value |-> RW!NoWorker, nextFree |-> 0]
             z == Append(m.slots, r)
             n == Len(m.slots)
  <2>1. i = n + 1
    BY <1>2 DEF RW!EmplaceIndex, RW!InvalidIndex
  <2>2. r \in SlotRecords /\ r.generation = 1
    <3>1. RW!NoWorker \in Endpoints
      BY DEF RW!NoWorker, Endpoints
    <3> QED
      BY <3>1, RecordMakesSlot
  <2>3. k = [slots |-> z, freeHead |-> 0, count |-> m.count]
    <3>1. r = [RW!NewSlot(RW!NoWorker) EXCEPT !.generation = 1]
      BY DEF RW!NewSlot, RW!InvalidIndex
    <3>2. k = [m EXCEPT !.slots = Append(@, r)]
      BY <1>2, <3>1 DEF RW!EmplaceThrows, RW!InvalidIndex
    <3> HIDE DEF r
    <3> QED
      BY <1>2, <1>m, <3>2 DEF Maps
  <2>4. z \in Seq(SlotRecords) /\ Len(z) = n + 1 /\ z[n + 1] = r
        /\ \A j \in 1 .. n : z[j] = m.slots[j]
    <3> HIDE DEF r
    <3>1. PICK y : y = Append(m.slots, r)
      OBVIOUS
    <3> QED
      BY <1>f, <2>2, <3>1, SlotAdded
  <2> HIDE DEF r, z
  <2>5. k \in Maps /\ k.slots = z /\ k.freeHead = 0 /\ k.count = m.count
    <3>1. [slots |-> z, freeHead |-> 0, count |-> m.count] \in Maps
      BY <1>f, <2>4, FieldsMakeMap
    <3> QED
      BY <2>3, <3>1
  <2>6. ~RW!Occupied(z[n + 1])
    BY <2>2, <2>4 DEF RW!Occupied
  <2>7. /\ \A j : j \in 1 .. n + 1 <=> (j \in 1 .. n \/ j = n + 1)
        /\ n + 1 \notin 1 .. n
    BY <1>f
  <2> HIDE DEF n
  <2>8. FreeSlots(k) = FreeSlots(m) \cup {n + 1} /\ UsedSlots(k) = UsedSlots(m)
    <3>1. 1 .. Len(m.slots) = 1 .. n /\ 1 .. Len(k.slots) = 1 .. n + 1
      BY <2>4, <2>5 DEF n
    <3>2. \A j \in 1 .. n : k.slots[j] = m.slots[j]
      BY <2>4, <2>5
    <3>3. ~RW!Occupied(k.slots[n + 1])
      BY <2>5, <2>6
    <3> QED
      BY <2>7, <3>1, <3>2, <3>3 DEF FreeSlots, UsedSlots
  <2>9. n + 1 \notin FreeSlots(m)
    BY <2>7 DEF FreeSlots, n
  <2>10. k.count = Cardinality(UsedSlots(k))
    BY <1>m, <2>5, <2>8
  <2>11. Chain(k, list)
    <3>1. \A j \in 1 .. Len(m.slots) : k.slots[j].nextFree = m.slots[j].nextFree
      BY <2>4, <2>5 DEF n
    <3>2. Len(m.slots) <= Len(k.slots) /\ k.freeHead = m.freeHead
      BY <1>2, <1>f, <2>4, <2>5 DEF n
    <3> QED
      BY <1>m, <1>l, <2>5, <3>1, <3>2, ChainSame
  <2>12. list \in Seq(1 .. Len(k.slots))
    BY <2>11 DEF Chain
  <2>13. lo \cup {i} \subseteq FreeSlots(k) /\ Listed(list) = FreeSlots(k) \ (lo \cup {i})
    BY <1>m, <1>l, <2>1, <2>8, <2>9
  <2>14. MapInv(k, lo \cup {i})
    BY <2>5, <2>10, <2>11, <2>12, <2>13 DEF MapInv
  <2>15. Len(k.slots) \in Nat /\ Len(m.slots) <= Len(k.slots)
    BY <1>f, <2>4, <2>5 DEF n
  <2>16. \A j \in 1 .. Len(m.slots) : k.slots[j] = m.slots[j]
    BY <2>4, <2>5 DEF n
  <2> QED
    BY <1>f, <2>14, <2>15, <2>16
<1> QED
  BY <1>1, <1>2

LEMMA SlotFreed ==
    ASSUME NEW s \in Seq(SlotRecords), NEW i \in 1 .. Len(s), NEW v \in Endpoints,
           NEW f \in Nat, NEW z, z = Freed(s, i, v, f)
    PROVE  /\ z \in Seq(SlotRecords) /\ Len(z) = Len(s)
           /\ z[i] = [generation |-> s[i].generation + 1, value |-> v, nextFree |-> f]
           /\ \A j \in 1 .. Len(s) : j # i => z[j] = s[j]
<1> DEFINE a == [s EXCEPT ![i].generation = @ + 1]
           b == [a EXCEPT ![i].value = v]
           g == s[i].generation + 1
<1>1. PICK n \in Nat : n = Len(s) /\ s \in [1 .. n -> SlotRecords] /\ i \in 1 .. n
  OBVIOUS
<1>2. s[i] \in SlotRecords /\ s[i].generation \in Nat /\ g \in Nat
  BY <1>1, SMTT(20) DEF SlotRecords
<1>3. a \in [1 .. n -> SlotRecords] /\ \A j \in 1 .. n : j # i => a[j] = s[j]
  BY <1>1, <1>2 DEF SlotRecords
<1>4. a[i].generation = g
  BY <1>1, <1>2 DEF SlotRecords
<1>5. z = [b EXCEPT ![i].nextFree = f]
  BY DEF Freed
<1> HIDE DEF a, g
<1>6. b \in [1 .. n -> SlotRecords] /\ \A j \in 1 .. n : j # i => b[j] = s[j]
  BY <1>1, <1>3 DEF SlotRecords
<1>7. b[i].generation = g /\ b[i].value = v
  BY <1>1, <1>3, <1>4 DEF SlotRecords
<1> HIDE DEF b
<1>8. z \in [1 .. n -> SlotRecords] /\ \A j \in 1 .. n : j # i => z[j] = s[j]
  BY <1>1, <1>5, <1>6, SMTT(20) DEF SlotRecords
<1>9. z[i].generation = g /\ z[i].value = v /\ z[i].nextFree = f
  BY <1>1, <1>5, <1>6, <1>7 DEF SlotRecords
<1>10. z[i] = [generation |-> g, value |-> v, nextFree |-> f]
  <2>1. z[i] \in SlotRecords
    BY <1>1, <1>8
  <2>2. PICK r \in SlotRecords : r = z[i]
    BY <2>1
  <2>3. r = [generation |-> r.generation, value |-> r.value, nextFree |-> r.nextFree]
    BY DEF SlotRecords
  <2> QED
    BY <1>9, <2>2, <2>3
<1>11. z \in Seq(SlotRecords) /\ Len(z) = n
  BY <1>1, <1>8
<1> QED
  BY <1>1, <1>8, <1>10, <1>11 DEF g

LEMMA ValueSet ==
    ASSUME NEW m \in Maps, NEW i \in 1 .. Len(m.slots), NEW v
    PROVE  [m EXCEPT !.slots[i].value = v]
             = [slots |-> [m.slots EXCEPT ![i] =
                             [generation |-> m.slots[i].generation, value |-> v,
                              nextFree |-> m.slots[i].nextFree]],
                freeHead |-> m.freeHead, count |-> m.count]
<1>1. m = [slots |-> m.slots, freeHead |-> m.freeHead, count |-> m.count]
  BY DEF Maps
<1>2. m.slots[i] = [generation |-> m.slots[i].generation, value |-> m.slots[i].value,
                    nextFree |-> m.slots[i].nextFree]
  BY FieldsOfMap
<1>3. [m.slots[i] EXCEPT !.value = v]
        = [generation |-> m.slots[i].generation, value |-> v,
           nextFree |-> m.slots[i].nextFree]
  BY <1>2
<1>4. [m EXCEPT !.slots[i].value = v]
        = [slots |-> [m.slots EXCEPT ![i] = [m.slots[i] EXCEPT !.value = v]],
           freeHead |-> m.freeHead, count |-> m.count]
  <2>1. [m EXCEPT !.slots[i].value = v]
          = [m EXCEPT !.slots = [m.slots EXCEPT ![i] = [m.slots[i] EXCEPT !.value = v]]]
    BY Zenon
  <2>2. PICK z : z = [m.slots EXCEPT ![i] = [m.slots[i] EXCEPT !.value = v]]
    OBVIOUS
  <2>3. [m EXCEPT !.slots[i].value = v] = [m EXCEPT !.slots = z]
    BY <2>1, <2>2, Zenon
  <2>4. [m EXCEPT !.slots = z]
          = [slots |-> z, freeHead |-> m.freeHead, count |-> m.count]
    BY DEF Maps
  <2> QED
    BY <2>2, <2>3, <2>4
<1> QED
  BY <1>3, <1>4

\* What erase does: an occupied slot becomes the head of the free list.
LEMMA Erased ==
    ASSUME NEW m, NEW lo, MapInv(m, lo), NEW i \in 1 .. Len(m.slots),
           RW!Occupied(m.slots[i]),
           NEW k, k = RW!Erase(m, RW!KeyAt(m, i))
    PROVE  /\ MapInv(k, lo) /\ Len(k.slots) = Len(m.slots)
           /\ k.slots[i].generation = m.slots[i].generation + 1
           /\ \A j \in 1 .. Len(m.slots) : j # i => k.slots[j] = m.slots[j]
<1> DEFINE r == [generation |-> m.slots[i].generation + 1, value |-> RW!NoWorker,
                 nextFree |-> m.freeHead]
           z == Freed(m.slots, i, RW!NoWorker, m.freeHead)
<1>m. m \in Maps /\ lo \subseteq FreeSlots(m) /\ m.count = Cardinality(UsedSlots(m))
  BY DEF MapInv
<1>l. PICK list \in Seq(1 .. Len(m.slots)) :
        Chain(m, list) /\ Listed(list) = FreeSlots(m) \ lo
  BY DEF MapInv
<1>f. /\ m.slots \in Seq(SlotRecords) /\ Len(m.slots) \in Nat
      /\ m.freeHead \in Nat /\ m.count \in Nat
  BY <1>m, FieldsOfMap
<1>c. IsFiniteSet(UsedSlots(m)) /\ Cardinality(UsedSlots(m)) \in Nat
  BY <1>m, SlotsFinite
<1>g. /\ m.slots[i].generation \in Nat
      /\ m.slots[i] = [generation |-> m.slots[i].generation,
                       value |-> m.slots[i].value, nextFree |-> m.slots[i].nextFree]
  BY <1>m, FieldsOfMap
<1>1. r \in SlotRecords /\ r.generation = m.slots[i].generation + 1 /\ r.nextFree = m.freeHead
  <2>1. RW!NoWorker \in Endpoints
    BY DEF RW!NoWorker, Endpoints
  <2>2. m.slots[i].generation + 1 \in Nat
    BY <1>g
  <2>3. r \in SlotRecords
    BY <1>f, <2>1, <2>2, RecordMakesSlot
  <2> QED
    BY <2>3
<1>2. k = [slots |-> z, freeHead |-> i, count |-> m.count - 1]
  <2>1. /\ RW!KeyAt(m, i).index = i
        /\ RW!Get(m, RW!KeyAt(m, i))
    BY DEF RW!KeyAt, RW!Get
  <2>2. RW!Erase(m, RW!KeyAt(m, i))
          = [slots |-> Freed(m.slots, i, RW!NoWorker, m.freeHead),
             freeHead |-> i, count |-> m.count - 1]
    <3>1. PICK key : key = RW!KeyAt(m, i)
      OBVIOUS
    <3>2. key.index = i /\ RW!Get(m, key)
      BY <2>1, <3>1
    <3>3. RW!Erase(m, key)
            = [slots |-> Freed(m.slots, key.index, RW!NoWorker, m.freeHead),
               freeHead |-> key.index, count |-> m.count - 1]
      BY <3>2 DEF RW!Erase, Freed
    <3> QED
      BY <3>1, <3>2, <3>3
  <2> QED
    BY <2>2
<1>3. /\ z \in Seq(SlotRecords) /\ Len(z) = Len(m.slots) /\ z[i] = r
      /\ \A j \in 1 .. Len(m.slots) : j # i => z[j] = m.slots[j]
  <2>1. RW!NoWorker \in Endpoints
    BY DEF RW!NoWorker, Endpoints
  <2> QED
    BY <1>f, <2>1, SlotFreed
<1> HIDE DEF r, z
<1>4. i \in UsedSlots(m) /\ i \notin FreeSlots(m)
  BY DEF UsedSlots, FreeSlots
<1>5. ~RW!Occupied(z[i])
  BY <1>g, <1>1, <1>3, ParityStep DEF RW!Occupied
<1>6. IsFiniteSet(UsedSlots(m) \ {i})
      /\ Cardinality(UsedSlots(m) \ {i}) = Cardinality(UsedSlots(m)) - 1
  BY <1>c, <1>4, FS_RemoveElement
<1>7. Cardinality(UsedSlots(m) \ {i}) \in Nat
  BY <1>6, FS_CardinalityType
<1>8. m.count - 1 \in Nat
  BY <1>m, <1>6, <1>7
<1>9. k \in Maps /\ k.slots = z /\ k.freeHead = i /\ k.count = m.count - 1
  <2>1. i \in Nat
    OBVIOUS
  <2>2. PICK c \in Nat : c = m.count - 1
    BY <1>8
  <2>3. k = [slots |-> z, freeHead |-> i, count |-> c]
    BY <1>2, <2>2
  <2> QED
    BY <1>3, <2>1, <2>2, <2>3, FieldsMakeMap
<1>10. FreeSlots(k) = FreeSlots(m) \cup {i} /\ UsedSlots(k) = UsedSlots(m) \ {i}
  BY <1>3, <1>5, <1>9 DEF FreeSlots, UsedSlots
<1>11. k.count = Cardinality(UsedSlots(k))
  BY <1>m, <1>6, <1>9, <1>10
<1>12. PICK new : Chain(k, new) /\ Listed(new) = Listed(list) \cup {i}
  <2>1. /\ Len(k.slots) = Len(m.slots) /\ i \notin Listed(list)
        /\ k.slots[i].nextFree = m.freeHead
        /\ \A j \in 1 .. Len(m.slots) :
             j # i => k.slots[j].nextFree = m.slots[j].nextFree
    BY <1>1, <1>3, <1>4, <1>9, <1>l
  <2> QED
    BY <1>m, <1>l, <1>9, <2>1, ChainPush, SMTT(20)
<1>13. new \in Seq(1 .. Len(k.slots))
  BY <1>12 DEF Chain
<1>14. lo \subseteq FreeSlots(k) /\ Listed(new) = FreeSlots(k) \ lo
  BY <1>m, <1>l, <1>4, <1>10, <1>12
<1>15. MapInv(k, lo)
  BY <1>9, <1>11, <1>12, <1>13, <1>14 DEF MapInv
<1> QED
  BY <1>1, <1>3, <1>9, <1>15

LEMMA Updated ==
    ASSUME NEW m, NEW lo, MapInv(m, lo), NEW i \in 1 .. Len(m.slots),
           NEW v \in Endpoints, NEW k, k = NewValue(m, i, v)
    PROVE  /\ MapInv(k, lo) /\ Len(k.slots) = Len(m.slots)
           /\ k.slots[i].generation = m.slots[i].generation /\ k.slots[i].value = v
           /\ \A j \in 1 .. Len(m.slots) : j # i => k.slots[j] = m.slots[j]
<1> DEFINE r == [generation |-> m.slots[i].generation, value |-> v,
                 nextFree |-> m.slots[i].nextFree]
           z == [m.slots EXCEPT ![i] = r]
<1>m. m \in Maps /\ lo \subseteq FreeSlots(m) /\ m.count = Cardinality(UsedSlots(m))
  BY DEF MapInv
<1>l. PICK list \in Seq(1 .. Len(m.slots)) :
        Chain(m, list) /\ Listed(list) = FreeSlots(m) \ lo
  BY DEF MapInv
<1>f. /\ m.slots \in Seq(SlotRecords) /\ Len(m.slots) \in Nat
      /\ m.freeHead \in Nat /\ m.count \in Nat
  BY <1>m, FieldsOfMap
<1>g. /\ m.slots[i].generation \in Nat /\ m.slots[i].nextFree \in Nat
      /\ m.slots[i] = [generation |-> m.slots[i].generation,
                       value |-> m.slots[i].value, nextFree |-> m.slots[i].nextFree]
  BY <1>m, FieldsOfMap
<1>1. r \in SlotRecords /\ r.generation = m.slots[i].generation
      /\ r.nextFree = m.slots[i].nextFree /\ r.value = v
  BY <1>g, RecordMakesSlot
<1>2. k = [slots |-> z, freeHead |-> m.freeHead, count |-> m.count]
  BY <1>m, ValueSet DEF NewValue
<1>3. /\ z \in Seq(SlotRecords) /\ Len(z) = Len(m.slots) /\ z[i] = r
      /\ \A j \in 1 .. Len(m.slots) : j # i => z[j] = m.slots[j]
  <2> HIDE DEF r
  <2>1. PICK y : y = [m.slots EXCEPT ![i] = r]
    OBVIOUS
  <2> QED
    BY <1>f, <1>1, <2>1, SlotSet
<1> HIDE DEF r, z
<1>4. k \in Maps /\ k.slots = z /\ k.freeHead = m.freeHead /\ k.count = m.count
  <2>1. [slots |-> z, freeHead |-> m.freeHead, count |-> m.count] \in Maps
    BY <1>f, <1>3, FieldsMakeMap
  <2> QED
    BY <1>2, <2>1
<1>5. RW!Occupied(z[i]) <=> RW!Occupied(m.slots[i])
  BY <1>1, <1>3 DEF RW!Occupied
<1>6. FreeSlots(k) = FreeSlots(m) /\ UsedSlots(k) = UsedSlots(m)
  BY <1>3, <1>4, <1>5 DEF FreeSlots, UsedSlots
<1>7. \A j \in 1 .. Len(m.slots) : k.slots[j].nextFree = m.slots[j].nextFree
  BY <1>1, <1>3, <1>4
<1>8. Chain(k, list)
  <2>1. Len(m.slots) <= Len(k.slots)
    BY <1>f, <1>3, <1>4
  <2> QED
    BY <1>m, <1>l, <1>4, <1>7, <2>1, ChainSame
<1>9. list \in Seq(1 .. Len(k.slots))
  BY <1>8 DEF Chain
<1>10. k.count = Cardinality(UsedSlots(k))
  BY <1>m, <1>4, <1>6
<1>11. MapInv(k, lo)
  BY <1>m, <1>l, <1>4, <1>6, <1>8, <1>9, <1>10 DEF MapInv
<1> QED
  BY <1>1, <1>3, <1>4, <1>11

\* A map without slots.
LEMMA NothingMapped ==
    ASSUME NEW k, k = RW!EmptyMap
    PROVE  MapInv(k, {})
<1>1. k \in Maps /\ k.slots = <<>> /\ k.freeHead = 0 /\ k.count = 0
  <2>1. k = [slots |-> <<>>, freeHead |-> 0, count |-> 0]
    BY DEF RW!EmptyMap, RW!InvalidIndex
  <2>2. <<>> \in Seq(SlotRecords) /\ 0 \in Nat
    OBVIOUS
  <2>3. k \in Maps
    BY <2>1, <2>2 DEF Maps
  <2> QED
    BY <2>1, <2>3
<1>2. 1 .. Len(k.slots) = {}
  BY <1>1
<1>3. FreeSlots(k) = {} /\ UsedSlots(k) = {}
  BY <1>2 DEF FreeSlots, UsedSlots
<1>4. k.count = Cardinality(UsedSlots(k))
  BY <1>1, <1>3, FS_EmptySet
<1>5. PICK list : list = <<>>
  OBVIOUS
<1>6. list \in Seq(1 .. Len(k.slots)) /\ Len(list) = 0 /\ 1 .. Len(list) = {}
  BY <1>5
<1>7. Chain(k, list) /\ Listed(list) = {}
  BY <1>1, <1>5, <1>6 DEF Chain, Listed
<1> QED
  BY <1>1, <1>3, <1>4, <1>6, <1>7 DEF MapInv

-----------------------------------------------------------------------------
\* The worker's table of names over the map.

LEMMA KeyFields ==
    ASSUME NEW key \in Keys
    PROVE  /\ key.index \in Nat /\ key.generation \in Nat
           /\ key = [index |-> key.index, generation |-> key.generation]
BY DEF Keys

\* A key whose slot is left alone is as good as before.
LEMMA KnownKept ==
    ASSUME NEW m, NEW k, NEW key \in Keys, NEW e, NEW w, NEW gn,
           Known(m, key, e, w, gn),
           Len(m.slots) \in Nat, Len(k.slots) \in Nat, Len(m.slots) <= Len(k.slots),
           key.index \in 1 .. Len(m.slots) => k.slots[key.index] = m.slots[key.index]
    PROVE  Known(k, key, e, w, gn)
<1>1. CASE key = RW!NoKey
  BY <1>1 DEF Known
<1>2. CASE key # RW!NoKey
  <2>1. key.index \in 1 .. Len(m.slots)
    BY <1>2 DEF Known
  <2>2. key.index \in 1 .. Len(k.slots) /\ k.slots[key.index] = m.slots[key.index]
    BY <2>1
  <2> QED
    BY <1>2, <2>1, <2>2 DEF Known
<1> QED
  BY <1>1, <1>2

\* A key that found nothing finds nothing after its slot was used again.
LEMMA KnownStale ==
    ASSUME NEW m, NEW k, NEW key \in Keys, NEW e, NEW w, NEW gn,
           Known(m, key, e, w, gn), key # RW!NoKey,
           key.index \in 1 .. Len(k.slots),
           m.slots[key.index].generation \in Nat, k.slots[key.index].generation \in Nat,
           m.slots[key.index].generation <= k.slots[key.index].generation,
           key.generation # m.slots[key.index].generation,
           key.generation # k.slots[key.index].generation
    PROVE  Known(k, key, e, w, gn)
<1>1. /\ key.generation % 2 = 0 /\ e = RW!NoWorker /\ w \in gn
      /\ key.generation <= m.slots[key.index].generation
  BY DEF Known
<1>2. key.generation <= k.slots[key.index].generation
  BY <1>1, KeyFields
<1> QED
  BY <1>1, <1>2 DEF Known

\* What the state says of calls, when the table is right.
LEMMA TableServes ==
    ASSUME TableInv
    PROVE  RW!CallReachesNamedWorker
<1>1. ASSUME NEW w \in Workers
      PROVE  /\ RW!GetConnectionId(RW!WorkerKey(w)) = latest[w]
             /\ RW!RegisterEndpointSignatures(w) = latest[w]
  <2>1. Known(sm, slotOf[w], latest[w], w, gone)
    BY DEF TableInv
  <2>2. CASE slotOf[w] = RW!NoKey
    <3>1. ~RW!Get(sm, slotOf[w])
      BY <2>2 DEF RW!Get, RW!NoKey, RW!InvalidIndex
    <3> QED
      BY <2>1, <2>2, <3>1 DEF Known, RW!GetConnectionId, RW!WorkerKey,
         RW!RegisterEndpointSignatures
  <2>3. CASE slotOf[w] # RW!NoKey
    <3>1. slotOf[w].index \in 1 .. Len(sm.slots)
      BY <2>1, <2>3 DEF Known
    <3>2. CASE slotOf[w].generation = sm.slots[slotOf[w].index].generation
      <4>1. RW!Get(sm, slotOf[w])
        BY <3>1, <3>2 DEF RW!Get
      <4>2. sm.slots[slotOf[w].index].value = latest[w]
        BY <2>1, <2>3, <3>2 DEF Known
      <4> QED
        BY <2>3, <4>1, <4>2 DEF RW!GetConnectionId, RW!WorkerKey,
           RW!RegisterEndpointSignatures
    <3>3. CASE slotOf[w].generation # sm.slots[slotOf[w].index].generation
      <4>1. ~RW!Get(sm, slotOf[w])
        BY <3>3 DEF RW!Get
      <4>2. latest[w] = RW!NoWorker
        BY <2>1, <2>3, <3>3 DEF Known
      <4> QED
        BY <4>1, <4>2 DEF RW!GetConnectionId, RW!WorkerKey,
           RW!RegisterEndpointSignatures
    <3> QED
      BY <3>2, <3>3
  <2> QED
    BY <2>2, <2>3
<1> QED
  BY <1>1 DEF RW!CallReachesNamedWorker

LEMMA MapExact ==
    ASSUME MapInv(sm, lost)
    PROVE  RW!FreeListExact
<1>1. PICK list \in Seq(1 .. Len(sm.slots)) :
        Chain(sm, list) /\ Listed(list) = FreeSlots(sm) \ lost
  BY DEF MapInv
<1>2. RW!FreeList = FreeSlots(sm) \ lost
  BY <1>1, Followed DEF MapInv
<1>3. (1 .. Len(sm.slots)) \ FreeSlots(sm) = UsedSlots(sm)
  BY DEF FreeSlots, UsedSlots
<1>4. sm.count = Cardinality((1 .. Len(sm.slots)) \ FreeSlots(sm))
  BY <1>3 DEF MapInv
<1>5. /\ RW!FreeList = {i \in 1 .. Len(sm.slots) : ~RW!Occupied(sm.slots[i])} \ lost
      /\ sm.count = Cardinality((1 .. Len(sm.slots)) \
                       {i \in 1 .. Len(sm.slots) : ~RW!Occupied(sm.slots[i])})
  BY <1>2, <1>4, Zenon DEF FreeSlots
<1>6. ASSUME NEW S
      PROVE  RW!Cardinality(S) = Cardinality(S)
  BY Zenon DEF RW!Cardinality, Cardinality
<1> QED
  BY <1>5, <1>6, Zenon DEF RW!FreeListExact

LEMMA WorkersMove ==
    [PartsNext]_partsVars => [RW!RwNext]_workerVars
BY DEF PartsNext, partsVars, Rest, workerVars

LEMMA WorkersInit ==
    RW!RwInit => WorkersInv
<1> SUFFICES ASSUME RW!RwInit PROVE WorkersInv
  OBVIOUS
<1>1. MapInv(sm, lost)
  BY NothingMapped DEF RW!RwInit
<1>2. RW!NoKey \in Keys /\ RW!NoWorker \in Endpoints
  BY DEF RW!NoKey, RW!NoWorker, RW!InvalidIndex, Keys, Endpoints
<1>3. slotOf \in [Workers -> Keys] /\ latest \in [Workers -> Endpoints]
  BY <1>2 DEF RW!RwInit
<1>4. TableInv
  BY DEF RW!RwInit, TableInv, Known
<1> QED
  BY <1>1, <1>3, <1>4 DEF WorkersInv

LEMMA AssociatedNew ==
    ASSUME WorkersInv, NEW w \in Workers, NEW c \in ConnIds, slotOf[w] = RW!NoKey,
           sm' = RW!Emplace(sm, [name |-> w, conn |-> c]),
           slotOf' = [slotOf EXCEPT ![w] = RW!KeyAt(sm', RW!EmplaceIndex(sm))],
           latest' = [latest EXCEPT ![w] =
                        IF w \in gone THEN RW!NoWorker ELSE [name |-> w, conn |-> c]],
           UNCHANGED <<lost, gone, cleared>>
    PROVE  WorkersInv'
<1>1. MapInv(sm, lost) /\ slotOf \in [Workers -> Keys] /\ latest \in [Workers -> Endpoints]
  BY DEF WorkersInv
<1>2. PICK v \in Endpoints : v = [name |-> w, conn |-> c]
  BY DEF Endpoints
<1>3. PICK m : m = sm
  OBVIOUS
<1>4. PICK k : k = sm'
  OBVIOUS
<1>5. PICK i : i = RW!EmplaceIndex(m)
  OBVIOUS
<1>6. PICK lo : lo = lost
  OBVIOUS
<1>7. MapInv(m, lo) /\ k = RW!Emplace(m, v)
  BY <1>1, <1>2, <1>3, <1>4, <1>6
<1>8. /\ MapInv(k, lo)
      /\ Len(m.slots) \in Nat /\ Len(k.slots) \in Nat /\ Len(m.slots) <= Len(k.slots)
      /\ i \in 1 .. Len(k.slots)
      /\ k.slots[i].value = v /\ RW!Occupied(k.slots[i])
      /\ i \in 1 .. Len(m.slots) =>
           /\ ~RW!Occupied(m.slots[i])
           /\ m.slots[i].generation <= k.slots[i].generation
      /\ \A j \in 1 .. Len(m.slots) : j # i => k.slots[j] = m.slots[j]
  BY <1>5, <1>7, Emplaced, SMTT(20)
<1>9. k \in Maps /\ m \in Maps
  BY <1>7, <1>8 DEF MapInv
<1>10. k.slots[i].generation \in Nat
  BY <1>8, <1>9, FieldsOfMap
<1>11. PICK key \in Keys : key = RW!KeyAt(k, i) /\ key.index = i
                            /\ key.generation = k.slots[i].generation /\ key # RW!NoKey
  <2>1. i \in Nat /\ i # 0
    BY <1>8
  <2>2. RW!KeyAt(k, i) \in Keys /\ RW!KeyAt(k, i).index = i
        /\ RW!KeyAt(k, i).generation = k.slots[i].generation
    BY <1>10, <2>1 DEF RW!KeyAt, Keys
  <2>3. RW!NoKey.index = 0
    BY DEF RW!NoKey, RW!InvalidIndex
  <2> QED
    BY <2>1, <2>2, <2>3
<1>12. slotOf' = [slotOf EXCEPT ![w] = key]
  BY <1>3, <1>4, <1>5, <1>11
<1>13. PICK e \in Endpoints : /\ latest' = [latest EXCEPT ![w] = e]
                              /\ w \notin gone => e = v
  <2>1. RW!NoWorker \in Endpoints
    BY DEF RW!NoWorker, Endpoints
  <2> QED
    BY <1>2, <2>1
<1>14. slotOf' \in [Workers -> Keys] /\ latest' \in [Workers -> Endpoints]
  BY <1>1, <1>11, <1>12, <1>13
<1>15. MapInv(sm', lost')
  BY <1>4, <1>6, <1>8
<1>16. ASSUME TableInv PROVE TableInv'
  <2>1. Known(m, RW!NoKey, latest[w], w, gone) /\ w \notin gone
    BY <1>3, <1>16 DEF TableInv, Known
  <2>2. slotOf'[w] = key /\ latest'[w] = v
    BY <1>1, <1>12, <1>13, <2>1
  <2>3. Known(k, key, v, w, gone)
    BY <1>8, <1>10, <1>11, <2>1 DEF Known, RW!Occupied
  <2>4. ASSUME NEW u \in Workers, u # w
        PROVE  /\ slotOf'[u] = slotOf[u] /\ latest'[u] = latest[u]
               /\ Known(k, slotOf[u], latest[u], u, gone)
               /\ slotOf[u] # key
    <3>1. slotOf'[u] = slotOf[u] /\ latest'[u] = latest[u] /\ slotOf[u] \in Keys
      BY <1>1, <1>12, <1>13, <2>4
    <3>2. PICK ku \in Keys : ku = slotOf[u]
      BY <3>1
    <3>3. PICK eu : eu = latest[u]
      OBVIOUS
    <3>4. PICK gn : gn = gone
      OBVIOUS
    <3>5. Known(m, ku, eu, u, gn)
      BY <1>3, <1>16, <3>2, <3>3, <3>4 DEF TableInv
    <3>6. CASE ku = RW!NoKey \/ ku.index # i
      <4>1. ku.index \in 1 .. Len(m.slots) => k.slots[ku.index] = m.slots[ku.index]
        <5>1. CASE ku = RW!NoKey
          <6>1. ku.index = 0
            BY <5>1 DEF RW!NoKey, RW!InvalidIndex
          <6> QED
            BY <6>1
        <5>2. CASE ku.index # i
          BY <1>8, <5>2
        <5> QED
          BY <3>6, <5>1, <5>2
      <4>2. Known(k, ku, eu, u, gn)
        BY <1>8, <3>5, <4>1, KnownKept
      <4>3. ku # key
        BY <1>11, <3>6
      <4> QED
        BY <3>1, <3>2, <3>3, <3>4, <4>2, <4>3
    <3>7. CASE ku # RW!NoKey /\ ku.index = i
      <4>1. /\ i \in 1 .. Len(m.slots) /\ ku.generation % 2 = 0
            /\ ku.generation <= m.slots[i].generation
        BY <3>5, <3>7 DEF Known
      <4>2. m.slots[i].generation \in Nat /\ ku.generation \in Nat
        BY <1>9, <4>1, KeyFields, FieldsOfMap
      <4>3. /\ m.slots[i].generation % 2 # 0 /\ k.slots[i].generation % 2 = 0
            /\ m.slots[i].generation <= k.slots[i].generation
        BY <1>8, <4>1 DEF RW!Occupied
      <4>4. ku.generation # m.slots[i].generation /\ ku.generation # k.slots[i].generation
        BY <1>10, <4>1, <4>2, <4>3
      <4>5. Known(k, ku, eu, u, gn)
        BY <1>8, <1>10, <3>5, <3>7, <4>2, <4>3, <4>4, KnownStale
      <4>6. ku # key
        BY <1>11, <4>4
      <4> QED
        BY <3>1, <3>2, <3>3, <3>4, <4>5, <4>6
    <3> QED
      BY <3>6, <3>7
  <2>5. ASSUME NEW u \in Workers
        PROVE  /\ Known(k, slotOf'[u], latest'[u], u, gone)
               /\ \A x \in Workers : x # u /\ slotOf'[u] # RW!NoKey => slotOf'[x] # slotOf'[u]
    <3>1. Known(k, slotOf'[u], latest'[u], u, gone)
      BY <2>2, <2>3, <2>4
    <3>2. ASSUME NEW x \in Workers, x # u, slotOf'[u] # RW!NoKey
          PROVE  slotOf'[x] # slotOf'[u]
      <4>1. CASE u = w
        BY <2>2, <2>4, <3>2, <4>1
      <4>2. CASE u # w /\ x = w
        BY <2>2, <2>4, <3>2, <4>2
      <4>3. CASE u # w /\ x # w
        <5>1. slotOf'[u] = slotOf[u] /\ slotOf'[x] = slotOf[x]
          BY <2>4, <4>3
        <5> QED
          BY <1>16, <3>2, <5>1 DEF TableInv
      <4> QED
        BY <4>1, <4>2, <4>3
    <3> QED
      BY <3>1, <3>2
  <2> QED
    BY <1>4, <2>5 DEF TableInv
<1> QED
  BY <1>14, <1>15, <1>16 DEF WorkersInv

LEMMA AssociatedKnown ==
    ASSUME WorkersInv, NEW w \in Workers, NEW c \in ConnIds, slotOf[w] # RW!NoKey,
           sm' = IF RW!Get(sm, slotOf[w])
                 THEN NewValue(sm, slotOf[w].index, [name |-> w, conn |-> c])
                 ELSE sm,
           latest' = [latest EXCEPT ![w] =
                        IF w \in gone THEN RW!NoWorker ELSE [name |-> w, conn |-> c]],
           UNCHANGED <<slotOf, lost, gone, cleared>>
    PROVE  WorkersInv'
<1>1. MapInv(sm, lost) /\ slotOf \in [Workers -> Keys] /\ latest \in [Workers -> Endpoints]
  BY DEF WorkersInv
<1>2. PICK v \in Endpoints : v = [name |-> w, conn |-> c]
  BY DEF Endpoints
<1>3. PICK m : m = sm
  OBVIOUS
<1>4. PICK k : k = sm'
  OBVIOUS
<1>5. PICK key \in Keys : key = slotOf[w] /\ key # RW!NoKey
  BY <1>1
<1>6. PICK lo : lo = lost
  OBVIOUS
<1>7. PICK i : i = key.index
  OBVIOUS
<1>8. MapInv(m, lo) /\ m \in Maps
  BY <1>1, <1>3, <1>6 DEF MapInv
<1>9. RW!Get(m, key) => k = NewValue(m, i, v) /\ i \in 1 .. Len(m.slots)
                        /\ m.slots[i].generation = key.generation
  BY <1>2, <1>3, <1>4, <1>5, <1>7 DEF RW!Get
<1>10. ~RW!Get(m, key) => k = m
  BY <1>3, <1>4, <1>5
<1>11. /\ MapInv(k, lo) /\ Len(k.slots) = Len(m.slots)
       /\ RW!Get(m, key) =>
            k.slots[i].generation = m.slots[i].generation /\ k.slots[i].value = v
       /\ \A j \in 1 .. Len(m.slots) : j # i => k.slots[j] = m.slots[j]
  <2>1. CASE RW!Get(m, key)
    BY <1>8, <1>9, <2>1, Updated
  <2>2. CASE ~RW!Get(m, key)
    BY <1>8, <1>10, <2>2
  <2> QED
    BY <2>1, <2>2
<1>12. PICK e \in Endpoints : /\ latest' = [latest EXCEPT ![w] = e]
                              /\ w \notin gone => e = v
                              /\ w \in gone => e = RW!NoWorker
  <2>1. RW!NoWorker \in Endpoints
    BY DEF RW!NoWorker, Endpoints
  <2> QED
    BY <1>2, <2>1
<1>13. slotOf' \in [Workers -> Keys] /\ latest' \in [Workers -> Endpoints]
  BY <1>1, <1>12
<1>14. MapInv(sm', lost')
  BY <1>4, <1>6, <1>11
<1>15. ASSUME TableInv PROVE TableInv'
  <2> DEFINE gn == gone
  <2>1. Known(m, key, latest[w], w, gn)
    BY <1>3, <1>5, <1>15 DEF TableInv
  <2>2. /\ i \in 1 .. Len(m.slots) /\ key.generation % 2 = 0
        /\ key.generation <= m.slots[i].generation
        /\ key.generation = m.slots[i].generation =>
              m.slots[i].value = latest[w] /\ w \notin gn
        /\ key.generation # m.slots[i].generation =>
              latest[w] = RW!NoWorker /\ w \in gn
    BY <1>5, <1>7, <2>1 DEF Known
  <2>3. latest'[w] = e
    BY <1>1, <1>12
  <2>4. Known(k, key, e, w, gn)
    <3>1. CASE RW!Get(m, key)
      <4>1. w \notin gn /\ e = v
        BY <1>9, <1>12, <2>2, <3>1
      <4>2. /\ key.index \in 1 .. Len(k.slots) /\ key.generation = k.slots[key.index].generation
            /\ key.generation <= k.slots[key.index].generation
            /\ k.slots[key.index].value = v
        BY <1>7, <1>9, <1>11, <2>2, <3>1
      <4> QED
        BY <1>5, <2>2, <4>1, <4>2 DEF Known
    <3>2. CASE ~RW!Get(m, key)
      <4>1. key.generation # m.slots[i].generation
        BY <1>7, <2>2, <3>2 DEF RW!Get
      <4>2. w \in gn /\ e = RW!NoWorker
        BY <1>12, <2>2, <4>1
      <4> QED
        BY <1>5, <1>7, <1>10, <2>2, <3>2, <4>1, <4>2 DEF Known
    <3> QED
      BY <3>1, <3>2
  <2>5. ASSUME NEW u \in Workers, u # w
        PROVE  latest'[u] = latest[u] /\ Known(k, slotOf[u], latest[u], u, gn)
    <3>1. latest'[u] = latest[u] /\ slotOf[u] \in Keys
      BY <1>1, <1>12, <2>5
    <3>2. PICK ku \in Keys : ku = slotOf[u] /\ ku # key
      BY <1>5, <1>15, <2>5, <3>1 DEF TableInv
    <3>3. PICK eu : eu = latest[u]
      OBVIOUS
    <3>4. PICK g : g = gn
      OBVIOUS
    <3>5. Known(m, ku, eu, u, g)
      BY <1>3, <1>15, <3>2, <3>3, <3>4 DEF TableInv
    <3>6. CASE k = m
      BY <3>1, <3>2, <3>3, <3>4, <3>5, <3>6
    <3>7. CASE k # m /\ (ku = RW!NoKey \/ ku.index # i)
      <4>1. ku.index \in 1 .. Len(m.slots) => k.slots[ku.index] = m.slots[ku.index]
        <5>1. CASE ku = RW!NoKey
          <6>1. ku.index = 0
            BY <5>1 DEF RW!NoKey, RW!InvalidIndex
          <6> QED
            BY <6>1
        <5>2. CASE ku.index # i
          BY <1>11, <5>2
        <5> QED
          BY <3>7, <5>1, <5>2
      <4>2. Len(m.slots) \in Nat
        BY <1>8, FieldsOfMap
      <4>3. Len(k.slots) \in Nat /\ Len(m.slots) <= Len(k.slots)
        BY <1>11, <4>2
      <4>4. Known(k, ku, eu, u, g)
        BY <3>5, <4>1, <4>2, <4>3, KnownKept
      <4> QED
        BY <3>1, <3>2, <3>3, <3>4, <4>4
    <3>8. CASE k # m /\ ku # RW!NoKey /\ ku.index = i
      <4>1. RW!Get(m, key)
        BY <1>10, <3>8
      <4>2. /\ i \in 1 .. Len(m.slots) /\ m.slots[i].generation = key.generation
            /\ k.slots[i].generation = key.generation
        BY <1>9, <1>11, <4>1
      <4>3. ku.generation # key.generation
        <5>1. /\ ku = [index |-> ku.index, generation |-> ku.generation]
              /\ key = [index |-> key.index, generation |-> key.generation]
          BY KeyFields
        <5> QED
          BY <1>7, <3>2, <3>8, <5>1
      <4>4. key.generation \in Nat
        BY KeyFields
      <4>5. /\ ku # RW!NoKey /\ ku.index \in 1 .. Len(k.slots)
            /\ m.slots[ku.index].generation \in Nat /\ k.slots[ku.index].generation \in Nat
            /\ m.slots[ku.index].generation <= k.slots[ku.index].generation
            /\ ku.generation # m.slots[ku.index].generation
            /\ ku.generation # k.slots[ku.index].generation
        BY <1>11, <3>8, <4>2, <4>3, <4>4
      <4>6. Known(k, ku, eu, u, g)
        BY <3>5, <4>5, KnownStale
      <4> QED
        BY <3>1, <3>2, <3>3, <3>4, <4>6
    <3> QED
      BY <3>6, <3>7, <3>8
  <2>6. ASSUME NEW u \in Workers
        PROVE  Known(k, slotOf[u], latest'[u], u, gone)
    BY <1>5, <2>3, <2>4, <2>5
  <2> QED
    BY <1>4, <1>15, <2>6 DEF TableInv
<1> QED
  BY <1>13, <1>14, <1>15 DEF WorkersInv

LEMMA AssociationThrown ==
    ASSUME WorkersInv, NEW w \in Workers, RW!AssociateConnectionThrows(w)
    PROVE  WorkersInv'
<1>1. MapInv(sm, lost) /\ slotOf \in [Workers -> Keys] /\ latest \in [Workers -> Endpoints]
  BY DEF WorkersInv
<1>2. /\ sm' = RW!EmplaceThrows(sm) /\ lost' = lost \cup {RW!EmplaceIndex(sm)}
      /\ UNCHANGED <<slotOf, latest, gone, cleared>>
  BY DEF RW!AssociateConnectionThrows
<1>3. PICK m : m = sm
  OBVIOUS
<1>4. PICK k : k = sm'
  OBVIOUS
<1>5. PICK i : i = RW!EmplaceIndex(m)
  OBVIOUS
<1>6. PICK lo : lo = lost
  OBVIOUS
<1>7. MapInv(m, lo) /\ k = RW!EmplaceThrows(m)
  BY <1>1, <1>2, <1>3, <1>4, <1>6
<1>8. /\ MapInv(k, lo \cup {i})
      /\ Len(m.slots) \in Nat /\ Len(k.slots) \in Nat /\ Len(m.slots) <= Len(k.slots)
      /\ \A j \in 1 .. Len(m.slots) : k.slots[j] = m.slots[j]
  BY <1>5, <1>7, Thrown
<1>9. MapInv(sm', lost')
  <2>1. lost' = lo \cup {i}
    BY <1>2, <1>3, <1>5, <1>6
  <2> QED
    BY <1>4, <1>8, <2>1
<1>10. ASSUME TableInv PROVE TableInv'
  <2>1. ASSUME NEW u \in Workers
        PROVE  Known(k, slotOf[u], latest[u], u, gone)
    <3>1. PICK ku \in Keys : ku = slotOf[u]
      BY <1>1
    <3>2. PICK eu : eu = latest[u]
      OBVIOUS
    <3>3. PICK g : g = gone
      OBVIOUS
    <3>4. Known(m, ku, eu, u, g)
      BY <1>3, <1>10, <3>1, <3>2, <3>3 DEF TableInv
    <3>5. Known(k, ku, eu, u, g)
      BY <1>8, <3>4, KnownKept
    <3> QED
      BY <3>1, <3>2, <3>3, <3>5
  <2> QED
    BY <1>2, <1>4, <1>10, <2>1 DEF TableInv
<1> QED
  BY <1>1, <1>2, <1>9, <1>10 DEF WorkersInv

LEMMA KeyErased ==
    ASSUME WorkersInv, NEW i \in 1 .. Len(sm.slots), RW!Occupied(sm.slots[i]),
           RW!EraseKey(RW!KeyAt(sm, i))
    PROVE  WorkersInv'
<1>1. MapInv(sm, lost) /\ slotOf \in [Workers -> Keys] /\ latest \in [Workers -> Endpoints]
  BY DEF WorkersInv
<1>2. PICK key : key = RW!KeyAt(sm, i)
  OBVIOUS
<1> DEFINE tenants == {w \in Workers : slotOf[w] = key}
<1>3. /\ sm' = RW!Erase(sm, key)
      /\ latest' = [w \in Workers |-> IF w \in tenants THEN RW!NoWorker ELSE latest[w]]
      /\ gone' = gone \cup tenants
      /\ UNCHANGED <<slotOf, lost, cleared>>
  BY <1>2 DEF RW!EraseKey
<1>4. PICK m : m = sm
  OBVIOUS
<1>5. PICK k : k = sm'
  OBVIOUS
<1>6. PICK lo : lo = lost
  OBVIOUS
<1>7. /\ MapInv(m, lo) /\ m \in Maps /\ k = RW!Erase(m, RW!KeyAt(m, i))
      /\ i \in 1 .. Len(m.slots) /\ RW!Occupied(m.slots[i])
  BY <1>1, <1>2, <1>3, <1>4, <1>5, <1>6 DEF MapInv
<1>8. /\ MapInv(k, lo) /\ Len(k.slots) = Len(m.slots)
      /\ k.slots[i].generation = m.slots[i].generation + 1
      /\ \A j \in 1 .. Len(m.slots) : j # i => k.slots[j] = m.slots[j]
  BY <1>7, Erased
<1>9. /\ key.index = i /\ key.generation = m.slots[i].generation
      /\ key = [index |-> i, generation |-> m.slots[i].generation]
      /\ m.slots[i].generation \in Nat /\ Len(m.slots) \in Nat
  <2>1. key = [index |-> i, generation |-> m.slots[i].generation]
    BY <1>2, <1>4 DEF RW!KeyAt
  <2> QED
    BY <1>7, <2>1, FieldsOfMap
<1>10. MapInv(sm', lost')
  BY <1>3, <1>5, <1>6, <1>8
<1>11. latest' \in [Workers -> Endpoints]
  <2>1. RW!NoWorker \in Endpoints
    BY DEF RW!NoWorker, Endpoints
  <2> QED
    BY <1>1, <1>3, <2>1
<1> HIDE DEF tenants
<1>12. ASSUME TableInv PROVE TableInv'
  <2>1. ASSUME NEW u \in Workers
        PROVE  Known(k, slotOf[u], latest'[u], u, gone')
    <3>1. PICK ku \in Keys : ku = slotOf[u]
      BY <1>1
    <3>2. PICK eu : eu = latest[u]
      OBVIOUS
    <3>3. PICK g : g = gone
      OBVIOUS
    <3>4. Known(m, ku, eu, u, g)
      BY <1>4, <1>12, <3>1, <3>2, <3>3 DEF TableInv
    <3>5. PICK en : en = latest'[u]
      OBVIOUS
    <3>6. PICK gn : gn = gone'
      OBVIOUS
    <3>7. CASE ku = key
      <4>1. en = RW!NoWorker /\ u \in gn
        BY <1>3, <3>1, <3>5, <3>6, <3>7 DEF tenants
      <4>2. key # RW!NoKey
        BY <1>9 DEF RW!NoKey, RW!InvalidIndex
      <4>3. /\ key.index \in 1 .. Len(k.slots) /\ key.generation % 2 = 0
            /\ key.generation <= k.slots[key.index].generation
            /\ key.generation # k.slots[key.index].generation
        BY <1>7, <1>8, <1>9 DEF RW!Occupied
      <4>4. Known(k, ku, en, u, gn)
        BY <3>7, <4>1, <4>2, <4>3 DEF Known
      <4> QED
        BY <3>1, <3>5, <3>6, <4>4
    <3>8. CASE ku # key
      <4>1. u \notin tenants
        BY <3>1, <3>8 DEF tenants
      <4>2. en = eu /\ (u \in gn <=> u \in g)
        BY <1>3, <3>2, <3>3, <3>5, <3>6, <4>1
      <4>3. Known(k, ku, eu, u, g)
        <5>1. CASE ku = RW!NoKey \/ ku.index # i
          <6>1. ku.index \in 1 .. Len(m.slots) => k.slots[ku.index] = m.slots[ku.index]
            <7>1. CASE ku = RW!NoKey
              <8>1. ku.index = 0
                BY <7>1 DEF RW!NoKey, RW!InvalidIndex
              <8> QED
                BY <8>1
            <7>2. CASE ku.index # i
              BY <1>8, <7>2
            <7> QED
              BY <5>1, <7>1, <7>2
          <6>2. Len(k.slots) \in Nat /\ Len(m.slots) <= Len(k.slots)
            BY <1>8, <1>9
          <6> QED
            BY <1>9, <3>4, <6>1, <6>2, KnownKept
        <5>2. CASE ku # RW!NoKey /\ ku.index = i
          <6>1. ku = [index |-> ku.index, generation |-> ku.generation] /\ ku.generation \in Nat
            BY KeyFields
          <6>2. ku.generation # m.slots[i].generation
            BY <1>9, <3>8, <5>2, <6>1
          <6>3. ku.generation <= m.slots[i].generation
            BY <3>4, <5>2 DEF Known
          <6>4. /\ ku.generation # k.slots[i].generation /\ k.slots[i].generation \in Nat
                /\ m.slots[i].generation <= k.slots[i].generation
            BY <1>8, <1>9, <6>1, <6>3
          <6> QED
            BY <1>7, <1>8, <1>9, <3>4, <5>2, <6>2, <6>4, KnownStale
        <5> QED
          BY <5>1, <5>2
      <4>4. Known(k, ku, en, u, gn)
        BY <4>2, <4>3 DEF Known
      <4> QED
        BY <3>1, <3>5, <3>6, <4>4
    <3> QED
      BY <3>7, <3>8
  <2> QED
    BY <1>3, <1>5, <1>12, <2>1 DEF TableInv
<1> QED
  BY <1>1, <1>3, <1>10, <1>11, <1>12 DEF WorkersInv

LEMMA WorkersNext ==
    ASSUME WorkersInv, [RW!RwNext]_workerVars
    PROVE  WorkersInv'
<1>1. ASSUME NEW w \in Workers, NEW c \in ConnIds, RW!AssociateConnection(w, c)
      PROVE  WorkersInv'
  <2>1. \/ /\ slotOf[w] = RW!NoKey
           /\ sm' = RW!Emplace(sm, [name |-> w, conn |-> c])
           /\ slotOf' = [slotOf EXCEPT ![w] = RW!KeyAt(sm', RW!EmplaceIndex(sm))]
        \/ /\ slotOf[w] # RW!NoKey
           /\ sm' = IF RW!Get(sm, slotOf[w])
                    THEN NewValue(sm, slotOf[w].index, [name |-> w, conn |-> c])
                    ELSE sm
           /\ UNCHANGED slotOf
    BY <1>1, Zenon DEF RW!AssociateConnection, NewValue
  <2>2. /\ latest' = [latest EXCEPT ![w] =
                        IF w \in gone THEN RW!NoWorker ELSE [name |-> w, conn |-> c]]
        /\ UNCHANGED <<lost, gone, cleared>>
    BY <1>1, Zenon DEF RW!AssociateConnection
  <2> QED
    BY <2>1, <2>2, AssociatedNew, AssociatedKnown
<1>2. ASSUME RW!ClearAll
      PROVE  WorkersInv'
  <2>1. /\ sm' = RW!EmptyMap /\ lost' = {} /\ cleared' = TRUE
        /\ UNCHANGED <<slotOf, latest, gone>>
    <3>1. sm.count # 0
      BY <1>2 DEF RW!ClearAll, WorkersInv, MapInv, Maps
    <3> QED
      BY <1>2, <3>1 DEF RW!ClearAll, RW!Clear
  <2>2. PICK k : k = sm'
    OBVIOUS
  <2>3. MapInv(k, {})
    BY <2>1, <2>2, NothingMapped
  <2> QED
    BY <2>1, <2>2, <2>3 DEF WorkersInv
<1>3. ASSUME UNCHANGED workerVars
      PROVE  WorkersInv'
  BY <1>3 DEF workerVars, WorkersInv, TableInv
<1> QED
  BY <1>1, <1>2, <1>3, AssociationThrown, KeyErased DEF RW!RwNext

\* A call by name goes to the connection last made to that worker, whatever was
\* erased and connected since, until clear() forgets the generations; each slot
\* is in use or on the free list, once (GetConnectionId and SlotMap).
THEOREM CallsReachNamedWorkers == PartsSpec => []CallReachesNamedWorker
<1>1. PartsInit => WorkersInv
  BY WorkersInit DEF PartsInit
<1>2. WorkersInv /\ [PartsNext]_partsVars => WorkersInv'
  BY WorkersMove, WorkersNext
<1>3. WorkersInv => CallReachesNamedWorker
  <2> SUFFICES ASSUME WorkersInv PROVE RW!CallReachesNamedWorker /\ RW!FreeListExact
    BY DEF CallReachesNamedWorker
  <2>1. RW!FreeListExact
    BY MapExact DEF WorkersInv
  <2>2. CASE TableInv
    BY <2>1, <2>2, TableServes
  <2>3. CASE cleared
    BY <2>1, <2>3 DEF RW!CallReachesNamedWorker
  <2> QED
    BY <2>2, <2>3 DEF WorkersInv
<1> QED
  BY <1>1, <1>2, <1>3, PTL DEF PartsSpec

LEMMA FunctionIsSomething ==
    ASSUME NEW fn \in MCFunctions
    PROVE  /\ fn # RD!Nothing
           /\ fn.args \in ArgSeqs /\ fn.dyn \in BOOLEAN
<1>1. "args" \in DOMAIN fn /\ fn.args \in ArgSeqs /\ fn.dyn \in BOOLEAN
  BY DEF MCFunctions
<1>2. "args" \notin DOMAIN RD!Nothing
  BY DEF RD!Nothing
<1> QED
  BY <1>1, <1>2

LEMMA SignatureIsSomething ==
    ASSUME NEW fn
    PROVE  RD!MakeRpcSignature(fn) # RD!Nothing
<1>1. "params" \in DOMAIN RD!MakeRpcSignature(fn)
  BY DEF RD!MakeRpcSignature
<1>2. "params" \notin DOMAIN RD!Nothing
  BY DEF RD!Nothing
<1> QED
  BY <1>1, <1>2

LEMMA PayloadFound ==
    ASSUME NEW args \in ArgSeqs
    PROVE  RD!PayloadFinder(args) # "unregistered"
<1> DEFINE found == {i \in DOMAIN args : args[i] \in RD!Payloads}
           first == CHOOSE i \in found : \A j \in found : i <= j
<1>1. PICK n \in 0 .. 2 : args \in [1 .. n -> ArgKinds]
  BY DEF ArgSeqs
<1>2. found \in SUBSET Nat
  BY <1>1
<1>3. RD!PayloadFinder(args) = IF found = {} THEN "none" ELSE args[first]
  BY DEF RD!PayloadFinder
<1>4. found # {} => args[first] \in {"buf", "vec"}
  <2> SUFFICES ASSUME found # {} PROVE args[first] \in {"buf", "vec"}
    OBVIOUS
  <2>1. \A x \in found : args[x] \in {"buf", "vec"}
    BY DEF RD!Payloads
  <2>2. \E i \in found : \A j \in found : i <= j
    <3> HIDE DEF found
    <3> QED
      BY <1>2, NatMin
  <2>3. first \in found
    <3> HIDE DEF found
    <3> QED
      BY <2>2
  <2> QED
    BY <2>1, <2>3
<1> QED
  BY <1>3, <1>4

LEMMA DispatchMoves ==
    [PartsNext]_partsVars => [RD!RdNext]_dispatchVars
BY DEF PartsNext, partsVars, Rest, dispatchVars

LEMMA DispatchInit ==
    RD!RdInit => DispatchInv
BY DEF RD!RdInit, DispatchInv, Entry, RD!Clean, RD!IsRegistered

\* What emplace of a table does.
LEMMA EmplacedAt ==
    ASSUME NEW table, NEW id \in FnIds, NEW v, table = [i \in FnIds |-> table[i]],
           NEW new, new = RD!EmplaceAt(table, id, v)
    PROVE  /\ DOMAIN new = FnIds /\ new = [i \in FnIds |-> new[i]]
           /\ new[id] = IF table[id] = RD!Nothing THEN v ELSE table[id]
           /\ \A i \in FnIds : i # id => new[i] = table[i]
BY DEF RD!EmplaceAt

\* What registering does to the tables.
LEMMA Registered ==
    ASSUME DispatchInv, NEW id \in FnIds, NEW fn \in MCFunctions, RD!Register(id, fn),
           NEW sig, sig = RD!MakeRpcSignature(fn)
    PROVE  /\ kind' = kind
           /\ DOMAIN fns' = FnIds /\ DOMAIN sigs' = FnIds
           /\ DOMAIN handlers' = FnIds /\ DOMAIN attempts' = FnIds
           /\ fns' = [i \in FnIds |-> fns'[i]] /\ sigs' = [i \in FnIds |-> sigs'[i]]
           /\ handlers' = [i \in FnIds |-> handlers'[i]]
           /\ attempts' = [i \in FnIds |-> attempts'[i]]
           /\ \A i \in FnIds : i # id =>
                /\ fns'[i] = fns[i] /\ sigs'[i] = sigs[i] /\ handlers'[i] = handlers[i]
                /\ attempts'[i] = attempts[i]
                /\ i \in orphans' <=> i \in orphans
           /\ attempts'[id] = attempts[id] + 1
           /\ fns[id] # RD!Nothing => fns'[id] = fns[id]
           /\ fns[id] = RD!Nothing => fns'[id] \in {fn, RD!Nothing}
           /\ RD!ValidateTensorPayloadConstraints(sig) =>
                /\ fns'[id] # RD!Nothing
                /\ orphans' = orphans
                /\ handlers'[id] = IF handlers[id] = "unregistered"
                                   THEN RD!PayloadFinder(fn.args) ELSE handlers[id]
                /\ sigs[id] = RD!Nothing => sigs'[id] = sig
           /\ ~RD!ValidateTensorPayloadConstraints(sig) =>
                /\ sigs' = sigs /\ handlers' = handlers
                /\ orphans' = IF fns'[id] # fns[id] THEN orphans \cup {id} ELSE orphans
           /\ kind = "async" /\ sigs[id] # RD!Nothing => sigs'[id] = sigs[id]
<1> DEFINE valid == RD!ValidateTensorPayloadConstraints(sig)
<1>1. /\ fns = [i \in FnIds |-> fns[i]] /\ sigs = [i \in FnIds |-> sigs[i]]
      /\ handlers = [i \in FnIds |-> handlers[i]]
      /\ attempts = [i \in FnIds |-> attempts[i]]
      /\ kind \in {"sync", "async"}
  BY DEF DispatchInv
<1>2. /\ attempts' = [attempts EXCEPT ![id] = @ + 1] /\ kind' = kind
      /\ handlers' = IF valid /\ handlers[id] = "unregistered"
                     THEN [handlers EXCEPT ![id] = RD!PayloadFinder(fn.args)] ELSE handlers
      /\ orphans' = IF ~valid /\ fns'[id] # fns[id] THEN orphans \cup {id} ELSE orphans
  BY DEF RD!Register
<1>3. \/ /\ fns' = RD!EmplaceAt(fns, id, fn)
         /\ kind = "sync"
         /\ sigs' = IF valid THEN [sigs EXCEPT ![id] = sig] ELSE sigs
      \/ /\ fns' = IF valid THEN RD!EmplaceAt(fns, id, fn) ELSE fns
         /\ sigs' = IF valid THEN RD!EmplaceAt(sigs, id, sig) ELSE sigs
      \/ /\ fns' = RD!EmplaceAt(fns, id, fn)
         /\ sigs' = IF valid THEN RD!EmplaceAt(sigs, id, sig) ELSE sigs
  BY DEF RD!Register, RD!RegisterFunction, RD!RegisterDynamicFunction,
     RD!RegisterAsyncFunction, RD!RegisterDynamicAsyncFunction
<1> HIDE DEF valid
<1>4. fn # RD!Nothing
  BY FunctionIsSomething
<1>5. /\ DOMAIN fns' = FnIds /\ fns' = [i \in FnIds |-> fns'[i]]
      /\ fns'[id] = fns[id] \/ (fns[id] = RD!Nothing /\ fns'[id] = fn)
      /\ valid => fns'[id] # RD!Nothing
      /\ \A i \in FnIds : i # id => fns'[i] = fns[i]
  <2>1. PICK t : t = fns
    OBVIOUS
  <2>2. PICK u : u = RD!EmplaceAt(t, id, fn)
    OBVIOUS
  <2>3. /\ DOMAIN u = FnIds /\ u = [i \in FnIds |-> u[i]]
        /\ u[id] = IF t[id] = RD!Nothing THEN fn ELSE t[id]
        /\ \A i \in FnIds : i # id => u[i] = t[i]
    BY <1>1, <2>1, <2>2, EmplacedAt
  <2>4. fns' = u \/ (~valid /\ fns' = t)
    BY <1>3, <2>1, <2>2
  <2> QED
    BY <1>1, <1>4, <2>1, <2>3, <2>4
<1>6. /\ DOMAIN sigs' = FnIds /\ sigs' = [i \in FnIds |-> sigs'[i]]
      /\ valid /\ sigs[id] = RD!Nothing => sigs'[id] = sig
      /\ ~valid => sigs' = sigs
      /\ kind = "async" /\ sigs[id] # RD!Nothing => sigs'[id] = sigs[id]
      /\ \A i \in FnIds : i # id => sigs'[i] = sigs[i]
  <2>1. PICK t : t = sigs
    OBVIOUS
  <2>2. PICK u : u = RD!EmplaceAt(t, id, sig)
    OBVIOUS
  <2>3. /\ DOMAIN u = FnIds /\ u = [i \in FnIds |-> u[i]]
        /\ u[id] = IF t[id] = RD!Nothing THEN sig ELSE t[id]
        /\ \A i \in FnIds : i # id => u[i] = t[i]
    BY <1>1, <2>1, <2>2, EmplacedAt
  <2>4. PICK x : x = [t EXCEPT ![id] = sig]
    OBVIOUS
  <2>5. /\ DOMAIN x = FnIds /\ x = [i \in FnIds |-> x[i]] /\ x[id] = sig
        /\ \A i \in FnIds : i # id => x[i] = t[i]
    BY <1>1, <2>1, <2>4
  <2>6. \/ valid /\ kind = "sync" /\ sigs' = x
        \/ valid /\ sigs' = u
        \/ ~valid /\ sigs' = t
    BY <1>3, <2>1, <2>2, <2>4
  <2>7. kind = "sync" => kind # "async"
    OBVIOUS
  <2> QED
    BY <1>1, <2>1, <2>3, <2>5, <2>6, <2>7
<1>7. /\ DOMAIN handlers' = FnIds /\ handlers' = [i \in FnIds |-> handlers'[i]]
      /\ valid => handlers'[id] = IF handlers[id] = "unregistered"
                                  THEN RD!PayloadFinder(fn.args) ELSE handlers[id]
      /\ ~valid => handlers' = handlers
      /\ \A i \in FnIds : i # id => handlers'[i] = handlers[i]
  BY <1>1, <1>2
<1>8. /\ DOMAIN attempts' = FnIds /\ attempts' = [i \in FnIds |-> attempts'[i]]
      /\ attempts'[id] = attempts[id] + 1
      /\ \A i \in FnIds : i # id => attempts'[i] = attempts[i]
  BY <1>1, <1>2
<1>9. /\ \A i \in FnIds : i # id => (i \in orphans' <=> i \in orphans)
      /\ valid => orphans' = orphans
      /\ ~valid => orphans' = IF fns'[id] # fns[id] THEN orphans \cup {id} ELSE orphans
  BY <1>2
<1> QED
  BY <1>2, <1>5, <1>6, <1>7, <1>8, <1>9 DEF valid

LEMMA EntryKept ==
    ASSUME NEW i \in FnIds, Entry(i), kind' = kind, fns'[i] = fns[i], sigs'[i] = sigs[i],
           handlers'[i] = handlers[i], attempts'[i] = attempts[i],
           i \in orphans' <=> i \in orphans
    PROVE  Entry(i)'
BY DEF Entry, RD!Clean, RD!IsRegistered, RD!MakeRpcSignature

LEMMA DispatchNext ==
    ASSUME DispatchInv, [RD!RdNext]_dispatchVars
    PROVE  DispatchInv'
<1>1. ASSUME NEW id \in FnIds, NEW fn \in MCFunctions, RD!Register(id, fn)
      PROVE  DispatchInv'
  <2>0. PICK sig : sig = RD!MakeRpcSignature(fn)
    OBVIOUS
  <2>1. /\ kind' = kind
        /\ DOMAIN fns' = FnIds /\ DOMAIN sigs' = FnIds
        /\ DOMAIN handlers' = FnIds /\ DOMAIN attempts' = FnIds
        /\ fns' = [i \in FnIds |-> fns'[i]] /\ sigs' = [i \in FnIds |-> sigs'[i]]
        /\ handlers' = [i \in FnIds |-> handlers'[i]]
        /\ attempts' = [i \in FnIds |-> attempts'[i]]
        /\ \A i \in FnIds : i # id =>
             /\ fns'[i] = fns[i] /\ sigs'[i] = sigs[i] /\ handlers'[i] = handlers[i]
             /\ attempts'[i] = attempts[i]
             /\ i \in orphans' <=> i \in orphans
        /\ attempts'[id] = attempts[id] + 1
        /\ fns[id] # RD!Nothing => fns'[id] = fns[id]
        /\ fns[id] = RD!Nothing => fns'[id] \in {fn, RD!Nothing}
        /\ RD!ValidateTensorPayloadConstraints(sig) =>
             /\ fns'[id] # RD!Nothing
             /\ orphans' = orphans
             /\ handlers'[id] = IF handlers[id] = "unregistered"
                                THEN RD!PayloadFinder(fn.args) ELSE handlers[id]
             /\ sigs[id] = RD!Nothing => sigs'[id] = sig
        /\ ~RD!ValidateTensorPayloadConstraints(sig) =>
             /\ sigs' = sigs /\ handlers' = handlers
             /\ orphans' = IF fns'[id] # fns[id] THEN orphans \cup {id} ELSE orphans
        /\ kind = "async" /\ sigs[id] # RD!Nothing => sigs'[id] = sigs[id]
    BY <1>1, <2>0, Registered
  <2>2. kind \in {"sync", "async"} /\ \A i \in FnIds : Entry(i)
    BY DEF DispatchInv
  <2>3. ASSUME NEW i \in FnIds, i # id
        PROVE  Entry(i)'
    BY <2>1, <2>2, <2>3, EntryKept
  <2>4. Entry(id)'
    <3>1. /\ attempts[id] \in Nat
          /\ fns[id] # RD!Nothing => fns[id] \in MCFunctions
          /\ attempts[id] = 0 => fns[id] = RD!Nothing
          /\ fns[id] = RD!Nothing =>
               sigs[id] = RD!Nothing /\ handlers[id] = "unregistered" /\ id \notin orphans
      BY <2>2 DEF Entry
    <3>2. attempts'[id] \in Nat /\ attempts'[id] # 0
      BY <2>1, <3>1
    <3>3. fns'[id] # RD!Nothing => fns'[id] \in MCFunctions
      BY <2>1, <3>1
    <3>4. fns'[id] = RD!Nothing =>
            sigs'[id] = RD!Nothing /\ handlers'[id] = "unregistered" /\ id \notin orphans'
      BY <2>1, <3>1
    <3>5. ASSUME RD!Clean(id)'
          PROVE  /\ sigs'[id] = RD!MakeRpcSignature(fns[id])'
                 /\ handlers'[id] = RD!PayloadFinder(fns'[id].args)
      <4>1. /\ fns'[id] # RD!Nothing /\ id \notin orphans'
            /\ kind = "async" \/ attempts'[id] = 1
        BY <2>1, <3>5 DEF RD!Clean, RD!IsRegistered
      <4>2. CASE fns[id] = RD!Nothing
        <5>1. fns'[id] = fn
          BY <2>1, <4>1, <4>2
        <5>2. RD!ValidateTensorPayloadConstraints(sig)
          BY <2>1, <4>1, <4>2
        <5>3. sigs'[id] = sig /\ handlers'[id] = RD!PayloadFinder(fn.args)
          BY <2>1, <3>1, <4>2, <5>2
        <5>4. RD!MakeRpcSignature(fns[id])' = sig
          BY <2>0, <2>1, <5>1 DEF RD!MakeRpcSignature
        <5> QED
          BY <5>1, <5>3, <5>4
      <4>3. CASE fns[id] # RD!Nothing
        <5>1. attempts'[id] # 1
          BY <2>1, <3>1, <4>3
        <5>2. kind = "async" /\ fns'[id] = fns[id]
          BY <2>1, <4>1, <4>3, <5>1
        <5>3. id \notin orphans
          BY <2>1, <4>1
        <5>4. RD!Clean(id)
          BY <4>3, <5>2, <5>3 DEF RD!Clean, RD!IsRegistered
        <5>5. /\ sigs[id] = RD!MakeRpcSignature(fns[id])
              /\ handlers[id] = RD!PayloadFinder(fns[id].args)
          BY <2>2, <5>4 DEF Entry
        <5>6. sigs[id] # RD!Nothing /\ handlers[id] # "unregistered"
          BY <3>1, <4>3, <5>5, SignatureIsSomething, PayloadFound, FunctionIsSomething
        <5>7. sigs'[id] = sigs[id] /\ handlers'[id] = handlers[id]
          BY <2>1, <5>2, <5>6
        <5>8. RD!MakeRpcSignature(fns[id])' = RD!MakeRpcSignature(fns[id])
          BY <2>1, <5>2 DEF RD!MakeRpcSignature
        <5> QED
          BY <5>2, <5>5, <5>7, <5>8
      <4> QED
        BY <4>2, <4>3
    <3> QED
      BY <3>2, <3>3, <3>4, <3>5 DEF Entry
  <2> QED
    BY <2>1, <2>2, <2>3, <2>4 DEF DispatchInv
<1>2. ASSUME UNCHANGED dispatchVars
      PROVE  DispatchInv'
  BY <1>2 DEF dispatchVars, DispatchInv, Entry, RD!Clean, RD!IsRegistered,
     RD!MakeRpcSignature
<1> QED
  BY <1>1, <1>2 DEF RD!RdNext

\* What a typed function answers that gets its arguments and its payload.
LEMMA TypedAnswers ==
    ASSUME NEW f, NEW params, NEW ctx, ctx = RD!PayloadFinder(f.args),
           RD!ExtractArgs(f.args, params)
    PROVE  /\ RD!MakeRpcWrapper(f, params, ctx, FALSE)
                = RD!Answer(RD!FillReturnTypes(f.ret), RD!PayloadFinder(f.ret))
           /\ RD!MakeAsyncRpcWrapper(f, params, ctx, FALSE)
                = RD!Answer(RD!FillReturnTypes(f.ret), RD!PayloadFinder(f.ret))
           /\ RD!MakeRpcWrapper(f, params, ctx, TRUE) = RD!ErrorAnswer("INTERNAL")
           /\ RD!MakeAsyncRpcWrapper(f, params, ctx, TRUE)
                = RD!ErrorChannel("INVALID_ARGUMENT")
<1>1. /\ ~(RD!PayloadFinder(f.args) # "none" /\ ctx = "none")
      /\ ~(RD!PayloadFinder(f.args) # "none" /\ ctx \notin {"none", RD!PayloadFinder(f.args)})
  OBVIOUS
<1> QED
  BY <1>1 DEF RD!MakeRpcWrapper, RD!MakeAsyncRpcWrapper, RD!CallTyped, RD!PrepareResponse,
     RD!PackResults

LEMMA DynamicAnswers ==
    ASSUME NEW f, NEW ctx, ctx = RD!PayloadFinder(f.args)
    PROVE  /\ RD!DynamicFuncWrapper(f, ctx, FALSE)
                = RD!Answer(RD!FillReturnTypes(f.ret), RD!PayloadFinder(f.ret))
           /\ RD!DynamicAsyncFuncWrapper(f, ctx, FALSE)
                = RD!Answer(RD!FillReturnTypes(f.ret), RD!PayloadFinder(f.ret))
           /\ RD!DynamicFuncWrapper(f, ctx, TRUE) = RD!ErrorAnswer("INTERNAL")
           /\ RD!DynamicAsyncFuncWrapper(f, ctx, TRUE)
                = RD!ErrorChannel("INVALID_ARGUMENT")
<1>1. ~(RD!PayloadFinder(f.args) # "none" /\ ctx \notin {"none", RD!PayloadFinder(f.args)})
  OBVIOUS
<1> QED
  BY <1>1 DEF RD!DynamicFuncWrapper, RD!DynamicAsyncFuncWrapper, RD!CallDynamic

\* What the dispatchers make of a request for a registered function.
LEMMA Dispatched ==
    ASSUME NEW id, RD!IsRegistered(id), NEW params, NEW ctx,
           ctx = RD!PayloadFinder(fns[id].args), RD!ExtractArgs(fns[id].args, params)
    PROVE  /\ RD!Dispatch(FALSE, id, params, ctx, FALSE)
                = RD!Answer(RD!FillReturnTypes(fns[id].ret), RD!PayloadFinder(fns[id].ret))
           /\ RD!DispatchAsync(FALSE, id, params, ctx, FALSE)
                = RD!Answer(RD!FillReturnTypes(fns[id].ret), RD!PayloadFinder(fns[id].ret))
           /\ RD!Dispatch(FALSE, id, params, ctx, TRUE) = RD!ErrorAnswer("INTERNAL")
           /\ RD!DispatchAsync(FALSE, id, params, ctx, TRUE)
                = RD!ErrorChannel("INVALID_ARGUMENT")
<1>1. PICK f : f = fns[id]
  OBVIOUS
<1>2. CASE f.dyn
  <2>1. /\ RD!Dispatch(FALSE, id, params, ctx, FALSE) = RD!DynamicFuncWrapper(f, ctx, FALSE)
        /\ RD!Dispatch(FALSE, id, params, ctx, TRUE) = RD!DynamicFuncWrapper(f, ctx, TRUE)
        /\ RD!DispatchAsync(FALSE, id, params, ctx, FALSE)
             = RD!DynamicAsyncFuncWrapper(f, ctx, FALSE)
        /\ RD!DispatchAsync(FALSE, id, params, ctx, TRUE)
             = RD!DynamicAsyncFuncWrapper(f, ctx, TRUE)
    BY <1>1, <1>2, Zenon DEF RD!Dispatch, RD!DispatchImpl, RD!InvokeFunction, RD!DispatchAsync,
       RD!DispatchAsyncImpl, RD!InvokeAsyncFunction
  <2>2. ctx = RD!PayloadFinder(f.args)
    BY <1>1
  <2> QED
    BY <1>1, <2>1, <2>2, DynamicAnswers, Zenon
<1>3. CASE ~f.dyn
  <2>1. /\ RD!Dispatch(FALSE, id, params, ctx, FALSE)
             = RD!MakeRpcWrapper(f, params, ctx, FALSE)
        /\ RD!Dispatch(FALSE, id, params, ctx, TRUE)
             = RD!MakeRpcWrapper(f, params, ctx, TRUE)
        /\ RD!DispatchAsync(FALSE, id, params, ctx, FALSE)
             = RD!MakeAsyncRpcWrapper(f, params, ctx, FALSE)
        /\ RD!DispatchAsync(FALSE, id, params, ctx, TRUE)
             = RD!MakeAsyncRpcWrapper(f, params, ctx, TRUE)
    BY <1>1, <1>3, Zenon DEF RD!Dispatch, RD!DispatchImpl, RD!InvokeFunction, RD!DispatchAsync,
       RD!DispatchAsyncImpl, RD!InvokeAsyncFunction
  <2>2. ctx = RD!PayloadFinder(f.args) /\ RD!ExtractArgs(f.args, params)
    BY <1>1
  <2> QED
    BY <1>1, <2>1, <2>2, TypedAnswers, Zenon
<1> QED
  BY <1>2, <1>3

\* The types of a signature are found in a header with as many, the same ones.
LEMMA ArgsFound ==
    ASSUME NEW args, NEW params, DOMAIN params = 1 .. Len(params),
           Len(params) = Len(RD!FillParamTypes(args)),
           \A i \in DOMAIN params : params[i] = RD!FillParamTypes(args)[i]
    PROVE  RD!ExtractArgs(args, params)
<1>1. DOMAIN RD!FillParamTypes(args) = 1 .. Len(RD!FillParamTypes(args))
  BY DEF RD!FillParamTypes
<1>2. PICK w : w = RD!FillParamTypes(args)
  OBVIOUS
<1>3. ASSUME NEW i \in DOMAIN w
      PROVE  RD!GetItem(params, i, w[i])
  <2>1. i \in 1 .. Len(params) /\ i \in DOMAIN params
    BY <1>1, <1>2
  <2>2. i <= Len(params)
    BY <2>1
  <2> QED
    BY <1>2, <2>1, <2>2 DEF RD!GetItem
<1> QED
  BY <1>2, <1>3 DEF RD!ExtractArgs

LEMMA SignatureFields ==
    ASSUME NEW fn
    PROVE  /\ RD!MakeRpcSignature(fn).params = RD!FillParamTypes(fn.args)
           /\ RD!MakeRpcSignature(fn).input = RD!PayloadFinder(fn.args)
           /\ kind = "sync" =>
                /\ RD!MakeRpcSignature(fn).returns = RD!FillReturnTypes(fn.ret)
                /\ RD!MakeRpcSignature(fn).output = RD!PayloadFinder(fn.ret)
BY DEF RD!MakeRpcSignature

LEMMA RequestsFit ==
    ASSUME DispatchInv
    PROVE  RD!ValidatedRequestFits
<1>1. ASSUME NEW id \in FnIds, NEW args, NEW r, r = RD!PrepareRequest(args),
             RD!Clean(id), RD!Validate(r.params, RD!GetSignature(id)),
             r.payload = RD!GetSignature(id).input
      PROVE  /\ RD!AnyDispatch(FALSE, id, r.params, r.payload, FALSE).status = "OK"
             /\ handlers[id] = r.payload
  <2>1. /\ sigs[id] = RD!MakeRpcSignature(fns[id])
        /\ handlers[id] = RD!PayloadFinder(fns[id].args)
        /\ kind \in {"sync", "async"}
    BY <1>1 DEF DispatchInv, Entry
  <2>2. RD!IsRegistered(id)
    BY <1>1 DEF RD!Clean
  <2>3. /\ sigs[id].params = RD!FillParamTypes(fns[id].args)
        /\ sigs[id].input = RD!PayloadFinder(fns[id].args)
    BY <2>1, SignatureFields
  <2>4. PICK params : params = r.params
    OBVIOUS
  <2>5. PICK ctx : ctx = r.payload
    OBVIOUS
  <2>6. ctx = RD!PayloadFinder(fns[id].args)
    BY <1>1, <2>3, <2>5 DEF RD!GetSignature
  <2>7. params = RD!FillParamTypes(args)
    BY <1>1, <2>4 DEF RD!PrepareRequest, RD!PackArgs
  <2>8. DOMAIN params = 1 .. Len(params)
    BY <2>7 DEF RD!FillParamTypes
  <2>9. /\ Len(params) = Len(RD!FillParamTypes(fns[id].args))
        /\ \A i \in DOMAIN params : params[i] = RD!FillParamTypes(fns[id].args)[i]
    BY <1>1, <2>3, <2>4 DEF RD!Validate, RD!GetSignature
  <2>10. PICK fa : fa = fns[id].args
    OBVIOUS
  <2>11. RD!ExtractArgs(fa, params)
    BY <2>8, <2>9, <2>10, ArgsFound
  <2>12. RD!ExtractArgs(fns[id].args, params)
    BY <2>10, <2>11
  <2>13. /\ RD!Dispatch(FALSE, id, params, ctx, FALSE).status = "OK"
         /\ RD!DispatchAsync(FALSE, id, params, ctx, FALSE).status = "OK"
    <3>1. /\ RD!Dispatch(FALSE, id, params, ctx, FALSE)
               = RD!Answer(RD!FillReturnTypes(fns[id].ret), RD!PayloadFinder(fns[id].ret))
          /\ RD!DispatchAsync(FALSE, id, params, ctx, FALSE)
               = RD!Answer(RD!FillReturnTypes(fns[id].ret), RD!PayloadFinder(fns[id].ret))
      BY <2>2, <2>6, <2>12, Dispatched, Zenon
    <3>2. \A x, y : RD!Answer(x, y).status = "OK"
      BY DEF RD!Answer
    <3> QED
      BY <3>1, <3>2, Zenon
  <2>14. RD!AnyDispatch(FALSE, id, params, ctx, FALSE).status = "OK"
    BY <2>1, <2>13, Zenon DEF RD!AnyDispatch
  <2> QED
    BY <2>1, <2>4, <2>5, <2>6, <2>14, Zenon
<1> QED
  BY <1>1, Zenon DEF RD!ValidatedRequestFits

LEMMA AnswersFit ==
    ASSUME DispatchInv
    PROVE  RD!AnswerFitsSignature
<1> DEFINE sig(id) == RD!GetSignature(id)
           sync(id, t) == RD!DispatchTyped(FALSE, id, sig(id).params, sig(id).input, t,
                                          sig(id).output)
           async(id, t) == RD!DispatchAsyncTyped(FALSE, id, sig(id).params, sig(id).input, t,
                                                 RD!PayloadFinder(fns[id].ret))
<1>1. ASSUME NEW id \in FnIds, RD!Clean(id)
      PROVE  /\ kind = "sync" => sync(id, FALSE) = RD!Answer(sig(id).returns, sig(id).output)
             /\ kind = "sync" => sync(id, TRUE).status =
                  IF sig(id).output = "none" THEN "INTERNAL" ELSE "bad_variant_access"
             /\ async(id, TRUE).status = "INVALID_ARGUMENT"
             /\ async(id, FALSE).status = "OK"
  <2>1. /\ sigs[id] = RD!MakeRpcSignature(fns[id])
        /\ kind \in {"sync", "async"}
    BY <1>1 DEF DispatchInv, Entry
  <2>2. RD!IsRegistered(id)
    BY <1>1 DEF RD!Clean
  <2>3. PICK s : s = sigs[id]
    OBVIOUS
  <2>4. /\ s.params = RD!FillParamTypes(fns[id].args)
        /\ s.input = RD!PayloadFinder(fns[id].args)
        /\ kind = "sync" =>
             s.returns = RD!FillReturnTypes(fns[id].ret) /\ s.output = RD!PayloadFinder(fns[id].ret)
    BY <2>1, <2>3, SignatureFields
  <2>5. PICK fa : fa = fns[id].args
    OBVIOUS
  <2>6. PICK params : params = s.params
    OBVIOUS
  <2>7. DOMAIN params = 1 .. Len(params)
    BY <2>4, <2>6 DEF RD!FillParamTypes
  <2>8. RD!ExtractArgs(fa, params)
    BY <2>4, <2>5, <2>6, <2>7, ArgsFound
  <2>9. PICK ctx : ctx = s.input
    OBVIOUS
  <2>10. PICK res : res = RD!FillReturnTypes(fns[id].ret)
    OBVIOUS
  <2>11. PICK pay : pay = RD!PayloadFinder(fns[id].ret)
    OBVIOUS
  <2>12. /\ RD!Dispatch(FALSE, id, params, ctx, FALSE) = RD!Answer(res, pay)
         /\ RD!DispatchAsync(FALSE, id, params, ctx, FALSE) = RD!Answer(res, pay)
         /\ RD!Dispatch(FALSE, id, params, ctx, TRUE) = RD!ErrorAnswer("INTERNAL")
         /\ RD!DispatchAsync(FALSE, id, params, ctx, TRUE)
              = RD!ErrorChannel("INVALID_ARGUMENT")
    <3>1. ctx = RD!PayloadFinder(fns[id].args) /\ RD!ExtractArgs(fns[id].args, params)
      BY <2>4, <2>5, <2>8, <2>9
    <3> QED
      BY <2>2, <2>10, <2>11, <3>1, Dispatched, Zenon
  <2>13. /\ sync(id, FALSE) = RD!BuildRpcResult(RD!Answer(res, pay), s.output)
         /\ sync(id, TRUE) = RD!BuildRpcResult(RD!ErrorAnswer("INTERNAL"), s.output)
    BY <2>3, <2>6, <2>9, <2>12, Zenon DEF RD!DispatchTyped, RD!GetSignature
  <2>14. kind = "sync" => RD!BuildRpcResult(RD!Answer(res, pay), s.output)
                            = RD!Answer(s.returns, s.output)
    BY <2>4, <2>10, <2>11 DEF RD!BuildRpcResult, RD!Answer
  <2>15. RD!BuildRpcResult(RD!ErrorAnswer("INTERNAL"), s.output).status
           = IF s.output = "none" THEN "INTERNAL" ELSE "bad_variant_access"
    BY DEF RD!BuildRpcResult, RD!ErrorAnswer, RD!ErrorChannel
  <2>16. async(id, TRUE).status = "INVALID_ARGUMENT"
    <3>1. RD!ErrorChannel("INVALID_ARGUMENT").status = "INVALID_ARGUMENT"
      BY DEF RD!ErrorChannel
    <3>2. async(id, TRUE) = RD!ErrorChannel("INVALID_ARGUMENT")
      BY <2>3, <2>6, <2>9, <2>12, <3>1, Zenon DEF RD!DispatchAsyncTyped, RD!GetSignature
    <3> QED
      BY <3>1, <3>2
  <2>17. async(id, FALSE).status = "OK"
    <3>1. RD!Answer(res, pay).status = "OK" /\ RD!Answer(res, pay).payload = pay
      BY DEF RD!Answer
    <3>2. async(id, FALSE) = RD!BuildRpcResult(RD!Answer(res, pay), pay)
      BY <2>3, <2>6, <2>9, <2>11, <2>12, <3>1, Zenon DEF RD!DispatchAsyncTyped, RD!GetSignature
    <3> QED
      BY <3>1, <3>2 DEF RD!BuildRpcResult
  <2>18. sig(id) = s
    BY <2>3 DEF RD!GetSignature
  <2> HIDE DEF sig, sync, async
  <2> QED
    BY <2>13, <2>14, <2>15, <2>16, <2>17, <2>18
<1>2. kind \in {"sync", "async"}
  BY DEF DispatchInv
<1>3. ASSUME NEW id \in FnIds, NEW throws \in BOOLEAN, RD!Clean(id)
      PROVE  CASE kind = "sync" /\ ~throws ->
                    sync(id, throws) = RD!Answer(sig(id).returns, sig(id).output)
               [] kind = "sync" /\ throws ->
                    sync(id, throws).status = IF sig(id).output = "none" THEN "INTERNAL"
                                             ELSE "bad_variant_access"
               [] OTHER ->
                    async(id, throws).status = IF throws THEN "INVALID_ARGUMENT" ELSE "OK"
  <2> HIDE DEF sig, sync, async
  <2>1. CASE throws = TRUE
    BY <1>1, <1>2, <1>3, <2>1
  <2>2. CASE throws = FALSE
    BY <1>1, <1>2, <1>3, <2>2
  <2> QED
    BY <2>1, <2>2
<1> QED
  BY <1>3, Zenon DEF RD!AnswerFitsSignature

\* A request that passes validation calls its function with the parameters and
\* the payload it takes, and what the function returns is packed as its
\* signature says (RpcDispatcher).
THEOREM SignaturesAreKept == PartsSpec => []SignatureKept
<1>1. PartsInit => DispatchInv
  BY DispatchInit DEF PartsInit
<1>2. DispatchInv /\ [PartsNext]_partsVars => DispatchInv'
  BY DispatchMoves, DispatchNext
<1>3. DispatchInv => SignatureKept
  BY RequestsFit, AnswersFit DEF SignatureKept
<1> QED
  BY <1>1, <1>2, <1>3, PTL DEF PartsSpec

-----------------------------------------------------------------------------
(* The file streams.                                                       *)

LEMMA FilesMove ==
    [PartsNext]_partsVars => [FS!FsNext]_fileVars
BY DEF PartsNext, partsVars, Rest, fileVars

LEMMA OutFields ==
    ASSUME NEW o \in OutRecords
    PROVE  /\ o.at \in OutStates /\ o.data \in [0 .. 1 -> Bytes]
           /\ o.future \in [0 .. 1 -> Writes \cup {FS!Idle}] /\ o.active \in 0 .. 1
           /\ o.span \in 0 .. BufSize /\ o.byteCount \in Nat /\ o.offset \in Nat
BY DEF OutRecords

LEMMA WriteOrNot ==
    ASSUME NEW w \in Writes \cup {FS!Idle}
    PROVE  /\ w # FS!Idle <=> w.op = "write"
           /\ w # FS!Idle => w \in Writes /\ w.off \in Nat /\ w.size \in 1 .. BufSize
BY DEF Writes, FS!Idle

LEMMA WriterStarts ==
    ASSUME FS!FsInit
    PROVE  Writer(out, file, produced, short)
<1>1. PICK d : d = [b \in FS!Bufs |-> FS!Blank]
  OBVIOUS
<1>2. PICK g : g = [b \in FS!Bufs |-> FS!Idle]
  OBVIOUS
<1>3. d \in [0 .. 1 -> Bytes]
  BY <1>1 DEF FS!Bufs, FS!Blank, Bytes
<1>4. g \in [0 .. 1 -> Writes \cup {FS!Idle}] /\ \A b \in 0 .. 1 : g[b] = FS!Idle
  BY <1>2 DEF FS!Bufs
<1>5. out = [at |-> "idle", data |-> d, future |-> g, active |-> 0,
             span |-> BufSize, byteCount |-> 0, offset |-> 0]
  BY <1>1, <1>2 DEF FS!FsInit
<1>6. /\ out \in OutRecords
      /\ out.at = "idle" /\ out.future = g /\ out.active = 0
      /\ out.span = BufSize /\ out.byteCount = 0 /\ out.offset = 0
  BY <1>3, <1>4, <1>5, BufSizeAssumption DEF OutRecords, OutStates
<1>7. FS!Upto(0) = <<>> /\ BufSize - BufSize = 0
  BY BufSizeAssumption DEF FS!Upto
<1>8. produced = 0 /\ file = <<>> /\ short = FALSE
  BY DEF FS!FsInit
<1>9. Writing(out, file, produced, short)
  <2>1. BufSize - out.span = 0 /\ out.byteCount + 0 = produced
    BY <1>6, <1>7, <1>8
  <2>2. \A b \in 0 .. 1 : out.future[b] = FS!Idle
    BY <1>4, <1>6
  <2>3. ~(\E i \in 1 .. 0 : TRUE) /\ 0 \in 0 .. 1 /\ 1 \in 0 .. 1
    OBVIOUS
  <2> QED
    BY <1>6, <1>7, <1>8, <2>1, <2>2, <2>3 DEF Writing
<1>10. produced \in Nat /\ file \in Seq(Nat)
  BY <1>8
<1>11. short \in BOOLEAN
  BY <1>8
<1> QED
  BY <1>6, <1>9, <1>10, <1>11 DEF Writer

\* A write of the first n bytes of buffer a, all that the stream holds of it.
LEMMA Submits ==
    ASSUME NEW o \in OutRecords, NEW f, NEW p \in Nat, NEW s \in BOOLEAN,
           NEW n \in 1 .. BufSize, NEW r, NEW a,
           Writing(o, f, p, s), o.at \in {"idle", "chunk"}, a = o.active,
           FS!Idle = o.future[1 - a], n = BufSize - o.span,
           r = FS!Submitted(o, a, n)
    PROVE  /\ r \in OutRecords
           /\ r.at = o.at /\ r.data = o.data /\ r.active = o.active /\ r.span = o.span
           /\ r.byteCount = o.byteCount /\ r.offset = p
           /\ r.future[a] # FS!Idle /\ r.future[1 - a] = FS!Idle
           /\ UnderWay(r, r.future[a], r.data[a], f, s)
<1>1. /\ o.data \in [0 .. 1 -> Bytes]
      /\ o.future \in [0 .. 1 -> Writes \cup {FS!Idle}] /\ a \in 0 .. 1
      /\ o.span \in 0 .. BufSize /\ o.byteCount \in Nat /\ o.offset \in Nat
  BY OutFields
<1>2. PICK w : w = [op |-> "write", off |-> o.offset, size |-> n]
  OBVIOUS
<1>3. w \in Writes /\ w # FS!Idle /\ w.off = o.offset /\ w.size = n
  BY <1>1, <1>2 DEF Writes, FS!Idle
<1>4. PICK g : g = [o.future EXCEPT ![a] = w]
  OBVIOUS
<1>5. /\ g \in [0 .. 1 -> Writes \cup {FS!Idle}] /\ g[a] = w
      /\ \A b \in 0 .. 1 : b # a => g[b] = o.future[b]
  BY <1>1, <1>3, <1>4
<1>6. PICK k \in Nat : k = o.offset + n
  BY <1>1, BufSizeAssumption
<1>7. r = [o EXCEPT !.future = g, !.offset = k]
  <2>1. n # 0
    BY BufSizeAssumption
  <2>2. r = [o EXCEPT !.future[a] = [op |-> "write", off |-> o.offset, size |-> n],
                      !.offset = @ + n]
    BY <2>1 DEF FS!Submitted
  <2> QED
    BY <2>2, <1>2, <1>4, <1>6 DEF OutRecords
<1>8. /\ r \in OutRecords
      /\ r.at = o.at /\ r.data = o.data /\ r.active = o.active /\ r.span = o.span
      /\ r.byteCount = o.byteCount /\ r.offset = k /\ r.future = g
  BY <1>5, <1>7 DEF OutRecords
<1>9. o.offset = o.byteCount /\ o.future[a] = FS!Idle /\ o.byteCount + n = p
  BY DEF Writing
<1>10. k = p
  BY <1>6, <1>9
<1>11. \A b \in 0 .. 1 : o.future[b] = FS!Idle
  BY <1>1, <1>9
<1>12. ~s => f = FS!Upto(o.offset)
  BY <1>11 DEF Writing
<1>13. \A i \in 1 .. n : o.data[a][i] = w.off + i
  BY <1>3, <1>9 DEF Writing
<1>14. UnderWay(r, w, r.data[a], f, s)
  BY <1>3, <1>6, <1>8, <1>12, <1>13 DEF UnderWay
<1>15. 1 - a \in 0 .. 1 /\ 1 - a # a
  BY <1>1
<1> QED
  BY <1>3, <1>5, <1>8, <1>10, <1>14, <1>15

\* What Writing says after a submission.
LEMMA Submitting ==
    ASSUME NEW r \in OutRecords, NEW f, NEW p \in Nat, NEW s \in BOOLEAN, NEW a \in 0 .. 1,
           r.future[a] # FS!Idle, r.future[1 - a] = FS!Idle,
           r.at # "destroyed", UnderWay(r, r.future[a], r.data[a], f, s)
    PROVE  /\ r.future[0] = FS!Idle \/ r.future[1] = FS!Idle
           /\ \A b \in 0 .. 1 :
                r.future[b] # FS!Idle =>
                  r.at # "destroyed" /\ UnderWay(r, r.future[b], r.data[b], f, s)
           /\ ~ \A b \in 0 .. 1 : r.future[b] = FS!Idle
<1>1. \A b \in 0 .. 1 : b = a \/ b = 1 - a
  OBVIOUS
<1>2. 0 = 1 - a \/ 1 = 1 - a
  OBVIOUS
<1>3. \A b \in 0 .. 1 : r.future[b] # FS!Idle => b = a
  BY <1>1
<1> QED
  BY <1>2, <1>3

LEMMA OutNextOk ==
    ASSUME Writer(out, file, produced, short), FS!OutNext
    PROVE  Writer(out', file', produced', short')
<1>1. /\ out \in OutRecords /\ produced \in Nat
      /\ file \in Seq(Nat) /\ short \in BOOLEAN
      /\ out.at \in {"idle", "chunk"}
      /\ file' = file /\ short' = short /\ produced' = produced
  BY DEF Writer, FS!OutNext
<1>2. PICK o \in OutRecords : o = out
  BY <1>1
<1>3. /\ o.at \in OutStates /\ o.data \in [0 .. 1 -> Bytes]
      /\ o.future \in [0 .. 1 -> Writes \cup {FS!Idle}] /\ o.active \in 0 .. 1
      /\ o.span \in 0 .. BufSize /\ o.byteCount \in Nat /\ o.offset \in Nat
  BY OutFields
<1>4. Writing(o, file, produced, short)
  BY <1>1, <1>2 DEF Writer
<1>5. CASE out' = [out EXCEPT !.at = "chunk"]
  <2>1. PICK r : r = out'
    OBVIOUS
  <2>2. /\ r.at = "chunk" /\ r.data = o.data /\ r.future = o.future
        /\ r.active = o.active /\ r.span = o.span
        /\ r.byteCount = o.byteCount /\ r.offset = o.offset
        /\ r \in OutRecords
    BY <1>2, <1>5, <2>1 DEF OutRecords, OutStates
  <2>3. Writing(r, file, produced, short)
    BY <1>1, <1>2, <1>4, <2>2 DEF Writing, UnderWay
  <2> QED
    BY <1>1, <2>1, <2>2, <2>3 DEF Writer
<1>6. CASE /\ out.span = 0 /\ FS!Written(FS!Other(out.active))
           /\ out' = [FS!Submitted(out, out.active, BufSize) EXCEPT
                        !.byteCount = @ + BufSize, !.active = FS!Other(@),
                        !.span = BufSize, !.at = "chunk"]
  <2>1. PICK a \in 0 .. 1 : a = o.active
    BY <1>3
  <2>2. BufSize = BufSize - o.span /\ BufSize \in 1 .. BufSize
    BY <1>2, <1>6, BufSizeAssumption
  <2>3. o.future[1 - a] = FS!Idle
    BY <1>2, <1>6, <2>1 DEF FS!Written, FS!Other
  <2>4. PICK r : r = FS!Submitted(o, a, BufSize)
    OBVIOUS
  <2>5. /\ r \in OutRecords
        /\ r.at = o.at /\ r.data = o.data /\ r.active = o.active /\ r.span = o.span
        /\ r.byteCount = o.byteCount /\ r.offset = produced
        /\ r.future[a] # FS!Idle /\ r.future[1 - a] = FS!Idle
        /\ UnderWay(r, r.future[a], r.data[a], file, short)
    BY <1>1, <1>2, <1>4, <2>1, <2>2, <2>3, <2>4, Submits
  <2>6. PICK x : x = out'
    OBVIOUS
  <2>7. x = [r EXCEPT !.byteCount = @ + BufSize, !.active = 1 - @,
                      !.span = BufSize, !.at = "chunk"]
    BY <1>2, <1>6, <2>1, <2>4, <2>6 DEF FS!Other
  <2>8. /\ r.byteCount + BufSize \in Nat /\ 1 - r.active \in 0 .. 1
        /\ BufSize \in 0 .. BufSize /\ "chunk" \in OutStates
    BY <1>3, <2>5, BufSizeAssumption DEF OutStates
  <2>9. /\ x \in OutRecords
        /\ x.at = "chunk" /\ x.data = r.data /\ x.active = 1 - a /\ x.span = BufSize
        /\ x.byteCount = o.byteCount + BufSize /\ x.offset = r.offset /\ x.future = r.future
    BY <2>1, <2>5, <2>7, <2>8 DEF OutRecords
  <2>10. UnderWay(x, x.future[a], x.data[a], file, short)
    BY <2>5, <2>9 DEF UnderWay
  <2>11. /\ x.future[0] = FS!Idle \/ x.future[1] = FS!Idle
         /\ \A b \in 0 .. 1 :
              x.future[b] # FS!Idle =>
                x.at # "destroyed" /\ UnderWay(x, x.future[b], x.data[b], file, short)
         /\ ~ \A b \in 0 .. 1 : x.future[b] = FS!Idle
    BY <1>1, <2>5, <2>9, <2>10, Submitting
  <2>12. BufSize - x.span = 0 /\ x.byteCount + 0 = produced
    BY <1>1, <1>3, <1>4, <2>2, <2>9, BufSizeAssumption DEF Writing
  <2>13. x.offset = x.byteCount /\ x.future[x.active] = FS!Idle
    BY <1>3, <2>5, <2>9, <2>12, BufSizeAssumption
  <2>14. Writing(x, file, produced, short)
    BY <2>9, <2>11, <2>12, <2>13 DEF Writing
  <2> QED
    BY <1>1, <2>6, <2>9, <2>14 DEF Writer
<1> QED
  BY <1>5, <1>6 DEF FS!OutNext

LEMMA OutBackupOk ==
    ASSUME Writer(out, file, produced, short), NEW len \in 0 .. BufSize, FS!OutBackup(len)
    PROVE  Writer(out', file', produced', short')
<1>1. /\ out \in OutRecords /\ produced \in Nat
      /\ file \in Seq(Nat) /\ short \in BOOLEAN
      /\ out.at = "chunk" /\ file' = file /\ short' = short
  BY DEF Writer, FS!OutBackup
<1>2. PICK o \in OutRecords : o = out
  BY <1>1
<1>3. /\ o.at = "chunk" /\ o.data \in [0 .. 1 -> Bytes]
      /\ o.future \in [0 .. 1 -> Writes \cup {FS!Idle}] /\ o.active \in 0 .. 1
      /\ o.span \in 0 .. BufSize /\ o.byteCount \in Nat /\ o.offset \in Nat
  BY <1>1, <1>2, OutFields
<1>4. Writing(o, file, produced, short)
  BY <1>1, <1>2 DEF Writer
<1>5. PICK n \in Nat : n = o.span - len /\ produced' = produced + n
  BY <1>2, <1>3 DEF FS!OutBackup
<1>6. PICK first \in Nat : first = BufSize - o.span /\ o.byteCount + first = produced
  BY <1>3, <1>4, BufSizeAssumption DEF Writing
<1>7. PICK a \in 0 .. 1 : a = o.active
  BY <1>3
<1>8. PICK p \in Nat : p = produced
  BY <1>1
<1>9. PICK d : d = [i \in 1 .. BufSize |->
                      IF i \in first + 1 .. first + n THEN p + i - first ELSE o.data[a][i]]
  OBVIOUS
<1>10. d \in Bytes
  <2>1. \A i \in 1 .. BufSize : i \in first + 1 .. first + n => p + i - first \in Nat
    BY <1>5, <1>6, BufSizeAssumption
  <2>2. \A i \in 1 .. BufSize : o.data[a][i] \in Nat
    BY <1>3 DEF Bytes
  <2> QED
    BY <1>9, <2>1, <2>2 DEF Bytes
<1>11. \A i \in 1 .. first + n : d[i] = o.byteCount + i
  <2> SUFFICES ASSUME NEW i \in 1 .. first + n PROVE d[i] = o.byteCount + i
    OBVIOUS
  <2>1. i \in 1 .. BufSize
    BY <1>3, <1>5, <1>6, BufSizeAssumption
  <2>2. CASE i \in first + 1 .. first + n
    <3>1. d[i] = p + i - first
      BY <1>9, <2>1, <2>2
    <3> QED
      BY <1>3, <1>6, <1>8, <3>1
  <2>3. CASE i \in 1 .. first
    <3>1. i \notin first + 1 .. first + n
      BY <2>3, <1>6
    <3>2. d[i] = o.data[a][i]
      BY <1>9, <2>1, <3>1
    <3> QED
      BY <1>4, <1>6, <1>7, <2>3, <3>2 DEF Writing
  <2> QED
    BY <2>2, <2>3, <1>5, <1>6
<1>12. PICK r : r = out'
  OBVIOUS
<1>13. PICK e : e = [o.data EXCEPT ![a] = d]
  OBVIOUS
<1>14. e \in [0 .. 1 -> Bytes] /\ e[a] = d /\ \A b \in 0 .. 1 : b # a => e[b] = o.data[b]
  BY <1>3, <1>10, <1>13
<1>15. r = [o EXCEPT !.data = e, !.span = len, !.at = "idle"]
  <2>1. r = [o EXCEPT
              !.data[a] = [i \in 1 .. BufSize |->
                 IF i \in first + 1 .. first + n THEN p + i - first ELSE @[i]],
              !.span = len, !.at = "idle"]
    BY <1>2, <1>5, <1>6, <1>7, <1>8, <1>12 DEF FS!OutBackup
  <2> QED
    BY <2>1, <1>9, <1>13 DEF OutRecords
<1>16. /\ r \in OutRecords
       /\ r.at = "idle" /\ r.data = e /\ r.future = o.future /\ r.active = a
       /\ r.span = len /\ r.byteCount = o.byteCount /\ r.offset = o.offset
  BY <1>7, <1>14, <1>15 DEF OutRecords, OutStates
<1>17. BufSize - len = first + n
  BY <1>3, <1>5, <1>6, BufSizeAssumption
<1>18. PICK y \in Nat : y = p + n
  BY <1>5
<1>19. /\ r.byteCount + (BufSize - r.span) = y
       /\ \A i \in 1 .. BufSize - r.span : r.data[r.active][i] = r.byteCount + i
  <2>1. o.byteCount + (first + n) = p + n
    BY <1>3, <1>5, <1>6, <1>8
  <2> QED
    BY <1>11, <1>14, <1>16, <1>17, <1>18, <2>1
<1>20. r.offset = r.byteCount /\ r.future[r.active] = FS!Idle
  BY <1>3, <1>4, <1>7, <1>16 DEF Writing
<1>21. ASSUME NEW b \in 0 .. 1, r.future[b] # FS!Idle
       PROVE  UnderWay(r, r.future[b], r.data[b], file, short)
  <2>1. b # a
    BY <1>20, <1>16, <1>21
  <2>2. UnderWay(o, o.future[b], o.data[b], file, short)
    BY <1>4, <1>16, <1>21 DEF Writing
  <2> QED
    BY <1>14, <1>16, <2>1, <2>2 DEF UnderWay
<1>22. Writing(r, file, y, short)
  BY <1>4, <1>16, <1>19, <1>20, <1>21 DEF Writing
<1> QED
  BY <1>1, <1>5, <1>8, <1>12, <1>16, <1>18, <1>22 DEF Writer

LEMMA FlushSubmitsOk ==
    ASSUME Writer(out, file, produced, short), NEW at \in {"flushing", "closing"},
           FS!FlushSubmits(at)
    PROVE  Writer(out', file', produced', short')
<1>1. /\ out \in OutRecords /\ produced \in Nat
      /\ file \in Seq(Nat) /\ short \in BOOLEAN
      /\ out.at = "idle" /\ file' = file /\ short' = short /\ produced' = produced
  BY DEF Writer, FS!FlushSubmits
<1>2. PICK o \in OutRecords : o = out
  BY <1>1
<1>3. /\ o.at = "idle" /\ o.active \in 0 .. 1
      /\ o.span \in 0 .. BufSize /\ o.byteCount \in Nat /\ o.offset \in Nat
  BY <1>1, <1>2, OutFields
<1>4. Writing(o, file, produced, short)
  BY <1>1, <1>2 DEF Writer
<1>5. PICK a \in 0 .. 1 : a = o.active
  BY <1>3
<1>6. PICK n \in 0 .. BufSize : n = BufSize - o.span
  BY <1>3, BufSizeAssumption
<1>7. PICK r : r = FS!Submitted(o, a, n)
  OBVIOUS
<1>8. PICK x : x = out'
  OBVIOUS
<1>9. x = [r EXCEPT !.at = at]
  BY <1>2, <1>5, <1>6, <1>7, <1>8 DEF FS!FlushSubmits
<1>10. CASE n = 0
  <2>1. r = o
    BY <1>7, <1>10 DEF FS!Submitted
  <2>2. /\ x.at = at /\ x.data = o.data /\ x.future = o.future
        /\ x.active = o.active /\ x.span = o.span
        /\ x.byteCount = o.byteCount /\ x.offset = o.offset
        /\ x \in OutRecords
    BY <1>9, <2>1 DEF OutRecords, OutStates
  <2>3. o.offset = produced
    BY <1>3, <1>4, <1>6, <1>10 DEF Writing
  <2>4. at \notin {"idle", "chunk"} /\ at # "destroyed"
    OBVIOUS
  <2>5. Writing(x, file, produced, short)
    BY <1>1, <1>4, <2>2, <2>3, <2>4 DEF Writing, UnderWay
  <2> QED
    BY <1>1, <1>8, <2>2, <2>5 DEF Writer
<1>11. CASE n # 0
  <2>1. n \in 1 .. BufSize /\ n > 0
    BY <1>6, <1>11, BufSizeAssumption
  <2>2. o.future[1 - a] = FS!Idle
    BY <1>2, <1>5, <1>6, <2>1 DEF FS!Written, FS!Other, FS!FlushSubmits
  <2>3. /\ r \in OutRecords
        /\ r.at = o.at /\ r.data = o.data /\ r.active = o.active /\ r.span = o.span
        /\ r.byteCount = o.byteCount /\ r.offset = produced
        /\ r.future[a] # FS!Idle /\ r.future[1 - a] = FS!Idle
        /\ UnderWay(r, r.future[a], r.data[a], file, short)
    BY <1>1, <1>2, <1>4, <1>5, <1>6, <1>7, <2>1, <2>2, Submits
  <2>4. /\ x \in OutRecords
        /\ x.at = at /\ x.data = o.data /\ x.active = a /\ x.span = o.span
        /\ x.byteCount = o.byteCount /\ x.offset = produced /\ x.future = r.future
    BY <1>5, <1>9, <2>3 DEF OutRecords, OutStates
  <2>5. UnderWay(x, x.future[a], x.data[a], file, short)
    BY <2>3, <2>4 DEF UnderWay
  <2>6. at \notin {"idle", "chunk"} /\ at # "destroyed"
    OBVIOUS
  <2>7. /\ x.future[0] = FS!Idle \/ x.future[1] = FS!Idle
        /\ \A b \in 0 .. 1 :
             x.future[b] # FS!Idle =>
               x.at # "destroyed" /\ UnderWay(x, x.future[b], x.data[b], file, short)
        /\ ~ \A b \in 0 .. 1 : x.future[b] = FS!Idle
    BY <1>1, <2>3, <2>4, <2>5, <2>6, Submitting
  <2>8. Writing(x, file, produced, short)
    BY <1>4, <1>5, <2>4, <2>6, <2>7 DEF Writing
  <2> QED
    BY <1>1, <1>8, <2>4, <2>8 DEF Writer
<1> QED
  BY <1>10, <1>11

LEMMA FlushReturnsOk ==
    ASSUME Writer(out, file, produced, short), FS!FlushReturns
    PROVE  Writer(out', file', produced', short')
<1>1. /\ out \in OutRecords /\ produced \in Nat
      /\ file \in Seq(Nat) /\ short \in BOOLEAN
      /\ out.at \in {"flushing", "closing"}
      /\ file' = file /\ short' = short /\ produced' = produced
  BY DEF Writer, FS!FlushReturns
<1>2. PICK o \in OutRecords : o = out
  BY <1>1
<1>3. /\ o.at \in {"flushing", "closing"} /\ o.active \in 0 .. 1
      /\ o.span \in 0 .. BufSize /\ o.byteCount \in Nat /\ o.offset \in Nat
  BY <1>1, <1>2, OutFields
<1>4. Writing(o, file, produced, short)
  BY <1>1, <1>2 DEF Writer
<1>5. \A b \in 0 .. 1 : o.future[b] = FS!Idle
  BY <1>2 DEF FS!FlushReturns, FS!Written, FS!Bufs
<1>6. PICK x : x = out'
  OBVIOUS
<1>7. PICK at \in {"idle", "destroyed"} :
           at = IF out.at = "flushing" THEN "idle" ELSE "destroyed"
  OBVIOUS
<1>8. o.byteCount + (BufSize - o.span) = produced /\ o.offset = produced
  BY <1>3, <1>4 DEF Writing
<1>9. PICK p \in Nat : p = produced
  BY <1>1
<1>10. x = [o EXCEPT !.byteCount = p, !.span = BufSize, !.at = at]
  BY <1>2, <1>6, <1>7, <1>8, <1>9 DEF FS!FlushReturns, FS!OutByteCount
<1>11. /\ x \in OutRecords
       /\ x.at = at /\ x.data = o.data /\ x.active = o.active /\ x.span = BufSize
       /\ x.byteCount = p /\ x.offset = p /\ x.future = o.future
  <2>1. o.offset = p /\ BufSize \in 0 .. BufSize /\ at \in OutStates
    BY <1>8, <1>9, BufSizeAssumption DEF OutStates
  <2> QED
    BY <1>10, <2>1 DEF OutRecords
<1>12. BufSize - x.span = 0 /\ x.byteCount + 0 = p
  BY <1>11, BufSizeAssumption
<1>13. Writing(x, file, p, short)
  BY <1>3, <1>4, <1>5, <1>8, <1>9, <1>11, <1>12 DEF Writing
<1> QED
  BY <1>1, <1>6, <1>9, <1>11, <1>13 DEF Writer

LEMMA WriteFailsOk ==
    ASSUME Writer(out, file, produced, short), NEW b \in 0 .. 1, FS!WriteFails(b)
    PROVE  Writer(out', file', produced', short')
<1>1. /\ out \in OutRecords /\ produced \in Nat
      /\ file \in Seq(Nat) /\ short \in BOOLEAN
      /\ file' = file /\ short' = short /\ produced' = produced
  BY DEF Writer, FS!WriteFails
<1>2. PICK g : g = [out.future EXCEPT ![b] = FS!Idle]
  OBVIOUS
<1>3. g \in [0 .. 1 -> Writes \cup {FS!Idle}]
  BY <1>1, <1>2, OutFields
<1>4. out' = [out EXCEPT !.at = "failed", !.future = g]
  BY <1>1, <1>2 DEF FS!WriteFails, OutRecords
<1>5. out' \in OutRecords /\ out'.at = "failed"
  BY <1>1, <1>3, <1>4 DEF OutRecords, OutStates
<1> QED
  BY <1>1, <1>5 DEF Writer

LEMMA WriteDoneOk ==
    ASSUME Writer(out, file, produced, short), NEW b \in 0 .. 1, NEW n \in 0 .. BufSize,
           FS!WriteDone(b, n)
    PROVE  /\ Writer(out', file', produced', short')
           /\ out.at # "destroyed" /\ out'.at = out.at
<1>1. /\ out \in OutRecords /\ produced \in Nat
      /\ file \in Seq(Nat) /\ short \in BOOLEAN /\ produced' = produced
  BY DEF Writer, FS!WriteDone
<1>2. PICK o \in OutRecords : o = out
  BY <1>1
<1>3. /\ o.data \in [0 .. 1 -> Bytes]
      /\ o.future \in [0 .. 1 -> Writes \cup {FS!Idle}] /\ o.active \in 0 .. 1
      /\ o.span \in 0 .. BufSize /\ o.byteCount \in Nat /\ o.offset \in Nat
  BY OutFields
<1>4. PICK w \in Writes \cup {FS!Idle} : w = o.future[b]
  BY <1>3
<1>5. w.op = "write" /\ n \in 1 .. w.size
  BY <1>2, <1>4 DEF FS!WriteDone
<1>6. w # FS!Idle /\ w.off \in Nat /\ w.size \in 1 .. BufSize
  BY <1>5, WriteOrNot
<1>7. PICK end \in Nat : end = w.off + n
  BY <1>6
<1>8. PICK d \in Bytes : d = o.data[b]
  BY <1>3
<1>9. PICK old \in Seq(Nat) : old = file
  BY <1>1
<1>10. PICK top \in Nat : top = IF Len(old) > end THEN Len(old) ELSE end
  BY <1>9
<1>11. PICK f : f = [i \in 1 .. top |->
                       IF i \in w.off + 1 .. end THEN d[i - w.off]
                       ELSE IF i <= Len(old) THEN old[i] ELSE 0]
  OBVIOUS
<1>12. file' = f
  BY <1>2, <1>4, <1>7, <1>8, <1>9, <1>10, <1>11 DEF FS!WriteDone
<1>13. f \in Seq(Nat)
  <2>1. ASSUME NEW i \in 1 .. top
        PROVE  (IF i \in w.off + 1 .. end THEN d[i - w.off]
                ELSE IF i <= Len(old) THEN old[i] ELSE 0) \in Nat
    <3>1. CASE i \in w.off + 1 .. end
      <4>1. i - w.off \in 1 .. BufSize
        BY <1>5, <1>6, <1>7, <3>1, BufSizeAssumption
      <4> QED
        BY <3>1, <4>1, <1>8 DEF Bytes
    <3>2. CASE i \notin w.off + 1 .. end
      <4>1. i <= Len(old) => i \in 1 .. Len(old) /\ old[i] \in Nat
        BY <1>9, <2>1
      <4> QED
        BY <3>2, <4>1
    <3> QED
      BY <3>1, <3>2
  <2>2. f \in [1 .. top -> Nat]
    BY <1>11, <2>1
  <2> QED
    BY <2>1, <1>11, <1>10
<1>14. PICK g : g = [o.future EXCEPT ![b] = FS!Idle]
  OBVIOUS
<1>15. /\ g \in [0 .. 1 -> Writes \cup {FS!Idle}] /\ g[b] = FS!Idle
       /\ \A c \in 0 .. 1 : c # b => g[c] = o.future[c]
  BY <1>3, <1>14
<1>16. PICK x : x = out'
  OBVIOUS
<1>17. x = [o EXCEPT !.future = g]
  BY <1>2, <1>14, <1>16 DEF FS!WriteDone, OutRecords
<1>18. /\ x \in OutRecords
       /\ x.at = o.at /\ x.data = o.data /\ x.active = o.active /\ x.span = o.span
       /\ x.byteCount = o.byteCount /\ x.offset = o.offset /\ x.future = g
  BY <1>15, <1>17 DEF OutRecords
<1>19. short' \in BOOLEAN /\ (~short' => ~short /\ ~(n < w.size))
  <2>1. short' = (short \/ n < w.size)
    BY <1>2, <1>4 DEF FS!WriteDone
  <2> QED
    BY <2>1, Zenon
<1>20. CASE out.at = "failed"
  BY <1>1, <1>2, <1>12, <1>13, <1>16, <1>18, <1>19, <1>20 DEF Writer
<1>21. CASE out.at # "failed"
  <2>1. Writing(o, file, produced, short)
    BY <1>2, <1>21 DEF Writer
  <2>2. o.at # "destroyed" /\ UnderWay(o, w, d, file, short)
    BY <1>4, <1>6, <1>8, <2>1 DEF Writing
  <2>3. \A c \in 0 .. 1 : g[c] = FS!Idle
    BY <1>4, <1>6, <1>15, <2>1 DEF Writing
  <2>4. ASSUME ~short'
        PROVE  f = FS!Upto(o.offset)
    <3>1. n = w.size /\ ~short
      BY <1>5, <1>6, <1>19, <2>4
    <3>2. old = FS!Upto(w.off) /\ end = o.offset
      BY <1>7, <1>9, <2>2, <3>1 DEF UnderWay
    <3>3. Len(old) = w.off /\ \A i \in 1 .. w.off : old[i] = i
      BY <1>6, <1>9, <3>2 DEF FS!Upto
    <3>4. top = end
      BY <1>5, <1>6, <1>7, <1>10, <3>3
    <3>5. ASSUME NEW i \in 1 .. end
          PROVE  (IF i \in w.off + 1 .. end THEN d[i - w.off]
                  ELSE IF i <= Len(old) THEN old[i] ELSE 0) = i
      <4>1. CASE i \in w.off + 1 .. end
        <5>1. PICK j \in 1 .. w.size : j = i - w.off
          BY <1>6, <1>7, <3>1, <4>1
        <5>2. d[j] = w.off + j
          BY <2>2 DEF UnderWay
        <5> QED
          BY <4>1, <5>1, <5>2, <1>6
      <4>2. CASE i \notin w.off + 1 .. end
        <5>1. i \in 1 .. w.off
          BY <1>6, <4>2
        <5> QED
          BY <3>3, <4>2, <5>1, <1>6
      <4> QED
        BY <4>1, <4>2
    <3> QED
      BY <1>11, <3>2, <3>4, <3>5 DEF FS!Upto
  <2>5. Writing(x, f, produced, short')
    <3>1. /\ x.byteCount + (BufSize - x.span) = produced
          /\ x.at \in {"idle", "chunk"} => x.offset = x.byteCount
          /\ x.at \notin {"idle", "chunk"} => x.offset = produced
          /\ \A i \in 1 .. BufSize - x.span : x.data[x.active][i] = x.byteCount + i
      BY <1>18, <2>1 DEF Writing
    <3>2. \A c \in 0 .. 1 : x.future[c] = FS!Idle
      BY <1>18, <2>3
    <3>3. x.active \in 0 .. 1 /\ 0 \in 0 .. 1
      BY <1>3, <1>18
    <3>4. ~short' => f = FS!Upto(x.offset)
      BY <1>18, <2>4
    <3> QED
      BY <3>1, <3>2, <3>3, <3>4 DEF Writing
  <2> QED
    BY <1>1, <1>2, <1>12, <1>13, <1>16, <1>18, <1>19, <2>2, <2>5 DEF Writer
<1> QED
  BY <1>20, <1>21

\* Reading leaves the writer's state alone, or makes a transfer short.
LEMMA WriterLeft ==
    ASSUME Writer(out, file, produced, short), short' \in BOOLEAN, ~short' => ~short,
           UNCHANGED <<out, file, produced>>
    PROVE  Writer(out', file', produced', short')
<1>1. Writing(out, file, produced, short) => Writing(out, file, produced, short')
  BY DEF Writing, UnderWay
<1> QED
  BY <1>1 DEF Writer

LEMMA InFields ==
    ASSUME NEW i \in InRecords
    PROVE  /\ i.at \in InStates /\ i.data \in [0 .. 1 -> Bytes]
           /\ i.future \in [0 .. 1 -> Reads \cup Dones \cup {FS!Idle}]
           /\ i.len \in [0 .. 1 -> 0 .. BufSize] /\ i.pos \in [0 .. 1 -> 0 .. BufSize]
           /\ i.active \in 0 .. 1 /\ i.chunk \in Nat /\ i.skip \in Nat
           /\ i.byteCount \in Nat /\ i.offset \in Nat
BY DEF InRecords

LEMMA ReadOrNot ==
    ASSUME NEW w \in Reads \cup Dones \cup {FS!Idle}
    PROVE  /\ w # FS!Idle <=> w.op \in {"read", "done"}
           /\ w.op = "read" => w \in Reads /\ w.off \in Nat
           /\ w.op = "done" => w \in Dones /\ w.n \in 0 .. BufSize
           /\ w.op \in {"read", "done", "none"}
BY DEF Reads, Dones, FS!Idle

LEMMA ReaderStarts ==
    ASSUME FS!FsInit
    PROVE  Reader(in, file, consumed, short)
<1>1. PICK d : d = [b \in FS!Bufs |-> FS!Blank]
  OBVIOUS
<1>2. PICK g : g = [b \in FS!Bufs |-> FS!Idle]
  OBVIOUS
<1>3. PICK z : z = [b \in FS!Bufs |-> 0]
  OBVIOUS
<1>4. d \in [0 .. 1 -> Bytes]
  BY <1>1 DEF FS!Bufs, FS!Blank, Bytes
<1>5. /\ g \in [0 .. 1 -> Reads \cup Dones \cup {FS!Idle}]
      /\ \A b \in 0 .. 1 : g[b] = FS!Idle
  BY <1>2 DEF FS!Bufs
<1>6. z \in [0 .. 1 -> 0 .. BufSize]
  BY <1>3, BufSizeAssumption DEF FS!Bufs
<1>7. in = [at |-> "unborn", data |-> d, future |-> g, len |-> z, pos |-> z, active |-> 0,
            chunk |-> 0, skip |-> 0, byteCount |-> 0, offset |-> 0]
  BY <1>1, <1>2, <1>3 DEF FS!FsInit
<1>8. /\ in \in InRecords
      /\ in.at = "unborn" /\ in.active = 0 /\ in.chunk = 0
      /\ in.byteCount = 0 /\ in.offset = 0 /\ in.future = g
  BY <1>4, <1>5, <1>6, <1>7, BufSizeAssumption DEF InRecords, InStates
<1>9. file = <<>> /\ consumed = <<>>
  BY DEF FS!FsInit
<1>10. short \in BOOLEAN
  BY DEF FS!FsInit
<1>11. /\ file \in Seq(Nat) /\ consumed \in Seq(Nat)
       /\ Len(file) = 0 /\ Len(consumed) = 0
       /\ \A k \in 1 .. Len(consumed) : consumed[k] = file[k]
  BY <1>9
<1> QED
  BY <1>5, <1>8, <1>9, <1>10, <1>11 DEF Reader

\* Before the stream is opened only the file changes.
LEMMA ReaderUnborn ==
    ASSUME Reader(in, file, consumed, short), in.at = "unborn",
           file' \in Seq(Nat), short' \in BOOLEAN, UNCHANGED <<in, consumed>>
    PROVE  Reader(in', file', consumed', short')
<1>1. consumed = <<>> /\ Len(consumed) = 0 /\ Len(file') \in Nat
  BY DEF Reader
<1>2. Len(consumed) <= Len(file') /\ \A k \in 1 .. Len(consumed) : consumed[k] = file'[k]
  BY <1>1
<1> QED
  BY <1>2 DEF Reader

LEMMA InOpenOk ==
    ASSUME Reader(in, file, consumed, short), FS!InOpen
    PROVE  Reader(in', file', consumed', short')
<1>1. /\ in \in InRecords /\ in.at = "unborn" /\ consumed = <<>> /\ in.offset = 0
      /\ in.active = 0 /\ file' = file /\ consumed' = consumed /\ short' = short
      /\ in.chunk = 0
  BY DEF Reader, FS!InOpen
<1>2. PICK i \in InRecords : i = in
  BY <1>1
<1>3. /\ i.data \in [0 .. 1 -> Bytes]
      /\ i.future \in [0 .. 1 -> Reads \cup Dones \cup {FS!Idle}]
  BY InFields
<1>4. PICK u : u = [op |-> "read", off |-> 0]
  OBVIOUS
<1>5. PICK v : v = [op |-> "read", off |-> BufSize]
  OBVIOUS
<1>6. /\ u \in Reads /\ v \in Reads /\ u # FS!Idle /\ v # FS!Idle
      /\ u.op = "read" /\ u.off = 0 /\ v.op = "read" /\ v.off = BufSize
  BY <1>4, <1>5, BufSizeAssumption DEF Reads, FS!Idle
<1>7. PICK g : g = [i.future EXCEPT ![0] = u]
  OBVIOUS
<1>8. PICK h : h = [g EXCEPT ![1] = v]
  OBVIOUS
<1>9. /\ h \in [0 .. 1 -> Reads \cup Dones \cup {FS!Idle}]
      /\ h[0] = u /\ h[1] = v
  BY <1>3, <1>6, <1>7, <1>8
<1>10. FS!Prefetched(i, 0) = [i EXCEPT !.future = g, !.offset = BufSize]
  <2>1. i.offset + BufSize = BufSize /\ i.offset = 0
    BY <1>1, <1>2, BufSizeAssumption
  <2> QED
    BY <1>4, <1>7, <2>1 DEF FS!Prefetched, InRecords
<1>11. PICK j : j = [i EXCEPT !.future = g, !.offset = BufSize]
  OBVIOUS
<1>12. j.future = g /\ j.offset = BufSize
  BY <1>11 DEF InRecords
<1>13. PICK e \in Nat : e = BufSize + BufSize
  BY BufSizeAssumption
<1>14. FS!Prefetched(j, 1) = [j EXCEPT !.future = h, !.offset = e]
  BY <1>5, <1>8, <1>11, <1>12, <1>13 DEF FS!Prefetched, InRecords
<1>15. PICK x : x = in'
  OBVIOUS
<1>16. x = [[j EXCEPT !.future = h, !.offset = e] EXCEPT !.at = "idle"]
  BY <1>2, <1>10, <1>11, <1>14, <1>15 DEF FS!InOpen
<1>17. /\ x \in InRecords
       /\ x.at = "idle" /\ x.future = h /\ x.offset = e /\ x.active = 0 /\ x.chunk = 0
       /\ x.byteCount = i.byteCount /\ x.data = i.data
  BY <1>1, <1>2, <1>9, <1>11, <1>16 DEF InRecords, InStates
<1>18. /\ 1 - 0 = 1 /\ e = 0 + 2 * BufSize /\ 0 + BufSize = BufSize
       /\ Len(consumed) = 0
  BY <1>1, <1>13, BufSizeAssumption
<1>19. Reading(x, 0, file, consumed, short)
  BY <1>6, <1>9, <1>17, <1>18 DEF Reading, Ahead, Fetched
<1> QED
  BY <1>1, <1>2, <1>15, <1>17, <1>19 DEF Reader

\* wait_for_buffer_ready leaves the active buffer ready for the client.
LEMMA WaitedOk ==
    ASSUME NEW i, NEW f, NEW c, NEW s, Reader(i, f, c, s),
           i.at \in {"idle", "switched"}, NEW a, a = i.active, FS!Ready(i, a),
           NEW w, w = FS!Waited(i, a)
    PROVE  /\ w \in InRecords /\ w.active = a /\ w.chunk = 0
           /\ w.byteCount = i.byteCount
           /\ \E base \in Nat : Ahead(w, base, f, c, s) /\ Current(w, base, f, c, s)
           /\ i.at = "switched" => w.pos[a] = 0
<1>1. /\ i \in InRecords /\ f \in Seq(Nat) /\ c \in Seq(Nat)
      /\ i.chunk = 0 /\ i.at # "unborn"
  BY DEF Reader
<1>2. PICK base \in Nat : Reading(i, base, f, c, s)
  BY <1>1 DEF Reader
<1>3. /\ i.data \in [0 .. 1 -> Bytes]
      /\ i.future \in [0 .. 1 -> Reads \cup Dones \cup {FS!Idle}]
      /\ i.len \in [0 .. 1 -> 0 .. BufSize] /\ i.pos \in [0 .. 1 -> 0 .. BufSize]
      /\ a \in 0 .. 1
  BY <1>1, InFields
<1>4. CASE i.future[a] = FS!Idle
  <2>1. w = i
    BY <1>4 DEF FS!Waited
  <2>2. Ahead(i, base, f, c, s) /\ Current(i, base, f, c, s) /\ i.at # "switched"
    BY <1>2, <1>4 DEF Reading
  <2> QED
    BY <1>1, <2>1, <2>2
<1>5. CASE i.future[a] # FS!Idle
  <2>1. PICK u \in Reads \cup Dones \cup {FS!Idle} : u = i.future[a]
    BY <1>3
  <2>2. u.op = "done" /\ u.n \in 0 .. BufSize
    BY <1>5, <2>1, ReadOrNot DEF FS!Ready
  <2>3. Ahead(i, base, f, c, s) /\ Fetched(u, i.data[a], base, f, s) /\ Len(c) = base
    BY <1>2, <1>5, <2>1 DEF Reading, Current
  <2>4. Holds(i.data[a], u.n, base, f, s)
    BY <2>2, <2>3 DEF Fetched
  <2>5. PICK l : l = [i.len EXCEPT ![a] = u.n]
    OBVIOUS
  <2>6. PICK p : p = [i.pos EXCEPT ![a] = 0]
    OBVIOUS
  <2>7. PICK g : g = [i.future EXCEPT ![a] = FS!Idle]
    OBVIOUS
  <2>8. /\ l \in [0 .. 1 -> 0 .. BufSize] /\ l[a] = u.n
        /\ p \in [0 .. 1 -> 0 .. BufSize] /\ p[a] = 0
        /\ g \in [0 .. 1 -> Reads \cup Dones \cup {FS!Idle}] /\ g[a] = FS!Idle
        /\ g[1 - a] = i.future[1 - a]
    BY <1>3, <2>2, <2>5, <2>6, <2>7, BufSizeAssumption
  <2>9. w = [i EXCEPT !.len = l, !.pos = p, !.future = g]
    BY <1>1, <1>5, <2>1, <2>5, <2>6, <2>7 DEF FS!Waited, InRecords
  <2>10. /\ w \in InRecords /\ w.active = a /\ w.chunk = 0 /\ w.byteCount = i.byteCount
         /\ w.data = i.data /\ w.len = l /\ w.pos = p /\ w.future = g /\ w.offset = i.offset
    BY <1>1, <2>8, <2>9 DEF InRecords
  <2>11. Ahead(w, base, f, c, s)
    BY <2>3, <2>8, <2>10 DEF Ahead
  <2>12. Current(w, base, f, c, s)
    <3>1. Len(c) + w.chunk = base + w.pos[a]
      BY <2>3, <2>8, <2>10
    <3>2. w.pos[a] <= w.len[a]
      BY <2>2, <2>8, <2>10, BufSizeAssumption
    <3> QED
      BY <2>4, <2>8, <2>10, <3>1, <3>2 DEF Current
  <2> QED
    BY <2>8, <2>10, <2>11, <2>12
<1> QED
  BY <1>4, <1>5

\* Next gives the client the rest of the active buffer.
LEMMA GivenOk ==
    ASSUME NEW i \in InRecords, NEW f \in Seq(Nat), NEW c \in Seq(Nat), NEW s \in BOOLEAN,
           NEW base \in Nat, Ahead(i, base, f, c, s), Current(i, base, f, c, s),
           i.chunk = 0, i.byteCount = Len(c),
           Len(c) <= Len(f), \A k \in 1 .. Len(c) : c[k] = f[k],
           NEW x, x = FS!Given(i)
    PROVE  Reader(x, f, c, s)
<1>1. PICK a \in 0 .. 1 : a = i.active
  BY InFields
<1>2. /\ i.len \in [0 .. 1 -> 0 .. BufSize] /\ i.pos \in [0 .. 1 -> 0 .. BufSize]
      /\ i.len[a] \in 0 .. BufSize /\ i.pos[a] \in 0 .. BufSize
  BY InFields
<1>3. PICK n \in Nat : n = i.len[a] - i.pos[a]
  BY <1>1, <1>2, BufSizeAssumption DEF Current
<1>4. PICK p : p = [i.pos EXCEPT ![a] = i.len[a]]
  OBVIOUS
<1>5. p \in [0 .. 1 -> 0 .. BufSize] /\ p[a] = i.len[a]
  BY <1>2, <1>4
<1>6. PICK k \in Nat : k = i.byteCount + n
  BY <1>3, InFields
<1>7. x = [i EXCEPT !.pos = p, !.chunk = n, !.byteCount = k, !.at = "chunk"]
  BY <1>1, <1>3, <1>4, <1>6 DEF FS!Given, InRecords
<1>8. /\ x \in InRecords
      /\ x.at = "chunk" /\ x.data = i.data /\ x.future = i.future /\ x.len = i.len
      /\ x.pos = p /\ x.active = a /\ x.chunk = n /\ x.byteCount = k /\ x.offset = i.offset
  BY <1>1, <1>5, <1>7, ZenonT(20) DEF InRecords, InStates
<1>9. Ahead(x, base, f, c, s)
  BY <1>1, <1>8 DEF Ahead
<1>10. Len(c) = base + i.pos[a] /\ Len(c) \in Nat
  BY <1>1, <1>2 DEF Current
<1>11. /\ Len(c) + n = base + i.len[a] /\ n <= i.len[a]
  <2>1. PICK l \in Nat : l = i.len[a]
    BY <1>2, BufSizeAssumption
  <2>2. PICK k0 \in Nat : k0 = i.pos[a]
    BY <1>2, BufSizeAssumption
  <2>3. PICK m \in Nat : m = Len(c)
    BY <1>10
  <2>4. n = l - k0 /\ m = base + k0
    BY <1>3, <1>10, <2>1, <2>2, <2>3
  <2>5. m + n = base + l /\ n <= l
    BY <2>4
  <2> QED
    BY <2>1, <2>3, <2>5
<1>12. i.len[a] <= i.len[a]
  BY <1>2, BufSizeAssumption
<1>13. Current(x, base, f, c, s)
  BY <1>1, <1>5, <1>8, <1>11, <1>12 DEF Current
<1>14. Reading(x, base, f, c, s)
  BY <1>5, <1>8, <1>9, <1>11, <1>13 DEF Reading
<1>15. x.byteCount = Len(c) + x.chunk
  BY <1>6, <1>8
<1> QED
  BY <1>8, <1>14, <1>15 DEF Reader

\* Next finds the end of the file.
LEMMA EndedOk ==
    ASSUME NEW i \in InRecords, NEW f \in Seq(Nat), NEW c \in Seq(Nat), NEW s \in BOOLEAN,
           NEW base \in Nat, Ahead(i, base, f, c, s), Current(i, base, f, c, s),
           i.chunk = 0, i.byteCount = Len(c),
           Len(c) <= Len(f), \A k \in 1 .. Len(c) : c[k] = f[k],
           ~(i.pos[i.active] < i.len[i.active]), i.len[i.active] < BufSize,
           NEW x, x = FS!Ended(i)
    PROVE  Reader(x, f, c, s)
<1>1. PICK a \in 0 .. 1 : a = i.active
  BY InFields
<1>2. i.len[a] \in 0 .. BufSize /\ i.pos[a] \in 0 .. BufSize
  BY InFields
<1>3. /\ x \in InRecords
      /\ x.at = "eof" /\ x.data = i.data /\ x.future = i.future /\ x.len = i.len
      /\ x.pos = i.pos /\ x.active = a /\ x.chunk = 0 /\ x.byteCount = i.byteCount
      /\ x.offset = i.offset
  BY <1>1, ZenonT(20) DEF InRecords, InStates, FS!Ended
<1>4. Reading(x, base, f, c, s)
  BY <1>1, <1>3 DEF Reading, Ahead, Current
<1>5. ~s => Len(c) = Len(f)
  <2>1. i.pos[a] = i.len[a] /\ Len(c) = base + i.pos[a]
    BY <1>1, <1>2, BufSizeAssumption DEF Current
  <2>2. ~s => base + i.len[a] >= Len(f)
    BY <1>1 DEF Current, Holds
  <2> QED
    BY <1>2, <2>1, <2>2
<1>6. x.byteCount = Len(c) + x.chunk
  BY <1>3
<1> QED
  BY <1>3, <1>4, <1>5, <1>6 DEF Reader

\* Next has used up a full buffer: it is read again behind the other one.
LEMMA SwitchedOk ==
    ASSUME NEW i \in InRecords, NEW f \in Seq(Nat), NEW c \in Seq(Nat), NEW s \in BOOLEAN,
           NEW base \in Nat, Ahead(i, base, f, c, s), Current(i, base, f, c, s),
           i.chunk = 0, i.byteCount = Len(c),
           Len(c) <= Len(f), \A k \in 1 .. Len(c) : c[k] = f[k],
           ~(i.pos[i.active] < i.len[i.active]), ~(i.len[i.active] < BufSize),
           NEW x, x = [FS!Prefetched(i, i.active) EXCEPT !.active = FS!Other(i.active),
                                                         !.at = "switched"]
    PROVE  Reader(x, f, c, s)
<1>1. PICK a \in 0 .. 1 : a = i.active
  BY InFields
<1>2. /\ i.len[a] \in 0 .. BufSize /\ i.pos[a] \in 0 .. BufSize /\ i.offset \in Nat
      /\ i.future \in [0 .. 1 -> Reads \cup Dones \cup {FS!Idle}]
  BY InFields
<1>3. PICK u : u = [op |-> "read", off |-> i.offset]
  OBVIOUS
<1>4. u \in Reads /\ u # FS!Idle /\ u.op = "read" /\ u.off = i.offset
  BY <1>2, <1>3 DEF Reads, FS!Idle
<1>5. PICK g : g = [i.future EXCEPT ![a] = u]
  OBVIOUS
<1>6. PICK o \in 0 .. 1 : o = 1 - a
  OBVIOUS
<1>7. o # a /\ 1 - o = a
  BY <1>6
<1>8. /\ g \in [0 .. 1 -> Reads \cup Dones \cup {FS!Idle}]
      /\ g[a] = u /\ g[o] = i.future[o]
  BY <1>2, <1>4, <1>5, <1>7
<1>9. PICK e \in Nat : e = i.offset + BufSize
  BY <1>2, BufSizeAssumption
<1>10. FS!Prefetched(i, a) = [i EXCEPT !.future = g, !.offset = e]
  BY <1>3, <1>5, <1>9 DEF FS!Prefetched, InRecords
<1>11. x = [[i EXCEPT !.future = g, !.offset = e] EXCEPT !.active = o, !.at = "switched"]
  BY <1>1, <1>6, <1>10 DEF FS!Other
<1>12. /\ x \in InRecords
       /\ x.at = "switched" /\ x.data = i.data /\ x.future = g
       /\ x.active = o /\ x.chunk = 0 /\ x.byteCount = i.byteCount
       /\ x.offset = e
  BY <1>8, <1>11, ZenonT(20) DEF InRecords, InStates
<1>13. PICK n \in Nat : n = base + BufSize
  BY BufSizeAssumption
<1>14. i.offset = base + 2 * BufSize
  BY DEF Ahead
<1>15. e = n + 2 * BufSize /\ u.off = n + BufSize
  BY <1>4, <1>9, <1>13, <1>14, BufSizeAssumption
<1>16. Len(c) = n
  <2>1. i.pos[a] = BufSize
    <3>1. i.pos[a] <= i.len[a] /\ ~(i.pos[a] < i.len[a]) /\ ~(i.len[a] < BufSize)
      BY <1>1 DEF Current
    <3> QED
      BY <1>2, <3>1, BufSizeAssumption
  <2>2. Len(c) + 0 = base + BufSize
    BY <1>1, <2>1 DEF Current
  <2> QED
    BY <1>13, <2>2
<1>17. i.future[o] # FS!Idle /\ Fetched(i.future[o], i.data[o], n, f, s)
  BY <1>1, <1>6, <1>13 DEF Ahead
<1>18. Fetched(u, i.data[a], n + BufSize, f, s)
  BY <1>4, <1>15 DEF Fetched
<1>19. Ahead(x, n, f, c, s)
  BY <1>4, <1>7, <1>8, <1>12, <1>15, <1>18 DEF Ahead
<1>20. Reading(x, n, f, c, s)
  BY <1>8, <1>12, <1>16, <1>17, <1>19 DEF Reading
<1>21. x.byteCount = Len(c) + x.chunk
  BY <1>12
<1> QED
  BY <1>12, <1>20, <1>21 DEF Reader

LEMMA InNextOk ==
    ASSUME Reader(in, file, consumed, short), FS!InNext \/ FS!InNextSwitched
    PROVE  Reader(in', file', consumed', short')
<1>1. /\ in.at \in {"idle", "switched"} /\ FS!Ready(in, in.active)
      /\ file' = file /\ consumed' = consumed /\ short' = short
  BY DEF FS!InNext, FS!InNextSwitched
<1>2. PICK i : i = in
  OBVIOUS
<1>3. PICK a : a = i.active
  OBVIOUS
<1>4. PICK w : w = FS!Waited(i, a)
  OBVIOUS
<1>5. PICK f \in Seq(Nat), c \in Seq(Nat), s \in BOOLEAN : f = file /\ c = consumed /\ s = short
  BY DEF Reader
<1>6. Reader(i, f, c, s)
  BY <1>2, <1>5
<1>7. /\ w \in InRecords /\ w.active = a /\ w.chunk = 0
      /\ w.byteCount = i.byteCount
      /\ \E base \in Nat : Ahead(w, base, f, c, s) /\ Current(w, base, f, c, s)
      /\ i.at = "switched" => w.pos[a] = 0
  BY <1>1, <1>2, <1>3, <1>4, <1>6, WaitedOk
<1>8. PICK base \in Nat : Ahead(w, base, f, c, s) /\ Current(w, base, f, c, s)
  BY <1>7
<1>9. /\ w.byteCount = Len(c)
      /\ Len(c) <= Len(f) /\ \A k \in 1 .. Len(c) : c[k] = f[k]
  <2>1. i.chunk = 0 /\ i.byteCount = Len(c) + i.chunk
    BY <1>1, <1>2, <1>6 DEF Reader
  <2> QED
    BY <1>6, <1>7, <2>1 DEF Reader
<1>10. PICK x : x = in'
  OBVIOUS
<1>11. \/ x = FS!Given(w)
       \/ /\ ~(w.pos[a] < w.len[a]) /\ w.len[a] < BufSize
          /\ x = FS!Ended(w)
       \/ /\ ~(w.pos[a] < w.len[a]) /\ ~(w.len[a] < BufSize)
          /\ x = [FS!Prefetched(w, a) EXCEPT !.active = FS!Other(a), !.at = "switched"]
  <2>1. CASE FS!InNext
    BY <1>2, <1>3, <1>4, <1>10, <2>1, Zenon DEF FS!InNext
  <2>2. CASE FS!InNextSwitched
    <3>1. w.pos[a] = 0
      BY <1>2, <1>7, <2>2 DEF FS!InNextSwitched
    <3>2. w.len[a] \in 0 .. BufSize
      BY <1>7, InFields
    <3>3. ~(w.pos[a] < w.len[a]) => w.len[a] < BufSize
      BY <3>1, <3>2, BufSizeAssumption
    <3>4. x = IF w.pos[a] < w.len[a] THEN FS!Given(w) ELSE FS!Ended(w)
      BY <1>2, <1>3, <1>4, <1>10, <2>2, Zenon DEF FS!InNextSwitched
    <3> QED
      BY <3>3, <3>4
  <2> QED
    BY <2>1, <2>2
<1>12. Reader(x, f, c, s)
  <2>1. CASE x = FS!Given(w)
    BY <1>7, <1>8, <1>9, <2>1, GivenOk
  <2>2. CASE /\ ~(w.pos[w.active] < w.len[w.active]) /\ w.len[w.active] < BufSize
             /\ x = FS!Ended(w)
    BY <1>7, <1>8, <1>9, <2>2, EndedOk
  <2>3. CASE /\ ~(w.pos[w.active] < w.len[w.active]) /\ ~(w.len[w.active] < BufSize)
             /\ x = [FS!Prefetched(w, w.active) EXCEPT !.active = FS!Other(w.active),
                                                       !.at = "switched"]
    <3>1. /\ Ahead(w, base, f, c, s) /\ Current(w, base, f, c, s)
          /\ w.chunk = 0 /\ w \in InRecords
      BY <1>7, <1>8
    <3> QED
      BY <1>9, <2>3, <3>1, SwitchedOk, Zenon
  <2> QED
    BY <1>7, <1>11, <2>1, <2>2, <2>3
<1> QED
  BY <1>1, <1>5, <1>10, <1>12

LEMMA Appended ==
    ASSUME NEW c \in Seq(Nat), NEW d \in Bytes, NEW n \in Nat, NEW first \in Nat,
           first + n <= BufSize, NEW r, r = Kept(c, d, first, n)
    PROVE  Joined(r, c, d, first, n)
<1>0. PICK m \in Nat : m = Len(c)
  OBVIOUS
<1>1. PICK x \in Int, y \in Int : x = first + 1 /\ y = first + n
  OBVIOUS
<1>2. PICK t : t = SubSeq(d, x, y)
  OBVIOUS
<1>3. \A i \in x .. y : d[i] \in Nat
  <2>1. \A i \in x .. y : i \in 1 .. BufSize
    BY <1>1, BufSizeAssumption
  <2> QED
    BY <2>1 DEF Bytes
<1>4. /\ t \in Seq(Nat) /\ Len(t) = IF x <= y THEN y - x + 1 ELSE 0
      /\ \A i \in 1 .. y - x + 1 : t[i] = d[x + i - 1]
  BY <1>2, <1>3, SubSeqProperties
<1>5. r = c \o t
  BY <1>1, <1>2 DEF Kept
<1>6. y - x + 1 = n /\ (IF x <= y THEN y - x + 1 ELSE 0) = n
  BY <1>1
<1>7. Len(t) = n /\ \A j \in 1 .. n : t[j] = d[first + j]
  <2>1. \A j \in 1 .. n : x + j - 1 = first + j
    BY <1>1
  <2> QED
    BY <1>4, <1>6, <2>1
<1>8. /\ r \in Seq(Nat) /\ Len(r) = Len(c) + Len(t)
      /\ \A i \in 1 .. Len(c) + Len(t) : r[i] = IF i <= Len(c) THEN c[i] ELSE t[i - Len(c)]
  <2>1. /\ c \o t \in Seq(Nat) /\ Len(c \o t) = Len(c) + Len(t)
        /\ \A i \in 1 .. Len(c) + Len(t) :
             (c \o t)[i] = IF i <= Len(c) THEN c[i] ELSE t[i - Len(c)]
    BY <1>4, ConcatProperties, Zenon
  <2> QED
    BY <1>5, <2>1, Zenon
<1>9. /\ Len(r) = m + n
      /\ \A i \in 1 .. m + n : r[i] = IF i <= m THEN c[i] ELSE t[i - m]
  BY <1>0, <1>7, <1>8
<1>10. ASSUME NEW k \in 1 .. m PROVE r[k] = c[k]
  <2>1. k \in 1 .. m + n /\ k <= m
    OBVIOUS
  <2> QED
    BY <1>9, <2>1
<1>11. ASSUME NEW j \in 1 .. n PROVE r[m + j] = d[first + j]
  <2>1. m + j \in 1 .. m + n /\ ~(m + j <= m) /\ (m + j) - m = j
    OBVIOUS
  <2> QED
    BY <1>7, <1>9, <2>1
<1> QED
  BY <1>0, <1>8, <1>9, <1>10, <1>11 DEF Joined

\* The client keeps n bytes of the chunk.
LEMMA KeptOk ==
    ASSUME NEW c \in Seq(Nat), NEW d, NEW f \in Seq(Nat), NEW r,
           NEW n \in Nat, NEW first \in Nat, NEW l \in Nat, NEW base \in Nat,
           first + n <= l, Len(c) = base + first, Prefix(c, f), Copies(d, l, base, f),
           Joined(r, c, d, first, n)
    PROVE  Prefix(r, f)
<1>0. PICK m \in Nat : m = Len(c)
  OBVIOUS
<1>1. PICK e \in Nat : e = Len(f)
  OBVIOUS
<1>2. m <= e /\ (l > 0 => base + l <= e) /\ m = base + first
  BY <1>0, <1>1 DEF Prefix, Copies
<1>2a. /\ \A k \in 1 .. m : c[k] = f[k]
       /\ \A j \in 1 .. l : d[j] = f[base + j]
       /\ Len(r) = m + n /\ \A k \in 1 .. m : r[k] = c[k]
  BY <1>0 DEF Prefix, Copies, Joined
<1>2b. \A j \in 1 .. n : r[m + j] = d[first + j]
  BY <1>0 DEF Joined
<1>3. m + n <= e
  <2>1. CASE n = 0
    BY <1>2, <2>1
  <2>2. CASE n # 0
    <3>1. l > 0
      BY <2>2
    <3> QED
      BY <1>2, <3>1
  <2> QED
    BY <2>1, <2>2
<1>4. ASSUME NEW k \in 1 .. m + n
      PROVE  r[k] = f[k]
  <2>1. CASE k \in 1 .. m
    BY <2>1, <1>2a
  <2>2. CASE k \notin 1 .. m
    <3>1. PICK j \in 1 .. n : j = k - m
      BY <2>2
    <3>2. k = m + j
      BY <3>1
    <3>3. PICK y \in 1 .. l : y = first + j
      OBVIOUS
    <3>4. r[k] = d[y] /\ d[y] = f[base + y]
      BY <1>2a, <1>2b, <3>2, <3>3
    <3>5. base + y = k
      BY <1>2, <3>2, <3>3
    <3> QED
      BY <3>4, <3>5
  <2> QED
    BY <2>1, <2>2
<1> QED
  BY <1>1, <1>2a, <1>3, <1>4 DEF Prefix

LEMMA InBackupOk ==
    ASSUME Reader(in, file, consumed, short), NEW k \in 0 .. BufSize, FS!InBackup(k)
    PROVE  Reader(in', file', consumed', short')
<1>1. /\ in.at = "chunk" /\ k <= in.chunk /\ file' = file /\ short' = short
  BY DEF FS!InBackup
<1>2. PICK i \in InRecords, f \in Seq(Nat), c \in Seq(Nat), s \in BOOLEAN :
        i = in /\ f = file /\ c = consumed /\ s = short
  BY DEF Reader
<1>3. Reader(i, f, c, s)
  BY <1>2
<1>4. PICK base \in Nat : Reading(i, base, f, c, s)
  BY <1>1, <1>2, <1>3 DEF Reader
<1>5. PICK a \in 0 .. 1 : a = i.active
  BY InFields
<1>6. /\ i.data[a] \in Bytes /\ i.len[a] \in 0 .. BufSize /\ i.pos[a] \in 0 .. BufSize
      /\ i.pos \in [0 .. 1 -> 0 .. BufSize]
      /\ i.chunk \in Nat /\ i.skip \in Nat /\ i.byteCount \in Nat
  BY InFields
<1>7. Ahead(i, base, f, c, s) /\ Current(i, base, f, c, s)
  BY <1>1, <1>2, <1>4 DEF Reading
<1>8. i.pos[a] = i.len[a] /\ i.chunk <= i.len[a] /\ Len(c) + i.chunk = base + i.pos[a]
  BY <1>1, <1>2, <1>4, <1>5, <1>7 DEF Reading, Current
<1>9. PICK l \in Nat : l = i.len[a] /\ l <= BufSize
  BY <1>6, BufSizeAssumption
<1>9a. PICK ch \in Nat : ch = i.chunk
  BY <1>6
<1>9b. PICK m \in Nat : m = Len(c)
  OBVIOUS
<1>10p. i.pos[a] = l
  BY <1>8, <1>9
<1>10. ch <= l /\ m + ch = base + l /\ k <= ch /\ k \in Nat
  BY <1>1, <1>2, <1>8, <1>9, <1>9a, <1>9b, BufSizeAssumption
<1>11. PICK n \in Nat : n = ch - k
  BY <1>10
<1>12. PICK first \in Nat : first = l - ch
  BY <1>10
<1>13. PICK r : r = consumed'
  OBVIOUS
<1>14. r = Kept(c, i.data[a], first, n)
  BY <1>2, <1>5, <1>9, <1>9a, <1>9b, <1>11, <1>12, <1>13 DEF FS!InBackup, Kept
<1>15. first + n <= l /\ m = base + first
  BY <1>10, <1>11, <1>12
<1>16. Prefix(c, f) /\ Copies(i.data[a], l, base, f)
  BY <1>3, <1>5, <1>7, <1>9, <1>9a, <1>9b DEF Reader, Current, Holds, Prefix, Copies
<1>17. r \in Seq(Nat) /\ Len(r) = m + n /\ Prefix(r, f)
  <2>1. PICK d \in Bytes : d = i.data[a]
    BY <1>6
  <2>2. first + n <= BufSize
    BY <1>9, <1>15, BufSizeAssumption
  <2>3. Joined(r, c, d, first, n)
    BY <1>14, <2>1, <2>2, Appended
  <2>4. Prefix(r, f)
    BY <1>9b, <1>15, <1>16, <2>1, <2>3, KeptOk
  <2> QED
    BY <1>9b, <2>3, <2>4 DEF Joined
<1>18. PICK sk \in Nat : sk = IF i.skip > 0 THEN i.skip - n ELSE 0
  <2>1. CASE i.skip > 0
    <3>1. n = FS!Least(i.skip, ch)
      BY <1>2, <1>9, <1>9a, <1>9b, <1>11, <2>1 DEF FS!InBackup
    <3>2. i.skip - n \in Nat
      BY <1>6, <3>1 DEF FS!Least
    <3> QED
      BY <2>1, <3>2
  <2>2. CASE ~(i.skip > 0)
    BY <2>2
  <2> QED
    BY <2>1, <2>2
<1>19. PICK q0 \in Nat : q0 = l - k /\ q0 \in 0 .. BufSize
  BY <1>9, <1>10, BufSizeAssumption
<1>20. PICK p : p = [i.pos EXCEPT ![a] = q0]
  OBVIOUS
<1>21. p \in [0 .. 1 -> 0 .. BufSize] /\ p[a] = q0
  BY <1>6, <1>19, <1>20
<1>22. PICK bc \in Nat : bc = i.byteCount - k /\ bc = m + n
  <2>1. i.byteCount = m + ch
    BY <1>3, <1>9a, <1>9b DEF Reader
  <2> QED
    BY <1>10, <1>11, <2>1
<1>23. PICK x : x = in'
  OBVIOUS
<1>24. x = [i EXCEPT !.pos = p, !.byteCount = bc, !.chunk = 0, !.at = "idle", !.skip = sk]
  <2>1. x = [i EXCEPT !.pos[a] = @ - k, !.byteCount = @ - k,
                      !.chunk = 0, !.at = "idle",
                      !.skip = IF @ > 0 THEN @ - (ch - k) ELSE 0]
    BY <1>2, <1>5, <1>9, <1>9a, <1>9b, <1>23, Zenon DEF FS!InBackup
  <2>2. i.pos[a] - k = q0 /\ ch - k = n
    BY <1>10p, <1>11, <1>19
  <2> QED
    BY <1>18, <1>20, <1>22, <2>1, <2>2 DEF InRecords
<1>25. /\ x \in InRecords
       /\ x.at = "idle" /\ x.data = i.data /\ x.future = i.future /\ x.len = i.len
       /\ x.pos = p /\ x.active = a /\ x.chunk = 0 /\ x.byteCount = bc
       /\ x.offset = i.offset
  BY <1>5, <1>21, <1>24 DEF InRecords, InStates
<1>26. q0 <= l /\ Len(r) + 0 = base + q0 /\ bc = Len(r) + 0
  <2>1. PICK z \in Nat : z = Len(r)
    BY <1>17
  <2>2. z = m + n /\ bc = m + n /\ q0 = l - k
    BY <1>17, <1>19, <1>22, <2>1
  <2>3. q0 <= l /\ z + 0 = base + q0 /\ bc = z + 0
    BY <1>10, <1>11, <2>2
  <2> QED
    BY <2>1, <2>3
<1>27. Reading(x, base, f, r, s)
  <2>1. Ahead(x, base, f, r, s)
    BY <1>5, <1>7, <1>25 DEF Ahead
  <2>2. Current(x, base, f, r, s)
    BY <1>5, <1>7, <1>9, <1>9a, <1>9b, <1>21, <1>25, <1>26 DEF Current
  <2> QED
    BY <1>25, <2>1, <2>2 DEF Reading
<1>28. Reader(x, f, r, s)
  BY <1>17, <1>25, <1>26, <1>27 DEF Reader, Prefix
<1> QED
  BY <1>1, <1>2, <1>13, <1>23, <1>28

LEMMA SkipOk ==
    ASSUME Reader(in, file, consumed, short), NEW len \in 1 .. BufSize + 1, FS!Skip(len)
    PROVE  Reader(in', file', consumed', short')
<1>1. PICK i \in InRecords, f \in Seq(Nat), c \in Seq(Nat), s \in BOOLEAN :
        i = in /\ f = file /\ c = consumed /\ s = short
  BY DEF Reader
<1>2. Reader(i, f, c, s) /\ i.at = "idle"
  BY <1>1 DEF FS!Skip
<1>3. PICK base \in Nat : Reading(i, base, f, c, s)
  BY <1>2 DEF Reader
<1>4. PICK x : x = in'
  OBVIOUS
<1>5. x = [i EXCEPT !.skip = len] /\ len \in Nat
  BY <1>1, <1>4, BufSizeAssumption DEF FS!Skip
<1>6. /\ x \in InRecords
      /\ x.at = "idle" /\ x.data = i.data /\ x.future = i.future /\ x.len = i.len
      /\ x.pos = i.pos /\ x.active = i.active /\ x.chunk = i.chunk
      /\ x.byteCount = i.byteCount /\ x.offset = i.offset
  BY <1>2, <1>5 DEF InRecords
<1>7. Reading(x, base, f, c, s)
  BY <1>2, <1>3, <1>6 DEF Reading, Ahead, Current
<1>8. Reader(x, f, c, s)
  BY <1>2, <1>6, <1>7 DEF Reader
<1> QED
  BY <1>1, <1>4, <1>8 DEF FS!Skip

\* A read of up to BufSize bytes from off on gives n.
LEMMA BytesRead ==
    ASSUME NEW f \in Seq(Nat), NEW old \in Bytes, NEW off \in Nat, NEW n \in 0 .. BufSize,
           NEW there, there = IF off < Len(f) THEN FS!Least(BufSize, Len(f) - off) ELSE 0,
           n <= there, NEW t, ~t => ~(n < there),
           NEW d, d = [i \in 1 .. BufSize |-> IF i <= n THEN f[off + i] ELSE old[i]]
    PROVE  d \in Bytes /\ Holds(d, n, off, f, t)
<1>1. PICK l \in Nat : l = Len(f)
  OBVIOUS
<1>2. PICK y \in Nat : y = BufSize
  BY BufSizeAssumption
<1>3. PICK k \in Nat : k = n /\ k <= y
  BY <1>2
<1>4. \/ off < l /\ there = y /\ y < l - off
      \/ off < l /\ there = l - off /\ ~(y < l - off)
      \/ ~(off < l) /\ there = 0
  BY <1>1, <1>2 DEF FS!Least
<1>5. PICK z \in Nat : z = there
  BY <1>4
<1>6. /\ k <= z /\ (~t => z <= k)
      /\ \/ off < l /\ z = y /\ y < l - off
         \/ off < l /\ z = l - off /\ ~(y < l - off)
         \/ ~(off < l) /\ z = 0
  BY <1>3, <1>4, <1>5
<1>7. k > 0 => off + k <= l
  BY <1>6
<1>8. ~t /\ k < y => off + k >= l
  BY <1>6
<1>9. ASSUME NEW i \in 1 .. BufSize
      PROVE  (IF i <= n THEN f[off + i] ELSE old[i]) \in Nat
  <2>1. CASE i <= n
    <3>1. off + i \in 1 .. Len(f)
      BY <1>1, <1>2, <1>3, <1>7, <2>1
    <3>2. f[off + i] \in Nat
      BY <3>1
    <3> QED
      BY <2>1, <3>2
  <2>2. CASE ~(i <= n)
    BY <2>2 DEF Bytes
  <2> QED
    BY <2>1, <2>2
<1>10. d \in Bytes
  BY <1>9 DEF Bytes
<1>11. \A j \in 1 .. n : d[j] = f[off + j]
  <2>1. \A j \in 1 .. n : j \in 1 .. BufSize /\ j <= n
    BY <1>2, <1>3
  <2> QED
    BY <2>1
<1> QED
  BY <1>1, <1>2, <1>3, <1>7, <1>8, <1>10, <1>11 DEF Holds

LEMMA HoldsStill ==
    ASSUME NEW d, NEW n, NEW base, NEW f, NEW s, NEW t, ~t => ~s
    PROVE  Holds(d, n, base, f, s) => Holds(d, n, base, f, t)
BY DEF Holds

LEMMA FetchedStill ==
    ASSUME NEW w, NEW d, NEW base, NEW f, NEW s, NEW t, ~t => ~s, Fetched(w, d, base, f, s)
    PROVE  Fetched(w, d, base, f, t)
BY HoldsStill DEF Fetched

LEMMA ReadFailsOk ==
    ASSUME Reader(in, file, consumed, short), FS!ReadFails
    PROVE  Reader(in', file', consumed', short')
<1>1. in \in InRecords /\ in.at # "chunk" /\ UNCHANGED <<file, consumed, short>>
  BY DEF Reader, FS!ReadFails
<1>2. PICK g : g = [b \in 0 .. 1 |-> FS!Idle]
  OBVIOUS
<1>3. in' = [in EXCEPT !.at = "failed", !.future = g]
  BY <1>2 DEF FS!ReadFails, FS!Bufs
<1>4. /\ in'.at = "failed" /\ in'.future = g /\ in'.chunk = in.chunk
      /\ in'.byteCount = in.byteCount /\ in' \in InRecords
  BY <1>1, <1>2, <1>3 DEF InRecords, InStates
<1> QED
  BY <1>1, <1>2, <1>4 DEF Reader

LEMMA ReadDoneOk ==
    ASSUME Reader(in, file, consumed, short), NEW b \in 0 .. 1, NEW n \in 0 .. BufSize,
           FS!ReadDone(b, n)
    PROVE  /\ Reader(in', file', consumed', short')
           /\ short' \in BOOLEAN /\ (~short' => ~short)
<1>1. PICK i \in InRecords, f \in Seq(Nat), c \in Seq(Nat), s \in BOOLEAN :
        i = in /\ f = file /\ c = consumed /\ s = short
  BY DEF Reader
<1>2. Reader(i, f, c, s)
  BY <1>1
<1>3. /\ i.data \in [0 .. 1 -> Bytes] /\ i.data[b] \in Bytes
      /\ i.future \in [0 .. 1 -> Reads \cup Dones \cup {FS!Idle}]
      /\ i.active \in 0 .. 1
  BY InFields
<1>4. PICK w \in Reads \cup Dones \cup {FS!Idle} : w = i.future[b]
  BY <1>3
<1>5. w.op = "read" /\ w.off \in Nat /\ w # FS!Idle
  BY <1>1, <1>4, ReadOrNot DEF FS!ReadDone
<1>6. i.at \notin {"unborn", "failed"}
  BY <1>2, <1>4, <1>5 DEF Reader
<1>7. PICK base \in Nat : Reading(i, base, f, c, s)
  BY <1>2, <1>6 DEF Reader
<1>8. PICK there : there = IF w.off < Len(f) THEN FS!Least(BufSize, Len(f) - w.off) ELSE 0
  OBVIOUS
<1>9. PICK t : t = short'
  OBVIOUS
<1>10. n <= there /\ t = (s \/ n < there)
  BY <1>1, <1>4, <1>8, <1>9, Zenon DEF FS!ReadDone
<1>11. t \in BOOLEAN /\ (~t => ~s) /\ (~t => ~(n < there))
  BY <1>10, Zenon
<1>12. PICK d : d = [k \in 1 .. BufSize |-> IF k <= n THEN f[w.off + k] ELSE i.data[b][k]]
  OBVIOUS
<1>13. d \in Bytes /\ Holds(d, n, w.off, f, t)
  <2>1. PICK old \in Bytes : old = i.data[b]
    BY <1>3
  <2>2. d = [k \in 1 .. BufSize |-> IF k <= n THEN f[w.off + k] ELSE old[k]]
    BY <1>12, <2>1
  <2> QED
    BY <1>5, <1>8, <1>10, <1>11, <2>2, BytesRead, ZenonT(20)
<1>14. PICK u : u = [op |-> "done", n |-> n]
  OBVIOUS
<1>15. u \in Dones /\ u # FS!Idle /\ u.op = "done" /\ u.n = n
  BY <1>14 DEF Dones, FS!Idle
<1>16. PICK e : e = [i.data EXCEPT ![b] = d]
  OBVIOUS
<1>17. PICK g : g = [i.future EXCEPT ![b] = u]
  OBVIOUS
<1>18. /\ e \in [0 .. 1 -> Bytes] /\ e[b] = d
       /\ \A h \in 0 .. 1 : h # b => e[h] = i.data[h]
  BY <1>3, <1>13, <1>16
<1>19. /\ g \in [0 .. 1 -> Reads \cup Dones \cup {FS!Idle}] /\ g[b] = u
       /\ \A h \in 0 .. 1 : h # b => g[h] = i.future[h]
  BY <1>3, <1>15, <1>17
<1>20. PICK x : x = in'
  OBVIOUS
<1>21. x = [i EXCEPT !.data = e, !.future = g]
  <2>1. x = [i EXCEPT !.data[b] = [k \in 1 .. BufSize |->
                                     IF k <= n THEN f[w.off + k] ELSE @[k]],
                      !.future[b] = [op |-> "done", n |-> n]]
    BY <1>1, <1>4, <1>20, Zenon DEF FS!ReadDone
  <2> QED
    BY <1>12, <1>14, <1>16, <1>17, <2>1 DEF InRecords
<1>22. /\ x \in InRecords
       /\ x.at = i.at /\ x.data = e /\ x.future = g /\ x.len = i.len
       /\ x.pos = i.pos /\ x.active = i.active /\ x.chunk = i.chunk
       /\ x.byteCount = i.byteCount /\ x.offset = i.offset
  BY <1>18, <1>19, <1>21 DEF InRecords
<1>23. PICK a \in 0 .. 1 : a = i.active
  BY <1>3
<1>24. PICK o \in 0 .. 1 : o = 1 - a /\ o # a
  OBVIOUS
<1>25. b = a \/ b = o
  BY <1>24
<1>26. ASSUME NEW h \in 0 .. 1, NEW z, i.future[h] # FS!Idle,
              Fetched(i.future[h], i.data[h], z, f, s)
       PROVE  g[h] # FS!Idle /\ Fetched(g[h], e[h], z, f, t)
  <2>1. CASE h = b
    <3>1. z = w.off
      BY <1>4, <1>5, <1>26, <2>1 DEF Fetched
    <3> QED
      BY <1>13, <1>15, <1>18, <1>19, <2>1, <3>1 DEF Fetched
  <2>2. CASE h # b
    <3>1. Fetched(i.future[h], i.data[h], z, f, t)
      BY <1>11, <1>26, FetchedStill
    <3> QED
      BY <1>18, <1>19, <1>26, <2>2, <3>1
  <2> QED
    BY <2>1, <2>2
<1>27. Ahead(x, base, f, c, t)
  <2>1. /\ i.offset = base + 2 * BufSize /\ i.future[o] # FS!Idle
        /\ Fetched(i.future[o], i.data[o], base + BufSize, f, s)
    BY <1>7, <1>23, <1>24 DEF Reading, Ahead
  <2>2. g[o] # FS!Idle /\ Fetched(g[o], e[o], base + BufSize, f, t)
    BY <1>26, <2>1
  <2> QED
    BY <1>22, <1>23, <1>24, <2>1, <2>2 DEF Ahead
<1>28. Reading(x, base, f, c, t)
  <2>1. i.at = "chunk" => i.pos[a] = i.len[a] /\ i.chunk <= i.len[a]
    BY <1>7, <1>23 DEF Reading
  <2>2. CASE /\ i.at \in {"idle", "switched"}
             /\ i.future[a] # FS!Idle
             /\ Fetched(i.future[a], i.data[a], base, f, s)
             /\ Len(c) = base
    <3>1. g[a] # FS!Idle /\ Fetched(g[a], e[a], base, f, t)
      BY <1>26, <2>2
    <3> QED
      BY <1>22, <1>23, <1>27, <2>1, <2>2, <3>1 DEF Reading
  <2>3. CASE i.at \in {"idle", "chunk", "eof"} /\ Current(i, base, f, c, s)
    <3>1. a # b
      BY <1>4, <1>5, <1>23, <2>3 DEF Current
    <3>2. Holds(i.data[a], i.len[a], base, f, t)
      BY <1>11, <1>23, <2>3, HoldsStill DEF Current
    <3>3. Current(x, base, f, c, t)
      BY <1>18, <1>19, <1>22, <1>23, <2>3, <3>1, <3>2 DEF Current
    <3> QED
      BY <1>22, <1>23, <1>27, <2>1, <2>3, <3>3 DEF Reading
  <2> QED
    BY <1>7, <1>23, <2>2, <2>3 DEF Reading
<1>29. Reader(x, f, c, t)
  <2>1. i.at = "eof" /\ ~t => Len(c) = Len(f)
    BY <1>2, <1>11 DEF Reader
  <2>2. /\ i.byteCount = Len(c) + i.chunk
        /\ Len(c) <= Len(f) /\ \A k \in 1 .. Len(c) : c[k] = f[k]
        /\ i.at # "chunk" => i.chunk = 0
    BY <1>2 DEF Reader
  <2> QED
    BY <1>6, <1>11, <1>22, <1>28, <2>1, <2>2 DEF Reader
<1> QED
  BY <1>1, <1>9, <1>11, <1>20, <1>29 DEF FS!ReadDone

LEMMA FilesInit ==
    ASSUME FS!FsInit
    PROVE  FilesInv
<1>1. in.at = "unborn"
  BY DEF FS!FsInit
<1> QED
  BY <1>1, WriterStarts, ReaderStarts DEF FilesInv

\* Each step is the writer's, before the reader opens the file, or the
\* reader's.
LEMMA FilesNext ==
    ASSUME FilesInv, [FS!FsNext]_fileVars
    PROVE  FilesInv'
<1>1. /\ Writer(out, file, produced, short) /\ Reader(in, file, consumed, short)
      /\ in.at # "unborn" => out.at = "destroyed"
  BY DEF FilesInv
<1>2. ASSUME Writer(out', file', produced', short'), out.at # "destroyed",
             UNCHANGED <<in, consumed>>
      PROVE  FilesInv'
  <2>1. in.at = "unborn"
    BY <1>1, <1>2
  <2>2. file' \in Seq(Nat) /\ short' \in BOOLEAN
    BY <1>2 DEF Writer
  <2>3. Reader(in', file', consumed', short')
    BY <1>1, <1>2, <2>1, <2>2, ReaderUnborn
  <2> QED
    BY <1>2, <2>1, <2>3 DEF FilesInv
<1>3. ASSUME Reader(in', file', consumed', short'), short' \in BOOLEAN, ~short' => ~short,
             out.at = "destroyed", UNCHANGED <<out, file, produced>>
      PROVE  FilesInv'
  <2>1. Writer(out', file', produced', short')
    BY <1>1, <1>3, WriterLeft
  <2> QED
    BY <1>3, <2>1 DEF FilesInv
<1>4. short \in BOOLEAN
  BY <1>1 DEF Writer
<1>5. CASE FS!OutNext
  <2>1. out.at # "destroyed" /\ UNCHANGED <<in, consumed>>
    BY <1>5 DEF FS!OutNext
  <2> QED
    BY <1>1, <1>2, <1>5, <2>1, OutNextOk
<1>6. ASSUME NEW len \in 0 .. BufSize, FS!OutBackup(len)
      PROVE  FilesInv'
  <2>1. out.at # "destroyed" /\ UNCHANGED <<in, consumed>>
    BY <1>6 DEF FS!OutBackup
  <2> QED
    BY <1>1, <1>2, <1>6, <2>1, OutBackupOk
<1>7. ASSUME NEW at \in {"flushing", "closing"}, FS!FlushSubmits(at)
      PROVE  FilesInv'
  <2>1. out.at # "destroyed" /\ UNCHANGED <<in, consumed>>
    BY <1>7 DEF FS!FlushSubmits
  <2> QED
    BY <1>1, <1>2, <1>7, <2>1, FlushSubmitsOk
<1>8. CASE FS!FlushReturns
  <2>1. out.at # "destroyed" /\ UNCHANGED <<in, consumed>>
    BY <1>8 DEF FS!FlushReturns
  <2> QED
    BY <1>1, <1>2, <1>8, <2>1, FlushReturnsOk
<1>9. ASSUME NEW b \in 0 .. 1, FS!WriteFails(b)
      PROVE  FilesInv'
  <2>1. UNCHANGED <<in, consumed>>
    BY <1>9 DEF FS!WriteFails
  <2>2. out.at # "destroyed"
    <3>1. out.future[b] # FS!Idle
      BY <1>9 DEF FS!WriteFails, FS!Idle
    <3> QED
      BY <1>1, <3>1 DEF Writer, Writing
  <2> QED
    BY <1>1, <1>2, <1>9, <2>1, <2>2, WriteFailsOk
<1>10. ASSUME NEW b \in 0 .. 1, NEW n \in 0 .. BufSize, FS!WriteDone(b, n)
       PROVE  FilesInv'
  <2>1. UNCHANGED <<in, consumed>>
    BY <1>10 DEF FS!WriteDone
  <2> QED
    BY <1>1, <1>2, <1>10, <2>1, WriteDoneOk
<1>11. ASSUME NEW b \in 0 .. 1, NEW n \in 0 .. BufSize, FS!ReadDone(b, n)
       PROVE  FilesInv'
  <2>1. UNCHANGED <<out, file, produced>>
    BY <1>11 DEF FS!ReadDone
  <2>2. in.at # "unborn"
    <3>1. in.future[b] # FS!Idle
      BY <1>11 DEF FS!ReadDone, FS!Idle
    <3> QED
      BY <1>1, <3>1 DEF Reader
  <2> QED
    BY <1>1, <1>3, <1>11, <2>1, <2>2, ReadDoneOk
<1>12. CASE FS!InOpen
  <2>1. UNCHANGED <<out, file, produced, short>> /\ out.at = "destroyed"
    BY <1>12 DEF FS!InOpen
  <2> QED
    BY <1>1, <1>3, <1>4, <1>12, <2>1, InOpenOk
<1>0. CASE FS!ReadFails
  <2>1. /\ UNCHANGED <<out, file, produced, short>> /\ in.at # "unborn"
        /\ Reader(in', file', consumed', short')
    BY <1>1, <1>0, ReadFailsOk DEF FS!ReadFails
  <2> QED
    BY <1>1, <1>3, <1>4, <2>1
<1>13. CASE FS!InNext \/ FS!InNextSwitched
  <2>1. UNCHANGED <<out, file, produced, short>> /\ in.at # "unborn"
    BY <1>13 DEF FS!InNext, FS!InNextSwitched
  <2> QED
    BY <1>1, <1>3, <1>4, <1>13, <2>1, InNextOk
<1>14. ASSUME NEW k \in 0 .. BufSize, FS!InBackup(k)
       PROVE  FilesInv'
  <2>1. UNCHANGED <<out, file, produced, short>> /\ in.at # "unborn"
    BY <1>14 DEF FS!InBackup
  <2> QED
    BY <1>1, <1>3, <1>4, <1>14, <2>1, InBackupOk
<1>15. ASSUME NEW len \in 1 .. BufSize + 1, FS!Skip(len)
       PROVE  FilesInv'
  <2>1. UNCHANGED <<out, file, produced, short>> /\ in.at # "unborn"
    BY <1>15 DEF FS!Skip
  <2> QED
    BY <1>1, <1>3, <1>4, <1>15, <2>1, SkipOk
<1>16. CASE UNCHANGED fileVars
  BY <1>1, <1>16 DEF fileVars, FilesInv
<1> QED
  BY <1>0, <1>5, <1>6, <1>7, <1>8, <1>9, <1>10, <1>11, <1>12, <1>13, <1>14, <1>15, <1>16
     DEF FS!FsNext, FS!Bufs

\* Whatever the sizes of the client's chunks, whenever it flushes, and however
\* io_uring's transfers interleave with it, a file written by
\* UnifexOutputStream gives UnifexInputStream's client the bytes in order and
\* to the last, unless a transfer was short; the two buffers never hold
\* anything else, and ByteCount is right throughout.
THEOREM BytesStayInOrder == PartsSpec => []BytesInOrder
<1>1. PartsInit => FilesInv
  BY FilesInit DEF PartsInit
<1>2. FilesInv /\ [PartsNext]_partsVars => FilesInv'
  BY FilesMove, FilesNext
<1>3. FilesInv => BytesInOrder
  <2> SUFFICES ASSUME FilesInv PROVE FS!BytesInOrder
    BY DEF BytesInOrder
  <2>1. /\ Writer(out, file, produced, short) /\ Reader(in, file, consumed, short)
        /\ in.at # "unborn" => out.at = "destroyed"
    BY DEF FilesInv
  <2>2. out.at # "failed" => FS!OutByteCount = produced
    BY <2>1 DEF Writer, Writing, FS!OutByteCount
  <2>3. \A k \in DOMAIN consumed : consumed[k] = file[k]
    <3>1. DOMAIN consumed = 1 .. Len(consumed)
      BY <2>1 DEF Reader
    <3> QED
      BY <2>1, <3>1 DEF Reader
  <2>4. in.at \in {"idle", "eof"} => in.byteCount = Len(consumed)
    <3>1. Len(consumed) \in Nat /\ in.byteCount = Len(consumed) + in.chunk
      BY <2>1 DEF Reader
    <3>2. in.at \in {"idle", "eof"} => in.chunk = 0
      BY <2>1 DEF Reader
    <3> QED
      BY <3>1, <3>2
  <2>5. ~short /\ out.at = "destroyed" => file = FS!Upto(produced)
    BY <2>1 DEF Writer, Writing
  <2>6. ~short /\ in.at = "eof" => Len(consumed) = produced
    <3>1. produced \in Nat /\ Len(FS!Upto(produced)) = produced
      BY <2>1 DEF Writer, FS!Upto
    <3>2. ~short /\ in.at = "eof" => Len(consumed) = Len(file) /\ out.at = "destroyed"
      BY <2>1 DEF Reader
    <3> QED
      BY <2>5, <3>1, <3>2
  <2> QED
    BY <2>2, <2>3, <2>4, <2>5, <2>6 DEF FS!BytesInOrder
<1> QED
  BY <1>1, <1>2, <1>3, PTL DEF PartsSpec

-----------------------------------------------------------------------------
(* The memory of messages.                                                 *)

LEMMA MemoryMoves ==
    [PartsNext]_partsVars => [MM!MmNext]_memoryVars
BY DEF PartsNext, partsVars, Rest, memoryVars

LEMMA WrapperFields ==
    ASSUME NEW w \in Wrappers
    PROVE  /\ w.kind \in Kinds /\ w.hdr \in Places /\ w.arr \in Places
           /\ w.bufs \in Seq(Places) /\ w.ownHdr \in BOOLEAN /\ w.own \in BOOLEAN
           /\ w.fn \in BOOLEAN /\ w.backing \in Backings
           /\ w.backing.block \in Places /\ w.backing.own \in BOOLEAN
           /\ w.backing.fn \in BOOLEAN
BY DEF Wrappers, Backings

LEMMA PairsOf ==
    ASSUME NEW S, NEW y, NEW R, R = Pairs(S, y), NEW c, NEW h
    PROVE  /\ Frees(R, c) <=> c \in S
           /\ InWay(R, c, h) <=> (c \in S => h = y)
<1>1. \A r \in R : \E b \in S : r = <<b, y>>
  BY DEF Pairs
<1>2. \A r \in R : r[1] \in S /\ r[2] = y
  BY <1>1
<1>3. \A b \in S : \E r \in R : r[1] = b /\ r[2] = y
  <2> TAKE b \in S
  <2>1. <<b, y>> \in R /\ <<b, y>>[1] = b /\ <<b, y>>[2] = y
    BY DEF Pairs
  <2> QED
    BY <2>1
<1>4. Frees(R, c) <=> c \in S
  BY <1>2, <1>3 DEF Frees
<1>5. InWay(R, c, h) <=> (c \in S => h = y)
  <2>1. c \notin S => \A r \in R : r[1] # c
    BY <1>2
  <2>2. c \in S => \E r \in R : r[1] = c /\ r[2] = y
    BY <1>3
  <2>3. \A r \in R : r[2] = y
    BY <1>2
  <2> QED
    BY <2>1, <2>2, <2>3 DEF InWay
<1> QED
  BY <1>4, <1>5

LEMMA NothingFreed ==
    ASSUME NEW R, R = {}, NEW c, NEW h
    PROVE  ~Frees(R, c) /\ InWay(R, c, h)
BY DEF Frees, InWay

LEMMA BufferFrees ==
    ASSUME NEW w \in Wrappers, NEW c \in Blocks, NEW h
    PROVE  /\ Frees(MM!BufferReleases(w), c) <=> w.own /\ InBufs(w, c)
           /\ InWay(MM!BufferReleases(w), c, h) <=>
                (w.own /\ InBufs(w, c) => h = MM!Way(w.fn))
<1>1. c # MM!Null
  BY NullAssumption DEF MM!Null
<1>2. c \in MM!DataOf(w) <=> InBufs(w, c)
  BY <1>1 DEF MM!DataOf, InBufs
<1>3. PICK y : y = MM!Way(w.fn)
  OBVIOUS
<1>4. CASE w.own
  <2>1. MM!BufferReleases(w) = Pairs(MM!DataOf(w), y)
    BY <1>3, <1>4 DEF MM!BufferReleases, Pairs
  <2>2. PICK R, S : R = MM!BufferReleases(w) /\ S = MM!DataOf(w)
    OBVIOUS
  <2>3. /\ Frees(R, c) <=> c \in S
        /\ InWay(R, c, h) <=> (c \in S => h = y)
    BY <2>1, <2>2, PairsOf
  <2> QED
    BY <1>2, <1>3, <1>4, <2>2, <2>3
<1>5. CASE ~w.own
  <2>1. MM!BufferReleases(w) = {}
    BY <1>5 DEF MM!BufferReleases
  <2> QED
    BY <1>5, <2>1, NothingFreed
<1> QED
  BY <1>4, <1>5

LEMMA HeaderFrees ==
    ASSUME NEW w \in Wrappers, NEW c \in Blocks, NEW h
    PROVE  /\ Frees(MM!HeaderReleases(w), c) <=> w.ownHdr /\ w.hdr = c
           /\ InWay(MM!HeaderReleases(w), c, h) <=>
                (w.ownHdr /\ w.hdr = c => h = "mr")
<1>1. c # MM!Null
  BY NullAssumption DEF MM!Null
<1>2. c \in MM!Header(w.hdr) <=> w.hdr = c
  BY <1>1 DEF MM!Header
<1>4. CASE w.ownHdr
  <2>1. MM!HeaderReleases(w) = Pairs(MM!Header(w.hdr), "mr")
    BY <1>4 DEF MM!HeaderReleases, Pairs
  <2>2. PICK R, S : R = MM!HeaderReleases(w) /\ S = MM!Header(w.hdr)
    OBVIOUS
  <2>3. /\ Frees(R, c) <=> c \in S
        /\ InWay(R, c, h) <=> (c \in S => h = "mr")
    BY <2>1, <2>2, PairsOf
  <2> QED
    BY <1>2, <1>4, <2>2, <2>3
<1>5. CASE ~w.ownHdr
  <2>1. MM!HeaderReleases(w) = {}
    BY <1>5 DEF MM!HeaderReleases
  <2> QED
    BY <1>5, <2>1, NothingFreed
<1> QED
  BY <1>4, <1>5

LEMMA BackingFrees ==
    ASSUME NEW w \in Wrappers, NEW c, NEW h, NEW R,
           R = IF w.backing.own THEN {<<w.backing.block, MM!Way(w.backing.fn)>>} ELSE {}
    PROVE  /\ Frees(R, c) <=> w.backing.own /\ w.backing.block = c
           /\ InWay(R, c, h) <=>
                (w.backing.own /\ w.backing.block = c => h = MM!Way(w.backing.fn))
<1>1. CASE w.backing.own
  <2>1. PICK b, y : b = w.backing.block /\ y = MM!Way(w.backing.fn)
    OBVIOUS
  <2>2. R = {<<b, y>>}
    BY <1>1, <2>1
  <2>3. \A r \in R : r[1] = b /\ r[2] = y
    BY <2>2
  <2>4. \E r \in R : TRUE
    BY <2>2
  <2> QED
    BY <1>1, <2>1, <2>3, <2>4 DEF Frees, InWay
<1>2. CASE ~w.backing.own
  BY <1>2, NothingFreed
<1> QED
  BY <1>1, <1>2

LEMMA ArrayFrees ==
    ASSUME NEW w \in Wrappers, NEW c \in Blocks, NEW h, NEW R,
           R = IF w.own THEN Pairs(MM!Header(w.arr), "mr") ELSE {}
    PROVE  /\ Frees(R, c) <=> w.own /\ w.arr = c
           /\ InWay(R, c, h) <=> (w.own /\ w.arr = c => h = "mr")
<1>1. c # MM!Null
  BY NullAssumption DEF MM!Null
<1>2. c \in MM!Header(w.arr) <=> w.arr = c
  BY <1>1 DEF MM!Header
<1>4. CASE w.own
  <2>1. R = Pairs(MM!Header(w.arr), "mr")
    BY <1>4
  <2>2. PICK S : S = MM!Header(w.arr)
    OBVIOUS
  <2>3. /\ Frees(R, c) <=> c \in S
        /\ InWay(R, c, h) <=> (c \in S => h = "mr")
    BY <2>1, <2>2, PairsOf
  <2> QED
    BY <1>2, <1>4, <2>2, <2>3
<1>5. CASE ~w.own
  BY <1>5, NothingFreed
<1> QED
  BY <1>4, <1>5

LEMMA BothFree ==
    ASSUME NEW R, NEW S, NEW c, NEW h
    PROVE  /\ Frees(R \cup S, c) <=>
                Frees(R, c) \/ Frees(S, c)
           /\ InWay(R \cup S, c, h) <=>
                /\ InWay(R, c, h)
                /\ InWay(S, c, h)
BY DEF Frees, InWay

\* A wrapper frees a block for one of four reasons.
LEMMA ClaimReasons ==
    ASSUME NEW w \in Wrappers, NEW c \in Blocks, NEW h
    PROVE  /\ Claims(w, c) <=>
                OwnsData(w, c) \/ OwnsHeader(w, c) \/ OwnsBacking(w, c) \/ OwnsArray(w, c)
           /\ Knows(w, c, h) <=>
                /\ OwnsData(w, c) => h = MM!Way(w.fn)
                /\ OwnsHeader(w, c) => h = "mr"
                /\ OwnsBacking(w, c) => h = MM!Way(w.backing.fn)
                /\ OwnsArray(w, c) => h = "mr"
<1>1. w.kind \in Kinds
  BY WrapperFields
<1>2. CASE w.kind = "buffer"
  <2>1. MM!Releases(w) = MM!BufferReleases(w)
    BY <1>2 DEF MM!Releases
  <2> QED
    BY <1>2, <2>1, BufferFrees
       DEF Claims, Knows, OwnsData, OwnsHeader, OwnsBacking, OwnsArray
<1>3. CASE w.kind = "header"
  <2>1. MM!Releases(w) = MM!HeaderReleases(w)
    BY <1>3 DEF MM!Releases
  <2> QED
    BY <1>3, <2>1, HeaderFrees
       DEF Claims, Knows, OwnsData, OwnsHeader, OwnsBacking, OwnsArray
<1>4. CASE w.kind = "vec"
  <2>1. PICK R : R = IF w.backing.own THEN {<<w.backing.block, MM!Way(w.backing.fn)>>} ELSE {}
    OBVIOUS
  <2>2. MM!Releases(w) = MM!BufferReleases(w) \cup R
    BY <1>4, <2>1 DEF MM!Releases, MM!BufferVecReleases
  <2>3. /\ Frees(R, c) <=> w.backing.own /\ w.backing.block = c
        /\ InWay(R, c, h) <=>
             (w.backing.own /\ w.backing.block = c => h = MM!Way(w.backing.fn))
    BY <2>1, BackingFrees
  <2>4. /\ Claims(w, c) <=> \/ Frees(MM!BufferReleases(w), c)
                            \/ Frees(R, c)
        /\ Knows(w, c, h) <=> /\ InWay(MM!BufferReleases(w), c, h)
                              /\ InWay(R, c, h)
    BY <2>2, BothFree DEF Claims, Knows
  <2> QED
    BY <1>4, <2>3, <2>4, BufferFrees DEF OwnsData, OwnsHeader, OwnsBacking, OwnsArray
<1>5. CASE w.kind = "amdata"
  <2>1. MM!Releases(w) = MM!HeaderReleases(w) \cup MM!BufferReleases(w)
    BY <1>5 DEF MM!Releases, MM!AmDataReleases
  <2>2. /\ Claims(w, c) <=> \/ Frees(MM!HeaderReleases(w), c)
                            \/ Frees(MM!BufferReleases(w), c)
        /\ Knows(w, c, h) <=> /\ InWay(MM!HeaderReleases(w), c, h)
                              /\ InWay(MM!BufferReleases(w), c, h)
    BY <2>1, BothFree DEF Claims, Knows
  <2> QED
    BY <1>5, <2>2, BufferFrees, HeaderFrees DEF OwnsData, OwnsHeader, OwnsBacking, OwnsArray
<1>6. CASE w.kind = "iovec"
  <2>1. PICK R : R = IF w.own THEN Pairs(MM!Header(w.arr), "mr") ELSE {}
    OBVIOUS
  <2>2. PICK S : S = MM!HeaderReleases(w) \cup MM!BufferReleases(w)
    OBVIOUS
  <2>3. MM!Releases(w) = S \cup R
    BY <1>6, <2>1, <2>2 DEF MM!Releases, MM!AmIovecReleases, Pairs
  <2>4. /\ Frees(R, c) <=> w.own /\ w.arr = c
        /\ InWay(R, c, h) <=> (w.own /\ w.arr = c => h = "mr")
    BY <2>1, ArrayFrees
  <2>5. /\ Frees(S, c) <=> \/ Frees(MM!HeaderReleases(w), c)
                                       \/ Frees(MM!BufferReleases(w), c)
        /\ InWay(S, c, h) <=>
             /\ InWay(MM!HeaderReleases(w), c, h)
             /\ InWay(MM!BufferReleases(w), c, h)
    BY <2>2, BothFree
  <2>6. /\ Claims(w, c) <=> Frees(S, c) \/ Frees(R, c)
        /\ Knows(w, c, h) <=> /\ InWay(S, c, h)
                              /\ InWay(R, c, h)
    BY <2>3, BothFree DEF Claims, Knows
  <2> QED
    BY <1>6, <2>4, <2>5, <2>6, BufferFrees, HeaderFrees
       DEF OwnsData, OwnsHeader, OwnsBacking, OwnsArray
<1> QED
  BY <1>1, <1>2, <1>3, <1>4, <1>5, <1>6 DEF Kinds

LEMMA NothingClaimed ==
    ASSUME NEW c, NEW h
    PROVE  ~Claims(MM!NoObject, c) /\ Knows(MM!NoObject, c, h)
<1>1. MM!Releases(MM!NoObject) = {}
  BY DEF MM!Releases, MM!NoObject
<1> QED
  BY <1>1, NothingFreed DEF Claims, Knows

LEMMA Released ==
    ASSUME heap \in Heaps, NEW R, MM!Release(R), NEW c \in Blocks
    PROVE  /\ heap' \in Heaps
           /\ Frees(R, c) => heap'[c] = "freed"
           /\ ~Frees(R, c) => heap'[c] = heap[c]
           /\ c \in wrong' <=> c \in wrong \/ ~InWay(R, c, heap[c])
<1>1. /\ heap' = [b \in Blocks |-> IF Frees(R, b) THEN "freed" ELSE heap[b]]
      /\ wrong' = wrong \cup {r[1] : r \in {s \in R : heap[s[1]] # s[2]}}
  BY Zenon DEF MM!Release, Frees
<1>2. c \in wrong' <=> c \in wrong \/ \E r \in R : heap[r[1]] # r[2] /\ r[1] = c
  BY <1>1
<1>3. (\E r \in R : heap[r[1]] # r[2] /\ r[1] = c) <=> ~InWay(R, c, heap[c])
  BY Zenon DEF InWay
<1>4. heap' \in Heaps
  <2>1. \A b \in Blocks : heap[b] \in {"unused", "mr", "ucx", "freed"}
    BY DEF Heaps
  <2> QED
    BY <1>1, <2>1 DEF Heaps
<1> QED
  BY <1>1, <1>2, <1>3, <1>4

LEMMA Allocated ==
    ASSUME heap \in Heaps, NEW S, NEW y \in {"mr", "ucx"}, MM!Allocate(S, y), NEW c \in Blocks
    PROVE  /\ heap' \in Heaps
           /\ c \in S => heap[c] = "unused" /\ heap'[c] = y
           /\ c \notin S => heap'[c] = heap[c]
<1>1. heap' = [b \in Blocks |-> IF b \in S THEN y ELSE heap[b]]
  BY DEF MM!Allocate
<1>2. c \in S => heap[c] = "unused"
  BY DEF MM!Allocate
<1>3. \A b \in Blocks : heap[b] \in {"unused", "mr", "ucx", "freed"}
  BY DEF Heaps
<1>4. heap' \in Heaps
  BY <1>1, <1>3 DEF Heaps
<1> QED
  BY <1>1, <1>2, <1>4

LEMMA AllocatedHeap ==
    ASSUME heap \in Heaps, NEW S, MM!Allocate(S, "mr")
    PROVE  heap' \in Heaps
<1>1. heap' = [b \in Blocks |-> IF b \in S THEN "mr" ELSE heap[b]]
  BY DEF MM!Allocate
<1>2. \A b \in Blocks : heap[b] \in {"unused", "mr", "ucx", "freed"}
  BY DEF Heaps
<1> QED
  BY <1>1, <1>2 DEF Heaps

LEMMA OwnedIsClaimed ==
    ASSUME NEW w, NEW c
    PROVE  c \in MM!Owned(w) <=> Claims(w, c)
BY DEF MM!Owned, Claims, Frees

LEMMA NewObject ==
    ASSUME NEW o \in Objs, NEW w, NEW f, DOMAIN f = Objs, NEW g,
           g = [f EXCEPT ![o] = w]
    PROVE  /\ DOMAIN g = Objs /\ g[o] = w
           /\ \A y \in Objs : y # o => g[y] = f[y]
OBVIOUS

LEMMA NewObjects ==
    ASSUME NEW o \in Objs, NEW p \in Objs, o # p, NEW v, NEW w, NEW f, DOMAIN f = Objs, NEW g,
           g = [f EXCEPT ![p] = v, ![o] = w]
    PROVE  /\ DOMAIN g = Objs /\ g[p] = v /\ g[o] = w
           /\ \A y \in Objs : y # o /\ y # p => g[y] = f[y]
OBVIOUS

LEMMA EmptiedFields ==
    ASSUME NEW w \in Wrappers, NEW v, v = MM!Emptied(w)
    PROVE  /\ v \in Wrappers
           /\ v.kind = w.kind /\ v.hdr = MM!Null /\ v.arr = MM!Null /\ v.bufs = <<>>
           /\ ~v.ownHdr /\ ~v.own /\ ~v.fn /\ v.backing = w.backing
<1>1. v = [kind |-> w.kind, hdr |-> MM!Null, arr |-> MM!Null, bufs |-> <<>>,
           ownHdr |-> FALSE, own |-> FALSE, fn |-> FALSE, backing |-> w.backing]
  BY DEF MM!Emptied, Wrappers
<1>2. MM!Null \in Places /\ <<>> \in Seq(Places)
  BY DEF Places
<1>3. v \in Wrappers
  BY <1>1, <1>2, WrapperFields DEF Wrappers
<1> QED
  BY <1>1, <1>3

\* An emptied wrapper keeps the backing of a vector only.
LEMMA EmptiedClaims ==
    ASSUME NEW w \in Wrappers, Tidy(w), NEW v, v = MM!Emptied(w)
    PROVE  /\ Object(v)
           /\ \A c \in Blocks : OnceIn(v, c)
           /\ \A c \in Blocks : \A h :
                /\ Claims(v, c) <=> OwnsBacking(w, c)
                /\ Knows(v, c, h) <=> (OwnsBacking(w, c) => h = MM!Way(w.backing.fn))
<1>1. /\ v \in Wrappers
      /\ v.kind = w.kind /\ v.hdr = MM!Null /\ v.arr = MM!Null /\ v.bufs = <<>>
      /\ ~v.ownHdr /\ ~v.own /\ ~v.fn /\ v.backing = w.backing
  BY EmptiedFields
<1>2. Tidy(v)
  BY <1>1 DEF Tidy
<1>3. ASSUME NEW c \in Blocks, NEW h
      PROVE  /\ Claims(v, c) <=> OwnsBacking(w, c)
             /\ Knows(v, c, h) <=> (OwnsBacking(w, c) => h = MM!Way(w.backing.fn))
  <2>1. ~OwnsData(v, c) /\ ~OwnsHeader(v, c) /\ ~OwnsArray(v, c)
    BY <1>1 DEF OwnsData, OwnsHeader, OwnsArray
  <2>2. OwnsBacking(v, c) <=> OwnsBacking(w, c)
    BY <1>1 DEF OwnsBacking
  <2> QED
    BY <1>1, <2>1, <2>2, ClaimReasons
<1>4. \A c \in Blocks : OnceIn(v, c)
  BY <1>1 DEF OnceIn
<1> QED
  BY <1>1, <1>2, <1>3, <1>4 DEF Object

LEMMA ObjectFields ==
    ASSUME NEW w, Object(w), w # MM!NoObject
    PROVE  w \in Wrappers /\ Tidy(w)
BY DEF Object

LEMMA KindOfNothing ==
    ASSUME NEW w, Object(w), w.kind \in Kinds
    PROVE  w \in Wrappers /\ Tidy(w) /\ w # MM!NoObject
BY DEF Object, MM!NoObject, Kinds

-----------------------------------------------------------------------------
(* Where a block is.                                                       *)

LEMMA ByObject ==
    ASSUME NEW c, Spotted(c), NEW o \in Objs, Claims(objs[o], c)
    PROVE  /\ Unlisted(c) /\ Live(c) /\ c \notin users /\ c \notin wrong
           /\ Knows(objs[o], c, heap[c])
           /\ \A y \in Objs : Claims(objs[y], c) => y = o
<1>1. PICK k, x : Spot(c, k, x)
  BY DEF Spotted
<1>2. k = "object" /\ x = o
  BY <1>1 DEF Spot
<1> QED
  BY <1>1, <1>2 DEF Spot, Unlisted, Live

LEMMA ByUser ==
    ASSUME NEW c, Spotted(c), c \in users
    PROVE  Unlisted(c) /\ Live(c) /\ Unclaimed(c) /\ c \notin wrong
<1>1. PICK k, x : Spot(c, k, x)
  BY DEF Spotted
<1>2. k = "user"
  BY <1>1 DEF Spot
<1> QED
  BY <1>1, <1>2 DEF Spot, Unlisted, Live, Unclaimed

LEMMA ByNobody ==
    ASSUME NEW c, Spotted(c), heap[c] \notin {"mr", "ucx"}
    PROVE  Unlisted(c) /\ Unclaimed(c) /\ c \notin users /\ c \notin wrong
<1>1. PICK k, x : Spot(c, k, x)
  BY DEF Spotted
<1>2. k = "none"
  BY <1>1 DEF Spot
<1> QED
  BY <1>1, <1>2 DEF Spot, Unlisted, Unclaimed

LEMMA Stays ==
    ASSUME NEW c, Spotted(c), Same(c), context' = context,
           \A y \in Objs : /\ Claims(objs'[y], c) <=> Claims(objs[y], c)
                           /\ Claims(objs[y], c) /\ Knows(objs[y], c, heap[c]) =>
                                Knows(objs'[y], c, heap[c])
    PROVE  Spotted(c)'
<1>1. PICK k, x : Spot(c, k, x)
  BY DEF Spotted
<1>2. Spot(c, k, x)'
  BY <1>1 DEF Spot, Same, Waits
<1> QED
  BY <1>2 DEF Spotted

LEMMA ToObject ==
    ASSUME NEW c, NEW p \in Objs, Unlisted(c)', c \notin users', c \notin wrong', Live(c)',
           \A y \in Objs : Claims(objs'[y], c) <=> y = p,
           Knows(objs'[p], c, heap'[c])
    PROVE  Spotted(c)'
<1>1. Spot(c, "object", p)'
  BY DEF Spot, Unlisted, Live
<1> QED
  BY <1>1 DEF Spotted

LEMMA ToUser ==
    ASSUME NEW c, Unlisted(c)', c \in users', c \notin wrong', Live(c)', Unclaimed(c)'
    PROVE  Spotted(c)'
<1>1. Spot(c, "user", c)'
  BY DEF Spot, Unlisted, Live, Unclaimed
<1> QED
  BY <1>1 DEF Spotted

LEMMA ToNobody ==
    ASSUME NEW c, Unlisted(c)', c \notin users', c \notin wrong', ~Live(c)', Unclaimed(c)'
    PROVE  Spotted(c)'
<1>1. Spot(c, "none", c)'
  BY DEF Spot, Unlisted, Live, Unclaimed
<1> QED
  BY <1>1 DEF Spotted

LEMMA ToLeaked ==
    ASSUME NEW c, Offlist(c)', c \in leaked', c \notin users', c \notin wrong', Live(c)', Unclaimed(c)'
    PROVE  Spotted(c)'
<1>1. Spot(c, "leaked", c)'
  BY DEF Spot, Offlist, Live, Unclaimed
<1> QED
  BY <1>1 DEF Spotted

LEMMA StillUnlisted ==
    ASSUME NEW c, Unlisted(c), context' = context
    PROVE  Offlist(c)' /\ (c \notin leaked' => Unlisted(c)')
BY DEF Unlisted, Offlist, Waits

LEMMA OneMade ==
    ASSUME MemoryInv, NEW o \in Objs, MM!Vacant(o), NEW w, Object(w),
           objs' = [objs EXCEPT ![o] = w], heap' \in Heaps, context' = context,
           twice' = twice, \A c \in Blocks \ twice : Fate(w, c)
    PROVE  MemoryInv'
<1>1. PICK f : f = objs
  OBVIOUS
<1>2. PICK g : g = objs'
  OBVIOUS
<1>3. DOMAIN f = Objs
  BY <1>1 DEF MemoryInv, MemoryTypes
<1>4. DOMAIN g = Objs /\ g[o] = w /\ \A y \in Objs : y # o => g[y] = f[y]
  BY <1>1, <1>2, <1>3, NewObject
<1>5. /\ DOMAIN objs' = Objs /\ objs'[o] = w
      /\ \A y \in Objs : y # o => objs'[y] = objs[y]
  BY <1>1, <1>2, <1>4
<1>6. MemoryTypes'
  BY <1>5 DEF MemoryInv, MemoryTypes
<1>7. ASSUME NEW c \in Blocks \ twice
      PROVE  Spotted(c)' /\ \A y \in Objs : OnceIn(objs'[y], c)
  <2>1. Spotted(c) /\ \A y \in Objs : OnceIn(objs[y], c)
    BY DEF MemoryInv, Singly, Spotted
  <2>2. Fate(w, c)
    OBVIOUS
  <2>3. ~Claims(objs[o], c)
    BY NothingClaimed DEF MM!Vacant
  <2>4. \A y \in Objs : OnceIn(objs'[y], c)
    BY <1>5, <2>1, <2>2 DEF Fate
  <2>5. \A y \in Objs : y # o => (Claims(objs'[y], c) <=> Claims(objs[y], c))
    BY <1>5
  <2>6. Claims(objs'[o], c) <=> Claims(w, c)
    BY <1>5
  <2>7. CASE ~Claims(w, c) /\ Same(c)
    <3>1. \A y \in Objs : /\ Claims(objs'[y], c) <=> Claims(objs[y], c)
                          /\ Claims(objs[y], c) /\ Knows(objs[y], c, heap[c]) =>
                               Knows(objs'[y], c, heap[c])
      BY <1>5, <2>3, <2>7
    <3> QED
      BY <2>1, <2>4, <2>7, <3>1, Stays
  <2>8. CASE /\ Claims(w, c) /\ Knows(w, c, heap'[c])
             /\ heap[c] = "unused" /\ Live(c)'
             /\ (c \in users' <=> c \in users) /\ (c \in leaked' <=> c \in leaked)
    <3>1. Unlisted(c) /\ Unclaimed(c) /\ c \notin users /\ c \notin wrong
      BY <2>1, <2>8, ByNobody
    <3>2. Unlisted(c)'
      BY <2>8, <3>1, StillUnlisted DEF Unlisted
    <3>3. \A y \in Objs : Claims(objs'[y], c) <=> y = o
      BY <2>5, <2>6, <2>8, <3>1 DEF Unclaimed
    <3>4. Knows(objs'[o], c, heap'[c])
      BY <1>5, <2>8
    <3> QED
      BY <2>2, <2>4, <2>8, <3>1, <3>2, <3>3, <3>4, ToObject DEF Fate
  <2>9. CASE /\ Claims(w, c) /\ Knows(w, c, heap[c]) /\ heap'[c] = heap[c]
             /\ c \in users /\ c \notin users' /\ (c \in leaked' <=> c \in leaked)
    <3>1. Unlisted(c) /\ Live(c) /\ Unclaimed(c) /\ c \notin wrong
      BY <2>1, <2>9, ByUser
    <3>2. Unlisted(c)'
      BY <2>9, <3>1, StillUnlisted DEF Unlisted
    <3>3. \A y \in Objs : Claims(objs'[y], c) <=> y = o
      BY <2>5, <2>6, <2>9, <3>1 DEF Unclaimed
    <3>4. Knows(objs'[o], c, heap'[c]) /\ Live(c)'
      BY <1>5, <2>9, <3>1 DEF Live
    <3> QED
      BY <2>2, <2>4, <2>9, <3>1, <3>2, <3>3, <3>4, ToObject DEF Fate
  <2>10. CASE /\ ~Claims(w, c) /\ heap[c] = "unused" /\ Live(c)'
              /\ c \in users' /\ (c \in leaked' <=> c \in leaked)
    <3>1. Unlisted(c) /\ Unclaimed(c) /\ c \notin users /\ c \notin wrong
      BY <2>1, <2>10, ByNobody
    <3>2. Unlisted(c)'
      BY <2>10, <3>1, StillUnlisted DEF Unlisted
    <3>3. Unclaimed(c)'
      BY <2>5, <2>6, <2>10, <3>1 DEF Unclaimed
    <3> QED
      BY <2>2, <2>4, <2>10, <3>1, <3>2, <3>3, ToUser DEF Fate
  <2>11. CASE /\ ~Claims(w, c) /\ heap[c] = "unused" /\ Live(c)'
              /\ (c \in users' <=> c \in users) /\ c \in leaked'
    <3>1. Unlisted(c) /\ Unclaimed(c) /\ c \notin users /\ c \notin wrong
      BY <2>1, <2>11, ByNobody
    <3>2. Offlist(c)'
      BY <3>1, StillUnlisted
    <3>3. Unclaimed(c)'
      BY <2>5, <2>6, <2>11, <3>1 DEF Unclaimed
    <3> QED
      BY <2>2, <2>4, <2>11, <3>1, <3>2, <3>3, ToLeaked DEF Fate
  <2> QED
    BY <2>2, <2>7, <2>8, <2>9, <2>10, <2>11 DEF Fate
<1> QED
  BY <1>6, <1>7 DEF MemoryInv, Singly, Spotted

-----------------------------------------------------------------------------
(* What the new wrappers own.                                              *)

\* The claims of a wrapper without backing.
LEMMA PlainClaims ==
    ASSUME NEW w \in Wrappers, ~w.backing.own, NEW c \in Blocks, NEW h
    PROVE  /\ Claims(w, c) <=> OwnsData(w, c) \/ OwnsHeader(w, c) \/ OwnsArray(w, c)
           /\ Knows(w, c, h) <=> /\ OwnsData(w, c) => h = MM!Way(w.fn)
                                 /\ OwnsHeader(w, c) => h = "mr"
                                 /\ OwnsArray(w, c) => h = "mr"
<1>1. ~OwnsBacking(w, c)
  BY DEF OwnsBacking
<1> QED
  BY <1>1, ClaimReasons

LEMMA NoBackingFields ==
    /\ MM!NoBacking \in Backings /\ ~MM!NoBacking.own
    /\ MM!Null \in Places /\ MM!NoBacking.block = MM!Null
BY DEF MM!NoBacking, Backings, Places

LEMMA BufferMade ==
    ASSUME NEW b \in Places, NEW own \in BOOLEAN, NEW fn \in BOOLEAN, NEW w,
           w = [kind |-> "buffer", hdr |-> MM!Null, arr |-> MM!Null, bufs |-> <<b>>,
                ownHdr |-> FALSE, own |-> own, fn |-> fn, backing |-> MM!NoBacking]
    PROVE  /\ Object(w) /\ \A c : OnceIn(w, c)
           /\ \A c \in Blocks : \A h : /\ Claims(w, c) <=> own /\ c = b
                                       /\ Knows(w, c, h) <=> (own /\ c = b => h = MM!Way(fn))
<1>2. w \in Wrappers
  BY NoBackingFields DEF Wrappers, Kinds
<1>3. /\ w.kind = "buffer" /\ w.arr = MM!Null /\ w.bufs = <<b>>
      /\ (w.own <=> own) /\ ~w.backing.own /\ w.fn = fn /\ ~w.ownHdr
  BY NoBackingFields
<1>4. PICK B : B = w.bufs
  OBVIOUS
<1>5. Len(B) = 1 /\ DOMAIN B = {1} /\ B[1] = b
  BY <1>3, <1>4
<1>6. Tidy(w)
  BY <1>3, <1>4, <1>5 DEF Tidy
<1>7. ASSUME NEW c PROVE OnceIn(w, c)
  BY <1>3 DEF OnceIn
<1>8. ASSUME NEW c \in Blocks, NEW h
      PROVE  /\ Claims(w, c) <=> own /\ c = b
             /\ Knows(w, c, h) <=> (own /\ c = b => h = MM!Way(fn))
  <2>1. InBufs(w, c) <=> c = b
    BY <1>4, <1>5 DEF InBufs
  <2>2. (OwnsData(w, c) <=> own /\ c = b) /\ ~OwnsHeader(w, c) /\ ~OwnsArray(w, c)
    BY <1>3, <2>1 DEF OwnsData, OwnsHeader, OwnsArray
  <2>3. MM!Way(w.fn) = MM!Way(fn)
    BY <1>3, Zenon
  <2> QED
    BY <1>2, <1>3, <2>2, <2>3, PlainClaims
<1> QED
  BY <1>2, <1>6, <1>7, <1>8 DEF Object

LEMMA HeaderMade ==
    ASSUME NEW b \in Places, NEW own \in BOOLEAN, NEW w,
           w = [kind |-> "header", hdr |-> b, arr |-> MM!Null, bufs |-> <<>>,
                ownHdr |-> own, own |-> FALSE, fn |-> FALSE, backing |-> MM!NoBacking]
    PROVE  /\ Object(w) /\ \A c : OnceIn(w, c)
           /\ \A c \in Blocks : \A h : /\ Claims(w, c) <=> own /\ c = b
                                       /\ Knows(w, c, h) <=> (own /\ c = b => h = "mr")
<1>2. w \in Wrappers
  BY NoBackingFields DEF Wrappers, Kinds
<1>3. /\ w.kind = "header" /\ w.hdr = b /\ w.arr = MM!Null
      /\ (w.ownHdr <=> own) /\ ~w.backing.own /\ ~w.own
  BY NoBackingFields
<1>6. Tidy(w)
  BY <1>3 DEF Tidy
<1>7. ASSUME NEW c PROVE OnceIn(w, c)
  BY <1>3 DEF OnceIn
<1>8. ASSUME NEW c \in Blocks, NEW h
      PROVE  /\ Claims(w, c) <=> own /\ c = b
             /\ Knows(w, c, h) <=> (own /\ c = b => h = "mr")
  <2>2. (OwnsHeader(w, c) <=> own /\ c = b) /\ ~OwnsData(w, c) /\ ~OwnsArray(w, c)
    BY <1>3 DEF OwnsData, OwnsHeader, OwnsArray
  <2> QED
    BY <1>2, <1>3, <2>2, PlainClaims
<1> QED
  BY <1>2, <1>6, <1>7, <1>8 DEF Object

LEMMA VecMade ==
    ASSUME NEW bs \in Seq(Places), NEW own \in BOOLEAN, NEW fn \in BOOLEAN, NEW w,
           w = [kind |-> "vec", hdr |-> MM!Null, arr |-> MM!Null, bufs |-> bs,
                ownHdr |-> FALSE, own |-> own, fn |-> fn, backing |-> MM!NoBacking]
    PROVE  /\ Object(w)
           /\ \A c : (own => Sole(bs, c)) =>
                        OnceIn(w, c)
           /\ \A c \in Blocks : \A h :
                /\ Claims(w, c) <=> own /\ Among(bs, c)
                /\ Knows(w, c, h) <=> (own /\ Among(bs, c) => h = MM!Way(fn))
<1>2. w \in Wrappers
  BY NoBackingFields DEF Wrappers, Kinds
<1>3. /\ w.kind = "vec" /\ w.arr = MM!Null /\ w.bufs = bs
      /\ (w.own <=> own) /\ ~w.backing.own /\ w.fn = fn /\ ~w.ownHdr
  BY NoBackingFields
<1>6. Tidy(w)
  BY <1>3 DEF Tidy
<1>7. ASSUME NEW c, own => Sole(bs, c)
      PROVE OnceIn(w, c)
  BY <1>3, <1>7 DEF OnceIn, Sole
<1>8. ASSUME NEW c \in Blocks, NEW h
      PROVE  /\ Claims(w, c) <=> own /\ Among(bs, c)
             /\ Knows(w, c, h) <=> (own /\ Among(bs, c) => h = MM!Way(fn))
  <2>2. /\ OwnsData(w, c) <=> own /\ Among(bs, c)
        /\ ~OwnsHeader(w, c) /\ ~OwnsArray(w, c)
    BY <1>3 DEF OwnsData, OwnsHeader, OwnsArray, InBufs, Among
  <2>3. MM!Way(w.fn) = MM!Way(fn)
    BY <1>3, Zenon
  <2> QED
    BY <1>2, <1>3, <2>2, <2>3, PlainClaims
<1> QED
  BY <1>2, <1>6, <1>7, <1>8 DEF Object

LEMMA AmDataMade ==
    ASSUME NEW w \in Wrappers, NEW hdr, NEW bs,
           w.kind = "amdata" /\ w.arr = MM!Null /\ ~w.backing.own,
           w.hdr = hdr, w.bufs = bs, w.own /\ w.ownHdr => Apart(hdr, bs)
    PROVE  /\ Object(w) /\ \A c : OnceIn(w, c)
           /\ \A c \in Blocks : \A h :
                /\ Claims(w, c) <=> \/ w.own /\ Among(bs, c)
                                    \/ w.ownHdr /\ hdr = c
                /\ Knows(w, c, h) <=>
                     /\ w.own /\ Among(bs, c) => h = MM!Way(w.fn)
                     /\ w.ownHdr /\ hdr = c => h = "mr"
<1>6. Tidy(w)
  BY DEF Tidy, InBufs, Among, Apart
<1>7. ASSUME NEW c PROVE OnceIn(w, c)
  BY DEF OnceIn
<1>8. ASSUME NEW c \in Blocks, NEW h
      PROVE  /\ Claims(w, c) <=> \/ w.own /\ Among(bs, c)
                                 \/ w.ownHdr /\ hdr = c
             /\ Knows(w, c, h) <=>
                  /\ w.own /\ Among(bs, c) => h = MM!Way(w.fn)
                  /\ w.ownHdr /\ hdr = c => h = "mr"
  <2>2. /\ OwnsData(w, c) <=> w.own /\ Among(bs, c)
        /\ (OwnsHeader(w, c) <=> w.ownHdr /\ hdr = c) /\ ~OwnsArray(w, c)
    BY DEF OwnsData, OwnsHeader, OwnsArray, InBufs, Among
  <2> QED
    BY <2>2, PlainClaims
<1> QED
  BY <1>6, <1>7, <1>8 DEF Object

LEMMA AmIovecMade ==
    ASSUME NEW arr \in Places, NEW b \in Places, NEW own \in BOOLEAN, NEW w,
           w = [kind |-> "iovec", hdr |-> MM!Null, arr |-> arr, bufs |-> <<b>>,
                ownHdr |-> FALSE, own |-> own, fn |-> FALSE, backing |-> MM!NoBacking]
    PROVE  /\ Object(w) /\ \A c : OnceIn(w, c)
           /\ \A c \in Blocks : \A h :
                /\ Claims(w, c) <=> own /\ (c = b \/ c = arr)
                /\ h = "mr" => Knows(w, c, h)
<1>2. w \in Wrappers
  BY NoBackingFields DEF Wrappers, Kinds
<1>3. /\ w.kind = "iovec" /\ w.arr = arr /\ w.bufs = <<b>>
      /\ (w.own <=> own) /\ ~w.backing.own /\ ~w.fn /\ ~w.ownHdr
  BY NoBackingFields
<1>4. PICK B : B = w.bufs
  OBVIOUS
<1>5. DOMAIN B = {1} /\ B[1] = b
  BY <1>3, <1>4
<1>6. Tidy(w)
  BY <1>3 DEF Tidy
<1>7. ASSUME NEW c PROVE OnceIn(w, c)
  BY <1>3 DEF OnceIn
<1>8. ASSUME NEW c \in Blocks, NEW h
      PROVE  /\ Claims(w, c) <=> own /\ (c = b \/ c = arr)
             /\ h = "mr" => Knows(w, c, h)
  <2>1. InBufs(w, c) <=> c = b
    BY <1>4, <1>5 DEF InBufs
  <2>2. /\ OwnsData(w, c) <=> own /\ c = b
        /\ ~OwnsHeader(w, c)
        /\ OwnsArray(w, c) <=> own /\ c = arr
    BY <1>3, <2>1 DEF OwnsData, OwnsHeader, OwnsArray
  <2>3. MM!Way(w.fn) = "mr"
    BY <1>3 DEF MM!Way
  <2> QED
    BY <1>2, <1>3, <2>2, <2>3, PlainClaims
<1> QED
  BY <1>2, <1>6, <1>7, <1>8 DEF Object

-----------------------------------------------------------------------------
(* Making objects.                                                         *)

LEMMA BufferIsMade ==
    ASSUME MemoryInv, NEW o \in Objs, NEW b \in Blocks, NEW own \in BOOLEAN,
           MM!Vacant(o), MM!MakeBuffer(o, b, own), UNCHANGED <<leaked, wrong, context, twice>>
    PROVE  MemoryInv'
<1>1. PICK w : w = [kind |-> "buffer", hdr |-> MM!Null, arr |-> MM!Null, bufs |-> <<b>>,
                 ownHdr |-> FALSE, own |-> own, fn |-> FALSE, backing |-> MM!NoBacking]
  OBVIOUS
<1>2. objs' = [objs EXCEPT ![o] = w]
  BY <1>1 DEF MM!MakeBuffer, MM!Wrapper
<1>3. MM!Allocate({b}, "mr") /\ (own => users' = users) /\ (~own => users' = users \cup {b})
  BY DEF MM!MakeBuffer
<1>4. heap \in Heaps /\ b \in Places
  BY DEF MemoryInv, MemoryTypes, Places
<1>5. \A c \in Blocks : /\ heap' \in Heaps
                        /\ c = b => heap[c] = "unused" /\ heap'[c] = "mr"
                        /\ c # b => heap'[c] = heap[c]
  <2>1. PICK S : S = {b}
    OBVIOUS
  <2> QED
    BY <1>3, <1>4, <2>1, Allocated
<1>6. /\ Object(w) /\ \A c : OnceIn(w, c)
      /\ \A c \in Blocks : /\ Claims(w, c) <=> own /\ c = b
                           /\ Knows(w, c, "mr")
  <2>1. PICK no \in BOOLEAN : no = FALSE
    OBVIOUS
  <2>2. w = [kind |-> "buffer", hdr |-> MM!Null, arr |-> MM!Null, bufs |-> <<b>>,
             ownHdr |-> FALSE, own |-> own, fn |-> no, backing |-> MM!NoBacking]
    BY <1>1, <2>1, Zenon
  <2>3. MM!Way(no) = "mr"
    BY <2>1 DEF MM!Way
  <2> QED
    BY <1>4, <2>2, <2>3, BufferMade
<1>7. ASSUME NEW c \in Blocks \ twice
      PROVE  Fate(w, c)
  <2>1. CASE c = b /\ own
    BY <1>3, <1>5, <1>6, <2>1 DEF Fate, Live
  <2>2. CASE c = b /\ ~own
    BY <1>3, <1>5, <1>6, <2>2 DEF Fate, Live
  <2>3. CASE c # b
    BY <1>3, <1>5, <1>6, <2>3 DEF Fate, Same
  <2> QED
    BY <2>1, <2>2, <2>3
<1>8. heap' \in Heaps
  BY <1>3, <1>4, AllocatedHeap
<1> QED
  BY <1>2, <1>6, <1>7, <1>8, OneMade

LEMMA HeaderIsMade ==
    ASSUME MemoryInv, NEW o \in Objs, NEW b \in Blocks, NEW own \in BOOLEAN,
           MM!Vacant(o), MM!MakeHeader(o, b, own), UNCHANGED <<leaked, wrong, context, twice>>
    PROVE  MemoryInv'
<1>1. PICK w : w = [kind |-> "header", hdr |-> b, arr |-> MM!Null, bufs |-> <<>>,
                 ownHdr |-> own, own |-> FALSE, fn |-> FALSE, backing |-> MM!NoBacking]
  OBVIOUS
<1>2. objs' = [objs EXCEPT ![o] = w]
  BY <1>1 DEF MM!MakeHeader, MM!Wrapper
<1>3. MM!Allocate({b}, "mr") /\ (own => users' = users) /\ (~own => users' = users \cup {b})
  BY DEF MM!MakeHeader
<1>4. heap \in Heaps /\ b \in Places
  BY DEF MemoryInv, MemoryTypes, Places
<1>5. \A c \in Blocks : /\ heap' \in Heaps
                        /\ c = b => heap[c] = "unused" /\ heap'[c] = "mr"
                        /\ c # b => heap'[c] = heap[c]
  <2>1. PICK S : S = {b}
    OBVIOUS
  <2> QED
    BY <1>3, <1>4, <2>1, Allocated
<1>6. /\ Object(w) /\ \A c : OnceIn(w, c)
      /\ \A c \in Blocks : /\ Claims(w, c) <=> own /\ c = b
                           /\ Knows(w, c, "mr")
  BY <1>1, <1>4, HeaderMade
<1>7. ASSUME NEW c \in Blocks \ twice
      PROVE  Fate(w, c)
  <2>1. CASE c = b /\ own
    BY <1>3, <1>5, <1>6, <2>1 DEF Fate, Live
  <2>2. CASE c = b /\ ~own
    BY <1>3, <1>5, <1>6, <2>2 DEF Fate, Live
  <2>3. CASE c # b
    BY <1>3, <1>5, <1>6, <2>3 DEF Fate, Same
  <2> QED
    BY <2>1, <2>2, <2>3
<1>8. heap' \in Heaps
  BY <1>3, <1>4, AllocatedHeap
<1> QED
  BY <1>2, <1>6, <1>7, <1>8, OneMade

LEMMA BufferVecIsMade ==
    ASSUME MemoryInv, NEW o \in Objs, NEW bs \in Seq(Places), NEW own \in BOOLEAN,
           \A i, j \in DOMAIN bs : bs[i] = bs[j] => i = j,
           MM!Vacant(o), MM!MakeBufferVec(o, bs, own),
           UNCHANGED <<leaked, wrong, context, twice>>
    PROVE  MemoryInv'
<1>1. PICK w : w = [kind |-> "vec", hdr |-> MM!Null, arr |-> MM!Null, bufs |-> bs,
                 ownHdr |-> FALSE, own |-> own, fn |-> FALSE, backing |-> MM!NoBacking]
  OBVIOUS
<1>2. objs' = [objs EXCEPT ![o] = w]
  BY <1>1 DEF MM!MakeBufferVec, MM!Wrapper
<1>3. PICK S : S = MM!DataOf([bufs |-> bs])
  OBVIOUS
<1>4. MM!Allocate(S, "mr") /\ (own => users' = users) /\ (~own => users' = users \cup S)
  BY <1>3 DEF MM!MakeBufferVec
<1>5. heap \in Heaps
  BY DEF MemoryInv, MemoryTypes
<1>6. ASSUME NEW c \in Blocks
      PROVE  /\ heap' \in Heaps
             /\ c \in S => heap[c] = "unused" /\ heap'[c] = "mr"
             /\ c \notin S => heap'[c] = heap[c]
  BY <1>4, <1>5, Allocated
<1>7. \A c \in Blocks : c \in S <=> Among(bs, c)
  <2>1. \A c \in Blocks : c # MM!Null
    BY NullAssumption DEF MM!Null
  <2>2. S = {bs[i] : i \in DOMAIN bs} \ {MM!Null}
    BY <1>3 DEF MM!DataOf
  <2> QED
    BY <2>1, <2>2 DEF Among
<1>8. /\ Object(w) /\ \A c \in Blocks : OnceIn(w, c)
      /\ \A c \in Blocks : /\ Claims(w, c) <=> own /\ c \in S
                           /\ Knows(w, c, "mr")
  <2>1. PICK no \in BOOLEAN : no = FALSE
    OBVIOUS
  <2>2. w = [kind |-> "vec", hdr |-> MM!Null, arr |-> MM!Null, bufs |-> bs,
             ownHdr |-> FALSE, own |-> own, fn |-> no, backing |-> MM!NoBacking]
    BY <1>1, <2>1, Zenon
  <2>3. MM!Way(no) = "mr"
    BY <2>1 DEF MM!Way
  <2>4. /\ Object(w)
        /\ \A c : (own => Sole(bs, c)) =>
                     OnceIn(w, c)
        /\ \A c \in Blocks : \A h :
             /\ Claims(w, c) <=> own /\ Among(bs, c)
             /\ Knows(w, c, h) <=> (own /\ Among(bs, c) => h = MM!Way(no))
    BY <2>2, VecMade
  <2>5. \A c : Sole(bs, c)
    BY DEF Sole
  <2> QED
    BY <1>7, <2>3, <2>4, <2>5
<1>9. ASSUME NEW c \in Blocks \ twice
      PROVE  Fate(w, c)
  <2>1. CASE c \in S /\ own
    BY <1>4, <1>6, <1>8, <2>1 DEF Fate, Live
  <2>2. CASE c \in S /\ ~own
    BY <1>4, <1>6, <1>8, <2>2 DEF Fate, Live
  <2>3. CASE c \notin S
    BY <1>4, <1>6, <1>8, <2>3 DEF Fate, Same
  <2> QED
    BY <2>1, <2>2, <2>3
<1>10. heap' \in Heaps
  BY <1>4, <1>5, AllocatedHeap
<1> QED
  BY <1>2, <1>8, <1>9, <1>10, OneMade

LEMMA AmDataIsMade ==
    ASSUME MemoryInv, NEW o \in Objs, NEW g \in Blocks, NEW b \in Blocks, g # b,
           NEW ownHdr \in BOOLEAN, NEW own \in BOOLEAN,
           MM!Vacant(o), MM!MakeAmData(o, g, b, ownHdr, own),
           UNCHANGED <<leaked, wrong, context, twice>>
    PROVE  MemoryInv'
<1>1. PICK hd : hd = IF ownHdr THEN g ELSE MM!Null
  OBVIOUS
<1>2. PICK bs : bs = IF own THEN <<b>> ELSE <<>>
  OBVIOUS
<1>3. PICK w : w = [kind |-> "amdata", hdr |-> hd, arr |-> MM!Null, bufs |-> bs,
                 ownHdr |-> ownHdr, own |-> own, fn |-> FALSE, backing |-> MM!NoBacking]
  OBVIOUS
<1>4. objs' = [objs EXCEPT ![o] = w]
  BY <1>1, <1>2, <1>3 DEF MM!MakeAmData, MM!Wrapper
<1>5. PICK S : S = (IF ownHdr THEN {g} ELSE {}) \cup (IF own THEN {b} ELSE {})
  OBVIOUS
<1>6. MM!Allocate(S, "mr") /\ users' = users
  BY <1>5 DEF MM!MakeAmData
<1>7. heap \in Heaps
  BY DEF MemoryInv, MemoryTypes
<1>8. ASSUME NEW c \in Blocks
      PROVE  /\ c \in S => heap[c] = "unused" /\ heap'[c] = "mr"
             /\ c \notin S => heap'[c] = heap[c]
  BY <1>6, <1>7, Allocated
<1>9. \A c \in Blocks : c \in S <=> (ownHdr /\ c = g) \/ (own /\ c = b)
  BY <1>5
<1>10. hd \in Places /\ (ownHdr => hd = g) /\ bs \in Seq(Places)
  <2>1. CASE own
    BY <1>1, <1>2, <2>1 DEF Places
  <2>2. CASE ~own
    BY <1>1, <1>2, <2>2 DEF Places
  <2> QED
    BY <2>1, <2>2
<1>11. \A c : own => (Among(bs, c) <=> c = b)
  BY <1>2 DEF Among
<1>12. /\ Object(w) /\ \A c : OnceIn(w, c)
       /\ \A c \in Blocks : /\ Claims(w, c) <=> c \in S
                            /\ Knows(w, c, "mr")
  <2>1. w \in Wrappers
    BY <1>3, <1>10, NoBackingFields DEF Wrappers, Kinds
  <2>2. /\ w.kind = "amdata" /\ w.arr = MM!Null /\ ~w.backing.own /\ w.hdr = hd /\ w.bufs = bs
        /\ (w.own <=> own) /\ (w.ownHdr <=> ownHdr) /\ ~w.fn
    BY <1>3, NoBackingFields
  <2>3. MM!Way(w.fn) = "mr"
    BY <2>2 DEF MM!Way
  <2>4. own /\ ownHdr => Apart(hd, bs)
    BY <1>10, <1>11 DEF Apart
  <2> QED
    BY <1>9, <1>10, <1>11, <2>1, <2>2, <2>3, <2>4, AmDataMade
<1>13. ASSUME NEW c \in Blocks \ twice
       PROVE  Fate(w, c)
  <2>1. CASE c \in S
    BY <1>6, <1>8, <1>12, <2>1 DEF Fate, Live
  <2>3. CASE c \notin S
    BY <1>6, <1>8, <1>12, <2>3 DEF Fate, Same
  <2> QED
    BY <2>1, <2>3
<1>14. heap' \in Heaps
  BY <1>6, <1>7, AllocatedHeap
<1> QED
  BY <1>4, <1>12, <1>13, <1>14, OneMade

LEMMA AmIovecIsMade ==
    ASSUME MemoryInv, NEW o \in Objs, NEW a \in Blocks, NEW b \in Blocks, a # b,
           NEW own \in BOOLEAN, MM!Vacant(o), MM!MakeAmIovec(o, a, b, own),
           UNCHANGED <<wrong, context, twice>>
    PROVE  MemoryInv'
<1>1. PICK z : z = IF own THEN b ELSE MM!Null
  OBVIOUS
<1>2. z \in Places /\ a \in Places /\ (own => z = b)
  BY <1>1 DEF Places
<1>3. PICK w : w = [kind |-> "iovec", hdr |-> MM!Null, arr |-> a, bufs |-> <<z>>,
                 ownHdr |-> FALSE, own |-> own, fn |-> FALSE, backing |-> MM!NoBacking]
  OBVIOUS
<1>4. objs' = [objs EXCEPT ![o] = w]
  <2>1. (IF own THEN <<b>> ELSE <<MM!Null>>) = <<z>>
    BY <1>1
  <2> QED
    BY <1>3, <2>1 DEF MM!MakeAmIovec, MM!Wrapper
<1>5. PICK S : S = {a} \cup (IF own THEN {b} ELSE {})
  OBVIOUS
<1>6. /\ MM!Allocate(S, "mr") /\ users' = users
      /\ own => leaked' = leaked
      /\ ~own => leaked' = leaked \cup {a}
  BY <1>5 DEF MM!MakeAmIovec
<1>7. heap \in Heaps
  BY DEF MemoryInv, MemoryTypes
<1>8. ASSUME NEW c \in Blocks
      PROVE  /\ c \in S => heap[c] = "unused" /\ heap'[c] = "mr"
             /\ c \notin S => heap'[c] = heap[c]
  BY <1>6, <1>7, Allocated
<1>9. \A c \in Blocks : c \in S <=> c = a \/ (own /\ c = b)
  BY <1>5
<1>10. /\ Object(w) /\ \A c : OnceIn(w, c)
       /\ \A c \in Blocks : /\ Claims(w, c) <=> own /\ (c = a \/ c = b)
                            /\ Knows(w, c, "mr")
  BY <1>2, <1>3, AmIovecMade
<1>11. ASSUME NEW c \in Blocks \ twice
       PROVE  Fate(w, c)
  <2>1. CASE own /\ (c = a \/ c = b)
    BY <1>6, <1>8, <1>9, <1>10, <2>1 DEF Fate, Live
  <2>2. CASE ~own /\ c = a
    BY <1>6, <1>8, <1>9, <1>10, <2>2 DEF Fate, Live
  <2>3. CASE ~own /\ c # a
    BY <1>6, <1>8, <1>9, <1>10, <2>3 DEF Fate, Same
  <2>4. CASE own /\ ~(c = a \/ c = b)
    BY <1>6, <1>8, <1>9, <1>10, <2>4 DEF Fate, Same
  <2> QED
    BY <2>1, <2>2, <2>3, <2>4
<1>14. heap' \in Heaps
  BY <1>6, <1>7, AllocatedHeap
<1> QED
  BY <1>4, <1>10, <1>11, <1>14, OneMade

LEMMA ConstructKeeps ==
    ASSUME MemoryInv, NEW o \in Objs, MM!Construct(o)
    PROVE  MemoryInv'
<1>1. MM!Vacant(o) /\ UNCHANGED <<wrong, context, twice>>
  BY DEF MM!Construct
<1>2. PICK a \in Blocks, b \in Blocks, own \in BOOLEAN, ownHdr \in BOOLEAN :
         \/ MM!MakeBuffer(o, b, own) /\ UNCHANGED leaked
         \/ MM!MakeHeader(o, b, own) /\ UNCHANGED leaked
         \/ /\ MM!MakeBufferVec(o, IF a = b THEN <<a>> ELSE <<a, b>>, own)
            /\ UNCHANGED leaked
         \/ a # b /\ MM!MakeAmData(o, a, b, ownHdr, own) /\ UNCHANGED leaked
         \/ a # b /\ MM!MakeAmIovec(o, a, b, own)
  BY Zenon DEF MM!Construct
<1>3. CASE MM!MakeBuffer(o, b, own) /\ UNCHANGED leaked
  BY <1>1, <1>3, BufferIsMade
<1>4. CASE MM!MakeHeader(o, b, own) /\ UNCHANGED leaked
  BY <1>1, <1>4, HeaderIsMade
<1>5. CASE /\ MM!MakeBufferVec(o, IF a = b THEN <<a>> ELSE <<a, b>>, own)
           /\ UNCHANGED leaked
  <2>1. PICK bs : bs = IF a = b THEN <<a>> ELSE <<a, b>>
    OBVIOUS
  <2>2. bs \in Seq(Places) /\ \A i, j \in DOMAIN bs : bs[i] = bs[j] => i = j
    <3>1. a \in Places /\ b \in Places
      BY DEF Places
    <3> QED
      BY <2>1, <3>1
  <2>3. MM!MakeBufferVec(o, bs, own)
    BY <1>5, <2>1, Zenon
  <2> QED
    BY <1>1, <1>5, <2>2, <2>3, BufferVecIsMade
<1>6. CASE a # b /\ MM!MakeAmData(o, a, b, ownHdr, own) /\ UNCHANGED leaked
  BY <1>1, <1>6, AmDataIsMade
<1>7. CASE a # b /\ MM!MakeAmIovec(o, a, b, own)
  BY <1>1, <1>7, AmIovecIsMade
<1> QED
  BY <1>2, <1>3, <1>4, <1>5, <1>6, <1>7

LEMMA Adopted ==
    ASSUME MemoryInv, NEW o \in Objs, NEW b \in Blocks, NEW own \in BOOLEAN,
           MM!Vacant(o), b \in users, NEW w, Object(w), \A c : OnceIn(w, c),
           \A c \in Blocks : Claims(w, c) <=> own /\ c = b,
           Live(b) => Knows(w, b, heap[b]),
           objs' = [objs EXCEPT ![o] = w],
           own => users' = users \ {b}, ~own => users' = users,
           UNCHANGED <<heap, wrong, context, leaked, twice>>
    PROVE  MemoryInv'
<1>1. heap' \in Heaps
  BY DEF MemoryInv, MemoryTypes
<1>2. ASSUME NEW c \in Blocks \ twice
      PROVE  Fate(w, c)
  <2>1. Spotted(c)
    BY DEF MemoryInv, Singly, Spotted
  <2>2. CASE c = b /\ own
    <3>1. Live(b)
      BY <2>1, <2>2, ByUser
    <3> QED
      BY <2>2, <3>1 DEF Fate
  <2>3. CASE ~(c = b /\ own)
    BY <2>3 DEF Fate, Same
  <2> QED
    BY <2>2, <2>3
<1> QED
  BY <1>1, <1>2, OneMade

LEMMA AdoptKeeps ==
    ASSUME MemoryInv, NEW o \in Objs, NEW b \in Blocks, NEW own \in BOOLEAN,
           MM!Adopt(o, b, own)
    PROVE  MemoryInv'
<1>1. /\ MM!Vacant(o) /\ b \in users /\ UNCHANGED <<heap, wrong, context, leaked, twice>>
      /\ (own => users' = users \ {b}) /\ (~own => users' = users)
  BY DEF MM!Adopt
<1>2. b \in Places /\ heap[b] \in {"unused", "mr", "ucx", "freed"}
  BY DEF MemoryInv, MemoryTypes, Heaps, Places
<1>3. PICK fn \in BOOLEAN : fn = (heap[b] = "ucx")
  OBVIOUS
<1>4. Live(b) => heap[b] = MM!Way(fn)
  <2>1. fn <=> heap[b] = "ucx"
    BY <1>3
  <2> QED
    BY <2>1 DEF Live, MM!Way
<1>5. MM!AdoptBuffer(o, b, own) => MemoryInv'
  <2> HAVE MM!AdoptBuffer(o, b, own)
  <2>1. PICK w : w = [kind |-> "buffer", hdr |-> MM!Null, arr |-> MM!Null, bufs |-> <<b>>,
                      ownHdr |-> FALSE, own |-> own, fn |-> fn, backing |-> MM!NoBacking]
    OBVIOUS
  <2>2. objs' = [objs EXCEPT ![o] = w]
    BY <1>3, <2>1, Zenon DEF MM!AdoptBuffer, MM!Wrapper
  <2>3. /\ Object(w) /\ \A c : OnceIn(w, c)
        /\ \A c \in Blocks : \A h : /\ Claims(w, c) <=> own /\ c = b
                                    /\ Knows(w, c, h) <=> (own /\ c = b => h = MM!Way(fn))
    BY <1>2, <2>1, BufferMade
  <2> QED
    BY <1>1, <1>4, <2>2, <2>3, Adopted
<1>6. MM!AdoptHeader(o, b, own) => MemoryInv'
  <2> HAVE MM!AdoptHeader(o, b, own)
  <2>1. PICK w : w = [kind |-> "header", hdr |-> b, arr |-> MM!Null, bufs |-> <<>>,
                      ownHdr |-> own, own |-> FALSE, fn |-> FALSE, backing |-> MM!NoBacking]
    OBVIOUS
  <2>2. objs' = [objs EXCEPT ![o] = w] /\ heap[b] = "mr"
    BY <2>1 DEF MM!AdoptHeader, MM!Wrapper
  <2>3. /\ Object(w) /\ \A c : OnceIn(w, c)
        /\ \A c \in Blocks : \A h : /\ Claims(w, c) <=> own /\ c = b
                                    /\ Knows(w, c, h) <=> (own /\ c = b => h = "mr")
    BY <1>2, <2>1, HeaderMade
  <2> QED
    BY <1>1, <2>2, <2>3, Adopted
<1>7. MM!AdoptBufferVec(o, b, own) => MemoryInv'
  <2> HAVE MM!AdoptBufferVec(o, b, own)
  <2>a. PICK bs : bs = <<b>>
    OBVIOUS
  <2>1. PICK w : w = [kind |-> "vec", hdr |-> MM!Null, arr |-> MM!Null, bufs |-> bs,
                      ownHdr |-> FALSE, own |-> own, fn |-> fn, backing |-> MM!NoBacking]
    OBVIOUS
  <2>2. objs' = [objs EXCEPT ![o] = w]
    BY <1>3, <2>a, <2>1, Zenon DEF MM!AdoptBufferVec, MM!Wrapper
  <2>3. bs \in Seq(Places) /\ \A c : Sole(bs, c) /\ (Among(bs, c) <=> c = b)
    BY <1>2, <2>a DEF Sole, Among
  <2>4. /\ Object(w) /\ \A c : (own => Sole(bs, c)) => OnceIn(w, c)
        /\ \A c \in Blocks : \A h :
             /\ Claims(w, c) <=> own /\ Among(bs, c)
             /\ Knows(w, c, h) <=> (own /\ Among(bs, c) => h = MM!Way(fn))
    BY <2>1, <2>3, VecMade
  <2>5. /\ Object(w) /\ \A c : OnceIn(w, c)
        /\ \A c \in Blocks : \A h : /\ Claims(w, c) <=> own /\ c = b
                                    /\ Knows(w, c, h) <=> (own /\ c = b => h = MM!Way(fn))
    BY <2>3, <2>4
  <2> QED
    BY <1>1, <1>4, <2>2, <2>5, Adopted
<1>8. MM!AdoptAmData(o, b, own) => MemoryInv'
  <2> HAVE MM!AdoptAmData(o, b, own)
  <2>a. PICK bs : bs = <<b>>
    OBVIOUS
  <2>1. PICK w : w = [kind |-> "amdata", hdr |-> MM!Null, arr |-> MM!Null, bufs |-> bs,
                      ownHdr |-> FALSE, own |-> own, fn |-> fn, backing |-> MM!NoBacking]
    OBVIOUS
  <2>2. objs' = [objs EXCEPT ![o] = w]
    BY <1>3, <2>a, <2>1, Zenon DEF MM!AdoptAmData, MM!Wrapper
  <2>3. bs \in Seq(Places) /\ \A c : Among(bs, c) <=> c = b
    BY <1>2, <2>a DEF Among
  <2>4. w \in Wrappers
    BY <2>1, <2>3, NoBackingFields DEF Wrappers, Kinds
  <2>5. /\ w.kind = "amdata" /\ w.arr = MM!Null /\ ~w.backing.own /\ w.hdr = MM!Null
        /\ w.bufs = bs /\ (w.own <=> own) /\ ~w.ownHdr /\ w.fn = fn
    BY <2>1, NoBackingFields
  <2>6. MM!Way(w.fn) = MM!Way(fn)
    BY <2>5, Zenon
  <2>7. /\ Object(w) /\ \A c : OnceIn(w, c)
        /\ \A c \in Blocks : \A h : /\ Claims(w, c) <=> own /\ c = b
                                    /\ Knows(w, c, h) <=> (own /\ c = b => h = MM!Way(fn))
    BY <2>3, <2>4, <2>5, <2>6, AmDataMade
  <2> QED
    BY <1>1, <1>4, <2>2, <2>7, Adopted
<1>9. MM!AdoptAmIovec(o, b, own) => MemoryInv'
  <2> HAVE MM!AdoptAmIovec(o, b, own)
  <2>1. PICK w : w = [kind |-> "iovec", hdr |-> MM!Null, arr |-> b, bufs |-> <<MM!Null>>,
                      ownHdr |-> FALSE, own |-> own, fn |-> FALSE, backing |-> MM!NoBacking]
    OBVIOUS
  <2>2. objs' = [objs EXCEPT ![o] = w] /\ heap[b] = "mr"
    BY <2>1 DEF MM!AdoptAmIovec, MM!Wrapper
  <2>3. \A c \in Blocks : c # MM!Null
    BY NullAssumption DEF MM!Null
  <2>4. /\ Object(w) /\ \A c : OnceIn(w, c)
        /\ \A c \in Blocks : \A h : /\ Claims(w, c) <=> own /\ (c = MM!Null \/ c = b)
                                    /\ h = "mr" => Knows(w, c, h)
    BY <1>2, <2>1, NoBackingFields, AmIovecMade
  <2> QED
    BY <1>1, <2>2, <2>3, <2>4, Adopted
<1> QED
  BY <1>5, <1>6, <1>7, <1>8, <1>9 DEF MM!Adopt

-----------------------------------------------------------------------------
(* Moving between objects.                                                 *)

LEMMA Shifted ==
    ASSUME MemoryInv, NEW o \in Objs, NEW p \in Objs, o # p, NEW u, NEW v,
           Object(u), Object(v), objs' = [objs EXCEPT ![p] = v, ![o] = u],
           heap' \in Heaps, context' = context, twice' = twice,
           \A c \in Blocks \ twice : Shift(o, p, u, v, c)
    PROVE  MemoryInv'
<1>1. PICK f : f = objs
  OBVIOUS
<1>2. PICK g : g = objs'
  OBVIOUS
<1>3. DOMAIN f = Objs
  BY <1>1 DEF MemoryInv, MemoryTypes
<1>4. DOMAIN g = Objs /\ g[p] = v /\ g[o] = u /\ \A y \in Objs : y # o /\ y # p => g[y] = f[y]
  BY <1>1, <1>2, <1>3, NewObjects
<1>5. /\ DOMAIN objs' = Objs /\ objs'[o] = u /\ objs'[p] = v
      /\ \A y \in Objs : y # o /\ y # p => objs'[y] = objs[y]
  BY <1>1, <1>2, <1>4
<1>6. MemoryTypes'
  BY <1>5 DEF MemoryInv, MemoryTypes
<1>7. ASSUME NEW c \in Blocks \ twice
      PROVE  Spotted(c)' /\ \A y \in Objs : OnceIn(objs'[y], c)
  <2>1. Spotted(c) /\ \A y \in Objs : OnceIn(objs[y], c)
    BY DEF MemoryInv, Singly, Spotted
  <2>2. Shift(o, p, u, v, c)
    OBVIOUS
  <2>3. \A y \in Objs : OnceIn(objs'[y], c)
    BY <1>5, <2>1, <2>2 DEF Shift
  <2>4. \A y \in Objs : y # o /\ y # p => (Claims(objs'[y], c) <=> Claims(objs[y], c))
    BY <1>5
  <2>5. /\ Claims(objs'[o], c) <=> Claims(u, c)
        /\ Claims(objs'[p], c) <=> Claims(v, c)
    BY <1>5
  <2>6. CASE /\ ~Claims(objs[o], c) /\ ~Claims(objs[p], c)
             /\ ~Claims(u, c) /\ ~Claims(v, c) /\ Same(c)
    <3>1. \A y \in Objs : /\ Claims(objs'[y], c) <=> Claims(objs[y], c)
                          /\ Claims(objs[y], c) /\ Knows(objs[y], c, heap[c]) =>
                               Knows(objs'[y], c, heap[c])
      BY <1>5, <2>6
    <3> QED
      BY <2>1, <2>3, <2>6, <3>1, Stays
  <2>7. CASE Claims(objs[o], c) \/ Claims(objs[p], c)
    <3>1. PICK z \in {o, p} : Claims(objs[z], c)
      BY <2>7
    <3>2. /\ Unlisted(c) /\ Live(c) /\ c \notin users /\ c \notin wrong
          /\ \A y \in Objs : Claims(objs[y], c) => y = z
      BY <2>1, <3>1, ByObject
    <3>3. Offlist(c)' /\ (c \notin leaked' => Unlisted(c)') /\ c \notin leaked
      BY <3>2, StillUnlisted DEF Unlisted
    <3>4. \A y \in Objs : y # o /\ y # p => ~Claims(objs'[y], c)
      BY <2>4, <3>1, <3>2
    <3>5. c \notin wrong'
      BY <2>2, <3>2 DEF Shift
    <3>6. CASE /\ Same(c) /\ (Claims(u, c) <=> ~Claims(v, c))
               /\ Claims(u, c) => Knows(u, c, heap[c])
               /\ Claims(v, c) => Knows(v, c, heap[c])
      <4>1. PICK y \in {o, p} : /\ \A x \in Objs : Claims(objs'[x], c) <=> x = y
                                /\ Knows(objs'[y], c, heap[c])
        BY <1>5, <2>5, <3>4, <3>6
      <4>2. Live(c)' /\ Unlisted(c)' /\ c \notin users' /\ heap'[c] = heap[c]
        BY <3>2, <3>3, <3>6 DEF Same, Live
      <4> QED
        BY <2>3, <3>5, <4>1, <4>2, ToObject
    <3>7. CASE ~Claims(u, c) /\ ~Claims(v, c)
      <4>1. Unclaimed(c)'
        BY <2>5, <3>4, <3>7 DEF Unclaimed
      <4>2. CASE /\ heap'[c] = heap[c] /\ c \in users'
                 /\ c \in leaked' <=> c \in leaked
        <5>1. Live(c)' /\ Unlisted(c)'
          BY <3>2, <3>3, <4>2 DEF Live
        <5> QED
          BY <2>3, <3>5, <4>1, <4>2, <5>1, ToUser
      <4>3. CASE /\ heap'[c] = heap[c] /\ c \in leaked'
                 /\ c \in users' <=> c \in users
        <5>1. Live(c)'
          BY <3>2, <4>3 DEF Live
        <5> QED
          BY <2>3, <3>2, <3>3, <3>5, <4>1, <4>3, <5>1, ToLeaked
      <4>4. CASE /\ heap'[c] = "freed"
                 /\ c \in users' <=> c \in users
                 /\ c \in leaked' <=> c \in leaked
        <5>1. ~Live(c)' /\ Unlisted(c)'
          BY <3>2, <3>3, <4>4 DEF Live
        <5> QED
          BY <2>3, <3>2, <3>5, <4>1, <4>4, <5>1, ToNobody
      <4> QED
        BY <2>2, <2>7, <3>7, <4>2, <4>3, <4>4 DEF Shift
    <3> QED
      BY <2>2, <2>7, <3>6, <3>7 DEF Shift
  <2> QED
    BY <2>2, <2>6, <2>7 DEF Shift
<1> QED
  BY <1>6, <1>7 DEF MemoryInv, Singly, Spotted

LEMMA KeepsObject ==
    ASSUME NEW w \in Wrappers, Tidy(w), NEW v, Keeps(w, v)
    PROVE  /\ Object(v)
           /\ \A c : OnceIn(w, c) => OnceIn(v, c)
           /\ \A c \in Blocks : \A h :
                /\ Claims(v, c) <=> \/ v.own /\ (OwnsData(w, c) \/ OwnsArray(w, c))
                                    \/ OwnsHeader(w, c)
                /\ Claims(v, c) /\ Knows(w, c, h) => Knows(v, c, h)
<1>1. Tidy(v)
  BY DEF Tidy, Keeps, InBufs
<1>2. ASSUME NEW c, OnceIn(w, c)
      PROVE  OnceIn(v, c)
  BY <1>2 DEF OnceIn, Keeps
<1>3. ASSUME NEW c \in Blocks, NEW h
      PROVE  /\ Claims(v, c) <=> \/ v.own /\ (OwnsData(w, c) \/ OwnsArray(w, c))
                                 \/ OwnsHeader(w, c)
             /\ Claims(v, c) /\ Knows(w, c, h) => Knows(v, c, h)
  <2>1. /\ OwnsData(v, c) <=> v.own /\ OwnsData(w, c)
        /\ OwnsHeader(v, c) <=> OwnsHeader(w, c)
        /\ OwnsArray(v, c) <=> v.own /\ OwnsArray(w, c)
        /\ ~OwnsBacking(v, c)
    BY DEF Keeps, OwnsData, OwnsHeader, OwnsArray, OwnsBacking, InBufs
  <2>2. MM!Way(v.fn) = MM!Way(w.fn)
    BY Zenon DEF Keeps
  <2>3. v \in Wrappers
    BY DEF Keeps
  <2> QED
    BY <2>1, <2>2, <2>3, ClaimReasons
<1> QED
  BY <1>1, <1>2, <1>3 DEF Object, Keeps

LEMMA MovedInto ==
    ASSUME MemoryInv, NEW o \in Objs, NEW p \in Objs, NEW w, w = objs[o], w # MM!NoObject,
           MM!Vacant(p), NEW v, Keeps(w, v),
           objs' = [objs EXCEPT ![p] = v, ![o] = MM!Emptied(w)],
           w.own /\ ~v.own => users' = users \cup MM!DataOf(w) \cup MM!Header(w.arr),
           ~(w.own /\ ~v.own) => users' = users,
           UNCHANGED <<heap, wrong, context, leaked, twice>>
    PROVE  MemoryInv'
<1>1. o # p
  BY DEF MM!Vacant
<1>2. w \in Wrappers /\ Tidy(w)
  BY ObjectFields DEF MemoryInv, MemoryTypes
<1>3. PICK u : u = MM!Emptied(w)
  OBVIOUS
<1>4. /\ Object(u) /\ \A c \in Blocks : OnceIn(u, c)
      /\ \A c \in Blocks : \A h :
           /\ Claims(u, c) <=> OwnsBacking(w, c)
           /\ Knows(u, c, h) <=> (OwnsBacking(w, c) => h = MM!Way(w.backing.fn))
  BY <1>2, <1>3, EmptiedClaims
<1>5. /\ Object(v)
      /\ \A c : OnceIn(w, c) => OnceIn(v, c)
      /\ \A c \in Blocks : \A h :
           /\ Claims(v, c) <=> \/ v.own /\ (OwnsData(w, c) \/ OwnsArray(w, c))
                               \/ OwnsHeader(w, c)
           /\ Claims(v, c) /\ Knows(w, c, h) => Knows(v, c, h)
  BY <1>2, KeepsObject
<1>6. heap' \in Heaps
  BY DEF MemoryInv, MemoryTypes
<1>7. ASSUME NEW c \in Blocks \ twice
      PROVE  Shift(o, p, u, v, c)
  <2>1. Spotted(c) /\ \A y \in Objs : OnceIn(objs[y], c)
    BY DEF MemoryInv, Singly, Spotted
  <2>2. ~Claims(objs[p], c)
    BY NothingClaimed DEF MM!Vacant
  <2>3. OnceIn(u, c) /\ OnceIn(v, c)
    BY <1>4, <1>5, <2>1
  <2>4. /\ Claims(w, c) <=>
             OwnsData(w, c) \/ OwnsHeader(w, c) \/ OwnsBacking(w, c) \/ OwnsArray(w, c)
        /\ Knows(w, c, heap[c]) => (OwnsBacking(w, c) => heap[c] = MM!Way(w.backing.fn))
    BY <1>2, ClaimReasons
  <2>5. Claims(w, c) => Knows(w, c, heap[c])
    BY <2>1, ByObject
  <2>6. /\ OwnsBacking(w, c) => ~w.own /\ ~OwnsData(w, c) /\ ~OwnsHeader(w, c) /\ ~OwnsArray(w, c)
        /\ OwnsHeader(w, c) => ~OwnsData(w, c) /\ ~OwnsArray(w, c)
        /\ OwnsData(w, c) \/ OwnsArray(w, c) => w.own
    BY <1>2 DEF OwnsData, OwnsHeader, OwnsBacking, OwnsArray, Tidy
  <2>7. w.own => (c \in MM!DataOf(w) \cup MM!Header(w.arr) <=> OwnsData(w, c) \/ OwnsArray(w, c))
    <3>1. c # MM!Null
      BY NullAssumption DEF MM!Null
    <3>2. c \in MM!DataOf(w) <=> InBufs(w, c)
      BY <3>1 DEF MM!DataOf, InBufs
    <3>3. c \in MM!Header(w.arr) <=> w.arr = c
      BY <3>1 DEF MM!Header
    <3> QED
      BY <1>2, <3>1, <3>2, <3>3 DEF OwnsData, OwnsArray, Tidy
  <2>8. CASE ~Claims(w, c)
    <3>1. c \in users' <=> c \in users
      BY <2>4, <2>7, <2>8
    <3>2. ~Claims(u, c) /\ ~Claims(v, c)
      BY <1>4, <1>5, <2>4, <2>8
    <3>3. Same(c)
      BY <3>1 DEF Same
    <3> QED
      BY <2>2, <2>3, <2>8, <3>2, <3>3 DEF Shift
  <2>9. CASE Claims(w, c) /\ (OwnsData(w, c) \/ OwnsArray(w, c)) /\ ~v.own
    <3>1. c \in users'
      BY <2>6, <2>7, <2>9
    <3>2. ~Claims(u, c) /\ ~Claims(v, c)
      BY <1>4, <1>5, <2>6, <2>9
    <3> QED
      BY <2>3, <2>9, <3>1, <3>2 DEF Shift
  <2>10. CASE Claims(w, c) /\ ~((OwnsData(w, c) \/ OwnsArray(w, c)) /\ ~v.own)
    <3>1. c \in users' <=> c \in users
      BY <2>7, <2>10
    <3>2. Same(c)
      BY <3>1 DEF Same
    <3>3. Claims(u, c) <=> ~Claims(v, c)
      BY <1>4, <1>5, <2>4, <2>6, <2>10
    <3>4. (Claims(u, c) => Knows(u, c, heap[c])) /\ (Claims(v, c) => Knows(v, c, heap[c]))
      BY <1>4, <1>5, <2>4, <2>5, <2>10
    <3> QED
      BY <2>3, <2>10, <3>2, <3>3, <3>4 DEF Shift
  <2> QED
    BY <2>8, <2>9, <2>10
<1> QED
  BY <1>1, <1>3, <1>4, <1>5, <1>6, <1>7, Shifted

LEMMA KeepsMoved ==
    ASSUME NEW w \in Wrappers, w.kind # "vec", NEW own \in BOOLEAN, own => w.own, NEW v,
           v = [w EXCEPT !.own = own]
    PROVE  Keeps(w, v) /\ (v.own <=> own)
<1>1. v \in Wrappers
  BY DEF Wrappers
<1>2. /\ v.kind = w.kind /\ v.hdr = w.hdr /\ v.arr = w.arr /\ v.bufs = w.bufs
      /\ v.ownHdr = w.ownHdr /\ v.fn = w.fn /\ v.own = own
  BY DEF Wrappers
<1> QED
  BY <1>1, <1>2 DEF Keeps

LEMMA KeepsMovedVec ==
    ASSUME NEW w \in Wrappers, NEW own \in BOOLEAN, own => w.own, NEW v,
           v = [[w EXCEPT !.backing = MM!NoBacking] EXCEPT !.own = own]
    PROVE  Keeps(w, v) /\ (v.own <=> own)
<1>1. v \in Wrappers
  BY NoBackingFields DEF Wrappers
<1>2. /\ v.kind = w.kind /\ v.hdr = w.hdr /\ v.arr = w.arr /\ v.bufs = w.bufs
      /\ v.ownHdr = w.ownHdr /\ v.fn = w.fn /\ v.own = own /\ v.backing = MM!NoBacking
  BY DEF Wrappers
<1> QED
  BY <1>1, <1>2, NoBackingFields DEF Keeps

LEMMA MoveConstructKeeps ==
    ASSUME MemoryInv, NEW o \in Objs, NEW p \in Objs, NEW own \in BOOLEAN,
           MM!MoveConstruct(o, p, own)
    PROVE  MemoryInv'
<1>1. /\ ~MM!Vacant(o) /\ MM!Vacant(p)
      /\ UNCHANGED <<heap, wrong, context, leaked, twice>>
  BY DEF MM!MoveConstruct
<1>2. PICK w : w = objs[o]
  OBVIOUS
<1>3. w # MM!NoObject /\ w \in Wrappers
  BY <1>1, <1>2, ObjectFields DEF MM!Vacant, MemoryInv, MemoryTypes
<1>5. ASSUME NEW to, MM!MoveInto(o, p, to, own), NEW v, v = [to EXCEPT !.own = own],
             (own => w.own) => Keeps(w, v) /\ (v.own <=> own)
      PROVE  MemoryInv'
  <2>1. own \in {w.own, FALSE}
    BY <1>2, <1>5 DEF MM!MoveInto
  <2>2. own => w.own
    BY <2>1
  <2>3. Keeps(w, v) /\ (v.own <=> own)
    BY <1>5, <2>2
  <2>4. /\ objs' = [objs EXCEPT ![p] = v, ![o] = MM!Emptied(w)]
        /\ w.own /\ ~own => users' = users \cup MM!DataOf(w) \cup MM!Header(w.arr)
        /\ ~(w.own /\ ~own) => users' = users
    BY <1>2, <1>5 DEF MM!MoveInto
  <2> QED
    BY <1>1, <1>2, <1>3, <2>3, <2>4, MovedInto
<1>6. CASE MM!MoveBuffer(o, p, own)
  <2>1. MM!MoveInto(o, p, w, own) /\ w.kind # "vec"
    BY <1>2, <1>6 DEF MM!MoveBuffer, MM!Is
  <2> QED
    BY <1>3, <1>5, <2>1, KeepsMoved
<1>7. CASE MM!MoveHeader(o, p, own)
  <2>1. MM!MoveInto(o, p, w, own) /\ w.kind # "vec"
    BY <1>2, <1>7 DEF MM!MoveHeader, MM!Is
  <2> QED
    BY <1>3, <1>5, <2>1, KeepsMoved
<1>8. CASE MM!MoveBufferVec(o, p, own)
  <2>1. PICK to : to = [w EXCEPT !.backing = MM!NoBacking]
    OBVIOUS
  <2>2. MM!MoveInto(o, p, to, own)
    BY <1>2, <1>8, <2>1 DEF MM!MoveBufferVec
  <2>3. PICK v : v = [to EXCEPT !.own = own]
    OBVIOUS
  <2>4. (own => w.own) => Keeps(w, v) /\ (v.own <=> own)
    BY <1>3, <2>1, <2>3, KeepsMovedVec
  <2> QED
    BY <1>5, <2>2, <2>3, <2>4
<1>9. CASE MM!MoveAmData(o, p, own)
  <2>1. MM!MoveInto(o, p, w, own) /\ w.kind # "vec"
    BY <1>2, <1>9 DEF MM!MoveAmData, MM!Is
  <2> QED
    BY <1>3, <1>5, <2>1, KeepsMoved
<1>10. CASE MM!MoveAmIovec(o, p, own)
  <2>1. MM!MoveInto(o, p, w, own) /\ w.kind # "vec"
    BY <1>2, <1>10 DEF MM!MoveAmIovec, MM!Is
  <2> QED
    BY <1>3, <1>5, <2>1, KeepsMoved
<1> QED
  BY <1>6, <1>7, <1>8, <1>9, <1>10 DEF MM!MoveConstruct

LEMMA AssignedOver ==
    ASSUME MemoryInv, NEW o \in Objs, NEW p \in Objs, o # p, NEW w, NEW z, w = objs[o], z = objs[p],
           Object(w), NEW u, Object(u), \A c \in Blocks : OnceIn(u, c) /\ ~Claims(u, c),
           objs' = [objs EXCEPT ![p] = w, ![o] = u], heap' \in Heaps,
           UNCHANGED <<users, context, twice>>,
           \A c \in Blocks : (Claims(z, c) => Knows(z, c, heap[c])) => Loss(z, c)
    PROVE  MemoryInv'
<1>1. ASSUME NEW c \in Blocks \ twice
      PROVE  Shift(o, p, u, w, c)
  <2>1. Spotted(c) /\ OnceIn(w, c) /\ OnceIn(u, c) /\ ~Claims(u, c)
    BY DEF MemoryInv, Singly, Spotted
  <2>2. Claims(z, c) => Knows(z, c, heap[c]) /\ ~Claims(w, c)
    BY <2>1, ByObject
  <2>3. Claims(w, c) => Knows(w, c, heap[c])
    BY <2>1, ByObject
  <2>4. Loss(z, c)
    BY <2>2
  <2>5. CASE Claims(z, c)
    BY <2>1, <2>2, <2>4, <2>5 DEF Loss, Shift
  <2>6. CASE ~Claims(z, c)
    <3>1. Same(c)
      BY <2>4, <2>6 DEF Loss, Same
    <3> QED
      BY <2>1, <2>3, <2>4, <2>6, <3>1 DEF Loss, Shift
  <2> QED
    BY <2>5, <2>6
<1> QED
  BY <1>1, Shifted

LEMMA ReleasedHeap ==
    ASSUME heap \in Heaps, NEW R, MM!Release(R)
    PROVE  heap' \in Heaps
<1>1. heap' = [b \in Blocks |-> IF Frees(R, b) THEN "freed" ELSE heap[b]]
  BY Zenon DEF MM!Release, Frees
<1>2. \A b \in Blocks : heap[b] \in {"unused", "mr", "ucx", "freed"}
  BY DEF Heaps
<1> QED
  BY <1>1, <1>2 DEF Heaps

LEMMA ReleasedLoss ==
    ASSUME heap \in Heaps, NEW z, NEW R, R = MM!Releases(z), MM!Release(R), UNCHANGED leaked,
           NEW c \in Blocks, Claims(z, c) => Knows(z, c, heap[c])
    PROVE  Loss(z, c)
<1>1. /\ Frees(R, c) => heap'[c] = "freed"
      /\ ~Frees(R, c) => heap'[c] = heap[c]
      /\ c \in wrong' <=> c \in wrong \/ ~InWay(R, c, heap[c])
  BY Released
<1>2. Claims(z, c) <=> Frees(R, c)
  BY DEF Claims
<1>3. Frees(R, c) => InWay(R, c, heap[c])
  BY <1>2 DEF Knows
<1>4. ~Frees(R, c) => InWay(R, c, heap[c])
  BY DEF Frees, InWay
<1> QED
  BY <1>1, <1>2, <1>3, <1>4 DEF Loss

LEMMA LeakedLoss ==
    ASSUME NEW z, leaked' = leaked \cup MM!Owned(z), UNCHANGED <<heap, wrong>>, NEW c \in Blocks
    PROVE  Loss(z, c)
<1>1. c \in MM!Owned(z) <=> Claims(z, c)
  BY OwnedIsClaimed
<1> QED
  BY <1>1 DEF Loss

LEMMA VecLoss ==
    ASSUME heap \in Heaps, NEW z \in Wrappers, Tidy(z), z.kind = "vec", NEW y, NEW x,
           y = [z EXCEPT !.own = FALSE], x = [z EXCEPT !.backing = MM!NoBacking],
           NEW R, R = MM!BufferVecReleases(y), MM!Release(R), leaked' = leaked \cup MM!Owned(x),
           NEW c \in Blocks, Claims(z, c) => Knows(z, c, heap[c])
    PROVE  Loss(z, c)
<1>1. y \in Wrappers /\ y.kind = "vec" /\ ~y.own /\ y.backing = z.backing
  BY DEF Wrappers
<1>2. x \in Wrappers /\ x.kind = "vec" /\ x.own = z.own /\ x.bufs = z.bufs /\ x.backing = MM!NoBacking
  BY NoBackingFields DEF Wrappers
<1>3. R = MM!Releases(y)
  BY <1>1 DEF MM!Releases
<1>4. /\ Claims(y, c) <=> OwnsBacking(z, c)
      /\ Knows(y, c, heap[c]) <=> (OwnsBacking(z, c) => heap[c] = MM!Way(z.backing.fn))
  <2>1. /\ ~OwnsData(y, c) /\ ~OwnsHeader(y, c) /\ ~OwnsArray(y, c)
        /\ OwnsBacking(y, c) <=> OwnsBacking(z, c)
    BY <1>1 DEF OwnsData, OwnsHeader, OwnsArray, OwnsBacking
  <2> QED
    BY <1>1, <2>1, ClaimReasons
<1>5. Claims(x, c) <=> OwnsData(z, c)
  <2>1. /\ ~OwnsBacking(x, c) /\ ~OwnsHeader(x, c) /\ ~OwnsArray(x, c)
        /\ OwnsData(x, c) <=> OwnsData(z, c)
    BY <1>2, NoBackingFields DEF OwnsData, OwnsHeader, OwnsArray, OwnsBacking, InBufs
  <2> QED
    BY <1>2, <2>1, ClaimReasons
<1>6. /\ Claims(z, c) <=> OwnsData(z, c) \/ OwnsBacking(z, c)
      /\ Knows(z, c, heap[c]) => (OwnsBacking(z, c) => heap[c] = MM!Way(z.backing.fn))
  <2>1. ~OwnsHeader(z, c) /\ ~OwnsArray(z, c)
    BY DEF OwnsHeader, OwnsArray
  <2> QED
    BY <2>1, ClaimReasons
<1>7. OwnsBacking(z, c) => ~OwnsData(z, c)
  BY DEF Tidy, OwnsBacking, OwnsData
<1>8. c \in MM!Owned(x) <=> Claims(x, c)
  BY OwnedIsClaimed
<1>9. /\ Frees(R, c) => heap'[c] = "freed"
      /\ ~Frees(R, c) => heap'[c] = heap[c]
      /\ c \in wrong' <=> c \in wrong \/ ~InWay(R, c, heap[c])
  BY Released
<1>10. (Claims(y, c) <=> Frees(R, c)) /\ (Knows(y, c, heap[c]) <=> InWay(R, c, heap[c]))
  BY <1>3 DEF Claims, Knows
<1> QED
  BY <1>4, <1>5, <1>6, <1>7, <1>8, <1>9, <1>10 DEF Loss

LEMMA MoveAssignKeeps ==
    ASSUME MemoryInv, NEW o \in Objs, NEW p \in Objs, MM!MoveAssign(o, p)
    PROVE  MemoryInv'
<1>1. /\ o # p /\ ~MM!Vacant(o) /\ objs[p].kind = objs[o].kind
      /\ UNCHANGED <<users, context, twice>>
  BY DEF MM!MoveAssign
<1>2. PICK w : w = objs[o]
  OBVIOUS
<1>3. PICK z : z = objs[p]
  OBVIOUS
<1>4. heap \in Heaps /\ Object(w) /\ Object(z) /\ w # MM!NoObject /\ z.kind = w.kind
  BY <1>1, <1>2, <1>3 DEF MemoryInv, MemoryTypes, MM!Vacant
<1>5. w \in Wrappers /\ Tidy(w)
  BY <1>4, ObjectFields
<1>6. z \in Wrappers /\ Tidy(z)
  BY <1>4, <1>5, KindOfNothing, WrapperFields
<1>7. ASSUME w.kind # "vec", MM!AssignOver(o, p), heap' \in Heaps,
             \A c \in Blocks : (Claims(z, c) => Knows(z, c, heap[c])) => Loss(z, c)
      PROVE  MemoryInv'
  <2>1. PICK u : u = MM!Emptied(w)
    OBVIOUS
  <2>2. /\ Object(u) /\ \A c \in Blocks : OnceIn(u, c)
        /\ \A c \in Blocks : \A h : /\ Claims(u, c) <=> OwnsBacking(w, c)
                                    /\ Knows(u, c, h) <=> (OwnsBacking(w, c) => h = MM!Way(w.backing.fn))
    BY <1>5, <2>1, EmptiedClaims
  <2>3. \A c \in Blocks : OnceIn(u, c) /\ ~Claims(u, c)
    BY <1>7, <2>2 DEF OwnsBacking
  <2>4. objs' = [objs EXCEPT ![p] = w, ![o] = u]
    BY <1>2, <1>7, <2>1 DEF MM!AssignOver
  <2> QED
    BY <1>1, <1>2, <1>3, <1>4, <1>7, <2>2, <2>3, <2>4, AssignedOver
<1>8. CASE MM!AssignBuffer(o, p)
  <2>1. PICK R : R = MM!BufferReleases(z)
    OBVIOUS
  <2>2. w.kind = "buffer" /\ MM!AssignOver(o, p) /\ MM!Release(R) /\ UNCHANGED leaked
    BY <1>2, <1>3, <1>8, <2>1 DEF MM!AssignBuffer, MM!Is
  <2>3. R = MM!Releases(z)
    BY <1>4, <2>1, <2>2 DEF MM!Releases
  <2>4. \A c \in Blocks : (Claims(z, c) => Knows(z, c, heap[c])) => Loss(z, c)
    BY <1>4, <2>2, <2>3, ReleasedLoss
  <2> QED
    BY <1>4, <1>7, <2>2, <2>4, ReleasedHeap
<1>9. CASE MM!AssignHeader(o, p)
  <2>1. PICK R : R = MM!HeaderReleases(z)
    OBVIOUS
  <2>2. w.kind = "header" /\ MM!AssignOver(o, p) /\ MM!Release(R) /\ UNCHANGED leaked
    BY <1>2, <1>3, <1>9, <2>1 DEF MM!AssignHeader, MM!Is
  <2>3. R = MM!Releases(z)
    BY <1>4, <2>1, <2>2 DEF MM!Releases
  <2>4. \A c \in Blocks : (Claims(z, c) => Knows(z, c, heap[c])) => Loss(z, c)
    BY <1>4, <2>2, <2>3, ReleasedLoss
  <2> QED
    BY <1>4, <1>7, <2>2, <2>4, ReleasedHeap
<1>10. CASE MM!AssignBufferVec(o, p)
  <2>1. PICK y : y = [z EXCEPT !.own = FALSE]
    OBVIOUS
  <2>2. PICK x : x = [z EXCEPT !.backing = MM!NoBacking]
    OBVIOUS
  <2>3. PICK R : R = MM!BufferVecReleases(y)
    OBVIOUS
  <2>4. PICK u : u = [MM!Emptied(w) EXCEPT !.backing = MM!NoBacking]
    OBVIOUS
  <2>5. /\ w.kind = "vec" /\ MM!Release(R) /\ leaked' = leaked \cup MM!Owned(x)
        /\ objs' = [objs EXCEPT ![p] = w, ![o] = u]
    BY <1>2, <1>3, <1>10, <2>1, <2>2, <2>3, <2>4 DEF MM!AssignBufferVec, MM!Is
  <2>6. \A c \in Blocks : (Claims(z, c) => Knows(z, c, heap[c])) => Loss(z, c)
    BY <1>4, <1>6, <2>1, <2>2, <2>3, <2>5, VecLoss
  <2>7. Object(u) /\ \A c \in Blocks : OnceIn(u, c) /\ ~Claims(u, c)
    <3>1. PICK e : e = MM!Emptied(w)
      OBVIOUS
    <3>2. /\ e \in Wrappers
          /\ e.kind = w.kind /\ e.hdr = MM!Null /\ e.arr = MM!Null /\ e.bufs = <<>>
          /\ ~e.ownHdr /\ ~e.own /\ ~e.fn /\ e.backing = w.backing
      BY <1>5, <3>1, EmptiedFields
    <3>3. /\ u \in Wrappers /\ u.kind = "vec" /\ u.arr = MM!Null
          /\ ~u.own /\ ~u.ownHdr /\ ~u.backing.own
      BY <2>4, <2>5, <3>1, <3>2, NoBackingFields DEF Wrappers
    <3>4. Tidy(u) /\ \A c \in Blocks : OnceIn(u, c)
      BY <3>3 DEF Tidy, OnceIn
    <3>5. \A c \in Blocks : ~OwnsData(u, c) /\ ~OwnsHeader(u, c) /\ ~OwnsArray(u, c)
      BY <3>3 DEF OwnsData, OwnsHeader, OwnsArray
    <3>6. \A c \in Blocks : ~Claims(u, c)
      BY <3>3, <3>5, PlainClaims
    <3> QED
      BY <3>3, <3>4, <3>6 DEF Object
  <2>8. heap' \in Heaps
    BY <1>4, <2>5, ReleasedHeap
  <2> QED
    BY <1>1, <1>2, <1>3, <1>4, <2>5, <2>6, <2>7, <2>8, AssignedOver
<1>11. CASE MM!AssignAmData(o, p)
  <2>1. /\ w.kind = "amdata" /\ MM!AssignOver(o, p) /\ leaked' = leaked \cup MM!Owned(z)
        /\ UNCHANGED <<heap, wrong>>
    BY <1>2, <1>3, <1>11 DEF MM!AssignAmData, MM!Is
  <2>2. \A c \in Blocks : Loss(z, c)
    BY <2>1, LeakedLoss
  <2> QED
    BY <1>4, <1>7, <2>1, <2>2
<1>12. CASE MM!AssignAmIovec(o, p)
  <2>1. /\ w.kind = "iovec" /\ MM!AssignOver(o, p) /\ leaked' = leaked \cup MM!Owned(z)
        /\ UNCHANGED <<heap, wrong>>
    BY <1>2, <1>3, <1>12 DEF MM!AssignAmIovec, MM!Is
  <2>2. \A c \in Blocks : Loss(z, c)
    BY <2>1, LeakedLoss
  <2> QED
    BY <1>4, <1>7, <2>1, <2>2
<1> QED
  BY <1>8, <1>9, <1>10, <1>11, <1>12 DEF MM!MoveAssign

LEMMA DestroyKeeps ==
    ASSUME MemoryInv, NEW o \in Objs, MM!Destroy(o)
    PROVE  MemoryInv'
<1>1. PICK z : z = objs[o]
  OBVIOUS
<1>2. PICK R : R = MM!Releases(z)
  OBVIOUS
<1>3. /\ MM!Release(R) /\ objs' = [objs EXCEPT ![o] = MM!NoObject]
      /\ UNCHANGED <<users, context, leaked, twice>>
  BY <1>1, <1>2 DEF MM!Destroy
<1>4. heap \in Heaps
  BY DEF MemoryInv, MemoryTypes
<1>5. /\ DOMAIN objs' = Objs /\ objs'[o] = MM!NoObject
      /\ \A y \in Objs : y # o => objs'[y] = objs[y]
  BY <1>3 DEF MemoryInv, MemoryTypes
<1>6. MemoryTypes'
  <2>1. heap' \in Heaps
    BY <1>3, <1>4, ReleasedHeap
  <2> QED
    BY <1>3, <1>5, <2>1 DEF MemoryInv, MemoryTypes, Object
<1>7. ASSUME NEW c \in Blocks \ twice
      PROVE  Spotted(c)' /\ \A y \in Objs : OnceIn(objs'[y], c)
  <2>1. Spotted(c) /\ \A y \in Objs : OnceIn(objs[y], c)
    BY DEF MemoryInv, Singly, Spotted
  <2>2. \A y \in Objs : OnceIn(objs'[y], c)
    BY <1>5, <2>1 DEF OnceIn, MM!NoObject
  <2>3. Claims(z, c) => Knows(z, c, heap[c])
    BY <1>1, <2>1, ByObject
  <2>4. Loss(z, c)
    BY <1>2, <1>3, <1>4, <2>3, ReleasedLoss
  <2>5. ~Claims(objs'[o], c)
    BY <1>5, NothingClaimed
  <2>6. CASE Claims(z, c)
    <3>1. /\ Unlisted(c) /\ Live(c) /\ c \notin users /\ c \notin wrong
          /\ \A y \in Objs : Claims(objs[y], c) => y = o
      BY <1>1, <2>1, <2>6, ByObject
    <3>2. Unclaimed(c)'
      BY <1>5, <2>5, <3>1 DEF Unclaimed
    <3>3. Unlisted(c)'
      BY <1>3, <3>1 DEF Unlisted, Waits
    <3>4. ~Live(c)' /\ c \notin wrong' /\ c \notin users'
      BY <1>3, <2>4, <2>6, <3>1, <3>3 DEF Loss, Live, Unlisted
    <3> QED
      BY <2>2, <3>2, <3>3, <3>4, ToNobody
  <2>7. CASE ~Claims(z, c)
    <3>1. Same(c)
      BY <1>3, <2>4, <2>7 DEF Same, Loss
    <3>2. \A y \in Objs : /\ Claims(objs'[y], c) <=> Claims(objs[y], c)
                          /\ Claims(objs[y], c) /\ Knows(objs[y], c, heap[c]) =>
                               Knows(objs'[y], c, heap[c])
      BY <1>1, <1>5, <2>5, <2>7
    <3> QED
      BY <1>3, <2>1, <2>2, <3>1, <3>2, Stays
  <2> QED
    BY <2>6, <2>7
<1> QED
  BY <1>3, <1>6, <1>7 DEF MemoryInv, Singly, Spotted

-----------------------------------------------------------------------------
(* Splitting and joining.                                                  *)

\* A buffer that has one has one block, and owns it or nothing.
LEMMA BufferHas ==
    ASSUME NEW w \in Wrappers, Tidy(w), w.kind = "buffer", w.bufs # <<>>
    PROVE  /\ w.bufs[1] \in Places
           /\ \A c : InBufs(w, c) <=> w.bufs[1] = c
           /\ \A c \in Blocks : \A h :
                /\ Claims(w, c) <=> w.own /\ w.bufs[1] = c
                /\ Knows(w, c, h) <=> (w.own /\ w.bufs[1] = c => h = MM!Way(w.fn))
<1>1. PICK s : s = w.bufs
  OBVIOUS
<1>2. s \in Seq(Places) /\ Len(s) <= 1 /\ s # <<>>
  BY <1>1, WrapperFields DEF Tidy
<1>3. Len(s) = 1 /\ DOMAIN s = {1} /\ s[1] \in Places
  <2>1. Len(s) \in Nat \ {0}
    BY <1>2, EmptySeq
  <2>2. PICK m : m = Len(s)
    OBVIOUS
  <2>3. m \in Nat \ {0} /\ m <= 1
    BY <1>2, <2>1, <2>2
  <2>4. m = 1
    BY <2>3
  <2>5. Len(s) = 1
    BY <2>2, <2>4
  <2> QED
    BY <1>2, <2>5
<1>4. ASSUME NEW c
      PROVE  InBufs(w, c) <=> w.bufs[1] = c
  BY <1>1, <1>3 DEF InBufs
<1>5. ASSUME NEW c \in Blocks, NEW h
      PROVE  /\ Claims(w, c) <=> w.own /\ w.bufs[1] = c
             /\ Knows(w, c, h) <=> (w.own /\ w.bufs[1] = c => h = MM!Way(w.fn))
  <2>1. /\ ~OwnsHeader(w, c) /\ ~OwnsBacking(w, c) /\ ~OwnsArray(w, c)
        /\ OwnsData(w, c) <=> w.own /\ w.bufs[1] = c
    BY <1>4 DEF OwnsHeader, OwnsBacking, OwnsArray, OwnsData
  <2> QED
    BY <2>1, ClaimReasons
<1> QED
  BY <1>1, <1>3, <1>4, <1>5

LEMMA BackedVec ==
    ASSUME NEW b \in Places, NEW own \in BOOLEAN, NEW fn \in BOOLEAN, NEW bs \in Seq(Places), NEW v,
           v = [kind |-> "vec", hdr |-> MM!Null, arr |-> MM!Null, bufs |-> bs,
                ownHdr |-> FALSE, own |-> FALSE, fn |-> FALSE,
                backing |-> [block |-> b, own |-> own, fn |-> fn]]
    PROVE  /\ Object(v) /\ \A c : OnceIn(v, c)
           /\ \A c \in Blocks : \A h :
                /\ Claims(v, c) <=> own /\ b = c
                /\ Knows(v, c, h) <=> (own /\ b = c => h = MM!Way(fn))
<1>1. v \in Wrappers
  BY NoBackingFields DEF Wrappers, Kinds, Backings
<1>2. /\ v.kind = "vec" /\ v.arr = MM!Null /\ ~v.own /\ ~v.ownHdr
      /\ v.backing.block = b /\ (v.backing.own <=> own) /\ v.backing.fn = fn
  OBVIOUS
<1>3. Tidy(v) /\ \A c : OnceIn(v, c)
  BY <1>2 DEF Tidy, OnceIn
<1>4. ASSUME NEW c \in Blocks, NEW h
      PROVE  /\ Claims(v, c) <=> own /\ b = c
             /\ Knows(v, c, h) <=> (own /\ b = c => h = MM!Way(fn))
  <2>1. /\ ~OwnsHeader(v, c) /\ ~OwnsData(v, c) /\ ~OwnsArray(v, c)
        /\ OwnsBacking(v, c) <=> own /\ b = c
    BY <1>2 DEF OwnsHeader, OwnsBacking, OwnsArray, OwnsData
  <2>2. MM!Way(v.backing.fn) = MM!Way(fn)
    BY <1>2, Zenon
  <2> QED
    BY <1>1, <2>1, <2>2, ClaimReasons
<1> QED
  BY <1>1, <1>3, <1>4 DEF Object

LEMMA ListIsSeq ==
    ASSUME NEW n \in Nat, NEW S, NEW f \in [1 .. n -> S]
    PROVE  f \in Seq(S)
OBVIOUS

LEMMA ToBufferVecKeeps ==
    ASSUME MemoryInv, NEW o \in Objs, NEW p \in Objs, NEW n \in Nat, MM!ToBufferVec(o, p, n)
    PROVE  MemoryInv'
<1>1. PICK w : w = objs[o]
  OBVIOUS
<1>2. /\ w.kind = "buffer" /\ MM!Vacant(p) /\ w.bufs # <<>>
      /\ UNCHANGED <<heap, wrong, users, context, leaked, twice>>
  BY <1>1 DEF MM!ToBufferVec, MM!Is
<1>3. Object(w)
  BY <1>1 DEF MemoryInv, MemoryTypes
<1>4. w \in Wrappers /\ Tidy(w) /\ w # MM!NoObject
  BY <1>2, <1>3, KindOfNothing DEF Kinds
<1>5. PICK b : b = w.bufs[1]
  OBVIOUS
<1>6. /\ b \in Places
      /\ \A c \in Blocks : \A h : /\ Claims(w, c) <=> w.own /\ b = c
                                  /\ Knows(w, c, h) <=> (w.own /\ b = c => h = MM!Way(w.fn))
  BY <1>2, <1>4, <1>5, BufferHas
<1>7. PICK bs : bs = [i \in 1 .. n |-> b]
  OBVIOUS
<1>8. bs \in Seq(Places)
  <2>1. bs \in [1 .. n -> Places]
    BY <1>6, <1>7
  <2> QED
    BY <2>1, ListIsSeq
<1>9. PICK v : v = [kind |-> "vec", hdr |-> MM!Null, arr |-> MM!Null, bufs |-> bs,
                    ownHdr |-> FALSE, own |-> FALSE, fn |-> FALSE,
                    backing |-> [block |-> b, own |-> w.own, fn |-> w.fn]]
  OBVIOUS
<1>10. PICK u : u = MM!Emptied(w)
  OBVIOUS
<1>11. objs' = [objs EXCEPT ![p] = v, ![o] = u]
  <2>1. PICK x : x = [block |-> b, own |-> w.own, fn |-> w.fn]
    OBVIOUS
  <2>2. PICK a : a = [kind |-> "vec", hdr |-> MM!Null, arr |-> MM!Null, bufs |-> bs,
                      ownHdr |-> FALSE, own |-> FALSE, fn |-> FALSE, backing |-> MM!NoBacking]
    OBVIOUS
  <2>3. v = [a EXCEPT !.backing = x]
    <3>1. v = [kind |-> "vec", hdr |-> MM!Null, arr |-> MM!Null, bufs |-> bs,
               ownHdr |-> FALSE, own |-> FALSE, fn |-> FALSE, backing |-> x]
      BY <1>9, <2>1, Zenon
    <3>2. a \in Wrappers
      BY <1>8, <2>2, NoBackingFields DEF Wrappers, Kinds
    <3>3. [a EXCEPT !.backing = x] =
            [kind |-> a.kind, hdr |-> a.hdr, arr |-> a.arr, bufs |-> a.bufs,
             ownHdr |-> a.ownHdr, own |-> a.own, fn |-> a.fn, backing |-> x]
      BY <3>2 DEF Wrappers
    <3>4. /\ a.kind = "vec" /\ a.hdr = MM!Null /\ a.arr = MM!Null /\ a.bufs = bs
          /\ a.ownHdr = FALSE /\ a.own = FALSE /\ a.fn = FALSE
      BY <2>2
    <3> QED
      BY <3>1, <3>3, <3>4, Zenon
  <2>4. a = MM!Wrapper("vec", MM!Null, MM!Null, bs, FALSE, FALSE, FALSE)
    BY <2>2, Zenon DEF MM!Wrapper
  <2>5. objs' = [objs EXCEPT ![p] = [MM!Wrapper("vec", MM!Null, MM!Null, bs, FALSE, FALSE, FALSE)
                                       EXCEPT !.backing = x], ![o] = u]
    <3>1. objs' = [objs EXCEPT
                     ![p] = [MM!Wrapper("vec", MM!Null, MM!Null,
                                        [i \in 1 .. n |-> objs[o].bufs[1]], FALSE, FALSE, FALSE)
                               EXCEPT !.backing = [block |-> objs[o].bufs[1], own |-> objs[o].own,
                                                   fn |-> objs[o].fn]],
                     ![o] = MM!Emptied(objs[o])]
      BY Zenon DEF MM!ToBufferVec
    <3>2. objs' = [objs EXCEPT
                     ![p] = [MM!Wrapper("vec", MM!Null, MM!Null,
                                        [i \in 1 .. n |-> w.bufs[1]], FALSE, FALSE, FALSE)
                               EXCEPT !.backing = [block |-> w.bufs[1], own |-> w.own, fn |-> w.fn]],
                     ![o] = MM!Emptied(w)]
      BY <1>1, <3>1
    <3>3. objs' = [objs EXCEPT
                     ![p] = [MM!Wrapper("vec", MM!Null, MM!Null,
                                        [i \in 1 .. n |-> b], FALSE, FALSE, FALSE)
                               EXCEPT !.backing = [block |-> b, own |-> w.own, fn |-> w.fn]],
                     ![o] = u]
      BY <1>5, <1>10, <3>2
    <3> QED
      BY <1>7, <2>1, <3>3, Zenon
  <2>6. objs' = [objs EXCEPT ![p] = [a EXCEPT !.backing = x], ![o] = u]
    BY <2>4, <2>5, Zenon
  <2> QED
    BY <2>3, <2>6, Zenon
<1>12. /\ Object(u) /\ \A c \in Blocks : OnceIn(u, c)
       /\ \A c \in Blocks : \A h : /\ Claims(u, c) <=> OwnsBacking(w, c)
                                   /\ Knows(u, c, h) <=> (OwnsBacking(w, c) => h = MM!Way(w.backing.fn))
  BY <1>4, <1>10, EmptiedClaims
<1>13. w.own \in BOOLEAN /\ w.fn \in BOOLEAN
  BY <1>4, WrapperFields
<1>14. /\ Object(v) /\ \A c : OnceIn(v, c)
       /\ \A c \in Blocks : \A h :
            /\ Claims(v, c) <=> w.own /\ b = c
            /\ Knows(v, c, h) <=> (w.own /\ b = c => h = MM!Way(w.fn))
  BY <1>6, <1>8, <1>9, <1>13, BackedVec
<1>15. ASSUME NEW c \in Blocks \ twice
       PROVE  Shift(o, p, u, v, c)
  <2>1. Spotted(c)
    BY DEF MemoryInv, Singly, Spotted
  <2>2. ~Claims(objs[p], c)
    BY <1>2, NothingClaimed DEF MM!Vacant
  <2>3. OnceIn(u, c) /\ OnceIn(v, c) /\ ~Claims(u, c) /\ Same(c) /\ (c \in wrong' <=> c \in wrong)
    BY <1>2, <1>12, <1>14 DEF OwnsBacking, Same
  <2>4. Claims(w, c) => Knows(w, c, heap[c])
    BY <1>1, <2>1, ByObject
  <2>5. (Claims(v, c) <=> Claims(w, c)) /\ (Knows(v, c, heap[c]) <=> Knows(w, c, heap[c]))
    BY <1>6, <1>14
  <2> QED
    BY <1>1, <2>2, <2>3, <2>4, <2>5 DEF Shift
<1>16. o # p
  BY <1>1, <1>2, <1>4 DEF MM!Vacant
<1>17. heap' \in Heaps
  BY <1>2 DEF MemoryInv, MemoryTypes
<1> QED
  BY <1>2, <1>11, <1>12, <1>14, <1>15, <1>16, <1>17, Shifted

LEMMA Rearranged ==
    ASSUME MemoryInv, UNCHANGED <<heap, wrong, users, context, leaked, twice>>,
           DOMAIN objs' = Objs, \A y \in Objs : Object(objs'[y]),
           \A c \in Blocks \ twice : Passed(c) /\ \A y \in Objs : OnceIn(objs'[y], c)
    PROVE  MemoryInv'
<1>1. MemoryTypes'
  BY DEF MemoryInv, MemoryTypes
<1>2. ASSUME NEW c \in Blocks \ twice
      PROVE  Spotted(c)'
  <2>1. Spotted(c) /\ Passed(c)
    BY DEF MemoryInv, Singly, Spotted
  <2>2. CASE Unclaimed(c) /\ Unclaimed(c)'
    <3>1. Same(c)
      BY DEF Same
    <3>2. \A y \in Objs : /\ Claims(objs'[y], c) <=> Claims(objs[y], c)
                          /\ Claims(objs[y], c) /\ Knows(objs[y], c, heap[c]) =>
                               Knows(objs'[y], c, heap[c])
      BY <2>2 DEF Unclaimed
    <3> QED
      BY <2>1, <3>1, <3>2, Stays
  <2>3. ASSUME NEW o \in Objs, NEW p \in Objs, Claims(objs[o], c),
               \A y \in Objs : Claims(objs'[y], c) <=> y = p,
               Knows(objs'[p], c, heap[c])
        PROVE  Spotted(c)'
    <3>1. Unlisted(c) /\ Live(c) /\ c \notin users /\ c \notin wrong
      BY <2>1, <2>3, ByObject
    <3>2. Unlisted(c)' /\ Live(c)'
      BY <3>1 DEF Unlisted, Live, Waits
    <3> QED
      BY <2>3, <3>1, <3>2, ToObject
  <2> QED
    BY <2>1, <2>2, <2>3 DEF Passed
<1> QED
  BY <1>1, <1>2 DEF MemoryInv, Singly, Spotted

\* A wrapper without backing that no longer owns its data.
LEMMA Disowned ==
    ASSUME NEW w \in Wrappers, Tidy(w), NEW v, v = [w EXCEPT !.own = FALSE],
           w.kind = "buffer" \/ (w.kind = "vec" /\ w.backing.block = MM!Null)
    PROVE  Object(v) /\ \A c \in Blocks : OnceIn(v, c) /\ ~Claims(v, c)
<1>1. v = [kind |-> w.kind, hdr |-> w.hdr, arr |-> w.arr, bufs |-> w.bufs,
           ownHdr |-> w.ownHdr, own |-> FALSE, fn |-> w.fn, backing |-> w.backing]
  BY DEF Wrappers
<1>2. v \in Wrappers
  BY <1>1, WrapperFields DEF Wrappers
<1>3. /\ v.kind = w.kind /\ v.hdr = w.hdr /\ v.arr = w.arr /\ v.bufs = w.bufs
      /\ v.ownHdr = w.ownHdr /\ ~v.own /\ v.backing = w.backing
  BY <1>1
<1>4. Tidy(v)
  BY <1>3 DEF Tidy
<1>5. ASSUME NEW c \in Blocks
      PROVE  OnceIn(v, c) /\ ~Claims(v, c)
  <2>1. c # MM!Null
    BY NullAssumption DEF MM!Null
  <2>2. ~OwnsHeader(v, c) /\ ~OwnsData(v, c) /\ ~OwnsArray(v, c) /\ ~OwnsBacking(v, c)
    BY <1>3, <2>1 DEF OwnsHeader, OwnsBacking, OwnsArray, OwnsData
  <2>3. OnceIn(v, c)
    BY <1>3 DEF OnceIn
  <2> QED
    BY <1>2, <2>2, <2>3, ClaimReasons
<1> QED
  BY <1>2, <1>4, <1>5 DEF Object

LEMMA FromBuffersKeeps ==
    ASSUME MemoryInv, NEW p \in Objs, NEW n \in Nat \ {0}, NEW from \in [1 .. n -> Objs],
           MM!FromBuffers(from, p)
    PROVE  MemoryInv'
<1>1. PICK first : first = objs[from[1]]
  OBVIOUS
<1>2. PICK bs : bs = [i \in 1 .. n |-> objs[from[i]].bufs[1]]
  OBVIOUS
<1>3. PICK v : v = [kind |-> "vec", hdr |-> MM!Null, arr |-> MM!Null, bufs |-> bs,
                    ownHdr |-> FALSE, own |-> first.own, fn |-> first.fn,
                    backing |-> MM!NoBacking]
  OBVIOUS
<1>4. DOMAIN from = 1 .. n /\ \A i \in 1 .. n : from[i] \in Objs
  OBVIOUS
<1>5. /\ MM!Vacant(p)
      /\ \A i, j \in 1 .. n : from[i] = from[j] => i = j
      /\ \A i \in 1 .. n : /\ objs[from[i]].kind = "buffer" /\ objs[from[i]].bufs # <<>>
                           /\ objs[from[i]].own = first.own /\ objs[from[i]].fn = first.fn
      /\ UNCHANGED <<heap, wrong, users, context, leaked, twice>>
  BY <1>1, <1>4, Zenon DEF MM!FromBuffers
<1>6. /\ DOMAIN objs' = Objs /\ objs'[p] = v
      /\ \A y \in Objs : y # p =>
           /\ (\E i \in 1 .. n : from[i] = y) => objs'[y] = [objs[y] EXCEPT !.own = FALSE]
           /\ ~(\E i \in 1 .. n : from[i] = y) => objs'[y] = objs[y]
  <2>2. objs' = [y \in Objs |->
            IF y = p THEN MM!Wrapper("vec", MM!Null, MM!Null, bs, FALSE, first.own, first.fn)
            ELSE IF \E i \in 1 .. n : from[i] = y THEN [objs[y] EXCEPT !.own = FALSE] ELSE objs[y]]
    BY <1>1, <1>2, <1>4, Zenon DEF MM!FromBuffers
  <2>3. v = MM!Wrapper("vec", MM!Null, MM!Null, bs, FALSE, first.own, first.fn)
    BY <1>3, Zenon DEF MM!Wrapper
  <2>4. objs' = [y \in Objs |->
            IF y = p THEN v
            ELSE IF \E i \in 1 .. n : from[i] = y THEN [objs[y] EXCEPT !.own = FALSE] ELSE objs[y]]
    BY <2>2, <2>3, Zenon
  <2> QED
    BY <2>4
<1>7. \A i \in 1 .. n : /\ objs[from[i]] \in Wrappers /\ Tidy(objs[from[i]])
                        /\ from[i] # p
  <2> TAKE i \in 1 .. n
  <2>1. PICK w : w = objs[from[i]]
    OBVIOUS
  <2>2. w.kind = "buffer" /\ Object(w)
    BY <1>4, <1>5, <2>1 DEF MemoryInv, MemoryTypes
  <2>3. w \in Wrappers /\ Tidy(w) /\ w # MM!NoObject
    BY <2>2, KindOfNothing DEF Kinds
  <2> QED
    BY <1>5, <2>1, <2>3 DEF MM!Vacant
<1>8. ASSUME NEW i \in 1 .. n
      PROVE  /\ bs[i] \in Places /\ bs[i] = objs[from[i]].bufs[1]
             /\ \A c \in Blocks : \A h :
                  /\ Claims(objs[from[i]], c) <=> objs[from[i]].own /\ bs[i] = c
                  /\ Knows(objs[from[i]], c, h) <=>
                       (objs[from[i]].own /\ bs[i] = c => h = MM!Way(objs[from[i]].fn))
  <2>1. PICK w : w = objs[from[i]]
    OBVIOUS
  <2>2. w \in Wrappers /\ Tidy(w) /\ w.kind = "buffer" /\ w.bufs # <<>>
    BY <1>5, <1>7, <2>1
  <2>3. bs[i] = w.bufs[1]
    BY <1>2, <2>1
  <2>4. /\ w.bufs[1] \in Places
        /\ \A c \in Blocks : \A h :
             /\ Claims(w, c) <=> w.own /\ w.bufs[1] = c
             /\ Knows(w, c, h) <=> (w.own /\ w.bufs[1] = c => h = MM!Way(w.fn))
    BY <2>2, BufferHas
  <2> QED
    BY <2>1, <2>3, <2>4
<1>9. first.own \in BOOLEAN /\ first.fn \in BOOLEAN
  <2>1. first \in Wrappers
    BY <1>1, <1>7
  <2> QED
    BY <2>1, WrapperFields
<1>10. bs \in Seq(Places) /\ DOMAIN bs = 1 .. n
  <2>1. bs \in [1 .. n -> Places]
    BY <1>2, <1>8
  <2> QED
    BY <2>1, ListIsSeq
<1>11. /\ Object(v)
       /\ \A c : (first.own => Sole(bs, c)) => OnceIn(v, c)
       /\ \A c \in Blocks : \A h :
            /\ Claims(v, c) <=> first.own /\ Among(bs, c)
            /\ Knows(v, c, h) <=> (first.own /\ Among(bs, c) => h = MM!Way(first.fn))
  BY <1>3, <1>9, <1>10, VecMade
<1>12. ASSUME NEW y \in Objs
       PROVE  /\ Object(objs'[y])
              /\ (\E i \in 1 .. n : from[i] = y) =>
                   \A c \in Blocks : OnceIn(objs'[y], c) /\ ~Claims(objs'[y], c)
  <2>1. CASE y = p
    BY <1>6, <1>7, <1>11, <2>1
  <2>2. CASE \E i \in 1 .. n : from[i] = y
    <3>1. PICK w : w = objs[y]
      OBVIOUS
    <3>2. PICK x : x = [w EXCEPT !.own = FALSE]
      OBVIOUS
    <3>3. w \in Wrappers /\ Tidy(w) /\ w.kind = "buffer"
      BY <1>5, <1>7, <2>2, <3>1
    <3>4. Object(x) /\ \A c \in Blocks : OnceIn(x, c) /\ ~Claims(x, c)
      BY <3>2, <3>3, Disowned
    <3>5. objs'[y] = x
      BY <1>6, <1>7, <2>2, <3>1, <3>2
    <3> QED
      BY <3>4, <3>5
  <2>3. CASE y # p /\ ~\E i \in 1 .. n : from[i] = y
    BY <1>6, <2>3 DEF MemoryInv, MemoryTypes
  <2> QED
    BY <2>1, <2>2, <2>3
<1>13. ASSUME NEW c \in Blocks \ twice
       PROVE  Passed(c) /\ \A y \in Objs : OnceIn(objs'[y], c)
  <2>1. Spotted(c) /\ \A y \in Objs : OnceIn(objs[y], c)
    BY DEF MemoryInv, Singly, Spotted
  <2>2. \A y, z \in Objs : Claims(objs[y], c) /\ Claims(objs[z], c) => y = z
    BY <2>1, ByObject
  <2>3. \A i \in 1 .. n : Claims(objs[from[i]], c) <=> first.own /\ bs[i] = c
    <3> TAKE i \in 1 .. n
    <3>1. objs[from[i]].own = first.own
      BY <1>5
    <3>2. Claims(objs[from[i]], c) <=> objs[from[i]].own /\ bs[i] = c
      BY <1>8
    <3> QED
      BY <3>1, <3>2, Zenon
  <2>4. first.own => Sole(bs, c)
    BY <1>4, <1>5, <1>10, <2>2, <2>3 DEF Sole
  <2>5. OnceIn(v, c)
    BY <1>11, <2>4
  <2>6. \A y \in Objs : OnceIn(objs'[y], c)
    BY <1>6, <1>12, <2>1, <2>5
  <2>7. Claims(v, c) <=> \E i \in 1 .. n : Claims(objs[from[i]], c)
    BY <1>10, <1>11, <2>3 DEF Among
  <2>8. ~Claims(objs[p], c)
    BY <1>5, NothingClaimed DEF MM!Vacant
  <2>9. ASSUME NEW i \in 1 .. n, Claims(objs[from[i]], c)
        PROVE  Passed(c)
    <3>1. Claims(v, c)
      BY <2>7, <2>9
    <3>2. \A y \in Objs : Claims(objs'[y], c) <=> y = p
      BY <1>4, <1>6, <1>12, <2>2, <2>9, <3>1
    <3>3. heap[c] = MM!Way(objs[from[i]].fn)
      <4>1. Knows(objs[from[i]], c, heap[c])
        BY <1>4, <2>1, <2>9, ByObject
      <4>2. objs[from[i]].own /\ bs[i] = c
        BY <1>8, <2>9
      <4> QED
        BY <1>8, <4>1, <4>2
    <3>4. heap[c] = MM!Way(first.fn)
      <4>1. objs[from[i]].fn = first.fn
        BY <1>5
      <4> QED
        BY <3>3, <4>1, Zenon
    <3>5. Knows(v, c, heap[c])
      BY <1>11, <3>4
    <3> QED
      BY <1>4, <1>6, <2>9, <3>2, <3>5 DEF Passed
  <2>10. ASSUME NEW o \in Objs, Claims(objs[o], c), \A i \in 1 .. n : ~Claims(objs[from[i]], c)
         PROVE  Passed(c)
    <3>1. objs'[o] = objs[o]
      BY <1>6, <2>8, <2>10
    <3>2. ~Claims(v, c)
      BY <2>7, <2>10
    <3>3. \A y \in Objs : Claims(objs'[y], c) <=> y = o
      BY <1>6, <1>12, <2>2, <2>8, <2>10, <3>1, <3>2
    <3>4. Knows(objs'[o], c, heap[c])
      BY <2>1, <2>10, <3>1, ByObject
    <3> QED
      BY <2>10, <3>3, <3>4 DEF Passed
  <2>11. CASE \A o \in Objs : ~Claims(objs[o], c)
    <3>1. ~Claims(v, c)
      BY <1>4, <2>7, <2>11
    <3>2. \A y \in Objs : ~Claims(objs'[y], c)
      BY <1>6, <1>12, <2>11, <3>1
    <3>3. Unclaimed(c) /\ Unclaimed(c)'
      BY <2>11, <3>2 DEF Unclaimed
    <3> QED
      BY <2>6, <3>3 DEF Passed
  <2>12. Passed(c)
    BY <2>9, <2>10, <2>11
  <2> QED
    BY <2>6, <2>12
<1> QED
  BY <1>5, <1>6, <1>12, <1>13, Rearranged

LEMMA ExtractBuffersKeeps ==
    ASSUME MemoryInv, NEW o \in Objs, NEW n \in Nat, NEW to \in [1 .. n -> Objs],
           MM!ExtractBuffers(o, to)
    PROVE  MemoryInv'
<1>1. PICK w : w = objs[o]
  OBVIOUS
<1>2. PICK bs : bs = w.bufs
  OBVIOUS
<1>3. DOMAIN to = 1 .. n /\ \A i \in 1 .. n : to[i] \in Objs
  OBVIOUS
<1>4. /\ w.kind = "vec" /\ w.backing.block = MM!Null
      /\ \A i \in 1 .. n : objs[to[i]] = MM!NoObject
      /\ DOMAIN bs = 1 .. n
      /\ \A i, j \in 1 .. n : to[i] = to[j] => i = j
      /\ UNCHANGED <<heap, wrong, users, context, leaked, twice>>
  BY <1>1, <1>2, <1>3, Zenon DEF MM!ExtractBuffers, MM!Is, MM!Vacant
<1>5. w \in Wrappers /\ Tidy(w) /\ w # MM!NoObject
  <2>1. Object(w)
    BY <1>1 DEF MemoryInv, MemoryTypes
  <2> QED
    BY <1>4, <2>1, KindOfNothing DEF Kinds
<1>6. \A i \in 1 .. n : to[i] # o
  BY <1>1, <1>4, <1>5
<1>7. w.own \in BOOLEAN /\ w.fn \in BOOLEAN /\ bs \in Seq(Places)
  BY <1>2, <1>5, WrapperFields
<1>8. PICK x : x = [w EXCEPT !.own = FALSE]
  OBVIOUS
<1>9. Object(x) /\ \A c \in Blocks : OnceIn(x, c) /\ ~Claims(x, c)
  BY <1>4, <1>5, <1>8, Disowned
<1>10. /\ DOMAIN objs' = Objs /\ objs'[o] = x
       /\ \A p \in Objs : p # o =>
            /\ ~(\E i \in 1 .. n : to[i] = p) => objs'[p] = objs[p]
            /\ (\E i \in 1 .. n : to[i] = p) =>
                 objs'[p] = MM!Wrapper("buffer", MM!Null, MM!Null,
                              <<bs[CHOOSE i \in 1 .. n : to[i] = p]>>, FALSE, w.own, w.fn)
  <2>1. objs' = [p \in Objs |->
            IF p = o THEN x
            ELSE IF \E i \in 1 .. n : to[i] = p
            THEN MM!Wrapper("buffer", MM!Null, MM!Null,
                            <<bs[CHOOSE i \in 1 .. n : to[i] = p]>>, FALSE, w.own, w.fn)
            ELSE objs[p]]
    BY <1>1, <1>2, <1>3, <1>8, Zenon DEF MM!ExtractBuffers
  <2> QED
    BY <2>1, Zenon
<1>11. ASSUME NEW i \in 1 .. n
       PROVE  objs'[to[i]] =
                [kind |-> "buffer", hdr |-> MM!Null, arr |-> MM!Null, bufs |-> <<bs[i]>>,
                 ownHdr |-> FALSE, own |-> w.own, fn |-> w.fn, backing |-> MM!NoBacking]
  <2>1. PICK p : p = to[i]
    OBVIOUS
  <2>2. PICK k : k = CHOOSE j \in 1 .. n : to[j] = p
    OBVIOUS
  <2>3. k \in 1 .. n /\ to[k] = p
    BY <2>1, <2>2, Zenon
  <2>4. k = i
    BY <1>4, <2>1, <2>3
  <2>5. p \in Objs /\ p # o
    BY <1>3, <1>6, <2>1
  <2>6. objs'[p] = MM!Wrapper("buffer", MM!Null, MM!Null,
                     <<bs[CHOOSE j \in 1 .. n : to[j] = p]>>, FALSE, w.own, w.fn)
    BY <1>10, <2>1, <2>5, Zenon
  <2>7. objs'[p] = MM!Wrapper("buffer", MM!Null, MM!Null, <<bs[i]>>, FALSE, w.own, w.fn)
    BY <2>2, <2>4, <2>6, Zenon
  <2> QED
    BY <2>1, <2>7, Zenon DEF MM!Wrapper
<1>12. ASSUME NEW i \in 1 .. n
       PROVE  /\ Object(objs'[to[i]])
              /\ \A c \in Blocks : \A h :
                   /\ OnceIn(objs'[to[i]], c)
                   /\ Claims(objs'[to[i]], c) <=> w.own /\ c = bs[i]
                   /\ Knows(objs'[to[i]], c, h) <=> (w.own /\ c = bs[i] => h = MM!Way(w.fn))
  <2>1. PICK v : v = objs'[to[i]]
    OBVIOUS
  <2>2. PICK b : b = bs[i]
    OBVIOUS
  <2>3. b \in Places
    BY <1>4, <1>7, <2>2
  <2>4. PICK own \in BOOLEAN : own = w.own
    BY <1>7
  <2>5. PICK fn \in BOOLEAN : fn = w.fn
    BY <1>7
  <2>6. v = [kind |-> "buffer", hdr |-> MM!Null, arr |-> MM!Null, bufs |-> <<b>>,
             ownHdr |-> FALSE, own |-> own, fn |-> fn, backing |-> MM!NoBacking]
    BY <1>11, <2>1, <2>2, <2>4, <2>5, Zenon
  <2>7. /\ Object(v) /\ \A c : OnceIn(v, c)
        /\ \A c \in Blocks : \A h : /\ Claims(v, c) <=> own /\ c = b
                                    /\ Knows(v, c, h) <=> (own /\ c = b => h = MM!Way(fn))
    BY <2>3, <2>6, BufferMade
  <2>8. /\ Object(v) /\ \A c : OnceIn(v, c)
        /\ \A c \in Blocks : \A h : /\ Claims(v, c) <=> w.own /\ c = b
                                    /\ Knows(v, c, h) <=> (w.own /\ c = b => h = MM!Way(w.fn))
    BY <2>4, <2>5, <2>7, Zenon
  <2> QED
    BY <2>1, <2>2, <2>8
<1>13. \A y \in Objs : Object(objs'[y])
  <2> TAKE y \in Objs
  <2>1. CASE y = o
    BY <1>9, <1>10, <2>1
  <2>2. CASE \E i \in 1 .. n : to[i] = y
    BY <1>12, <2>2
  <2>3. CASE y # o /\ ~\E i \in 1 .. n : to[i] = y
    <3>1. objs'[y] = objs[y]
      BY <1>10, <2>3, Zenon
    <3> QED
      BY <3>1 DEF MemoryInv, MemoryTypes
  <2> QED
    BY <2>1, <2>2, <2>3
<1>14. ASSUME NEW y \in Objs, y # o, \A i \in 1 .. n : to[i] # y
       PROVE  objs'[y] = objs[y]
  BY <1>10, <1>14, Zenon
<1>15. ASSUME NEW c \in Blocks \ twice
       PROVE  Passed(c) /\ \A y \in Objs : OnceIn(objs'[y], c)
  <2>1. Spotted(c) /\ \A y \in Objs : OnceIn(objs[y], c)
    BY DEF MemoryInv, Singly, Spotted
  <2>2. \A y, z \in Objs : Claims(objs[y], c) /\ Claims(objs[z], c) => y = z
    BY <2>1, ByObject
  <2>3. /\ ~Claims(objs'[o], c) /\ OnceIn(objs'[o], c)
        /\ \A i \in 1 .. n : /\ OnceIn(objs'[to[i]], c)
                             /\ Claims(objs'[to[i]], c) <=> w.own /\ c = bs[i]
    <3>1. objs'[o] = x
      BY <1>10, Zenon
    <3> QED
      BY <1>9, <1>12, <3>1
  <2>4. \A y \in Objs : OnceIn(objs'[y], c)
    BY <1>14, <2>1, <2>3
  <2>5. /\ Claims(w, c) <=> w.own /\ \E i \in 1 .. n : bs[i] = c
        /\ Knows(w, c, heap[c]) <=> (Claims(w, c) => heap[c] = MM!Way(w.fn))
    <3>1. c # MM!Null
      BY NullAssumption DEF MM!Null
    <3>2. ~OwnsHeader(w, c) /\ ~OwnsArray(w, c) /\ ~OwnsBacking(w, c)
      BY <1>4, <3>1 DEF OwnsHeader, OwnsArray, OwnsBacking
    <3>3. OwnsData(w, c) <=> w.own /\ \E i \in 1 .. n : bs[i] = c
      BY <1>2, <1>4 DEF OwnsData, InBufs
    <3> QED
      BY <1>5, <3>2, <3>3, ClaimReasons
  <2>6. CASE Claims(objs[o], c)
    <3>1. w.own
      BY <1>1, <2>5, <2>6
    <3>2. PICK i \in 1 .. n : bs[i] = c
      BY <1>1, <2>5, <2>6
    <3>3. \A j \in 1 .. n : bs[j] = c => j = i
      <4>1. OnceIn(w, c)
        BY <1>1, <2>1
      <4> QED
        BY <1>2, <1>4, <3>1, <3>2, <4>1 DEF OnceIn
    <3>4. \A y \in Objs : Claims(objs'[y], c) <=> y = to[i]
      <4> TAKE y \in Objs
      <4>1. CASE y = o
        BY <1>6, <2>3, <4>1
      <4>2. ASSUME NEW j \in 1 .. n, to[j] = y
            PROVE  Claims(objs'[y], c) <=> y = to[i]
        BY <1>4, <2>3, <3>1, <3>2, <3>3, <4>2
      <4>3. CASE y # o /\ \A j \in 1 .. n : to[j] # y
        BY <1>14, <2>2, <2>6, <4>3
      <4> QED
        BY <4>1, <4>2, <4>3
    <3>5. heap[c] = MM!Way(w.fn)
      <4>1. Knows(objs[o], c, heap[c])
        BY <2>1, <2>6, ByObject
      <4> QED
        BY <1>1, <2>5, <2>6, <4>1
    <3>6. Knows(objs'[to[i]], c, heap[c])
      BY <1>12, <3>5
    <3>7. PICK p \in Objs : p = to[i]
      BY <1>3
    <3>8. \A y \in Objs : Claims(objs'[y], c) <=> y = p
      BY <3>4, <3>7
    <3>9. Knows(objs'[p], c, heap[c])
      BY <3>6, <3>7
    <3> QED
      BY <2>4, <2>6, <3>8, <3>9 DEF Passed
  <2>7. CASE ~Claims(objs[o], c)
    <3>1. \A i \in 1 .. n : ~Claims(objs'[to[i]], c) /\ ~Claims(objs[to[i]], c)
      BY <1>1, <1>4, <2>3, <2>5, <2>7, NothingClaimed
    <3>2. \A y \in Objs : Claims(objs'[y], c) <=> Claims(objs[y], c)
      BY <1>14, <2>3, <2>7, <3>1
    <3>3. ASSUME NEW y \in Objs, Claims(objs[y], c)
          PROVE  Passed(c)
      <4>1. objs'[y] = objs[y]
        BY <1>14, <2>7, <3>1, <3>3
      <4>2. Knows(objs'[y], c, heap[c])
        BY <2>1, <3>3, <4>1, ByObject
      <4>3. \A z \in Objs : Claims(objs'[z], c) <=> z = y
        BY <2>2, <3>2, <3>3
      <4> QED
        BY <3>3, <4>2, <4>3 DEF Passed
    <3>4. CASE \A y \in Objs : ~Claims(objs[y], c)
      <4>1. \A y \in Objs : ~Claims(objs'[y], c)
        BY <3>2, <3>4
      <4>2. Unclaimed(c) /\ Unclaimed(c)'
        BY <3>4, <4>1 DEF Unclaimed
      <4> QED
        BY <2>4, <4>2 DEF Passed
    <3>5. CASE \E y \in Objs : Claims(objs[y], c)
      BY <2>4, <3>3, <3>5
    <3> QED
      BY <3>4, <3>5
  <2>8. Passed(c)
    BY <2>6, <2>7
  <2> QED
    BY <2>4, <2>8
<1>16. DOMAIN objs' = Objs
  BY <1>10, Zenon
<1> QED
  BY <1>4, <1>13, <1>15, <1>16, Rearranged

-----------------------------------------------------------------------------
(* Received messages.                                                      *)

LEMMA ByHdr ==
    ASSUME NEW c, Spotted(c), AtHdr(c)
    PROVE  /\ c \notin users /\ c \notin leaked /\ c \notin wrong /\ Unclaimed(c)
           /\ ~AtData(c) /\ (\A d : ~AtMap(d, c)) /\ heap[c] = "mr"
<1>1. PICK k, x : Spot(c, k, x)
  BY DEF Spotted
<1>2. k = "hdr"
  BY <1>1 DEF Spot, AtHdr
<1> QED
  BY <1>1, <1>2 DEF Spot, AtData, AtMap, Unclaimed

LEMMA ByData ==
    ASSUME NEW c, Spotted(c), AtData(c)
    PROVE  /\ c \notin users /\ c \notin leaked /\ c \notin wrong /\ Unclaimed(c)
           /\ ~AtHdr(c) /\ (\A d : ~AtMap(d, c)) /\ heap[c] = Tag(context.queue[1].attr)
<1>1. PICK k, x : Spot(c, k, x)
  BY DEF Spotted
<1>2. k = "data"
  BY <1>1 DEF Spot, AtData
<1> QED
  BY <1>1, <1>2 DEF Spot, AtHdr, AtMap, Unclaimed

LEMMA ByMap ==
    ASSUME NEW c, Spotted(c), NEW d, AtMap(d, c)
    PROVE  /\ c \notin users /\ c \notin leaked /\ c \notin wrong /\ Unclaimed(c)
           /\ ~AtHdr(c) /\ ~AtData(c) /\ (\A e : AtMap(e, c) => e = d) /\ heap[c] = "ucx"
<1>1. PICK k, x : Spot(c, k, x)
  BY DEF Spotted
<1>2. k = "map" /\ x = d
  BY <1>1 DEF Spot, AtMap
<1> QED
  BY <1>1, <1>2 DEF Spot, AtHdr, AtData, AtMap, Unclaimed

LEMMA ToHdr ==
    ASSUME NEW c, AtHdr(c)', ~AtData(c)', \A d \in context'.map : d.data # c,
           c \notin users', c \notin leaked', c \notin wrong', heap'[c] = "mr", Unclaimed(c)'
    PROVE  Spotted(c)'
<1>1. Spot(c, "hdr", c)'
  BY DEF Spot, AtHdr, AtData, Unclaimed
<1> QED
  BY <1>1 DEF Spotted

LEMMA ToData ==
    ASSUME NEW c, ~AtHdr(c)', AtData(c)', \A d \in context'.map : d.data # c,
           c \notin users', c \notin leaked', c \notin wrong',
           heap'[c] = Tag(context'.queue[1].attr), Unclaimed(c)'
    PROVE  Spotted(c)'
<1>1. heap'[c] \in {"mr", "ucx"}
  BY DEF Tag
<1>2. Spot(c, "data", c)'
  BY <1>1 DEF Spot, AtHdr, AtData, Unclaimed
<1> QED
  BY <1>2 DEF Spotted

LEMMA ToMap ==
    ASSUME NEW c, ~AtHdr(c)', ~AtData(c)', NEW d, d \in context'.map,
           \A e \in context'.map : e.data = c <=> e = d,
           c \notin users', c \notin leaked', c \notin wrong',
           heap'[c] = "ucx", Unclaimed(c)'
    PROVE  Spotted(c)'
<1>1. Spot(c, "map", d)'
  BY DEF Spot, AtHdr, AtData, Unclaimed
<1> QED
  BY <1>1 DEF Spotted

LEMMA StaysListed ==
    ASSUME NEW c, Spotted(c), Same(c), StillListed(c),
           \A y \in Objs : /\ Claims(objs'[y], c) <=> Claims(objs[y], c)
                           /\ Claims(objs[y], c) /\ Knows(objs[y], c, heap[c]) =>
                                Knows(objs'[y], c, heap[c])
    PROVE  Spotted(c)'
<1>1. PICK k, x : Spot(c, k, x)
  BY DEF Spotted
<1>2. /\ heap'[c] = heap[c]
      /\ c \in users' <=> c \in users
      /\ c \in leaked' <=> c \in leaked
      /\ c \in wrong' <=> c \in wrong
  BY DEF Same
<1>3. /\ \A o \in Objs : Claims(objs'[o], c) <=> k = "object" /\ x = o
      /\ k = "object" => x \in Objs /\ Knows(objs'[x], c, heap'[c])
  BY <1>1, <1>2 DEF Spot
<1>4. /\ AtHdr(c)' <=> k = "hdr"
      /\ AtData(c)' <=> k = "data"
      /\ k = "data" => heap'[c] = Tag(context'.queue[1].attr)
  BY <1>1, <1>2 DEF Spot, StillListed, AtHdr, AtData
<1>5. /\ \A d \in context'.map : d.data = c <=> k = "map" /\ x = d
      /\ k = "map" => x \in context'.map /\ heap'[c] = "ucx"
  <2>1. /\ \A d \in context.map : d.data = c <=> k = "map" /\ x = d
        /\ k = "map" => x \in context.map /\ heap[c] = "ucx"
    BY <1>1 DEF Spot
  <2>2. \A d : d \in context'.map /\ d.data = c <=> d \in context.map /\ d.data = c
    BY DEF StillListed
  <2>3. k = "map" => x.data = c
    BY <2>1
  <2> QED
    BY <1>2, <2>1, <2>2, <2>3
<1>6. Spot(c, k, x)'
  BY <1>1, <1>2, <1>3, <1>4, <1>5 DEF Spot, AtHdr, AtData
<1> QED
  BY <1>6 DEF Spotted

LEMMA ContextFields ==
    ASSUME context \in Contexts
    PROVE  /\ context.map \in SUBSET Descriptors /\ context.alive \in BOOLEAN
           /\ context.queue \in {<<>>} \cup {<<d>> : d \in Descriptors}
           /\ Waits => /\ context.queue[1] \in Descriptors
                       /\ DOMAIN context.queue = {1}
           /\ ~Waits => DOMAIN context.queue = {}
<1>1. PICK ds : ds = context.queue
  OBVIOUS
<1>2. /\ context.map \in SUBSET Descriptors /\ context.alive \in BOOLEAN
      /\ ds \in {<<>>} \cup {<<d>> : d \in Descriptors}
  BY <1>1 DEF Contexts
<1>3. ds # <<>> => ds[1] \in Descriptors /\ DOMAIN ds = {1}
  BY <1>2
<1>4. ds = <<>> => DOMAIN ds = {}
  OBVIOUS
<1> QED
  BY <1>1, <1>2, <1>3, <1>4 DEF Waits

\* A step that changes no object.
LEMMA ObjectsRest ==
    ASSUME MemoryInv, objs' = objs, heap' \in Heaps, context' \in Contexts,
           twice \subseteq twice', \A c \in Blocks \ twice' : Spotted(c)'
    PROVE  MemoryInv'
<1>1. MemoryTypes'
  BY DEF MemoryInv, MemoryTypes
<1>2. ASSUME NEW c \in Blocks \ twice'
      PROVE  (\E k, x : Spot(c, k, x)') /\ \A o \in Objs : OnceIn(objs'[o], c)
  <2>1. c \in Blocks \ twice
    OBVIOUS
  <2>2. \A o \in Objs : OnceIn(objs[o], c)
    BY <2>1 DEF MemoryInv, Singly
  <2>3. \E k, x : Spot(c, k, x)'
    BY DEF Spotted
  <2> QED
    BY <2>2, <2>3
<1> QED
  BY <1>1, <1>2 DEF MemoryInv, Singly

LEMMA SameObjects ==
    ASSUME objs' = objs, NEW c
    PROVE  /\ \A y \in Objs : /\ Claims(objs'[y], c) <=> Claims(objs[y], c)
                              /\ Claims(objs[y], c) /\ Knows(objs[y], c, heap[c]) =>
                                   Knows(objs'[y], c, heap[c])
           /\ Unclaimed(c)' <=> Unclaimed(c)
BY DEF Unclaimed

LEMMA UserFreesKeeps ==
    ASSUME MemoryInv, NEW b \in Blocks, MM!UserFrees(b)
    PROVE  MemoryInv'
<1>1. PICK t : t = heap[b]
  OBVIOUS
<1>2. PICK R : R = {<<b, t>>}
  OBVIOUS
<1>3. /\ b \in users /\ MM!Release(R) /\ users' = users \ {b}
      /\ UNCHANGED <<objs, context, leaked, twice>>
  BY <1>1, <1>2 DEF MM!UserFrees
<1>4. heap \in Heaps /\ context \in Contexts
  BY DEF MemoryInv, MemoryTypes
<1>5. heap' \in Heaps
  BY <1>3, <1>4, ReleasedHeap
<1>6. ASSUME NEW c \in Blocks \ twice
      PROVE  Spotted(c)'
  <2>1. Spotted(c)
    BY DEF MemoryInv, Singly, Spotted
  <2>2. Frees(R, c) <=> c = b
    BY <1>2 DEF Frees
  <2>3. InWay(R, c, heap[c])
    BY <1>1, <1>2 DEF InWay
  <2>4. /\ c = b => heap'[c] = "freed"
        /\ c # b => heap'[c] = heap[c]
        /\ c \in wrong' <=> c \in wrong
    BY <1>3, <1>4, <2>2, <2>3, Released
  <2>5. CASE c = b
    <3>1. Unlisted(c) /\ Unclaimed(c) /\ c \notin wrong
      BY <1>3, <2>1, <2>5, ByUser
    <3>2. Unlisted(c)' /\ Unclaimed(c)' /\ ~Live(c)'
      BY <1>3, <2>4, <2>5, <3>1 DEF Unlisted, Unclaimed, Live, Waits
    <3> QED
      BY <1>3, <2>4, <2>5, <3>1, <3>2, ToNobody
  <2>6. CASE c # b
    <3>1. Same(c)
      BY <1>3, <2>4, <2>6 DEF Same
    <3> QED
      BY <1>3, <2>1, <3>1, SameObjects, Stays
  <2> QED
    BY <2>5, <2>6
<1> QED
  BY <1>3, <1>4, <1>5, <1>6, ObjectsRest

LEMMA NoMemoryKeeps ==
    ASSUME MemoryInv, NEW b \in Blocks, MM!AmRecvCallbackNoMemory(b)
    PROVE  MemoryInv'
<1>1. /\ heap[b] = "unused" /\ heap' = [heap EXCEPT ![b] = "freed"]
      /\ UNCHANGED <<wrong, objs, users, context, leaked, twice>>
  BY DEF MM!AmRecvCallbackNoMemory
<1>2. heap \in Heaps /\ context \in Contexts
  BY DEF MemoryInv, MemoryTypes
<1>3. heap' \in Heaps /\ heap'[b] = "freed" /\ \A c \in Blocks : c # b => heap'[c] = heap[c]
  BY <1>1, <1>2 DEF Heaps
<1>4. ASSUME NEW c \in Blocks \ twice
      PROVE  Spotted(c)'
  <2>1. Spotted(c)
    BY DEF MemoryInv, Singly, Spotted
  <2>2. CASE c = b
    <3>1. Unlisted(c) /\ Unclaimed(c) /\ c \notin users /\ c \notin wrong
      BY <1>1, <2>1, <2>2, ByNobody
    <3>2. Unlisted(c)' /\ Unclaimed(c)' /\ ~Live(c)'
      BY <1>1, <1>3, <2>2, <3>1 DEF Unlisted, Unclaimed, Live, Waits
    <3> QED
      BY <1>1, <3>1, <3>2, ToNobody
  <2>3. CASE c # b
    <3>1. Same(c)
      BY <1>1, <1>3, <2>3 DEF Same
    <3> QED
      BY <1>1, <2>1, <3>1, SameObjects, Stays
  <2> QED
    BY <2>2, <2>3
<1> QED
  BY <1>1, <1>2, <1>3, <1>4, ObjectsRest

LEMMA AmRecvCallbackKeeps ==
    ASSUME MemoryInv, NEW b \in Blocks, NEW z \in Blocks, NEW attr \in {"copied", "data", "rndv"},
           MM!AmRecvCallback(b, z, attr)
    PROVE  MemoryInv'
<1>1. PICK d : d = [hdr |-> b, data |-> z, attr |-> attr]
  OBVIOUS
<1>2. PICK t : t = IF attr = "copied" THEN "mr" ELSE "ucx"
  OBVIOUS
<1>3. /\ context.queue = <<>> /\ b # z /\ heap[b] = "unused" /\ heap[z] = "unused"
      /\ heap' = [heap EXCEPT ![b] = "mr", ![z] = t]
      /\ context' = [context EXCEPT !.queue = <<d>>]
      /\ UNCHANGED <<wrong, objs, users, leaked, twice>>
  BY <1>1, <1>2 DEF MM!AmRecvCallback
<1>4. heap \in Heaps /\ context \in Contexts
  BY DEF MemoryInv, MemoryTypes
<1>5. d \in Descriptors /\ d.hdr = b /\ d.data = z /\ d.attr = attr /\ t = Tag(attr)
      /\ t \in {"mr", "ucx"}
  BY <1>1, <1>2 DEF Descriptors, Tag
<1>6. /\ heap' \in Heaps /\ heap'[b] = "mr" /\ heap'[z] = t
      /\ \A c \in Blocks : c # b /\ c # z => heap'[c] = heap[c]
  BY <1>3, <1>4, <1>5 DEF Heaps
<1>7. /\ context' \in Contexts /\ context'.queue = <<d>> /\ context'.map = context.map
  BY <1>3, <1>4, <1>5 DEF Contexts
<1>8. ~Waits /\ Waits' /\ context'.queue[1] = d
  BY <1>3, <1>7 DEF Waits
<1>9. ASSUME NEW c \in Blocks \ twice
      PROVE  Spotted(c)'
  <2>1. Spotted(c)
    BY DEF MemoryInv, Singly, Spotted
  <2>2. /\ AtHdr(c)' <=> c = b
        /\ AtData(c)' <=> c = z
        /\ ~AtHdr(c) /\ ~AtData(c)
    BY <1>5, <1>8 DEF AtHdr, AtData
  <2>3. c = b \/ c = z =>
          /\ Unlisted(c) /\ Unclaimed(c) /\ c \notin users /\ c \notin wrong
    BY <1>3, <2>1, ByNobody
  <2>4. c = b \/ c = z =>
          /\ \A e \in context'.map : e.data # c
          /\ c \notin users' /\ c \notin leaked' /\ c \notin wrong' /\ Unclaimed(c)'
    BY <1>3, <1>7, <2>3, SameObjects DEF Unlisted
  <2>5. CASE c = b
    BY <1>3, <1>6, <2>2, <2>4, <2>5, ToHdr
  <2>6. CASE c = z
    <3>1. heap'[c] = Tag(context'.queue[1].attr)
      BY <1>5, <1>6, <1>8, <2>6
    <3> QED
      BY <1>3, <2>2, <2>4, <2>6, <3>1, ToData
  <2>7. CASE c # b /\ c # z
    <3>1. Same(c)
      BY <1>3, <1>6, <2>7 DEF Same
    <3>2. StillListed(c)
      BY <1>7, <2>2, <2>7 DEF StillListed
    <3> QED
      BY <1>3, <2>1, <3>1, <3>2, SameObjects, StaysListed
  <2> QED
    BY <2>5, <2>6, <2>7
<1> QED
  BY <1>3, <1>6, <1>7, <1>9, ObjectsRest

\* What is freed of a descriptor that nobody will receive.
LEMMA DropFrees ==
    ASSUME NEW d \in Descriptors, NEW R, R = MM!DropReleases(d), NEW c
    PROVE  /\ Frees(R, c) <=> c = d.hdr \/ (d.attr # "rndv" /\ c = d.data)
           /\ ~(d.hdr = c /\ d.data = c) =>
                \A y : InWay(R, c, y) <=> /\ c = d.hdr => y = "mr"
                                          /\ d.attr # "rndv" /\ c = d.data => y = Tag(d.attr)
<1>1. d.attr \in {"copied", "data", "rndv"}
  BY DEF Descriptors
<1>2. PICK b, z : b = d.hdr /\ z = d.data
  OBVIOUS
<1>3. CASE d.attr = "rndv"
  <2>1. R = {<<b, "mr">>}
    BY <1>2, <1>3 DEF MM!DropReleases
  <2> QED
    BY <1>2, <1>3, <2>1 DEF Frees, InWay
<1>4. CASE d.attr # "rndv"
  <2>1. PICK t : t = Tag(d.attr)
    OBVIOUS
  <2>2. R = {<<b, "mr">>, <<z, t>>}
    BY <1>1, <1>2, <1>4, <2>1 DEF MM!DropReleases, Tag
  <2>3. (\A r \in R : r = <<b, "mr">> \/ r = <<z, t>>) /\ <<b, "mr">> \in R /\ <<z, t>> \in R
    BY <2>2
  <2>4. Frees(R, c) <=> c = b \/ c = z
    BY <2>3 DEF Frees
  <2>5. \A y : InWay(R, c, y) <=> (c = b => y = "mr") /\ (c = z => y = t)
    BY <2>3 DEF InWay
  <2> QED
    BY <1>2, <1>4, <2>1, <2>4, <2>5
<1> QED
  BY <1>3, <1>4

\* The context lets go of the descriptor in its queue, and frees what it can.
LEMMA QueueDropped ==
    ASSUME MemoryInv, NEW c \in Blocks \ twice, Waits, NEW d, d = context.queue[1],
           NEW R, R = MM!DropReleases(d), MM!Release(R), AtHdr(c) \/ AtData(c),
           objs' = objs, users' = users, ~Waits', \A e \in context'.map : e.data # c,
           c \in leaked' <=> c \in leaked \/ (d.attr = "rndv" /\ d.data = c)
    PROVE  Spotted(c)'
<1>1. heap \in Heaps /\ context \in Contexts /\ Spotted(c)
  BY DEF MemoryInv, MemoryTypes, Singly, Spotted
<1>2. d \in Descriptors
  BY <1>1, ContextFields
<1>3. d.attr \in {"copied", "data", "rndv"}
  BY <1>2 DEF Descriptors
<1>4. /\ AtHdr(c) <=> d.hdr = c
      /\ AtData(c) <=> d.data = c
  BY DEF AtHdr, AtData
<1>5. ~(d.hdr = c /\ d.data = c) /\ c \notin users /\ c \notin leaked /\ c \notin wrong /\ Unclaimed(c)
  BY <1>1, <1>4, ByHdr, ByData
<1>6. /\ d.hdr = c => heap[c] = "mr"
      /\ d.data = c => heap[c] = Tag(d.attr)
  BY <1>1, <1>4, ByHdr, ByData
<1>7. /\ Frees(R, c) <=> c = d.hdr \/ (d.attr # "rndv" /\ c = d.data)
      /\ InWay(R, c, heap[c])
  <2>1. PICK y : y = heap[c]
    OBVIOUS
  <2>2. /\ Frees(R, c) <=> c = d.hdr \/ (d.attr # "rndv" /\ c = d.data)
        /\ InWay(R, c, y) <=> /\ c = d.hdr => y = "mr"
                              /\ d.attr # "rndv" /\ c = d.data => y = Tag(d.attr)
    BY <1>2, <1>5, DropFrees
  <2> QED
    BY <1>6, <2>1, <2>2
<1>8. /\ heap'[c] = IF Frees(R, c) THEN "freed" ELSE heap[c]
      /\ c \notin wrong'
  BY <1>1, <1>5, <1>7, Released
<1>9. Unclaimed(c)' /\ Offlist(c)'
  BY <1>5, SameObjects DEF Offlist
<1>10. CASE Frees(R, c)
  <2>1. c \notin leaked' /\ ~Live(c)'
    BY <1>4, <1>5, <1>7, <1>8, <1>10 DEF Live
  <2>2. Unlisted(c)'
    BY <1>9, <2>1 DEF Offlist, Unlisted
  <2> QED
    BY <1>5, <1>8, <1>9, <2>1, <2>2, ToNobody
<1>11. CASE ~Frees(R, c)
  <2>1. d.attr = "rndv" /\ d.data = c
    BY <1>4, <1>7, <1>11
  <2>2. c \in leaked' /\ heap'[c] = "ucx"
    BY <1>6, <1>8, <1>11, <2>1 DEF Tag
  <2>3. Live(c)'
    BY <2>2 DEF Live
  <2> QED
    BY <1>5, <1>8, <1>9, <2>2, <2>3, ToLeaked
<1> QED
  BY <1>10, <1>11

LEMMA UnreachableKeeps ==
    ASSUME MemoryInv, MM!RecvHeaderUnreachable
    PROVE  MemoryInv'
<1>1. PICK d : d = context.queue[1]
  OBVIOUS
<1>2. PICK R : R = MM!DropReleases(d)
  OBVIOUS
<1>3. /\ Waits /\ MM!Release(R) /\ leaked' = leaked \cup MM!Dropped(d)
      /\ context' = [context EXCEPT !.queue = <<>>]
      /\ UNCHANGED <<objs, users, twice>>
  BY <1>1, <1>2 DEF MM!RecvHeaderUnreachable, Waits
<1>4. heap \in Heaps /\ context \in Contexts
  BY DEF MemoryInv, MemoryTypes
<1>5. heap' \in Heaps /\ d \in Descriptors
  BY <1>1, <1>3, <1>4, ReleasedHeap, ContextFields
<1>6. context' \in Contexts /\ context'.queue = <<>> /\ context'.map = context.map
  BY <1>3, <1>4 DEF Contexts
<1>7. ~Waits'
  BY <1>6 DEF Waits
<1>8. \A c : c \in leaked' <=> c \in leaked \/ (d.attr = "rndv" /\ d.data = c)
  BY <1>3 DEF MM!Dropped
<1>9. ASSUME NEW c \in Blocks \ twice
      PROVE  Spotted(c)'
  <2>1. Spotted(c)
    BY DEF MemoryInv, Singly, Spotted
  <2>2. CASE AtHdr(c) \/ AtData(c)
    <3>1. \A e \in context'.map : e.data # c
      BY <1>6, <2>1, <2>2, ByHdr, ByData DEF AtMap
    <3> QED
      BY <1>1, <1>2, <1>3, <1>7, <1>8, <2>2, <3>1, QueueDropped
  <2>3. CASE ~AtHdr(c) /\ ~AtData(c)
    <3>1. c # d.hdr /\ c # d.data
      BY <1>1, <1>3, <2>3 DEF AtHdr, AtData
    <3>2. ~Frees(R, c)
      BY <1>2, <1>5, <3>1, DropFrees
    <3>3. InWay(R, c, heap[c])
      BY <3>2 DEF Frees, InWay
    <3>4. heap'[c] = heap[c] /\ (c \in wrong' <=> c \in wrong)
      BY <1>3, <1>4, <3>2, <3>3, Released
    <3>5. Same(c)
      BY <1>3, <1>8, <3>1, <3>4 DEF Same
    <3>6. StillListed(c)
      BY <1>6, <1>7, <2>3 DEF StillListed, AtHdr, AtData
    <3> QED
      BY <1>3, <2>1, <3>5, <3>6, SameObjects, StaysListed
  <2> QED
    BY <2>2, <2>3
<1> QED
  BY <1>3, <1>5, <1>6, <1>9, ObjectsRest

LEMMA RecvBufferKeeps ==
    ASSUME MemoryInv, NEW d \in context.map, NEW connected \in BOOLEAN, MM!RecvBuffer(d, connected)
    PROVE  MemoryInv'
<1>1. PICK R : R = IF connected THEN {<<d.data, "ucx">>} ELSE {}
  OBVIOUS
<1>2. /\ MM!Release(R)
      /\ connected => leaked' = leaked
      /\ ~connected => leaked' = leaked \cup {d.data}
      /\ context' = [context EXCEPT !.map = @ \ {d}]
      /\ UNCHANGED <<objs, users, twice>>
  BY <1>1 DEF MM!RecvBuffer
<1>3. heap \in Heaps /\ context \in Contexts
  BY DEF MemoryInv, MemoryTypes
<1>4. heap' \in Heaps
  BY <1>2, <1>3, ReleasedHeap
<1>5. /\ context' \in Contexts /\ context'.queue = context.queue
      /\ context'.map = context.map \ {d}
  BY <1>2, <1>3 DEF Contexts
<1>6. ASSUME NEW c \in Blocks \ twice
      PROVE  Spotted(c)'
  <2>1. Spotted(c)
    BY DEF MemoryInv, Singly, Spotted
  <2>2. /\ Frees(R, c) <=> connected /\ c = d.data
        /\ c = d.data => InWay(R, c, "ucx")
        /\ c # d.data => InWay(R, c, heap[c])
    <3>1. CASE connected
      <4>1. R = {<<d.data, "ucx">>}
        BY <1>1, <3>1
      <4> QED
        BY <3>1, <4>1 DEF Frees, InWay
    <3>2. CASE ~connected
      <4>1. R = {}
        BY <1>1, <3>2
      <4> QED
        BY <3>2, <4>1 DEF Frees, InWay
    <3> QED
      BY <3>1, <3>2
  <2>3. (AtHdr(c)' <=> AtHdr(c)) /\ (AtData(c)' <=> AtData(c))
    BY <1>5 DEF AtHdr, AtData, Waits
  <2>4. CASE c = d.data
    <3>1. AtMap(d, c)
      BY <2>4 DEF AtMap
    <3>2. /\ c \notin users /\ c \notin leaked /\ c \notin wrong /\ Unclaimed(c)
          /\ ~AtHdr(c) /\ ~AtData(c) /\ (\A e : AtMap(e, c) => e = d) /\ heap[c] = "ucx"
      BY <2>1, <3>1, ByMap
    <3>3. /\ connected => heap'[c] = "freed"
          /\ ~connected => heap'[c] = heap[c]
          /\ c \notin wrong'
      BY <1>2, <1>3, <2>2, <2>4, <3>2, Released
    <3>4. Unclaimed(c)' /\ c \notin users'
      BY <1>2, <3>2, SameObjects
    <3>5. Offlist(c)'
      BY <1>5, <2>3, <3>2 DEF Offlist, AtHdr, AtData, AtMap
    <3>6. CASE connected
      <4>1. ~Live(c)' /\ Unlisted(c)'
        BY <1>2, <3>2, <3>3, <3>5, <3>6 DEF Live, Unlisted, Offlist
      <4> QED
        BY <3>3, <3>4, <4>1, ToNobody
    <3>7. CASE ~connected
      <4>1. Live(c)' /\ c \in leaked'
        BY <1>2, <2>4, <3>2, <3>3, <3>7 DEF Live
      <4> QED
        BY <3>3, <3>4, <3>5, <4>1, ToLeaked
    <3> QED
      BY <3>6, <3>7
  <2>5. CASE c # d.data
    <3>1. heap'[c] = heap[c] /\ (c \in wrong' <=> c \in wrong)
      BY <1>2, <1>3, <2>2, <2>5, Released
    <3>2. Same(c)
      BY <1>2, <2>5, <3>1 DEF Same
    <3>3. StillListed(c)
      BY <1>5, <2>3, <2>5 DEF StillListed
    <3> QED
      BY <1>2, <2>1, <3>2, <3>3, SameObjects, StaysListed
  <2> QED
    BY <2>4, <2>5
<1> QED
  BY <1>2, <1>4, <1>5, <1>6, ObjectsRest

\* The header is excepted from now on.
LEMMA CancelRecvBufferKeeps ==
    ASSUME MemoryInv, NEW d \in context.map, MM!CancelRecvBuffer(d)
    PROVE  MemoryInv'
<1>1. PICK R : R = {<<d.hdr, "mr">>, <<d.data, "ucx">>}
  OBVIOUS
<1>2. /\ MM!Release(R) /\ twice' = twice \cup {d.hdr}
      /\ context' = [context EXCEPT !.map = @ \ {d}]
      /\ UNCHANGED <<objs, users, leaked>>
  BY <1>1 DEF MM!CancelRecvBuffer, MM!ReleaseRndvAmDesc
<1>3. heap \in Heaps /\ context \in Contexts
  BY DEF MemoryInv, MemoryTypes
<1>4. heap' \in Heaps
  BY <1>2, <1>3, ReleasedHeap
<1>5. /\ context' \in Contexts /\ context'.queue = context.queue
      /\ context'.map = context.map \ {d}
  BY <1>2, <1>3 DEF Contexts
<1>6. ASSUME NEW c \in Blocks \ twice'
      PROVE  Spotted(c)'
  <2>1. c \in Blocks \ twice /\ c # d.hdr
    BY <1>2
  <2>2. Spotted(c)
    BY <2>1 DEF MemoryInv, Singly, Spotted
  <2>3. /\ Frees(R, c) <=> c = d.data
        /\ c = d.data => InWay(R, c, "ucx")
        /\ c # d.data => InWay(R, c, heap[c])
    BY <1>1, <2>1 DEF Frees, InWay
  <2>4. (AtHdr(c)' <=> AtHdr(c)) /\ (AtData(c)' <=> AtData(c))
    BY <1>5 DEF AtHdr, AtData, Waits
  <2>5. CASE c = d.data
    <3>1. AtMap(d, c)
      BY <2>5 DEF AtMap
    <3>2. /\ c \notin users /\ c \notin leaked /\ c \notin wrong /\ Unclaimed(c)
          /\ ~AtHdr(c) /\ ~AtData(c) /\ (\A e : AtMap(e, c) => e = d) /\ heap[c] = "ucx"
      BY <2>2, <3>1, ByMap
    <3>3. heap'[c] = "freed" /\ c \notin wrong'
      BY <1>2, <1>3, <2>3, <2>5, <3>2, Released
    <3>4. Unclaimed(c)' /\ c \notin users' /\ ~Live(c)'
      BY <1>2, <3>2, <3>3, SameObjects DEF Live
    <3>5. Unlisted(c)'
      BY <1>2, <1>5, <2>4, <3>2 DEF Unlisted, AtHdr, AtData, AtMap
    <3> QED
      BY <3>3, <3>4, <3>5, ToNobody
  <2>6. CASE c # d.data
    <3>1. heap'[c] = heap[c] /\ (c \in wrong' <=> c \in wrong)
      BY <1>2, <1>3, <2>3, <2>6, Released
    <3>2. Same(c)
      BY <1>2, <3>1 DEF Same
    <3>3. StillListed(c)
      BY <1>5, <2>4, <2>6 DEF StillListed
    <3> QED
      BY <1>2, <2>2, <3>2, <3>3, SameObjects, StaysListed
  <2> QED
    BY <2>5, <2>6
<1> QED
  BY <1>2, <1>4, <1>5, <1>6, ObjectsRest

\* The context is gone, with the descriptors of its map.
LEMMA MapDropped ==
    ASSUME heap \in Heaps, NEW c \in Blocks, Spotted(c), ~AtHdr(c), ~AtData(c),
           NEW R, MM!Release(R), ~Frees(R, c), objs' = objs, users' = users,
           ~Waits', context'.map = {},
           c \in leaked' <=> c \in leaked \/ \E e : AtMap(e, c)
    PROVE  Spotted(c)'
<1>1. InWay(R, c, heap[c])
  BY DEF Frees, InWay
<1>2. heap'[c] = heap[c] /\ (c \in wrong' <=> c \in wrong)
  BY <1>1, Released
<1>3. ASSUME NEW d, AtMap(d, c)
      PROVE  Spotted(c)'
  <2>1. /\ c \notin users /\ c \notin wrong /\ Unclaimed(c) /\ heap[c] = "ucx"
    BY <1>3, ByMap
  <2>2. Unclaimed(c)' /\ Live(c)' /\ c \notin users' /\ c \notin wrong' /\ c \in leaked'
    BY <1>2, <1>3, <2>1, SameObjects DEF Live
  <2>3. Offlist(c)'
    BY DEF Offlist
  <2> QED
    BY <2>2, <2>3, ToLeaked
<1>4. CASE \A e : ~AtMap(e, c)
  <2>1. Same(c)
    BY <1>2, <1>4 DEF Same
  <2>2. StillListed(c)
    BY <1>4 DEF StillListed, AtMap, AtHdr, AtData
  <2> QED
    BY <2>1, <2>2, SameObjects, StaysListed
<1> QED
  BY <1>3, <1>4

LEMMA DestroyContextKeeps ==
    ASSUME MemoryInv, MM!DestroyContext
    PROVE  MemoryInv'
<1>1. PICK ds : ds = context.queue
  OBVIOUS
<1>2. PICK R : R = UNION {MM!DropReleases(ds[i]) : i \in DOMAIN ds}
  OBVIOUS
<1>3. PICK L : L = UNION {MM!Dropped(ds[i]) : i \in DOMAIN ds}
  OBVIOUS
<1>4. /\ MM!Release(R) /\ leaked' = leaked \cup {d.data : d \in context.map} \cup L
      /\ context' = [queue |-> <<>>, map |-> {}, alive |-> FALSE]
      /\ UNCHANGED <<objs, users, twice>>
  BY <1>1, <1>2, <1>3, Zenon DEF MM!DestroyContext
<1>5. heap \in Heaps /\ context \in Contexts
  BY DEF MemoryInv, MemoryTypes
<1>6. heap' \in Heaps
  BY <1>4, <1>5, ReleasedHeap
<1>7. context' \in Contexts /\ context'.queue = <<>> /\ context'.map = {} /\ ~Waits'
  BY <1>4 DEF Contexts, Waits
<1>8. PICK d : d = context.queue[1]
  OBVIOUS
<1>9. CASE Waits
  <2>1. DOMAIN ds = {1} /\ ds[1] = d /\ d \in Descriptors
    BY <1>1, <1>5, <1>8, <1>9, ContextFields
  <2>2. R = MM!DropReleases(d) /\ L = MM!Dropped(d)
    BY <1>2, <1>3, <2>1
  <2>3. \A c : c \in leaked' <=> \/ c \in leaked
                                 \/ \E e : AtMap(e, c)
                                 \/ d.attr = "rndv" /\ d.data = c
    BY <1>4, <2>2 DEF MM!Dropped, AtMap
  <2>4. ASSUME NEW c \in Blocks \ twice
        PROVE  Spotted(c)'
    <3>1. Spotted(c)
      BY DEF MemoryInv, Singly, Spotted
    <3>2. CASE AtHdr(c) \/ AtData(c)
      <4>1. \A e : ~AtMap(e, c)
        BY <3>1, <3>2, ByHdr, ByData
      <4>2. c \in leaked' <=> c \in leaked \/ (d.attr = "rndv" /\ d.data = c)
        BY <2>3, <4>1
      <4>3. \A e \in context'.map : e.data # c
        BY <1>7
      <4> QED
        BY <1>4, <1>7, <1>8, <1>9, <2>2, <3>2, <4>2, <4>3, QueueDropped
    <3>3. CASE ~AtHdr(c) /\ ~AtData(c)
      <4>1. c # d.hdr /\ c # d.data
        BY <1>8, <1>9, <3>3 DEF AtHdr, AtData
      <4>2. ~Frees(R, c)
        BY <2>1, <2>2, <4>1, DropFrees
      <4> QED
        BY <1>4, <1>5, <1>7, <2>3, <3>1, <3>3, <4>1, <4>2, MapDropped
    <3> QED
      BY <3>2, <3>3
  <2> QED
    BY <1>4, <1>6, <1>7, <2>4, ObjectsRest
<1>10. CASE ~Waits
  <2>1. R = {} /\ L = {}
    BY <1>1, <1>2, <1>3, <1>5, <1>10, ContextFields
  <2>2. \A c : c \in leaked' <=> c \in leaked \/ \E e : AtMap(e, c)
    BY <1>4, <2>1 DEF AtMap
  <2>3. ASSUME NEW c \in Blocks \ twice
        PROVE  Spotted(c)'
    <3>1. Spotted(c)
      BY DEF MemoryInv, Singly, Spotted
    <3>2. ~AtHdr(c) /\ ~AtData(c) /\ ~Frees(R, c)
      BY <1>10, <2>1 DEF AtHdr, AtData, Frees
    <3> QED
      BY <1>4, <1>5, <1>7, <2>2, <3>1, <3>2, MapDropped
  <2> QED
    BY <1>4, <1>6, <1>7, <2>3, ObjectsRest
<1> QED
  BY <1>9, <1>10

LEMMA RecvHeaderKeeps ==
    ASSUME MemoryInv, NEW o \in Objs, NEW p \in Objs, MM!RecvHeader(o, p)
    PROVE  MemoryInv'
<1>1. PICK d : d = context.queue[1]
  OBVIOUS
<1>2. heap \in Heaps /\ context \in Contexts
  BY DEF MemoryInv, MemoryTypes
<1>3. PICK fn \in BOOLEAN : fn = (d.attr = "data")
  OBVIOUS
<1>4. PICK u : u = [kind |-> "header", hdr |-> d.hdr, arr |-> MM!Null, bufs |-> <<>>,
                    ownHdr |-> TRUE, own |-> FALSE, fn |-> FALSE, backing |-> MM!NoBacking]
  OBVIOUS
<1>5. PICK v : v = [kind |-> "buffer", hdr |-> MM!Null, arr |-> MM!Null, bufs |-> <<d.data>>,
                    ownHdr |-> FALSE, own |-> TRUE, fn |-> fn, backing |-> MM!NoBacking]
  OBVIOUS
<1>6. PICK w : w = IF d.attr = "rndv" THEN MM!NoObject ELSE v
  OBVIOUS
<1>7. /\ Waits /\ o # p /\ MM!Vacant(o) /\ MM!Vacant(p)
      /\ context' = [context EXCEPT !.queue = <<>>,
                       !.map = IF d.attr = "rndv" THEN @ \cup {d} ELSE @]
      /\ UNCHANGED <<heap, wrong, users, leaked, twice>>
  BY <1>1 DEF MM!RecvHeader, Waits
<1>8. objs' = [objs EXCEPT ![o] = u, ![p] = w]
  <2>1. u = MM!Wrapper("header", d.hdr, MM!Null, <<>>, TRUE, FALSE, FALSE)
    BY <1>4, Zenon DEF MM!Wrapper
  <2>2. v = MM!Wrapper("buffer", MM!Null, MM!Null, <<d.data>>, FALSE, TRUE, d.attr = "data")
    BY <1>3, <1>5, Zenon DEF MM!Wrapper
  <2>3. objs' = [objs EXCEPT
            ![o] = MM!Wrapper("header", d.hdr, MM!Null, <<>>, TRUE, FALSE, FALSE),
            ![p] = IF d.attr = "rndv" THEN MM!NoObject
                   ELSE MM!Wrapper("buffer", MM!Null, MM!Null, <<d.data>>, FALSE, TRUE,
                                   d.attr = "data")]
    BY <1>1, Zenon DEF MM!RecvHeader
  <2>4. objs' = [objs EXCEPT ![o] = u, ![p] = IF d.attr = "rndv" THEN MM!NoObject ELSE v]
    BY <2>1, <2>2, <2>3, Zenon
  <2> QED
    BY <1>6, <2>4, Zenon
<1>9. d \in Descriptors
  BY <1>1, <1>2, <1>7, ContextFields
<1>10. /\ d.hdr \in Blocks /\ d.data \in Blocks /\ d.attr \in {"copied", "data", "rndv"}
       /\ d.hdr \in Places /\ d.data \in Places
  BY <1>9 DEF Descriptors, Places
<1>11. /\ context' \in Contexts /\ context'.queue = <<>> /\ ~Waits'
       /\ d.attr = "rndv" => context'.map = context.map \cup {d}
       /\ d.attr # "rndv" => context'.map = context.map
  BY <1>2, <1>7, <1>9 DEF Contexts, Waits
<1>12. /\ DOMAIN objs' = Objs /\ objs'[o] = u /\ objs'[p] = w
       /\ \A y \in Objs : y # o /\ y # p => objs'[y] = objs[y]
  BY <1>7, <1>8 DEF MemoryInv, MemoryTypes
<1>13. /\ Object(u) /\ \A c : OnceIn(u, c)
       /\ \A c \in Blocks : (Claims(u, c) <=> c = d.hdr) /\ Knows(u, c, "mr")
  <2>1. PICK yes \in BOOLEAN : yes = TRUE
    OBVIOUS
  <2>2. u = [kind |-> "header", hdr |-> d.hdr, arr |-> MM!Null, bufs |-> <<>>,
             ownHdr |-> yes, own |-> FALSE, fn |-> FALSE, backing |-> MM!NoBacking]
    BY <1>4, <2>1, Zenon
  <2>3. PICK b \in Places : b = d.hdr
    BY <1>10
  <2>4. u = [kind |-> "header", hdr |-> b, arr |-> MM!Null, bufs |-> <<>>,
             ownHdr |-> yes, own |-> FALSE, fn |-> FALSE, backing |-> MM!NoBacking]
    BY <2>2, <2>3, Zenon
  <2>5. /\ Object(u) /\ \A c : OnceIn(u, c)
        /\ \A c \in Blocks : \A y : /\ Claims(u, c) <=> yes /\ c = b
                                    /\ Knows(u, c, y) <=> (yes /\ c = b => y = "mr")
    BY <2>4, HeaderMade
  <2> QED
    BY <2>1, <2>3, <2>5
<1>14. /\ Object(v) /\ \A c : OnceIn(v, c)
       /\ \A c \in Blocks : \A y : /\ Claims(v, c) <=> c = d.data
                                   /\ y = MM!Way(fn) => Knows(v, c, y)
  <2>1. PICK yes \in BOOLEAN : yes = TRUE
    OBVIOUS
  <2>2. PICK b \in Places : b = d.data
    BY <1>10
  <2>3. v = [kind |-> "buffer", hdr |-> MM!Null, arr |-> MM!Null, bufs |-> <<b>>,
             ownHdr |-> FALSE, own |-> yes, fn |-> fn, backing |-> MM!NoBacking]
    BY <1>5, <2>1, <2>2, Zenon
  <2>4. /\ Object(v) /\ \A c : OnceIn(v, c)
        /\ \A c \in Blocks : \A y : /\ Claims(v, c) <=> yes /\ c = b
                                    /\ Knows(v, c, y) <=> (yes /\ c = b => y = MM!Way(fn))
    BY <2>3, BufferMade
  <2> QED
    BY <2>1, <2>2, <2>4
<1>15. /\ Object(w) /\ \A c \in Blocks : OnceIn(w, c)
       /\ \A c \in Blocks : Claims(w, c) <=> d.attr # "rndv" /\ c = d.data
  <2>1. CASE d.attr = "rndv"
    <3>1. w = MM!NoObject
      BY <1>6, <2>1
    <3>2. Object(w) /\ w.kind = "none"
      BY <3>1 DEF Object, MM!NoObject
    <3>3. \A c \in Blocks : OnceIn(w, c) /\ ~Claims(w, c)
      BY <3>1, <3>2, NothingClaimed DEF OnceIn
    <3> QED
      BY <2>1, <3>2, <3>3
  <2>2. CASE d.attr # "rndv"
    <3>1. w = v
      BY <1>6, <2>2
    <3> QED
      BY <1>14, <2>2, <3>1
  <2> QED
    BY <2>1, <2>2
<1>16. MemoryTypes'
  BY <1>2, <1>7, <1>11, <1>12, <1>13, <1>15 DEF MemoryInv, MemoryTypes
<1>17. ASSUME NEW c \in Blocks \ twice
       PROVE  Spotted(c)' /\ \A y \in Objs : OnceIn(objs'[y], c)
  <2>1. Spotted(c) /\ \A y \in Objs : OnceIn(objs[y], c)
    BY DEF MemoryInv, Singly, Spotted
  <2>2. \A y \in Objs : OnceIn(objs'[y], c)
    BY <1>12, <1>13, <1>15, <2>1
  <2>3. ~Claims(objs[o], c) /\ ~Claims(objs[p], c)
    BY <1>7, NothingClaimed DEF MM!Vacant
  <2>4. /\ AtHdr(c) <=> d.hdr = c
        /\ AtData(c) <=> d.data = c
        /\ ~AtHdr(c)' /\ ~AtData(c)'
    BY <1>1, <1>7, <1>11 DEF AtHdr, AtData
  <2>5. \A e : e \in context'.map <=> e \in context.map \/ (d.attr = "rndv" /\ e = d)
    BY <1>11
  <2>6. CASE d.hdr = c
    <3>1. /\ c \notin users /\ c \notin leaked /\ c \notin wrong /\ Unclaimed(c)
          /\ d.data # c /\ (\A e : ~AtMap(e, c)) /\ heap[c] = "mr"
      BY <2>1, <2>4, <2>6, ByHdr
    <3>2. \A y \in Objs : Claims(objs'[y], c) <=> y = o
      BY <1>7, <1>12, <1>13, <1>15, <2>6, <3>1 DEF Unclaimed
    <3>3. Knows(objs'[o], c, heap'[c])
      BY <1>7, <1>12, <1>13, <3>1
    <3>4. Unlisted(c)'
      BY <1>7, <1>11, <2>5, <3>1 DEF Unlisted, AtMap
    <3>5. Live(c)'
      BY <1>7, <3>1 DEF Live
    <3> QED
      BY <1>7, <2>2, <3>1, <3>2, <3>3, <3>4, <3>5, ToObject
  <2>7. CASE d.data = c
    <3>1. /\ c \notin users /\ c \notin leaked /\ c \notin wrong /\ Unclaimed(c)
          /\ d.hdr # c /\ (\A e : ~AtMap(e, c)) /\ heap[c] = Tag(d.attr)
      BY <1>1, <2>1, <2>4, <2>7, ByData
    <3>2. CASE d.attr = "rndv"
      <4>1. Unclaimed(c)'
        BY <1>12, <1>13, <1>15, <3>1, <3>2 DEF Unclaimed
      <4>2. d \in context'.map /\ \A e \in context'.map : e.data = c <=> e = d
        BY <2>5, <2>7, <3>1, <3>2 DEF AtMap
      <4>3. heap'[c] = "ucx"
        BY <1>7, <3>1, <3>2 DEF Tag
      <4> QED
        BY <1>7, <2>2, <2>4, <3>1, <4>1, <4>2, <4>3, ToMap
    <3>3. CASE d.attr # "rndv"
      <4>1. \A y \in Objs : Claims(objs'[y], c) <=> y = p
        BY <1>7, <1>12, <1>13, <1>15, <2>7, <3>1, <3>3 DEF Unclaimed
      <4>2. MM!Way(fn) = Tag(d.attr)
        BY <1>3, <1>10, <3>3 DEF MM!Way, Tag
      <4>3. w = v
        BY <1>6, <3>3
      <4>4. Knows(objs'[p], c, heap'[c])
        BY <1>7, <1>12, <1>14, <3>1, <4>2, <4>3
      <4>5. Unlisted(c)'
        BY <1>7, <1>11, <2>5, <3>1, <3>3 DEF Unlisted, AtMap
      <4>6. Live(c)'
        BY <1>7, <3>1 DEF Live, Tag
      <4> QED
        BY <1>7, <2>2, <3>1, <4>1, <4>4, <4>5, <4>6, ToObject
    <3> QED
      BY <3>2, <3>3
  <2>8. CASE d.hdr # c /\ d.data # c
    <3>1. Same(c)
      BY <1>7 DEF Same
    <3>2. StillListed(c)
      BY <2>4, <2>5, <2>8 DEF StillListed
    <3>3. \A y \in Objs : /\ Claims(objs'[y], c) <=> Claims(objs[y], c)
                          /\ Claims(objs[y], c) /\ Knows(objs[y], c, heap[c]) =>
                               Knows(objs'[y], c, heap[c])
      BY <1>12, <1>13, <1>15, <2>3, <2>8
    <3> QED
      BY <2>1, <2>2, <3>1, <3>2, <3>3, StaysListed
  <2> QED
    BY <2>6, <2>7, <2>8
<1> QED
  BY <1>7, <1>16, <1>17 DEF MemoryInv, Singly, Spotted

-----------------------------------------------------------------------------
LEMMA MemoryInit == MM!MmInit => MemoryInv
<1> SUFFICES ASSUME MM!MmInit PROVE MemoryInv
  OBVIOUS
<1>1. /\ heap = [b \in Blocks |-> "unused"] /\ wrong = {}
      /\ objs = [o \in Objs |-> MM!NoObject] /\ users = {}
      /\ context = [queue |-> <<>>, map |-> {}, alive |-> TRUE]
      /\ leaked = {} /\ twice = {}
  BY DEF MM!MmInit
<1>2. context.queue = <<>> /\ context.map = {} /\ context \in Contexts /\ ~Waits
  BY <1>1 DEF Contexts, Waits
<1>3. heap \in Heaps /\ \A c \in Blocks : heap[c] = "unused"
  BY <1>1 DEF Heaps
<1>4. DOMAIN objs = Objs /\ \A o \in Objs : objs[o] = MM!NoObject
  BY <1>1
<1>5. MemoryTypes
  BY <1>2, <1>3, <1>4 DEF MemoryTypes, Object
<1>6. ASSUME NEW c \in Blocks
      PROVE  (\E k, x : Spot(c, k, x)) /\ \A o \in Objs : OnceIn(objs[o], c)
  <2>1. \A o \in Objs : ~Claims(objs[o], c)
    BY <1>4, NothingClaimed
  <2>2. \A o \in Objs : OnceIn(objs[o], c)
    BY <1>4 DEF OnceIn, MM!NoObject
  <2>3. Spot(c, "none", c)
    BY <1>1, <1>2, <1>3, <2>1 DEF Spot
  <2> QED
    BY <2>2, <2>3
<1> QED
  BY <1>5, <1>6 DEF MemoryInv, Singly

LEMMA MemoryNext ==
    ASSUME MemoryInv, [MM!MmNext]_memoryVars
    PROVE  MemoryInv'
<1>1. ASSUME NEW o \in Objs, MM!Construct(o) \/ MM!Destroy(o)
      PROVE  MemoryInv'
  BY <1>1, ConstructKeeps, DestroyKeeps
<1>2. ASSUME NEW o \in Objs, NEW b \in Blocks, NEW own \in BOOLEAN, MM!Adopt(o, b, own)
      PROVE  MemoryInv'
  BY <1>2, AdoptKeeps
<1>3. ASSUME NEW o \in Objs, NEW p \in Objs,
             \/ MM!MoveAssign(o, p)
             \/ MM!RecvHeader(o, p)
             \/ \E own \in BOOLEAN : MM!MoveConstruct(o, p, own)
             \/ \E n \in 1 .. MaxParts : MM!ToBufferVec(o, p, n)
      PROVE  MemoryInv'
  <2>1. \A n \in 1 .. MaxParts : n \in Nat
    OBVIOUS
  <2> QED
    BY <1>3, <2>1, MoveAssignKeeps, RecvHeaderKeeps, MoveConstructKeeps, ToBufferVecKeeps
<1>4. ASSUME NEW o \in Objs, NEW n \in 1 .. MaxParts, NEW several \in [1 .. n -> Objs],
             MM!FromBuffers(several, o) \/ MM!ExtractBuffers(o, several)
      PROVE  MemoryInv'
  <2>1. n \in Nat /\ n \in Nat \ {0}
    OBVIOUS
  <2> QED
    BY <1>4, <2>1, FromBuffersKeeps, ExtractBuffersKeeps
<1>5. ASSUME NEW b \in Blocks, MM!UserFrees(b) \/ MM!AmRecvCallbackNoMemory(b)
      PROVE  MemoryInv'
  BY <1>5, UserFreesKeeps, NoMemoryKeeps
<1>6. ASSUME NEW h \in Blocks, NEW b \in Blocks, NEW attr \in {"copied", "data", "rndv"},
             MM!AmRecvCallback(h, b, attr)
      PROVE  MemoryInv'
  BY <1>6, AmRecvCallbackKeeps
<1>7. CASE MM!RecvHeaderUnreachable
  BY <1>7, UnreachableKeeps
<1>8. ASSUME NEW d \in context.map,
             \/ \E connected \in BOOLEAN : MM!RecvBuffer(d, connected)
             \/ MM!CancelRecvBuffer(d)
      PROVE  MemoryInv'
  BY <1>8, RecvBufferKeeps, CancelRecvBufferKeeps
<1>9. CASE MM!DestroyContext
  BY <1>9, DestroyContextKeeps
<1>10. CASE UNCHANGED memoryVars
  <2>1. UNCHANGED <<heap, wrong, objs, users, context, leaked, twice>>
    BY <1>10 DEF memoryVars
  <2>2. heap' \in Heaps /\ context' \in Contexts
    BY <2>1 DEF MemoryInv, MemoryTypes
  <2>3. ASSUME NEW c \in Blocks \ twice'
        PROVE  Spotted(c)'
    <3>1. Spotted(c)
      BY <2>1 DEF MemoryInv, Singly, Spotted
    <3>2. Same(c)
      BY <2>1 DEF Same
    <3> QED
      BY <2>1, <3>1, <3>2, SameObjects, Stays
  <2> QED
    BY <2>1, <2>2, <2>3, ObjectsRest
<1> QED
  BY <1>1, <1>2, <1>3, <1>4, <1>5, <1>6, <1>7, <1>8, <1>9, <1>10 DEF MM!MmNext

\* The owners of a block that has a spot.
LEMMA SpotOwns ==
    ASSUME MemoryTypes, NEW c, NEW k, NEW x, Spot(c, k, x)
    PROVE  MM!Owners(c) = IF k = "none" THEN {}
                          ELSE IF k = "object" THEN {x}
                          ELSE IF k = "user" THEN {"user"}
                          ELSE IF k = "leaked" THEN {"nobody"}
                          ELSE {"context"}
<1>1. context \in Contexts
  BY DEF MemoryTypes
<1>2. PICK A : A = {o \in Objs : ~MM!Vacant(o) /\ c \in MM!Owned(objs[o])}
  OBVIOUS
<1>3. \A o : o \in A <=> k = "object" /\ x = o
  <2>1. \A o \in Objs : c \in MM!Owned(objs[o]) <=> Claims(objs[o], c)
    BY OwnedIsClaimed
  <2>2. \A o \in Objs : MM!Vacant(o) => ~Claims(objs[o], c)
    BY NothingClaimed DEF MM!Vacant
  <2>3. \A o \in Objs : o \in A <=> Claims(objs[o], c)
    BY <1>2, <2>1, <2>2
  <2>4. /\ \A o \in Objs : Claims(objs[o], c) <=> k = "object" /\ x = o
        /\ k = "object" => x \in Objs
    BY DEF Spot
  <2>5. A \subseteq Objs
    BY <1>2
  <2> QED
    BY <2>3, <2>4, <2>5
<1>4. MM!QueueHolds(c) <=> k \in {"hdr", "data"}
  <2>1. MM!QueueHolds(c) <=> AtHdr(c) \/ AtData(c)
    BY <1>1, ContextFields DEF MM!QueueHolds, AtHdr, AtData
  <2> QED
    BY <2>1 DEF Spot, AtHdr, AtData
<1>5. (\E d \in context.map : d.data = c) <=> k = "map"
  BY DEF Spot
<1>6. PICK B : B = IF c \in users THEN {"user"} ELSE {}
  OBVIOUS
<1>7. PICK C : C = IF MM!QueueHolds(c) \/ \E d \in context.map : d.data = c THEN {"context"} ELSE {}
  OBVIOUS
<1>8. PICK D : D = IF c \in leaked THEN {"nobody"} ELSE {}
  OBVIOUS
<1>9. MM!Owners(c) = A \cup B \cup C \cup D
  BY <1>2, <1>6, <1>7, <1>8, Zenon DEF MM!Owners
<1>10. /\ c \in users <=> k = "user"
       /\ c \in leaked <=> k = "leaked"
       /\ k \in {"object", "user", "leaked", "hdr", "data", "map", "none"}
  BY DEF Spot
<1>11. /\ k = "user" => B = {"user"}
       /\ k # "user" => B = {}
       /\ k \in {"hdr", "data", "map"} => C = {"context"}
       /\ k \notin {"hdr", "data", "map"} => C = {}
       /\ k = "leaked" => D = {"nobody"}
       /\ k # "leaked" => D = {}
       /\ k = "object" => A = {x}
       /\ k # "object" => A = {}
  BY <1>3, <1>4, <1>5, <1>6, <1>7, <1>8, <1>10
<1> QED
  BY <1>9, <1>10, <1>11

\* Blocks that no cancelled receive has released have one owner while they are
\* allocated, none before and after, and are freed once and in the right way,
\* however many objects and blocks there are (ucx_context_data.hpp).
THEOREM BlocksHaveOneOwner == PartsSpec => []OneOwner
<1>1. PartsInit => MemoryInv
  BY MemoryInit DEF PartsInit
<1>2. MemoryInv /\ [PartsNext]_partsVars => MemoryInv'
  BY MemoryMoves, MemoryNext
<1>3. MemoryInv => OneOwner
  <2> SUFFICES ASSUME MemoryInv, NEW c \in Blocks \ twice
               PROVE  /\ c \notin wrong
                      /\ MM!Cardinality(MM!Owners(c)) =
                           IF heap[c] \in {"mr", "ucx"} THEN 1 ELSE 0
    BY DEF OneOwner, MM!OneOwner
  <2>1. PICK k, x : Spot(c, k, x)
    BY DEF MemoryInv, Singly
  <2>2. PICK S : S = MM!Owners(c)
    OBVIOUS
  <2>3. MM!Cardinality(S) = Cardinality(S)
    BY Zenon DEF MM!Cardinality, Cardinality
  <2>4. MemoryTypes
    BY DEF MemoryInv
  <2>5. CASE k = "none"
    <3>1. S = {}
      BY <2>1, <2>2, <2>4, <2>5, SpotOwns
    <3>2. Cardinality(S) = 0
      BY <3>1, FS_EmptySet
    <3> QED
      BY <2>1, <2>2, <2>3, <2>5, <3>2 DEF Spot
  <2>6. CASE k # "none"
    <3>1. \E e : S = {e}
      BY <2>1, <2>2, <2>4, <2>6, SpotOwns
    <3>2. Cardinality(S) = 1
      BY <3>1, FS_Singleton
    <3> QED
      BY <2>1, <2>2, <2>3, <2>6, <3>2 DEF Spot
  <2> QED
    BY <2>5, <2>6
<1> QED
  BY <1>1, <1>2, <1>3, PTL DEF PartsSpec

-----------------------------------------------------------------------------
(* The queue, as one thread uses it.                                       *)

LEMMA QueueMoves ==
    [PartsNext]_partsVars => [LQ!QNext]_queueVars
BY DEF PartsNext, partsVars, Rest, queueVars

LEMMA QueueInit == LQ!QInit => QueueInv
<1> SUFFICES ASSUME LQ!QInit PROVE QueueInv
  OBVIOUS
<1>1. LQ!Dummy \in Nodes
  BY QueueAssumption DEF LQ!Dummy
<1>2. PICK d : d = LQ!Dummy
  OBVIOUS
<1>3. PICK node : node = [n \in Nodes |-> [alive |-> n = d, next |-> LQ!Null, value |-> 0]]
  OBVIOUS
<1>4. q = [head |-> d, tail |-> d, node |-> node]
  BY <1>2, <1>3 DEF LQ!QInit, LQ!NoNode
<1>5. node \in [Nodes -> NodeRecords]
  BY <1>3 DEF NodeRecords, Addresses
<1>6. q \in QueueRecords /\ q.head = d /\ q.tail = d /\ q.node = node
  BY <1>1, <1>2, <1>4, <1>5 DEF QueueRecords
<1>7. /\ thr \in [Threads -> ThreadRecords]
      /\ \A t \in Threads : thr[t].at = "idle" /\ thr[t].new = LQ!Null
  BY DEF LQ!QInit, LQ!Resting, Threads, ThreadRecords, Addresses
<1>8. PICK c : c = [i \in 0 .. 0 |-> d]
  OBVIOUS
<1>9. Strung(c, node, 0, 0)
  <2>1. 0 .. 0 = {0}
    OBVIOUS
  <2>2. c \in [0 .. 0 -> Nodes] /\ c[0] = d
    BY <1>1, <1>2, <1>8, <2>1
  <2>3. node[d].alive /\ node[d].next = LQ!Null
    BY <1>1, <1>2, <1>3
  <2> QED
    BY <2>1, <2>2, <2>3 DEF Strung
<1>10. c[0] = d
  BY <1>8
<1>11. \A t \in Threads : Local(thr[t], c, d, d, node, 0, 0)
  BY <1>7 DEF Local
<1>12. Counted(pushed, 0) /\ Counted(popped, 0)
  BY DEF LQ!QInit, Counted
<1>13. Queued(c, 0, 0)
  BY <1>6, <1>9, <1>10, <1>11, <1>12, QueueAssumption DEF Queued, Tailed
<1>14. ~touched
  BY DEF LQ!QInit
<1> QED
  BY <1>6, <1>7, <1>13, <1>14 DEF QueueInv

\* A step of the thread that leaves the queue alone.
LEMMA ThreadMoves ==
    ASSUME QueueInv, OneThread, NEW t \in Threads, NEW r \in ThreadRecords,
           thr' = [thr EXCEPT ![t] = r], UNCHANGED <<q, pushed, popped>>, ~touched',
           \A lo, hi, c : Queued(c, lo, hi) => Local(r, c, q.head, q.tail, q.node, lo, hi)
    PROVE  QueueInv'
<1>1. PICK lo, hi, c : Queued(c, lo, hi)
  BY DEF QueueInv
<1>2. thr' \in [Threads -> ThreadRecords] /\ thr'[t] = r
  BY DEF QueueInv
<1>3. \A u \in Threads : thr'[u] = r
  BY <1>2 DEF OneThread
<1>4. Local(r, c, q.head, q.tail, q.node, lo, hi)
  BY <1>1
<1>5. Queued(c, lo, hi)'
  BY <1>1, <1>3, <1>4 DEF Queued
<1>6. q' \in QueueRecords
  BY DEF QueueInv
<1> QED
  BY <1>1, <1>2, <1>5, <1>6 DEF QueueInv

\* head_ and tail_ point to nodes that are there.
LEMMA EndsAlive ==
    ASSUME QueueInv
    PROVE  /\ q.head \in Nodes /\ q.node[q.head].alive
           /\ q.tail \in Nodes /\ q.node[q.tail].alive
           /\ q.node \in [Nodes -> NodeRecords]
<1>1. PICK lo, hi, c : Queued(c, lo, hi)
  BY DEF QueueInv
<1>2. Strung(c, q.node, lo, hi) /\ q.head = c[lo] /\ Tailed(q.tail, c, lo, hi)
  BY <1>1 DEF Queued
<1>3. \A i \in lo .. hi : q.node[c[i]].alive
  BY <1>2 DEF Strung
<1>4. lo \in lo .. hi /\ hi \in lo .. hi /\ (lo < hi => hi - 1 \in lo .. hi)
  BY <1>1 DEF Queued
<1>5. q.node[q.head].alive /\ q.node[q.tail].alive
  BY <1>2, <1>3, <1>4 DEF Tailed
<1> QED
  BY <1>5 DEF QueueInv, QueueRecords

LEMMA NextTyped ==
    ASSUME QueueInv, NEW n \in Nodes
    PROVE  q.node[n].next \in Addresses
BY DEF QueueInv, QueueRecords, NodeRecords

\* A thread's record after a step.
LEMMA Stepped ==
    ASSUME QueueInv, NEW t \in Threads
    PROVE  /\ thr[t] \in ThreadRecords
           /\ DOMAIN thr = Threads
BY DEF QueueInv

LEMMA PushLoadTailKeeps ==
    ASSUME QueueInv, OneThread, NEW t \in Threads, LQ!PushLoadTail(t)
    PROVE  QueueInv'
<1>1. PICK s : s = thr[t]
  OBVIOUS
<1>2. s \in ThreadRecords /\ s.at = "loadTail"
  BY <1>1, Stepped DEF LQ!PushLoadTail
<1>3. PICK x : x = q.tail
  OBVIOUS
<1>4. PICK r : r = [s EXCEPT !.at = "loadNext", !.tail = x]
  OBVIOUS
<1>5. thr' = [thr EXCEPT ![t] = r]
  BY <1>1, <1>3, <1>4, Stepped DEF LQ!PushLoadTail
<1>6. x \in Addresses
  BY <1>3, EndsAlive DEF Addresses
<1>7. /\ r \in ThreadRecords /\ r.at = "loadNext" /\ r.tail = x /\ r.new = s.new
  BY <1>2, <1>4, <1>6 DEF ThreadRecords
<1>8. UNCHANGED <<q, pushed, popped>> /\ ~touched'
  BY DEF LQ!PushLoadTail, QueueInv
<1>9. ASSUME NEW lo, NEW hi, NEW c, Queued(c, lo, hi)
      PROVE  Local(r, c, q.head, q.tail, q.node, lo, hi)
  <2>1. Local(s, c, q.head, q.tail, q.node, lo, hi)
    BY <1>1, <1>9 DEF Queued
  <2> QED
    BY <1>2, <1>3, <1>7, <2>1 DEF Local
<1> QED
  BY <1>5, <1>7, <1>8, <1>9, ThreadMoves

LEMMA PushLoadNextKeeps ==
    ASSUME QueueInv, OneThread, NEW t \in Threads, LQ!PushLoadNext(t)
    PROVE  QueueInv'
<1>1. PICK s : s = thr[t]
  OBVIOUS
<1>2. s \in ThreadRecords /\ s.at = "loadNext"
  BY <1>1, Stepped DEF LQ!PushLoadNext
<1>3. s.tail = q.tail
  <2>1. PICK lo, hi, c : Queued(c, lo, hi)
    BY DEF QueueInv
  <2>2. Local(s, c, q.head, q.tail, q.node, lo, hi)
    BY <1>1, <2>1 DEF Queued
  <2> QED
    BY <1>2, <2>2 DEF Local
<1>4. PICK x : x = q.node[s.tail].next
  OBVIOUS
<1>5. PICK r : r = [s EXCEPT !.at = "checkTail", !.next = x]
  OBVIOUS
<1>6. thr' = [thr EXCEPT ![t] = r]
  BY <1>1, <1>4, <1>5, Stepped DEF LQ!PushLoadNext
<1>7. x \in Addresses
  BY <1>3, <1>4, EndsAlive, NextTyped
<1>8. r \in ThreadRecords /\ r.at = "checkTail" /\ r.tail = s.tail /\ r.new = s.new /\ r.next = x
  BY <1>2, <1>5, <1>7 DEF ThreadRecords
<1>9. UNCHANGED <<q, pushed, popped>> /\ touched' = ~q.node[s.tail].alive
  BY <1>1 DEF LQ!PushLoadNext, LQ!Touch
<1>10. ~touched'
  BY <1>3, <1>9, EndsAlive
<1>11. ASSUME NEW lo, NEW hi, NEW c, Queued(c, lo, hi)
       PROVE  Local(r, c, q.head, q.tail, q.node, lo, hi)
  <2>1. Local(s, c, q.head, q.tail, q.node, lo, hi)
    BY <1>1, <1>11 DEF Queued
  <2> QED
    BY <1>2, <1>3, <1>4, <1>8, <2>1 DEF Local
<1> QED
  BY <1>6, <1>8, <1>9, <1>10, <1>11, ThreadMoves

LEMMA PushCheckTailKeeps ==
    ASSUME QueueInv, OneThread, NEW t \in Threads, LQ!PushCheckTail(t)
    PROVE  QueueInv'
<1>1. PICK s : s = thr[t]
  OBVIOUS
<1>2. s \in ThreadRecords /\ s.at = "checkTail"
  BY <1>1, Stepped DEF LQ!PushCheckTail
<1>3. PICK x : x = IF s.tail # q.tail THEN "loadTail"
                   ELSE IF s.next = LQ!Null THEN "link" ELSE "help"
  OBVIOUS
<1>4. PICK r : r = [s EXCEPT !.at = x]
  OBVIOUS
<1>5. thr' = [thr EXCEPT ![t] = r]
  BY <1>1, <1>3, <1>4, Stepped DEF LQ!PushCheckTail, LQ!Goto
<1>6. x \in {"loadTail", "link", "help"}
  BY <1>3
<1>7. r \in ThreadRecords /\ r.at = x /\ r.tail = s.tail /\ r.new = s.new /\ r.next = s.next
  BY <1>2, <1>4, <1>6 DEF ThreadRecords
<1>8. UNCHANGED <<q, pushed, popped>> /\ ~touched'
  BY DEF LQ!PushCheckTail, QueueInv
<1>9. ASSUME NEW lo, NEW hi, NEW c, Queued(c, lo, hi)
      PROVE  Local(r, c, q.head, q.tail, q.node, lo, hi)
  <2>1. Local(s, c, q.head, q.tail, q.node, lo, hi)
    BY <1>1, <1>9 DEF Queued
  <2> QED
    BY <1>2, <1>3, <1>7, <2>1 DEF Local
<1> QED
  BY <1>5, <1>7, <1>8, <1>9, ThreadMoves

LEMMA PopLoadHeadKeeps ==
    ASSUME QueueInv, OneThread, NEW t \in Threads, LQ!PopLoadHead(t)
    PROVE  QueueInv'
<1>1. PICK s : s = thr[t]
  OBVIOUS
<1>2. s \in ThreadRecords /\ s.at = "idle"
  BY <1>1, Stepped DEF LQ!PopLoadHead
<1>3. PICK x : x = q.head
  OBVIOUS
<1>4. PICK r : r = [s EXCEPT !.at = "popTail", !.head = x]
  OBVIOUS
<1>5. thr' = [thr EXCEPT ![t] = r]
  BY <1>1, <1>3, <1>4, Stepped DEF LQ!PopLoadHead
<1>6. x \in Addresses
  BY <1>3, EndsAlive DEF Addresses
<1>7. r \in ThreadRecords /\ r.at = "popTail" /\ r.head = x /\ r.new = s.new
  BY <1>2, <1>4, <1>6 DEF ThreadRecords
<1>8. UNCHANGED <<q, pushed, popped>> /\ ~touched'
  BY DEF LQ!PopLoadHead, QueueInv
<1>9. ASSUME NEW lo, NEW hi, NEW c, Queued(c, lo, hi)
      PROVE  Local(r, c, q.head, q.tail, q.node, lo, hi)
  <2>1. Local(s, c, q.head, q.tail, q.node, lo, hi)
    BY <1>1, <1>9 DEF Queued
  <2> QED
    BY <1>2, <1>3, <1>7, <2>1 DEF Local
<1> QED
  BY <1>5, <1>7, <1>8, <1>9, ThreadMoves

LEMMA PopLoadTailKeeps ==
    ASSUME QueueInv, OneThread, NEW t \in Threads, LQ!PopLoadTail(t)
    PROVE  QueueInv'
<1>1. PICK s : s = thr[t]
  OBVIOUS
<1>2. s \in ThreadRecords /\ s.at = "popTail"
  BY <1>1, Stepped DEF LQ!PopLoadTail
<1>3. PICK x : x = q.tail
  OBVIOUS
<1>4. PICK r : r = [s EXCEPT !.at = "popNext", !.tail = x]
  OBVIOUS
<1>5. thr' = [thr EXCEPT ![t] = r]
  BY <1>1, <1>3, <1>4, Stepped DEF LQ!PopLoadTail
<1>6. x \in Addresses
  BY <1>3, EndsAlive DEF Addresses
<1>7. r \in ThreadRecords /\ r.at = "popNext" /\ r.head = s.head /\ r.tail = x /\ r.new = s.new
  BY <1>2, <1>4, <1>6 DEF ThreadRecords
<1>8. UNCHANGED <<q, pushed, popped>> /\ ~touched'
  BY DEF LQ!PopLoadTail, QueueInv
<1>9. ASSUME NEW lo, NEW hi, NEW c, Queued(c, lo, hi)
      PROVE  Local(r, c, q.head, q.tail, q.node, lo, hi)
  <2>1. Local(s, c, q.head, q.tail, q.node, lo, hi)
    BY <1>1, <1>9 DEF Queued
  <2> QED
    BY <1>2, <1>3, <1>7, <2>1 DEF Local
<1> QED
  BY <1>5, <1>7, <1>8, <1>9, ThreadMoves

LEMMA PopLoadNextKeeps ==
    ASSUME QueueInv, OneThread, NEW t \in Threads, LQ!PopLoadNext(t)
    PROVE  QueueInv'
<1>1. PICK s : s = thr[t]
  OBVIOUS
<1>2. s \in ThreadRecords /\ s.at = "popNext"
  BY <1>1, Stepped DEF LQ!PopLoadNext
<1>3. s.head = q.head
  <2>1. PICK lo, hi, c : Queued(c, lo, hi)
    BY DEF QueueInv
  <2>2. Local(s, c, q.head, q.tail, q.node, lo, hi)
    BY <1>1, <2>1 DEF Queued
  <2> QED
    BY <1>2, <2>2 DEF Local
<1>4. PICK x : x = q.node[s.head].next
  OBVIOUS
<1>5. PICK r : r = [s EXCEPT !.at = "popCheck", !.next = x]
  OBVIOUS
<1>6. thr' = [thr EXCEPT ![t] = r]
  BY <1>1, <1>4, <1>5, Stepped DEF LQ!PopLoadNext
<1>7. x \in Addresses
  BY <1>3, <1>4, EndsAlive, NextTyped
<1>8. /\ r \in ThreadRecords /\ r.at = "popCheck" /\ r.head = s.head /\ r.tail = s.tail
      /\ r.new = s.new /\ r.next = x
  BY <1>2, <1>5, <1>7 DEF ThreadRecords
<1>9. UNCHANGED <<q, pushed, popped>> /\ touched' = ~q.node[s.head].alive
  BY <1>1 DEF LQ!PopLoadNext, LQ!Touch
<1>10. ~touched'
  BY <1>3, <1>9, EndsAlive
<1>11. ASSUME NEW lo, NEW hi, NEW c, Queued(c, lo, hi)
       PROVE  Local(r, c, q.head, q.tail, q.node, lo, hi)
  <2>1. Local(s, c, q.head, q.tail, q.node, lo, hi)
    BY <1>1, <1>11 DEF Queued
  <2> QED
    BY <1>2, <1>3, <1>4, <1>8, <2>1 DEF Local
<1> QED
  BY <1>6, <1>8, <1>9, <1>10, <1>11, ThreadMoves

LEMMA PopCheckKeeps ==
    ASSUME QueueInv, OneThread, NEW t \in Threads, LQ!PopCheck(t)
    PROVE  QueueInv'
<1>1. PICK s : s = thr[t]
  OBVIOUS
<1>2. s \in ThreadRecords /\ s.at = "popCheck"
  BY <1>1, Stepped DEF LQ!PopCheck
<1>3. PICK x : x = IF s.head # q.head THEN "idle"
                   ELSE IF s.head # s.tail THEN "popSwap"
                   ELSE IF s.next = LQ!Null THEN "idle" ELSE "popHelp"
  OBVIOUS
<1>4. PICK r : r = [s EXCEPT !.at = x]
  OBVIOUS
<1>5. thr' = [thr EXCEPT ![t] = r]
  BY <1>1, <1>3, <1>4, Stepped DEF LQ!PopCheck, LQ!Goto
<1>6. x \in {"idle", "popSwap", "popHelp"}
  BY <1>3
<1>7. /\ r \in ThreadRecords /\ r.at = x /\ r.head = s.head /\ r.tail = s.tail
      /\ r.new = s.new /\ r.next = s.next
  BY <1>2, <1>4, <1>6 DEF ThreadRecords
<1>8. UNCHANGED <<q, pushed, popped>> /\ ~touched'
  BY DEF LQ!PopCheck, QueueInv
<1>9. ASSUME NEW lo, NEW hi, NEW c, Queued(c, lo, hi)
      PROVE  Local(r, c, q.head, q.tail, q.node, lo, hi)
  <2>1. Local(s, c, q.head, q.tail, q.node, lo, hi)
    BY <1>1, <1>9 DEF Queued
  <2> QED
    BY <1>2, <1>3, <1>7, <2>1 DEF Local
<1> QED
  BY <1>5, <1>7, <1>8, <1>9, ThreadMoves

-----------------------------------------------------------------------------
\* The chain does not go back on itself.
LEMMA NextIs ==
    ASSUME NEW c, NEW node, NEW lo \in Nat, NEW hi \in Nat, lo <= hi, Strung(c, node, lo, hi),
           NEW i \in lo .. hi
    PROVE  /\ c[i] \in Nodes /\ c[i] # LQ!Null
           /\ node[c[i]].next = LQ!Null => i = hi
           /\ i < hi => node[c[i]].next = c[i + 1]
<1>1. c \in [lo .. hi -> Nodes]
  BY DEF Strung
<1>2. LQ!Null \notin Nodes
  BY QueueAssumption DEF LQ!Null
<1>3. i < hi => node[c[i]].next = c[i + 1] /\ i + 1 \in lo .. hi
  BY DEF Strung
<1> QED
  BY <1>1, <1>2, <1>3

\* A step that moves tail_ to the end of the chain, or nothing.
LEMMA TailMoves ==
    ASSUME QueueInv, OneThread, NEW t \in Threads, NEW r \in ThreadRecords,
           thr' = [thr EXCEPT ![t] = r], UNCHANGED <<pushed, popped>>, ~touched',
           NEW expected, NEW to, LQ!SwingTail(expected, to) \/ UNCHANGED q,
           r.at \in {"idle", "loadTail"},
           \A lo, hi, c : Queued(c, lo, hi) =>
             /\ to = c[hi]
             /\ r.at = "idle" => r.new = LQ!Null
             /\ r.at = "loadTail" => Fresh(r.new, c, q.node, lo, hi)
    PROVE  QueueInv'
<1>1. PICK lo, hi, c : Queued(c, lo, hi)
  BY DEF QueueInv
<1>2. thr' \in [Threads -> ThreadRecords] /\ thr'[t] = r
  BY DEF QueueInv
<1>3. \A u \in Threads : thr'[u] = r
  BY <1>2 DEF OneThread
<1>4. /\ to = c[hi]
      /\ r.at = "idle" => r.new = LQ!Null
      /\ r.at = "loadTail" => Fresh(r.new, c, q.node, lo, hi)
  BY <1>1
<1>5. to \in Nodes
  <2>1. lo \in Nat /\ hi \in Nat /\ lo <= hi /\ c \in [lo .. hi -> Nodes]
    BY <1>1 DEF Queued, Strung
  <2> QED
    BY <1>4, <2>1
<1>6. /\ q' \in QueueRecords /\ q'.head = q.head /\ q'.node = q.node
      /\ q'.tail = q.tail \/ q'.tail = to
  <2>1. CASE UNCHANGED q
    BY <2>1 DEF QueueInv
  <2>2. CASE LQ!SwingTail(expected, to)
    <3>1. CASE q.tail = expected
      <4>1. q' = [q EXCEPT !.tail = to]
        BY <2>2, <3>1 DEF LQ!SwingTail
      <4> QED
        BY <1>5, <4>1 DEF QueueInv, QueueRecords
    <3>2. CASE q.tail # expected
      BY <2>2, <3>2 DEF LQ!SwingTail, QueueInv
    <3> QED
      BY <3>1, <3>2
  <2> QED
    BY <2>1, <2>2
<1>7. Tailed(q'.tail, c, lo, hi)
  BY <1>1, <1>4, <1>6 DEF Queued, Tailed
<1>8. Local(r, c, q'.head, q'.tail, q'.node, lo, hi)
  BY <1>4, <1>6 DEF Local
<1>9. Queued(c, lo, hi)'
  BY <1>1, <1>3, <1>6, <1>7, <1>8 DEF Queued
<1> QED
  BY <1>2, <1>6, <1>9 DEF QueueInv

LEMMA PushHelpKeeps ==
    ASSUME QueueInv, OneThread, NEW t \in Threads, LQ!PushHelp(t)
    PROVE  QueueInv'
<1>1. PICK s : s = thr[t]
  OBVIOUS
<1>2. s \in ThreadRecords /\ s.at = "help"
  BY <1>1, Stepped DEF LQ!PushHelp
<1>3. PICK r : r = [s EXCEPT !.at = "loadTail"]
  OBVIOUS
<1>4. thr' = [thr EXCEPT ![t] = r]
  BY <1>1, <1>3, Stepped DEF LQ!PushHelp, LQ!Goto
<1>5. r \in ThreadRecords /\ r.at = "loadTail" /\ r.new = s.new
  BY <1>2, <1>3 DEF ThreadRecords
<1>6. PICK expected, to : expected = s.tail /\ to = s.next
  OBVIOUS
<1>7. /\ LQ!SwingTail(expected, to) \/ UNCHANGED q
      /\ UNCHANGED <<pushed, popped>> /\ ~touched'
  BY <1>1, <1>6 DEF LQ!PushHelp, QueueInv
<1>8. ASSUME NEW lo, NEW hi, NEW c, Queued(c, lo, hi)
      PROVE  to = c[hi] /\ Fresh(r.new, c, q.node, lo, hi)
  <2>1. Local(s, c, q.head, q.tail, q.node, lo, hi) /\ Tailed(q.tail, c, lo, hi)
    BY <1>1, <1>8 DEF Queued
  <2>2. s.next = q.node[q.tail].next /\ s.next # LQ!Null /\ Fresh(s.new, c, q.node, lo, hi)
    BY <1>2, <2>1 DEF Local
  <2>3. lo \in Nat /\ hi \in Nat /\ lo <= hi /\ Strung(c, q.node, lo, hi)
    BY <1>8 DEF Queued
  <2>4. q.tail # c[hi]
    BY <2>2, <2>3 DEF Strung
  <2>5. lo < hi /\ q.tail = c[hi - 1]
    BY <2>1, <2>4 DEF Tailed
  <2>6. q.node[c[hi - 1]].next = c[hi]
    <3>1. hi - 1 \in lo .. hi /\ hi - 1 < hi /\ (hi - 1) + 1 = hi
      BY <2>3, <2>5
    <3> QED
      BY <2>3, <3>1 DEF Strung
  <2> QED
    BY <1>5, <1>6, <2>2, <2>5, <2>6
<1> QED
  BY <1>4, <1>5, <1>7, <1>8, TailMoves, ZenonT(20)

LEMMA PopHelpKeeps ==
    ASSUME QueueInv, OneThread, NEW t \in Threads, LQ!PopHelp(t)
    PROVE  QueueInv'
<1>1. PICK s : s = thr[t]
  OBVIOUS
<1>2. s \in ThreadRecords /\ s.at = "popHelp"
  BY <1>1, Stepped DEF LQ!PopHelp
<1>3. PICK r : r = [s EXCEPT !.at = "idle"]
  OBVIOUS
<1>4. thr' = [thr EXCEPT ![t] = r]
  BY <1>1, <1>3, Stepped DEF LQ!PopHelp, LQ!Goto
<1>5. r \in ThreadRecords /\ r.at = "idle" /\ r.new = s.new
  BY <1>2, <1>3 DEF ThreadRecords
<1>6. PICK expected, to : expected = s.tail /\ to = s.next
  OBVIOUS
<1>7. /\ LQ!SwingTail(expected, to) \/ UNCHANGED q
      /\ UNCHANGED <<pushed, popped>> /\ ~touched'
  BY <1>1, <1>6 DEF LQ!PopHelp, QueueInv
<1>8. ASSUME NEW lo, NEW hi, NEW c, Queued(c, lo, hi)
      PROVE  to = c[hi] /\ r.new = LQ!Null
  <2>1. Local(s, c, q.head, q.tail, q.node, lo, hi) /\ Tailed(q.tail, c, lo, hi)
    BY <1>1, <1>8 DEF Queued
  <2>2. s.next = q.node[q.tail].next /\ s.next # LQ!Null /\ s.new = LQ!Null
    BY <1>2, <2>1 DEF Local
  <2>3. lo \in Nat /\ hi \in Nat /\ lo <= hi /\ Strung(c, q.node, lo, hi)
    BY <1>8 DEF Queued
  <2>4. q.tail # c[hi]
    BY <2>2, <2>3 DEF Strung
  <2>5. lo < hi /\ q.tail = c[hi - 1]
    BY <2>1, <2>4 DEF Tailed
  <2>6. q.node[c[hi - 1]].next = c[hi]
    <3>1. hi - 1 \in lo .. hi /\ hi - 1 < hi /\ (hi - 1) + 1 = hi
      BY <2>3, <2>5
    <3> QED
      BY <2>3, <3>1 DEF Strung
  <2> QED
    BY <1>5, <1>6, <2>2, <2>5, <2>6
<1> QED
  BY <1>4, <1>5, <1>7, <1>8, TailMoves, ZenonT(20)

LEMMA Rested ==
    LQ!Resting \in ThreadRecords /\ LQ!Resting.at = "idle" /\ LQ!Resting.new = LQ!Null
BY DEF LQ!Resting, ThreadRecords, Addresses

LEMMA PushSwingKeeps ==
    ASSUME QueueInv, OneThread, NEW t \in Threads, LQ!PushSwing(t)
    PROVE  QueueInv'
<1>1. PICK s : s = thr[t]
  OBVIOUS
<1>2. s \in ThreadRecords /\ s.at = "swing"
  BY <1>1, Stepped DEF LQ!PushSwing
<1>3. PICK r : r = LQ!Resting
  OBVIOUS
<1>4. thr' = [thr EXCEPT ![t] = r]
  BY <1>3 DEF LQ!PushSwing
<1>5. r \in ThreadRecords /\ r.at = "idle" /\ r.new = LQ!Null
  BY <1>3, Rested
<1>6. PICK expected, to : expected = s.tail /\ to = s.new
  OBVIOUS
<1>7. /\ LQ!SwingTail(expected, to) \/ UNCHANGED q
      /\ UNCHANGED <<pushed, popped>> /\ ~touched'
  BY <1>1, <1>6 DEF LQ!PushSwing, QueueInv
<1>8. ASSUME NEW lo, NEW hi, NEW c, Queued(c, lo, hi)
      PROVE  to = c[hi]
  <2>1. Local(s, c, q.head, q.tail, q.node, lo, hi)
    BY <1>1, <1>8 DEF Queued
  <2> QED
    BY <1>2, <1>6, <2>1 DEF Local
<1> QED
  BY <1>4, <1>5, <1>7, <1>8, TailMoves

\* The value of a new node is the next that was not pushed.
LEMMA NextValue ==
    ASSUME QueueInv, OneThread, NEW t \in Pushers, thr[t].at = "idle", NEW v \in 1 .. MaxPushes,
           \A w \in 1 .. MaxPushes :
             w < v <=> \/ \E i \in DOMAIN pushed : pushed[i] = w
                       \/ \E u \in Pushers : thr[u].new # LQ!Null
                            /\ q.node[thr[u].new].value = w,
           NEW lo, NEW hi, NEW c, Queued(c, lo, hi)
    PROVE  v = hi + 1 /\ hi < MaxPushes
<1>1. t \in Threads /\ Local(thr[t], c, q.head, q.tail, q.node, lo, hi)
  BY DEF Threads, Queued
<1>2. thr[t].new = LQ!Null
  BY <1>1 DEF Local
<1>3. \A u \in Pushers : thr[u].new = LQ!Null
  BY <1>1, <1>2 DEF OneThread, Threads
<1>4. \A w \in 1 .. MaxPushes : w < v <=> \E i \in DOMAIN pushed : pushed[i] = w
  BY <1>3
<1>5. DOMAIN pushed = 1 .. hi /\ \A i \in 1 .. hi : pushed[i] = i
  BY DEF Queued, Counted
<1>6. hi \in Nat /\ hi <= MaxPushes /\ MaxPushes \in Nat
  BY QueueAssumption DEF Queued
<1>7. \A w \in 1 .. MaxPushes : w < v <=> w <= hi
  BY <1>4, <1>5, <1>6
<1> QED
  <2>1. ~ v <= hi
    BY <1>6, <1>7
  <2>2. hi + 1 \in 1 .. MaxPushes
    BY <1>6, <2>1
  <2> QED
    BY <1>6, <1>7, <2>1, <2>2

\* Nodes that are not in the chain may change.
LEMMA StrungKept ==
    ASSUME NEW c, NEW node, NEW to, NEW lo \in Nat, NEW hi \in Nat, lo <= hi,
           Strung(c, node, lo, hi), \A i \in lo .. hi : to[c[i]] = node[c[i]]
    PROVE  Strung(c, to, lo, hi)
<1>1. hi \in lo .. hi
  OBVIOUS
<1> QED
  BY <1>1 DEF Strung

LEMMA PushNewKeeps ==
    ASSUME QueueInv, OneThread, NEW t \in Threads, NEW n \in Nodes, NEW v \in Nat,
           LQ!PushNew(t, n, v),
           \A lo, hi, c : Queued(c, lo, hi) => v = hi + 1 /\ hi < MaxPushes
    PROVE  QueueInv'
<1>1. PICK s : s = thr[t]
  OBVIOUS
<1>2. s \in ThreadRecords /\ s.at = "idle"
  BY <1>1, Stepped DEF LQ!PushNew
<1>3. PICK r : r = [s EXCEPT !.at = "loadTail", !.new = n]
  OBVIOUS
<1>4. thr' = [thr EXCEPT ![t] = r]
  BY <1>1, <1>3, Stepped DEF LQ!PushNew
<1>5. r \in ThreadRecords /\ r.at = "loadTail" /\ r.new = n
  BY <1>2, <1>3 DEF ThreadRecords, Addresses
<1>6. PICK lo, hi, c : Queued(c, lo, hi)
  BY DEF QueueInv
<1>7. thr' \in [Threads -> ThreadRecords] /\ thr'[t] = r
  BY <1>4, <1>5 DEF QueueInv
<1>8. \A u \in Threads : thr'[u] = r
  BY <1>7 DEF OneThread
<1>9. v = hi + 1 /\ hi < MaxPushes
  BY <1>6
<1>10. PICK m : m = [alive |-> TRUE, next |-> LQ!Null, value |-> v]
  OBVIOUS
<1>11. m \in NodeRecords /\ m.alive /\ m.next = LQ!Null /\ m.value = v
  BY <1>10 DEF NodeRecords, Addresses
<1>12. q' = [q EXCEPT !.node[n] = m]
  BY <1>10 DEF LQ!PushNew
<1>13. q \in QueueRecords /\ q.node \in [Nodes -> NodeRecords]
  BY DEF QueueInv, QueueRecords
<1>14. q'.head = q.head /\ q'.tail = q.tail /\ q'.node = [q.node EXCEPT ![n] = m]
  BY <1>12, <1>13 DEF QueueRecords
<1>15. q'.node \in [Nodes -> NodeRecords] /\ q'.node[n] = m
       /\ \A k \in Nodes : k # n => q'.node[k] = q.node[k]
  BY <1>11, <1>13, <1>14
<1>16. q' \in QueueRecords
  BY <1>12, <1>11, <1>13 DEF QueueRecords
<1>17. lo \in Nat /\ hi \in Nat /\ lo <= hi /\ Strung(c, q.node, lo, hi) /\ c \in [lo .. hi -> Nodes]
  BY <1>6 DEF Queued, Strung
<1>18. \A i \in lo .. hi : c[i] # n /\ c[i] \in Nodes
  <2>1. ~q.node[n].alive
    BY DEF LQ!PushNew
  <2>2. \A i \in lo .. hi : q.node[c[i]].alive
    BY <1>17 DEF Strung
  <2> QED
    BY <1>17, <2>1, <2>2
<1>19. PICK head, tail, node : head = q'.head /\ tail = q'.tail /\ node = q'.node
  OBVIOUS
<1>20. Strung(c, node, lo, hi)
  BY <1>15, <1>17, <1>18, <1>19, StrungKept
<1>21. Fresh(n, c, node, lo, hi)
  BY <1>9, <1>11, <1>15, <1>18, <1>19 DEF Fresh
<1>22. Local(r, c, head, tail, node, lo, hi)
  BY <1>5, <1>21 DEF Local
<1>23. Tailed(tail, c, lo, hi) /\ head = c[lo]
  BY <1>6, <1>14, <1>19 DEF Queued
<1>24. UNCHANGED <<pushed, popped, touched>>
  BY DEF LQ!PushNew
<1>25. Queued(c, lo, hi)'
  BY <1>6, <1>8, <1>19, <1>20, <1>22, <1>23, <1>24 DEF Queued
<1> QED
  BY <1>7, <1>16, <1>24, <1>25 DEF QueueInv

LEMMA CountedOn ==
    ASSUME NEW s, NEW n \in Nat, Counted(s, n)
    PROVE  Counted(Append(s, n + 1), n + 1)
BY DEF Counted

\* The end of the chain is linked to a new node.
LEMMA StrungOn ==
    ASSUME NEW c, NEW node, NEW to, NEW lo \in Nat, NEW hi \in Nat, lo <= hi,
           Strung(c, node, lo, hi), NEW n, Fresh(n, c, node, lo, hi),
           SameBut(to, node, c[hi]), Linked(to, node, c[hi], n)
    PROVE  /\ Strung(Longer(c, n, lo, hi), to, lo, hi + 1)
           /\ Longer(c, n, lo, hi)[hi + 1] = n /\ Longer(c, n, lo, hi)[hi] = c[hi]
           /\ Longer(c, n, lo, hi)[lo] = c[lo]
<1>d. PICK d : d = Longer(c, n, lo, hi)
  OBVIOUS
<1>1. c \in [lo .. hi -> Nodes] /\ n \in Nodes /\ n # c[hi]
  BY DEF Strung, Fresh
<1>2. /\ d \in [lo .. hi + 1 -> Nodes] /\ d[hi + 1] = n
      /\ \A i \in lo .. hi : d[i] = c[i] /\ i \in lo .. hi + 1 /\ i # hi + 1
      /\ \A i \in lo .. hi + 1 : i = hi + 1 \/ i \in lo .. hi
  BY <1>1, <1>d DEF Longer
<1>3. \A i, j \in lo .. hi + 1 : d[i] = d[j] => i = j
  BY <1>2 DEF Strung, Fresh
<1>4. \A i \in lo .. hi : i # hi => to[c[i]] = node[c[i]]
  BY <1>1 DEF Strung, SameBut
<1>5. to[n] = node[n]
  BY <1>1 DEF SameBut
<1>6. ASSUME NEW i \in lo .. hi + 1
      PROVE  to[d[i]].alive /\ (i > lo => to[d[i]].value = i)
  <2>1. CASE i = hi + 1
    BY <1>2, <1>5, <2>1 DEF Fresh
  <2>2. CASE i = hi
    BY <1>2, <2>2 DEF Strung, Linked
  <2>3. CASE i \in lo .. hi /\ i # hi
    BY <1>2, <1>4, <2>3 DEF Strung
  <2> QED
    BY <1>2, <2>1, <2>2, <2>3
<1>7. ASSUME NEW i \in lo .. hi + 1, i < hi + 1
      PROVE  to[d[i]].next = d[i + 1]
  <2>1. CASE i = hi
    BY <1>2, <2>1 DEF Linked
  <2>2. CASE i # hi
    <3>1. i \in lo .. hi /\ i + 1 \in lo .. hi /\ i < hi
      BY <1>7, <2>2
    <3> QED
      BY <1>2, <1>4, <3>1 DEF Strung
  <2> QED
    BY <2>1, <2>2
<1>8. to[d[hi + 1]].next = LQ!Null
  BY <1>2, <1>5 DEF Fresh
<1>9. Strung(d, to, lo, hi + 1)
  BY <1>2, <1>3, <1>6, <1>7, <1>8 DEF Strung
<1>10. hi \in lo .. hi /\ lo \in lo .. hi
  OBVIOUS
<1> QED
  BY <1>2, <1>9, <1>10, <1>d

LEMMA PushLinkFails ==
    ASSUME QueueInv, OneThread, NEW t \in Threads, thr[t].at = "link",
           LQ!Goto(t, "loadTail"), UNCHANGED <<q, pushed, popped>>, ~touched'
    PROVE  QueueInv'
<1>1. PICK s : s = thr[t]
  OBVIOUS
<1>2. s \in ThreadRecords /\ s.at = "link"
  BY <1>1, Stepped
<1>3. PICK r : r = [s EXCEPT !.at = "loadTail"]
  OBVIOUS
<1>4. thr' = [thr EXCEPT ![t] = r]
  BY <1>1, <1>3, Stepped DEF LQ!Goto
<1>5. r \in ThreadRecords /\ r.at = "loadTail" /\ r.new = s.new
  BY <1>2, <1>3 DEF ThreadRecords
<1>6. ASSUME NEW lo, NEW hi, NEW c, Queued(c, lo, hi)
      PROVE  Local(r, c, q.head, q.tail, q.node, lo, hi)
  <2>1. Local(s, c, q.head, q.tail, q.node, lo, hi)
    BY <1>1, <1>6 DEF Queued
  <2> QED
    BY <1>2, <1>5, <2>1 DEF Local
<1> QED
  BY <1>4, <1>5, <1>6, ThreadMoves

LEMMA PushLinkWorks ==
    ASSUME QueueInv, OneThread, NEW t \in Threads, thr[t].at = "link",
           q.node[thr[t].tail].next = LQ!Null,
           q' = [q EXCEPT !.node[thr[t].tail].next = thr[t].new],
           pushed' = Append(pushed, q.node[thr[t].new].value),
           LQ!Goto(t, "swing"), UNCHANGED popped, ~touched'
    PROVE  QueueInv'
<1>1. PICK s : s = thr[t]
  OBVIOUS
<1>2. s \in ThreadRecords /\ s.at = "link"
  BY <1>1, Stepped
<1>3. PICK r : r = [s EXCEPT !.at = "swing"]
  OBVIOUS
<1>4. thr' = [thr EXCEPT ![t] = r]
  BY <1>1, <1>3, Stepped DEF LQ!Goto
<1>5. r \in ThreadRecords /\ r.at = "swing" /\ r.new = s.new /\ r.tail = s.tail
  BY <1>2, <1>3 DEF ThreadRecords
<1>6. PICK lo, hi, c : Queued(c, lo, hi)
  BY DEF QueueInv
<1>7. thr' \in [Threads -> ThreadRecords] /\ \A u \in Threads : thr'[u] = r
  BY <1>4, <1>5 DEF QueueInv, OneThread
<1>8. Local(s, c, q.head, q.tail, q.node, lo, hi)
  BY <1>1, <1>6 DEF Queued
<1>9. Fresh(s.new, c, q.node, lo, hi) /\ s.tail = q.tail
  BY <1>2, <1>8 DEF Local
<1>10. lo \in Nat /\ hi \in Nat /\ lo <= hi /\ Strung(c, q.node, lo, hi) /\ Tailed(q.tail, c, lo, hi)
  BY <1>6 DEF Queued
<1>11. q.tail = c[hi]
  <2>1. q.node[q.tail].next = LQ!Null
    BY <1>1, <1>9
  <2>2. CASE lo < hi /\ q.tail = c[hi - 1]
    <3>1. hi - 1 \in lo .. hi /\ hi - 1 # hi
      BY <1>10, <2>2
    <3> QED
      BY <1>10, <2>1, <2>2, <3>1, NextIs
  <2> QED
    BY <1>10, <2>2 DEF Tailed
<1>12. PICK x, n, node : x = q.tail /\ n = s.new /\ node = q.node
  OBVIOUS
<1>13. x \in Nodes /\ node \in [Nodes -> NodeRecords] /\ node[x].alive
  BY <1>12, EndsAlive
<1>14. q' = [q EXCEPT !.node[x].next = n]
  BY <1>1, <1>9, <1>12
<1>15. PICK m : m = [node[x] EXCEPT !.next = n]
  OBVIOUS
<1>16. n \in Nodes /\ node[n].value = hi + 1 /\ hi < MaxPushes
  BY <1>9, <1>12 DEF Fresh
<1>17. m \in NodeRecords /\ m.alive /\ m.next = n /\ m.value = node[x].value
  BY <1>13, <1>15, <1>16 DEF NodeRecords, Addresses
<1>18. q \in QueueRecords
  BY DEF QueueInv
<1>19. PICK to : to = [node EXCEPT ![x] = m]
  OBVIOUS
<1>20. q' = [q EXCEPT !.node = to]
  BY <1>12, <1>13, <1>14, <1>15, <1>18, <1>19 DEF QueueRecords
<1>21. to \in [Nodes -> NodeRecords] /\ to[x] = m /\ \A k \in Nodes : k # x => to[k] = node[k]
  BY <1>13, <1>17, <1>19
<1>22. q' \in QueueRecords /\ q'.head = q.head /\ q'.tail = q.tail /\ q'.node = to
  BY <1>18, <1>20, <1>21 DEF QueueRecords
<1>23. PICK d : d = Longer(c, n, lo, hi)
  OBVIOUS
<1>S. /\ Strung(c, node, lo, hi) /\ Fresh(n, c, node, lo, hi)
      /\ SameBut(to, node, c[hi])
      /\ Linked(to, node, c[hi], n)
  BY <1>9, <1>10, <1>11, <1>12, <1>17, <1>21 DEF SameBut, Linked
<1>24. /\ Strung(d, to, lo, hi + 1)
       /\ d[hi + 1] = n /\ d[hi] = c[hi] /\ d[lo] = c[lo]
  BY <1>10, <1>23, <1>S, StrungOn
<1>25. Counted(pushed', hi + 1) /\ Counted(popped', lo)
  <2>1. Counted(pushed, hi) /\ Counted(popped, lo)
    BY <1>6 DEF Queued
  <2>2. pushed' = Append(pushed, hi + 1)
    BY <1>1, <1>12, <1>16
  <2> QED
    BY <1>10, <2>1, <2>2, CountedOn
<1>26. PICK top : top = hi + 1
  OBVIOUS
<1>27. top \in Nat /\ lo < top /\ top <= MaxPushes /\ top - 1 = hi
  BY <1>10, <1>16, <1>26, QueueAssumption
<1>28. PICK head : head = q.head
  OBVIOUS
<1>29. Tailed(x, d, lo, top) /\ head = d[lo]
  <2>1. q.head = c[lo]
    BY <1>6 DEF Queued
  <2> QED
    BY <1>11, <1>12, <1>24, <1>27, <1>28, <2>1 DEF Tailed
<1>30. Local(r, d, head, x, to, lo, top)
  <2>1. lo < top /\ r.new = d[top] /\ x = d[top - 1] /\ r.tail = x
    BY <1>5, <1>9, <1>11, <1>12, <1>24, <1>26, <1>27
  <2> QED
    BY <1>5, <2>1 DEF Local
<1>T. /\ Counted(pushed', top) /\ Counted(popped', lo) /\ Strung(d, to, lo, top) /\ lo <= top
      /\ q'.head = head /\ q'.tail = x /\ q'.node = to
  BY <1>10, <1>12, <1>22, <1>24, <1>25, <1>26, <1>27, <1>28
<1>31. Queued(d, lo, top)'
  BY <1>7, <1>10, <1>27, <1>29, <1>30, <1>T DEF Queued
<1> QED
  BY <1>7, <1>22, <1>31 DEF QueueInv

LEMMA PushLinkKeeps ==
    ASSUME QueueInv, OneThread, NEW t \in Threads, LQ!PushLink(t)
    PROVE  QueueInv'
<1>1. thr[t].at = "link" /\ UNCHANGED popped /\ touched' = ~q.node[thr[t].tail].alive
  BY DEF LQ!PushLink, LQ!Touch
<1>2. thr[t].tail = q.tail
  <2>1. PICK lo, hi, c : Queued(c, lo, hi)
    BY DEF QueueInv
  <2>2. PICK s : s = thr[t]
    OBVIOUS
  <2>3. Local(s, c, q.head, q.tail, q.node, lo, hi)
    BY <2>1, <2>2 DEF Queued
  <2> QED
    BY <1>1, <2>2, <2>3 DEF Local
<1>3. ~touched'
  BY <1>1, <1>2, EndsAlive
<1> QED
  BY <1>1, <1>3, PushLinkFails, PushLinkWorks DEF LQ!PushLink

\* The chain without its first node.
LEMMA StrungOff ==
    ASSUME NEW c, NEW node, NEW to, NEW lo \in Nat, NEW hi \in Nat, lo < hi,
           Strung(c, node, lo, hi), SameBut(to, node, c[lo])
    PROVE  /\ Strung(Shorter(c, lo, hi), to, lo + 1, hi)
           /\ Shorter(c, lo, hi)[lo + 1] = c[lo + 1] /\ Shorter(c, lo, hi)[hi] = c[hi]
           /\ lo + 1 < hi => Shorter(c, lo, hi)[hi - 1] = c[hi - 1]
<1>d. PICK d : d = Shorter(c, lo, hi)
  OBVIOUS
<1>1. c \in [lo .. hi -> Nodes]
  BY DEF Strung
<1>2. /\ d \in [lo + 1 .. hi -> Nodes] /\ lo \in lo .. hi /\ hi \in lo + 1 .. hi
      /\ \A i \in lo + 1 .. hi : d[i] = c[i] /\ i \in lo .. hi /\ i # lo /\ i > lo
  BY <1>1, <1>d DEF Shorter
<1>3. \A i \in lo + 1 .. hi : to[d[i]] = node[c[i]]
  BY <1>1, <1>2 DEF Strung, SameBut
<1>4. \A i, j \in lo + 1 .. hi : d[i] = d[j] => i = j
  BY <1>2 DEF Strung
<1>5. \A i \in lo + 1 .. hi : to[d[i]].alive /\ to[d[i]].value = i
  BY <1>2, <1>3 DEF Strung
<1>6. \A i \in lo + 1 .. hi : i < hi => i + 1 \in lo + 1 .. hi
  OBVIOUS
<1>7. \A i \in lo + 1 .. hi : i < hi => to[d[i]].next = d[i + 1]
  BY <1>2, <1>3, <1>6 DEF Strung
<1>8. to[d[hi]].next = LQ!Null
  BY <1>2, <1>3 DEF Strung
<1>9. lo + 1 \in lo + 1 .. hi /\ (lo + 1 < hi => hi - 1 \in lo + 1 .. hi)
  OBVIOUS
<1>10. Strung(d, to, lo + 1, hi)
  BY <1>2, <1>4, <1>5, <1>7, <1>8 DEF Strung
<1> QED
  BY <1>2, <1>9, <1>10, <1>d

LEMMA PopSwapFails ==
    ASSUME QueueInv, OneThread, NEW t \in Threads,
           UNCHANGED <<q, pushed, popped, touched>>, thr' = [thr EXCEPT ![t] = LQ!Resting]
    PROVE  QueueInv'
<1>1. PICK r : r = LQ!Resting
  OBVIOUS
<1>2. r \in ThreadRecords /\ r.at = "idle" /\ r.new = LQ!Null
  BY <1>1, Rested
<1>3. ASSUME NEW lo, NEW hi, NEW c, Queued(c, lo, hi)
      PROVE  Local(r, c, q.head, q.tail, q.node, lo, hi)
  BY <1>2 DEF Local
<1>4. ~touched' /\ thr' = [thr EXCEPT ![t] = r]
  BY <1>1 DEF QueueInv
<1> QED
  BY <1>2, <1>3, <1>4, ThreadMoves

LEMMA PopSwapWorks ==
    ASSUME QueueInv, OneThread, NEW t \in Threads, thr[t].at = "popSwap",
           q' = [q EXCEPT !.head = thr[t].next, !.node[thr[t].head].alive = FALSE],
           popped' = Append(popped, q.node[thr[t].next].value), LQ!Touch(thr[t].next),
           UNCHANGED pushed, thr' = [thr EXCEPT ![t] = LQ!Resting]
    PROVE  QueueInv'
<1>1. PICK s : s = thr[t]
  OBVIOUS
<1>2. PICK r : r = LQ!Resting
  OBVIOUS
<1>3. r \in ThreadRecords /\ r.at = "idle" /\ r.new = LQ!Null
  BY <1>2, Rested
<1>4. thr' \in [Threads -> ThreadRecords] /\ \A u \in Threads : thr'[u] = r
  BY <1>2, <1>3 DEF QueueInv, OneThread
<1>5. PICK lo, hi, c : Queued(c, lo, hi)
  BY DEF QueueInv
<1>6. Local(s, c, q.head, q.tail, q.node, lo, hi)
  BY <1>1, <1>5 DEF Queued
<1>7. s.head = q.head /\ s.next = q.node[q.head].next /\ q.head # q.tail
  BY <1>1, <1>6 DEF Local
<1>8. lo \in Nat /\ hi \in Nat /\ lo <= hi /\ hi <= MaxPushes /\ Strung(c, q.node, lo, hi)
      /\ q.head = c[lo] /\ Tailed(q.tail, c, lo, hi) /\ Counted(pushed, hi) /\ Counted(popped, lo)
  BY <1>5 DEF Queued
<1>9. lo < hi
  BY <1>7, <1>8 DEF Tailed
<1>10. PICK first : first = lo + 1
  OBVIOUS
<1>11. first \in Nat /\ first <= hi /\ lo \in lo .. hi /\ first \in lo .. hi /\ first > lo
  BY <1>8, <1>9, <1>10
<1>12. PICK x, n, node : x = q.head /\ n = s.next /\ node = q.node
  OBVIOUS
<1>13. n = c[first] /\ n \in Nodes
  BY <1>7, <1>8, <1>9, <1>10, <1>11, <1>12, NextIs
<1>14. node[n].value = first /\ node[n].alive
  BY <1>8, <1>11, <1>12, <1>13 DEF Strung
<1>15. x \in Nodes /\ node \in [Nodes -> NodeRecords] /\ q \in QueueRecords
  BY <1>12, EndsAlive DEF QueueInv
<1>16. q' = [q EXCEPT !.head = n, !.node[x].alive = FALSE]
  BY <1>1, <1>7, <1>12
<1>17. PICK m : m = [node[x] EXCEPT !.alive = FALSE]
  OBVIOUS
<1>18. m \in NodeRecords
  BY <1>15, <1>17 DEF NodeRecords
<1>19. PICK to : to = [node EXCEPT ![x] = m]
  OBVIOUS
<1>20. q' = [q EXCEPT !.head = n, !.node = to]
  BY <1>12, <1>15, <1>16, <1>17, <1>19 DEF QueueRecords
<1>21. to \in [Nodes -> NodeRecords] /\ \A k \in Nodes : k # x => to[k] = node[k]
  BY <1>15, <1>18, <1>19
<1>22. q' \in QueueRecords /\ q'.head = n /\ q'.tail = q.tail /\ q'.node = to
  BY <1>13, <1>15, <1>20, <1>21 DEF QueueRecords
<1>23. PICK d : d = Shorter(c, lo, hi)
  OBVIOUS
<1>24. /\ Strung(d, to, first, hi) /\ d[first] = c[first] /\ d[hi] = c[hi]
       /\ first < hi => d[hi - 1] = c[hi - 1]
  <2>1. Strung(c, node, lo, hi) /\ SameBut(to, node, c[lo])
    BY <1>8, <1>12, <1>21 DEF SameBut
  <2>2. /\ Strung(d, to, lo + 1, hi)
        /\ d[lo + 1] = c[lo + 1] /\ d[hi] = c[hi] /\ (lo + 1 < hi => d[hi - 1] = c[hi - 1])
    BY <1>8, <1>9, <1>23, <2>1, StrungOff
  <2> QED
    BY <1>10, <2>2
<1>25. Counted(popped', first) /\ Counted(pushed', hi)
  <2>1. popped' = Append(popped, lo + 1)
    BY <1>1, <1>10, <1>12, <1>14
  <2> QED
    BY <1>8, <1>10, <2>1, CountedOn
<1>26. PICK tail : tail = q.tail
  OBVIOUS
<1>27. Tailed(tail, d, first, hi)
  <2>1. CASE tail = c[hi]
    BY <1>24, <2>1 DEF Tailed
  <2>2. CASE tail = c[hi - 1] /\ tail # c[hi]
    <3>1. first < hi
      <4>1. hi - 1 # lo
        BY <1>7, <1>8, <1>26, <2>2
      <4> QED
        BY <1>8, <1>9, <1>10, <4>1
    <3> QED
      BY <1>24, <2>2, <3>1 DEF Tailed
  <2> QED
    BY <1>8, <1>26, <2>1, <2>2 DEF Tailed
<1>28. Local(r, d, n, tail, to, first, hi)
  BY <1>3 DEF Local
<1>29. ~touched'
  BY <1>1, <1>12, <1>14 DEF LQ!Touch
<1>30. Queued(d, first, hi)'
  BY <1>4, <1>8, <1>11, <1>13, <1>22, <1>24, <1>25, <1>26, <1>27, <1>28 DEF Queued
<1> QED
  BY <1>4, <1>22, <1>29, <1>30 DEF QueueInv

LEMMA PopSwapKeeps ==
    ASSUME QueueInv, OneThread, NEW t \in Threads, LQ!PopSwap(t)
    PROVE  QueueInv'
BY PopSwapFails, PopSwapWorks DEF LQ!PopSwap

LEMMA QueueNext ==
    ASSUME OneThread, QueueInv, [LQ!QNext]_queueVars
    PROVE  QueueInv'
<1>1. CASE UNCHANGED queueVars
  BY <1>1 DEF queueVars, QueueInv, Queued
<1>2. ASSUME NEW t \in Pushers, NEW n \in Nodes, NEW v \in 1 .. MaxPushes,
             \A w \in 1 .. MaxPushes :
               w < v <=> \/ \E i \in DOMAIN pushed : pushed[i] = w
                         \/ \E u \in Pushers : thr[u].new # LQ!Null
                              /\ q.node[thr[u].new].value = w,
             LQ!PushNew(t, n, v)
      PROVE  QueueInv'
  <2>1. t \in Threads /\ v \in Nat /\ thr[t].at = "idle"
    BY <1>2, QueueAssumption DEF Threads, LQ!PushNew
  <2>2. \A lo, hi, c : Queued(c, lo, hi) => v = hi + 1 /\ hi < MaxPushes
    BY <1>2, <2>1, NextValue
  <2> QED
    BY <1>2, <2>1, <2>2, PushNewKeeps
<1>3. ASSUME NEW t \in Pushers, LQ!Push(t)
      PROVE  QueueInv'
  <2>1. t \in Threads
    BY DEF Threads
  <2> QED
    BY <1>3, <2>1, PushLoadTailKeeps, PushLoadNextKeeps, PushCheckTailKeeps, PushLinkKeeps,
       PushHelpKeeps, PushSwingKeeps DEF LQ!Push
<1>4. ASSUME NEW t \in Poppers, LQ!Pop(t)
      PROVE  QueueInv'
  <2>1. t \in Threads
    BY DEF Threads
  <2> QED
    BY <1>4, <2>1, PopLoadHeadKeeps, PopLoadTailKeeps, PopLoadNextKeeps, PopCheckKeeps,
       PopHelpKeeps, PopSwapKeeps DEF LQ!Pop
<1> QED
  BY <1>1, <1>2, <1>3, <1>4 DEF LQ!QNext

-----------------------------------------------------------------------------
\* size() follows the chain from the dummy to its end.
LEMMA SizeIs ==
    ASSUME NEW lo, NEW hi, NEW c, Queued(c, lo, hi)
    PROVE  LQ!Size = hi - lo
<1> DEFINE F(g) == [k \in 0 .. MaxPushes |->
                      IF k = 0 THEN q.node[q.head].next
                      ELSE IF g[k - 1] = LQ!Null THEN LQ!Null ELSE q.node[g[k - 1]].next]
           f == CHOOSE g : g = F(g)
           h == [k \in 0 .. MaxPushes |-> IF lo + 1 + k <= hi THEN c[lo + 1 + k] ELSE LQ!Null]
<1>1. lo \in Nat /\ hi \in Nat /\ lo <= hi /\ hi <= MaxPushes /\ MaxPushes \in Nat
  BY QueueAssumption DEF Queued
<1>2. /\ q.head = c[lo] /\ Strung(c, q.node, lo, hi) /\ c \in [lo .. hi -> Nodes]
      /\ LQ!Null \notin Nodes
  BY QueueAssumption DEF Queued, Strung, LQ!Null
<1>3. \A i \in lo .. hi : q.node[c[i]].next = IF i < hi THEN c[i + 1] ELSE LQ!Null
  BY <1>1, <1>2 DEF Strung
<1>4. h = F(h)
  <2>1. ASSUME NEW k \in 0 .. MaxPushes
        PROVE  h[k] = F(h)[k]
    <3>1. CASE k = 0
      <4>1. lo \in lo .. hi /\ (lo < hi <=> lo + 1 + 0 <= hi) /\ lo + 1 + 0 = lo + 1
        BY <1>1
      <4> QED
        BY <1>2, <1>3, <3>1, <4>1
    <3>2. CASE k # 0
      <4>1. k - 1 \in 0 .. MaxPushes /\ k \in Nat /\ lo + 1 + (k - 1) = lo + k
        BY <1>1, <3>2
      <4>2. F(h)[k] = IF h[k - 1] = LQ!Null THEN LQ!Null ELSE q.node[h[k - 1]].next
        BY <3>2
      <4>3. h[k - 1] = IF lo + k <= hi THEN c[lo + k] ELSE LQ!Null
        BY <4>1
      <4>4. h[k] = IF lo + 1 + k <= hi THEN c[lo + 1 + k] ELSE LQ!Null
        OBVIOUS
      <4> HIDE DEF h, F
      <4>5. CASE lo + k <= hi
        <5>1. lo + k \in lo .. hi /\ (lo + k < hi <=> lo + 1 + k <= hi) /\ (lo + k) + 1 = lo + 1 + k
          BY <1>1, <4>1, <4>5
        <5>2. h[k - 1] = c[lo + k] /\ c[lo + k] # LQ!Null
          BY <1>2, <4>3, <4>5, <5>1
        <5>3. F(h)[k] = q.node[c[lo + k]].next
          BY <4>2, <5>2
        <5>4. q.node[c[lo + k]].next = IF lo + k < hi THEN c[(lo + k) + 1] ELSE LQ!Null
          BY <1>3, <5>1
        <5> QED
          BY <4>4, <5>1, <5>3, <5>4
      <4>6. CASE ~(lo + k <= hi)
        <5>1. h[k - 1] = LQ!Null /\ ~(lo + 1 + k <= hi)
          BY <1>1, <4>1, <4>3, <4>6
        <5> QED
          BY <4>2, <4>4, <5>1
      <4> QED
        BY <4>5, <4>6
    <3> QED
      BY <3>1, <3>2
  <2>2. h = [k \in 0 .. MaxPushes |-> h[k]] /\ F(h) = [k \in 0 .. MaxPushes |-> F(h)[k]]
    OBVIOUS
  <2> HIDE DEF h, F
  <2> QED
    BY <2>1, <2>2
<1>5. f = F(f)
  <2> HIDE DEF F, h
  <2> QED
    BY <1>4
<1>6. \A k \in 0 .. MaxPushes : f[k] = h[k]
  <2> DEFINE T == {k \in 0 .. MaxPushes : f[k] # h[k]}
  <2>1. SUFFICES ASSUME T # {} PROVE FALSE
    OBVIOUS
  <2>2. T \in SUBSET Nat
    OBVIOUS
  <2>3. PICK x \in T : \A y \in T : x <= y
    <3> HIDE DEF T
    <3> QED
      BY <2>1, <2>2, NatMin
  <2>4. x \in 0 .. MaxPushes /\ f[x] # h[x] /\ x \in Nat
    OBVIOUS
  <2>5. \A g : F(g)[x] = IF x = 0 THEN q.node[q.head].next
                         ELSE IF g[x - 1] = LQ!Null THEN LQ!Null ELSE q.node[g[x - 1]].next
    BY <2>4
  <2>6. x # 0 => f[x - 1] = h[x - 1]
    <3> SUFFICES ASSUME x # 0 PROVE f[x - 1] = h[x - 1]
      OBVIOUS
    <3>1. x - 1 \in 0 .. MaxPushes /\ ~(x <= x - 1)
      BY <1>1, <2>4
    <3> HIDE DEF f, h
    <3> QED
      BY <2>3, <3>1
  <2> HIDE DEF f, h, F, T
  <2>7. f[x] = F(f)[x] /\ h[x] = F(h)[x]
    BY <1>4, <1>5
  <2> QED
    BY <2>4, <2>5, <2>6, <2>7
<1>7. LQ!Size = LQ!Cardinality({k \in 0 .. MaxPushes : f[k] # LQ!Null})
  BY DEF LQ!Size
<1>8. {k \in 0 .. MaxPushes : f[k] # LQ!Null} = 0 .. hi - lo - 1
  <2>1. \A k \in 0 .. MaxPushes : h[k] # LQ!Null <=> lo + 1 + k <= hi
    <3>1. ASSUME NEW k \in 0 .. MaxPushes, lo + 1 + k <= hi
          PROVE  h[k] # LQ!Null
      <4>1. lo + 1 + k \in lo .. hi
        BY <1>1, <3>1
      <4> QED
        BY <1>2, <3>1, <4>1
    <3> QED
      BY <3>1
  <2> HIDE DEF f, h
  <2>2. \A k \in 0 .. MaxPushes : f[k] # LQ!Null <=> lo + 1 + k <= hi
    BY <1>6, <2>1
  <2> QED
    BY <1>1, <2>2
<1>9. PICK S : S = {k \in 0 .. MaxPushes : f[k] # LQ!Null}
  OBVIOUS
<1> HIDE DEF f, h, F
<1>10. LQ!Size = LQ!Cardinality(S)
  BY <1>7, <1>9, Zenon
<1>11. LQ!Cardinality(S) = Cardinality(S)
  BY Zenon DEF LQ!Cardinality, Cardinality
<1>12. PICK z : z = hi - lo - 1
  OBVIOUS
<1>13. z \in Int /\ Cardinality(S) = Cardinality(0 .. z)
  <2>1. z \in Int
    BY <1>1, <1>12
  <2>2. S = 0 .. z
    BY <1>8, <1>9, <1>12, Zenon
  <2> QED
    BY <2>1, <2>2, Zenon
<1>14. Cardinality(0 .. z) = IF 0 > z THEN 0 ELSE z - 0 + 1
  BY <1>13, FS_Interval
<1> QED
  BY <1>1, <1>10, <1>11, <1>12, <1>13, <1>14

LEMMA EmptyIs ==
    ASSUME NEW lo, NEW hi, NEW c, Queued(c, lo, hi)
    PROVE  LQ!IsEmpty <=> lo = hi
<1>1. /\ lo \in Nat /\ hi \in Nat /\ lo <= hi /\ Strung(c, q.node, lo, hi)
      /\ q.head = c[lo] /\ Tailed(q.tail, c, lo, hi)
  BY DEF Queued
<1>2. lo = hi => LQ!IsEmpty
  BY <1>1 DEF LQ!IsEmpty, Tailed, Strung
<1>3. lo \in lo .. hi
  BY <1>1
<1>4. LQ!IsEmpty => lo = hi
  <2> SUFFICES ASSUME LQ!IsEmpty PROVE lo = hi
    OBVIOUS
  <2>1. PICK node : node = q.node
    OBVIOUS
  <2>2. Strung(c, node, lo, hi) /\ node[c[lo]].next = LQ!Null
    BY <1>1, <2>1 DEF LQ!IsEmpty
  <2> QED
    BY <1>1, <1>3, <2>2, NextIs
<1> QED
  BY <1>2, <1>4

\* What one thread pushes into the queue it gets back, in that order and once;
\* no node is read after it was freed, and size() and empty() tell what is left
\* (LockFreeQueue.push, pop, size and empty).  The class comment promises it to
\* several threads, where it is false; ConnectionManager has one.
THEOREM OneThreadGetsBackWhatItPushed == OneThread => (PartsSpec => []FirstInFirstOut)
<1> SUFFICES ASSUME OneThread PROVE PartsSpec => []FirstInFirstOut
  OBVIOUS
<1>1. PartsInit => QueueInv
  BY QueueInit DEF PartsInit
<1>2. QueueInv /\ [PartsNext]_partsVars => QueueInv'
  BY QueueMoves, QueueNext
<1>3. QueueInv => FirstInFirstOut
  <2> SUFFICES ASSUME QueueInv PROVE LQ!FirstInFirstOut
    BY DEF FirstInFirstOut
  <2>1. PICK lo, hi, c : Queued(c, lo, hi)
    BY DEF QueueInv
  <2>2. lo \in Nat /\ hi \in Nat /\ lo <= hi /\ Counted(pushed, hi) /\ Counted(popped, lo)
    BY <2>1 DEF Queued
  <2>3. /\ popped \in Seq(Nat) /\ Len(popped) = lo /\ pushed \in Seq(Nat) /\ Len(pushed) = hi
        /\ \A i \in 1 .. lo : popped[i] = i /\ i \in 1 .. hi /\ pushed[i] = i
    BY <2>2 DEF Counted
  <2>4. popped = SubSeq(pushed, 1, Len(popped))
    <3>1. PICK s : s = SubSeq(pushed, 1, lo)
      OBVIOUS
    <3>2. s \in Seq(Nat) /\ Len(s) = lo /\ \A i \in 1 .. lo : s[i] = pushed[i]
      BY <2>2, <2>3, <3>1
    <3>3. popped = s
      BY <2>2, <2>3, <3>2
    <3> QED
      BY <2>3, <3>1, <3>3
  <2>5. LQ!Size = Len(pushed) - Len(popped)
    BY <2>1, <2>3, SizeIs
  <2>6. LQ!IsEmpty <=> LQ!Size = 0
    BY <2>1, <2>2, SizeIs, EmptyIs
  <2>7. ~touched
    BY DEF QueueInv
  <2> QED
    BY <2>4, <2>5, <2>6, <2>7 DEF LQ!FirstInFirstOut
<1> QED
  BY <1>1, <1>2, <1>3, PTL DEF PartsSpec

-----------------------------------------------------------------------------
(* The requests that are saved and loaded.                                 *)

LEMMA CastFits ==
    ASSUME NEW v \in Int, NEW base \in DOMAIN ST!Ints
    PROVE  Fits(base, ST!Cast(v, ST!Ints[base].size, ST!Ints[base].signed))
BY DEF Fits, ST!Ints, ST!Cast

LEMMA CastBack ==
    ASSUME NEW base, NEW v, Fits(base, v)
    PROVE  ST!FromAvro(base, ST!ToAvro(base, v)) = v
BY DEF Fits, ST!Ints, ST!Cast, ST!FromAvro, ST!ToAvro, ST!AvroType, ST!AvroSize

LEMMA FieldsBack ==
    ASSUME NEW fields, NEW rec, FieldsFit(fields, rec)
    PROVE  ST!FieldsFromAvro(fields, ST!FieldsToAvro(fields, rec)) = rec
<1>1. PICK d : d = ST!FieldsToAvro(fields, rec)
  OBVIOUS
<1>2. \A f \in DOMAIN fields : d[f] = ST!ToAvro(fields[f], rec[f])
  BY <1>1 DEF ST!FieldsToAvro
<1>3. \A f \in DOMAIN fields : ST!FromAvro(fields[f], d[f]) = rec[f]
  BY <1>2, CastBack DEF FieldsFit
<1>4. ST!FieldsFromAvro(fields, d) = [f \in DOMAIN fields |-> rec[f]]
  BY <1>3 DEF ST!FieldsFromAvro
<1> QED
  BY <1>1, <1>4 DEF FieldsFit

LEMMA ParamBack ==
    ASSUME NEW p, ParamFits(p)
    PROVE  ST!ConvertAvroToParamMeta(Blank(p), ST!ConvertParamMetaToAvro(p)) = p
<1>1. PICK e, d : e = Blank(p) /\ d = ST!ConvertParamMetaToAvro(p)
  OBVIOUS
<1>2. PICK ty, ba, co : ty = p.type /\ ba = p.base /\ co = p.content
  OBVIOUS
<1>3. p = [type |-> ty, base |-> ba, content |-> co]
  BY <1>2 DEF ParamFits
<1>4. e = [type |-> ty, base |-> ba, content |-> "null"]
  BY <1>1, <1>3 DEF Blank
<1>5. e.type = ty /\ e.base = ba
  BY <1>4
<1>6. \A x : [e EXCEPT !.content = x] = [type |-> ty, base |-> ba, content |-> x]
  BY <1>4
<1>7. CASE ty = "void"
  <2>1. ST!ConvertAvroToParamMeta(e, d) = [e EXCEPT !.content = "null"]
    BY <1>5, <1>7 DEF ST!ConvertAvroToParamMeta
  <2>2. co = "null"
    BY <1>2, <1>7 DEF ParamFits
  <2> QED
    BY <1>1, <1>3, <1>6, <2>1, <2>2
<1>8. CASE ty = "primitive"
  <2>1. d = [branch |-> ST!AvroType(ba), value |-> ST!ToAvro(ba, co)]
    BY <1>1, <1>2, <1>8 DEF ST!ConvertParamMetaToAvro, ST!SerializePrimitiveToAvro
  <2>2. d.branch = ST!AvroType(ba) /\ d.value = ST!ToAvro(ba, co)
    BY <2>1
  <2>3. ST!ConvertAvroToParamMeta(e, d) = [e EXCEPT !.content = ST!FromAvro(ba, d.value)]
    BY <1>5, <1>8, <2>2 DEF ST!ConvertAvroToParamMeta, ST!DeserializePrimitiveFromAvro
  <2>4. ST!FromAvro(ba, d.value) = co
    BY <1>2, <1>8, <2>2, CastBack DEF ParamFits
  <2> QED
    BY <1>1, <1>3, <1>6, <2>3, <2>4
<1>9. CASE ty = "vector"
  <2>1. d = [branch |-> <<ST!AvroType(ba)>>, value |-> [i \in DOMAIN co |-> ST!ToAvro(ba, co[i])]]
    BY <1>1, <1>2, <1>9 DEF ST!ConvertParamMetaToAvro, ST!SerializeVectorToAvro, ST!Map
  <2>2. d.branch = <<ST!AvroType(ba)>> /\ d.value = [i \in DOMAIN co |-> ST!ToAvro(ba, co[i])]
    BY <2>1
  <2>3. ST!ConvertAvroToParamMeta(e, d) =
          [e EXCEPT !.content = [i \in DOMAIN d.value |-> ST!FromAvro(ba, d.value[i])]]
    BY <1>5, <1>9, <2>2 DEF ST!ConvertAvroToParamMeta, ST!DeserializeVectorFromAvro, ST!Map
  <2>4. \A i \in DOMAIN co : ST!FromAvro(ba, ST!ToAvro(ba, co[i])) = co[i]
    BY <1>2, <1>9, CastBack DEF ParamFits
  <2>5. co = [i \in DOMAIN co |-> co[i]]
    BY <1>2, <1>9 DEF ParamFits, IsList
  <2>6. [i \in DOMAIN d.value |-> ST!FromAvro(ba, d.value[i])] = co
    BY <2>2, <2>4, <2>5
  <2> QED
    BY <1>1, <1>3, <1>6, <2>3, <2>6
<1>10. CASE ty = "tensor"
  <2>1. d = [branch |-> "tensor", value |-> ST!FieldsToAvro(ST!TensorFields, co)]
    BY <1>1, <1>2, <1>10 DEF ST!ConvertParamMetaToAvro
  <2>2. d.value = ST!FieldsToAvro(ST!TensorFields, co)
    BY <2>1
  <2>3. ST!ConvertAvroToParamMeta(e, d) =
          [e EXCEPT !.content = ST!FieldsFromAvro(ST!TensorFields, d.value)]
    BY <1>5, <1>10 DEF ST!ConvertAvroToParamMeta
  <2>4. ST!FieldsFromAvro(ST!TensorFields, d.value) = co
    BY <1>2, <1>10, <2>2, FieldsBack DEF ParamFits
  <2> QED
    BY <1>1, <1>3, <1>6, <2>3, <2>4
<1>11. CASE ty = "tensorVec"
  <2>1. d = [branch |-> "tensorVec",
             value |-> [i \in DOMAIN co |-> ST!FieldsToAvro(ST!TensorFields, co[i])]]
    BY <1>1, <1>2, <1>11 DEF ST!ConvertParamMetaToAvro, ST!Map
  <2>2. d.value = [i \in DOMAIN co |-> ST!FieldsToAvro(ST!TensorFields, co[i])]
    BY <2>1
  <2>3. ST!ConvertAvroToParamMeta(e, d) =
          [e EXCEPT !.content =
             [i \in DOMAIN d.value |-> ST!FieldsFromAvro(ST!TensorFields, d.value[i])]]
    BY <1>5, <1>11 DEF ST!ConvertAvroToParamMeta, ST!Map
  <2>4. \A i \in DOMAIN co :
          ST!FieldsFromAvro(ST!TensorFields, ST!FieldsToAvro(ST!TensorFields, co[i])) = co[i]
    BY <1>2, <1>11, FieldsBack DEF ParamFits
  <2>5. co = [i \in DOMAIN co |-> co[i]]
    BY <1>2, <1>11 DEF ParamFits, IsList
  <2>6. [i \in DOMAIN d.value |-> ST!FieldsFromAvro(ST!TensorFields, d.value[i])] = co
    BY <2>2, <2>4, <2>5
  <2> QED
    BY <1>1, <1>3, <1>6, <2>3, <2>6
<1> QED
  BY <1>2, <1>7, <1>8, <1>9, <1>10, <1>11 DEF ParamFits

\* What is read back from a file is what was written, in host memory.
LEMMA MessageBack ==
    ASSUME NEW m, MessageFits(m)
    PROVE  ST!Deserialize(ST!Serialize(m)) = ST!OnHost(m)
<1>1. PICK d : d = ST!Serialize(m)
  OBVIOUS
<1>2. PICK he, pa, pl : he = m.header /\ pa = m.params /\ pl = m.payload
  OBVIOUS
<1>3. /\ d.header = ST!FieldsToAvro(ST!HeaderFields, he)
      /\ d.params = [i \in DOMAIN pa |-> [meta |-> Blank(pa[i]),
                                          datum |-> ST!ConvertParamMetaToAvro(pa[i])]]
      /\ d.payload = [branch |-> pl.kind, parts |-> pl.parts]
  BY <1>1, <1>2 DEF ST!Serialize, ST!Map, Blank, ST!ConvertPayloadToAvro
<1>4. ST!FieldsFromAvro(ST!HeaderFields, d.header) = he
  BY <1>2, <1>3, FieldsBack DEF MessageFits
<1>5. [i \in DOMAIN d.params |-> ST!ConvertAvroToParamMeta(d.params[i].meta, d.params[i].datum)] = pa
  <2>1. ASSUME NEW i \in DOMAIN pa
        PROVE  ST!ConvertAvroToParamMeta(d.params[i].meta, d.params[i].datum) = pa[i]
    <3>1. d.params[i].meta = Blank(pa[i]) /\ d.params[i].datum = ST!ConvertParamMetaToAvro(pa[i])
      BY <1>3
    <3>2. ParamFits(pa[i])
      BY <1>2 DEF MessageFits
    <3> QED
      BY <3>1, <3>2, ParamBack
  <2>2. DOMAIN d.params = DOMAIN pa
    BY <1>3
  <2>3. pa = [i \in DOMAIN pa |-> pa[i]]
    BY <1>2 DEF MessageFits, IsList
  <2> QED
    BY <2>1, <2>2, <2>3
<1>6. PICK back : back = ST!ConvertAvroToPayloadVariant(d.payload)
  OBVIOUS
<1>7. back = [kind |-> pl.kind, parts |-> pl.parts,
              mem |-> IF pl.kind = "none" THEN "none" ELSE "host"]
  BY <1>3, <1>6 DEF ST!ConvertAvroToPayloadVariant
<1>8. ST!Deserialize(d) = ST!AxonMessage(he, pa, back)
  BY <1>4, <1>5, <1>6 DEF ST!Deserialize, ST!Map
<1>9. PICK tp : tp = ST!ExtractTensorParamIndex(pa)
  OBVIOUS
<1>10. ST!Deserialize(d) = [header |-> he, params |-> pa, payload |-> back, tensorParam |-> tp]
  BY <1>8, <1>9 DEF ST!AxonMessage
<1>11. m = [header |-> he, params |-> pa, payload |-> pl, tensorParam |-> tp]
  BY <1>2, <1>9 DEF MessageFits, ST!AxonMessage
<1>12. pl = [kind |-> pl.kind, parts |-> pl.parts, mem |-> pl.mem] /\ (pl.mem = "none" <=> pl.kind = "none")
  BY <1>2 DEF MessageFits, Placed
<1>13. [pl EXCEPT !.mem = IF @ = "none" THEN "none" ELSE "host"] = back
  BY <1>7, <1>12
<1>14. ST!OnHost(m) = [m EXCEPT !.payload = back]
  BY <1>2, <1>11, <1>13 DEF ST!OnHost
<1> QED
  BY <1>1, <1>10, <1>11, <1>14

LEMMA Come ==
    ASSUME NEW m
    PROVE  m \in ST!Incoming <=>
             \E id \in {1, -1}, s \in ST!Shapes, mem \in {"host", "cuda"} : m = Messaged(s, id, mem)
BY DEF ST!Incoming, Messaged, Headed

LEMMA HeadersFit ==
    ASSUME NEW id \in Int
    PROVE  FieldsFit(ST!HeaderFields, Headed(id))
<1>1. ASSUME NEW f \in DOMAIN ST!HeaderFields
      PROVE  Fits(ST!HeaderFields[f], ST!Cast(id, ST!Ints[ST!HeaderFields[f]].size, FALSE))
  <2>1. PICK b : b = ST!HeaderFields[f]
    OBVIOUS
  <2>2. b \in {"u32", "u64"}
    BY <2>1 DEF ST!HeaderFields
  <2>3. Fits(b, ST!Cast(id, ST!Ints[b].size, FALSE))
    BY <2>2 DEF Fits, ST!Ints, ST!Cast
  <2> QED
    BY <2>1, <2>3
<1> QED
  BY <1>1 DEF FieldsFit, Headed

LEMMA TensorsFit ==
    ASSUME NEW x \in Int
    PROVE  FieldsFit(ST!TensorFields, ST!TensorOf(x))
<1>1. ASSUME NEW f \in DOMAIN ST!TensorFields
      PROVE  ST!TensorFields[f] \in DOMAIN ST!Ints
  BY DEF ST!TensorFields, ST!Ints
<1> QED
  BY <1>1, CastFits DEF FieldsFit, ST!TensorOf

LEMMA EndsFit ==
    ASSUME NEW b, NEW v \in ST!Ends(b)
    PROVE  Fits(b, v)
<1>1. CASE b \in DOMAIN ST!Ints
  <2>1. PICK x \in {0, -1, ST!Ints[b].size \div 2} :
           v = ST!Cast(x, ST!Ints[b].size, ST!Ints[b].signed)
    BY <1>1 DEF ST!Ends
  <2>2. x \in Int
    BY <1>1, <2>1 DEF ST!Ints
  <2> QED
    BY <1>1, <2>1, <2>2, CastFits
<1>2. CASE b \notin DOMAIN ST!Ints
  BY <1>2 DEF Fits
<1> QED
  BY <1>1, <1>2

\* Shapes with no tensor, with one, with several.
LEMMA PlainShape ==
    ASSUME NEW p, p \in {<<>>, <<[type |-> "void", base |-> "void", content |-> "null"]>>},
           NEW s, s.params = p
    PROVE  ShapeFits(s)
<1>1. CASE p = <<>>
  <2>1. DOMAIN p = {} /\ IsList(p)
    BY <1>1 DEF IsList
  <2> QED
    BY <2>1 DEF ShapeFits, Described, ST!TensorParams
<1>2. CASE p = <<[type |-> "void", base |-> "void", content |-> "null"]>>
  <2>1. IsList(p) /\ DOMAIN p = {1}
    BY <1>2 DEF IsList
  <2>2. p[1] = [type |-> "void", base |-> "void", content |-> "null"]
    BY <1>2
  <2>3. ParamFits(p[1]) /\ p[1].type \notin {"tensor", "tensorVec"}
    BY <2>2 DEF ParamFits
  <2> QED
    BY <2>1, <2>3 DEF ShapeFits, Described, ST!TensorParams
<1> QED
  BY <1>1, <1>2

LEMMA ValueShape ==
    ASSUME NEW b, NEW v, Fits(b, v), NEW p,
           p = <<[type |-> "primitive", base |-> b, content |-> v],
                 [type |-> "vector", base |-> b, content |-> <<v, v>>]>>,
           NEW s, s.params = p
    PROVE  ShapeFits(s)
<1>1. IsList(p) /\ DOMAIN p = {1, 2}
  BY DEF IsList
<1>2. PICK vv : vv = <<v, v>>
  OBVIOUS
<1>3. IsList(vv) /\ DOMAIN vv = {1, 2} /\ vv[1] = v /\ vv[2] = v
  BY <1>2 DEF IsList
<1>4. /\ p[1] = [type |-> "primitive", base |-> b, content |-> v]
      /\ p[2] = [type |-> "vector", base |-> b, content |-> vv]
  BY <1>2
<1>5. ParamFits(p[1]) /\ p[1].type \notin {"tensor", "tensorVec"}
  BY <1>4 DEF ParamFits
<1>6. ParamFits(p[2]) /\ p[2].type \notin {"tensor", "tensorVec"}
  BY <1>3, <1>4 DEF ParamFits
<1> QED
  BY <1>1, <1>5, <1>6 DEF ShapeFits, Described, ST!TensorParams

LEMMA TensorShape ==
    ASSUME NEW x \in Int, NEW p, NEW parts,
           p = <<[type |-> "primitive", base |-> "u32", content |-> 0],
                 [type |-> "tensor", base |-> "tensor", content |-> ST!TensorOf(x)]>>,
           parts = <<"x">>, NEW s, s.params = p, s.payload.parts = parts
    PROVE  ShapeFits(s)
<1>1. IsList(p) /\ DOMAIN p = {1, 2}
  BY DEF IsList
<1>2. /\ p[1] = [type |-> "primitive", base |-> "u32", content |-> 0]
      /\ p[2] = [type |-> "tensor", base |-> "tensor", content |-> ST!TensorOf(x)]
  OBVIOUS
<1>3. Fits("u32", 0)
  BY DEF Fits, ST!Ints, ST!Cast
<1>4. ParamFits(p[1]) /\ p[1].type \notin {"tensor", "tensorVec"}
  BY <1>2, <1>3 DEF ParamFits
<1>5. ParamFits(p[2]) /\ p[2].type = "tensor"
  BY <1>2, TensorsFit DEF ParamFits
<1>6. ST!TensorParams(p) = {2}
  BY <1>1, <1>4, <1>5 DEF ST!TensorParams
<1>7. Len(parts) = 1
  OBVIOUS
<1>8. Described(p, parts)
  BY <1>1, <1>5, <1>6, <1>7 DEF Described
<1> QED
  BY <1>1, <1>4, <1>5, <1>8 DEF ShapeFits

LEMMA TensorsShape ==
    ASSUME NEW p, NEW parts,
           p = <<[type |-> "tensorVec", base |-> "tensors",
                  content |-> <<ST!TensorOf(1), ST!TensorOf(-1)>>]>>,
           parts = <<"x", "y">>, NEW s, s.params = p, s.payload.parts = parts
    PROVE  ShapeFits(s)
<1>1. IsList(p) /\ DOMAIN p = {1}
  BY DEF IsList
<1>2. PICK vv : vv = <<ST!TensorOf(1), ST!TensorOf(-1)>>
  OBVIOUS
<1>3. IsList(vv) /\ DOMAIN vv = {1, 2} /\ Len(vv) = 2
      /\ vv[1] = ST!TensorOf(1) /\ vv[2] = ST!TensorOf(-1)
  BY <1>2 DEF IsList
<1>4. p[1] = [type |-> "tensorVec", base |-> "tensors", content |-> vv]
  BY <1>2
<1>5. FieldsFit(ST!TensorFields, ST!TensorOf(1)) /\ FieldsFit(ST!TensorFields, ST!TensorOf(-1))
  BY TensorsFit
<1>6. ParamFits(p[1]) /\ p[1].type = "tensorVec" /\ p[1].content = vv
  BY <1>3, <1>4, <1>5 DEF ParamFits
<1>7. ST!TensorParams(p) = {1}
  BY <1>1, <1>6 DEF ST!TensorParams
<1>8. Len(parts) = 2
  OBVIOUS
<1>9. Described(p, parts)
  <2>1. Len(p[1].content) = 2 /\ p[1].type # "tensor"
    BY <1>3, <1>6
  <2>2. 1 \in DOMAIN p /\ 1 # 0 /\ Len(parts) \in Nat /\ Len(p[1].content) \in Nat
        /\ Len(p[1].content) <= Len(parts)
    <3>1. 1 \in DOMAIN p
      BY <1>1, Zenon
    <3>2. PICK k : k = Len(p[1].content)
      OBVIOUS
    <3>3. k = 2
      BY <2>1, <3>2, Zenon
    <3>4. k \in Nat /\ k <= 2 /\ 1 # 0 /\ 2 \in Nat
      BY <3>3
    <3> QED
      BY <1>8, <3>1, <3>2, <3>4, Zenon
  <2> QED
    BY <1>7, <2>1, <2>2, Zenon DEF Described
<1> QED
  BY <1>1, <1>6, <1>9 DEF ShapeFits

LEMMA ShapesFit ==
    ASSUME NEW s \in ST!Shapes
    PROVE  ShapeFits(s)
<1> DEFINE none == [kind |-> "none", parts |-> <<>>]
<1>1. CASE s \in {[params |-> <<>>, payload |-> none],
                  [params |-> <<[type |-> "void", base |-> "void", content |-> "null"]>>,
                   payload |-> none]}
  BY <1>1, PlainShape
<1>2. ASSUME NEW b \in ST!Bases, NEW v \in ST!Ends(b),
             s = [params |-> <<[type |-> "primitive", base |-> b, content |-> v],
                               [type |-> "vector", base |-> b, content |-> <<v, v>>]>>,
                  payload |-> none]
      PROVE  ShapeFits(s)
  <2>1. Fits(b, v)
    BY EndsFit
  <2>2. PICK p : p = s.params
    OBVIOUS
  <2>3. p = <<[type |-> "primitive", base |-> b, content |-> v],
              [type |-> "vector", base |-> b, content |-> <<v, v>>]>>
    BY <1>2, <2>2
  <2> QED
    BY <2>1, <2>2, <2>3, ValueShape
<1>3. ASSUME NEW x \in {0, -1},
             s = [params |-> <<[type |-> "primitive", base |-> "u32", content |-> 0],
                               [type |-> "tensor", base |-> "tensor", content |-> ST!TensorOf(x)]>>,
                  payload |-> [kind |-> "buf", parts |-> <<"x">>]]
      PROVE  ShapeFits(s)
  BY <1>3, TensorShape
<1>4. CASE s \in {[params |-> <<[type |-> "tensorVec", base |-> "tensors",
                                 content |-> <<ST!TensorOf(1), ST!TensorOf(-1)>>]>>,
                   payload |-> [kind |-> "vec", parts |-> <<"x", "y">>]]}
  BY <1>4, TensorsShape
<1> DEFINE A == {[params |-> <<>>, payload |-> none],
                 [params |-> <<[type |-> "void", base |-> "void", content |-> "null"]>>,
                  payload |-> none]}
           B == UNION {{[params |-> <<[type |-> "primitive", base |-> b, content |-> v],
                                     [type |-> "vector", base |-> b, content |-> <<v, v>>]>>,
                        payload |-> none] : v \in ST!Ends(b)} : b \in ST!Bases}
           C == {[params |-> <<[type |-> "primitive", base |-> "u32", content |-> 0],
                              [type |-> "tensor", base |-> "tensor", content |-> ST!TensorOf(x)]>>,
                  payload |-> [kind |-> "buf", parts |-> <<"x">>]] : x \in {0, -1}}
           D == {[params |-> <<[type |-> "tensorVec", base |-> "tensors",
                               content |-> <<ST!TensorOf(1), ST!TensorOf(-1)>>]>>,
                  payload |-> [kind |-> "vec", parts |-> <<"x", "y">>]]}
<1>6. ST!Shapes = A \cup B \cup C \cup D
  BY Zenon DEF ST!Shapes
<1>7. s \in A \/ s \in B \/ s \in C \/ s \in D
  <2> HIDE DEF A, B, C, D
  <2> QED
    BY <1>6, Zenon
<1>8. s \in A => ShapeFits(s)
  BY <1>1, Zenon
<1>9. s \in B => ShapeFits(s)
  BY <1>2, Zenon
<1>10. s \in C => ShapeFits(s)
  BY <1>3, Zenon
<1>11. s \in D => ShapeFits(s)
  BY <1>4, Zenon
<1> HIDE DEF A, B, C, D
<1> QED
  BY <1>7, <1>8, <1>9, <1>10, <1>11

\* A message that comes is one its constructor makes, with its tensors.
LEMMA IncomingFits ==
    ASSUME NEW m \in ST!Incoming
    PROVE  MessageFits(m) /\ Described(m.params, m.payload.parts)
<1>1. PICK id \in {1, -1}, s \in ST!Shapes, mem \in {"host", "cuda"} : m = Messaged(s, id, mem)
  BY Come
<1>2. PICK he : he = Headed(id)
  OBVIOUS
<1>3. PICK pl : pl = [kind |-> s.payload.kind, parts |-> s.payload.parts,
                      mem |-> IF s.payload.kind = "none" THEN "none" ELSE mem]
  OBVIOUS
<1>4. m = ST!AxonMessage(he, s.params, pl)
  BY <1>1, <1>2, <1>3, Zenon DEF Messaged
<1>5. m.header = he /\ m.params = s.params /\ m.payload = pl
  BY <1>4 DEF ST!AxonMessage
<1>6. FieldsFit(ST!HeaderFields, he)
  BY <1>2, HeadersFit
<1>7. Placed(pl) /\ pl.parts = s.payload.parts
  BY <1>3 DEF Placed
<1>8. ShapeFits(s)
  BY ShapesFit
<1> QED
  BY <1>4, <1>5, <1>6, <1>7, <1>8 DEF MessageFits, ShapeFits

\* On the host it is also one that comes.
LEMMA HostedComes ==
    ASSUME NEW m \in ST!Incoming
    PROVE  ST!OnHost(m) \in ST!Incoming
<1>1. PICK id \in {1, -1}, s \in ST!Shapes, mem \in {"host", "cuda"} : m = Messaged(s, id, mem)
  BY Come
<1>2. PICK he : he = Headed(id)
  OBVIOUS
<1>3. PICK ki, pt : ki = s.payload.kind /\ pt = s.payload.parts
  OBVIOUS
<1>4. PICK tp : tp = ST!ExtractTensorParamIndex(s.params)
  OBVIOUS
<1>5. \A x : Messaged(s, id, x) =
        [header |-> he, params |-> s.params,
         payload |-> [kind |-> ki, parts |-> pt, mem |-> IF ki = "none" THEN "none" ELSE x],
         tensorParam |-> tp]
  BY <1>2, <1>3, <1>4, Zenon DEF Messaged, ST!AxonMessage
<1>6. PICK pl : pl = [kind |-> ki, parts |-> pt, mem |-> IF ki = "none" THEN "none" ELSE mem]
  OBVIOUS
<1>7. m = [header |-> he, params |-> s.params, payload |-> pl, tensorParam |-> tp]
  BY <1>1, <1>5, <1>6, Zenon
<1>8. [pl EXCEPT !.mem = IF @ = "none" THEN "none" ELSE "host"] =
        [kind |-> ki, parts |-> pt, mem |-> IF ki = "none" THEN "none" ELSE "host"]
  BY <1>1, <1>6
<1>9. ST!OnHost(m) = [header |-> he, params |-> s.params,
                      payload |-> [pl EXCEPT !.mem = IF @ = "none" THEN "none" ELSE "host"],
                      tensorParam |-> tp]
  BY <1>7 DEF ST!OnHost
<1>10. ST!OnHost(m) = Messaged(s, id, "host")
  BY <1>5, <1>8, <1>9, Zenon
<1> QED
  BY <1>1, <1>10, Come

\* None of its tensors throws.
LEMMA TensorsRead ==
    ASSUME NEW m \in ST!Incoming, NEW j \in 1 .. ST!GetTensorCount(m)
    PROVE  ST!GetTensorVec(m)[j] # ST!Thrown
<1>1. PICK pa, parts, tp : pa = m.params /\ parts = m.payload.parts /\ tp = m.tensorParam
  OBVIOUS
<1>2. tp = ST!ExtractTensorParamIndex(pa) /\ Described(pa, parts)
  BY <1>1, IncomingFits DEF MessageFits, ST!AxonMessage
<1>3. CASE ST!TensorParams(pa) = {}
  <2>1. tp = 0
    BY <1>2, <1>3 DEF ST!ExtractTensorParamIndex
  <2>2. ST!GetTensorCount(m) = 0
    BY <1>1, <2>1 DEF ST!GetTensorCount
  <2> QED
    BY <2>2
<1>4. ASSUME NEW i \in DOMAIN pa, i # 0, ST!TensorParams(pa) = {i}, Len(parts) \in Nat,
             pa[i].type = "tensor" => 1 <= Len(parts),
             pa[i].type # "tensor" =>
               Len(pa[i].content) \in Nat /\ Len(pa[i].content) <= Len(parts)
      PROVE  ST!GetTensorVec(m)[j] # ST!Thrown
  <2>1. ST!Cardinality({i}) = 1
    <3>1. ST!Cardinality({i}) = Cardinality({i})
      BY Zenon DEF ST!Cardinality, Cardinality
    <3>2. Cardinality({i}) = 1
      BY FS_Singleton
    <3> QED
      BY <3>1, <3>2
  <2>2. tp = i
    BY <1>2, <1>4, <2>1 DEF ST!ExtractTensorParamIndex
  <2>3. PICK n : n = ST!GetTensorCount(m)
    OBVIOUS
  <2>4. n = IF pa[i].type = "tensor" THEN 1 ELSE Len(pa[i].content)
    BY <1>1, <1>4, <2>2, <2>3 DEF ST!GetTensorCount
  <2>5. n \in Nat /\ n <= Len(parts) /\ j \in 1 .. n
    BY <1>4, <2>3, <2>4
  <2>6. j <= n /\ j <= Len(parts) /\ j \in Nat
    BY <1>4, <2>5
  <2>7. ST!GetTensor(m, j) =
          [meta |-> IF pa[i].type = "tensor" THEN pa[i].content ELSE pa[i].content[j],
           data |-> parts[j]]
    <3>2. ~(m.tensorParam = 0 \/ j > ST!GetTensorCount(m)) /\ ~(j > Len(m.payload.parts))
      BY <1>1, <1>4, <2>2, <2>3, <2>5, <2>6
    <3>3. m.params[m.tensorParam] = pa[i] /\ m.payload.parts[j] = parts[j]
      BY <1>1, <2>2
    <3> QED
      BY <3>2, <3>3, Zenon DEF ST!GetTensor
  <2>8. ST!GetTensorVec(m)[j] = ST!GetTensor(m, j)
    BY DEF ST!GetTensorVec
  <2> QED
    BY <2>7, <2>8 DEF ST!Thrown
<1> QED
  BY <1>2, <1>3, <1>4 DEF Described

-----------------------------------------------------------------------------

LEMMA StorageMoves ==
    [PartsNext]_partsVars => [ST!StNext]_storageVars
BY DEF PartsNext, partsVars, Rest, storageVars

LEMMA StorageInit == ST!StInit => StorageInv
<1> SUFFICES ASSUME ST!StInit PROVE StorageInv
  OBVIOUS
<1>1. incoming \in ST!Incoming /\ arrival = <<>> /\ DOMAIN files = Names
      /\ \A n \in Names : files[n] = ST!NoFile
  BY DEF ST!StInit
<1>2. <<>> \in Seq(ST!Incoming)
  OBVIOUS
<1>3. saved \in [Names -> Seq(ST!Incoming)]
  BY <1>2 DEF ST!StInit
<1> QED
  BY <1>1, <1>2, <1>3 DEF StorageInv

LEMMA LoadedBack ==
    ASSUME NEW s \in Seq(ST!Incoming), NEW r, r = Written(s)
    PROVE  /\ ST!Map(r, ST!Deserialize) = ST!Map(s, ST!OnHost)
           /\ ST!Map(r, ST!Deserialize) \in Seq(ST!Incoming)
<1>1. DOMAIN r = 1 .. Len(s) /\ DOMAIN s = 1 .. Len(s) /\ Len(s) \in Nat
  BY DEF Written
<1>2. \A i \in 1 .. Len(s) : ST!Deserialize(r[i]) = ST!OnHost(s[i]) /\ ST!OnHost(s[i]) \in ST!Incoming
  <2> SUFFICES ASSUME NEW i \in 1 .. Len(s)
               PROVE  ST!Deserialize(r[i]) = ST!OnHost(s[i]) /\ ST!OnHost(s[i]) \in ST!Incoming
    OBVIOUS
  <2>1. PICK m \in ST!Incoming : m = s[i]
    OBVIOUS
  <2>2. r[i] = ST!Serialize(m)
    BY <1>1, <2>1 DEF Written
  <2> QED
    BY <2>1, <2>2, IncomingFits, HostedComes, MessageBack
<1>3. PICK w : w = [i \in 1 .. Len(s) |-> ST!OnHost(s[i])]
  OBVIOUS
<1>4. ST!Map(s, ST!OnHost) = w
  BY <1>1, <1>3 DEF ST!Map
<1>5. ST!Map(r, ST!Deserialize) = w
  BY <1>1, <1>2, <1>3 DEF ST!Map
<1>6. w \in Seq(ST!Incoming)
  <2>1. w \in [1 .. Len(s) -> ST!Incoming]
    BY <1>2, <1>3
  <2> QED
    BY <1>1, <2>1
<1> QED
  BY <1>4, <1>5, <1>6

LEMMA WriteToKeeps ==
    ASSUME StorageInv, NEW n \in Names, NEW s \in Seq(ST!Incoming), NEW tails,
           ST!WriteTo(n, s, tails)
    PROVE  StorageInv'
<1>1. PICK tail : files' = [files EXCEPT ![n] = [records |-> ST!Map(s, ST!Serialize), tail |-> tail]]
  BY DEF ST!WriteTo
<1>2. saved' = [saved EXCEPT ![n] = s] /\ UNCHANGED <<incoming, arrival>>
  BY DEF ST!WriteTo
<1>3. PICK f : f = [records |-> ST!Map(s, ST!Serialize), tail |-> tail]
  OBVIOUS
<1>4. f.records = Written(s)
  BY <1>3 DEF ST!Map, Written
<1>5. DOMAIN files' = Names /\ files'[n] = f /\ \A k \in Names : k # n => files'[k] = files[k]
  BY <1>1, <1>3 DEF StorageInv
<1>6. /\ saved' \in [Names -> Seq(ST!Incoming)] /\ saved'[n] = s
      /\ \A k \in Names : k # n => saved'[k] = saved[k]
  BY <1>2 DEF StorageInv
<1>7. \A k \in Names : files'[k] # ST!NoFile => files'[k].records = Written(saved'[k])
  BY <1>4, <1>5, <1>6 DEF StorageInv
<1> QED
  BY <1>2, <1>5, <1>6, <1>7 DEF StorageInv

LEMMA SaveToKeeps ==
    ASSUME StorageInv, NEW n \in Names, NEW s \in Seq(ST!Incoming), ST!SaveTo(n, s)
    PROVE  StorageInv'
<1>1. \A k \in 0 .. Len(s) : SubSeq(s, 1, k) \in Seq(ST!Incoming)
  OBVIOUS
<1> QED
  BY <1>1, WriteToKeeps DEF ST!SaveTo

LEMMA StorageNext ==
    ASSUME StorageInv, [ST!StNext]_storageVars
    PROVE  StorageInv'
<1>t. arrival \in Seq(ST!Incoming) /\ DOMAIN arrival = 1 .. Len(arrival) /\ Len(arrival) \in Nat
  BY DEF StorageInv
<1>1. CASE UNCHANGED storageVars
  BY <1>1 DEF storageVars, StorageInv
<1>2. CASE ST!Emplace
  <2>1. arrival' \in Seq(ST!Incoming)
    BY <1>2, <1>t DEF ST!Emplace, StorageInv
  <2> QED
    BY <1>2, <2>1 DEF ST!Emplace, StorageInv
<1>3. ASSUME NEW i \in DOMAIN arrival, ST!EraseAt(i)
      PROVE  StorageInv'
  <2>1. PICK n : n = Len(arrival) - 1
    OBVIOUS
  <2>2. n \in Nat /\ i \in 1 .. n + 1
    BY <1>t, <2>1
  <2>3. arrival' = [j \in 1 .. n |-> IF j < i THEN arrival[j] ELSE arrival[j + 1]]
    BY <1>3, <2>1 DEF ST!EraseAt
  <2>4. \A j \in 1 .. n : arrival[j] \in ST!Incoming /\ arrival[j + 1] \in ST!Incoming
    BY <1>t, <2>1, <2>2
  <2>5. arrival' \in [1 .. n -> ST!Incoming]
    BY <2>3, <2>4
  <2>6. arrival' \in Seq(ST!Incoming)
    BY <2>2, <2>5
  <2> QED
    BY <1>3, <2>6 DEF ST!EraseAt, StorageInv
<1>4. ASSUME NEW n \in Names, ST!Save(n)
      PROVE  StorageInv'
  BY <1>4, <1>t, SaveToKeeps DEF ST!Save
<1>5. ASSUME NEW n \in Names, NEW i \in DOMAIN arrival, ST!SaveRequest(n, i)
      PROVE  StorageInv'
  <2>1. <<arrival[i]>> \in Seq(ST!Incoming)
    BY <1>t
  <2> QED
    BY <1>5, <2>1, SaveToKeeps DEF ST!SaveRequest
<1>6. ASSUME NEW n \in Names, ST!Load(n)
      PROVE  StorageInv'
  <2>1. files[n] # ST!NoFile /\ arrival' = arrival \o ST!LoadFrom(n)
        /\ UNCHANGED <<incoming, files, saved>>
    BY <1>6 DEF ST!Load, ST!Loadable
  <2>2. PICK s, r : s = saved[n] /\ r = files[n].records
    OBVIOUS
  <2>3. s \in Seq(ST!Incoming) /\ r = Written(s)
    BY <2>1, <2>2 DEF StorageInv
  <2>4. ST!LoadFrom(n) \in Seq(ST!Incoming)
    BY <2>2, <2>3, LoadedBack DEF ST!LoadFrom
  <2>5. arrival' \in Seq(ST!Incoming)
    BY <1>t, <2>1, <2>4
  <2> QED
    BY <2>1, <2>5 DEF StorageInv
<1> QED
  BY <1>1, <1>2, <1>3, <1>4, <1>5, <1>6 DEF ST!StNext

\* Whatever is saved, erased, loaded and saved again, a file gives back the
\* requests last saved to it, the first of them if the save failed, or an
\* error, and every request of the storage has the tensors it describes
\* (AxonStorage, AvroSerialization, AxonMessage).
THEOREM FilesGiveBackWhatWasSaved == PartsSpec => []LoadRestores
<1>1. PartsInit => StorageInv
  BY StorageInit DEF PartsInit
<1>2. StorageInv /\ [PartsNext]_partsVars => StorageInv'
  BY StorageMoves, StorageNext
<1>3. StorageInv => LoadRestores
  <2> SUFFICES ASSUME StorageInv PROVE ST!LoadRestores
    BY DEF LoadRestores
  <2>1. ASSUME NEW n \in Names, ST!Loadable(n)
        PROVE  ST!LoadFrom(n) = ST!Map(saved[n], ST!OnHost)
    <3>1. PICK s, r : s = saved[n] /\ r = files[n].records
      OBVIOUS
    <3>2. s \in Seq(ST!Incoming) /\ r = Written(s)
      BY <2>1, <3>1 DEF StorageInv, ST!Loadable
    <3> QED
      BY <3>1, <3>2, LoadedBack DEF ST!LoadFrom
  <2>2. ASSUME NEW i \in DOMAIN arrival
        PROVE  ST!Thrown \notin
                 {ST!GetTensorVec(arrival[i])[j] : j \in 1 .. ST!GetTensorCount(arrival[i])}
    <3>1. PICK m \in ST!Incoming : m = arrival[i]
      BY DEF StorageInv
    <3>2. \A j \in 1 .. ST!GetTensorCount(m) : ST!GetTensorVec(m)[j] # ST!Thrown
      BY TensorsRead
    <3> QED
      BY <3>1, <3>2, Zenon
  <2> QED
    BY <2>1, <2>2, Zenon DEF ST!LoadRestores
<1> QED
  BY <1>1, <1>2, <1>3, PTL DEF PartsSpec
=============================================================================
