----------------------------- MODULE TimersProofs -----------------------------
(***************************************************************************)
(* Proofs about Timers for any operations, due times and size of the ring: *)
(* an operation completes once and not before its time, the slots of the   *)
(* ring are accounted for, and the loop is woken for its first timer.      *)
(*                                                                         *)
(* Sequences need induction.  The library states induction over an         *)
(* operator, which the provers cannot instantiate; Induction below states  *)
(* it over a set, from the well-foundedness of < on Nat.                   *)
(***************************************************************************)
EXTENDS Timers, FiniteSetTheorems, SequenceTheorems, WellFoundedInduction, TLAPS

-----------------------------------------------------------------------------
(***************************************************************************)
(* The inductive invariant.                                                *)
(***************************************************************************)

Entries == [slot : Int, res : {0, 1}]

IoRecords ==
    [sqUnflushedCount : Int, cq : Seq(Entries), tail : Int,
     activeTimerCount : Int, armed : 0 .. MaxTime,
     timerId : {"zero", "set", "deleted"}, lastTimerOp : Ops \cup {None},
     entryRef : [Ops -> Int], leaked : Int, doubled : BOOLEAN]

\* The rest of the types.
Shapes ==
    /\ io \in IoRecords
    /\ handler.on \in BOOLEAN
    /\ now \in 1 .. MaxTime
    /\ due \in [Ops -> DueTimes]
    /\ canBeCancelled \in [Ops -> BOOLEAN]
    /\ elapsed \in [Ops -> BOOLEAN]
    /\ cancelPending \in [Ops -> BOOLEAN]
    /\ stopRequested \in [Ops -> BOOLEAN]

Ready(o) == Has(batch, o) \/ Has(localQueue, o) \/ Has(remoteQueue, o)

NoRepeats(s) == \A i, j \in DOMAIN s : s[i] = s[j] => i = j

\* The queues are disjoint and repeat nothing.
Once ==
    /\ NoRepeats(batch) /\ NoRepeats(localQueue) /\ NoRepeats(remoteQueue)
    /\ NoRepeats(timers)
    /\ \A o \in Ops : /\ ~(Has(batch, o) /\ Has(localQueue, o))
                      /\ ~(Has(batch, o) /\ Has(remoteQueue, o))
                      /\ ~(Has(localQueue, o) /\ Has(remoteQueue, o))

\* Where an operation is, at each point of its life.  With a stop callback,
\* the winner of the race of the two flags enqueues it.
Stage(o) ==
    \/ /\ completed[o] # "no"
       /\ execute[o] \in {"value", "done", "remove"}
       /\ ~Ready(o) /\ ~Has(timers, o)
       /\ stopper[o] \in {"no", "finished"}
       /\ callback[o] \in {"unset", "gone"}
    \/ /\ completed[o] = "no"
       /\ execute[o] \in {"new", "schedule"}
       /\ Ready(o) <=> execute[o] = "schedule"
       /\ ~Has(timers, o) /\ ~elapsed[o] /\ ~cancelPending[o]
       /\ stopper[o] \in {"no", "finished"}
       /\ callback[o] = "unset"
    \/ /\ completed[o] = "no"
       /\ execute[o] = "done"
       /\ Ready(o) /\ ~Has(timers, o)
       /\ stopper[o] \in {"no", "finished"}
       /\ callback[o] \in {"unset", "gone"}
    \/ /\ completed[o] = "no"
       /\ execute[o] = "value"
       /\ ~canBeCancelled[o] /\ ~elapsed[o]
       /\ Ready(o) <=> ~Has(timers, o)
       /\ callback[o] = "unset"
    \/ /\ completed[o] = "no"
       /\ execute[o] = "value"
       /\ canBeCancelled[o] /\ ~elapsed[o] /\ ~cancelPending[o]
       /\ ~Ready(o) /\ Has(timers, o)
       /\ stopper[o] \in {"no", "finished"}
       /\ callback[o] = "pending"
    \/ /\ completed[o] = "no"
       /\ execute[o] = "value"
       /\ canBeCancelled[o] /\ ~cancelPending[o]
       /\ Ready(o) <=> elapsed[o]
       /\ Has(timers, o) <=> ~elapsed[o]
       /\ stopper[o] \in {"no", "running"}
       /\ callback[o] = "registered"
    \/ /\ completed[o] = "no"
       /\ execute[o] = "value"
       /\ canBeCancelled[o] /\ cancelPending[o]
       /\ ~Ready(o)
       /\ Has(timers, o) <=> ~elapsed[o]
       /\ stopper[o] = "enqueue"
       /\ callback[o] = "registered"
    \/ /\ completed[o] = "no"
       /\ execute[o] = "value"
       /\ canBeCancelled[o] /\ cancelPending[o] /\ elapsed[o]
       /\ Ready(o) /\ ~Has(timers, o)
       /\ stopper[o] = "finished"
       /\ callback[o] = "registered"
    \/ /\ completed[o] = "no"
       /\ execute[o] = "remove"
       /\ canBeCancelled[o] /\ cancelPending[o]
       /\ Ready(o)
       /\ Has(timers, o) <=> ~elapsed[o]
       /\ stopper[o] = "finished"
       /\ callback[o] = "registered"

\* A stop request begins once and only of an operation that can be cancelled.
Stopping(o) ==
    /\ stopper[o] # "no" => stopRequested[o]
    /\ ~canBeCancelled[o] => stopper[o] = "no"

\* What is enqueued to complete with a value has come due.
OnTime(o) ==
    \/ completed[o] = "no" /\ execute[o] = "value" /\ Ready(o)
    \/ completed[o] = "value"
    => due[o] <= now

\* The I/O thread constructs one stop callback at a time, and it leaves "exec"
\* when the batch is done.
Constructing ==
    /\ pc \in {"take", "timers", "remote"} => batch = <<>>
    /\ \A o \in Ops : callback[o] = "pending" => pc \in {"construct", "torn"}
    /\ \A o, p \in Ops : callback[o] = "pending" /\ callback[p] = "pending" => o = p

Sorted == \A i, j \in DOMAIN timers : i < j => due[timers[i]] <= due[timers[j]]

\* An entry for which acquire_completion_queue_items marks the timers dirty.
Telling == \E i \in DOMAIN io.cq : io.cq[i].res = 0

AsInt(b) == IF b THEN 1 ELSE 0

\* The ring and the POSIX timer before any overlap.  While no timer had two
\* entries, currentDueTime_ is what the armed timer is set to, or an entry
\* that will be acquired is in the ring or coming.
Ring ==
    IF pc = "torn" THEN ~handler.on
    ELSE
        LET coming == AsInt(io.armed # NoTime) + AsInt(handler.on)
        IN /\ io.leaked >= 0
           /\ io.sqUnflushedCount = io.leaked + coming
           /\ ~io.doubled =>
                /\ io.activeTimerCount = Len(io.cq) + coming
                /\ io.armed # NoTime => currentDueTime = io.armed
                /\ currentDueTime # NoTime =>
                     Telling \/ handler.on \/ io.armed # NoTime

Wake ==
    pc # "torn" /\ ~io.doubled /\ timers # <<>> /\ ~timersAreDirty =>
        \/ Telling
        \/ handler.on
        \/ io.armed # NoTime /\ io.armed <= due[Head(timers)]

OpsInv == \A o \in Ops : Stage(o) /\ Stopping(o) /\ OnTime(o)

IInv ==
    /\ TypeOK /\ Shapes
    /\ Once /\ OpsInv /\ Constructing
    /\ Sorted /\ Ring /\ Wake

-----------------------------------------------------------------------------
(***************************************************************************)
(* Sequences.                                                              *)
(***************************************************************************)

(* A nonempty set of naturals has a least element.                         *)
LEMMA LeastNat ==
    ASSUME NEW T \in SUBSET Nat, T # {}
    PROVE  \E m \in T : \A k \in T : m <= k
<1> DEFINE R == {ss \in Nat \X Nat : ss[1] < ss[2]}
<1>1. IsWellFoundedOn(R, Nat)
  BY NatLessThanWellFounded DEF OpToRel
<1> HIDE DEF R
<1>2. PICK m \in T : \A k \in T : ~ (<<k, m>> \in R)
  BY <1>1, WFMin
<1>3. \A k \in T : ~(k < m)
  BY <1>2 DEF R
<1> QED
  BY <1>3

\* A set of naturals with 0 and with the successors of its elements up to n.
LEMMA Induction ==
    ASSUME NEW n \in Nat, NEW G, 0 \in G, \A i \in 0 .. n - 1 : i \in G => i + 1 \in G
    PROVE  \A i \in 0 .. n : i \in G
<1> SUFFICES ASSUME NEW j \in 0 .. n, j \notin G
             PROVE  FALSE
  OBVIOUS
<1> DEFINE T == {i \in 0 .. n : i \notin G}
<1>4. T \in SUBSET Nat /\ T # {}
  OBVIOUS
<1>1. PICK m \in T : \A k \in T : m <= k
  <2> HIDE DEF T
  <2> QED
    BY <1>4, LeastNat
<1>2. m \in Nat /\ m # 0 /\ m - 1 \in 0 .. n - 1
  BY <1>1
<1>3. m - 1 \in G
  BY <1>1, <1>2
<1> QED
  BY <1>1, <1>2, <1>3

(* Keep is computed element by element.                                    *)
KeepsUpTo(f, s, S) ==
    /\ f[0] = <<>>
    /\ \A i \in 1 .. Len(s) :
         f[i] = IF s[i] \in S THEN Append(f[i - 1], s[i]) ELSE f[i - 1]

LEMMA KeepSteps ==
    ASSUME NEW T, NEW s \in Seq(T), NEW S
    PROVE  \E f \in [0 .. Len(s) -> Seq(T)] :
             Keep(s, S) = f[Len(s)] /\ KeepsUpTo(f, s, S)
<1> DEFINE n == Len(s)
           Step(f, i) == IF s[i] \in S THEN Append(f[i - 1], s[i]) ELSE f[i - 1]
           Is(f, m) == f[0] = <<>> /\ \A i \in 1 .. m : f[i] = Step(f, i)
           G == {m \in 0 .. n : \E f \in [0 .. m -> Seq(T)] : Is(f, m)}
<1>1. n \in Nat /\ \A i \in 1 .. n : s[i] \in T
  OBVIOUS
<1>2. 0 \in G
  <2> DEFINE e == [i \in 0 .. 0 |-> <<>>]
  <2>1. e \in [0 .. 0 -> Seq(T)] /\ Is(e, 0)
    OBVIOUS
  <2>2. 0 \in 0 .. n
    BY <1>1
  <2> HIDE DEF e, Is
  <2> QED
    BY <2>1, <2>2
<1>3. ASSUME NEW m \in 0 .. n - 1, m \in G
      PROVE  m + 1 \in G
  <2>1. PICK f \in [0 .. m -> Seq(T)] : Is(f, m)
    BY <1>3
  <2> DEFINE x == IF s[m + 1] \in S THEN Append(f[m], s[m + 1]) ELSE f[m]
             g == [i \in 0 .. m + 1 |-> IF i = m + 1 THEN x ELSE f[i]]
  <2>2. x \in Seq(T)
    BY <1>1, <2>1
  <2>3. g \in [0 .. m + 1 -> Seq(T)]
    BY <2>1, <2>2
  <2>4. Is(g, m + 1)
    <3>1. g[0] = <<>> /\ g[m] = f[m] /\ g[m + 1] = x
      BY <1>1, <2>1
    <3>2. \A i \in 1 .. m : g[i] = f[i] /\ g[i - 1] = f[i - 1] /\ f[i] = Step(f, i)
      BY <1>1, <2>1
    <3>3. \A i \in 1 .. m + 1 : i = m + 1 \/ i \in 1 .. m
      BY <1>1
    <3>4. (m + 1) - 1 = m
      BY <1>1
    <3> HIDE DEF g, x
    <3>5. g[m + 1] = Step(g, m + 1)
      BY <3>1, <3>4 DEF x
    <3>6. \A i \in 1 .. m : g[i] = Step(g, i)
      BY <3>2
    <3> QED
      BY <3>1, <3>3, <3>5, <3>6
  <2>5. m + 1 \in 0 .. n
    BY <1>1
  <2> HIDE DEF g, Is
  <2> QED
    BY <2>3, <2>4, <2>5
<1>4. n \in G
  <2>1. n \in 0 .. n
    BY <1>1
  <2> HIDE DEF G, n
  <2>2. \A m \in 0 .. n - 1 : m \in G => m + 1 \in G
    BY <1>3
  <2>3. \A m \in 0 .. n : m \in G
    BY <1>1, <1>2, <2>2, Induction
  <2> QED
    BY <2>1, <2>3
<1>5. PICK f \in [0 .. n -> Seq(T)] : Is(f, n)
  BY <1>4
<1> DEFINE kept == CHOOSE k : k = [i \in 0 .. Len(s) |->
                     IF i = 0 THEN <<>>
                     ELSE IF s[i] \in S THEN Append(k[i - 1], s[i]) ELSE k[i - 1]]
<1>6. f = [i \in 0 .. Len(s) |->
             IF i = 0 THEN <<>>
             ELSE IF s[i] \in S THEN Append(f[i - 1], s[i]) ELSE f[i - 1]]
  <2>1. \A i \in 0 .. n : i = 0 \/ i \in 1 .. n
    BY <1>1
  <2>2. \A i \in 0 .. n : f[i] = IF i = 0 THEN <<>> ELSE Step(f, i)
    BY <1>5, <2>1
  <2> QED
    BY <1>5, <2>2, Zenon
<1>7. kept = [i \in 0 .. Len(s) |->
             IF i = 0 THEN <<>>
             ELSE IF s[i] \in S THEN Append(kept[i - 1], s[i]) ELSE kept[i - 1]]
  BY <1>6, Zenon
<1>8. Keep(s, S) = kept[Len(s)]
  BY DEF Keep
<1> HIDE DEF kept
<1>12. \A i \in 0 .. Len(s) : kept[i] = IF i = 0 THEN <<>> ELSE Step(kept, i)
  BY <1>7, Zenon
<1>9. kept[0] = <<>> /\ \A i \in 1 .. n : kept[i] = Step(kept, i)
  <2>1. 0 \in 0 .. n /\ \A i \in 1 .. n : i \in 0 .. n /\ i # 0
    BY <1>1
  <2> QED
    BY <1>12, <2>1, Zenon
<1>10. \A i \in 0 .. n : kept[i] \in Seq(T)
  <2> DEFINE H == {i \in 0 .. n : kept[i] \in Seq(T)}
  <2>1. 0 \in H
    <3>1. 0 \in 0 .. n /\ <<>> \in Seq(T)
      BY <1>1
    <3> QED
      BY <1>9, <3>1
  <2>2. \A i \in 0 .. n - 1 : i \in H => i + 1 \in H
    <3> SUFFICES ASSUME NEW i \in 0 .. n - 1, kept[i] \in Seq(T)
                 PROVE  kept[i + 1] \in Seq(T)
      BY <1>1
    <3>1. i + 1 \in 1 .. n /\ (i + 1) - 1 = i
      BY <1>1
    <3>2. kept[i + 1] = IF s[i + 1] \in S THEN Append(kept[i], s[i + 1]) ELSE kept[i]
      BY <1>9, <3>1
    <3> QED
      BY <1>1, <3>1, <3>2
  <2> HIDE DEF H
  <2>3. \A i \in 0 .. n : i \in H
    BY <1>1, <2>1, <2>2, Induction
  <2> QED
    BY <2>3 DEF H
<1>11. kept \in [0 .. n -> Seq(T)]
  BY <1>7, <1>10
<1>13. KeepsUpTo(kept, s, S)
  BY <1>9 DEF KeepsUpTo
<1> QED
  BY <1>8, <1>11, <1>13

(* What Keep keeps: the elements in S, in their order.                     *)
Picks(g, s, S, t) ==
    /\ \A j \in 1 .. Len(t) : t[j] = s[g[j]] /\ s[g[j]] \in S
    /\ \A j, k \in 1 .. Len(t) : j < k => g[j] < g[k]
    /\ \A i \in 1 .. Len(s) : s[i] \in S => \E j \in 1 .. Len(t) : g[j] = i

LEMMA KeepIndices ==
    ASSUME NEW T, NEW s \in Seq(T), NEW S
    PROVE  /\ Keep(s, S) \in Seq(T)
           /\ \E g \in [1 .. Len(Keep(s, S)) -> 1 .. Len(s)] :
                Picks(g, s, S, Keep(s, S))
<1>1. PICK f \in [0 .. Len(s) -> Seq(T)] :
             Keep(s, S) = f[Len(s)] /\ KeepsUpTo(f, s, S)
  BY KeepSteps
<1>2. Len(s) \in Nat /\ \A i \in 1 .. Len(s) : s[i] \in T
  OBVIOUS
<1> DEFINE n == Len(s)
           Good(t, m) ==
             \E g \in [1 .. Len(t) -> 1 .. m] :
               /\ \A j \in 1 .. Len(t) : t[j] = s[g[j]] /\ s[g[j]] \in S
               /\ \A j, k \in 1 .. Len(t) : j < k => g[j] < g[k]
               /\ \A i \in 1 .. m : s[i] \in S => \E j \in 1 .. Len(t) : g[j] = i
           G == {m \in 0 .. n : Good(f[m], m)}
<1>3. 0 \in G
  <2> DEFINE e == [i \in 1 .. 0 |-> 1]
  <2>1. f[0] = <<>> /\ Len(f[0]) = 0 /\ 0 \in 0 .. n
    BY <1>1, <1>2 DEF KeepsUpTo
  <2>2. e \in [1 .. Len(f[0]) -> 1 .. 0]
    BY <2>1
  <2>3. Good(f[0], 0)
    <3> HIDE DEF e
    <3> WITNESS e \in [1 .. Len(f[0]) -> 1 .. 0]
    <3> QED
      BY <2>1, <2>2
  <2> QED
    BY <2>1, <2>3
<1>4. ASSUME NEW m \in 0 .. n - 1, m \in G
      PROVE  m + 1 \in G
  <2>1. PICK g \in [1 .. Len(f[m]) -> 1 .. m] :
          /\ \A j \in 1 .. Len(f[m]) : f[m][j] = s[g[j]] /\ s[g[j]] \in S
          /\ \A j, k \in 1 .. Len(f[m]) : j < k => g[j] < g[k]
          /\ \A i \in 1 .. m : s[i] \in S => \E j \in 1 .. Len(f[m]) : g[j] = i
    BY <1>4
  <2>2. /\ m \in Nat /\ m + 1 \in 1 .. n /\ m + 1 \in 0 .. n /\ (m + 1) - 1 = m
        /\ m \in 0 .. n
    BY <1>2
  <2>3. f[m] \in Seq(T) /\ f[m + 1] \in Seq(T) /\ Len(f[m]) \in Nat
    <3>1. f[m] \in Seq(T) /\ f[m + 1] \in Seq(T)
      BY <2>2
    <3> QED
      BY <3>1
  <2>4. f[m + 1] = IF s[m + 1] \in S THEN Append(f[m], s[m + 1]) ELSE f[m]
    BY <1>1, <2>2 DEF KeepsUpTo
  <2>5. ASSUME s[m + 1] \notin S
        PROVE  Good(f[m + 1], m + 1)
    <3>1. f[m + 1] = f[m]
      BY <2>4, <2>5
    <3>2. g \in [1 .. Len(f[m]) -> 1 .. m + 1]
      BY <2>1, <2>2
    <3>3. \A i \in 1 .. m + 1 : i \in 1 .. m \/ i = m + 1
      BY <2>2
    <3> QED
      BY <2>1, <2>5, <3>1, <3>2, <3>3
  <2>6. ASSUME s[m + 1] \in S
        PROVE  Good(f[m + 1], m + 1)
    <3> DEFINE l == Len(f[m])
               h == [j \in 1 .. l + 1 |-> IF j = l + 1 THEN m + 1 ELSE g[j]]
    <3>4. l \in Nat /\ g \in [1 .. l -> 1 .. m]
      BY <2>1, <2>3
    <3>1. /\ f[m + 1] = Append(f[m], s[m + 1]) /\ Len(f[m + 1]) = l + 1
          /\ f[m + 1][l + 1] = s[m + 1]
          /\ \A j \in 1 .. l : f[m + 1][j] = f[m][j]
      BY <1>2, <2>2, <2>3, <2>4, <2>6
    <3>2. h \in [1 .. Len(f[m + 1]) -> 1 .. m + 1]
      BY <2>1, <2>2, <2>3, <3>1
    <3>3. /\ h[l + 1] = m + 1 /\ l + 1 \in 1 .. l + 1
          /\ \A j \in 1 .. l : h[j] = g[j] /\ g[j] \in 1 .. m /\ j \in 1 .. l + 1
          /\ \A j \in 1 .. l + 1 : j \in 1 .. l \/ j = l + 1
          /\ \A i \in 1 .. m + 1 : i \in 1 .. m \/ i = m + 1
      <4> HIDE DEF l
      <4>1. l + 1 \in 1 .. l + 1 /\ \A j \in 1 .. l : j \in 1 .. l + 1 /\ j # l + 1
        BY <3>4
      <4>2. /\ \A j \in 1 .. l + 1 : j \in 1 .. l \/ j = l + 1
            /\ \A i \in 1 .. m + 1 : i \in 1 .. m \/ i = m + 1
        BY <2>2, <3>4
      <4>3. h[l + 1] = m + 1 /\ \A j \in 1 .. l : h[j] = g[j] /\ g[j] \in 1 .. m
        BY <3>4, <4>1, Zenon
      <4> QED
        BY <4>1, <4>2, <4>3, Zenon
    <3> HIDE DEF h, l
    <3>5. \A j \in 1 .. l + 1 : f[m + 1][j] = s[h[j]] /\ s[h[j]] \in S
      BY <2>1, <2>6, <3>1, <3>3 DEF l
    <3>6. \A j, k \in 1 .. l + 1 : j < k => h[j] < h[k]
      <4> SUFFICES ASSUME NEW j \in 1 .. l + 1, NEW k \in 1 .. l + 1, j < k
                   PROVE  h[j] < h[k]
        OBVIOUS
      <4>1. j \in 1 .. l
        BY <3>4
      <4>2. CASE k = l + 1
        BY <2>2, <3>3, <4>1, <4>2
      <4>3. CASE k \in 1 .. l
        BY <2>1, <3>3, <4>1, <4>3 DEF l
      <4> QED
        BY <3>3, <4>2, <4>3
    <3>7. \A i \in 1 .. m + 1 : s[i] \in S => \E j \in 1 .. l + 1 : h[j] = i
      <4> SUFFICES ASSUME NEW i \in 1 .. m + 1, s[i] \in S
                   PROVE  \E j \in 1 .. l + 1 : h[j] = i
        OBVIOUS
      <4>1. CASE i = m + 1
        BY <3>3, <4>1
      <4>2. CASE i \in 1 .. m
        <5>1. PICK j \in 1 .. l : g[j] = i
          BY <2>1, <4>2 DEF l
        <5> QED
          BY <3>3, <5>1
      <4> QED
        BY <3>3, <4>1, <4>2
    <3>8. Len(f[m + 1]) = l + 1
      BY <3>1
    <3> QED
      <4> WITNESS h \in [1 .. Len(f[m + 1]) -> 1 .. m + 1]
      <4> QED
        BY <3>5, <3>6, <3>7, <3>8
  <2>7. Good(f[m + 1], m + 1)
    BY <2>5, <2>6
  <2> HIDE DEF Good
  <2> QED
    BY <2>2, <2>7
<1>5. n \in G
  <2>1. n \in 0 .. n
    BY <1>2
  <2>2. n \in Nat
    BY <1>2
  <2> HIDE DEF G, n
  <2>3. \A m \in 0 .. n - 1 : m \in G => m + 1 \in G
    BY <1>4
  <2>4. \A m \in 0 .. n : m \in G
    BY <2>2, <1>3, <2>3, Induction
  <2> QED
    BY <2>1, <2>4
<1>6. Good(f[n], n)
  BY <1>5
<1>7. f[n] \in Seq(T)
  BY <1>1, <1>2
<1>8. Good(Keep(s, S), n)
  <2> HIDE DEF Good
  <2> QED
    BY <1>1, <1>6
<1>9. Keep(s, S) \in Seq(T)
  BY <1>1, <1>7
<1> QED
  BY <1>8, <1>9, Zenon DEF Picks

(* The same as facts about Has, NoRepeats, the order and the head.         *)
LEMMA KeepFacts ==
    ASSUME NEW T, NEW s \in Seq(T), NEW S
    PROVE  /\ Keep(s, S) \in Seq(T)
           /\ \A o : Has(Keep(s, S), o) <=> Has(s, o) /\ o \in S
           /\ NoRepeats(s) => NoRepeats(Keep(s, S))
           /\ Keep(s, S) = <<>> <=> \A i \in 1 .. Len(s) : s[i] \notin S
           /\ s # <<>> /\ Head(s) \in S => Keep(s, S) # <<>> /\ Head(Keep(s, S)) = Head(s)
<1> DEFINE t == Keep(s, S)
<1>1. t \in Seq(T)
  BY KeepIndices
<1>0. PICK g \in [1 .. Len(t) -> 1 .. Len(s)] : Picks(g, s, S, t)
  BY KeepIndices
<1>2. /\ \A j \in 1 .. Len(t) : t[j] = s[g[j]] /\ s[g[j]] \in S
      /\ \A j, k \in 1 .. Len(t) : j < k => g[j] < g[k]
      /\ \A i \in 1 .. Len(s) : s[i] \in S => \E j \in 1 .. Len(t) : g[j] = i
  BY <1>0, Zenon DEF Picks
<1> HIDE DEF t
<1>3. /\ DOMAIN t = 1 .. Len(t) /\ DOMAIN s = 1 .. Len(s)
      /\ Len(t) \in Nat /\ Len(s) \in Nat
  BY <1>1
<1>4. \A j \in 1 .. Len(t) : g[j] \in 1 .. Len(s)
  BY <1>2
<1>5. ASSUME NEW o
      PROVE  Has(t, o) <=> Has(s, o) /\ o \in S
  <2>1. ASSUME NEW j \in 1 .. Len(t), t[j] = o
        PROVE  Has(s, o) /\ o \in S
    <3>1. s[g[j]] = o /\ o \in S /\ g[j] \in 1 .. Len(s)
      BY <1>2, <1>4, <2>1
    <3> QED
      BY <1>3, <3>1 DEF Has
  <2>2. ASSUME NEW i \in 1 .. Len(s), s[i] = o, o \in S
        PROVE  Has(t, o)
    <3>1. PICK j \in 1 .. Len(t) : g[j] = i
      BY <1>2, <2>2
    <3>2. t[j] = o
      BY <1>2, <2>2, <3>1
    <3> QED
      BY <1>3, <3>2 DEF Has
  <2>3. Has(t, o) <=> \E j \in 1 .. Len(t) : t[j] = o
    BY <1>3 DEF Has
  <2>4. Has(s, o) <=> \E i \in 1 .. Len(s) : s[i] = o
    BY <1>3 DEF Has
  <2> QED
    BY <2>1, <2>2, <2>3, <2>4
<1>6. NoRepeats(s) => NoRepeats(t)
  <2> SUFFICES ASSUME NoRepeats(s), NEW i \in 1 .. Len(t), NEW j \in 1 .. Len(t), t[i] = t[j]
               PROVE  i = j
    BY <1>3 DEF NoRepeats
  <2>1. g[i] = g[j]
    BY <1>2, <1>3, <1>4 DEF NoRepeats
  <2>2. ~(g[i] < g[j]) /\ ~(g[j] < g[i])
    BY <1>4, <2>1
  <2>3. ~(i < j) /\ ~(j < i)
    BY <1>2, <2>2
  <2> QED
    BY <1>3, <2>3
<1>7. t = <<>> <=> \A i \in 1 .. Len(s) : s[i] \notin S
  <2>1. t = <<>> <=> Len(t) = 0
    BY <1>1
  <2>2. ASSUME Len(t) = 0, NEW i \in 1 .. Len(s), s[i] \in S
        PROVE  FALSE
    BY <1>2, <2>2
  <2>3. ASSUME Len(t) # 0
        PROVE  \E i \in 1 .. Len(s) : s[i] \in S
    <3>1. 1 \in 1 .. Len(t)
      BY <1>3, <2>3
    <3> QED
      BY <1>2, <1>4, <3>1
  <2> QED
    BY <2>1, <2>2, <2>3
<1>8. s # <<>> /\ Head(s) \in S => t # <<>> /\ Head(t) = Head(s)
  <2> SUFFICES ASSUME s # <<>>, Head(s) \in S
               PROVE  t # <<>> /\ Head(t) = Head(s)
    OBVIOUS
  <2>1. 1 \in 1 .. Len(s) /\ Head(s) = s[1]
    BY <1>3
  <2>2. PICK j \in 1 .. Len(t) : g[j] = 1
    BY <1>2, <2>1
  <2>3. 1 \in 1 .. Len(t)
    BY <1>3
  <2>4. j = 1
    BY <1>2, <1>3, <1>4, <2>2, <2>3
  <2>5. t # <<>> /\ Head(t) = t[1]
    BY <1>1, <2>3
  <2> QED
    BY <1>2, <2>1, <2>2, <2>3, <2>4, <2>5
<1> QED
  BY <1>1, <1>5, <1>6, <1>7, <1>8 DEF t

(* An order that the elements of s follow, its part follows too.           *)
LEMMA KeepOrder ==
    ASSUME NEW T, NEW s \in Seq(T), NEW S, NEW R,
           \A i, j \in 1 .. Len(s) : i < j => <<s[i], s[j]>> \in R
    PROVE  \A i, j \in 1 .. Len(Keep(s, S)) :
             i < j => <<Keep(s, S)[i], Keep(s, S)[j]>> \in R
<1> DEFINE t == Keep(s, S)
<1>0. PICK g \in [1 .. Len(t) -> 1 .. Len(s)] : Picks(g, s, S, t)
  BY KeepIndices
<1>2. /\ \A j \in 1 .. Len(t) : t[j] = s[g[j]] /\ s[g[j]] \in S
      /\ \A j, k \in 1 .. Len(t) : j < k => g[j] < g[k]
      /\ \A i \in 1 .. Len(s) : s[i] \in S => \E j \in 1 .. Len(t) : g[j] = i
  BY <1>0, Zenon DEF Picks
<1> HIDE DEF t
<1>3. \A j \in 1 .. Len(t) : g[j] \in 1 .. Len(s)
  BY <1>2
<1>4. \A i, j \in 1 .. Len(t) : i < j => <<t[i], t[j]>> \in R
  BY <1>2, <1>3
<1> QED
  BY <1>4 DEF t

(* The other sequence operators of the module.                             *)
LEMMA EmptyFacts == NoRepeats(<<>>) /\ \A o : ~Has(<<>>, o)
BY DEF NoRepeats, Has

LEMMA ConcatFacts ==
    ASSUME NEW T, NEW s \in Seq(T), NEW t \in Seq(T)
    PROVE  /\ s \o t \in Seq(T)
           /\ \A o : Has(s \o t, o) <=> Has(s, o) \/ Has(t, o)
           /\ NoRepeats(s) /\ NoRepeats(t) /\ (\A o : ~(Has(s, o) /\ Has(t, o)))
                => NoRepeats(s \o t)
<1> DEFINE c == s \o t
<1>1. /\ c \in Seq(T) /\ Len(c) = Len(s) + Len(t)
      /\ \A i \in 1 .. Len(c) : c[i] = IF i <= Len(s) THEN s[i] ELSE t[i - Len(s)]
      /\ Len(s) \in Nat /\ Len(t) \in Nat
      /\ DOMAIN c = 1 .. Len(c) /\ DOMAIN s = 1 .. Len(s) /\ DOMAIN t = 1 .. Len(t)
  BY ConcatProperties
<1> HIDE DEF c
<1>2. ASSUME NEW i \in 1 .. Len(c)
      PROVE  \/ i \in 1 .. Len(s) /\ c[i] = s[i]
             \/ i - Len(s) \in 1 .. Len(t) /\ c[i] = t[i - Len(s)] /\ i > Len(s)
  BY <1>1
<1>3. \A o : Has(c, o) <=> Has(s, o) \/ Has(t, o)
  <2> TAKE o
  <2>1. Has(c, o) => Has(s, o) \/ Has(t, o)
    BY <1>1, <1>2 DEF Has
  <2>2. Has(s, o) => Has(c, o)
    <3> SUFFICES ASSUME NEW i \in 1 .. Len(s), s[i] = o
                 PROVE  Has(c, o)
      BY <1>1 DEF Has
    <3>1. i \in 1 .. Len(c) /\ c[i] = o
      BY <1>1
    <3> QED
      BY <1>1, <3>1 DEF Has
  <2>3. Has(t, o) => Has(c, o)
    <3> SUFFICES ASSUME NEW i \in 1 .. Len(t), t[i] = o
                 PROVE  Has(c, o)
      BY <1>1 DEF Has
    <3> DEFINE j == i + Len(s)
    <3>1. j \in 1 .. Len(c) /\ ~(j <= Len(s)) /\ j - Len(s) = i
      BY <1>1
    <3>2. c[j] = o
      BY <1>1, <3>1
    <3> QED
      BY <1>1, <3>1, <3>2 DEF Has
  <2> QED
    BY <2>1, <2>2, <2>3
<1>4. ASSUME NoRepeats(s), NoRepeats(t), \A o : ~(Has(s, o) /\ Has(t, o))
      PROVE  NoRepeats(c)
  <2> SUFFICES ASSUME NEW i \in 1 .. Len(c), NEW j \in 1 .. Len(c), c[i] = c[j]
               PROVE  i = j
    BY <1>1 DEF NoRepeats
  <2>1. CASE i \in 1 .. Len(s) /\ c[i] = s[i]
    <3>1. Has(s, c[i])
      BY <1>1, <2>1 DEF Has
    <3>2. ~Has(t, c[j])
      BY <1>4, <3>1
    <3>3. j \in 1 .. Len(s) /\ c[j] = s[j]
      BY <1>1, <1>2, <3>2 DEF Has
    <3> QED
      BY <1>1, <1>4, <2>1, <3>3 DEF NoRepeats
  <2>2. CASE i - Len(s) \in 1 .. Len(t) /\ c[i] = t[i - Len(s)] /\ i > Len(s)
    <3>1. Has(t, c[i])
      BY <1>1, <2>2 DEF Has
    <3>2. ~Has(s, c[j])
      BY <1>4, <3>1
    <3>3. j - Len(s) \in 1 .. Len(t) /\ c[j] = t[j - Len(s)] /\ j > Len(s)
      BY <1>1, <1>2, <3>2 DEF Has
    <3>4. i - Len(s) = j - Len(s)
      BY <1>1, <1>4, <2>2, <3>3 DEF NoRepeats
    <3> QED
      BY <1>1, <3>4
  <2> QED
    BY <1>2, <2>1, <2>2
<1> QED
  BY <1>1, <1>3, <1>4 DEF c

LEMMA AppendFacts ==
    ASSUME NEW T, NEW s \in Seq(T), NEW x \in T
    PROVE  /\ Append(s, x) \in Seq(T)
           /\ \A o : Has(Append(s, x), o) <=> Has(s, o) \/ o = x
           /\ NoRepeats(s) /\ ~Has(s, x) => NoRepeats(Append(s, x))
<1> DEFINE a == Append(s, x)
<1>1. /\ a \in Seq(T) /\ Len(a) = Len(s) + 1 /\ Len(s) \in Nat
      /\ a[Len(s) + 1] = x /\ \A i \in 1 .. Len(s) : a[i] = s[i]
      /\ DOMAIN a = 1 .. Len(s) + 1 /\ DOMAIN s = 1 .. Len(s)
  OBVIOUS
<1> HIDE DEF a
<1>2. /\ Len(s) + 1 \in 1 .. Len(s) + 1
      /\ \A i \in 1 .. Len(s) + 1 : i \in 1 .. Len(s) \/ i = Len(s) + 1
      /\ \A i \in 1 .. Len(s) : i \in 1 .. Len(s) + 1
  BY <1>1
<1>3. \A o : Has(a, o) <=> Has(s, o) \/ o = x
  BY <1>1, <1>2 DEF Has
<1>4. NoRepeats(s) /\ ~Has(s, x) => NoRepeats(a)
  BY <1>1, <1>2 DEF NoRepeats, Has
<1> QED
  BY <1>1, <1>3, <1>4 DEF a

LEMMA TailFacts ==
    ASSUME NEW T, NEW s \in Seq(T), s # <<>>, NoRepeats(s)
    PROVE  /\ Tail(s) \in Seq(T) /\ Head(s) \in T /\ Has(s, Head(s))
           /\ \A o : Has(Tail(s), o) <=> Has(s, o) /\ o # Head(s)
           /\ NoRepeats(Tail(s))
<1> DEFINE a == Tail(s)
<1>1. /\ a \in Seq(T) /\ Len(a) = Len(s) - 1 /\ Len(s) \in Nat \ {0}
      /\ \A i \in 1 .. Len(a) : a[i] = s[i + 1]
      /\ DOMAIN a = 1 .. Len(s) - 1 /\ DOMAIN s = 1 .. Len(s)
      /\ Head(s) = s[1] /\ Head(s) \in T
  OBVIOUS
<1> HIDE DEF a
<1>2. /\ 1 \in 1 .. Len(s)
      /\ \A i \in 1 .. Len(s) - 1 : i + 1 \in 1 .. Len(s) /\ i + 1 # 1
      /\ \A i \in 1 .. Len(s) : i = 1 \/ (i - 1 \in 1 .. Len(s) - 1 /\ (i - 1) + 1 = i)
      /\ \A i, j \in 1 .. Len(s) - 1 : i + 1 = j + 1 => i = j
  BY <1>1
<1>3. \A o : Has(a, o) <=> Has(s, o) /\ o # Head(s)
  <2> TAKE o
  <2>1. ASSUME NEW i \in 1 .. Len(s) - 1, a[i] = o
        PROVE  Has(s, o) /\ o # Head(s)
    BY <1>1, <1>2, <2>1 DEF Has, NoRepeats
  <2>2. ASSUME NEW i \in 1 .. Len(s), s[i] = o, o # Head(s)
        PROVE  Has(a, o)
    <3>1. i # 1 /\ i - 1 \in 1 .. Len(s) - 1 /\ (i - 1) + 1 = i
      BY <1>1, <1>2, <2>2
    <3>2. a[i - 1] = o /\ i - 1 \in DOMAIN a
      BY <1>1, <2>2, <3>1
    <3> QED
      BY <3>2 DEF Has
  <2> QED
    BY <1>1, <2>1, <2>2 DEF Has
<1>4. NoRepeats(a)
  <2> SUFFICES ASSUME NEW i \in 1 .. Len(s) - 1, NEW j \in 1 .. Len(s) - 1, a[i] = a[j]
               PROVE  i = j
    BY <1>1 DEF NoRepeats
  <2>1. s[i + 1] = s[j + 1] /\ i + 1 \in 1 .. Len(s) /\ j + 1 \in 1 .. Len(s)
    BY <1>1, <1>2
  <2>2. i + 1 = j + 1
    BY <1>1, <2>1 DEF NoRepeats
  <2> QED
    BY <1>2, <2>2
<1>5. Has(s, Head(s))
  BY <1>1, <1>2 DEF Has
<1> QED
  BY <1>1, <1>3, <1>4, <1>5 DEF a

(* Among sequences that repeat nothing, counting is membership.            *)
LEMMA TimesFacts ==
    ASSUME NEW T, NEW s \in Seq(T), NoRepeats(s), NEW o
    PROVE  Times(s, o) = IF Has(s, o) THEN 1 ELSE 0
<1> DEFINE P == {i \in DOMAIN s : s[i] = o}
<1>1. CASE Has(s, o)
  <2>1. PICK i \in DOMAIN s : s[i] = o
    BY <1>1 DEF Has
  <2>2. P = {i}
    BY <2>1 DEF NoRepeats
  <2> QED
    BY <1>1, <2>2, FS_Singleton DEF Times
<1>2. CASE ~Has(s, o)
  <2>1. P = {}
    BY <1>2 DEF Has
  <2> QED
    BY <1>2, <2>1, FS_EmptySet DEF Times
<1> QED
  BY <1>1, <1>2

-----------------------------------------------------------------------------
(***************************************************************************)
(* The ring and the POSIX timer.                                           *)
(***************************************************************************)

Tells(r) == \E i \in DOMAIN r.cq : r.cq[i].res = 0

Coming(r) == AsInt(r.armed # NoTime) + AsInt(handler.on)

LEMMA PostEntry ==
    ASSUME NEW r \in IoRecords
    PROVE  LET p == SubmitTimerCompletionQueueEntry(r)
           IN /\ p \in IoRecords
              /\ p.sqUnflushedCount = r.sqUnflushedCount - 1
              /\ Len(p.cq) = Len(r.cq) + 1
              /\ p.activeTimerCount = r.activeTimerCount
              /\ p.armed = r.armed
              /\ p.timerId = r.timerId
              /\ p.leaked = r.leaked
              /\ p.doubled = r.doubled
              /\ p.lastTimerOp = r.lastTimerOp
              /\ p.entryRef = r.entryRef
              /\ Tells(p)
<1> DEFINE p == SubmitTimerCompletionQueueEntry(r)
           e == [slot |-> r.tail, res |-> 0]
<1>1. e \in Entries /\ r.cq \in Seq(Entries) /\ (r.tail + 1) % CqEntryCount \in Int
  BY TimersAssumption DEF IoRecords, Entries
<1>2. /\ Append(r.cq, e) \in Seq(Entries)
      /\ Len(Append(r.cq, e)) = Len(r.cq) + 1
      /\ Append(r.cq, e)[Len(r.cq) + 1] = e
      /\ Len(r.cq) + 1 \in DOMAIN Append(r.cq, e)
  BY <1>1
<1>3. p = [r EXCEPT !.sqUnflushedCount = r.sqUnflushedCount - 1,
                    !.cq = Append(r.cq, e),
                    !.tail = (r.tail + 1) % CqEntryCount]
  BY DEF SubmitTimerCompletionQueueEntry, IoRecords
<1>4. /\ p.sqUnflushedCount = r.sqUnflushedCount - 1
      /\ p.cq = Append(r.cq, e)
      /\ p.activeTimerCount = r.activeTimerCount
      /\ p.armed = r.armed
      /\ p.timerId = r.timerId
      /\ p.leaked = r.leaked
      /\ p.doubled = r.doubled
      /\ p.lastTimerOp = r.lastTimerOp
      /\ p.entryRef = r.entryRef
  <2> HIDE DEF e, p
  <2> QED
    BY <1>3 DEF IoRecords
<1>7. p \in IoRecords
  <2> DEFINE a == Append(r.cq, e)
             n == (r.tail + 1) % CqEntryCount
  <2>1. a \in Seq(Entries) /\ n \in Int
    BY <1>1, <1>2
  <2>2. p = [r EXCEPT !.sqUnflushedCount = r.sqUnflushedCount - 1, !.cq = a, !.tail = n]
    BY <1>3
  <2> HIDE DEF e, p, a, n
  <2>3. p = [sqUnflushedCount |-> r.sqUnflushedCount - 1, cq |-> a, tail |-> n,
             activeTimerCount |-> r.activeTimerCount, armed |-> r.armed,
             timerId |-> r.timerId, lastTimerOp |-> r.lastTimerOp,
             entryRef |-> r.entryRef, leaked |-> r.leaked, doubled |-> r.doubled]
    BY <2>2 DEF IoRecords
  <2>4. /\ r.sqUnflushedCount - 1 \in Int /\ r.activeTimerCount \in Int
        /\ r.armed \in 0 .. MaxTime /\ r.timerId \in {"zero", "set", "deleted"}
        /\ r.lastTimerOp \in Ops \cup {None} /\ r.entryRef \in [Ops -> Int]
        /\ r.leaked \in Int /\ r.doubled \in BOOLEAN
    BY DEF IoRecords
  <2> QED
    BY <2>1, <2>3, <2>4 DEF IoRecords
<1>5. e.res = 0
  OBVIOUS
<1>6. Tells(p)
  <2> HIDE DEF e, p
  <2> QED
    BY <1>2, <1>4, <1>5 DEF Tells
<1> QED
  BY <1>2, <1>4, <1>6, <1>7

LEMMA CancelEffects ==
    ASSUME NEW r \in IoRecords
    PROVE  LET c == CancelTimer(r)
               gone == r.timerId # "zero"
           IN /\ c \in IoRecords
              /\ c.sqUnflushedCount = r.sqUnflushedCount
              /\ Len(c.cq) = Len(r.cq) + 1
              /\ c.activeTimerCount = r.activeTimerCount
              /\ c.armed = IF gone THEN NoTime ELSE r.armed
              /\ c.leaked = IF gone /\ r.armed # NoTime THEN r.leaked + 1 ELSE r.leaked
              /\ c.doubled = (r.doubled \/ r.armed = NoTime \/ ~gone)
<1> DEFINE c == CancelTimer(r)
           gone == r.timerId # "zero"
           p == SubmitTimerCompletionQueueEntry(r)
           ref == IF r.lastTimerOp = None THEN NoSlot
                  ELSE r.entryRef[r.lastTimerOp]
           q == [i \in DOMAIN p.cq |->
                    IF p.cq[i].slot = ref THEN [p.cq[i] EXCEPT !.res = 1]
                                          ELSE p.cq[i]]
<1>1. /\ p \in IoRecords
      /\ p.sqUnflushedCount = r.sqUnflushedCount - 1
      /\ Len(p.cq) = Len(r.cq) + 1
      /\ p.activeTimerCount = r.activeTimerCount
      /\ p.armed = r.armed
      /\ p.timerId = r.timerId
      /\ p.leaked = r.leaked
      /\ p.doubled = r.doubled
  BY PostEntry
<1>2. c = [p EXCEPT
          !.sqUnflushedCount = p.sqUnflushedCount + 1,
          !.armed = IF gone THEN NoTime ELSE p.armed,
          !.timerId = IF gone THEN "deleted" ELSE p.timerId,
          !.cq = q,
          !.lastTimerOp = None,
          !.leaked = IF gone /\ r.armed # NoTime THEN p.leaked + 1 ELSE p.leaked,
          !.doubled = p.doubled \/ r.armed = NoTime \/ ~gone]
  BY <1>1 DEF CancelTimer, IoRecords
<1> HIDE DEF p
<1>3. q \in Seq(Entries) /\ Len(q) = Len(p.cq)
  <2>1. /\ p.cq \in Seq(Entries) /\ DOMAIN p.cq = 1 .. Len(p.cq) /\ Len(p.cq) \in Nat
        /\ \A i \in DOMAIN p.cq : p.cq[i] \in Entries
    BY <1>1 DEF IoRecords
  <2> HIDE DEF ref
  <2>2. \A i \in DOMAIN p.cq : q[i] \in Entries
    BY <2>1 DEF Entries
  <2>3. q \in [1 .. Len(p.cq) -> Entries]
    <3>1. q = [i \in DOMAIN p.cq |-> q[i]]
      OBVIOUS
    <3> HIDE DEF q
    <3> QED
      BY <2>1, <2>2, <3>1
  <2> HIDE DEF q
  <2> QED
    BY <2>1, <2>3
<1>4. r.armed \in 0 .. MaxTime /\ r.leaked \in Int /\ r.doubled \in BOOLEAN
      /\ r.sqUnflushedCount \in Int
  BY DEF IoRecords
<1> HIDE DEF c, q, ref, gone
<1>5. c = [sqUnflushedCount |-> p.sqUnflushedCount + 1, cq |-> q, tail |-> p.tail,
           activeTimerCount |-> p.activeTimerCount,
           armed |-> IF gone THEN NoTime ELSE p.armed,
           timerId |-> IF gone THEN "deleted" ELSE p.timerId,
           lastTimerOp |-> None, entryRef |-> p.entryRef,
           leaked |-> IF gone /\ r.armed # NoTime THEN p.leaked + 1 ELSE p.leaked,
           doubled |-> p.doubled \/ r.armed = NoTime \/ ~gone]
  BY <1>1, <1>2 DEF IoRecords
<1>6. /\ p.sqUnflushedCount + 1 \in Int /\ p.tail \in Int /\ p.activeTimerCount \in Int
      /\ (IF gone THEN NoTime ELSE p.armed) \in 0 .. MaxTime
      /\ (IF gone THEN "deleted" ELSE p.timerId) \in {"zero", "set", "deleted"}
      /\ p.entryRef \in [Ops -> Int]
      /\ (IF gone /\ r.armed # NoTime THEN p.leaked + 1 ELSE p.leaked) \in Int
      /\ (p.doubled \/ r.armed = NoTime \/ ~gone) \in BOOLEAN
  BY <1>1, <1>4, TimersAssumption DEF IoRecords, NoTime
<1>7. c \in IoRecords
  BY <1>3, <1>5, <1>6 DEF IoRecords
<1>8. /\ c.sqUnflushedCount = p.sqUnflushedCount + 1 /\ c.cq = q
      /\ c.activeTimerCount = p.activeTimerCount
      /\ c.armed = IF gone THEN NoTime ELSE p.armed
      /\ c.leaked = IF gone /\ r.armed # NoTime THEN p.leaked + 1 ELSE p.leaked
      /\ c.doubled = (p.doubled \/ r.armed = NoTime \/ ~gone)
  BY <1>5
<1> QED
  BY <1>1, <1>3, <1>4, <1>7, <1>8 DEF gone, c

LEMMA IoFields ==
    ASSUME NEW q \in IoRecords
    PROVE  /\ q.sqUnflushedCount \in Int /\ q.activeTimerCount \in Int
           /\ q.timerId \in {"zero", "set", "deleted"} /\ q.cq \in Seq(Entries)
           /\ q.tail \in Int /\ q.armed \in 0 .. MaxTime
           /\ q.lastTimerOp \in Ops \cup {None} /\ q.entryRef \in [Ops -> Int]
           /\ q.leaked \in Int /\ q.doubled \in BOOLEAN
BY DEF IoRecords

(* ArmTimer posts an entry at once, or arms the timer.                     *)
LEMMA ArmEffects ==
    ASSUME NEW r \in IoRecords, NEW o \in Ops, NEW wholeSeconds \in BOOLEAN,
           due[o] \in 0 .. MaxTime
    PROVE  LET a == ArmTimer(r, o, wholeSeconds)
           IN /\ a \in IoRecords
              /\ a.activeTimerCount = (r.activeTimerCount + 1) % CounterRange
              /\ a.doubled = r.doubled
              /\ \/ /\ a.sqUnflushedCount = r.sqUnflushedCount
                    /\ Len(a.cq) = Len(r.cq) + 1
                    /\ Tells(a)
                    /\ a.armed = r.armed /\ a.leaked = r.leaked
                 \/ /\ a.sqUnflushedCount = r.sqUnflushedCount + 1
                    /\ a.cq = r.cq
                    /\ a.armed = due[o]
                    /\ a.leaked = IF r.armed # NoTime THEN r.leaked + 1 ELSE r.leaked
<1> DEFINE a == ArmTimer(r, o, wholeSeconds)
           last == [r EXCEPT !.lastTimerOp = o]
           s == SubmitTimerCompletionQueueEntry(last)
           sr == [s EXCEPT !.entryRef[o] = r.tail]
           lk == IF r.armed # NoTime THEN last.leaked + 1 ELSE last.leaked
           l == [last EXCEPT !.armed = due[o], !.leaked = lk]
           Count(q) == [q EXCEPT !.sqUnflushedCount = q.sqUnflushedCount + 1,
                                 !.activeTimerCount = (q.activeTimerCount + 1) % CounterRange]
<1>1. /\ last \in IoRecords
      /\ last.sqUnflushedCount = r.sqUnflushedCount /\ last.cq = r.cq
      /\ last.activeTimerCount = r.activeTimerCount /\ last.armed = r.armed
      /\ last.leaked = r.leaked /\ last.doubled = r.doubled
  BY DEF IoRecords
<1>2. \/ a = Count(sr) \/ a = Count(s) \/ a = Count(l)
  BY DEF ArmTimer
<1>7. r.sqUnflushedCount \in Int /\ r.tail \in Int /\ r.leaked \in Int /\ lk \in Int
      /\ r.activeTimerCount \in Int
  BY <1>1, IoFields
<1> HIDE DEF last, a
<1>3. /\ s \in IoRecords
      /\ s.sqUnflushedCount = r.sqUnflushedCount - 1
      /\ Len(s.cq) = Len(r.cq) + 1
      /\ s.activeTimerCount = r.activeTimerCount /\ s.armed = r.armed
      /\ s.leaked = r.leaked /\ s.doubled = r.doubled
      /\ Tells(s)
  BY <1>1, PostEntry
<1> HIDE DEF s
<1>4. /\ sr \in IoRecords /\ sr.sqUnflushedCount = s.sqUnflushedCount /\ sr.cq = s.cq
      /\ sr.activeTimerCount = s.activeTimerCount /\ sr.armed = s.armed
      /\ sr.leaked = s.leaked /\ sr.doubled = s.doubled
  BY <1>3, <1>7 DEF IoRecords
<1>5. /\ l \in IoRecords /\ l.sqUnflushedCount = r.sqUnflushedCount /\ l.cq = r.cq
      /\ l.activeTimerCount = r.activeTimerCount /\ l.armed = due[o]
      /\ l.leaked = (IF r.armed # NoTime THEN r.leaked + 1 ELSE r.leaked)
      /\ l.doubled = r.doubled
  <2>1. lk = IF r.armed # NoTime THEN r.leaked + 1 ELSE r.leaked
    BY <1>1
  <2>2. /\ l \in IoRecords /\ l.sqUnflushedCount = last.sqUnflushedCount /\ l.cq = last.cq
        /\ l.activeTimerCount = last.activeTimerCount /\ l.armed = due[o]
        /\ l.leaked = lk /\ l.doubled = last.doubled
    <3>1. l = [last EXCEPT !.armed = due[o], !.leaked = lk]
      OBVIOUS
    <3> HIDE DEF l, lk
    <3>2. l = [sqUnflushedCount |-> last.sqUnflushedCount, cq |-> last.cq,
               tail |-> last.tail, activeTimerCount |-> last.activeTimerCount,
               armed |-> due[o], timerId |-> last.timerId,
               lastTimerOp |-> last.lastTimerOp, entryRef |-> last.entryRef,
               leaked |-> lk, doubled |-> last.doubled]
      BY <1>1, <3>1 DEF IoRecords
    <3>3. l \in IoRecords
      BY <1>1, <1>7, <3>2, IoFields DEF IoRecords
    <3> QED
      BY <3>2, <3>3
  <2> HIDE DEF l, lk
  <2> QED
    BY <1>1, <2>1, <2>2
<1> HIDE DEF sr, l, lk
<1>6. ASSUME NEW q \in IoRecords
      PROVE  /\ Count(q) \in IoRecords
             /\ Count(q).sqUnflushedCount = q.sqUnflushedCount + 1
             /\ Count(q).activeTimerCount = (q.activeTimerCount + 1) % CounterRange
             /\ Count(q).cq = q.cq /\ Count(q).armed = q.armed
             /\ Count(q).leaked = q.leaked /\ Count(q).doubled = q.doubled
  <2> DEFINE n == q.sqUnflushedCount + 1
             k == (q.activeTimerCount + 1) % CounterRange
  <2>1. n \in Int /\ k \in Int
    BY TimersAssumption, IoFields
  <2> HIDE DEF n, k
  <2>2. Count(q) = [q EXCEPT !.sqUnflushedCount = n, !.activeTimerCount = k]
    BY DEF n, k
  <2> HIDE DEF Count
  <2>3. /\ Count(q) \in IoRecords
        /\ Count(q).sqUnflushedCount = n /\ Count(q).activeTimerCount = k
        /\ Count(q).cq = q.cq /\ Count(q).armed = q.armed
        /\ Count(q).leaked = q.leaked /\ Count(q).doubled = q.doubled
    <3> DEFINE c == Count(q)
    <3>1. c = [q EXCEPT !.sqUnflushedCount = n, !.activeTimerCount = k]
      BY <2>2
    <3> HIDE DEF c
    <3>2. c = [sqUnflushedCount |-> n, cq |-> q.cq, tail |-> q.tail,
               activeTimerCount |-> k, armed |-> q.armed,
               timerId |-> q.timerId, lastTimerOp |-> q.lastTimerOp,
               entryRef |-> q.entryRef, leaked |-> q.leaked, doubled |-> q.doubled]
      BY <3>1 DEF IoRecords
    <3>3. c \in IoRecords
      BY <2>1, <3>2, IoFields DEF IoRecords
    <3>4. /\ c.sqUnflushedCount = n /\ c.activeTimerCount = k
          /\ c.cq = q.cq /\ c.armed = q.armed
          /\ c.leaked = q.leaked /\ c.doubled = q.doubled
      BY <3>2
    <3> QED
      BY <3>3, <3>4 DEF c
  <2> QED
    BY <2>3 DEF n, k
<1> HIDE DEF Count
<1>8. CASE a = Count(sr)
  <2>1. /\ a \in IoRecords /\ a.sqUnflushedCount = sr.sqUnflushedCount + 1
        /\ a.activeTimerCount = (sr.activeTimerCount + 1) % CounterRange
        /\ a.cq = sr.cq /\ a.armed = sr.armed
        /\ a.leaked = sr.leaked /\ a.doubled = sr.doubled
    BY <1>4, <1>6, <1>8
  <2>2. /\ a.sqUnflushedCount = r.sqUnflushedCount
        /\ a.cq = s.cq /\ a.activeTimerCount = (r.activeTimerCount + 1) % CounterRange
        /\ a.armed = r.armed /\ a.leaked = r.leaked /\ a.doubled = r.doubled
    BY <1>3, <1>4, <1>7, <2>1
  <2> QED
    BY <1>3, <2>1, <2>2 DEF a, Tells
<1>9. CASE a = Count(s)
  BY <1>3, <1>6, <1>7, <1>9 DEF a, Tells
<1>10. CASE a = Count(l)
  BY <1>5, <1>6, <1>7, <1>10 DEF a
<1> QED
  BY <1>2, <1>8, <1>9, <1>10

-----------------------------------------------------------------------------
(***************************************************************************)
(* The parts of the types, and the steps that leave the ring alone.        *)
(***************************************************************************)

PcType == pc \in {"take", "exec", "construct", "timers", "remote", "torn"}

QueueTypes ==
    /\ batch \in Seq(Ops) /\ localQueue \in Seq(Ops) /\ remoteQueue \in Seq(Ops)
    /\ timers \in Seq(Ops) /\ timersAreDirty \in BOOLEAN

IoTypes ==
    /\ io \in IoRecords
    /\ io.sqUnflushedCount \in 0 .. CqEntryCount
    /\ Len(io.cq) + io.sqUnflushedCount \in 0 .. CqEntryCount
    /\ io.activeTimerCount \in 0 .. CounterRange - 1
    /\ currentDueTime \in 0 .. MaxTime
    /\ handler.on \in BOOLEAN

OpTypes ==
    /\ now \in 1 .. MaxTime
    /\ due \in [Ops -> DueTimes]
    /\ canBeCancelled \in [Ops -> BOOLEAN]
    /\ elapsed \in [Ops -> BOOLEAN]
    /\ cancelPending \in [Ops -> BOOLEAN]
    /\ stopRequested \in [Ops -> BOOLEAN]
    /\ execute \in [Ops -> {"new", "schedule", "value", "done", "remove"}]
    /\ callback \in [Ops -> {"unset", "pending", "registered", "gone"}]
    /\ stopper \in [Ops -> {"no", "running", "enqueue", "finished"}]
    /\ completed \in [Ops -> {"no", "value", "done"}]

Typed == PcType /\ QueueTypes /\ IoTypes /\ OpTypes

LEMMA TypedSplit == TypeOK /\ Shapes <=> Typed
<1>1. TypeOK /\ Shapes => PcType /\ IoTypes /\ OpTypes
  BY DEF TypeOK, Shapes, PcType, IoTypes, OpTypes
<1>2. TypeOK => QueueTypes
  BY DEF TypeOK, QueueTypes
<1>3. IoTypes => io.armed \in 0 .. MaxTime
  BY IoFields DEF IoTypes
<1>4. Typed => TypeOK /\ Shapes
  BY <1>3 DEF TypeOK, Shapes, Typed, PcType, IoTypes, OpTypes, QueueTypes
<1> QED
  BY <1>1, <1>2, <1>4 DEF Typed

\* The queues and the timers after a step that is not update_timers.
TimersKept ==
    /\ timers' \in Seq(Ops) /\ NoRepeats(timers') /\ Sorted'
    /\ timersAreDirty' \in BOOLEAN
    /\ ~timersAreDirty' /\ timers' # <<>> =>
         ~timersAreDirty /\ timers # <<>> /\ Head(timers') = Head(timers)

RingUnchanged ==
    /\ UNCHANGED <<io, handler, currentDueTime, due>>
    /\ pc' = "torn" <=> pc = "torn"

LEMMA RingSame ==
    ASSUME Ring, Wake, TimersKept, RingUnchanged
    PROVE  Ring' /\ Wake'
<1>1. Ring'
  BY DEF Ring, RingUnchanged, Telling
<1>2. Wake'
  BY DEF Wake, RingUnchanged, TimersKept, Telling
<1> QED
  BY <1>1, <1>2

LEMMA TimersSame ==
    ASSUME QueueTypes, NoRepeats(timers), Sorted,
           UNCHANGED <<timers, timersAreDirty, due>>
    PROVE  TimersKept
BY DEF TimersKept, QueueTypes, Sorted, NoRepeats

LEMMA ScheduleEffects ==
    ASSUME QueueTypes, OpTypes, NoRepeats(timers), Sorted, NEW o \in Ops,
           ~Has(timers, o), ScheduleAtImpl(o), due' = due
    PROVE  TimersKept /\ \A p \in Ops : Has(timers', p) <=> Has(timers, p) \/ p = o
<1>1. timers \in Seq(Ops) /\ timersAreDirty \in BOOLEAN /\ \A p \in Ops : due[p] \in Int
  <2>1. DueTimes \subseteq Int
    BY TimersAssumption
  <2>2. \A p \in Ops : due[p] \in DueTimes
    BY DEF OpTypes
  <2> QED
    BY <2>1, <2>2 DEF QueueTypes
<1> DEFINE B == {p \in Ops : due[p] <= due[o]}
           A == {p \in Ops : due[p] > due[o]}
           b == Keep(timers, B)
           a == Keep(timers, A)
           R == {e \in Ops \X Ops : due[e[1]] <= due[e[2]]}
<1>2. timers' = b \o <<o>> \o a /\ timersAreDirty' = (timersAreDirty \/ b = <<>>)
  BY DEF ScheduleAtImpl
<1>3. \A p \in Ops : (p \in A <=> p \notin B)
  BY <1>1
<1>4. /\ \A p \in B : due[p] <= due[o]
      /\ \A p \in A : due[o] <= due[p]
  BY <1>1
<1>5. \A i, j \in 1 .. Len(timers) : i < j => <<timers[i], timers[j]>> \in R
  BY <1>1 DEF Sorted
<1> HIDE DEF A, B, R
<1>6. /\ b \in Seq(Ops) /\ \A p : Has(b, p) <=> Has(timers, p) /\ p \in B
      /\ NoRepeats(b)
      /\ timers # <<>> /\ Head(timers) \in B => b # <<>> /\ Head(b) = Head(timers)
      /\ b = <<>> <=> \A i \in 1 .. Len(timers) : timers[i] \notin B
  BY <1>1, KeepFacts
<1>7. /\ a \in Seq(Ops) /\ \A p : Has(a, p) <=> Has(timers, p) /\ p \in A
      /\ NoRepeats(a)
  BY <1>1, KeepFacts
<1>8. \A i, j \in 1 .. Len(b) : i < j => <<b[i], b[j]>> \in R
  BY <1>1, <1>5, KeepOrder
<1>9. \A i, j \in 1 .. Len(a) : i < j => <<a[i], a[j]>> \in R
  BY <1>1, <1>5, KeepOrder
<1> HIDE DEF a, b
<1>10. <<o>> \in Seq(Ops) /\ NoRepeats(<<o>>) /\ \A p : Has(<<o>>, p) <=> p = o
  BY DEF NoRepeats, Has
<1> DEFINE c == b \o <<o>>
<1>11. /\ c \in Seq(Ops) /\ \A p : Has(c, p) <=> Has(b, p) \/ p = o
       /\ NoRepeats(c)
  <2>1. ~Has(b, o)
    BY <1>6
  <2>2. \A p : ~(Has(b, p) /\ Has(<<o>>, p))
    BY <1>10, <2>1
  <2>3. /\ c \in Seq(Ops) /\ \A p : Has(c, p) <=> Has(b, p) \/ Has(<<o>>, p)
        /\ NoRepeats(c)
    BY <1>6, <1>10, <2>2, ConcatFacts
  <2> HIDE DEF c
  <2> QED
    BY <1>10, <2>3
<1>12. /\ timers' \in Seq(Ops)
       /\ \A p : Has(timers', p) <=> Has(b, p) \/ p = o \/ Has(a, p)
       /\ NoRepeats(timers')
  <2>1. \A p : ~(Has(c, p) /\ Has(a, p))
    <3> SUFFICES ASSUME NEW p, Has(c, p), Has(a, p)
                 PROVE  FALSE
      OBVIOUS
    <3>1. Has(timers, p) /\ p \in A
      BY <1>7
    <3>2. p \in Ops
      BY <1>1, <3>1 DEF Has
    <3>3. p \notin B /\ p # o
      BY <1>3, <3>1, <3>2
    <3> QED
      BY <1>6, <1>11, <3>3
  <2> HIDE DEF c
  <2>2. timers' = c \o a
    BY <1>2 DEF c
  <2> QED
    BY <1>7, <1>11, <2>1, <2>2, ConcatFacts
<1>13. \A p \in Ops : Has(timers', p) <=> Has(timers, p) \/ p = o
  BY <1>3, <1>6, <1>7, <1>12
<1>14. Sorted'
  <2> DEFINE m == Len(b)
  <2>1. /\ Len(timers') = m + 1 + Len(a) /\ m \in Nat /\ Len(a) \in Nat
        /\ DOMAIN timers' = 1 .. m + 1 + Len(a)
        /\ \A i \in 1 .. m : timers'[i] = b[i]
        /\ timers'[m + 1] = o
        /\ \A i \in m + 2 .. m + 1 + Len(a) :
             timers'[i] = a[i - (m + 1)] /\ i - (m + 1) \in 1 .. Len(a)
    <3>1. /\ Len(c) = m + 1 /\ m \in Nat /\ Len(a) \in Nat
          /\ \A i \in 1 .. m : c[i] = b[i]
          /\ c[m + 1] = o
      BY <1>6, <1>7
    <3>2. timers' = c \o a
      BY <1>2
    <3> HIDE DEF c, m
    <3>3. /\ Len(timers') = m + 1 + Len(a)
          /\ \A i \in 1 .. m + 1 + Len(a) :
               timers'[i] = IF i <= m + 1 THEN c[i] ELSE a[i - (m + 1)]
      BY <1>7, <1>11, <3>1, <3>2, ConcatProperties
    <3>4. /\ \A i \in 1 .. m : i \in 1 .. m + 1 + Len(a) /\ i <= m + 1
          /\ m + 1 \in 1 .. m + 1 + Len(a) /\ m + 1 <= m + 1
          /\ \A i \in m + 2 .. m + 1 + Len(a) :
               /\ i \in 1 .. m + 1 + Len(a) /\ ~(i <= m + 1)
               /\ i - (m + 1) \in 1 .. Len(a)
      BY <3>1
    <3>5. DOMAIN timers' = 1 .. m + 1 + Len(a)
      BY <1>12, <3>3
    <3> QED
      BY <3>1, <3>3, <3>4, <3>5
  <2>2. /\ \A i \in 1 .. m : b[i] \in Ops /\ due[b[i]] <= due[o] 
        /\ \A i \in 1 .. Len(a) : a[i] \in Ops /\ due[o] <= due[a[i]]
    <3>1. \A i \in 1 .. m : b[i] \in Ops /\ Has(b, b[i])
      BY <1>6 DEF Has
    <3>2. \A i \in 1 .. Len(a) : a[i] \in Ops /\ Has(a, a[i])
      BY <1>7 DEF Has
    <3> QED
      BY <1>4, <1>6, <1>7, <3>1, <3>2
  <2>3. /\ \A i, j \in 1 .. m : i < j => due[b[i]] <= due[b[j]]
        /\ \A i, j \in 1 .. Len(a) : i < j => due[a[i]] <= due[a[j]]
    BY <1>8, <1>9 DEF R
  <2> HIDE DEF m, c
  <2> SUFFICES ASSUME NEW i \in 1 .. m + 1 + Len(a), NEW j \in 1 .. m + 1 + Len(a), i < j
               PROVE  due[timers'[i]] <= due[timers'[j]]
    BY <2>1 DEF Sorted
  <2>4. i \in 1 .. m \/ i = m + 1 \/ i \in m + 2 .. m + 1 + Len(a)
    BY <2>1
  <2>5. j \in 1 .. m \/ j = m + 1 \/ j \in m + 2 .. m + 1 + Len(a)
    BY <2>1
  <2>6. CASE i \in 1 .. m /\ j \in 1 .. m
    BY <2>1, <2>3, <2>6
  <2>7. CASE i \in 1 .. m /\ j = m + 1
    BY <2>1, <2>2, <2>7
  <2>8. CASE i \in 1 .. m /\ j \in m + 2 .. m + 1 + Len(a)
    <3>1. due[b[i]] <= due[o] /\ due[o] <= due[a[j - (m + 1)]]
          /\ b[i] \in Ops /\ a[j - (m + 1)] \in Ops
      BY <2>1, <2>2, <2>8
    <3>2. due[b[i]] <= due[a[j - (m + 1)]]
      BY <1>1, <3>1
    <3> QED
      BY <2>1, <2>8, <3>2
  <2>9. CASE i = m + 1 /\ j \in m + 2 .. m + 1 + Len(a)
    BY <2>1, <2>2, <2>9
  <2>10. CASE i \in m + 2 .. m + 1 + Len(a) /\ j \in m + 2 .. m + 1 + Len(a)
    <3>1. i - (m + 1) < j - (m + 1)
      BY <2>1
    <3> QED
      BY <2>1, <2>3, <2>10, <3>1
  <2>11. \/ i \in 1 .. m /\ j \in 1 .. m
         \/ i \in 1 .. m /\ j = m + 1
         \/ i \in 1 .. m /\ j \in m + 2 .. m + 1 + Len(a)
         \/ i = m + 1 /\ j \in m + 2 .. m + 1 + Len(a)
         \/ i \in m + 2 .. m + 1 + Len(a) /\ j \in m + 2 .. m + 1 + Len(a)
    BY <2>1, <2>4, <2>5
  <2> QED
    BY <2>6, <2>7, <2>8, <2>9, <2>10, <2>11
<1>15. ASSUME ~timersAreDirty'
       PROVE  ~timersAreDirty /\ timers # <<>> /\ Head(timers') = Head(timers)
  <2>1. ~timersAreDirty /\ b # <<>>
    BY <1>2, <1>15
  <2>2. PICK i \in 1 .. Len(timers) : timers[i] \in B
    BY <1>6, <2>1
  <2>3. timers # <<>> /\ 1 \in 1 .. Len(timers) /\ Head(timers) = timers[1]
        /\ timers[1] \in Ops /\ timers[i] \in Ops
    BY <1>1, <2>2
  <2>4. due[timers[1]] <= due[timers[i]]
    <3>1. i = 1 \/ 1 < i
      BY <1>1
    <3>2. ASSUME 1 < i
          PROVE  <<timers[1], timers[i]>> \in R
      BY <1>5, <2>3, <3>2
    <3> QED
      BY <1>1, <2>3, <3>1, <3>2 DEF R
  <2>5. Head(timers) \in B
    BY <1>1, <2>2, <2>3, <2>4 DEF B
  <2>6. Head(b) = Head(timers)
    BY <1>6, <2>3, <2>5
  <2>7. Head(timers') = Head(b)
    <3>1. timers' = c \o a
      BY <1>2
    <3>2. Len(b) > 0 /\ Head(b) = b[1]
      BY <1>6, <2>1
    <3>3. Len(c) = Len(b) + 1 /\ c[1] = b[1]
      BY <1>6, <3>2
    <3> HIDE DEF c
    <3>4. timers'[1] = c[1] /\ timers' # <<>>
      BY <1>6, <1>7, <1>11, <3>1, <3>2, <3>3
    <3>5. Head(timers') = timers'[1]
      BY <1>12, <3>4
    <3> QED
      BY <3>2, <3>3, <3>4, <3>5
  <2> QED
    BY <2>1, <2>3, <2>6, <2>7
<1>16. timersAreDirty' \in BOOLEAN
  BY <1>1, <1>2
<1> QED
  BY <1>12, <1>13, <1>14, <1>15, <1>16 DEF TimersKept

LEMMA KeepSorted ==
    ASSUME QueueTypes, Sorted, NEW S
    PROVE  \A i, j \in 1 .. Len(Keep(timers, S)) :
             i < j => due[Keep(timers, S)[i]] <= due[Keep(timers, S)[j]]
<1> DEFINE R == {e \in Ops \X Ops : due[e[1]] <= due[e[2]]}
           t == Keep(timers, S)
<1>1. timers \in Seq(Ops)
  BY DEF QueueTypes
<1>2. \A i, j \in 1 .. Len(timers) : i < j => <<timers[i], timers[j]>> \in R
  BY <1>1 DEF Sorted
<1> HIDE DEF R
<1>3. \A i, j \in 1 .. Len(t) : i < j => <<t[i], t[j]>> \in R
  BY <1>1, <1>2, KeepOrder
<1> QED
  BY <1>3 DEF R

LEMMA RemoveEffects ==
    ASSUME QueueTypes, NoRepeats(timers), Sorted, NEW o \in Ops,
           RemoveTimer(o), due' = due
    PROVE  TimersKept /\ \A p \in Ops : Has(timers', p) <=> Has(timers, p) /\ p # o
<1> DEFINE S == Ops \ {o}
<1>1. timers \in Seq(Ops) /\ timersAreDirty \in BOOLEAN
  BY DEF QueueTypes
<1>2. timers' = Keep(timers, S) /\ timersAreDirty' = (timersAreDirty \/ Head(timers) = o)
  BY DEF RemoveTimer
<1>3. \A p \in Ops : p \in S <=> p # o
  OBVIOUS
<1> HIDE DEF S
<1>4. /\ timers' \in Seq(Ops) /\ \A p : Has(timers', p) <=> Has(timers, p) /\ p \in S
      /\ NoRepeats(timers')
      /\ timers # <<>> /\ Head(timers) \in S =>
           timers' # <<>> /\ Head(timers') = Head(timers)
      /\ timers' = <<>> <=> \A i \in 1 .. Len(timers) : timers[i] \notin S
  BY <1>1, <1>2, KeepFacts
<1>5. Sorted'
  <2>1. \A i, j \in 1 .. Len(timers') : i < j => due[timers'[i]] <= due[timers'[j]]
    BY <1>2, KeepSorted
  <2>2. DOMAIN timers' = 1 .. Len(timers')
    BY <1>4
  <2> QED
    BY <2>1, <2>2 DEF Sorted
<1>6. ASSUME ~timersAreDirty', timers' # <<>>
      PROVE  ~timersAreDirty /\ timers # <<>> /\ Head(timers') = Head(timers)
  <2>1. ~timersAreDirty /\ Head(timers) # o
    BY <1>2, <1>6
  <2>2. timers # <<>>
    BY <1>1, <1>4, <1>6
  <2>3. Head(timers) \in Ops
    BY <1>1, <2>2
  <2> QED
    BY <1>3, <1>4, <2>1, <2>2, <2>3
<1>7. timersAreDirty' \in BOOLEAN
  BY <1>1, <1>2
<1> QED
  BY <1>3, <1>4, <1>5, <1>6, <1>7 DEF TimersKept

-----------------------------------------------------------------------------
(***************************************************************************)
(* Operations.                                                             *)
(***************************************************************************)

\* The step leaves what is recorded of o, and where o is.
OpFrame(o) ==
    /\ execute'[o] = execute[o] /\ elapsed'[o] = elapsed[o]
    /\ cancelPending'[o] = cancelPending[o]
    /\ stopRequested'[o] = stopRequested[o]
    /\ callback'[o] = callback[o] /\ stopper'[o] = stopper[o]
    /\ completed'[o] = completed[o]

PlaceFrame(o) ==
    /\ Ready(o)' <=> Ready(o)
    /\ Has(timers', o) <=> Has(timers, o)

InputFrame == due' = due /\ canBeCancelled' = canBeCancelled /\ now' = now

LEMMA OpSame ==
    ASSUME NEW o \in Ops, OpTypes, Stage(o), Stopping(o), OnTime(o),
           OpFrame(o), PlaceFrame(o), InputFrame
    PROVE  Stage(o)' /\ Stopping(o)' /\ OnTime(o)'
<1>1. Stage(o)'
  BY DEF Stage, OpFrame, PlaceFrame, InputFrame
<1>2. Stopping(o)'
  BY DEF Stopping, OpFrame, InputFrame
<1>3. OnTime(o)'
  BY DEF OnTime, OpFrame, PlaceFrame, InputFrame
<1> QED
  BY <1>1, <1>2, <1>3

\* What remains to be shown of a step of one operation o.
LEMMA OneOp ==
    ASSUME OpTypes, OpsInv, InputFrame, NEW o \in Ops,
           \A p \in Ops : p # o => OpFrame(p) /\ PlaceFrame(p),
           Stage(o)', Stopping(o)', OnTime(o)'
    PROVE  OpsInv'
<1> SUFFICES ASSUME NEW p \in Ops
             PROVE  Stage(p)' /\ Stopping(p)' /\ OnTime(p)'
  BY DEF OpsInv
<1>1. CASE p = o
  BY <1>1
<1>2. CASE p # o
  BY <1>2, OpSame DEF OpsInv
<1> QED
  BY <1>1, <1>2

\* The parts of the invariant that a step other than update_timers, the
\* acquisition of completions and the signal has to keep.
KeepsOps == PcType' /\ QueueTypes' /\ OpTypes' /\ Once' /\ OpsInv' /\ Constructing'
            /\ TimersKept /\ RingUnchanged

LEMMA KeepsInvariant ==
    ASSUME IInv, KeepsOps
    PROVE  IInv'
<1>1. IoTypes
  BY TypedSplit DEF IInv, Typed
<1>2. IoTypes'
  BY <1>1 DEF IoTypes, KeepsOps, RingUnchanged
<1>3. (TypeOK /\ Shapes)' <=> Typed'
  BY TypedSplit, PTL
<1>4. (TypeOK /\ Shapes)'
  BY <1>2, <1>3 DEF KeepsOps, Typed
<1>5. Ring' /\ Wake'
  BY RingSame DEF IInv, KeepsOps
<1> QED
  BY <1>4, <1>5 DEF IInv, KeepsOps, TimersKept

LEMMA NoOp ==
    ASSUME OpTypes, OpsInv, InputFrame, \A p \in Ops : OpFrame(p) /\ PlaceFrame(p)
    PROVE  OpsInv'
BY OpSame DEF OpsInv

LEMMA TakeLocalKeeps ==
    ASSUME IInv, TakeLocal
    PROVE  IInv'
<1>1. PcType /\ QueueTypes /\ OpTypes
  BY TypedSplit DEF IInv, Typed
<1>2. batch = <<>> /\ batch' = localQueue /\ localQueue' = <<>> /\ remoteQueue' = remoteQueue
  BY DEF TakeLocal, IInv, Constructing
<1>3. /\ UNCHANGED opVars /\ UNCHANGED <<timers, timersAreDirty, now>>
      /\ RingUnchanged /\ pc' = "exec" /\ pc = "take"
  BY DEF TakeLocal, RingUnchanged, opVars
<1>4. OpTypes' /\ InputFrame /\ \A p \in Ops : OpFrame(p)
  BY <1>1, <1>3 DEF OpTypes, InputFrame, OpFrame, opVars
<1>5. \A p \in Ops : PlaceFrame(p)
  BY <1>2, <1>3, EmptyFacts DEF PlaceFrame, Ready
<1>6. OpsInv'
  BY <1>1, <1>4, <1>5, NoOp DEF IInv
<1>7. Once'
  BY <1>2, <1>3, EmptyFacts DEF IInv, Once
<1>8. Constructing'
  BY <1>3 DEF IInv, Constructing, opVars
<1>9. TimersKept
  BY <1>1, <1>3, TimersSame DEF IInv, Once, opVars
<1>10. PcType' /\ QueueTypes'
  <2>1. <<>> \in Seq(Ops)
    OBVIOUS
  <2> QED
    BY <1>1, <1>2, <1>3, <2>1 DEF PcType, QueueTypes
<1> QED
  BY <1>3, <1>4, <1>6, <1>7, <1>8, <1>9, <1>10, KeepsInvariant DEF KeepsOps

LEMMA TimersCleanKeeps ==
    ASSUME IInv, TimersClean
    PROVE  IInv'
<1>1. PcType /\ QueueTypes /\ OpTypes
  BY TypedSplit DEF IInv, Typed
<1>2. /\ UNCHANGED opVars
      /\ UNCHANGED <<batch, localQueue, remoteQueue, timers, timersAreDirty, now>>
      /\ RingUnchanged /\ pc' = "remote" /\ pc = "timers"
  BY DEF TimersClean, RingUnchanged, opVars
<1>4. OpTypes' /\ InputFrame /\ \A p \in Ops : OpFrame(p)
  BY <1>1, <1>2 DEF OpTypes, InputFrame, OpFrame, opVars
<1>5. \A p \in Ops : PlaceFrame(p)
  BY <1>2 DEF PlaceFrame, Ready
<1>6. OpsInv'
  BY <1>1, <1>4, <1>5, NoOp DEF IInv
<1>7. Once'
  BY <1>2 DEF IInv, Once, NoRepeats
<1>8. Constructing'
  BY <1>2 DEF IInv, Constructing, opVars
<1>9. TimersKept
  BY <1>1, <1>2, TimersSame DEF IInv, Once, opVars
<1>10. PcType' /\ QueueTypes'
  BY <1>1, <1>2 DEF PcType, QueueTypes
<1> QED
  BY <1>2, <1>4, <1>6, <1>7, <1>8, <1>9, <1>10, KeepsInvariant DEF KeepsOps

LEMMA AcquireRemoteKeeps ==
    ASSUME IInv, AcquireRemoteQueuedItems
    PROVE  IInv'
<1>1. PcType /\ QueueTypes /\ OpTypes
  BY TypedSplit DEF IInv, Typed
<1>2. /\ UNCHANGED opVars
      /\ UNCHANGED <<batch, timers, timersAreDirty, now>>
      /\ localQueue' = localQueue \o remoteQueue /\ remoteQueue' = <<>>
      /\ RingUnchanged /\ pc' = "take" /\ pc = "remote"
  BY DEF AcquireRemoteQueuedItems, RingUnchanged, opVars
<1>3. /\ localQueue' \in Seq(Ops)
      /\ \A p : Has(localQueue', p) <=> Has(localQueue, p) \/ Has(remoteQueue, p)
      /\ NoRepeats(localQueue')
  <2>1. \A p : ~(Has(localQueue, p) /\ Has(remoteQueue, p))
    <3>1. \A p : Has(localQueue, p) => p \in Ops
      BY <1>1 DEF Has, QueueTypes
    <3> QED
      BY <3>1 DEF IInv, Once
  <2>2. NoRepeats(localQueue) /\ NoRepeats(remoteQueue)
    BY DEF IInv, Once
  <2>3. localQueue \in Seq(Ops) /\ remoteQueue \in Seq(Ops)
    BY <1>1 DEF QueueTypes
  <2> QED
    BY <1>2, <2>1, <2>2, <2>3, ConcatFacts
<1>4. OpTypes' /\ InputFrame /\ \A p \in Ops : OpFrame(p)
  BY <1>1, <1>2 DEF OpTypes, InputFrame, OpFrame, opVars
<1>5. \A p \in Ops : PlaceFrame(p)
  BY <1>2, <1>3, EmptyFacts DEF PlaceFrame, Ready
<1>6. OpsInv'
  BY <1>1, <1>4, <1>5, NoOp DEF IInv
<1>7. Once'
  BY <1>2, <1>3, EmptyFacts DEF IInv, Once, NoRepeats
<1>8. Constructing'
  BY <1>2 DEF IInv, Constructing, opVars
<1>9. TimersKept
  BY <1>1, <1>2, TimersSame DEF IInv, Once, opVars
<1>10. PcType' /\ QueueTypes'
  <2>1. <<>> \in Seq(Ops)
    OBVIOUS
  <2> QED
    BY <1>1, <1>2, <1>3, <2>1 DEF PcType, QueueTypes
<1> QED
  BY <1>2, <1>4, <1>6, <1>7, <1>8, <1>9, <1>10, KeepsInvariant DEF KeepsOps

LEMMA TickKeeps ==
    ASSUME IInv, Tick
    PROVE  IInv'
<1>1. PcType /\ QueueTypes /\ OpTypes
  BY TypedSplit DEF IInv, Typed
<1>2. /\ UNCHANGED opVars
      /\ UNCHANGED <<pc, batch, localQueue, remoteQueue, timers, timersAreDirty>>
      /\ RingUnchanged /\ now' = now + 1 /\ now < MaxTime
  BY DEF Tick, RingUnchanged, opVars
<1>3. now \in Nat /\ now' \in 1 .. MaxTime /\ MaxTime \in Nat
      /\ \A p \in Ops : due[p] \in Nat
  <2>1. DueTimes \subseteq Nat /\ MaxTime \in Nat
    BY TimersAssumption
  <2>2. now \in 1 .. MaxTime /\ \A p \in Ops : due[p] \in DueTimes
    BY <1>1 DEF OpTypes
  <2>3. now \in Nat /\ now' \in 1 .. MaxTime
    BY <1>2, <2>1, <2>2
  <2>4. \A p \in Ops : due[p] \in Nat
    BY <2>1, <2>2
  <2> QED
    BY <2>1, <2>3, <2>4
<1>4. OpTypes' /\ due' = due /\ canBeCancelled' = canBeCancelled
      /\ \A p \in Ops : OpFrame(p) /\ PlaceFrame(p)
  BY <1>1, <1>2, <1>3 DEF OpTypes, OpFrame, PlaceFrame, Ready, opVars
<1>6. OpsInv'
  <2> SUFFICES ASSUME NEW p \in Ops
               PROVE  Stage(p)' /\ Stopping(p)' /\ OnTime(p)'
    BY DEF OpsInv
  <2>0. Stage(p) /\ Stopping(p) /\ OnTime(p) /\ OpFrame(p) /\ PlaceFrame(p)
    BY <1>4 DEF IInv, OpsInv
  <2>1. Stage(p)' /\ Stopping(p)'
    BY <1>4, <2>0 DEF Stage, Stopping, OpFrame, PlaceFrame
  <2>2. due[p] <= now => due[p] <= now'
    BY <1>2, <1>3
  <2>3. OnTime(p)'
    BY <1>4, <2>0, <2>2 DEF OnTime, OpFrame, PlaceFrame
  <2> QED
    BY <2>1, <2>3
<1>7. Once'
  BY <1>2 DEF IInv, Once, NoRepeats
<1>8. Constructing'
  BY <1>2 DEF IInv, Constructing, opVars
<1>9. TimersKept
  BY <1>1, <1>2, TimersSame DEF IInv, Once, opVars
<1>10. PcType' /\ QueueTypes'
  BY <1>1, <1>2 DEF PcType, QueueTypes
<1> QED
  BY <1>2, <1>4, <1>6, <1>7, <1>8, <1>9, <1>10, KeepsInvariant DEF KeepsOps

LEMMA StartRemoteKeeps ==
    ASSUME IInv, NEW o \in Ops, StartRemote(o)
    PROVE  IInv'
<1>1. PcType /\ QueueTypes /\ OpTypes
  BY TypedSplit DEF IInv, Typed
<1>2. /\ UNCHANGED <<pc, batch, localQueue, timers, timersAreDirty, now, due,
                     canBeCancelled, elapsed, cancelPending, stopRequested,
                     callback, stopper, completed>>
      /\ RingUnchanged
      /\ execute[o] = "new" /\ execute' = [execute EXCEPT ![o] = "schedule"]
      /\ remoteQueue' = Append(remoteQueue, o)
  BY DEF StartRemote, RingUnchanged
<1>3. /\ execute'[o] = "schedule" /\ \A p \in Ops : p # o => execute'[p] = execute[p]
      /\ OpTypes'
  BY <1>1, <1>2 DEF OpTypes
<1>4. InputFrame /\ \A p \in Ops : p # o => OpFrame(p)
  BY <1>2, <1>3 DEF InputFrame, OpFrame
<1>5. Stage(o) /\ Stopping(o) /\ OnTime(o)
  BY DEF IInv, OpsInv
<1>6. ~Ready(o) /\ completed[o] = "no" /\ ~Has(timers, o)
  BY <1>2, <1>5 DEF Stage
<1>7. /\ remoteQueue' \in Seq(Ops)
      /\ \A p : Has(remoteQueue', p) <=> Has(remoteQueue, p) \/ p = o
      /\ NoRepeats(remoteQueue')
  <2>1. remoteQueue \in Seq(Ops) /\ NoRepeats(remoteQueue) /\ ~Has(remoteQueue, o)
    BY <1>1, <1>6 DEF QueueTypes, IInv, Once, Ready
  <2> QED
    BY <1>2, <2>1, AppendFacts
<1>8. Ready(o)' /\ \A p \in Ops : p # o => PlaceFrame(p)
  BY <1>2, <1>7 DEF PlaceFrame, Ready
<1>9. Once'
  BY <1>2, <1>6, <1>7 DEF IInv, Once, Ready, NoRepeats
<1>10. Stage(o)' /\ Stopping(o)' /\ OnTime(o)'
  BY <1>2, <1>3, <1>5, <1>8 DEF Stage, Stopping, OnTime
<1>11. OpsInv'
  BY <1>1, <1>4, <1>8, <1>10, OneOp DEF IInv
<1>12. Constructing'
  BY <1>2 DEF IInv, Constructing
<1>13. TimersKept
  BY <1>1, <1>2, TimersSame DEF IInv, Once
<1>14. PcType' /\ QueueTypes'
  BY <1>1, <1>2, <1>7 DEF PcType, QueueTypes
<1> QED
  BY <1>2, <1>3, <1>9, <1>11, <1>12, <1>13, <1>14, KeepsInvariant DEF KeepsOps

LEMMA RequestStopRemoteSchedulesKeeps ==
    ASSUME IInv, NEW o \in Ops, RequestStopRemoteSchedules(o)
    PROVE  IInv'
<1>1. PcType /\ QueueTypes /\ OpTypes
  BY TypedSplit DEF IInv, Typed
<1>2. /\ UNCHANGED <<pc, batch, localQueue, timers, timersAreDirty, now, due,
                     canBeCancelled, elapsed, cancelPending, stopRequested,
                     callback, completed>>
      /\ RingUnchanged
      /\ stopper[o] = "enqueue" /\ stopper' = [stopper EXCEPT ![o] = "finished"]
      /\ execute' = [execute EXCEPT ![o] = "remove"]
      /\ remoteQueue' = Append(remoteQueue, o)
  BY DEF RequestStopRemoteSchedules, RingUnchanged
<1>3. /\ execute'[o] = "remove" /\ \A p \in Ops : p # o => execute'[p] = execute[p]
      /\ stopper'[o] = "finished" /\ \A p \in Ops : p # o => stopper'[p] = stopper[p]
      /\ OpTypes'
  BY <1>1, <1>2 DEF OpTypes
<1>4. InputFrame /\ \A p \in Ops : p # o => OpFrame(p)
  BY <1>2, <1>3 DEF InputFrame, OpFrame
<1>5. Stage(o) /\ Stopping(o) /\ OnTime(o)
  BY DEF IInv, OpsInv
<1>6. ~Ready(o)
  BY <1>2, <1>5 DEF Stage, Stopping
<1>7. /\ remoteQueue' \in Seq(Ops)
      /\ \A p : Has(remoteQueue', p) <=> Has(remoteQueue, p) \/ p = o
      /\ NoRepeats(remoteQueue')
  <2>1. remoteQueue \in Seq(Ops) /\ NoRepeats(remoteQueue) /\ ~Has(remoteQueue, o)
    BY <1>1, <1>6 DEF QueueTypes, IInv, Once, Ready
  <2> QED
    BY <1>2, <2>1, AppendFacts
<1>8. Ready(o)' /\ \A p \in Ops : p # o => PlaceFrame(p)
  BY <1>2, <1>7 DEF PlaceFrame, Ready
<1>9. Once'
  BY <1>2, <1>6, <1>7 DEF IInv, Once, Ready, NoRepeats
<1>10. Stage(o)' /\ Stopping(o)' /\ OnTime(o)'
  BY <1>2, <1>3, <1>5, <1>8 DEF Stage, Stopping, OnTime
<1>11. OpsInv'
  BY <1>1, <1>4, <1>8, <1>10, OneOp DEF IInv
<1>12. Constructing'
  BY <1>2 DEF IInv, Constructing
<1>13. TimersKept
  BY <1>1, <1>2, TimersSame DEF IInv, Once
<1>14. PcType' /\ QueueTypes'
  BY <1>1, <1>2, <1>7 DEF PcType, QueueTypes
<1> QED
  BY <1>2, <1>3, <1>9, <1>11, <1>12, <1>13, <1>14, KeepsInvariant DEF KeepsOps

LEMMA StopRemoteKeeps ==
    ASSUME IInv, NEW o \in Ops, StopRemote(o)
    PROVE  IInv'
<1>1. PcType /\ QueueTypes /\ OpTypes
  BY TypedSplit DEF IInv, Typed
<1>2. /\ UNCHANGED <<pc, batch, localQueue, remoteQueue, timers, timersAreDirty,
                     now, due, canBeCancelled, elapsed, cancelPending, execute,
                     callback, completed>>
      /\ RingUnchanged
      /\ canBeCancelled[o] /\ ~stopRequested[o] /\ completed[o] = "no"
      /\ stopRequested' = [stopRequested EXCEPT ![o] = TRUE]
      /\ stopper' = [stopper EXCEPT
                       ![o] = IF callback[o] = "registered" THEN "running"
                                                            ELSE "finished"]
  BY DEF StopRemote, RingUnchanged
<1>3. /\ stopRequested'[o]
      /\ \A p \in Ops : p # o => stopRequested'[p] = stopRequested[p]
      /\ stopper'[o] = (IF callback[o] = "registered" THEN "running" ELSE "finished")
      /\ \A p \in Ops : p # o => stopper'[p] = stopper[p]
      /\ OpTypes'
  BY <1>1, <1>2 DEF OpTypes
<1>4. InputFrame /\ \A p \in Ops : p # o => OpFrame(p)
  BY <1>2, <1>3 DEF InputFrame, OpFrame
<1>5. Stage(o) /\ Stopping(o) /\ OnTime(o)
  BY DEF IInv, OpsInv
<1>8. \A p \in Ops : PlaceFrame(p)
  BY <1>2 DEF PlaceFrame, Ready
<1>9. Once'
  BY <1>2 DEF IInv, Once, NoRepeats
<1>10. Stage(o)' /\ Stopping(o)' /\ OnTime(o)'
  <2>1. PlaceFrame(o)
    BY <1>8
  <2>2. stopper[o] = "no"
    BY <1>2, <1>5 DEF Stopping
  <2>3. Stage(o)'
    BY <1>2, <1>3, <1>5, <2>1, <2>2 DEF Stage, PlaceFrame
  <2> QED
    BY <1>2, <1>3, <1>5, <2>1, <2>3 DEF Stopping, OnTime, PlaceFrame
<1>11. OpsInv'
  BY <1>1, <1>4, <1>8, <1>10, OneOp DEF IInv
<1>12. Constructing'
  BY <1>2 DEF IInv, Constructing
<1>13. TimersKept
  BY <1>1, <1>2, TimersSame DEF IInv, Once
<1>14. PcType' /\ QueueTypes'
  BY <1>1, <1>2 DEF PcType, QueueTypes
<1> QED
  BY <1>2, <1>3, <1>9, <1>11, <1>12, <1>13, <1>14, KeepsInvariant DEF KeepsOps

LEMMA RequestStopRemoteKeeps ==
    ASSUME IInv, NEW o \in Ops, RequestStopRemote(o)
    PROVE  IInv'
<1>1. PcType /\ QueueTypes /\ OpTypes
  BY TypedSplit DEF IInv, Typed
<1>2. /\ UNCHANGED <<pc, batch, localQueue, remoteQueue, timers, timersAreDirty,
                     now, due, canBeCancelled, elapsed, execute, stopRequested,
                     callback, completed>>
      /\ RingUnchanged
      /\ stopper[o] = "running"
      /\ cancelPending' = [cancelPending EXCEPT ![o] = TRUE]
      /\ stopper' = [stopper EXCEPT
                       ![o] = IF elapsed[o] THEN "finished" ELSE "enqueue"]
  BY DEF RequestStopRemote, RingUnchanged
<1>3. /\ cancelPending'[o]
      /\ \A p \in Ops : p # o => cancelPending'[p] = cancelPending[p]
      /\ stopper'[o] = (IF elapsed[o] THEN "finished" ELSE "enqueue")
      /\ \A p \in Ops : p # o => stopper'[p] = stopper[p]
      /\ OpTypes'
  BY <1>1, <1>2 DEF OpTypes
<1>4. InputFrame /\ \A p \in Ops : p # o => OpFrame(p)
  BY <1>2, <1>3 DEF InputFrame, OpFrame
<1>5. Stage(o) /\ Stopping(o) /\ OnTime(o)
  BY DEF IInv, OpsInv
<1>8. \A p \in Ops : PlaceFrame(p)
  BY <1>2 DEF PlaceFrame, Ready
<1>9. Once'
  BY <1>2 DEF IInv, Once, NoRepeats
<1>10. Stage(o)' /\ Stopping(o)' /\ OnTime(o)'
  <2>1. PlaceFrame(o)
    BY <1>8
  <2>3. Stage(o)'
    BY <1>2, <1>3, <1>5, <2>1 DEF Stage, Stopping, PlaceFrame
  <2> QED
    BY <1>2, <1>3, <1>5, <2>1, <2>3 DEF Stopping, OnTime, PlaceFrame
<1>11. OpsInv'
  BY <1>1, <1>4, <1>8, <1>10, OneOp DEF IInv
<1>12. Constructing'
  BY <1>2 DEF IInv, Constructing
<1>13. TimersKept
  BY <1>1, <1>2, TimersSame DEF IInv, Once
<1>14. PcType' /\ QueueTypes'
  BY <1>1, <1>2 DEF PcType, QueueTypes
<1> QED
  BY <1>2, <1>3, <1>9, <1>11, <1>12, <1>13, <1>14, KeepsInvariant DEF KeepsOps

LEMMA StopLocalEffects ==
    ASSUME QueueTypes, OpTypes, Once, Sorted, NEW o \in Ops, RequestStopLocal(o),
           ~elapsed[o] => Has(timers, o) /\ ~Ready(o),
           elapsed[o] => ~Has(timers, o) /\ Ready(o),
           UNCHANGED <<batch, remoteQueue, due>>
    PROVE  /\ callback'[o] = "gone" /\ execute'[o] = "done"
           /\ \A p \in Ops : p # o => callback'[p] = callback[p] /\ execute'[p] = execute[p]
           /\ callback' \in [Ops -> {"unset", "pending", "registered", "gone"}]
           /\ execute' \in [Ops -> {"new", "schedule", "value", "done", "remove"}]
           /\ Ready(o)' /\ ~Has(timers', o)
           /\ \A p \in Ops : p # o => PlaceFrame(p)
           /\ QueueTypes' /\ Once' /\ TimersKept
<1>1. /\ callback' = [callback EXCEPT ![o] = "gone"]
      /\ execute' = [execute EXCEPT ![o] = "done"]
  BY DEF RequestStopLocal
<1>2. /\ callback'[o] = "gone" /\ execute'[o] = "done"
      /\ \A p \in Ops : p # o => callback'[p] = callback[p] /\ execute'[p] = execute[p]
      /\ callback' \in [Ops -> {"unset", "pending", "registered", "gone"}]
      /\ execute' \in [Ops -> {"new", "schedule", "value", "done", "remove"}]
  BY <1>1 DEF OpTypes
<1>3. CASE elapsed[o]
  <2>1. UNCHANGED <<batch, remoteQueue, localQueue, timers, timersAreDirty, due>>
    BY <1>3 DEF RequestStopLocal
  <2>2. TimersKept
    BY <2>1, TimersSame DEF Once
  <2>3. QueueTypes' /\ Once'
    BY <2>1 DEF QueueTypes, Once, NoRepeats
  <2>4. Ready(o)' /\ ~Has(timers', o) /\ \A p \in Ops : p # o => PlaceFrame(p)
    BY <1>3, <2>1 DEF Ready, PlaceFrame
  <2> QED
    BY <1>2, <2>2, <2>3, <2>4
<1>4. CASE ~elapsed[o]
  <2>1. /\ UNCHANGED <<batch, remoteQueue, due>>
        /\ RemoveTimer(o) /\ localQueue' = Append(localQueue, o)
    BY <1>4 DEF RequestStopLocal
  <2>2. TimersKept /\ \A p \in Ops : Has(timers', p) <=> Has(timers, p) /\ p # o
    BY <2>1, RemoveEffects DEF Once
  <2>3. /\ localQueue' \in Seq(Ops)
        /\ \A p : Has(localQueue', p) <=> Has(localQueue, p) \/ p = o
        /\ NoRepeats(localQueue')
    <3>1. localQueue \in Seq(Ops) /\ NoRepeats(localQueue) /\ ~Has(localQueue, o)
      BY <1>4 DEF QueueTypes, Once, Ready
    <3> QED
      BY <2>1, <3>1, AppendFacts
  <2>4. Ready(o)' /\ ~Has(timers', o) /\ \A p \in Ops : p # o => PlaceFrame(p)
    BY <2>1, <2>2, <2>3 DEF Ready, PlaceFrame
  <2>5. QueueTypes'
    BY <2>1, <2>2, <2>3 DEF QueueTypes, TimersKept
  <2>6. Once'
    BY <1>4, <2>1, <2>2, <2>3 DEF Once, Ready, TimersKept, NoRepeats
  <2> QED
    BY <1>2, <2>2, <2>4, <2>5, <2>6
<1>5. elapsed[o] \in BOOLEAN
  BY DEF OpTypes
<1> QED
  BY <1>3, <1>4, <1>5

LEMMA ConstructCallbackKeeps ==
    ASSUME IInv, NEW o \in Ops, ConstructCallback(o)
    PROVE  IInv'
<1>1. PcType /\ QueueTypes /\ OpTypes
  BY TypedSplit DEF IInv, Typed
<1>2. /\ UNCHANGED <<batch, remoteQueue, now, due, canBeCancelled, elapsed,
                     cancelPending, stopRequested, stopper, completed>>
      /\ RingUnchanged
      /\ pc = "construct" /\ pc' = "exec" /\ callback[o] = "pending"
  BY DEF ConstructCallback, RingUnchanged
<1>3. Stage(o) /\ Stopping(o) /\ OnTime(o)
  BY DEF IInv, OpsInv
<1>4. /\ completed[o] = "no" /\ execute[o] = "value" /\ canBeCancelled[o]
      /\ ~elapsed[o] /\ ~cancelPending[o] /\ ~Ready(o) /\ Has(timers, o)
      /\ stopper[o] \in {"no", "finished"}
  BY <1>2, <1>3 DEF Stage
<1>5. InputFrame
  BY <1>2 DEF InputFrame
<1>6. ASSUME \A p \in Ops : p # o => callback'[p] = callback[p], callback'[o] # "pending"
      PROVE  Constructing'
  <2>1. \A p \in Ops : callback'[p] # "pending"
    BY <1>2, <1>6 DEF IInv, Constructing
  <2> QED
    BY <1>2, <2>1 DEF Constructing
<1>7. PcType'
  BY <1>2 DEF PcType
<1>8. CASE stopRequested[o]
  <2>1. RequestStopLocal(o)
    BY <1>8 DEF ConstructCallback
  <2>2. /\ callback'[o] = "gone" /\ execute'[o] = "done"
        /\ \A p \in Ops : p # o => callback'[p] = callback[p] /\ execute'[p] = execute[p]
        /\ callback' \in [Ops -> {"unset", "pending", "registered", "gone"}]
        /\ execute' \in [Ops -> {"new", "schedule", "value", "done", "remove"}]
        /\ Ready(o)' /\ ~Has(timers', o)
        /\ \A p \in Ops : p # o => PlaceFrame(p)
        /\ QueueTypes' /\ Once' /\ TimersKept
    BY <1>1, <1>2, <1>4, <2>1, StopLocalEffects DEF IInv
  <2>3. OpTypes' /\ \A p \in Ops : p # o => OpFrame(p)
    BY <1>1, <1>2, <2>2 DEF OpTypes, OpFrame
  <2>4. Stage(o)' /\ Stopping(o)' /\ OnTime(o)'
    BY <1>2, <1>3, <1>4, <2>2 DEF Stage, Stopping, OnTime
  <2>5. OpsInv'
    BY <1>1, <1>5, <2>2, <2>3, <2>4, OneOp DEF IInv
  <2>6. Constructing'
    BY <1>6, <2>2
  <2> QED
    BY <1>2, <1>7, <2>2, <2>3, <2>5, <2>6, KeepsInvariant DEF KeepsOps
<1>9. CASE ~stopRequested[o]
  <2>1. /\ callback' = [callback EXCEPT ![o] = "registered"]
        /\ UNCHANGED <<execute, timers, timersAreDirty, localQueue>>
    BY <1>9 DEF ConstructCallback
  <2>2. /\ callback'[o] = "registered"
        /\ \A p \in Ops : p # o => callback'[p] = callback[p]
        /\ OpTypes'
    BY <1>1, <1>2, <2>1 DEF OpTypes
  <2>3. \A p \in Ops : PlaceFrame(p)
    BY <1>2, <2>1 DEF PlaceFrame, Ready
  <2>4. \A p \in Ops : p # o => OpFrame(p)
    BY <1>2, <2>1, <2>2 DEF OpFrame
  <2>5. Stage(o)' /\ Stopping(o)' /\ OnTime(o)'
    <3>1. stopper[o] = "no" /\ PlaceFrame(o)
      BY <1>3, <1>4, <1>9, <2>3 DEF Stopping
    <3> QED
      BY <1>2, <1>3, <1>4, <2>1, <2>2, <3>1 DEF Stage, Stopping, OnTime, PlaceFrame
  <2>6. OpsInv'
    BY <1>1, <1>5, <2>3, <2>4, <2>5, OneOp DEF IInv
  <2>7. Once'
    BY <1>2, <2>1 DEF IInv, Once, NoRepeats
  <2>8. TimersKept
    BY <1>1, <1>2, <2>1, TimersSame DEF IInv, Once
  <2>9. QueueTypes'
    BY <1>1, <1>2, <2>1 DEF QueueTypes
  <2>10. Constructing'
    BY <1>6, <2>2
  <2> QED
    BY <1>2, <1>7, <2>2, <2>6, <2>7, <2>8, <2>9, <2>10, KeepsInvariant DEF KeepsOps
<1>10. stopRequested[o] \in BOOLEAN
  BY <1>1 DEF OpTypes
<1> QED
  BY <1>8, <1>9, <1>10

LEMMA StopOnIoThreadKeeps ==
    ASSUME IInv, NEW o \in Ops, StopOnIoThread(o)
    PROVE  IInv'
<1>1. PcType /\ QueueTypes /\ OpTypes
  BY TypedSplit DEF IInv, Typed
<1>2. /\ UNCHANGED <<pc, batch, remoteQueue, now, due, canBeCancelled, elapsed,
                     cancelPending, stopper, completed>>
      /\ RingUnchanged
      /\ pc = "exec" /\ canBeCancelled[o] /\ ~stopRequested[o] /\ completed[o] = "no"
      /\ stopRequested' = [stopRequested EXCEPT ![o] = TRUE]
  BY DEF StopOnIoThread, RingUnchanged
<1>3. Stage(o) /\ Stopping(o) /\ OnTime(o)
  BY DEF IInv, OpsInv
<1>4. stopper[o] = "no"
  BY <1>2, <1>3 DEF Stopping
<1>5. /\ stopRequested'[o] /\ stopRequested' \in [Ops -> BOOLEAN]
      /\ \A p \in Ops : p # o => stopRequested'[p] = stopRequested[p]
  BY <1>1, <1>2 DEF OpTypes
<1>6. InputFrame /\ PcType'
  BY <1>1, <1>2 DEF InputFrame, PcType
<1>7. CASE callback[o] = "registered"
  <2>1. RequestStopLocal(o)
    BY <1>7 DEF StopOnIoThread
  <2>2. /\ ~elapsed[o] => Has(timers, o) /\ ~Ready(o)
        /\ elapsed[o] => ~Has(timers, o) /\ Ready(o)
    BY <1>2, <1>3, <1>4, <1>7 DEF Stage
  <2>3. /\ callback'[o] = "gone" /\ execute'[o] = "done"
        /\ \A p \in Ops : p # o => callback'[p] = callback[p] /\ execute'[p] = execute[p]
        /\ callback' \in [Ops -> {"unset", "pending", "registered", "gone"}]
        /\ execute' \in [Ops -> {"new", "schedule", "value", "done", "remove"}]
        /\ Ready(o)' /\ ~Has(timers', o)
        /\ \A p \in Ops : p # o => PlaceFrame(p)
        /\ QueueTypes' /\ Once' /\ TimersKept
    BY <1>1, <1>2, <2>1, <2>2, StopLocalEffects DEF IInv
  <2>4. OpTypes' /\ \A p \in Ops : p # o => OpFrame(p)
    BY <1>1, <1>2, <1>5, <2>3 DEF OpTypes, OpFrame
  <2>5. Stage(o)' /\ Stopping(o)' /\ OnTime(o)'
    BY <1>2, <1>3, <1>4, <1>5, <2>3 DEF Stage, Stopping, OnTime
  <2>6. OpsInv'
    BY <1>1, <1>6, <2>3, <2>4, <2>5, OneOp DEF IInv
  <2>7. Constructing'
    <3>1. \A p \in Ops : callback'[p] = "pending" => callback[p] = "pending"
      BY <2>3
    <3> QED
      BY <1>2, <3>1 DEF IInv, Constructing
  <2> QED
    BY <1>2, <1>6, <2>3, <2>4, <2>6, <2>7, KeepsInvariant DEF KeepsOps
<1>8. CASE callback[o] # "registered"
  <2>1. UNCHANGED <<callback, execute, timers, timersAreDirty, localQueue>>
    BY <1>8 DEF StopOnIoThread
  <2>2. OpTypes' /\ \A p \in Ops : p # o => OpFrame(p)
    BY <1>1, <1>2, <1>5, <2>1 DEF OpTypes, OpFrame
  <2>3. \A p \in Ops : PlaceFrame(p)
    BY <1>2, <2>1 DEF PlaceFrame, Ready
  <2>5. Stage(o)' /\ Stopping(o)' /\ OnTime(o)'
    <3>1. PlaceFrame(o)
      BY <2>3
    <3>2. Stage(o)'
      BY <1>2, <1>3, <2>1, <3>1 DEF Stage, PlaceFrame
    <3> QED
      BY <1>2, <1>3, <1>5, <2>1, <3>1, <3>2 DEF Stopping, OnTime, PlaceFrame
  <2>6. OpsInv'
    BY <1>1, <1>6, <2>2, <2>3, <2>5, OneOp DEF IInv
  <2>7. Once'
    BY <1>2, <2>1 DEF IInv, Once, NoRepeats
  <2>8. TimersKept
    BY <1>1, <1>2, <2>1, TimersSame DEF IInv, Once
  <2>9. QueueTypes'
    BY <1>1, <1>2, <2>1 DEF QueueTypes
  <2>10. Constructing'
    BY <1>2, <2>1 DEF IInv, Constructing
  <2> QED
    BY <1>2, <1>6, <2>2, <2>6, <2>7, <2>8, <2>9, <2>10, KeepsInvariant DEF KeepsOps
<1> QED
  BY <1>7, <1>8

LEMMA StartLocalEffects ==
    ASSUME QueueTypes, OpTypes, NoRepeats(timers), NoRepeats(localQueue), Sorted,
           NEW o \in Ops, ~Has(timers, o), ~Has(localQueue, o), StartLocal(o), due' = due
    PROVE  /\ TimersKept /\ localQueue' \in Seq(Ops) /\ NoRepeats(localQueue')
           /\ callback' \in [Ops -> {"unset", "pending", "registered", "gone"}]
           /\ execute' \in [Ops -> {"new", "schedule", "value", "done", "remove"}]
           /\ \A p \in Ops : p # o =>
                /\ Has(localQueue', p) <=> Has(localQueue, p)
                /\ Has(timers', p) <=> Has(timers, p)
                /\ callback'[p] = callback[p] /\ execute'[p] = execute[p]
           /\ \/ /\ execute'[o] = "done" /\ callback'[o] = callback[o] /\ pc' = "exec"
                 /\ Has(localQueue', o) /\ ~Has(timers', o)
              \/ /\ execute'[o] = "value" /\ callback'[o] = "unset" /\ pc' = "exec"
                 /\ ~canBeCancelled[o] /\ ~Has(localQueue', o) /\ Has(timers', o)
              \/ /\ execute'[o] = "value" /\ callback'[o] = "pending" /\ pc' = "construct"
                 /\ canBeCancelled[o] /\ ~Has(localQueue', o) /\ Has(timers', o)
<1>1. CASE canBeCancelled[o] /\ stopRequested[o]
  <2>1. /\ execute' = [execute EXCEPT ![o] = "done"]
        /\ localQueue' = Append(localQueue, o) /\ pc' = "exec"
        /\ UNCHANGED <<timers, timersAreDirty, callback>>
    BY <1>1 DEF StartLocal
  <2>2. /\ localQueue' \in Seq(Ops) /\ NoRepeats(localQueue')
        /\ \A p : Has(localQueue', p) <=> Has(localQueue, p) \/ p = o
    BY <2>1, AppendFacts DEF QueueTypes
  <2>3. /\ callback' \in [Ops -> {"unset", "pending", "registered", "gone"}]
        /\ execute' \in [Ops -> {"new", "schedule", "value", "done", "remove"}]
        /\ execute'[o] = "done" /\ callback'[o] = callback[o]
        /\ \A p \in Ops : p # o => callback'[p] = callback[p] /\ execute'[p] = execute[p]
    BY <2>1 DEF OpTypes
  <2>4. TimersKept
    BY <2>1, TimersSame
  <2> QED
    BY <2>1, <2>2, <2>3, <2>4
<1>2. CASE ~(canBeCancelled[o] /\ stopRequested[o])
  <2>1. /\ execute' = [execute EXCEPT ![o] = "value"]
        /\ ScheduleAtImpl(o) /\ localQueue' = localQueue
        /\ callback' = [callback EXCEPT ![o] = IF canBeCancelled[o] THEN "pending"
                                                                    ELSE "unset"]
        /\ pc' = IF canBeCancelled[o] THEN "construct" ELSE "exec"
    BY <1>2 DEF StartLocal
  <2>2. /\ callback' \in [Ops -> {"unset", "pending", "registered", "gone"}]
        /\ execute' \in [Ops -> {"new", "schedule", "value", "done", "remove"}]
        /\ execute'[o] = "value"
        /\ callback'[o] = (IF canBeCancelled[o] THEN "pending" ELSE "unset")
        /\ \A p \in Ops : p # o => callback'[p] = callback[p] /\ execute'[p] = execute[p]
    BY <2>1 DEF OpTypes
  <2>3. TimersKept /\ \A p \in Ops : Has(timers', p) <=> Has(timers, p) \/ p = o
    BY <2>1, ScheduleEffects
  <2>4. localQueue' \in Seq(Ops) /\ NoRepeats(localQueue')
    BY <2>1 DEF QueueTypes
  <2>5. canBeCancelled[o] \in BOOLEAN
    BY DEF OpTypes
  <2> QED
    BY <2>1, <2>2, <2>3, <2>4, <2>5
<1> QED
  BY <1>1, <1>2

LEMMA StartOnIoThreadKeeps ==
    ASSUME IInv, NEW o \in Ops, StartOnIoThread(o)
    PROVE  IInv'
<1>1. PcType /\ QueueTypes /\ OpTypes
  BY TypedSplit DEF IInv, Typed
<1>2. /\ UNCHANGED <<batch, remoteQueue, currentDueTime, io, handler, now, due,
                     canBeCancelled, elapsed, cancelPending, stopRequested,
                     stopper, completed>>
      /\ pc = "exec" /\ execute[o] = "new" /\ StartLocal(o)
  BY DEF StartOnIoThread
<1>3. Stage(o) /\ Stopping(o) /\ OnTime(o)
  BY DEF IInv, OpsInv
<1>4. ~Ready(o) /\ ~Has(timers, o)
  BY <1>2, <1>3 DEF Stage
<1>5. /\ TimersKept /\ localQueue' \in Seq(Ops) /\ NoRepeats(localQueue')
      /\ callback' \in [Ops -> {"unset", "pending", "registered", "gone"}]
      /\ execute' \in [Ops -> {"new", "schedule", "value", "done", "remove"}]
      /\ \A p \in Ops : p # o =>
           /\ Has(localQueue', p) <=> Has(localQueue, p)
           /\ Has(timers', p) <=> Has(timers, p)
           /\ callback'[p] = callback[p] /\ execute'[p] = execute[p]
      /\ \/ /\ execute'[o] = "done" /\ callback'[o] = callback[o] /\ pc' = "exec"
            /\ Has(localQueue', o) /\ ~Has(timers', o)
         \/ /\ execute'[o] = "value" /\ callback'[o] = "unset" /\ pc' = "exec"
            /\ ~canBeCancelled[o] /\ ~Has(localQueue', o) /\ Has(timers', o)
         \/ /\ execute'[o] = "value" /\ callback'[o] = "pending" /\ pc' = "construct"
            /\ canBeCancelled[o] /\ ~Has(localQueue', o) /\ Has(timers', o)
  BY <1>1, <1>2, <1>4, StartLocalEffects DEF IInv, Once, Ready
<1>6. OpTypes' /\ InputFrame /\ \A p \in Ops : p # o => OpFrame(p)
  BY <1>1, <1>2, <1>5 DEF OpTypes, InputFrame, OpFrame
<1>7. \A p \in Ops : p # o => PlaceFrame(p)
  BY <1>2, <1>5 DEF PlaceFrame, Ready
<1>8. Once'
  BY <1>2, <1>4, <1>5 DEF IInv, Once, Ready, TimersKept, NoRepeats
<1>9. Ready(o)' <=> Has(localQueue', o)
  BY <1>2, <1>4 DEF Ready
<1>10. Stage(o)' /\ Stopping(o)' /\ OnTime(o)'
  BY <1>2, <1>3, <1>5, <1>9 DEF Stage, Stopping, OnTime
<1>11. OpsInv'
  BY <1>1, <1>6, <1>7, <1>10, OneOp DEF IInv
<1>12. Constructing'
  <2>1. \A p \in Ops : callback[p] # "pending"
    BY <1>2 DEF IInv, Constructing
  <2>2. \A p \in Ops : p # o => callback'[p] # "pending"
    BY <1>5, <2>1
  <2>3. callback'[o] = "pending" => pc' = "construct"
    BY <1>5, <2>1
  <2>4. pc' \in {"exec", "construct"}
    BY <1>5
  <2> QED
    BY <2>2, <2>3, <2>4 DEF Constructing
<1>13. QueueTypes' /\ PcType' /\ RingUnchanged
  BY <1>1, <1>2, <1>5 DEF QueueTypes, PcType, RingUnchanged, TimersKept
<1> QED
  BY <1>5, <1>6, <1>8, <1>11, <1>12, <1>13, KeepsInvariant DEF KeepsOps

LEMMA ExecuteItemKeeps ==
    ASSUME IInv, ExecuteItem
    PROVE  IInv'
<1>1. PcType /\ QueueTypes /\ OpTypes
  BY TypedSplit DEF IInv, Typed
<1>2. /\ UNCHANGED <<remoteQueue, currentDueTime, io, handler, now, due,
                     canBeCancelled, elapsed, cancelPending, stopRequested, stopper>>
      /\ pc = "exec" /\ batch # <<>> /\ batch' = Tail(batch)
  BY DEF ExecuteItem
<1>3. PICK o : o = Head(batch)
  OBVIOUS
<1>4. /\ batch' \in Seq(Ops) /\ o \in Ops /\ Has(batch, o)
      /\ \A p : Has(batch', p) <=> Has(batch, p) /\ p # o
      /\ NoRepeats(batch')
  <2>1. batch \in Seq(Ops) /\ NoRepeats(batch)
    BY <1>1 DEF QueueTypes, IInv, Once
  <2> QED
    BY <1>2, <1>3, <2>1, TailFacts
<1>5. Stage(o) /\ Stopping(o) /\ OnTime(o) /\ Ready(o)
      /\ ~Has(localQueue, o) /\ ~Has(remoteQueue, o)
  BY <1>4 DEF IInv, OpsInv, Once, Ready
<1>6. completed[o] = "no" /\ InputFrame
  BY <1>2, <1>5 DEF Stage, InputFrame
<1>7. \A p \in Ops : callback[p] # "pending"
  BY <1>2 DEF IInv, Constructing
<1>8. ASSUME execute[o] = "schedule", StartLocal(o), UNCHANGED completed
      PROVE  IInv'
  <2>1. ~Has(timers, o)
    BY <1>5, <1>6, <1>8 DEF Stage
  <2>2. /\ TimersKept /\ localQueue' \in Seq(Ops) /\ NoRepeats(localQueue')
        /\ callback' \in [Ops -> {"unset", "pending", "registered", "gone"}]
        /\ execute' \in [Ops -> {"new", "schedule", "value", "done", "remove"}]
        /\ \A p \in Ops : p # o =>
             /\ Has(localQueue', p) <=> Has(localQueue, p)
             /\ Has(timers', p) <=> Has(timers, p)
             /\ callback'[p] = callback[p] /\ execute'[p] = execute[p]
        /\ \/ /\ execute'[o] = "done" /\ callback'[o] = callback[o] /\ pc' = "exec"
              /\ Has(localQueue', o) /\ ~Has(timers', o)
           \/ /\ execute'[o] = "value" /\ callback'[o] = "unset" /\ pc' = "exec"
              /\ ~canBeCancelled[o] /\ ~Has(localQueue', o) /\ Has(timers', o)
           \/ /\ execute'[o] = "value" /\ callback'[o] = "pending" /\ pc' = "construct"
              /\ canBeCancelled[o] /\ ~Has(localQueue', o) /\ Has(timers', o)
    BY <1>1, <1>2, <1>4, <1>5, <1>8, <2>1, StartLocalEffects DEF IInv, Once
  <2>3. OpTypes' /\ \A p \in Ops : p # o => OpFrame(p)
    BY <1>1, <1>2, <1>8, <2>2 DEF OpTypes, OpFrame
  <2>4. \A p \in Ops : p # o => PlaceFrame(p)
    BY <1>2, <1>4, <2>2 DEF PlaceFrame, Ready
  <2>5. Once'
    BY <1>2, <1>4, <1>5, <2>2 DEF IInv, Once, TimersKept, NoRepeats
  <2>6. Ready(o)' <=> Has(localQueue', o)
    BY <1>2, <1>4, <1>5 DEF Ready
  <2>7. Stage(o)' /\ Stopping(o)' /\ OnTime(o)'
    BY <1>2, <1>5, <1>6, <1>8, <2>2, <2>6 DEF Stage, Stopping, OnTime
  <2>8. OpsInv'
    BY <1>1, <1>4, <1>6, <2>3, <2>4, <2>7, OneOp DEF IInv
  <2>9. Constructing'
    <3>1. \A p \in Ops : p # o => callback'[p] # "pending"
      BY <1>7, <2>2
    <3>2. callback'[o] = "pending" => pc' = "construct"
      BY <1>4, <1>7, <2>2
    <3>3. pc' \in {"exec", "construct"}
      BY <2>2
    <3> QED
      BY <3>1, <3>2, <3>3 DEF Constructing
  <2>10. QueueTypes' /\ PcType' /\ RingUnchanged
    BY <1>1, <1>2, <1>4, <2>2 DEF QueueTypes, PcType, RingUnchanged, TimersKept
  <2> QED
    BY <2>2, <2>3, <2>5, <2>8, <2>9, <2>10, KeepsInvariant DEF KeepsOps
<1>9. ASSUME UNCHANGED <<pc, localQueue, execute>>, TimersKept,
             \A p \in Ops : p # o => (Has(timers', p) <=> Has(timers, p)),
             ~Has(timers', o),
             NEW how \in {"value", "done"}, Complete(o, how),
             how = "value" => due[o] <= now,
             execute[o] \in {"value", "done", "remove"},
             stopper[o] \in {"no", "finished"},
             \/ callback' = callback /\ callback[o] \in {"unset", "gone"}
             \/ callback' = [callback EXCEPT ![o] = "gone"]
      PROVE  IInv'
  <2>1. /\ completed'[o] = how /\ how # "no"
        /\ \A p \in Ops : p # o => completed'[p] = completed[p]
        /\ completed' \in [Ops -> {"no", "value", "done"}]
    BY <1>1, <1>4, <1>9 DEF Complete, OpTypes
  <2>2. /\ callback' \in [Ops -> {"unset", "pending", "registered", "gone"}]
        /\ callback'[o] \in {"unset", "gone"}
        /\ \A p \in Ops : p # o => callback'[p] = callback[p]
    BY <1>1, <1>4, <1>9 DEF OpTypes
  <2>3. OpTypes' /\ \A p \in Ops : p # o => OpFrame(p)
    BY <1>1, <1>2, <1>9, <2>1, <2>2 DEF OpTypes, OpFrame
  <2>4. ~Ready(o)' /\ \A p \in Ops : p # o => PlaceFrame(p)
    BY <1>2, <1>4, <1>5, <1>9 DEF PlaceFrame, Ready
  <2>5. Once'
    BY <1>2, <1>4, <1>9 DEF IInv, Once, TimersKept, NoRepeats
  <2>6. Stage(o)' /\ Stopping(o)' /\ OnTime(o)'
    <3>1. Stage(o)'
      BY <1>2, <1>9, <2>1, <2>2, <2>4 DEF Stage
    <3> QED
      BY <1>2, <1>5, <1>9, <2>1, <2>4, <3>1 DEF Stopping, OnTime
  <2>7. OpsInv'
    BY <1>1, <1>4, <1>6, <2>3, <2>4, <2>6, OneOp DEF IInv
  <2>8. Constructing'
    <3>1. \A p \in Ops : callback'[p] # "pending"
      BY <1>7, <2>2
    <3> QED
      BY <1>2, <1>9, <3>1 DEF Constructing
  <2>9. QueueTypes' /\ PcType' /\ RingUnchanged
    BY <1>1, <1>2, <1>4, <1>9 DEF QueueTypes, PcType, RingUnchanged, TimersKept
  <2> QED
    BY <1>9, <2>3, <2>5, <2>7, <2>8, <2>9, KeepsInvariant DEF KeepsOps
<1>10. ASSUME UNCHANGED <<timers, timersAreDirty>>
       PROVE  TimersKept /\ \A p \in Ops : Has(timers', p) <=> Has(timers, p)
  BY <1>1, <1>2, <1>10, TimersSame DEF IInv, Once
<1>11. ASSUME execute[o] = "value", MaybeCompleteWithValue(o),
              UNCHANGED <<pc, localQueue, timers, timersAreDirty, execute>>
       PROVE  IInv'
  <2>1. due[o] <= now /\ ~Has(timers, o)
    BY <1>5, <1>6, <1>11 DEF OnTime, Stage
  <2>2. PICK how \in {"value", "done"} : Complete(o, how)
    BY <1>11 DEF MaybeCompleteWithValue
  <2>3. stopper[o] \in {"no", "finished"}
    BY <1>5, <1>6, <1>11 DEF Stage, Stopping, MaybeCompleteWithValue, DestructCallback
  <2>4. \/ callback' = callback /\ callback[o] \in {"unset", "gone"}
        \/ callback' = [callback EXCEPT ![o] = "gone"]
    BY <1>5, <1>6, <1>11 DEF Stage, MaybeCompleteWithValue, DestructCallback
  <2> QED
    BY <1>4, <1>9, <1>10, <1>11, <2>1, <2>2, <2>3, <2>4
<1>12. ASSUME execute[o] = "done", Complete(o, "done"),
              UNCHANGED <<pc, localQueue, timers, timersAreDirty, execute, callback>>
       PROVE  IInv'
  <2>1. /\ ~Has(timers, o) /\ stopper[o] \in {"no", "finished"}
        /\ callback[o] \in {"unset", "gone"}
    BY <1>5, <1>6, <1>12 DEF Stage
  <2> QED
    BY <1>4, <1>9, <1>10, <1>12, <2>1
<1>13. ASSUME execute[o] = "remove", RemoveTimerFromQueueAndCompleteWithDone(o),
              UNCHANGED <<pc, localQueue, execute>>
       PROVE  IInv'
  <2>1. /\ Has(timers, o) <=> ~elapsed[o]
        /\ stopper[o] \in {"no", "finished"}
        /\ callback' = [callback EXCEPT ![o] = "gone"]
        /\ Complete(o, "done")
    BY <1>5, <1>6, <1>13
       DEF Stage, RemoveTimerFromQueueAndCompleteWithDone, DestructCallback
  <2>2. /\ TimersKept /\ ~Has(timers', o)
        /\ \A p \in Ops : p # o => (Has(timers', p) <=> Has(timers, p))
    <3>1. CASE elapsed[o]
      BY <1>10, <1>13, <2>1, <3>1 DEF RemoveTimerFromQueueAndCompleteWithDone
    <3>2. CASE ~elapsed[o]
      <4>1. RemoveTimer(o)
        BY <1>13, <3>2 DEF RemoveTimerFromQueueAndCompleteWithDone
      <4> QED
        BY <1>1, <1>2, <1>4, <4>1, RemoveEffects DEF IInv, Once
    <3> QED
      BY <3>1, <3>2
  <2> QED
    BY <1>9, <1>13, <2>1, <2>2
<1> QED
  BY <1>3, <1>8, <1>11, <1>12, <1>13 DEF ExecuteItem

-----------------------------------------------------------------------------
(***************************************************************************)
(* The ring.                                                               *)
(***************************************************************************)

LEMMA CounterModulo ==
    ASSUME NEW x \in Int
    PROVE  /\ x % CounterRange \in 0 .. CounterRange - 1
           /\ x \in 0 .. CounterRange - 1 => x % CounterRange = x
<1>1. CounterRange \in Nat /\ CounterRange > 0
  BY TimersAssumption
<1>2. x % CounterRange \in 0 .. CounterRange - 1
  BY <1>1
<1>3. x \in 0 .. CounterRange - 1 => x % CounterRange = x
  BY <1>1
<1> QED
  BY <1>2, <1>3

\* The parts of the invariant about operations, after a step that leaves them.
LEMMA OpsLeft ==
    ASSUME IInv, UNCHANGED <<batch, localQueue, remoteQueue, timers, now, opVars>>,
           timersAreDirty' \in BOOLEAN
    PROVE  QueueTypes' /\ OpTypes' /\ Once' /\ OpsInv' /\ Sorted'
<1>1. QueueTypes /\ OpTypes
  BY TypedSplit DEF IInv, Typed
<1>2. QueueTypes' /\ OpTypes'
  BY <1>1 DEF QueueTypes, OpTypes, opVars
<1>3. InputFrame /\ \A p \in Ops : OpFrame(p) /\ PlaceFrame(p)
  BY DEF InputFrame, OpFrame, PlaceFrame, Ready, opVars
<1>4. OpsInv'
  BY <1>1, <1>3, NoOp DEF IInv
<1>5. Once' /\ Sorted'
  BY DEF IInv, Once, Sorted, NoRepeats, opVars
<1> QED
  BY <1>2, <1>4, <1>5

LEMMA TypedNext == Typed' => TypeOK' /\ Shapes'
<1>1. (TypeOK /\ Shapes)' <=> Typed'
  BY TypedSplit, PTL
<1> QED
  BY <1>1

LEMMA AcquireKeeps ==
    ASSUME IInv, AcquireCompletionQueueItems
    PROVE  IInv'
<1>1. PcType /\ QueueTypes /\ IoTypes
  BY TypedSplit DEF IInv, Typed
<1>2. /\ UNCHANGED <<batch, localQueue, remoteQueue, timers, handler, now, opVars>>
      /\ pc = "exec" /\ pc' = "timers" /\ batch = <<>>
      /\ timersAreDirty' = (timersAreDirty \/ Telling)
      /\ currentDueTime' =
           IF \E n \in 1 .. Len(io.cq) : (io.activeTimerCount - n) % CounterRange = 0
           THEN NoTime ELSE currentDueTime
      /\ io' = [io EXCEPT
                  !.cq = <<>>,
                  !.activeTimerCount = (io.activeTimerCount - Len(io.cq)) % CounterRange]
  BY DEF AcquireCompletionQueueItems, Telling
<1>3. QueueTypes' /\ OpTypes' /\ Once' /\ OpsInv' /\ Sorted'
  <2>1. timersAreDirty' \in BOOLEAN
    BY <1>2
  <2> QED
    BY <1>2, <2>1, OpsLeft
<1>4. /\ io.cq \in Seq(Entries) /\ Len(io.cq) \in Nat
      /\ io.activeTimerCount \in 0 .. CounterRange - 1 /\ CounterRange \in Nat
      /\ io.sqUnflushedCount \in 0 .. CqEntryCount
      /\ io.leaked \in Int /\ io.armed \in 0 .. MaxTime
      /\ CqEntryCount \in Nat /\ CqEntryCount > 0 /\ CounterRange > CqEntryCount + 1
      /\ currentDueTime \in 0 .. MaxTime /\ MaxTime \in Nat
  <2>1. io.cq \in Seq(Entries) /\ io.leaked \in Int /\ io.armed \in 0 .. MaxTime
    BY <1>1, IoFields DEF IoTypes
  <2> QED
    BY <1>1, <2>1, TimersAssumption DEF IoTypes
<1> DEFINE L == Len(io.cq)
           A == io.activeTimerCount
           k == (A - L) % CounterRange
<1>5. k \in 0 .. CounterRange - 1
  <2>1. A - L \in Int
    BY <1>4
  <2> HIDE DEF A, L
  <2> QED
    BY <2>1, CounterModulo
<1>6. /\ io' \in IoRecords /\ io'.cq = <<>> /\ io'.activeTimerCount = k
      /\ io'.sqUnflushedCount = io.sqUnflushedCount /\ io'.armed = io.armed
      /\ io'.leaked = io.leaked /\ io'.doubled = io.doubled
  <2>1. io \in IoRecords /\ k \in Int /\ <<>> \in Seq(Entries)
    BY <1>1, <1>4, <1>5 DEF IoTypes
  <2>2. io' = [io EXCEPT !.cq = <<>>, !.activeTimerCount = k]
    BY <1>2
  <2> HIDE DEF k
  <2>3. io' = [sqUnflushedCount |-> io.sqUnflushedCount, cq |-> <<>>, tail |-> io.tail,
               activeTimerCount |-> k, armed |-> io.armed,
               timerId |-> io.timerId, lastTimerOp |-> io.lastTimerOp,
               entryRef |-> io.entryRef, leaked |-> io.leaked, doubled |-> io.doubled]
    BY <2>1, <2>2 DEF IoRecords
  <2>4. io' \in IoRecords
    BY <2>1, <2>3, IoFields DEF IoRecords
  <2> QED
    BY <2>3, <2>4
<1>7. IoTypes'
  <2>1. currentDueTime' \in 0 .. MaxTime
    BY <1>2, <1>4 DEF NoTime
  <2>2. Len(io'.cq) = 0
    BY <1>6
  <2>3. handler'.on \in BOOLEAN
    BY <1>1, <1>2 DEF IoTypes
  <2> HIDE DEF k
  <2> QED
    BY <1>4, <1>5, <1>6, <2>1, <2>2, <2>3 DEF IoTypes
<1>8. TypeOK' /\ Shapes'
  BY <1>2, <1>3, <1>7, TypedNext DEF Typed, PcType
<1>9. Constructing'
  BY <1>2 DEF IInv, Constructing, opVars
<1>10. ~Telling'
  BY <1>6 DEF Telling
<1> DEFINE c == AsInt(io.armed # NoTime) + AsInt(handler.on)
<1>11. /\ io.leaked >= 0 /\ io.sqUnflushedCount = io.leaked + c
       /\ ~io.doubled =>
            /\ A = L + c
            /\ io.armed # NoTime => currentDueTime = io.armed
            /\ currentDueTime # NoTime => Telling \/ handler.on \/ io.armed # NoTime
  BY <1>2 DEF IInv, Ring
<1>12. c \in 0 .. 2 /\ (c = 0 <=> io.armed = NoTime /\ ~handler.on)
  BY DEF AsInt
<1>13. ASSUME ~io.doubled
       PROVE  /\ k = c
              /\ currentDueTime' = NoTime => currentDueTime = NoTime \/ c = 0
              /\ currentDueTime' # NoTime => currentDueTime' = currentDueTime /\ c # 0
  <2>1. A = L + c
    BY <1>11, <1>13
  <2> HIDE DEF A, L, c
  <2>2. A \in 0 .. CounterRange - 1 /\ L \in Nat /\ c \in 0 .. CounterRange - 1
    BY <1>4, <1>12 DEF A, L
  <2>3. k = c
    <3>1. A - L = c
      BY <2>1, <2>2
    <3> QED
      BY <2>2, <3>1, CounterModulo
  <2>4. ASSUME NEW n \in 1 .. L
        PROVE  (A - n) % CounterRange = A - n /\ A - n >= c
    <3>1. A - n \in 0 .. CounterRange - 1 /\ A - n >= c
      BY <1>4, <2>1, <2>2
    <3> QED
      BY <3>1, CounterModulo
  <2>5. (\E n \in 1 .. L : (A - n) % CounterRange = 0) => c = 0
    BY <2>2, <2>4
  <2>6. c = 0 /\ L > 0 => \E n \in 1 .. L : (A - n) % CounterRange = 0
    <3> SUFFICES ASSUME c = 0, L > 0
                 PROVE  \E n \in 1 .. L : (A - n) % CounterRange = 0
      OBVIOUS
    <3>1. L \in 1 .. L /\ A - L = 0
      BY <2>1, <2>2
    <3> QED
      BY <2>4, <3>1
  <2>7. currentDueTime' =
           IF \E n \in 1 .. L : (A - n) % CounterRange = 0
           THEN NoTime ELSE currentDueTime
    BY <1>2 DEF A, L
  <2>8. c = 0 /\ L = 0 => currentDueTime = NoTime
    <3> SUFFICES ASSUME c = 0, L = 0
                 PROVE  currentDueTime = NoTime
      OBVIOUS
    <3>1. ~Telling
      BY <1>4 DEF Telling, L
    <3> QED
      BY <1>11, <1>12, <1>13, <3>1
  <2> HIDE DEF k
  <2> QED
    BY <2>2, <2>3, <2>5, <2>6, <2>7, <2>8
<1>14. Ring'
  <2>1. handler' = handler /\ pc' # "torn"
    BY <1>2
  <2>2. AsInt(io'.armed # NoTime) + AsInt(handler'.on) = c
    BY <1>6, <2>1
  <2>3. ~io'.doubled =>
          /\ io'.activeTimerCount = Len(io'.cq) + c
          /\ io'.armed # NoTime => currentDueTime' = io'.armed
          /\ currentDueTime' # NoTime => handler'.on \/ io'.armed # NoTime
    <3> SUFFICES ASSUME ~io'.doubled
                 PROVE  /\ io'.activeTimerCount = Len(io'.cq) + c
                        /\ io'.armed # NoTime => currentDueTime' = io'.armed
                        /\ currentDueTime' # NoTime => handler'.on \/ io'.armed # NoTime
      OBVIOUS
    <3>0. ~io.doubled
      BY <1>6
    <3>1. Len(io'.cq) = 0 /\ io'.activeTimerCount = k
      BY <1>6
    <3>2. /\ k = c
          /\ currentDueTime' = NoTime => currentDueTime = NoTime \/ c = 0
          /\ currentDueTime' # NoTime => currentDueTime' = currentDueTime /\ c # 0
      BY <1>13, <3>0
    <3> HIDE DEF k, c
    <3> QED
      BY <1>6, <1>11, <1>12, <2>1, <3>0, <3>1, <3>2
  <2> HIDE DEF k, c
  <2> QED
    BY <1>6, <1>11, <2>1, <2>2, <2>3 DEF Ring
<1>15. Wake'
  BY <1>2, <1>6 DEF IInv, Wake, opVars
<1> QED
  BY <1>3, <1>8, <1>9, <1>14, <1>15 DEF IInv

LEMMA TimerTimeoutKeeps ==
    ASSUME IInv, TimerTimeout
    PROVE  IInv'
<1>1. PcType /\ QueueTypes /\ IoTypes
  BY TypedSplit DEF IInv, Typed
<1>2. /\ UNCHANGED <<pc, batch, localQueue, remoteQueue, timers, timersAreDirty,
                     currentDueTime, now, opVars>>
      /\ ~handler.on /\ pc # "torn" /\ io.armed # NoTime
      /\ io' = [io EXCEPT !.armed = NoTime] /\ handler'.on
  BY DEF TimerTimeout, Counters
<1>3. QueueTypes' /\ OpTypes' /\ Once' /\ OpsInv' /\ Sorted'
  <2>1. timersAreDirty' \in BOOLEAN
    BY <1>1, <1>2 DEF QueueTypes
  <2> QED
    BY <1>2, <2>1, OpsLeft
<1>4. /\ io' \in IoRecords /\ io'.cq = io.cq
      /\ io'.activeTimerCount = io.activeTimerCount
      /\ io'.sqUnflushedCount = io.sqUnflushedCount /\ io'.armed = NoTime
      /\ io'.leaked = io.leaked /\ io'.doubled = io.doubled
  <2>1. io \in IoRecords
    BY <1>1 DEF IoTypes
  <2>2. NoTime \in 0 .. MaxTime
    BY TimersAssumption DEF NoTime
  <2> QED
    BY <1>2, <2>1, <2>2 DEF IoRecords
<1>5. IoTypes'
  <2>1. handler'.on = TRUE
    BY <1>2 DEF TimerTimeout, Counters
  <2> QED
    BY <1>1, <1>2, <1>4, <2>1 DEF IoTypes
<1>6. TypeOK' /\ Shapes'
  BY <1>1, <1>2, <1>3, <1>5, TypedNext DEF Typed, PcType
<1>7. Constructing'
  BY <1>2 DEF IInv, Constructing, opVars
<1>8. Ring'
  <2>1. AsInt(io.armed # NoTime) + AsInt(handler.on) = 1
    BY <1>2 DEF AsInt
  <2>2. AsInt(io'.armed # NoTime) + AsInt(handler'.on) = 1
    BY <1>2, <1>4 DEF AsInt
  <2> QED
    BY <1>2, <1>4, <2>1, <2>2 DEF IInv, Ring
<1>9. Wake'
  BY <1>2 DEF Wake
<1> QED
  BY <1>3, <1>6, <1>7, <1>8, <1>9 DEF IInv

LEMMA TimerTimeoutCallbackKeeps ==
    ASSUME IInv, TimerTimeoutCallback
    PROVE  IInv'
<1>1. PcType /\ QueueTypes /\ IoTypes
  BY TypedSplit DEF IInv, Typed
<1>2. /\ UNCHANGED <<batch, localQueue, remoteQueue, timers, timersAreDirty,
                     currentDueTime, now, opVars>>
      /\ handler.on /\ ~handler'.on /\ handler'.on \in BOOLEAN
  BY DEF TimerTimeoutCallback, Idle
<1>3. QueueTypes' /\ OpTypes' /\ Once' /\ OpsInv' /\ Sorted'
  <2>1. timersAreDirty' \in BOOLEAN
    BY <1>1, <1>2 DEF QueueTypes
  <2> QED
    BY <1>2, <2>1, OpsLeft
<1>4. pc # "torn"
  BY <1>2 DEF IInv, Ring
<1>5. CASE handler = Counters
  <2>1. io' = SubmitTimerCompletionQueueEntry(io) /\ pc' = pc
    BY <1>5 DEF TimerTimeoutCallback
  <2>2. /\ io' \in IoRecords
        /\ io'.sqUnflushedCount = io.sqUnflushedCount - 1
        /\ Len(io'.cq) = Len(io.cq) + 1
        /\ io'.activeTimerCount = io.activeTimerCount
        /\ io'.armed = io.armed
        /\ io'.leaked = io.leaked
        /\ io'.doubled = io.doubled
        /\ Tells(io')
    <3>1. io \in IoRecords
      BY <1>1 DEF IoTypes
    <3> QED
      BY <2>1, <3>1, PostEntry
  <2>3. Telling'
    BY <2>2 DEF Telling, Tells
  <2>4. /\ io.leaked \in Int /\ io.sqUnflushedCount \in 0 .. CqEntryCount
        /\ Len(io.cq) \in Nat /\ CqEntryCount \in Nat
        /\ Len(io.cq) + io.sqUnflushedCount \in 0 .. CqEntryCount
    BY <1>1, IoFields, TimersAssumption DEF IoTypes
  <2> DEFINE a == AsInt(io.armed # NoTime)
  <2>5. /\ AsInt(io.armed # NoTime) + AsInt(handler.on) = a + 1
        /\ AsInt(io'.armed # NoTime) + AsInt(handler'.on) = a
        /\ a \in 0 .. 1
    BY <1>2, <2>2 DEF AsInt
  <2> HIDE DEF a
  <2>6. /\ io.leaked >= 0
        /\ io.sqUnflushedCount = io.leaked + (a + 1)
        /\ ~io.doubled =>
             /\ io.activeTimerCount = Len(io.cq) + (a + 1)
             /\ io.armed # NoTime => currentDueTime = io.armed
    BY <1>4, <2>5 DEF IInv, Ring
  <2>7. Ring'
    <3>1. io'.sqUnflushedCount = io'.leaked + a /\ io'.leaked >= 0
      BY <2>2, <2>4, <2>5, <2>6
    <3>2. ~io'.doubled => io'.activeTimerCount = Len(io'.cq) + a
      <4>1. PICK l \in Nat : l = Len(io.cq)
        BY <2>4
      <4>2. Len(io'.cq) = l + 1
        BY <2>2, <4>1
      <4>3. ~io.doubled => io.activeTimerCount = l + (a + 1)
        BY <2>6, <4>1
      <4>4. l + (a + 1) = (l + 1) + a
        BY <2>5
      <4> QED
        BY <2>2, <4>2, <4>3, <4>4
    <3> QED
      BY <1>2, <1>4, <2>1, <2>2, <2>3, <2>5, <2>6, <3>1, <3>2 DEF Ring
  <2>8. IoTypes'
    <3>1. /\ io'.sqUnflushedCount \in 0 .. CqEntryCount
          /\ Len(io'.cq) + io'.sqUnflushedCount \in 0 .. CqEntryCount
      <4>1. PICK l \in Nat : l = Len(io.cq)
        BY <2>4
      <4>2. PICK s \in 0 .. CqEntryCount : s = io.sqUnflushedCount
        BY <2>4
      <4>3. Len(io'.cq) = l + 1 /\ io'.sqUnflushedCount = s - 1
        BY <2>2, <4>1, <4>2
      <4>4. s >= 1 /\ l + s \in 0 .. CqEntryCount
        BY <2>4, <2>5, <2>6, <4>1, <4>2
      <4>5. s - 1 \in 0 .. CqEntryCount /\ (l + 1) + (s - 1) \in 0 .. CqEntryCount
        BY <2>4, <4>4
      <4> QED
        BY <4>3, <4>5
    <3> QED
      BY <1>1, <1>2, <2>2, <3>1 DEF IoTypes
  <2>9. TypeOK' /\ Shapes'
    BY <1>1, <1>3, <2>1, <2>8, TypedNext DEF Typed, PcType
  <2>10. Constructing'
    BY <1>2, <2>1 DEF IInv, Constructing, opVars
  <2>11. Wake'
    BY <2>3 DEF Wake
  <2> QED
    BY <1>3, <2>7, <2>9, <2>10, <2>11 DEF IInv
<1>6. CASE handler # Counters
  <2>1. io' = io /\ pc' = "torn"
    BY <1>6 DEF TimerTimeoutCallback
  <2>2. IoTypes'
    BY <1>1, <1>2, <2>1 DEF IoTypes
  <2>3. TypeOK' /\ Shapes'
    BY <1>3, <2>1, <2>2, TypedNext DEF Typed, PcType
  <2>4. Constructing'
    BY <1>2, <2>1 DEF IInv, Constructing, opVars
  <2>5. Ring' /\ Wake'
    BY <1>2, <2>1 DEF Ring, Wake
  <2> QED
    BY <1>3, <2>3, <2>4, <2>5 DEF IInv
<1> QED
  BY <1>5, <1>6

(* update_timers and the operations.                                       *)
LEMMA UpdateTimersOps ==
    ASSUME IInv, NEW wholeSeconds \in BOOLEAN, UpdateTimers(wholeSeconds)
    PROVE  /\ OpTypes' /\ Once' /\ OpsInv' /\ Sorted' /\ Constructing'
           /\ batch' \in Seq(Ops) /\ localQueue' \in Seq(Ops)
           /\ remoteQueue' \in Seq(Ops) /\ timers' \in Seq(Ops)
<1> DEFINE past == Keep(timers, {o \in Ops : Elapsed(o)})
           rest == Keep(timers, {o \in Ops : ~Elapsed(o)})
           mine == Keep(past, {o \in Ops : ReapSchedules(o)})
<1>1. QueueTypes /\ OpTypes
  BY TypedSplit DEF IInv, Typed
<1>2. /\ UNCHANGED <<batch, remoteQueue, now, due, canBeCancelled, execute,
                     cancelPending, stopRequested, callback, stopper, completed>>
      /\ pc = "timers" /\ pc' = "remote"
      /\ timers' = rest /\ localQueue' = localQueue \o mine
      /\ elapsed' = [o \in Ops |-> elapsed[o] \/ (Has(past, o) /\ canBeCancelled[o])]
  BY DEF UpdateTimers
<1>3. /\ past \in Seq(Ops) /\ NoRepeats(past)
      /\ \A o \in Ops : Has(past, o) <=> Has(timers, o) /\ Elapsed(o)
  <2> DEFINE S == {o \in Ops : Elapsed(o)}
  <2>1. timers \in Seq(Ops) /\ NoRepeats(timers)
    BY <1>1 DEF QueueTypes, IInv, Once
  <2>2. \A o \in Ops : o \in S <=> Elapsed(o)
    OBVIOUS
  <2> HIDE DEF S
  <2> QED
    BY <2>1, <2>2, KeepFacts
<1>4. /\ timers' \in Seq(Ops) /\ NoRepeats(timers')
      /\ \A o \in Ops : Has(timers', o) <=> Has(timers, o) /\ ~Elapsed(o)
  <2> DEFINE S == {o \in Ops : ~Elapsed(o)}
  <2>1. timers \in Seq(Ops) /\ NoRepeats(timers)
    BY <1>1 DEF QueueTypes, IInv, Once
  <2>2. \A o \in Ops : o \in S <=> ~Elapsed(o)
    OBVIOUS
  <2> HIDE DEF S
  <2> QED
    BY <1>2, <2>1, <2>2, KeepFacts
<1> HIDE DEF past
<1>5. /\ mine \in Seq(Ops) /\ NoRepeats(mine)
      /\ \A o \in Ops : Has(mine, o) <=> Has(past, o) /\ ReapSchedules(o)
      /\ \A o : Has(mine, o) => o \in Ops
  <2> DEFINE S == {o \in Ops : ReapSchedules(o)}
  <2>1. \A o \in Ops : o \in S <=> ReapSchedules(o)
    OBVIOUS
  <2>2. S \subseteq Ops
    OBVIOUS
  <2> HIDE DEF S
  <2> QED
    BY <1>3, <2>1, <2>2, KeepFacts
<1> HIDE DEF mine, rest
<1>6. \A o \in Ops : Stage(o) /\ Stopping(o) /\ OnTime(o) /\ callback[o] # "pending"
  BY <1>2 DEF IInv, OpsInv, Constructing
<1>7. \A o \in Ops : Has(mine, o) => ~Ready(o)
  <2> SUFFICES ASSUME NEW o \in Ops, Has(mine, o)
               PROVE  ~Ready(o)
    OBVIOUS
  <2>1. Has(timers, o) /\ ~(canBeCancelled[o] /\ cancelPending[o])
    BY <1>3, <1>5 DEF ReapSchedules
  <2> QED
    BY <1>6, <2>1 DEF Stage
<1>8. /\ localQueue' \in Seq(Ops) /\ NoRepeats(localQueue')
      /\ \A o : Has(localQueue', o) <=> Has(localQueue, o) \/ Has(mine, o)
  <2>1. localQueue \in Seq(Ops) /\ NoRepeats(localQueue)
    BY <1>1 DEF QueueTypes, IInv, Once
  <2>2. \A o : ~(Has(localQueue, o) /\ Has(mine, o))
    BY <1>5, <1>7 DEF Ready
  <2> QED
    BY <1>2, <1>5, <2>1, <2>2, ConcatFacts
<1>9. Once'
  BY <1>2, <1>4, <1>7, <1>8 DEF IInv, Once, Ready, NoRepeats
<1>10. OpTypes' /\ \A o \in Ops : elapsed'[o] = (elapsed[o] \/ (Has(past, o) /\ canBeCancelled[o]))
  <2>1. \A o \in Ops : (elapsed[o] \/ (Has(past, o) /\ canBeCancelled[o])) \in BOOLEAN
    OBVIOUS
  <2>2. elapsed' \in [Ops -> BOOLEAN]
    BY <1>2, <2>1
  <2>3. \A o \in Ops : elapsed'[o] = (elapsed[o] \/ (Has(past, o) /\ canBeCancelled[o]))
    BY <1>2
  <2> QED
    BY <1>1, <1>2, <2>2, <2>3 DEF OpTypes
<1>11. OpsInv'
  <2> SUFFICES ASSUME NEW o \in Ops
               PROVE  Stage(o)' /\ Stopping(o)' /\ OnTime(o)'
    BY DEF OpsInv
  <2>1. Ready(o)' <=> Ready(o) \/ Has(mine, o)
    BY <1>2, <1>8 DEF Ready
  <2>2. CASE Has(past, o)
    <3>1. Has(timers, o) /\ due[o] <= now /\ ~Has(timers', o)
      BY <1>3, <1>4, <2>2 DEF Elapsed
    <3>2. Has(mine, o) <=> ~(canBeCancelled[o] /\ cancelPending[o])
      BY <1>5, <2>2 DEF ReapSchedules
    <3>3. elapsed'[o] <=> elapsed[o] \/ canBeCancelled[o]
      BY <1>10, <2>2
    <3>4. Stage(o)'
      BY <1>2, <1>6, <2>1, <3>1, <3>2, <3>3 DEF Stage
    <3> QED
      BY <1>2, <1>6, <3>1, <3>4 DEF Stopping, OnTime
  <2>3. CASE ~Has(past, o)
    <3>1. Has(timers', o) <=> Has(timers, o)
      BY <1>3, <1>4, <2>3
    <3>2. ~Has(mine, o) /\ elapsed'[o] = elapsed[o]
      BY <1>1, <1>5, <1>10, <2>3 DEF OpTypes
    <3>3. OpFrame(o) /\ PlaceFrame(o) /\ InputFrame
      BY <1>2, <2>1, <3>1, <3>2 DEF OpFrame, PlaceFrame, InputFrame
    <3> QED
      BY <1>1, <1>6, <3>3, OpSame
  <2> QED
    BY <2>2, <2>3
<1>12. Sorted'
  <2>1. \A i, j \in 1 .. Len(timers') : i < j => due[timers'[i]] <= due[timers'[j]]
    BY <1>1, <1>2, KeepSorted DEF IInv, rest
  <2>2. DOMAIN timers' = 1 .. Len(timers')
    BY <1>4
  <2> QED
    BY <1>2, <2>1, <2>2 DEF Sorted
<1>13. Constructing'
  BY <1>2, <1>6 DEF IInv, Constructing
<1> QED
  BY <1>1, <1>2, <1>4, <1>8, <1>9, <1>10, <1>11, <1>12, <1>13 DEF QueueTypes

(* update_timers and the ring: Ring and the types, of a ring r with d as    *)
(* currentDueTime_.                                                        *)
RingOk(r, d) ==
    /\ r \in IoRecords
    /\ r.sqUnflushedCount \in 0 .. CqEntryCount
    /\ Len(r.cq) + r.sqUnflushedCount \in 0 .. CqEntryCount
    /\ r.activeTimerCount \in 0 .. CounterRange - 1
    /\ r.leaked >= 0
    /\ r.sqUnflushedCount = r.leaked + Coming(r)
    /\ ~r.doubled =>
         /\ r.activeTimerCount = Len(r.cq) + Coming(r)
         /\ r.armed # NoTime => d = r.armed
         /\ d # NoTime => Tells(r) \/ handler.on \/ r.armed # NoTime

LEMMA CancelRing ==
    ASSUME NEW r, NEW d, RingOk(r, d), CanSubmitIo(r)
    PROVE  RingOk(CancelTimer(r), NoTime)
<1> DEFINE c == CancelTimer(r)
           gone == r.timerId # "zero"
           a == AsInt(r.armed # NoTime)
           h == AsInt(handler.on)
<1>1. r \in IoRecords
  BY DEF RingOk
<1>2. /\ c \in IoRecords
      /\ c.sqUnflushedCount = r.sqUnflushedCount
      /\ Len(c.cq) = Len(r.cq) + 1
      /\ c.activeTimerCount = r.activeTimerCount
      /\ c.armed = IF gone THEN NoTime ELSE r.armed
      /\ c.leaked = IF gone /\ r.armed # NoTime THEN r.leaked + 1 ELSE r.leaked
      /\ c.doubled = (r.doubled \/ r.armed = NoTime \/ ~gone)
  BY <1>1, CancelEffects
<1> HIDE DEF c
<1>3. PICK l \in Nat : l = Len(r.cq)
  <2>1. r.cq \in Seq(Entries)
    BY <1>1, IoFields
  <2> QED
    BY <2>1
<1>4. PICK s \in Nat : s = r.sqUnflushedCount
  BY TimersAssumption DEF RingOk
<1>5. l + s < CqEntryCount /\ s < CqEntryCount /\ CqEntryCount \in Nat
  BY <1>3, <1>4, TimersAssumption DEF CanSubmitIo
<1>6. r.leaked \in Int /\ r.leaked >= 0 /\ a \in 0 .. 1 /\ h \in 0 .. 1
      /\ (a = 1 <=> r.armed # NoTime) /\ Coming(r) = a + h
  BY <1>1, IoFields DEF RingOk, Coming, AsInt
<1>7. s = r.leaked + (a + h) /\ r.activeTimerCount \in 0 .. CounterRange - 1
      /\ (~r.doubled => r.activeTimerCount = l + (a + h))
  BY <1>3, <1>4, <1>6 DEF RingOk
<1>8. CASE gone /\ r.armed # NoTime
  <2>1. Coming(c) = h /\ c.leaked = r.leaked + 1 /\ a = 1 /\ c.armed = NoTime
    BY <1>2, <1>6, <1>8 DEF Coming, AsInt
  <2>2. c.sqUnflushedCount = c.leaked + h /\ c.leaked >= 0
    <3> HIDE DEF a, h
    <3> QED
      BY <1>2, <1>4, <1>6, <1>7, <2>1
  <2>3. ~c.doubled => c.activeTimerCount = Len(c.cq) + h
    <3>1. l + (1 + h) = (l + 1) + h
      BY <1>6
    <3>2. ~c.doubled => ~r.doubled
      BY <1>2
    <3> HIDE DEF a, h
    <3> QED
      BY <1>2, <1>3, <1>7, <2>1, <3>1, <3>2
  <2>4. c.sqUnflushedCount \in 0 .. CqEntryCount
        /\ Len(c.cq) + c.sqUnflushedCount \in 0 .. CqEntryCount
    BY <1>2, <1>3, <1>4, <1>5
  <2> HIDE DEF h
  <2> QED
    BY <1>2, <1>7, <2>1, <2>2, <2>3, <2>4 DEF RingOk, c
<1>9. CASE ~(gone /\ r.armed # NoTime)
  <2>1. c.doubled /\ c.leaked = r.leaked /\ Coming(c) = a + h
    BY <1>2, <1>6, <1>9 DEF Coming, AsInt
  <2>2. c.sqUnflushedCount \in 0 .. CqEntryCount
        /\ Len(c.cq) + c.sqUnflushedCount \in 0 .. CqEntryCount
    BY <1>2, <1>3, <1>4, <1>5
  <2>3. c.sqUnflushedCount = c.leaked + Coming(c) /\ c.leaked >= 0
    <3> HIDE DEF a, h
    <3> QED
      BY <1>2, <1>4, <1>6, <1>7, <2>1
  <2> HIDE DEF a, h
  <2> QED
    BY <1>2, <1>7, <2>1, <2>2, <2>3 DEF RingOk, c
<1> QED
  BY <1>8, <1>9

LEMMA ArmRing ==
    ASSUME NEW r, RingOk(r, NoTime), CanSubmitIo(r), NEW o \in Ops,
           NEW wholeSeconds \in BOOLEAN, due[o] \in 1 .. MaxTime, handler.on \in BOOLEAN
    PROVE  LET a == ArmTimer(r, o, wholeSeconds)
           IN /\ RingOk(a, due[o])
              /\ a.doubled \/ Tells(a) \/ (a.armed # NoTime /\ a.armed <= due[o])
<1> DEFINE a == ArmTimer(r, o, wholeSeconds)
           x == AsInt(r.armed # NoTime)
           h == AsInt(handler.on)
<1>1. r \in IoRecords /\ MaxTime \in Nat
  BY TimersAssumption DEF RingOk
<1>2. /\ a \in IoRecords
      /\ a.activeTimerCount = (r.activeTimerCount + 1) % CounterRange
      /\ a.doubled = r.doubled
      /\ \/ /\ a.sqUnflushedCount = r.sqUnflushedCount
            /\ Len(a.cq) = Len(r.cq) + 1
            /\ Tells(a)
            /\ a.armed = r.armed /\ a.leaked = r.leaked
         \/ /\ a.sqUnflushedCount = r.sqUnflushedCount + 1
            /\ a.cq = r.cq
            /\ a.armed = due[o]
            /\ a.leaked = IF r.armed # NoTime THEN r.leaked + 1 ELSE r.leaked
  <2>1. due[o] \in 0 .. MaxTime
    BY <1>1
  <2> QED
    BY <1>1, <2>1, ArmEffects
<1> HIDE DEF a
<1>3. PICK l \in Nat : l = Len(r.cq)
  <2>1. r.cq \in Seq(Entries)
    BY <1>1, IoFields
  <2> QED
    BY <2>1
<1>4. PICK s \in Nat : s = r.sqUnflushedCount
  BY TimersAssumption DEF RingOk
<1>5. l + s < CqEntryCount /\ s < CqEntryCount /\ CqEntryCount \in Nat
      /\ CounterRange \in Nat /\ CounterRange > CqEntryCount + 1
  BY <1>3, <1>4, TimersAssumption DEF CanSubmitIo
<1>6. r.leaked \in Int /\ r.leaked >= 0 /\ x \in 0 .. 1 /\ h \in 0 .. 1
      /\ (x = 1 <=> r.armed # NoTime) /\ Coming(r) = x + h
  BY <1>1, IoFields DEF RingOk, Coming, AsInt
<1>7. s = r.leaked + (x + h) /\ r.activeTimerCount \in 0 .. CounterRange - 1
      /\ (~r.doubled => r.activeTimerCount = l + (x + h) /\ r.armed = NoTime)
  BY <1>1, <1>3, <1>4, <1>6, IoFields DEF RingOk, NoTime
<1>8. a.activeTimerCount \in 0 .. CounterRange - 1
  <2>1. r.activeTimerCount + 1 \in Int
    BY <1>5, <1>7
  <2> QED
    BY <1>2, <2>1, CounterModulo
<1>9. ~r.doubled => a.activeTimerCount = (l + h) + 1 /\ x = 0 /\ r.armed = NoTime
  <2> SUFFICES ASSUME ~r.doubled
               PROVE  a.activeTimerCount = (l + h) + 1 /\ x = 0 /\ r.armed = NoTime
    OBVIOUS
  <2>1. x = 0 /\ r.armed = NoTime
    BY <1>6, <1>7
  <2> HIDE DEF x, h
  <2>2. r.activeTimerCount + 1 = (l + h) + 1 /\ (l + h) + 1 \in 0 .. CounterRange - 1
    BY <1>5, <1>6, <1>7, <2>1
  <2> QED
    BY <1>2, <2>1, <2>2, CounterModulo
<1>10. CASE /\ a.sqUnflushedCount = r.sqUnflushedCount
            /\ Len(a.cq) = Len(r.cq) + 1
            /\ Tells(a)
            /\ a.armed = r.armed /\ a.leaked = r.leaked
  <2>1. Coming(a) = x + h
    BY <1>10 DEF Coming
  <2> HIDE DEF x, h
  <2>2. a.sqUnflushedCount \in 0 .. CqEntryCount
        /\ Len(a.cq) + a.sqUnflushedCount \in 0 .. CqEntryCount
    BY <1>3, <1>4, <1>5, <1>10
  <2>3. a.sqUnflushedCount = a.leaked + Coming(a) /\ a.leaked >= 0
    BY <1>4, <1>6, <1>7, <1>10, <2>1
  <2>4. ~a.doubled => /\ a.activeTimerCount = Len(a.cq) + Coming(a)
                      /\ a.armed = NoTime
    <3>1. (l + h) + 1 = (l + 1) + (0 + h)
      BY <1>6
    <3> QED
      BY <1>2, <1>3, <1>9, <1>10, <2>1, <3>1
  <2>5. RingOk(a, due[o])
    BY <1>2, <1>8, <1>10, <2>2, <2>3, <2>4 DEF RingOk
  <2> QED
    BY <1>10, <2>5 DEF a
<1>11. CASE /\ a.sqUnflushedCount = r.sqUnflushedCount + 1
            /\ a.cq = r.cq
            /\ a.armed = due[o]
            /\ a.leaked = IF r.armed # NoTime THEN r.leaked + 1 ELSE r.leaked
  <2>0. a.armed # NoTime /\ due[o] <= due[o]
    BY <1>1, <1>11 DEF NoTime
  <2>1. Coming(a) = 1 + h /\ a.leaked = r.leaked + x
    BY <1>6, <1>11, <2>0 DEF Coming, AsInt
  <2> HIDE DEF x, h
  <2>2. a.sqUnflushedCount \in 0 .. CqEntryCount
        /\ Len(a.cq) + a.sqUnflushedCount \in 0 .. CqEntryCount
    BY <1>3, <1>4, <1>5, <1>11
  <2>3. a.sqUnflushedCount = a.leaked + Coming(a) /\ a.leaked >= 0
    <3>1. PICK k \in Nat : k = r.leaked
      BY <1>6
    <3>2. s = k + (x + h) /\ a.leaked = k + x /\ a.sqUnflushedCount = s + 1
      BY <1>4, <1>7, <1>11, <2>1, <3>1
    <3>3. s + 1 = (k + x) + (1 + h) /\ k + x >= 0
      BY <1>6, <3>2
    <3> QED
      BY <2>1, <3>2, <3>3
  <2>4. ~a.doubled => a.activeTimerCount = Len(a.cq) + Coming(a)
    <3>1. (l + h) + 1 = l + (1 + h)
      BY <1>6
    <3> QED
      BY <1>2, <1>3, <1>9, <1>11, <2>1, <3>1
  <2>5. RingOk(a, due[o])
    BY <1>2, <1>8, <1>11, <2>0, <2>2, <2>3, <2>4 DEF RingOk
  <2> QED
    BY <1>11, <2>0, <2>5 DEF a
<1> QED
  BY <1>2, <1>10, <1>11

LEMMA UpdateTimersRing ==
    ASSUME IInv, NEW wholeSeconds \in BOOLEAN, UpdateTimers(wholeSeconds),
           timers' \in Seq(Ops)
    PROVE  /\ IoTypes' /\ Ring' /\ Wake' /\ timersAreDirty' \in BOOLEAN
<1>1. QueueTypes /\ IoTypes /\ OpTypes
  BY TypedSplit DEF IInv, Typed
<1>2. /\ UNCHANGED <<due, handler>> /\ pc = "timers" /\ pc' = "remote"
      /\ timersAreDirty /\ UpdatePosixTimer(timers', wholeSeconds)
  BY DEF UpdateTimers
<1>3. PICK rest \in Seq(Ops) : rest = timers'
  OBVIOUS
<1>4. PICK top : top = Head(rest)
  OBVIOUS
<1>5. rest # <<>> => top \in Ops /\ due[top] \in 1 .. MaxTime
  <2> SUFFICES ASSUME rest # <<>>
               PROVE  top \in Ops /\ due[top] \in 1 .. MaxTime
    OBVIOUS
  <2>1. top \in Ops
    BY <1>3, <1>4
  <2>2. due[top] \in DueTimes
    BY <1>1, <2>1 DEF OpTypes
  <2> QED
    BY <2>1, <2>2, TimersAssumption
<1>6. RingOk(io, currentDueTime)
  BY <1>1, <1>2 DEF IoTypes, RingOk, IInv, Ring, Coming, Telling, Tells
<1>7. handler.on \in BOOLEAN /\ currentDueTime \in 0 .. MaxTime /\ MaxTime \in Nat
  BY <1>1, TimersAssumption DEF IoTypes
<1>8. ASSUME RingOk(io', currentDueTime'), currentDueTime' \in 0 .. MaxTime
      PROVE  IoTypes' /\ Ring'
  <2>1. IoTypes'
    BY <1>2, <1>7, <1>8 DEF IoTypes, RingOk
  <2>2. Ring'
    BY <1>2, <1>8 DEF RingOk, Ring, Coming, Telling, Tells
  <2> QED
    BY <2>1, <2>2
<1>9. NoTime \in 0 .. MaxTime /\ \A d \in 1 .. MaxTime : d \in 0 .. MaxTime
  BY <1>7 DEF NoTime
<1>10. ASSUME UNCHANGED <<io, currentDueTime, timersAreDirty>>
       PROVE  IoTypes' /\ Ring' /\ Wake' /\ timersAreDirty' \in BOOLEAN
  <2>1. RingOk(io', currentDueTime') /\ currentDueTime' \in 0 .. MaxTime
    BY <1>6, <1>7, <1>10
  <2> QED
    BY <1>1, <1>2, <1>8, <1>10, <2>1 DEF Wake, QueueTypes
<1>11. CASE rest = <<>> /\ currentDueTime # NoTime /\ CanSubmitIo(io)
  <2>1. io' = CancelTimer(io) /\ currentDueTime' = NoTime /\ timersAreDirty' = FALSE
    BY <1>2, <1>3, <1>11 DEF UpdatePosixTimer
  <2>2. RingOk(io', currentDueTime')
    BY <1>6, <1>11, <2>1, CancelRing
  <2>3. Wake'
    BY <1>3, <1>11 DEF Wake
  <2> QED
    BY <1>8, <1>9, <2>1, <2>2, <2>3
<1>12. CASE rest = <<>> /\ (currentDueTime = NoTime \/ ~CanSubmitIo(io))
  <2>1. UNCHANGED <<io, currentDueTime, timersAreDirty>>
    BY <1>2, <1>3, <1>12 DEF UpdatePosixTimer
  <2> QED
    BY <1>10, <2>1
<1>13. ASSUME NEW r, RingOk(r, NoTime), CanSubmitIo(r), rest # <<>>,
              io' = ArmTimer(r, top, wholeSeconds),
              currentDueTime' = due[top], timersAreDirty' = FALSE
       PROVE  IoTypes' /\ Ring' /\ Wake' /\ timersAreDirty' \in BOOLEAN
  <2>1. top \in Ops /\ due[top] \in 1 .. MaxTime
    BY <1>5, <1>13
  <2>2. /\ RingOk(io', due[top])
        /\ io'.doubled \/ Tells(io') \/ (io'.armed # NoTime /\ io'.armed <= due[top])
    BY <1>7, <1>13, <2>1, ArmRing
  <2>3. Wake'
    BY <1>2, <1>3, <1>4, <2>2 DEF Wake, Telling, Tells
  <2> QED
    BY <1>8, <1>9, <1>13, <2>1, <2>2, <2>3
<1>14. CASE rest # <<>> /\ currentDueTime = NoTime
  <2>1. CASE CanSubmitIo(io)
    <3>1. /\ io' = ArmTimer(io, top, wholeSeconds)
          /\ currentDueTime' = due[top] /\ timersAreDirty' = FALSE
      BY <1>2, <1>3, <1>4, <1>14, <2>1 DEF UpdatePosixTimer
    <3> QED
      BY <1>6, <1>13, <1>14, <2>1, <3>1
  <2>2. CASE ~CanSubmitIo(io)
    <3>1. UNCHANGED <<io, currentDueTime, timersAreDirty>>
      BY <1>2, <1>3, <1>4, <1>14, <2>2 DEF UpdatePosixTimer
    <3> QED
      BY <1>10, <3>1
  <2> QED
    BY <2>1, <2>2
<1>15. CASE rest # <<>> /\ currentDueTime # NoTime /\ due[top] < currentDueTime
  <2>1. CASE ~CanSubmitIo(io)
    <3>1. UNCHANGED <<io, currentDueTime, timersAreDirty>>
      BY <1>2, <1>3, <1>4, <1>15, <2>1 DEF UpdatePosixTimer
    <3> QED
      BY <1>10, <3>1
  <2>2. CASE CanSubmitIo(io) /\ CanSubmitIo(CancelTimer(io))
    <3>1. /\ io' = ArmTimer(CancelTimer(io), top, wholeSeconds)
          /\ currentDueTime' = due[top] /\ timersAreDirty' = FALSE
      BY <1>2, <1>3, <1>4, <1>15, <2>2 DEF UpdatePosixTimer
    <3>2. RingOk(CancelTimer(io), NoTime)
      BY <1>6, <2>2, CancelRing
    <3> QED
      BY <1>13, <1>15, <2>2, <3>1, <3>2
  <2>3. CASE CanSubmitIo(io) /\ ~CanSubmitIo(CancelTimer(io))
    <3>1. io' = CancelTimer(io) /\ currentDueTime' = NoTime /\ timersAreDirty' = timersAreDirty
      BY <1>2, <1>3, <1>4, <1>15, <2>3 DEF UpdatePosixTimer
    <3>2. RingOk(io', currentDueTime')
      BY <1>6, <2>3, <3>1, CancelRing
    <3>3. Wake' /\ timersAreDirty' \in BOOLEAN
      BY <1>1, <1>2, <3>1 DEF Wake, QueueTypes
    <3> QED
      BY <1>8, <1>9, <3>1, <3>2, <3>3
  <2> QED
    BY <2>1, <2>2, <2>3
<1>16. CASE rest # <<>> /\ currentDueTime # NoTime /\ ~(due[top] < currentDueTime)
  <2>1. UNCHANGED <<io, currentDueTime>> /\ timersAreDirty' = FALSE
    BY <1>2, <1>3, <1>4, <1>16 DEF UpdatePosixTimer
  <2>2. RingOk(io', currentDueTime') /\ currentDueTime' \in 0 .. MaxTime
    BY <1>6, <1>7, <2>1
  <2>3. currentDueTime <= due[top]
    BY <1>5, <1>7, <1>16
  <2>4. ~io.doubled =>
          Telling \/ handler.on \/ (io.armed # NoTime /\ io.armed = currentDueTime)
    BY <1>6, <1>16 DEF RingOk, Telling, Tells
  <2>5. Wake'
    BY <1>2, <1>3, <1>4, <2>1, <2>3, <2>4 DEF Wake, Telling
  <2> QED
    BY <1>8, <2>1, <2>2, <2>5
<1> QED
  BY <1>11, <1>12, <1>14, <1>15, <1>16

LEMMA UpdateTimersKeeps ==
    ASSUME IInv, NEW wholeSeconds \in BOOLEAN, UpdateTimers(wholeSeconds)
    PROVE  IInv'
<1>1. /\ OpTypes' /\ Once' /\ OpsInv' /\ Sorted' /\ Constructing'
      /\ batch' \in Seq(Ops) /\ localQueue' \in Seq(Ops)
      /\ remoteQueue' \in Seq(Ops) /\ timers' \in Seq(Ops)
  BY UpdateTimersOps
<1>2. IoTypes' /\ Ring' /\ Wake' /\ timersAreDirty' \in BOOLEAN
  BY <1>1, UpdateTimersRing
<1>3. PcType'
  BY DEF UpdateTimers, PcType
<1>4. TypeOK' /\ Shapes'
  BY <1>1, <1>2, <1>3, TypedNext DEF Typed, QueueTypes
<1> QED
  BY <1>1, <1>2, <1>4 DEF IInv

-----------------------------------------------------------------------------
(***************************************************************************)
(* The theorems.                                                           *)
(***************************************************************************)

LEMMA InitHolds == Init => IInv
<1> SUFFICES ASSUME Init PROVE IInv
  OBVIOUS
<1>1. /\ pc = "take" /\ batch = <<>> /\ localQueue = <<>> /\ remoteQueue = <<>>
      /\ timers = <<>> /\ timersAreDirty = FALSE /\ currentDueTime = 0
      /\ io \in InitIo /\ handler.on = FALSE /\ now = 1
  BY DEF Init, Idle, NoTime
<1>2. /\ io \in IoRecords /\ io.cq = <<>> /\ io.sqUnflushedCount = 0
      /\ io.activeTimerCount = 0 /\ io.armed = 0 /\ io.leaked = 0
  <2>1. PICK id \in {"zero", "set"} :
          io = [sqUnflushedCount |-> 0, cq |-> <<>>, tail |-> 0,
                activeTimerCount |-> 0, armed |-> NoTime, timerId |-> id,
                lastTimerOp |-> None, entryRef |-> [o \in Ops |-> NoSlot],
                leaked |-> 0, doubled |-> FALSE]
    BY <1>1 DEF InitIo
  <2>2. <<>> \in Seq(Entries) /\ [o \in Ops |-> NoSlot] \in [Ops -> Int]
        /\ NoTime \in 0 .. MaxTime
    BY TimersAssumption DEF NoSlot, NoTime
  <2>3. io \in IoRecords
    BY <2>1, <2>2 DEF IoRecords
  <2> QED
    BY <2>1, <2>3 DEF NoTime
<1>3. PcType /\ QueueTypes /\ IoTypes
  <2>1. <<>> \in Seq(Ops) /\ Len(<<>>) = 0
    OBVIOUS
  <2>2. PcType /\ QueueTypes
    BY <1>1, <2>1 DEF PcType, QueueTypes
  <2>3. 0 \in 0 .. CqEntryCount /\ 0 \in 0 .. CounterRange - 1 /\ 0 \in 0 .. MaxTime
    BY TimersAssumption
  <2>4. Len(io.cq) + io.sqUnflushedCount = 0
    BY <1>2, <2>1
  <2> QED
    BY <1>1, <1>2, <2>2, <2>3, <2>4 DEF IoTypes
<1>4. OpTypes
  BY <1>1, TimersAssumption DEF Init, OpTypes
<1>5. TypeOK /\ Shapes
  BY <1>3, <1>4, TypedSplit DEF Typed
<1>6. Once /\ Sorted
  BY <1>1, EmptyFacts DEF Once, Sorted
<1>7. OpsInv
  <2> SUFFICES ASSUME NEW o \in Ops
               PROVE  Stage(o) /\ Stopping(o) /\ OnTime(o)
    BY DEF OpsInv
  <2>1. /\ execute[o] = "new" /\ elapsed[o] = FALSE /\ cancelPending[o] = FALSE
        /\ callback[o] = "unset" /\ stopper[o] = "no" /\ completed[o] = "no"
    BY DEF Init
  <2>2. ~Ready(o) /\ ~Has(timers, o)
    BY <1>1, EmptyFacts DEF Ready
  <2> QED
    BY <2>1, <2>2 DEF Stage, Stopping, OnTime
<1>8. Constructing
  <2>1. \A o \in Ops : callback[o] = "unset"
    BY DEF Init
  <2> QED
    BY <1>1, <2>1 DEF Constructing
<1>9. Ring
  <2>1. AsInt(io.armed # NoTime) + AsInt(handler.on) = 0 /\ Len(io.cq) = 0
    BY <1>1, <1>2 DEF AsInt, NoTime
  <2> QED
    BY <1>1, <1>2, <2>1 DEF Ring, NoTime
<1>10. Wake
  BY <1>1 DEF Wake
<1> QED
  BY <1>5, <1>6, <1>7, <1>8, <1>9, <1>10 DEF IInv

LEMMA StepHolds == IInv /\ [Next]_vars => IInv'
<1> SUFFICES ASSUME IInv, [Next]_vars PROVE IInv'
  OBVIOUS
<1>1. CASE UNCHANGED vars
  <2>1. UNCHANGED <<batch, localQueue, remoteQueue, timers, now, opVars>>
        /\ RingUnchanged /\ pc' = pc /\ timersAreDirty' = timersAreDirty
    BY <1>1 DEF vars, RingUnchanged, opVars
  <2>2. PcType /\ QueueTypes /\ OpTypes
    BY TypedSplit DEF IInv, Typed
  <2>3. QueueTypes' /\ OpTypes' /\ Once' /\ OpsInv' /\ Sorted'
    BY <2>1, <2>2, OpsLeft DEF QueueTypes
  <2>4. TimersKept
    BY <2>1, <2>2, TimersSame DEF IInv, Once, opVars
  <2>5. Constructing' /\ PcType'
    BY <2>1, <2>2 DEF IInv, Constructing, PcType, opVars
  <2> QED
    BY <2>1, <2>3, <2>4, <2>5, KeepsInvariant DEF KeepsOps
<1>2. CASE IoThread
  BY <1>2, TakeLocalKeeps, ExecuteItemKeeps, ConstructCallbackKeeps, AcquireKeeps,
     UpdateTimersKeeps, TimersCleanKeeps, AcquireRemoteKeeps DEF IoThread
<1>3. ASSUME NEW o \in Ops, \/ StartOnIoThread(o) \/ StartRemote(o)
                            \/ StopOnIoThread(o) \/ StopRemote(o)
                            \/ RequestStopRemote(o) \/ RequestStopRemoteSchedules(o)
      PROVE  IInv'
  BY <1>3, StartOnIoThreadKeeps, StartRemoteKeeps, StopOnIoThreadKeeps,
     StopRemoteKeeps, RequestStopRemoteKeeps, RequestStopRemoteSchedulesKeeps
<1>4. CASE Tick
  BY <1>4, TickKeeps
<1>5. CASE TimerTimeout
  BY <1>5, TimerTimeoutKeeps
<1>6. CASE TimerTimeoutCallback
  BY <1>6, TimerTimeoutCallbackKeeps
<1>7. CASE Torn
  BY <1>1, <1>7 DEF Torn
<1> QED
  BY <1>1, <1>2, <1>3, <1>4, <1>5, <1>6, <1>7 DEF Next

(***************************************************************************)
(* The types, where each operation is and which flags it has at each point *)
(* of its life, the order of timers_, and the accounts of the ring hold    *)
(* throughout, for any number of operations and any size of the ring.      *)
(***************************************************************************)
THEOREM TimersInvariant == Spec => []IInv
<1> QED
  BY InitHolds, StepHolds, PTL DEF Spec

(***************************************************************************)
(* schedule_at's receiver is called once: the operation is in at most one  *)
(* ready queue, in timers_ at most once, and in none of them when it has   *)
(* completed; with a value only when its time has come.  Whichever of      *)
(* update_timers and request_stop sets its flag first, one enqueues it.    *)
(***************************************************************************)
THEOREM TimerFiresOnceWhenDue == Spec => []CompletesOnceWhenDue
<1>1. IInv => CompletesOnceWhenDue
  <2> SUFFICES ASSUME IInv PROVE CompletesOnceWhenDue
    OBVIOUS
  <2>1. TypeOK /\ QueueTypes
    BY TypedSplit DEF IInv, Typed
  <2>2. ASSUME NEW o \in Ops
        PROVE  /\ Links(o) <= 1
               /\ Times(timers, o) <= 1
               /\ completed[o] # "no" => Links(o) = 0 /\ ~Has(timers, o)
               /\ completed[o] = "value" => due[o] <= now
    <3>1. /\ NoRepeats(batch) /\ NoRepeats(localQueue) /\ NoRepeats(remoteQueue)
          /\ NoRepeats(timers)
          /\ ~(Has(batch, o) /\ Has(localQueue, o))
          /\ ~(Has(batch, o) /\ Has(remoteQueue, o))
          /\ ~(Has(localQueue, o) /\ Has(remoteQueue, o))
      BY DEF IInv, Once
    <3>2. Times(batch, o) = IF Has(batch, o) THEN 1 ELSE 0
      BY <2>1, <3>1, TimesFacts DEF QueueTypes
    <3>3. Times(localQueue, o) = IF Has(localQueue, o) THEN 1 ELSE 0
      BY <2>1, <3>1, TimesFacts DEF QueueTypes
    <3>4. Times(remoteQueue, o) = IF Has(remoteQueue, o) THEN 1 ELSE 0
      BY <2>1, <3>1, TimesFacts DEF QueueTypes
    <3>5. Times(timers, o) = IF Has(timers, o) THEN 1 ELSE 0
      BY <2>1, <3>1, TimesFacts DEF QueueTypes
    <3>6. Stage(o) /\ OnTime(o)
      BY DEF IInv, OpsInv
    <3>7. Links(o) <= 1 /\ (~Ready(o) => Links(o) = 0)
      BY <3>1, <3>2, <3>3, <3>4 DEF Links, Ready
    <3>8. completed[o] # "no" => ~Ready(o) /\ ~Has(timers, o)
      BY <3>6 DEF Stage
    <3>9. completed[o] = "value" => due[o] <= now
      BY <3>6 DEF OnTime
    <3> QED
      BY <3>5, <3>7, <3>8, <3>9
  <2> QED
    BY <2>1, <2>2 DEF CompletesOnceWhenDue, FiredOrRemoved, ValueWhenDue
<1> QED
  BY <1>1, TimersInvariant, PTL

(***************************************************************************)
(* Every slot of the ring that the timers have taken belongs to the armed  *)
(* POSIX timer, to a running handler or to a cancelled timer, and          *)
(* activeTimerCount_ counts the entries posted or to come, until two       *)
(* handlers' accesses overlap or one timer gets two entries.               *)
(***************************************************************************)
THEOREM TimerSlotsAccounted == Spec => []TimerSlots
<1>1. IInv => TimerSlots
  BY DEF IInv, Ring, TimerSlots, AsInt
<1> QED
  BY <1>1, TimersInvariant, PTL

(***************************************************************************)
(* While no timer had two entries, a loop that has a timer and does not    *)
(* mean to look at it has an entry or a handler to tell it, or the POSIX   *)
(* timer armed for no later than the first due time.                       *)
(***************************************************************************)
THEOREM FirstTimerWakes == Spec => []TimerWakeupPending
<1>1. IInv => TimerWakeupPending
  <2> SUFFICES ASSUME IInv, pc # "torn", ~io.doubled, timers # <<>>, ~timersAreDirty
               PROVE  \/ io.cq # <<>>
                      \/ handler.on
                      \/ io.armed # NoTime /\ io.armed <= due[Head(timers)]
    BY DEF TimerWakeupPending, WillWake
  <2>1. \/ Telling
        \/ handler.on
        \/ io.armed # NoTime /\ io.armed <= due[Head(timers)]
    BY DEF IInv, Wake
  <2>2. Telling => io.cq # <<>>
    BY DEF Telling
  <2> QED
    BY <2>1, <2>2
<1> QED
  BY <1>1, TimersInvariant, PTL
=============================================================================
