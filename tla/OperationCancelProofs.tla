------------------------ MODULE OperationCancelProofs ------------------------
(***************************************************************************)
(* Proofs about OperationCancel for any operations, senders, requests and  *)
(* size of the ring: no node is linked twice, whatever is stopped when;    *)
(* every request that reports to an operation has a slot; and a connection *)
(* is given to the receiver, closed, or left by a stop that came too late. *)
(***************************************************************************)
EXTENDS OperationCancel, FiniteSetTheorems, TLAPS

-----------------------------------------------------------------------------
(***************************************************************************)
(* The inductive invariant.                                                *)
(***************************************************************************)

\* The places of the operation itself, the start that is still to come
\* included, and those of its cop_ with the stop request that will enqueue it.
OpPending(o) == Links(Op(o)) + (IF execute[o] = "new" THEN 1 ELSE 0)
CopPending(o) ==
    Links(Cop(o)) + (IF stop[o] \in {"flag", "enqueue"} THEN 1 ELSE 0)

\* refCount_ covers whatever still leads to the operation.
Counted(o) ==
    /\ OpPending(o) <= 1
    /\ CopPending(o) <= 1
    /\ OpPending(o) + CopPending(o) <= refCount[o]

\* Before a stop is requested, its callback has run and has won refCount_, cop_
\* is free.
Stopping(o) ==
    /\ stop[o] = "no" => CopPending(o) = 0
    /\ callback[o] \in {"unset", "registered"} =>
         CopPending(o) = 0 /\ stop[o] \in {"no", "requested"}
    /\ stop[o] = "cas" => CopPending(o) = 0

\* The last of the two completions of a symmetric sender calls the receiver.
Settled(o) == kind[o] \in SymmetricKinds /\ completed[o] > 0 => refCount[o] = 0

\* An open connection of a cancelled connect has a cop_ coming to close it; a
\* connection that was given away is not cancelled any more, and one that was
\* not given away has had its stop requested.
Closing(o) ==
    /\ kind[o] # "connect" => conn[o] = "none"
    /\ cancelFlag[o] /\ conn[o] = "open" =>
         \/ stop[o] = "enqueue"
         \/ Links(Cop(o)) >= 1 /\ copExecute[o] = "stopLocal"
    /\ conn[o] = "given" => refCount[o] = 0 /\ ~cancelFlag[o]
    /\ conn[o] = "open" /\ completed[o] > 0 => stop[o] # "no"

OpInv(o) == Counted(o) /\ Stopping(o) /\ Settled(o) /\ Closing(o)

\* Between the halves of start_io the operation is not delivered.
Submitting == pc = "submit" => \E o \in Ops : cur = Op(o) /\ completed[o] = 0

\* A batch is executed to its end before the loop goes on.
Drained ==
    pc \in {"pend", "progress"} \/ (pc \in {"run", "submit"} /\ back = "pend") =>
      batch = <<>>

\* The requests that report to an operation.
Live == {r \in Requests : requests[r].cb \in Ops}

LiveFinite == IsFiniteSet(Live)

Covered == LiveFinite /\ Cardinality(Live) <= sqUnflushedCount

IInv == TypeOK /\ Submitting /\ Drained /\ Covered /\ \A o \in Ops : OpInv(o)

-----------------------------------------------------------------------------
(***************************************************************************)
(* How often a node is in a sequence.                                      *)
(***************************************************************************)

Same(n, x) == IF n = x THEN 1 ELSE 0

LEMMA TimesType ==
    ASSUME NEW T, NEW s \in Seq(T), NEW n
    PROVE  /\ IsFiniteSet({i \in DOMAIN s : s[i] = n})
           /\ Times(s, n) \in Nat
<1>1. DOMAIN s = 1 .. Len(s) /\ Len(s) \in Nat
  OBVIOUS
<1>2. IsFiniteSet(DOMAIN s)
  BY <1>1, FS_Interval
<1>3. {i \in DOMAIN s : s[i] = n} \subseteq DOMAIN s
  OBVIOUS
<1>4. IsFiniteSet({i \in DOMAIN s : s[i] = n})
  BY <1>2, <1>3, FS_Subset
<1> QED
  BY <1>4, FS_CardinalityType DEF Times

LEMMA TimesEmpty == \A n : Times(<<>>, n) = 0
<1> TAKE n
<1>1. {i \in DOMAIN <<>> : <<>>[i] = n} = {}
  OBVIOUS
<1> QED
  BY <1>1, FS_EmptySet DEF Times

LEMMA TimesAppend ==
    ASSUME NEW T, NEW s \in Seq(T), NEW x \in T, NEW n
    PROVE  Times(Append(s, x), n) = Times(s, n) + Same(n, x)
<1> DEFINE a == Append(s, x)
           P == {i \in DOMAIN s : s[i] = n}
           Q == {i \in DOMAIN a : a[i] = n}
<1>1. /\ Len(s) \in Nat /\ DOMAIN s = 1 .. Len(s)
      /\ DOMAIN a = 1 .. Len(s) + 1
      /\ a[Len(s) + 1] = x
      /\ \A i \in 1 .. Len(s) : a[i] = s[i]
  OBVIOUS
<1>2. IsFiniteSet(P)
  BY TimesType
<1>3. Len(s) + 1 \notin P /\ DOMAIN a = DOMAIN s \cup {Len(s) + 1}
  BY <1>1
<1>4. CASE n = x
  <2>1. Q = P \cup {Len(s) + 1}
    <3> HIDE DEF a
    <3> QED
      BY <1>1, <1>3, <1>4
  <2>2. Cardinality(Q) = Cardinality(P) + 1
    <3> HIDE DEF P, Q
    <3> QED
      BY <1>2, <1>3, <2>1, FS_AddElement
  <2> QED
    BY <1>4, <2>2 DEF Times, Same
<1>5. CASE n # x
  <2>1. Q = P
    <3> HIDE DEF a
    <3> QED
      BY <1>1, <1>3, <1>5
  <2>2. Times(s, n) \in Nat
    BY TimesType
  <2>3. Times(a, n) = Cardinality(Q) /\ Times(s, n) = Cardinality(P)
    BY DEF Times
  <2>4. Times(a, n) = Times(s, n)
    BY <2>1, <2>3, Zenon
  <2> HIDE DEF a, P, Q
  <2> QED
    BY <1>5, <2>2, <2>4 DEF Same, a
<1> QED
  BY <1>4, <1>5

LEMMA TimesConcat ==
    ASSUME NEW T, NEW s \in Seq(T), NEW t \in Seq(T), NEW n
    PROVE  Times(s \o t, n) = Times(s, n) + Times(t, n)
<1> DEFINE c == s \o t
           l == Len(s)
           P == {i \in DOMAIN s : s[i] = n}
           R == {i \in DOMAIN t : t[i] = n}
           M == {i \in l + 1 .. l + Len(t) : c[i] = n}
           Q == {i \in DOMAIN c : c[i] = n}
<1>1. /\ l \in Nat /\ Len(t) \in Nat /\ DOMAIN s = 1 .. l /\ DOMAIN t = 1 .. Len(t)
      /\ DOMAIN c = 1 .. l + Len(t)
      /\ \A i \in 1 .. l : c[i] = s[i]
      /\ \A i \in l + 1 .. l + Len(t) : c[i] = t[i - l]
  OBVIOUS
<1>2. IsFiniteSet(P) /\ IsFiniteSet(R)
  BY TimesType
<1> DEFINE f == [j \in R |-> j + l]
<1>3. f \in Bijection(R, M)
  <2> HIDE DEF c, l
  <2>1. \A j \in R : j \in 1 .. Len(t) /\ j + l \in l + 1 .. l + Len(t) /\ (j + l) - l = j
    BY <1>1
  <2>2. \A j \in R : f[j] = j + l /\ f[j] \in M
    BY <1>1, <2>1
  <2>3. f \in [R -> M]
    BY <2>2
  <2>4. \A j, k \in R : f[j] = f[k] => j = k
    BY <1>1, <2>1, <2>2
  <2>5. \A i \in M : \E j \in R : f[j] = i
    <3> TAKE i \in M
    <3>1. i - l \in R /\ (i - l) + l = i
      BY <1>1
    <3> QED
      BY <2>2, <3>1
  <2> HIDE DEF f, R, M
  <2>6. f \in Injection(R, M)
    BY <2>3, <2>4 DEF Injection, IsInjective
  <2>7. f \in Surjection(R, M)
    BY <2>3, <2>5 DEF Surjection
  <2> QED
    BY <2>6, <2>7 DEF Bijection
<1>4. ExistsBijection(R, M)
  BY <1>3 DEF ExistsBijection
<1>5. IsFiniteSet(M) /\ Cardinality(M) = Cardinality(R)
  <2> HIDE DEF R, M
  <2> QED
    BY <1>2, <1>4, FS_Bijection
<1>6. Q = P \cup M /\ P \cap M = {}
  <2> HIDE DEF c, l
  <2>1. \A i \in DOMAIN c : i \in 1 .. l \/ i \in l + 1 .. l + Len(t)
    BY <1>1
  <2>2. \A i \in 1 .. l : i \in DOMAIN c /\ i \notin l + 1 .. l + Len(t)
    BY <1>1
  <2>3. \A i \in l + 1 .. l + Len(t) : i \in DOMAIN c
    BY <1>1
  <2> QED
    BY <1>1, <2>1, <2>2, <2>3
<1>7. Cardinality(Q) = Cardinality(P) + Cardinality(M)
  <2>1. Cardinality(P) \in Nat /\ Cardinality(M) \in Nat
    BY <1>2, <1>5, FS_CardinalityType
  <2> HIDE DEF P, M, Q
  <2>2. Cardinality(P \cup M) = Cardinality(P) + Cardinality(M) - Cardinality(P \cap M)
    BY <1>2, <1>5, FS_Union
  <2>3. Cardinality(P \cap M) = 0
    BY <1>6, FS_EmptySet
  <2> QED
    BY <1>6, <2>1, <2>2, <2>3
<1> QED
  BY <1>5, <1>7 DEF Times

LEMMA TimesCons ==
    ASSUME NEW T, NEW s \in Seq(T), NEW x \in T, NEW n
    PROVE  <<x>> \o s \in Seq(T) /\ Times(<<x>> \o s, n) = Times(s, n) + Same(n, x)
<1>1. <<x>> \in Seq(T) /\ <<>> \in Seq(T) /\ Append(<<>>, x) = <<x>>
  OBVIOUS
<1>2. Times(<<x>>, n) = Times(<<>>, n) + Same(n, x)
  <2>1. Times(Append(<<>>, x), n) = Times(<<>>, n) + Same(n, x)
    BY <1>1, TimesAppend
  <2> QED
    BY <1>1, <2>1, Zenon
<1>3. Times(<<x>> \o s, n) = Times(<<x>>, n) + Times(s, n)
  BY <1>1, TimesConcat
<1>4. Times(s, n) \in Nat /\ Times(<<>>, n) = 0
  BY TimesType, TimesEmpty
<1>5. Same(n, x) \in Nat
  BY DEF Same
<1>6. <<x>> \o s \in Seq(T)
  BY <1>1
<1> QED
  BY <1>2, <1>3, <1>4, <1>5, <1>6

LEMMA TimesTail ==
    ASSUME NEW T, NEW s \in Seq(T), s # <<>>, NEW n
    PROVE  /\ Tail(s) \in Seq(T) /\ Head(s) \in T
           /\ Times(s, n) = Times(Tail(s), n) + Same(n, Head(s))
<1>1. Tail(s) \in Seq(T) /\ Head(s) \in T /\ s = <<Head(s)>> \o Tail(s)
  OBVIOUS
<1>2. Times(<<Head(s)>> \o Tail(s), n) = Times(Tail(s), n) + Same(n, Head(s))
  BY <1>1, TimesCons
<1> QED
  BY <1>1, <1>2, Zenon

\* The positions that Ascending lists, one by one.
LEMMA AscendingOneToOne ==
    ASSUME NEW k \in Nat, NEW S \in SUBSET Nat,
           NEW at \in [1 .. k -> S], \A i, j \in 1 .. k : i < j => at[i] < at[j]
    PROVE  \A i, j \in 1 .. k : at[i] = at[j] => i = j
<1> SUFFICES ASSUME NEW i \in 1 .. k, NEW j \in 1 .. k, at[i] = at[j], i # j
             PROVE  FALSE
  OBVIOUS
<1>1. at[i] \in Nat /\ at[j] \in Nat
  OBVIOUS
<1>2. i < j \/ j < i
  OBVIOUS
<1> QED
  BY <1>1, <1>2

\* What erase(remove_if(op == this)) leaves.
LEMMA ErasedFacts ==
    ASSUME NEW T, NEW s \in Seq(T), NEW x, NEW t \in Erased(s, x)
    PROVE  t \in Seq(T) /\ \A n : Times(t, n) = IF n = x THEN 0 ELSE Times(s, n)
<1> DEFINE kept == {i \in DOMAIN s : s[i] # x}
<1>1. PICK at \in Ascending(kept) : t = [i \in DOMAIN at |-> s[at[i]]]
  BY DEF Erased
<1> DEFINE k == Cardinality(kept)
<1>2. DOMAIN s = 1 .. Len(s) /\ Len(s) \in Nat
  OBVIOUS
<1>3. k \in Nat
  <2>1. IsFiniteSet(DOMAIN s)
    BY <1>2, FS_Interval
  <2>2. kept \subseteq DOMAIN s
    OBVIOUS
  <2>3. IsFiniteSet(kept)
    BY <2>1, <2>2, FS_Subset
  <2> QED
    BY <2>3, FS_CardinalityType
<1>4. /\ at \in [1 .. k -> kept] /\ DOMAIN at = 1 .. k
      /\ \A i, j \in 1 .. k : i < j => at[i] < at[j]
      /\ \A m \in kept : \E i \in 1 .. k : at[i] = m
  BY <1>1 DEF Ascending
<1>5. DOMAIN t = 1 .. k /\ \A i \in 1 .. k : t[i] = s[at[i]] /\ at[i] \in kept
  BY <1>1, <1>4
<1>6. kept \in SUBSET Nat
  BY <1>2
<1>7. \A i, j \in 1 .. k : at[i] = at[j] => i = j
  <2> HIDE DEF k, kept
  <2> QED
    BY <1>3, <1>4, <1>6, AscendingOneToOne
<1>8. t \in Seq(T)
  <2>1. t = [i \in 1 .. k |-> s[at[i]]]
    BY <1>1, <1>4
  <2>2. \A i \in 1 .. k : s[at[i]] \in T
    BY <1>2, <1>5
  <2> HIDE DEF k, kept
  <2> QED
    BY <1>3, <2>1, <2>2
<1>9. ASSUME NEW n, n # x
      PROVE  Times(t, n) = Times(s, n)
  <2> DEFINE P == {i \in DOMAIN s : s[i] = n}
             Q == {i \in DOMAIN t : t[i] = n}
             f == [i \in Q |-> at[i]]
  <2> HIDE DEF k
  <2>1. \A i \in Q : i \in 1 .. k /\ f[i] = at[i] /\ at[i] \in P
    BY <1>5
  <2>2. f \in [Q -> P]
    BY <2>1
  <2>3. \A i, j \in Q : f[i] = f[j] => i = j
    BY <1>7, <2>1
  <2>4. \A m \in P : \E i \in Q : f[i] = m
    <3> TAKE m \in P
    <3>1. m \in kept
      BY <1>9
    <3>2. PICK i \in 1 .. k : at[i] = m
      BY <1>4, <3>1
    <3>3. i \in Q
      BY <1>5, <3>2
    <3> QED
      BY <2>1, <3>2, <3>3
  <2>5. IsFiniteSet(Q)
    BY <1>8, TimesType
  <2> HIDE DEF f, P, Q
  <2>6. f \in Injection(Q, P) /\ f \in Surjection(Q, P)
    BY <2>2, <2>3, <2>4 DEF Injection, IsInjective, Surjection
  <2>7. ExistsBijection(Q, P)
    BY <2>6 DEF ExistsBijection, Bijection
  <2>8. Cardinality(P) = Cardinality(Q)
    BY <2>5, <2>7, FS_Bijection
  <2> QED
    BY <2>8 DEF Times, P, Q
<1>10. Times(t, x) = 0
  <2>1. {i \in DOMAIN t : t[i] = x} = {}
    BY <1>5
  <2> QED
    BY <2>1, FS_EmptySet, Zenon DEF Times
<1> QED
  BY <1>8, <1>9, <1>10

-----------------------------------------------------------------------------
(***************************************************************************)
(* Types, and in how many places a node is.                                *)
(***************************************************************************)

LoopTypes ==
    /\ pc \in {"exec", "run", "submit", "pend", "progress", "crashed"}
    /\ cur \in Nodes \cup {<<None, "op">>}
    /\ back \in {"exec", "pend"}

QueueTypes ==
    /\ batch \in Seq(Nodes) /\ localQueue \in Seq(Nodes)
    /\ remoteQueue \in Seq(Nodes) /\ pendingIoQueue \in Seq(Nodes)
    /\ pendingRecvIoQueue \in Seq(Nodes) /\ pendingAcptIoQueue \in Seq(Nodes)
    /\ cq \in Seq(Nodes)

RequestTypes == requests \in [Requests -> Callbacks \cup {Free}]

SlotTypes == sqUnflushedCount \in 0 .. CqEntryCount

InputTypes ==
    /\ amDescQueue \in Seq(MessageKinds)
    /\ arrived \in 0 .. MaxMessages
    /\ connReqs \in 0 .. connArrived
    /\ connArrived \in 0 .. MaxConnReqs

OpTypes ==
    /\ kind \in [Ops -> Kinds]
    /\ execute \in [Ops -> {"new", "start", "complete"}]
    /\ copExecute \in [Ops -> {"unset", "stopLocal", "stopComplete"}]
    /\ callback \in [Ops -> {"unset", "registered", "ran", "gone"}]
    /\ refCount \in [Ops -> 0 .. 2]
    /\ cancelFlag \in [Ops -> BOOLEAN]
    /\ onPending \in [Ops -> BOOLEAN]
    /\ request \in [Ops -> Requests \cup {None}]
    /\ desc \in [Ops -> BOOLEAN]
    /\ conn \in [Ops -> {"none", "open", "given", "disconnected"}]
    /\ completed \in [Ops -> 0 .. 1]
    /\ stop \in [Ops -> {"no", "requested", "cas", "flag", "enqueue",
                         "finished"}]

Types ==
    LoopTypes /\ QueueTypes /\ RequestTypes /\ SlotTypes /\ InputTypes /\ OpTypes

LEMMA TypeSplit == TypeOK <=> Types
<1>1. TypeOK => LoopTypes /\ RequestTypes /\ SlotTypes /\ InputTypes /\ OpTypes
  BY DEF TypeOK, LoopTypes, RequestTypes, SlotTypes, InputTypes, OpTypes
<1>2. TypeOK => QueueTypes
  BY DEF TypeOK, QueueTypes
<1>3. Types => TypeOK
  BY DEF TypeOK, Types, LoopTypes, QueueTypes, RequestTypes, SlotTypes,
         InputTypes, OpTypes
<1> QED
  BY <1>1, <1>2, <1>3 DEF Types

LEMMA NodeFacts ==
    \A o, p \in Ops : /\ Op(o) \in Nodes /\ Cop(o) \in Nodes
                      /\ Op(o) # Cop(p)
                      /\ Op(o) = Op(p) <=> o = p
                      /\ Cop(o) = Cop(p) <=> o = p
BY DEF Op, Cop, Nodes

\* The queues and the ring without the requests.
Queued(n) ==
    Times(batch, n) + Times(localQueue, n) + Times(remoteQueue, n)
      + Times(pendingIoQueue, n) + Times(pendingRecvIoQueue, n)
      + Times(pendingAcptIoQueue, n) + Times(cq, n)

Reporting(o) == Cardinality(LiveRequests(o))

RunningOnce(n) == IF Running(n) THEN 1 ELSE 0

LEMMA QueuedType == QueueTypes => \A n : Queued(n) \in Nat
<1> SUFFICES ASSUME QueueTypes, NEW n
             PROVE  Queued(n) \in Nat
  OBVIOUS
<1>1. /\ Times(batch, n) \in Nat /\ Times(localQueue, n) \in Nat
      /\ Times(remoteQueue, n) \in Nat /\ Times(pendingIoQueue, n) \in Nat
      /\ Times(pendingRecvIoQueue, n) \in Nat
      /\ Times(pendingAcptIoQueue, n) \in Nat /\ Times(cq, n) \in Nat
  BY TimesType DEF QueueTypes
<1> QED
  BY <1>1 DEF Queued

ReportsCounted == \A o \in Ops : Reporting(o) \in Nat

LEMMA ReportingType == LiveFinite => ReportsCounted
<1> SUFFICES ASSUME LiveFinite, NEW o \in Ops
             PROVE  Reporting(o) \in Nat
  BY DEF ReportsCounted
<1>1. LiveRequests(o) \subseteq Live
  BY DEF LiveRequests, Live
<1>2. IsFiniteSet(LiveRequests(o))
  BY <1>1, FS_Subset DEF LiveFinite
<1> QED
  BY <1>2, FS_CardinalityType DEF Reporting

LEMMA RunningType == \A n : RunningOnce(n) \in 0 .. 1
BY DEF RunningOnce

\* Links of the two nodes of an operation.
LinksCounted ==
    \A o \in Ops :
      /\ Links(Op(o)) = Queued(Op(o)) + Reporting(o) + RunningOnce(Op(o))
      /\ Links(Cop(o)) = Queued(Cop(o)) + RunningOnce(Cop(o))
      /\ Links(Op(o)) \in Nat /\ Links(Cop(o)) \in Nat

LEMMA LinksOf == QueueTypes /\ LiveFinite => LinksCounted
<1> SUFFICES ASSUME QueueTypes, LiveFinite, NEW o \in Ops
             PROVE  /\ Links(Op(o)) = Queued(Op(o)) + Reporting(o) + RunningOnce(Op(o))
                    /\ Links(Cop(o)) = Queued(Cop(o)) + RunningOnce(Cop(o))
                    /\ Links(Op(o)) \in Nat /\ Links(Cop(o)) \in Nat
  BY DEF LinksCounted
<1>1. Queued(Op(o)) \in Nat /\ Queued(Cop(o)) \in Nat /\ Reporting(o) \in Nat
  BY QueuedType, ReportingType DEF ReportsCounted
<1>2. RunningOnce(Op(o)) \in 0 .. 1 /\ RunningOnce(Cop(o)) \in 0 .. 1
  BY RunningType
<1>3. Op(o)[2] = "op" /\ Op(o)[1] = o /\ Cop(o)[2] = "cop"
  BY DEF Op, Cop
<1>4. Held(Op(o)) = Queued(Op(o)) + Reporting(o)
  BY <1>3 DEF Held, Queued, Reporting
<1>5. Held(Cop(o)) = Queued(Cop(o))
  BY <1>1, <1>3 DEF Held, Queued
<1>6. Links(Op(o)) = Held(Op(o)) + RunningOnce(Op(o))
  BY DEF Links, RunningOnce
<1>7. Links(Cop(o)) = Held(Cop(o)) + RunningOnce(Cop(o))
  BY DEF Links, RunningOnce
<1> QED
  BY <1>1, <1>2, <1>4, <1>5, <1>6, <1>7

-----------------------------------------------------------------------------
(***************************************************************************)
(* An operation that a step leaves alone.                                  *)
(***************************************************************************)

SameAt(p) ==
    /\ kind'[p] = kind[p] /\ execute'[p] = execute[p]
    /\ copExecute'[p] = copExecute[p] /\ callback'[p] = callback[p]
    /\ refCount'[p] = refCount[p] /\ cancelFlag'[p] = cancelFlag[p]
    /\ conn'[p] = conn[p] /\ completed'[p] = completed[p] /\ stop'[p] = stop[p]

\* Its nodes are in no more places; cop_ is not dropped while it has to close
\* a connection.
NoNewLinks(p) ==
    /\ Links(Op(p))' <= Links(Op(p)) /\ Links(Cop(p))' <= Links(Cop(p))
    /\ Links(Cop(p))' = Links(Cop(p)) \/ conn[p] # "open"
    /\ Links(Op(p))' \in Nat /\ Links(Cop(p))' \in Nat
    /\ Links(Op(p)) \in Nat /\ Links(Cop(p)) \in Nat

LEMMA OpKept ==
    ASSUME NEW p \in Ops, OpTypes, OpInv(p), SameAt(p), NoNewLinks(p)
    PROVE  OpInv(p)'
<1>1. refCount[p] \in 0 .. 2
  BY DEF OpTypes
<1> USE DEF SameAt, NoNewLinks
<1>2. /\ OpPending(p)' <= OpPending(p) /\ CopPending(p)' <= CopPending(p)
      /\ OpPending(p) \in Nat /\ CopPending(p) \in Nat
      /\ OpPending(p)' \in Nat /\ CopPending(p)' \in Nat
  BY DEF OpPending, CopPending
<1>3. Counted(p)'
  BY <1>1, <1>2 DEF OpInv, Counted
<1>4. Stopping(p)'
  BY <1>2 DEF OpInv, Stopping
<1>5. Settled(p)'
  BY DEF OpInv, Settled
<1>6. Closing(p)'
  BY DEF OpInv, Closing
<1> QED
  BY <1>3, <1>4, <1>5, <1>6 DEF OpInv

LEMMA LinksStep ==
    ASSUME QueueTypes, LiveFinite, QueueTypes', LiveFinite'
    PROVE  \A p \in Ops :
             /\ Links(Op(p)) = Queued(Op(p)) + Reporting(p) + RunningOnce(Op(p))
             /\ Links(Cop(p)) = Queued(Cop(p)) + RunningOnce(Cop(p))
             /\ Links(Op(p)) \in Nat /\ Links(Cop(p)) \in Nat
             /\ Links(Op(p))' = Queued(Op(p))' + Reporting(p)' + RunningOnce(Op(p))'
             /\ Links(Cop(p))' = Queued(Cop(p))' + RunningOnce(Cop(p))'
             /\ Links(Op(p))' \in Nat /\ Links(Cop(p))' \in Nat
<1>1. LinksCounted /\ LinksCounted'
  BY LinksOf, PTL
<1> QED
  BY <1>1 DEF LinksCounted

LEMMA NumbersStep ==
    ASSUME QueueTypes, LiveFinite, QueueTypes', LiveFinite'
    PROVE  /\ \A n : /\ Queued(n) \in Nat /\ Queued(n)' \in Nat
                     /\ RunningOnce(n) \in 0 .. 1 /\ RunningOnce(n)' \in 0 .. 1
           /\ \A p \in Ops : Reporting(p) \in Nat /\ Reporting(p)' \in Nat
<1>1. \A n : Queued(n) \in Nat /\ RunningOnce(n) \in 0 .. 1
  BY QueuedType, RunningType
<1>2. (\A n : Queued(n) \in Nat)'
  BY QueuedType, PTL
<1>3. (\A n : RunningOnce(n) \in 0 .. 1)'
  BY RunningType, PTL
<1>4. ReportsCounted /\ ReportsCounted'
  BY ReportingType, PTL
<1> QED
  BY <1>1, <1>2, <1>3, <1>4 DEF ReportsCounted

LEMMA RequestsSame ==
    ASSUME UNCHANGED requests
    PROVE  Live' = Live /\ \A p \in Ops : Reporting(p)' = Reporting(p)
BY DEF Live, Reporting, LiveRequests

\* A step of the loop that moves nodes and does nothing to an operation.
LEMMA LoopStep ==
    ASSUME IInv, UNCHANGED <<requests, sqUnflushedCount, opVars, stop>>,
           LoopTypes', QueueTypes', InputTypes', pc' # "submit", Drained',
           \A n : Queued(n)' + RunningOnce(n)' = Queued(n) + RunningOnce(n)
    PROVE  IInv'
<1>1. Types /\ Covered /\ \A p \in Ops : OpInv(p)
  BY TypeSplit DEF IInv
<1>2. RequestTypes' /\ SlotTypes' /\ OpTypes'
  BY <1>1 DEF Types, RequestTypes, SlotTypes, OpTypes, opVars
<1>3. TypeOK'
  <2>1. Types'
    BY <1>2 DEF Types
  <2> QED
    BY <2>1, TypeSplit, PTL
<1>4. Live' = Live /\ \A p \in Ops : Reporting(p)' = Reporting(p)
  BY RequestsSame
<1>5. LiveFinite /\ LiveFinite' /\ QueueTypes
  BY <1>1, <1>4 DEF Covered, Types, LiveFinite
<1>6. Covered'
  BY <1>1, <1>4, <1>5 DEF Covered
<1>7. ASSUME NEW p \in Ops
      PROVE  OpInv(p)'
  <2>1. SameAt(p)
    BY DEF SameAt, opVars
  <2>2. NoNewLinks(p)
    <3>1. /\ Links(Op(p)) = Queued(Op(p)) + Reporting(p) + RunningOnce(Op(p))
          /\ Links(Cop(p)) = Queued(Cop(p)) + RunningOnce(Cop(p))
          /\ Links(Op(p)) \in Nat /\ Links(Cop(p)) \in Nat
          /\ Links(Op(p))' = Queued(Op(p))' + Reporting(p)' + RunningOnce(Op(p))'
          /\ Links(Cop(p))' = Queued(Cop(p))' + RunningOnce(Cop(p))'
          /\ Links(Op(p))' \in Nat /\ Links(Cop(p))' \in Nat
      BY <1>5, LinksStep
    <3>2. /\ Queued(Op(p)) \in Nat /\ Queued(Op(p))' \in Nat
          /\ RunningOnce(Op(p)) \in 0 .. 1 /\ RunningOnce(Op(p))' \in 0 .. 1
          /\ Reporting(p) \in Nat /\ Reporting(p)' \in Nat
      BY <1>5, NumbersStep
    <3>3. Reporting(p)' = Reporting(p)
      BY <1>4
    <3>4. /\ Queued(Op(p))' + RunningOnce(Op(p))' = Queued(Op(p)) + RunningOnce(Op(p))
          /\ Queued(Cop(p))' + RunningOnce(Cop(p))' = Queued(Cop(p)) + RunningOnce(Cop(p))
      OBVIOUS
    <3>5. Links(Op(p))' = Links(Op(p)) /\ Links(Cop(p))' = Links(Cop(p))
      BY <3>1, <3>2, <3>3, <3>4
    <3> QED
      BY <3>1, <3>5 DEF NoNewLinks
  <2> QED
    BY <1>1, <2>1, <2>2, OpKept DEF Types
<1>8. Submitting'
  BY DEF Submitting
<1> QED
  BY <1>3, <1>6, <1>7, <1>8 DEF IInv

LEMMA InvTypes == IInv => LoopTypes /\ QueueTypes /\ RequestTypes /\ SlotTypes
                            /\ InputTypes /\ OpTypes
BY TypeSplit DEF IInv, Types

\* The counts of the queues, and of those a step does not touch.
LEMMA QueueNumbers ==
    QueueTypes =>
      \A n : /\ Times(batch, n) \in Nat /\ Times(localQueue, n) \in Nat
             /\ Times(remoteQueue, n) \in Nat /\ Times(pendingIoQueue, n) \in Nat
             /\ Times(pendingRecvIoQueue, n) \in Nat
             /\ Times(pendingAcptIoQueue, n) \in Nat /\ Times(cq, n) \in Nat
BY TimesType DEF QueueTypes

LEMMA SameType == \A n, x : Same(n, x) \in 0 .. 1
BY DEF Same

LEMMA TakeLocalKeeps == IInv /\ TakeLocal => IInv'
<1> SUFFICES ASSUME IInv, TakeLocal
             PROVE  IInv'
  OBVIOUS
<1>1. LoopTypes /\ QueueTypes /\ InputTypes /\ Drained
  BY InvTypes DEF IInv
<1> DEFINE x == Head(batch)
<1>2. batch' \in Seq(Nodes) /\ x \in Nodes /\ \A n : Times(batch, n) = Times(batch', n) + Same(n, x)
  BY <1>1, TimesTail DEF TakeLocal, QueueTypes
<1>3. QueueTypes' /\ LoopTypes' /\ InputTypes' /\ pc' # "submit" /\ Drained'
  BY <1>1, <1>2 DEF QueueTypes, LoopTypes, InputTypes, TakeLocal, inputVars,
         Drained
<1>4. ASSUME NEW n
      PROVE  Queued(n)' + RunningOnce(n)' = Queued(n) + RunningOnce(n)
  <2>1. RunningOnce(n) = 0
    BY DEF RunningOnce, Running, TakeLocal
  <2>2. RunningOnce(n)' = Same(n, x)
    BY DEF RunningOnce, Running, TakeLocal, Same
  <2>3. Times(batch, n) = Times(batch', n) + Same(n, x)
    BY <1>2
  <2>4. /\ Times(batch, n) \in Nat /\ Times(localQueue, n) \in Nat
        /\ Times(remoteQueue, n) \in Nat /\ Times(pendingIoQueue, n) \in Nat
        /\ Times(pendingRecvIoQueue, n) \in Nat
        /\ Times(pendingAcptIoQueue, n) \in Nat /\ Times(cq, n) \in Nat
    BY <1>1, QueueNumbers
  <2>5. Same(n, x) \in 0 .. 1 /\ Times(batch', n) \in Nat
    BY <1>2, SameType, TimesType
  <2> HIDE DEF x
  <2>6. Queued(n)' = Times(batch', n) + Times(localQueue, n) + Times(remoteQueue, n)
      + Times(pendingIoQueue, n) + Times(pendingRecvIoQueue, n)
      + Times(pendingAcptIoQueue, n) + Times(cq, n)
    BY DEF Queued, TakeLocal
  <2> QED
    BY <2>1, <2>2, <2>3, <2>4, <2>5, <2>6 DEF Queued
<1>5. UNCHANGED <<requests, sqUnflushedCount, opVars, stop>>
  BY DEF TakeLocal
<1> QED
  BY <1>3, <1>4, <1>5, LoopStep

LEMMA AcquireItemsKeeps == IInv /\ AcquireItems => IInv'
<1> SUFFICES ASSUME IInv, AcquireItems
             PROVE  IInv'
  OBVIOUS
<1>1. LoopTypes /\ QueueTypes /\ InputTypes /\ Drained
  BY InvTypes DEF IInv
<1>2. localQueue' = (localQueue \o cq) \o remoteQueue /\ cq' = <<>> /\ remoteQueue' = <<>>
  <2>1. localQueue' = localQueue \o cq \o remoteQueue
    BY DEF AcquireItems
  <2> QED
    BY <1>1, <2>1 DEF AcquireItems, QueueTypes
<1>3. localQueue \o cq \in Seq(Nodes) /\ localQueue' \in Seq(Nodes) /\ <<>> \in Seq(Nodes)
  BY <1>1, <1>2 DEF QueueTypes
<1>4. QueueTypes' /\ LoopTypes' /\ InputTypes' /\ pc' # "submit" /\ Drained'
  BY <1>1, <1>2, <1>3 DEF QueueTypes, LoopTypes, InputTypes, AcquireItems, inputVars,
         Drained
<1>5. ASSUME NEW n
      PROVE  Queued(n)' + RunningOnce(n)' = Queued(n) + RunningOnce(n)
  <2>1. RunningOnce(n) = 0 /\ RunningOnce(n)' = 0
    BY DEF RunningOnce, Running, AcquireItems
  <2>2. Times(localQueue', n) = Times(localQueue, n) + Times(cq, n) + Times(remoteQueue, n)
    <3>1. Times((localQueue \o cq) \o remoteQueue, n)
            = Times(localQueue \o cq, n) + Times(remoteQueue, n)
      BY <1>1, <1>3, TimesConcat DEF QueueTypes
    <3>2. Times(localQueue \o cq, n) = Times(localQueue, n) + Times(cq, n)
      BY <1>1, TimesConcat DEF QueueTypes
    <3> QED
      BY <1>2, <3>1, <3>2
  <2>3. Times(cq', n) = 0 /\ Times(remoteQueue', n) = 0
    BY <1>2, TimesEmpty
  <2>4. /\ Times(batch, n) \in Nat /\ Times(localQueue, n) \in Nat
        /\ Times(remoteQueue, n) \in Nat /\ Times(pendingIoQueue, n) \in Nat
        /\ Times(pendingRecvIoQueue, n) \in Nat
        /\ Times(pendingAcptIoQueue, n) \in Nat /\ Times(cq, n) \in Nat
    BY <1>1, QueueNumbers
  <2>5. Queued(n)' = Times(batch, n) + Times(localQueue', n) + Times(remoteQueue', n)
      + Times(pendingIoQueue, n) + Times(pendingRecvIoQueue, n)
      + Times(pendingAcptIoQueue, n) + Times(cq', n)
    BY DEF Queued, AcquireItems
  <2> QED
    BY <2>1, <2>2, <2>3, <2>4, <2>5 DEF Queued
<1>6. UNCHANGED <<requests, sqUnflushedCount, opVars, stop>>
  BY DEF AcquireItems
<1> QED
  BY <1>4, <1>5, <1>6, LoopStep

LEMMA TakePendingIoKeeps == IInv /\ TakePendingIo => IInv'
<1> SUFFICES ASSUME IInv, TakePendingIo
             PROVE  IInv'
  OBVIOUS
<1>1. LoopTypes /\ QueueTypes /\ InputTypes /\ Drained
  BY InvTypes DEF IInv
<1> DEFINE x == Head(pendingIoQueue)
<1>2. /\ pendingIoQueue' \in Seq(Nodes) /\ x \in Nodes
      /\ \A n : Times(pendingIoQueue, n) = Times(pendingIoQueue', n) + Same(n, x)
  BY <1>1, TimesTail DEF TakePendingIo, QueueTypes
<1>3. QueueTypes' /\ LoopTypes' /\ InputTypes' /\ pc' # "submit" /\ Drained'
  BY <1>1, <1>2 DEF QueueTypes, LoopTypes, InputTypes, TakePendingIo, inputVars,
         Drained
<1>4. ASSUME NEW n
      PROVE  Queued(n)' + RunningOnce(n)' = Queued(n) + RunningOnce(n)
  <2>1. RunningOnce(n) = 0
    BY DEF RunningOnce, Running, TakePendingIo
  <2>2. RunningOnce(n)' = Same(n, x)
    BY DEF RunningOnce, Running, TakePendingIo, Same
  <2>3. Times(pendingIoQueue, n) = Times(pendingIoQueue', n) + Same(n, x)
    BY <1>2
  <2>4. /\ Times(batch, n) \in Nat /\ Times(localQueue, n) \in Nat
        /\ Times(remoteQueue, n) \in Nat /\ Times(pendingIoQueue, n) \in Nat
        /\ Times(pendingRecvIoQueue, n) \in Nat
        /\ Times(pendingAcptIoQueue, n) \in Nat /\ Times(cq, n) \in Nat
    BY <1>1, QueueNumbers
  <2>5. Same(n, x) \in 0 .. 1 /\ Times(pendingIoQueue', n) \in Nat
    BY <1>2, SameType, TimesType
  <2> HIDE DEF x
  <2>6. Queued(n)' = Times(batch, n) + Times(localQueue, n) + Times(remoteQueue, n)
      + Times(pendingIoQueue', n) + Times(pendingRecvIoQueue, n)
      + Times(pendingAcptIoQueue, n) + Times(cq, n)
    BY DEF Queued, TakePendingIo
  <2> QED
    BY <2>1, <2>2, <2>3, <2>4, <2>5, <2>6 DEF Queued
<1>5. UNCHANGED <<requests, sqUnflushedCount, opVars, stop>>
  BY DEF TakePendingIo
<1> QED
  BY <1>3, <1>4, <1>5, LoopStep

LEMMA EndPendingIoKeeps == IInv /\ EndPendingIo => IInv'
<1> SUFFICES ASSUME IInv, EndPendingIo
             PROVE  IInv'
  OBVIOUS
<1>1. LoopTypes /\ QueueTypes /\ InputTypes /\ Drained
  BY InvTypes DEF IInv
<1>2. QueueTypes' /\ LoopTypes' /\ InputTypes' /\ pc' # "submit" /\ Drained'
  BY <1>1 DEF QueueTypes, LoopTypes, InputTypes, EndPendingIo, inputVars, queueVars,
         Drained
<1>3. ASSUME NEW n
      PROVE  Queued(n)' + RunningOnce(n)' = Queued(n) + RunningOnce(n)
  <2>1. RunningOnce(n) = 0 /\ RunningOnce(n)' = 0
    BY DEF RunningOnce, Running, EndPendingIo
  <2>2. Queued(n)' = Queued(n)
    BY DEF Queued, EndPendingIo, queueVars
  <2> QED
    BY <2>1, <2>2
<1>4. UNCHANGED <<requests, sqUnflushedCount, opVars, stop>>
  BY DEF EndPendingIo
<1> QED
  BY <1>2, <1>3, <1>4, LoopStep

LEMMA EndProgressKeeps == IInv /\ EndProgress => IInv'
<1> SUFFICES ASSUME IInv, EndProgress
             PROVE  IInv'
  OBVIOUS
<1>1. LoopTypes /\ QueueTypes /\ InputTypes /\ Drained
  BY InvTypes DEF IInv
<1>2. batch = <<>> /\ localQueue' = <<>> /\ batch' = localQueue /\ <<>> \in Seq(Nodes)
  BY <1>1 DEF EndProgress, Drained
<1>3. QueueTypes' /\ LoopTypes' /\ InputTypes' /\ pc' # "submit" /\ Drained'
  BY <1>1, <1>2 DEF QueueTypes, LoopTypes, InputTypes, EndProgress, inputVars, Drained
<1>4. ASSUME NEW n
      PROVE  Queued(n)' + RunningOnce(n)' = Queued(n) + RunningOnce(n)
  <2>1. RunningOnce(n) = 0 /\ RunningOnce(n)' = 0
    BY DEF RunningOnce, Running, EndProgress
  <2>2. Times(batch, n) = 0 /\ Times(localQueue', n) = 0 /\ Times(batch', n) = Times(localQueue, n)
    BY <1>2, TimesEmpty
  <2>4. /\ Times(batch, n) \in Nat /\ Times(localQueue, n) \in Nat
        /\ Times(remoteQueue, n) \in Nat /\ Times(pendingIoQueue, n) \in Nat
        /\ Times(pendingRecvIoQueue, n) \in Nat
        /\ Times(pendingAcptIoQueue, n) \in Nat /\ Times(cq, n) \in Nat
    BY <1>1, QueueNumbers
  <2>5. Queued(n)' = Times(batch', n) + Times(localQueue', n) + Times(remoteQueue, n)
      + Times(pendingIoQueue, n) + Times(pendingRecvIoQueue, n)
      + Times(pendingAcptIoQueue, n) + Times(cq, n)
    BY DEF Queued, EndProgress
  <2> QED
    BY <2>1, <2>2, <2>4, <2>5 DEF Queued
<1>5. UNCHANGED <<requests, sqUnflushedCount, opVars, stop>>
  BY DEF EndProgress
<1> QED
  BY <1>3, <1>4, <1>5, LoopStep

LEMMA MessageArrivesKeeps ==
    ASSUME IInv, NEW how \in MessageKinds, MessageArrives(how)
    PROVE  IInv'
<1>1. LoopTypes /\ QueueTypes /\ InputTypes /\ Drained
  BY InvTypes DEF IInv
<1>2. InputTypes'
  <2>1. amDescQueue' \in Seq(MessageKinds)
    BY <1>1 DEF MessageArrives, InputTypes
  <2> QED
    BY <1>1, <2>1, BoundsAssumption DEF MessageArrives, InputTypes
<1>3. /\ pendingIoQueue' \in Seq(Nodes) /\ pendingRecvIoQueue' \in Seq(Nodes)
      /\ \A n : Times(pendingIoQueue', n) + Times(pendingRecvIoQueue', n)
                 = Times(pendingIoQueue, n) + Times(pendingRecvIoQueue, n)
  <2>1. CASE pendingRecvIoQueue = <<>>
    BY <1>1, <2>1 DEF MessageArrives, QueueTypes
  <2>2. CASE pendingRecvIoQueue # <<>>
    <3> DEFINE x == Head(pendingRecvIoQueue)
    <3>1. pendingIoQueue' = <<x>> \o pendingIoQueue /\ pendingRecvIoQueue' = Tail(pendingRecvIoQueue)
      BY <2>2 DEF MessageArrives
    <3>2. /\ pendingRecvIoQueue' \in Seq(Nodes) /\ x \in Nodes
          /\ \A n : Times(pendingRecvIoQueue, n) = Times(pendingRecvIoQueue', n) + Same(n, x)
      BY <1>1, <2>2, <3>1, TimesTail DEF QueueTypes
    <3> HIDE DEF x
    <3>3. /\ pendingIoQueue' \in Seq(Nodes)
          /\ \A n : Times(pendingIoQueue', n) = Times(pendingIoQueue, n) + Same(n, x)
      BY <1>1, <3>1, <3>2, TimesCons DEF QueueTypes
    <3>4. ASSUME NEW n
          PROVE  Times(pendingIoQueue', n) + Times(pendingRecvIoQueue', n)
                   = Times(pendingIoQueue, n) + Times(pendingRecvIoQueue, n)
      <4>1. Same(n, x) \in 0 .. 1 /\ Times(pendingRecvIoQueue', n) \in Nat /\ Times(pendingIoQueue, n) \in Nat
        BY <1>1, <3>2, SameType, TimesType DEF QueueTypes
      <4>2. /\ Times(pendingRecvIoQueue, n) = Times(pendingRecvIoQueue', n) + Same(n, x)
            /\ Times(pendingIoQueue', n) = Times(pendingIoQueue, n) + Same(n, x)
        BY <3>2, <3>3
      <4> QED
        BY <4>1, <4>2
    <3> QED
      BY <3>2, <3>3, <3>4
  <2> QED
    BY <2>1, <2>2
<1>4. QueueTypes' /\ LoopTypes' /\ pc' # "submit" /\ Drained'
  BY <1>1, <1>3 DEF QueueTypes, LoopTypes, MessageArrives, Drained
<1>5. ASSUME NEW n
      PROVE  Queued(n)' + RunningOnce(n)' = Queued(n) + RunningOnce(n)
  <2>1. RunningOnce(n)' = RunningOnce(n) /\ RunningOnce(n) = 0
    BY DEF RunningOnce, Running, MessageArrives
  <2>2. Times(pendingIoQueue', n) + Times(pendingRecvIoQueue', n)
          = Times(pendingIoQueue, n) + Times(pendingRecvIoQueue, n)
    BY <1>3
  <2>3. Times(pendingIoQueue', n) \in Nat /\ Times(pendingRecvIoQueue', n) \in Nat
    BY <1>3, TimesType
  <2>4. /\ Times(batch, n) \in Nat /\ Times(localQueue, n) \in Nat
        /\ Times(remoteQueue, n) \in Nat /\ Times(pendingIoQueue, n) \in Nat
        /\ Times(pendingRecvIoQueue, n) \in Nat
        /\ Times(pendingAcptIoQueue, n) \in Nat /\ Times(cq, n) \in Nat
    BY <1>1, QueueNumbers
  <2>5. Queued(n)' = Times(batch, n) + Times(localQueue, n) + Times(remoteQueue, n)
      + Times(pendingIoQueue', n) + Times(pendingRecvIoQueue', n)
      + Times(pendingAcptIoQueue, n) + Times(cq, n)
    BY DEF Queued, MessageArrives
  <2> QED
    BY <2>1, <2>2, <2>3, <2>4, <2>5 DEF Queued
<1>6. UNCHANGED <<requests, sqUnflushedCount, opVars, stop>>
  BY DEF MessageArrives
<1> QED
  BY <1>2, <1>4, <1>5, <1>6, LoopStep

LEMMA ConnRequestArrivesKeeps == IInv /\ ConnRequestArrives => IInv'
<1> SUFFICES ASSUME IInv, ConnRequestArrives
             PROVE  IInv'
  OBVIOUS
<1>1. LoopTypes /\ QueueTypes /\ InputTypes /\ Drained
  BY InvTypes DEF IInv
<1>2. InputTypes'
  BY <1>1, BoundsAssumption DEF ConnRequestArrives, InputTypes
<1>3. /\ pendingIoQueue' \in Seq(Nodes) /\ pendingAcptIoQueue' \in Seq(Nodes)
      /\ \A n : Times(pendingIoQueue', n) + Times(pendingAcptIoQueue', n)
                 = Times(pendingIoQueue, n) + Times(pendingAcptIoQueue, n)
  <2>1. CASE pendingAcptIoQueue = <<>>
    BY <1>1, <2>1 DEF ConnRequestArrives, QueueTypes
  <2>2. CASE pendingAcptIoQueue # <<>>
    <3> DEFINE x == Head(pendingAcptIoQueue)
    <3>1. pendingIoQueue' = <<x>> \o pendingIoQueue /\ pendingAcptIoQueue' = Tail(pendingAcptIoQueue)
      BY <2>2 DEF ConnRequestArrives
    <3>2. /\ pendingAcptIoQueue' \in Seq(Nodes) /\ x \in Nodes
          /\ \A n : Times(pendingAcptIoQueue, n) = Times(pendingAcptIoQueue', n) + Same(n, x)
      BY <1>1, <2>2, <3>1, TimesTail DEF QueueTypes
    <3> HIDE DEF x
    <3>3. /\ pendingIoQueue' \in Seq(Nodes)
          /\ \A n : Times(pendingIoQueue', n) = Times(pendingIoQueue, n) + Same(n, x)
      BY <1>1, <3>1, <3>2, TimesCons DEF QueueTypes
    <3>4. ASSUME NEW n
          PROVE  Times(pendingIoQueue', n) + Times(pendingAcptIoQueue', n)
                   = Times(pendingIoQueue, n) + Times(pendingAcptIoQueue, n)
      <4>1. Same(n, x) \in 0 .. 1 /\ Times(pendingAcptIoQueue', n) \in Nat /\ Times(pendingIoQueue, n) \in Nat
        BY <1>1, <3>2, SameType, TimesType DEF QueueTypes
      <4>2. /\ Times(pendingAcptIoQueue, n) = Times(pendingAcptIoQueue', n) + Same(n, x)
            /\ Times(pendingIoQueue', n) = Times(pendingIoQueue, n) + Same(n, x)
        BY <3>2, <3>3
      <4> QED
        BY <4>1, <4>2
    <3> QED
      BY <3>2, <3>3, <3>4
  <2> QED
    BY <2>1, <2>2
<1>4. QueueTypes' /\ LoopTypes' /\ pc' # "submit" /\ Drained'
  BY <1>1, <1>3 DEF QueueTypes, LoopTypes, ConnRequestArrives, Drained
<1>5. ASSUME NEW n
      PROVE  Queued(n)' + RunningOnce(n)' = Queued(n) + RunningOnce(n)
  <2>1. RunningOnce(n)' = RunningOnce(n) /\ RunningOnce(n) = 0
    BY DEF RunningOnce, Running, ConnRequestArrives
  <2>2. Times(pendingIoQueue', n) + Times(pendingAcptIoQueue', n)
          = Times(pendingIoQueue, n) + Times(pendingAcptIoQueue, n)
    BY <1>3
  <2>3. Times(pendingIoQueue', n) \in Nat /\ Times(pendingAcptIoQueue', n) \in Nat
    BY <1>3, TimesType
  <2>4. /\ Times(batch, n) \in Nat /\ Times(localQueue, n) \in Nat
        /\ Times(remoteQueue, n) \in Nat /\ Times(pendingIoQueue, n) \in Nat
        /\ Times(pendingRecvIoQueue, n) \in Nat
        /\ Times(pendingAcptIoQueue, n) \in Nat /\ Times(cq, n) \in Nat
    BY <1>1, QueueNumbers
  <2>5. Queued(n)' = Times(batch, n) + Times(localQueue, n) + Times(remoteQueue, n)
      + Times(pendingIoQueue', n) + Times(pendingRecvIoQueue, n)
      + Times(pendingAcptIoQueue', n) + Times(cq, n)
    BY DEF Queued, ConnRequestArrives
  <2> QED
    BY <2>1, <2>2, <2>3, <2>4, <2>5 DEF Queued
<1>6. UNCHANGED <<requests, sqUnflushedCount, opVars, stop>>
  BY DEF ConnRequestArrives
<1> QED
  BY <1>2, <1>4, <1>5, <1>6, LoopStep

-----------------------------------------------------------------------------
(***************************************************************************)
(* Steps that concern one operation.                                       *)
(***************************************************************************)

LEMMA FewerLinks ==
    ASSUME QueueTypes, LiveFinite, QueueTypes', LiveFinite', NEW p \in Ops,
           Queued(Op(p))' + Reporting(p)' + RunningOnce(Op(p))'
             <= Queued(Op(p)) + Reporting(p) + RunningOnce(Op(p)),
           Queued(Cop(p))' + RunningOnce(Cop(p))'
             = Queued(Cop(p)) + RunningOnce(Cop(p))
    PROVE  NoNewLinks(p)
<1>1. /\ Links(Op(p)) = Queued(Op(p)) + Reporting(p) + RunningOnce(Op(p))
      /\ Links(Cop(p)) = Queued(Cop(p)) + RunningOnce(Cop(p))
      /\ Links(Op(p)) \in Nat /\ Links(Cop(p)) \in Nat
      /\ Links(Op(p))' = Queued(Op(p))' + Reporting(p)' + RunningOnce(Op(p))'
      /\ Links(Cop(p))' = Queued(Cop(p))' + RunningOnce(Cop(p))'
      /\ Links(Op(p))' \in Nat /\ Links(Cop(p))' \in Nat
  BY LinksStep
<1>2. Links(Cop(p))' = Links(Cop(p)) /\ Links(Op(p))' <= Links(Op(p))
  BY <1>1
<1> QED
  BY <1>1, <1>2 DEF NoNewLinks

LEMMA OneOpStep ==
    ASSUME IInv, NEW o \in Ops, Types', Submitting', Drained', Covered', OpInv(o)',
           \A p \in Ops : p # o => SameAt(p) /\ NoNewLinks(p)
    PROVE  IInv'
<1>1. ASSUME NEW p \in Ops
      PROVE  OpInv(p)'
  <2>1. CASE p = o
    BY <2>1
  <2>2. CASE p # o
    <3>1. OpTypes /\ OpInv(p) /\ SameAt(p) /\ NoNewLinks(p)
      BY <2>2, InvTypes DEF IInv
    <3> QED
      BY <3>1, OpKept
  <2> QED
    BY <2>1, <2>2
<1>2. TypeOK'
  BY TypeSplit, PTL
<1> QED
  BY <1>1, <1>2 DEF IInv

LEMMA LinksSame ==
    ASSUME UNCHANGED <<pc, cur, queueVars, cq, requests>>
    PROVE  /\ \A n : Links(n)' = Links(n)
           /\ Live' = Live /\ (LiveFinite => LiveFinite')
           /\ (QueueTypes => QueueTypes') /\ (RequestTypes => RequestTypes')
BY DEF Links, Held, Running, LiveRequests, Live, LiveFinite, QueueTypes,
       RequestTypes, queueVars

\* A step of another thread inside its stop request: nothing moves.
LEMMA StopStep ==
    ASSUME IInv, NEW o \in Ops, OpTypes', OpInv(o)',
           UNCHANGED <<pc, cur, back, queueVars, cq, sqUnflushedCount, requests,
                       inputVars, completed>>,
           \A p \in Ops : p # o => SameAt(p)
    PROVE  IInv'
<1>1. LoopTypes /\ QueueTypes /\ RequestTypes /\ SlotTypes /\ InputTypes /\ Covered
  BY InvTypes DEF IInv
<1>2. /\ \A n : Links(n)' = Links(n)
      /\ Live' = Live /\ LiveFinite' /\ QueueTypes' /\ RequestTypes' /\ LiveFinite
  BY <1>1, LinksSame DEF Covered
<1>3. LoopTypes' /\ SlotTypes' /\ InputTypes'
  BY <1>1 DEF LoopTypes, SlotTypes, InputTypes, inputVars
<1>4. Types'
  BY <1>2, <1>3 DEF Types
<1>5. Covered'
  BY <1>1, <1>2 DEF Covered
<1>6. Submitting'
  BY DEF IInv, Submitting
<1>7. Drained'
  BY DEF IInv, Drained, queueVars
<1>8. ASSUME NEW p \in Ops, p # o
      PROVE  NoNewLinks(p)
  <2>1. Links(Op(p)) \in Nat /\ Links(Cop(p)) \in Nat
    BY <1>1, <1>2, LinksOf DEF LinksCounted
  <2>2. Links(Op(p))' = Links(Op(p)) /\ Links(Cop(p))' = Links(Cop(p))
    BY <1>2
  <2> QED
    BY <2>1, <2>2 DEF NoNewLinks
<1> QED
  BY <1>4, <1>5, <1>6, <1>7, <1>8, OneOpStep

\* What such a step knows of its operation.
LEMMA StopFacts ==
    ASSUME IInv, NEW o \in Ops, UNCHANGED <<pc, cur, queueVars, cq, requests>>
    PROVE  /\ Links(Op(o))' = Links(Op(o)) /\ Links(Cop(o))' = Links(Cop(o))
           /\ Links(Op(o)) \in Nat /\ Links(Cop(o)) \in Nat
           /\ Counted(o) /\ Stopping(o) /\ Settled(o) /\ Closing(o)
           /\ refCount[o] \in 0 .. 2 /\ completed[o] \in 0 .. 1
<1>1. QueueTypes /\ OpTypes /\ LiveFinite
  BY InvTypes DEF IInv, Covered
<1>2. Links(Op(o))' = Links(Op(o)) /\ Links(Cop(o))' = Links(Cop(o))
  BY LinksSame
<1>3. Links(Op(o)) \in Nat /\ Links(Cop(o)) \in Nat
  BY <1>1, LinksOf DEF LinksCounted
<1>4. OpInv(o)
  BY DEF IInv
<1> QED
  BY <1>1, <1>2, <1>3, <1>4 DEF OpInv, OpTypes

LEMMA StopRequestedKeeps ==
    ASSUME IInv, NEW o \in Ops, StopRequested(o)
    PROVE  IInv'
<1>1. UNCHANGED <<pc, cur, back, queueVars, cq, sqUnflushedCount, requests,
                  inputVars, opVars>>
  BY DEF StopRequested
<1>2. OpTypes
  BY InvTypes
<1>3. OpTypes'
  BY <1>1, <1>2 DEF OpTypes, opVars, StopRequested
<1>4. stop[o] = "no" /\ stop'[o] = "requested" /\ \A p \in Ops : p # o => stop'[p] = stop[p]
  BY <1>2 DEF StopRequested, OpTypes
<1>5. \A p \in Ops : p # o => SameAt(p)
  BY <1>1, <1>4 DEF SameAt, opVars
<1>6. OpInv(o)'
  <2>1. /\ Links(Op(o))' = Links(Op(o)) /\ Links(Cop(o))' = Links(Cop(o))
        /\ Links(Op(o)) \in Nat /\ Links(Cop(o)) \in Nat
        /\ Counted(o) /\ Stopping(o) /\ Settled(o) /\ Closing(o)
    BY <1>1, StopFacts
  <2>2. OpPending(o)' = OpPending(o) /\ CopPending(o)' = CopPending(o)
    BY <1>1, <1>4, <2>1 DEF OpPending, CopPending, opVars
  <2> QED
    BY <1>1, <1>4, <2>1, <2>2 DEF OpInv, Counted, Stopping, Settled, Closing, opVars
<1> QED
  BY <1>1, <1>3, <1>5, <1>6, StopStep DEF opVars

LEMMA StopLoadPendingKeeps ==
    ASSUME IInv, NEW o \in Ops, StopLoadPending(o)
    PROVE  IInv'
<1>1. /\ UNCHANGED <<pc, cur, back, queueVars, cq, sqUnflushedCount, requests,
                     inputVars, kind, execute, copExecute, refCount, cancelFlag,
                     onPending, request, desc, conn, completed>>
  BY DEF StopLoadPending
<1>2. OpTypes
  BY InvTypes
<1>3. OpTypes'
  BY <1>1, <1>2 DEF OpTypes, StopLoadPending
<1>4. /\ stop[o] = "requested" /\ stop'[o] \in {"finished", "cas"}
      /\ callback[o] = "registered" /\ callback'[o] = "ran"
      /\ \A p \in Ops : p # o => stop'[p] = stop[p] /\ callback'[p] = callback[p]
  BY <1>2 DEF StopLoadPending, OpTypes
<1>5. \A p \in Ops : p # o => SameAt(p)
  BY <1>1, <1>4 DEF SameAt
<1>6. OpInv(o)'
  <2>1. /\ Links(Op(o))' = Links(Op(o)) /\ Links(Cop(o))' = Links(Cop(o))
        /\ Links(Op(o)) \in Nat /\ Links(Cop(o)) \in Nat
        /\ Counted(o) /\ Stopping(o) /\ Settled(o) /\ Closing(o)
    BY <1>1, StopFacts
  <2>2. OpPending(o)' = OpPending(o) /\ CopPending(o)' = CopPending(o)
    BY <1>1, <1>4, <2>1 DEF OpPending, CopPending
  <2> QED
    BY <1>1, <1>4, <2>1, <2>2 DEF OpInv, Counted, Stopping, Settled, Closing
<1> QED
  BY <1>1, <1>3, <1>5, <1>6, StopStep

LEMMA StopCasKeeps ==
    ASSUME IInv, NEW o \in Ops, StopCas(o)
    PROVE  IInv'
<1>1. /\ UNCHANGED <<pc, cur, back, queueVars, cq, sqUnflushedCount, requests,
                     inputVars, kind, execute, copExecute, callback, cancelFlag,
                     onPending, request, desc, conn, completed>>
  BY DEF StopCas
<1>2. OpTypes
  BY InvTypes
<1>3. OpTypes'
  BY <1>1, <1>2 DEF OpTypes, StopCas
<1>4. /\ stop[o] = "cas"
      /\ \/ refCount[o] = 1 /\ refCount'[o] = 2 /\ stop'[o] = "flag"
         \/ refCount'[o] = refCount[o] /\ stop'[o] = "finished"
      /\ \A p \in Ops : p # o => stop'[p] = stop[p] /\ refCount'[p] = refCount[p]
  BY <1>2 DEF StopCas, OpTypes
<1>5. \A p \in Ops : p # o => SameAt(p)
  BY <1>1, <1>4 DEF SameAt
<1>6. OpInv(o)'
  <2>1. /\ Links(Op(o))' = Links(Op(o)) /\ Links(Cop(o))' = Links(Cop(o))
        /\ Links(Op(o)) \in Nat /\ Links(Cop(o)) \in Nat
        /\ Counted(o) /\ Stopping(o) /\ Settled(o) /\ Closing(o)
        /\ refCount[o] \in 0 .. 2 /\ completed[o] \in 0 .. 1
    BY <1>1, StopFacts
  <2>2. CopPending(o) = 0 /\ Links(Cop(o)) = 0 /\ callback[o] \notin {"unset", "registered"}
    BY <1>4, <2>1 DEF Stopping, CopPending
  <2>3. OpPending(o)' = OpPending(o) /\ OpPending(o) \in 0 .. 1
    BY <1>1, <2>1 DEF OpPending, Counted
  <2>4. \/ CopPending(o)' = 1 /\ refCount[o] = 1 /\ refCount'[o] = 2
        \/ CopPending(o)' = 0 /\ refCount'[o] = refCount[o]
    BY <1>4, <2>1, <2>2 DEF CopPending
  <2>5. Counted(o)'
    BY <2>1, <2>2, <2>3, <2>4 DEF Counted
  <2>6. Stopping(o)'
    BY <1>1, <1>4, <2>2 DEF Stopping
  <2>7. Settled(o)'
    BY <1>1, <1>4, <2>1 DEF Settled
  <2>8. Closing(o)'
    BY <1>1, <1>4, <2>1, <2>2 DEF Closing
  <2> QED
    BY <2>5, <2>6, <2>7, <2>8 DEF OpInv
<1> QED
  BY <1>1, <1>3, <1>5, <1>6, StopStep

LEMMA StopSetFlagKeeps ==
    ASSUME IInv, NEW o \in Ops, StopSetFlag(o)
    PROVE  IInv'
<1>1. /\ UNCHANGED <<pc, cur, back, queueVars, cq, sqUnflushedCount, requests,
                     inputVars, kind, execute, copExecute, callback, refCount,
                     onPending, request, desc, conn, completed>>
  BY DEF StopSetFlag
<1>2. OpTypes
  BY InvTypes
<1>3. OpTypes'
  BY <1>1, <1>2 DEF OpTypes, StopSetFlag
<1>4. /\ stop[o] = "flag" /\ stop'[o] = "enqueue"
      /\ \A p \in Ops : p # o => stop'[p] = stop[p] /\ cancelFlag'[p] = cancelFlag[p]
  BY <1>2 DEF StopSetFlag, OpTypes
<1>5. \A p \in Ops : p # o => SameAt(p)
  BY <1>1, <1>4 DEF SameAt
<1>6. OpInv(o)'
  <2>1. /\ Links(Op(o))' = Links(Op(o)) /\ Links(Cop(o))' = Links(Cop(o))
        /\ Links(Op(o)) \in Nat /\ Links(Cop(o)) \in Nat
        /\ Counted(o) /\ Stopping(o) /\ Settled(o) /\ Closing(o)
    BY <1>1, StopFacts
  <2>2. OpPending(o)' = OpPending(o) /\ CopPending(o)' = CopPending(o)
    BY <1>1, <1>4, <2>1 DEF OpPending, CopPending
  <2>3. conn[o] # "given"
    <3>1. CopPending(o) >= 1 /\ CopPending(o) \in Nat /\ OpPending(o) \in Nat
      BY <1>4, <2>1 DEF CopPending, OpPending
    <3> QED
      BY <2>1, <3>1 DEF Counted, Closing
  <2> QED
    BY <1>1, <1>4, <2>1, <2>2, <2>3 DEF OpInv, Counted, Stopping, Settled, Closing
<1> QED
  BY <1>1, <1>3, <1>5, <1>6, StopStep

\* One node more at the end of remoteQueue_.
LEMMA EnqueueRemote ==
    ASSUME QueueTypes, LiveFinite, NEW x \in Nodes,
           remoteQueue' = Append(remoteQueue, x),
           UNCHANGED <<pc, cur, batch, localQueue, pendingIoQueue,
                       pendingRecvIoQueue, pendingAcptIoQueue, cq, requests>>
    PROVE  /\ QueueTypes' /\ LiveFinite' /\ Live' = Live
           /\ \A p \in Ops :
                /\ Links(Op(p)) \in Nat /\ Links(Cop(p)) \in Nat
                /\ Links(Op(p))' = Links(Op(p)) + Same(Op(p), x)
                /\ Links(Cop(p))' = Links(Cop(p)) + Same(Cop(p), x)
<1>1. remoteQueue' \in Seq(Nodes)
  BY DEF QueueTypes
<1>2. QueueTypes'
  BY <1>1 DEF QueueTypes
<1>3. Live' = Live /\ \A p \in Ops : Reporting(p)' = Reporting(p)
  BY RequestsSame
<1>4. LiveFinite'
  BY <1>3 DEF LiveFinite
<1>5. ASSUME NEW n
      PROVE  Queued(n)' = Queued(n) + Same(n, x)
  <2>1. Times(remoteQueue', n) = Times(remoteQueue, n) + Same(n, x)
    BY TimesAppend DEF QueueTypes
  <2>2. /\ Times(batch, n) \in Nat /\ Times(localQueue, n) \in Nat
        /\ Times(remoteQueue, n) \in Nat /\ Times(pendingIoQueue, n) \in Nat
        /\ Times(pendingRecvIoQueue, n) \in Nat
        /\ Times(pendingAcptIoQueue, n) \in Nat /\ Times(cq, n) \in Nat
    BY QueueNumbers
  <2>3. Same(n, x) \in 0 .. 1
    BY SameType
  <2>4. Queued(n)' = Times(batch, n) + Times(localQueue, n) + Times(remoteQueue', n)
      + Times(pendingIoQueue, n) + Times(pendingRecvIoQueue, n)
      + Times(pendingAcptIoQueue, n) + Times(cq, n)
    BY DEF Queued
  <2> QED
    BY <2>1, <2>2, <2>3, <2>4 DEF Queued
<1>6. \A n : RunningOnce(n)' = RunningOnce(n)
  BY DEF RunningOnce, Running
<1>7. ASSUME NEW p \in Ops
      PROVE  /\ Links(Op(p)) \in Nat /\ Links(Cop(p)) \in Nat
             /\ Links(Op(p))' = Links(Op(p)) + Same(Op(p), x)
             /\ Links(Cop(p))' = Links(Cop(p)) + Same(Cop(p), x)
  <2>1. /\ Links(Op(p)) = Queued(Op(p)) + Reporting(p) + RunningOnce(Op(p))
        /\ Links(Cop(p)) = Queued(Cop(p)) + RunningOnce(Cop(p))
        /\ Links(Op(p)) \in Nat /\ Links(Cop(p)) \in Nat
        /\ Links(Op(p))' = Queued(Op(p))' + Reporting(p)' + RunningOnce(Op(p))'
        /\ Links(Cop(p))' = Queued(Cop(p))' + RunningOnce(Cop(p))'
    BY <1>2, <1>4, LinksStep
  <2>2. /\ Queued(Op(p)) \in Nat /\ Queued(Cop(p)) \in Nat /\ Reporting(p) \in Nat
        /\ RunningOnce(Op(p)) \in 0 .. 1 /\ RunningOnce(Cop(p)) \in 0 .. 1
    BY <1>2, <1>4, NumbersStep
  <2>3. /\ Reporting(p)' = Reporting(p)
        /\ RunningOnce(Op(p))' = RunningOnce(Op(p))
        /\ RunningOnce(Cop(p))' = RunningOnce(Cop(p))
        /\ Queued(Op(p))' = Queued(Op(p)) + Same(Op(p), x)
        /\ Queued(Cop(p))' = Queued(Cop(p)) + Same(Cop(p), x)
    BY <1>3, <1>5, <1>6
  <2>4. Same(Op(p), x) \in 0 .. 1 /\ Same(Cop(p), x) \in 0 .. 1
    BY SameType
  <2> QED
    BY <2>1, <2>2, <2>3, <2>4
<1> QED
  BY <1>2, <1>3, <1>4, <1>7

LEMMA SameNodes ==
    ASSUME NEW o \in Ops, NEW p \in Ops
    PROVE  /\ Same(Op(p), Op(o)) = IF p = o THEN 1 ELSE 0
           /\ Same(Cop(p), Cop(o)) = IF p = o THEN 1 ELSE 0
           /\ Same(Op(p), Cop(o)) = 0 /\ Same(Cop(p), Op(o)) = 0
BY NodeFacts DEF Same

LEMMA RequestStopRemoteKeeps ==
    ASSUME IInv, NEW o \in Ops, RequestStopRemote(o)
    PROVE  IInv'
<1>1. UNCHANGED <<pc, cur, back, batch, localQueue, pendingIoQueue,
                  pendingRecvIoQueue, pendingAcptIoQueue, cq,
                  sqUnflushedCount, requests, inputVars, kind, execute,
                  callback, refCount, cancelFlag, onPending, request, desc,
                  conn, completed>>
  BY DEF RequestStopRemote
<1>2. LoopTypes /\ QueueTypes /\ RequestTypes /\ SlotTypes /\ InputTypes /\ OpTypes
  BY InvTypes
<1>3. Covered /\ LiveFinite
  BY DEF IInv, Covered
<1>4. /\ QueueTypes' /\ LiveFinite' /\ Live' = Live
      /\ \A p \in Ops :
           /\ Links(Op(p)) \in Nat /\ Links(Cop(p)) \in Nat
           /\ Links(Op(p))' = Links(Op(p)) + Same(Op(p), Cop(o))
           /\ Links(Cop(p))' = Links(Cop(p)) + Same(Cop(p), Cop(o))
  <2>1. Cop(o) \in Nodes /\ remoteQueue' = Append(remoteQueue, Cop(o))
    BY NodeFacts DEF RequestStopRemote
  <2> QED
    BY <1>1, <1>2, <1>3, <2>1, EnqueueRemote
<1>5. /\ stop[o] = "enqueue" /\ stop'[o] = "finished" /\ copExecute'[o] = "stopLocal"
      /\ \A p \in Ops : p # o => stop'[p] = stop[p] /\ copExecute'[p] = copExecute[p]
  BY <1>2 DEF RequestStopRemote, OpTypes
<1>6. OpTypes'
  BY <1>1, <1>2 DEF OpTypes, RequestStopRemote
<1>7. Types'
  <2>1. LoopTypes' /\ RequestTypes' /\ SlotTypes' /\ InputTypes'
    BY <1>1, <1>2 DEF LoopTypes, RequestTypes, SlotTypes, InputTypes, inputVars
  <2> QED
    BY <1>4, <1>6, <2>1 DEF Types
<1>8. Submitting' /\ Drained' /\ Covered'
  BY <1>1, <1>3, <1>4 DEF IInv, Submitting, Drained, Covered
<1>9. ASSUME NEW p \in Ops, p # o
      PROVE  SameAt(p) /\ NoNewLinks(p)
  <2>1. SameAt(p)
    BY <1>1, <1>5, <1>9 DEF SameAt
  <2>2. Links(Op(p))' = Links(Op(p)) /\ Links(Cop(p))' = Links(Cop(p))
    BY <1>4, <1>9, SameNodes
  <2> QED
    BY <1>4, <2>1, <2>2 DEF NoNewLinks
<1>10. OpInv(o)'
  <2>1. /\ Links(Op(o))' = Links(Op(o)) /\ Links(Cop(o))' = Links(Cop(o)) + 1
        /\ Links(Op(o)) \in Nat /\ Links(Cop(o)) \in Nat
    BY <1>4, SameNodes
  <2>2. Counted(o) /\ Stopping(o) /\ Settled(o) /\ Closing(o)
    BY DEF IInv, OpInv
  <2>3. OpPending(o)' = OpPending(o) /\ CopPending(o)' = CopPending(o)
    BY <1>1, <1>5, <2>1 DEF OpPending, CopPending
  <2> QED
    BY <1>1, <1>5, <2>1, <2>2, <2>3 DEF OpInv, Counted, Stopping, Settled, Closing
<1> QED
  BY <1>7, <1>8, <1>9, <1>10, OneOpStep

LEMMA StartRemoteKeeps ==
    ASSUME IInv, NEW o \in Ops, StartRemote(o)
    PROVE  IInv'
<1>1. UNCHANGED <<pc, cur, back, batch, localQueue, pendingIoQueue,
                  pendingRecvIoQueue, pendingAcptIoQueue, cq,
                  sqUnflushedCount, requests, inputVars, kind, copExecute,
                  callback, refCount, cancelFlag, onPending, request, desc,
                  conn, completed, stop>>
  BY DEF StartRemote
<1>2. LoopTypes /\ QueueTypes /\ RequestTypes /\ SlotTypes /\ InputTypes /\ OpTypes
  BY InvTypes
<1>3. Covered /\ LiveFinite
  BY DEF IInv, Covered
<1>4. /\ QueueTypes' /\ LiveFinite' /\ Live' = Live
      /\ \A p \in Ops :
           /\ Links(Op(p)) \in Nat /\ Links(Cop(p)) \in Nat
           /\ Links(Op(p))' = Links(Op(p)) + Same(Op(p), Op(o))
           /\ Links(Cop(p))' = Links(Cop(p)) + Same(Cop(p), Op(o))
  <2>1. Op(o) \in Nodes /\ remoteQueue' = Append(remoteQueue, Op(o))
    BY NodeFacts DEF StartRemote
  <2> QED
    BY <1>1, <1>2, <1>3, <2>1, EnqueueRemote
<1>5. /\ execute[o] = "new" /\ execute'[o] = "start"
      /\ \A p \in Ops : p # o => execute'[p] = execute[p]
  BY <1>2 DEF StartRemote, OpTypes
<1>6. OpTypes'
  BY <1>1, <1>2 DEF OpTypes, StartRemote
<1>7. Types'
  <2>1. LoopTypes' /\ RequestTypes' /\ SlotTypes' /\ InputTypes'
    BY <1>1, <1>2 DEF LoopTypes, RequestTypes, SlotTypes, InputTypes, inputVars
  <2> QED
    BY <1>4, <1>6, <2>1 DEF Types
<1>8. Submitting' /\ Drained' /\ Covered'
  BY <1>1, <1>3, <1>4 DEF IInv, Submitting, Drained, Covered
<1>9. ASSUME NEW p \in Ops, p # o
      PROVE  SameAt(p) /\ NoNewLinks(p)
  <2>1. SameAt(p)
    BY <1>1, <1>5, <1>9 DEF SameAt
  <2>2. Links(Op(p))' = Links(Op(p)) /\ Links(Cop(p))' = Links(Cop(p))
    BY <1>4, <1>9, SameNodes
  <2> QED
    BY <1>4, <2>1, <2>2 DEF NoNewLinks
<1>10. OpInv(o)'
  <2>1. /\ Links(Op(o))' = Links(Op(o)) + 1 /\ Links(Cop(o))' = Links(Cop(o))
        /\ Links(Op(o)) \in Nat /\ Links(Cop(o)) \in Nat
    BY <1>4, SameNodes
  <2>2. Counted(o) /\ Stopping(o) /\ Settled(o) /\ Closing(o)
    BY DEF IInv, OpInv
  <2>3. OpPending(o)' = OpPending(o) /\ CopPending(o)' = CopPending(o)
    BY <1>1, <1>5, <2>1 DEF OpPending, CopPending
  <2> QED
    BY <1>1, <1>5, <2>1, <2>2, <2>3 DEF OpInv, Counted, Stopping, Settled, Closing
<1> QED
  BY <1>7, <1>8, <1>9, <1>10, OneOpStep

\* The node the loop runs changes; the queues and the requests do not.
LEMMA RunningStep ==
    ASSUME QueueTypes, LiveFinite, UNCHANGED <<queueVars, cq, requests>>
    PROVE  /\ QueueTypes' /\ LiveFinite' /\ Live' = Live
           /\ \A p \in Ops :
                /\ Links(Op(p)) \in Nat /\ Links(Cop(p)) \in Nat
                /\ Links(Op(p))' \in Nat /\ Links(Cop(p))' \in Nat
                /\ RunningOnce(Op(p)) \in 0 .. 1 /\ RunningOnce(Cop(p)) \in 0 .. 1
                /\ RunningOnce(Op(p))' \in 0 .. 1 /\ RunningOnce(Cop(p))' \in 0 .. 1
                /\ Links(Op(p))' + RunningOnce(Op(p)) = Links(Op(p)) + RunningOnce(Op(p))'
                /\ Links(Cop(p))' + RunningOnce(Cop(p)) = Links(Cop(p)) + RunningOnce(Cop(p))'
<1>1. QueueTypes'
  BY DEF QueueTypes, queueVars
<1>2. Live' = Live /\ \A p \in Ops : Reporting(p)' = Reporting(p)
  BY RequestsSame
<1>3. LiveFinite'
  BY <1>2 DEF LiveFinite
<1>4. \A n : Queued(n)' = Queued(n)
  BY DEF Queued, queueVars
<1>5. ASSUME NEW p \in Ops
      PROVE  /\ Links(Op(p)) \in Nat /\ Links(Cop(p)) \in Nat
             /\ Links(Op(p))' \in Nat /\ Links(Cop(p))' \in Nat
             /\ RunningOnce(Op(p)) \in 0 .. 1 /\ RunningOnce(Cop(p)) \in 0 .. 1
             /\ RunningOnce(Op(p))' \in 0 .. 1 /\ RunningOnce(Cop(p))' \in 0 .. 1
             /\ Links(Op(p))' + RunningOnce(Op(p)) = Links(Op(p)) + RunningOnce(Op(p))'
             /\ Links(Cop(p))' + RunningOnce(Cop(p)) = Links(Cop(p)) + RunningOnce(Cop(p))'
  <2>1. /\ Links(Op(p)) = Queued(Op(p)) + Reporting(p) + RunningOnce(Op(p))
        /\ Links(Cop(p)) = Queued(Cop(p)) + RunningOnce(Cop(p))
        /\ Links(Op(p)) \in Nat /\ Links(Cop(p)) \in Nat
        /\ Links(Op(p))' = Queued(Op(p))' + Reporting(p)' + RunningOnce(Op(p))'
        /\ Links(Cop(p))' = Queued(Cop(p))' + RunningOnce(Cop(p))'
        /\ Links(Op(p))' \in Nat /\ Links(Cop(p))' \in Nat
    BY <1>1, <1>3, LinksStep
  <2>2. /\ Queued(Op(p)) \in Nat /\ Queued(Cop(p)) \in Nat /\ Reporting(p) \in Nat
        /\ RunningOnce(Op(p)) \in 0 .. 1 /\ RunningOnce(Cop(p)) \in 0 .. 1
        /\ RunningOnce(Op(p))' \in 0 .. 1 /\ RunningOnce(Cop(p))' \in 0 .. 1
    BY <1>1, <1>3, NumbersStep
  <2>3. /\ Reporting(p)' = Reporting(p)
        /\ Queued(Op(p))' = Queued(Op(p)) /\ Queued(Cop(p))' = Queued(Cop(p))
    BY <1>2, <1>4
  <2> QED
    BY <2>1, <2>2, <2>3
<1> QED
  BY <1>1, <1>2, <1>3, <1>5

LEMMA StartOnIoThreadKeeps ==
    ASSUME IInv, NEW o \in Ops, StartOnIoThread(o)
    PROVE  IInv'
<1>1. UNCHANGED <<queueVars, cq, sqUnflushedCount, requests, inputVars, kind,
                  copExecute, callback, refCount, cancelFlag, onPending,
                  request, desc, conn, completed, stop>>
  BY DEF StartOnIoThread
<1>2. LoopTypes /\ QueueTypes /\ RequestTypes /\ SlotTypes /\ InputTypes /\ OpTypes
  BY InvTypes
<1>3. Covered /\ LiveFinite
  BY DEF IInv, Covered
<1>4. /\ QueueTypes' /\ LiveFinite' /\ Live' = Live
      /\ \A p \in Ops :
           /\ Links(Op(p)) \in Nat /\ Links(Cop(p)) \in Nat
           /\ Links(Op(p))' \in Nat /\ Links(Cop(p))' \in Nat
           /\ Links(Op(p))' + RunningOnce(Op(p)) = Links(Op(p)) + RunningOnce(Op(p))'
           /\ Links(Cop(p))' + RunningOnce(Cop(p)) = Links(Cop(p)) + RunningOnce(Cop(p))'
  BY <1>1, <1>2, <1>3, RunningStep
<1>5. \A n : RunningOnce(n) = 0 /\ RunningOnce(n)' = Same(n, Op(o))
  BY DEF RunningOnce, Running, Same, StartOnIoThread
<1>6. /\ execute[o] = "new" /\ execute'[o] = "start"
      /\ \A p \in Ops : p # o => execute'[p] = execute[p]
  BY <1>2 DEF StartOnIoThread, OpTypes
<1>7. Types'
  <2>1. RequestTypes' /\ SlotTypes' /\ InputTypes'
    BY <1>1, <1>2 DEF RequestTypes, SlotTypes, InputTypes, inputVars
  <2>2. LoopTypes'
    BY NodeFacts DEF LoopTypes, StartOnIoThread
  <2>3. OpTypes'
    BY <1>1, <1>2 DEF OpTypes, StartOnIoThread
  <2> QED
    BY <1>4, <2>1, <2>2, <2>3 DEF Types
<1>8. Submitting' /\ Drained' /\ Covered'
  BY <1>1, <1>3, <1>4 DEF Submitting, Drained, Covered, StartOnIoThread
<1>9. ASSUME NEW p \in Ops, p # o
      PROVE  SameAt(p) /\ NoNewLinks(p)
  <2>1. SameAt(p)
    BY <1>1, <1>6, <1>9 DEF SameAt
  <2>2. Links(Op(p))' = Links(Op(p)) /\ Links(Cop(p))' = Links(Cop(p))
    BY <1>4, <1>5, <1>9, SameNodes
  <2> QED
    BY <1>4, <2>1, <2>2 DEF NoNewLinks
<1>10. OpInv(o)'
  <2>1. /\ Links(Op(o))' = Links(Op(o)) + 1 /\ Links(Cop(o))' = Links(Cop(o))
        /\ Links(Op(o)) \in Nat /\ Links(Cop(o)) \in Nat
    BY <1>4, <1>5, SameNodes
  <2>2. Counted(o) /\ Stopping(o) /\ Settled(o) /\ Closing(o)
    BY DEF IInv, OpInv
  <2>3. OpPending(o)' = OpPending(o) /\ CopPending(o)' = CopPending(o)
    BY <1>1, <1>6, <2>1 DEF OpPending, CopPending
  <2> QED
    BY <1>1, <1>6, <2>1, <2>2, <2>3 DEF OpInv, Counted, Stopping, Settled, Closing
<1> QED
  BY <1>7, <1>8, <1>9, <1>10, OneOpStep

LEMMA ExecuteFreedKeeps == IInv /\ ExecuteFreed => IInv'
<1> SUFFICES ASSUME IInv, ExecuteFreed
             PROVE  IInv'
  OBVIOUS
<1>1. UNCHANGED <<cur, back, queueVars, cq, sqUnflushedCount, requests, inputVars,
                  opVars, stop>>
  BY DEF ExecuteFreed
<1>2. LoopTypes /\ QueueTypes /\ RequestTypes /\ SlotTypes /\ InputTypes /\ OpTypes
  BY InvTypes
<1>3. Covered /\ LiveFinite
  BY DEF IInv, Covered
<1>4. /\ QueueTypes' /\ LiveFinite' /\ Live' = Live
      /\ \A p \in Ops :
           /\ Links(Op(p)) \in Nat /\ Links(Cop(p)) \in Nat
           /\ Links(Op(p))' \in Nat /\ Links(Cop(p))' \in Nat
           /\ RunningOnce(Op(p)) \in 0 .. 1 /\ RunningOnce(Cop(p)) \in 0 .. 1
           /\ RunningOnce(Op(p))' \in 0 .. 1 /\ RunningOnce(Cop(p))' \in 0 .. 1
           /\ Links(Op(p))' + RunningOnce(Op(p)) = Links(Op(p)) + RunningOnce(Op(p))'
           /\ Links(Cop(p))' + RunningOnce(Cop(p)) = Links(Cop(p)) + RunningOnce(Cop(p))'
  BY <1>1, <1>2, <1>3, RunningStep
<1>5. \A n : RunningOnce(n)' = 0
  BY DEF RunningOnce, Running, ExecuteFreed
<1>6. TypeOK'
  <2>1. RequestTypes' /\ SlotTypes' /\ InputTypes' /\ OpTypes' /\ LoopTypes'
    BY <1>1, <1>2 DEF RequestTypes, SlotTypes, InputTypes, inputVars, OpTypes, opVars,
                      LoopTypes, ExecuteFreed
  <2>2. Types'
    BY <1>4, <2>1 DEF Types
  <2> QED
    BY <2>2, TypeSplit, PTL
<1>7. Submitting' /\ Drained' /\ Covered'
  BY <1>1, <1>3, <1>4 DEF Submitting, Drained, Covered, ExecuteFreed
<1>8. ASSUME NEW p \in Ops
      PROVE  OpInv(p)'
  <2>1. SameAt(p)
    BY <1>1 DEF SameAt, opVars
  <2>2. OpInv(p)
    BY DEF IInv
  <2>3. Links(Op(p))' <= Links(Op(p)) /\ Links(Cop(p))' = Links(Cop(p)) - RunningOnce(Cop(p))
    BY <1>4, <1>5
  <2>4. RunningOnce(Cop(p)) = 0 \/ conn[p] # "open"
    <3> SUFFICES ASSUME RunningOnce(Cop(p)) # 0, conn[p] = "open"
                 PROVE  FALSE
      OBVIOUS
    <3>1. cur = Cop(p) /\ completed[p] > 0
      BY DEF RunningOnce, Running, ExecuteFreed, Cop
    <3>2. kind[p] = "connect"
      BY <2>2 DEF OpInv, Closing
    <3>3. refCount[p] = 0
      BY <2>2, <3>1, <3>2 DEF OpInv, Settled, SymmetricKinds
    <3>4. Links(Cop(p)) >= 1 /\ Links(Cop(p)) \in Nat /\ Links(Op(p)) \in Nat
      <4>1. RunningOnce(Cop(p)) = 1
        BY DEF RunningOnce
      <4> QED
        BY <1>4, <1>5, <4>1
    <3>5. OpPending(p) + CopPending(p) >= 1
      BY <3>4 DEF OpPending, CopPending
    <3> QED
      BY <2>2, <3>3, <3>4, <3>5 DEF OpInv, Counted, OpPending, CopPending
  <2>5. NoNewLinks(p)
    BY <1>4, <2>3, <2>4 DEF NoNewLinks
  <2> QED
    BY <1>2, <2>1, <2>2, <2>5, OpKept
<1> QED
  BY <1>6, <1>7, <1>8 DEF IInv

\* The node that was running has been executed.
LEMMA DoneRunning ==
    ASSUME IInv, UNCHANGED <<queueVars, cq, requests>>, pc = "run", pc' = back,
           NEW x, cur = x
    PROVE  \A p \in Ops :
             /\ Links(Op(p)) \in Nat /\ Links(Cop(p)) \in Nat
             /\ Links(Op(p))' \in Nat /\ Links(Cop(p))' \in Nat
             /\ Links(Op(p))' + Same(Op(p), x) = Links(Op(p))
             /\ Links(Cop(p))' + Same(Cop(p), x) = Links(Cop(p))
<1>1. QueueTypes /\ LiveFinite /\ back \in {"exec", "pend"}
  BY InvTypes DEF IInv, Covered, LoopTypes
<1>2. \A p \in Ops :
           /\ Links(Op(p)) \in Nat /\ Links(Cop(p)) \in Nat
           /\ Links(Op(p))' \in Nat /\ Links(Cop(p))' \in Nat
           /\ Links(Op(p))' + RunningOnce(Op(p)) = Links(Op(p)) + RunningOnce(Op(p))'
           /\ Links(Cop(p))' + RunningOnce(Cop(p)) = Links(Cop(p)) + RunningOnce(Cop(p))'
  BY <1>1, RunningStep
<1>3. \A n : RunningOnce(n)' = 0
  BY <1>1 DEF RunningOnce, Running
<1>4. \A n : RunningOnce(n) = Same(n, x)
  BY DEF RunningOnce, Running, Same
<1> QED
  BY <1>2, <1>3, <1>4

\* The completions of either node: queues and other operations are as before.
LEMMA CompletionStep ==
    ASSUME IInv, NEW o \in Ops, NEW x \in {Op(o), Cop(o)}, pc = "run", pc' = back,
           cur = x, refCount' \in [Ops -> 0 .. 2], completed' \in [Ops -> 0 .. 1],
           callback' \in [Ops -> {"unset", "registered", "ran", "gone"}],
           \A p \in Ops : p # o => /\ refCount'[p] = refCount[p]
                                   /\ completed'[p] = completed[p]
                                   /\ callback'[p] = callback[p],
           UNCHANGED <<cur, back, queueVars, cq, sqUnflushedCount, requests,
                       inputVars, kind, execute, copExecute, cancelFlag, onPending,
                       request, desc, stop>>,
           conn' \in [Ops -> {"none", "open", "given", "disconnected"}],
           \A p \in Ops : p # o => conn'[p] = conn[p],
           OpInv(o)'
    PROVE  IInv'
<1>1. LoopTypes /\ QueueTypes /\ RequestTypes /\ SlotTypes /\ InputTypes /\ OpTypes
  BY InvTypes
<1>2. Covered /\ LiveFinite /\ Drained
  BY DEF IInv, Covered
<1>3. QueueTypes' /\ LiveFinite' /\ Live' = Live
  BY <1>1, <1>2, RunningStep
<1>4. \A p \in Ops :
             /\ Links(Op(p)) \in Nat /\ Links(Cop(p)) \in Nat
             /\ Links(Op(p))' \in Nat /\ Links(Cop(p))' \in Nat
             /\ Links(Op(p))' + Same(Op(p), x) = Links(Op(p))
             /\ Links(Cop(p))' + Same(Cop(p), x) = Links(Cop(p))
  BY DoneRunning
<1>5. Types'
  <2>1. RequestTypes' /\ SlotTypes' /\ InputTypes' /\ LoopTypes'
    BY <1>1 DEF RequestTypes, SlotTypes, InputTypes, inputVars, LoopTypes
  <2>2. OpTypes'
    BY <1>1 DEF OpTypes
  <2> QED
    BY <1>3, <2>1, <2>2 DEF Types
<1>6. Submitting' /\ Drained' /\ Covered'
  BY <1>1, <1>2, <1>3 DEF Submitting, Drained, Covered, LoopTypes, queueVars
<1>7. ASSUME NEW p \in Ops, p # o
      PROVE  SameAt(p) /\ NoNewLinks(p)
  <2>1. SameAt(p)
    BY <1>7 DEF SameAt
  <2>2. Same(Op(p), x) = 0 /\ Same(Cop(p), x) = 0
    BY <1>7, SameNodes
  <2>3. Links(Op(p))' = Links(Op(p)) /\ Links(Cop(p))' = Links(Cop(p))
    BY <1>4, <2>2
  <2> QED
    BY <1>4, <2>1, <2>3 DEF NoNewLinks
<1> QED
  BY <1>5, <1>6, <1>7, OneOpStep

\* refCount_ goes down; the receiver may be called.
CountedDown(o) ==
    /\ refCount'[o] = refCount[o] - 1
    /\ \/ completed'[o] = completed[o] + 1 /\ callback'[o] = "gone"
       \/ completed'[o] = completed[o] /\ callback'[o] = callback[o]
    /\ kind[o] \in SymmetricKinds /\ completed'[o] # completed[o] => refCount[o] = 1

OthersKept(o) ==
    \A p \in Ops : p # o => /\ refCount'[p] = refCount[p]
                            /\ completed'[p] = completed[p]
                            /\ callback'[p] = callback[p]

CompletionTypes ==
    /\ refCount \in [Ops -> 0 .. 2] /\ completed \in [Ops -> 0 .. 1]
    /\ callback \in [Ops -> {"unset", "registered", "ran", "gone"}]

LEMMA CountDownEffects ==
    ASSUME OpTypes, NEW o \in Ops, refCount[o] >= 1, completed[o] = 0,
           \/ CountDown(o)
           \/ kind[o] \notin SymmetricKinds
              /\ \E pending \in BOOLEAN : CountDownUnlessPending(o, pending)
    PROVE  CountedDown(o) /\ OthersKept(o) /\ CompletionTypes'
<1>1. /\ refCount \in [Ops -> 0 .. 2] /\ completed \in [Ops -> 0 .. 1]
      /\ callback \in [Ops -> {"unset", "registered", "ran", "gone"}]
  BY DEF OpTypes
<1>2. refCount' = [refCount EXCEPT ![o] = @ - 1]
  BY DEF CountDown, CountDownUnlessPending
<1>3. \/ Deliver(o) /\ (kind[o] \in SymmetricKinds => refCount[o] = 1)
      \/ UNCHANGED <<completed, callback>>
  BY DEF CountDown, CountDownUnlessPending
<1>4. /\ refCount' \in [Ops -> 0 .. 2] /\ refCount'[o] = refCount[o] - 1
      /\ \A p \in Ops : p # o => refCount'[p] = refCount[p]
  BY <1>1, <1>2
<1>5. CASE Deliver(o) /\ (kind[o] \in SymmetricKinds => refCount[o] = 1)
  <2>1. /\ completed' \in [Ops -> 0 .. 1] /\ completed'[o] = completed[o] + 1
        /\ \A p \in Ops : p # o => completed'[p] = completed[p]
    BY <1>1, <1>5 DEF Deliver
  <2>2. /\ callback' \in [Ops -> {"unset", "registered", "ran", "gone"}]
        /\ callback'[o] = "gone"
        /\ \A p \in Ops : p # o => callback'[p] = callback[p]
    BY <1>1, <1>5 DEF Deliver
  <2> QED
    BY <1>4, <1>5, <2>1, <2>2 DEF CountedDown, OthersKept, CompletionTypes
<1>6. CASE UNCHANGED <<completed, callback>>
  BY <1>1, <1>4, <1>6 DEF CountedDown, OthersKept, CompletionTypes
<1> QED
  BY <1>3, <1>5, <1>6

LEMMA ExecuteCompleteKeeps ==
    ASSUME IInv, NEW o \in Ops, ExecuteComplete(o)
    PROVE  IInv'
<1>1. /\ pc = "run" /\ pc' = back /\ cur = Op(o) /\ completed[o] = 0
      /\ execute[o] = "complete"
      /\ UNCHANGED <<cur, back, queueVars, cq, sqUnflushedCount, requests,
                     inputVars, kind, execute, copExecute, cancelFlag, onPending,
                     request, desc, stop>>
  BY DEF ExecuteComplete
<1>2. OpTypes /\ OpInv(o)
  BY InvTypes DEF IInv
<1>3. /\ Links(Op(o)) \in Nat /\ Links(Cop(o)) \in Nat
      /\ Links(Op(o))' \in Nat /\ Links(Cop(o))' \in Nat
      /\ Links(Op(o))' + 1 = Links(Op(o)) /\ Links(Cop(o))' = Links(Cop(o))
  <2>1. /\ Links(Op(o)) \in Nat /\ Links(Cop(o)) \in Nat
        /\ Links(Op(o))' \in Nat /\ Links(Cop(o))' \in Nat
        /\ Links(Op(o))' + Same(Op(o), Op(o)) = Links(Op(o))
        /\ Links(Cop(o))' + Same(Cop(o), Op(o)) = Links(Cop(o))
    BY <1>1, DoneRunning
  <2>2. Same(Op(o), Op(o)) = 1 /\ Same(Cop(o), Op(o)) = 0
    BY SameNodes
  <2> QED
    BY <2>1, <2>2
<1>4. refCount[o] \in 1 .. 2
  <2>1. refCount[o] \in 0 .. 2
    BY <1>2 DEF OpTypes
  <2>2. OpPending(o) >= 1 /\ OpPending(o) \in Nat /\ CopPending(o) \in Nat
    BY <1>3 DEF OpPending, CopPending
  <2> QED
    BY <1>2, <2>1, <2>2 DEF OpInv, Counted
<1>5. \/ CountDown(o)
      \/ kind[o] \notin SymmetricKinds
         /\ \E pending \in BOOLEAN : CountDownUnlessPending(o, pending)
  <2>1. onPending[o] \in BOOLEAN
    BY <1>2 DEF OpTypes
  <2>2. OnComplete(o)
    BY DEF ExecuteComplete
  <2> QED
    BY <2>1, <2>2, Zenon DEF OnComplete, OnWriteComplete, OnReadComplete,
       OnReadBufferComplete, OnConnect, OnAccept, SymmetricKinds
<1>6. CountedDown(o) /\ OthersKept(o) /\ CompletionTypes'
  BY <1>1, <1>2, <1>4, <1>5, CountDownEffects
<1>10. /\ conn' \in [Ops -> {"none", "open", "given", "disconnected"}]
       /\ \A p \in Ops : p # o => conn'[p] = conn[p]
       /\ \/ kind[o] # "connect" /\ conn'[o] = conn[o]
          \/ /\ kind[o] = "connect"
             /\ conn'[o] = IF conn[o] = "open" /\ refCount[o] = 1 /\ stop[o] = "no"
                           THEN "given" ELSE conn[o]
  <2>1. conn \in [Ops -> {"none", "open", "given", "disconnected"}]
    BY <1>2 DEF OpTypes
  <2>2. OnConnect(o) \/ (kind[o] # "connect" /\ UNCHANGED conn)
    BY DEF ExecuteComplete, OnComplete, OnWriteComplete, OnReadComplete,
           OnReadBufferComplete, OnAccept
  <2> QED
    BY <2>1, <2>2 DEF OnConnect
<1>7. OpInv(o)'
  <2>1. Counted(o) /\ Stopping(o) /\ Settled(o) /\ Closing(o)
    BY <1>2 DEF OpInv
  <2>2. /\ OpPending(o)' + 1 = OpPending(o) /\ CopPending(o)' = CopPending(o)
        /\ OpPending(o)' \in Nat /\ CopPending(o) \in Nat
    BY <1>1, <1>3 DEF OpPending, CopPending
  <2>3. Counted(o)'
    BY <1>4, <1>6, <2>1, <2>2 DEF Counted, CountedDown
  <2>4. Stopping(o)'
    BY <1>1, <1>6, <2>1, <2>2 DEF Stopping, CountedDown
  <2>5. Settled(o)'
    BY <1>1, <1>4, <1>6 DEF Settled, CountedDown
  <2>6. Closing(o)'
    <3>1. conn'[o] # "given" =>
            conn'[o] = conn[o] /\ (conn[o] = "open" /\ refCount[o] = 1 => stop[o] # "no")
      BY <1>10, <2>1 DEF Closing
    <3>2. conn'[o] = "given" /\ conn[o] # "given" =>
            /\ kind[o] = "connect" /\ refCount[o] = 1 /\ stop[o] = "no"
            /\ conn[o] = "open"
      BY <1>10
    <3>3. conn[o] # "given"
      BY <1>4, <2>1 DEF Closing
    <3>4. completed'[o] > 0 => refCount[o] = 1 \/ kind[o] # "connect"
      BY <1>1, <1>6 DEF CountedDown, SymmetricKinds
    <3>5. stop[o] = "no" => Links(Cop(o)) = 0
      BY <1>3, <2>1 DEF Stopping, CopPending
    <3> QED
      BY <1>1, <1>3, <1>4, <1>6, <2>1, <3>1, <3>2, <3>3, <3>4, <3>5 DEF Closing, CountedDown
  <2> QED
    BY <2>3, <2>4, <2>5, <2>6 DEF OpInv
<1>8. /\ refCount' \in [Ops -> 0 .. 2] /\ completed' \in [Ops -> 0 .. 1]
      /\ callback' \in [Ops -> {"unset", "registered", "ran", "gone"}]
  BY <1>6 DEF CompletionTypes
<1>9. \A p \in Ops : p # o => /\ refCount'[p] = refCount[p]
                              /\ completed'[p] = completed[p]
                              /\ callback'[p] = callback[p]
  BY <1>6 DEF OthersKept
<1> QED
  BY <1>1, <1>7, <1>8, <1>9, <1>10, CompletionStep

LEMMA ExecuteStopCompleteKeeps ==
    ASSUME IInv, NEW o \in Ops, ExecuteStopComplete(o)
    PROVE  IInv'
<1>1. /\ pc = "run" /\ pc' = back /\ cur = Cop(o) /\ completed[o] = 0
      /\ copExecute[o] = "stopComplete"
      /\ UNCHANGED <<cur, back, queueVars, cq, sqUnflushedCount, requests,
                     inputVars, kind, execute, copExecute, cancelFlag, onPending,
                     request, desc, conn, stop>>
  BY DEF ExecuteStopComplete
<1>2. OpTypes /\ OpInv(o)
  BY InvTypes DEF IInv
<1>3. /\ Links(Op(o)) \in Nat /\ Links(Cop(o)) \in Nat
      /\ Links(Op(o))' \in Nat /\ Links(Cop(o))' \in Nat
      /\ Links(Op(o))' = Links(Op(o)) /\ Links(Cop(o))' + 1 = Links(Cop(o))
  <2>1. /\ Links(Op(o)) \in Nat /\ Links(Cop(o)) \in Nat
        /\ Links(Op(o))' \in Nat /\ Links(Cop(o))' \in Nat
        /\ Links(Op(o))' + Same(Op(o), Cop(o)) = Links(Op(o))
        /\ Links(Cop(o))' + Same(Cop(o), Cop(o)) = Links(Cop(o))
    BY <1>1, DoneRunning
  <2>2. Same(Op(o), Cop(o)) = 0 /\ Same(Cop(o), Cop(o)) = 1
    BY SameNodes
  <2> QED
    BY <2>1, <2>2
<1>4. /\ Counted(o) /\ Stopping(o) /\ Settled(o) /\ Closing(o)
      /\ refCount[o] \in 0 .. 2
  BY <1>2 DEF OpInv, OpTypes
<1>5. /\ OpPending(o)' = OpPending(o) /\ CopPending(o)' + 1 = CopPending(o)
      /\ OpPending(o) \in Nat /\ CopPending(o)' \in Nat
  BY <1>1, <1>3 DEF OpPending, CopPending
<1>6. /\ refCount[o] \in 1 .. 2 /\ CopPending(o)' = 0
      /\ callback[o] \notin {"unset", "registered"} /\ stop[o] \notin {"no", "enqueue"}
      /\ conn[o] # "given"
  BY <1>3, <1>4, <1>5 DEF Counted, Stopping, Closing, CopPending
<1>11. /\ conn' \in [Ops -> {"none", "open", "given", "disconnected"}]
       /\ \A p \in Ops : p # o => conn'[p] = conn[p]
  BY <1>1, <1>2 DEF OpTypes
<1>7. Closing(o)'
  BY <1>1, <1>4, <1>6 DEF Closing
<1>8. CASE CountDown(o)
  <2>1. CountedDown(o) /\ OthersKept(o) /\ CompletionTypes'
    BY <1>1, <1>2, <1>6, <1>8, CountDownEffects
  <2>2. Counted(o)'
    BY <1>4, <1>5, <1>6, <2>1 DEF Counted, CountedDown
  <2>3. Stopping(o)'
    BY <1>1, <1>6, <2>1 DEF Stopping, CountedDown
  <2>4. Settled(o)'
    BY <1>1, <1>6, <2>1 DEF Settled, CountedDown
  <2>5. OpInv(o)'
    BY <1>7, <2>2, <2>3, <2>4 DEF OpInv
  <2>6. /\ refCount' \in [Ops -> 0 .. 2] /\ completed' \in [Ops -> 0 .. 1]
        /\ callback' \in [Ops -> {"unset", "registered", "ran", "gone"}]
    BY <2>1 DEF CompletionTypes
  <2>7. \A p \in Ops : p # o => /\ refCount'[p] = refCount[p]
                                /\ completed'[p] = completed[p]
                                /\ callback'[p] = callback[p]
    BY <2>1 DEF OthersKept
  <2> QED
    BY <1>1, <1>11, <2>5, <2>6, <2>7, CompletionStep
<1>9. CASE OnStopComplete(o)
  <2>1. refCount' = refCount /\ Deliver(o) /\ kind[o] \notin SymmetricKinds
    BY <1>9 DEF OnStopComplete
  <2>2. /\ completed' \in [Ops -> 0 .. 1]
        /\ \A p \in Ops : p # o => completed'[p] = completed[p]
    BY <1>1, <1>2, <2>1 DEF Deliver, OpTypes
  <2>3. /\ callback' \in [Ops -> {"unset", "registered", "ran", "gone"}]
        /\ callback'[o] = "gone"
        /\ \A p \in Ops : p # o => callback'[p] = callback[p]
    BY <1>2, <2>1 DEF Deliver, OpTypes
  <2>4. refCount' \in [Ops -> 0 .. 2]
    BY <1>2, <2>1 DEF OpTypes
  <2>5. Counted(o)'
    BY <1>4, <1>5, <1>6, <2>1 DEF Counted
  <2>6. Stopping(o)'
    BY <1>1, <1>6, <2>3 DEF Stopping
  <2>7. Settled(o)'
    BY <1>1, <2>1 DEF Settled
  <2>8. OpInv(o)'
    BY <1>7, <2>5, <2>6, <2>7 DEF OpInv
  <2>9. \A p \in Ops : p # o => /\ refCount'[p] = refCount[p]
                                /\ completed'[p] = completed[p]
                                /\ callback'[p] = callback[p]
    BY <2>1, <2>2, <2>3
  <2> QED
    BY <1>1, <1>11, <2>2, <2>3, <2>4, <2>8, <2>9, CompletionStep
<1>10. CountDown(o) \/ OnStopComplete(o)
  BY DEF ExecuteStopComplete, OnStopCompleteRecvBuffer, OnStopCompleteConnect
<1> QED
  BY <1>8, <1>9, <1>10

-----------------------------------------------------------------------------
(***************************************************************************)
(* A request completes.                                                    *)
(***************************************************************************)

\* The requests that are left when r is given back.
LEMMA RequestGone ==
    ASSUME RequestTypes, LiveFinite, NEW r \in Requests, requests[r] # Free,
           requests' = [requests EXCEPT ![r] = Free]
    PROVE  /\ RequestTypes' /\ LiveFinite'
           /\ requests[r].cb \in Ops \cup {Deferred}
           /\ \A p \in Ops : Reporting(p)' =
                               Reporting(p) - (IF requests[r].cb = p THEN 1 ELSE 0)
           /\ Cardinality(Live)' =
                Cardinality(Live) - (IF requests[r].cb \in Ops THEN 1 ELSE 0)
           /\ Cardinality(Live) \in Nat /\ Cardinality(Live)' \in Nat
<1>1. requests \in [Requests -> Callbacks \cup {Free}]
  BY DEF RequestTypes
<1>2. requests[r] \in Callbacks
  BY <1>1
<1>3. requests[r].cb \in Ops \cup {Deferred}
  BY <1>2 DEF Callbacks
<1>4. /\ requests' \in [Requests -> Callbacks \cup {Free}] /\ requests'[r] = Free
      /\ \A q \in Requests : q # r => requests'[q] = requests[q]
  BY <1>1
<1>5. Free.cb = None /\ None \notin Ops /\ Deferred \notin Ops
  BY OpsAssumption DEF Free
<1>6. Live' = Live \ {r} /\ (r \in Live <=> requests[r].cb \in Ops)
  BY <1>4, <1>5 DEF Live
<1>7. ASSUME NEW p \in Ops
      PROVE  LiveRequests(p)' = LiveRequests(p) \ {r} /\ (r \in LiveRequests(p) <=> requests[r].cb = p)
  BY <1>4, <1>5 DEF LiveRequests
<1>8. IsFiniteSet(Live)
  BY DEF LiveFinite
<1>9. /\ IsFiniteSet(Live \ {r})
      /\ Cardinality(Live \ {r}) = Cardinality(Live) - (IF requests[r].cb \in Ops THEN 1 ELSE 0)
  <2>1. /\ IsFiniteSet(Live \ {r})
        /\ Cardinality(Live \ {r}) = IF r \in Live THEN Cardinality(Live) - 1 ELSE Cardinality(Live)
    BY <1>8, FS_RemoveElement
  <2>2. Cardinality(Live) \in Nat
    BY <1>8, FS_CardinalityType
  <2> QED
    BY <1>6, <2>1, <2>2
<1>10. ASSUME NEW p \in Ops
       PROVE  Reporting(p)' = Reporting(p) - (IF requests[r].cb = p THEN 1 ELSE 0)
  <2>1. LiveRequests(p) \subseteq Live
    BY DEF LiveRequests, Live
  <2>2. IsFiniteSet(LiveRequests(p))
    BY <1>8, <2>1, FS_Subset
  <2>3. Cardinality(LiveRequests(p) \ {r}) =
          IF r \in LiveRequests(p) THEN Cardinality(LiveRequests(p)) - 1 ELSE Cardinality(LiveRequests(p))
    BY <2>2, FS_RemoveElement
  <2>4. Cardinality(LiveRequests(p)) \in Nat
    BY <2>2, FS_CardinalityType
  <2>5. Reporting(p)' = Cardinality(LiveRequests(p) \ {r})
    BY <1>7 DEF Reporting
  <2>6. r \in LiveRequests(p) <=> requests[r].cb = p
    BY <1>7
  <2> QED
    BY <2>3, <2>4, <2>5, <2>6 DEF Reporting
<1>11. Cardinality(Live)' = Cardinality(Live \ {r}) /\ LiveFinite'
  BY <1>6, <1>9 DEF LiveFinite
<1>12. Cardinality(Live) \in Nat /\ Cardinality(Live \ {r}) \in Nat
  BY <1>8, <1>9, FS_CardinalityType
<1> QED
  BY <1>3, <1>4, <1>9, <1>10, <1>11, <1>12 DEF RequestTypes

\* One node more where nodes wait for the loop.
Waits(x) ==
    \/ cq' = Append(cq, x)
       /\ UNCHANGED <<pendingIoQueue, pendingRecvIoQueue, pendingAcptIoQueue>>
    \/ pendingIoQueue' = Append(pendingIoQueue, x)
       /\ UNCHANGED <<cq, pendingRecvIoQueue, pendingAcptIoQueue>>
    \/ pendingIoQueue' = <<x>> \o pendingIoQueue
       /\ UNCHANGED <<cq, pendingRecvIoQueue, pendingAcptIoQueue>>
    \/ pendingRecvIoQueue' = <<x>> \o pendingRecvIoQueue
       /\ UNCHANGED <<cq, pendingIoQueue, pendingAcptIoQueue>>
    \/ pendingAcptIoQueue' = <<x>> \o pendingAcptIoQueue
       /\ UNCHANGED <<cq, pendingIoQueue, pendingRecvIoQueue>>

Waiting(n) ==
    Times(pendingIoQueue, n) + Times(pendingRecvIoQueue, n)
      + Times(pendingAcptIoQueue, n) + Times(cq, n)

LEMMA QueuedDelta ==
    ASSUME QueueTypes, QueueTypes', UNCHANGED <<batch, localQueue, remoteQueue>>, NEW n
    PROVE  /\ Queued(n)' + Waiting(n) = Queued(n) + Waiting(n)'
           /\ Waiting(n) \in Nat /\ Waiting(n)' \in Nat
           /\ Queued(n) \in Nat /\ Queued(n)' \in Nat
<1>1. /\ Times(batch, n) \in Nat /\ Times(localQueue, n) \in Nat
      /\ Times(remoteQueue, n) \in Nat /\ Times(pendingIoQueue, n) \in Nat
      /\ Times(pendingRecvIoQueue, n) \in Nat
      /\ Times(pendingAcptIoQueue, n) \in Nat /\ Times(cq, n) \in Nat
  BY QueueNumbers
<1>2. /\ Times(pendingIoQueue', n) \in Nat /\ Times(pendingRecvIoQueue', n) \in Nat
      /\ Times(pendingAcptIoQueue', n) \in Nat /\ Times(cq', n) \in Nat
  BY TimesType DEF QueueTypes
<1>3. /\ Waiting(n) = Times(pendingIoQueue, n) + Times(pendingRecvIoQueue, n)
                        + Times(pendingAcptIoQueue, n) + Times(cq, n)
      /\ Waiting(n)' = Times(pendingIoQueue', n) + Times(pendingRecvIoQueue', n)
                        + Times(pendingAcptIoQueue', n) + Times(cq', n)
  BY DEF Waiting
<1>4. /\ Queued(n) = Times(batch, n) + Times(localQueue, n) + Times(remoteQueue, n)
           + Times(pendingIoQueue, n) + Times(pendingRecvIoQueue, n)
           + Times(pendingAcptIoQueue, n) + Times(cq, n)
      /\ Queued(n)' = Times(batch, n) + Times(localQueue, n) + Times(remoteQueue, n)
           + Times(pendingIoQueue', n) + Times(pendingRecvIoQueue', n)
           + Times(pendingAcptIoQueue', n) + Times(cq', n)
  BY DEF Queued
<1> QED
  BY <1>1, <1>2, <1>3, <1>4

LEMMA WaitsFacts ==
    ASSUME QueueTypes, NEW x \in Nodes, Waits(x),
           UNCHANGED <<batch, localQueue, remoteQueue>>
    PROVE  QueueTypes' /\ \A n : Queued(n)' = Queued(n) + Same(n, x)
<1> USE DEF QueueTypes
<1>1. /\ Append(cq, x) \in Seq(Nodes) /\ Append(pendingIoQueue, x) \in Seq(Nodes)
      /\ <<x>> \o pendingIoQueue \in Seq(Nodes)
      /\ <<x>> \o pendingRecvIoQueue \in Seq(Nodes)
      /\ <<x>> \o pendingAcptIoQueue \in Seq(Nodes)
  OBVIOUS
<1>2. QueueTypes'
  BY <1>1 DEF Waits
<1>3. ASSUME NEW n
      PROVE  Queued(n)' = Queued(n) + Same(n, x)
  <2>1. /\ Times(Append(cq, x), n) = Times(cq, n) + Same(n, x)
        /\ Times(Append(pendingIoQueue, x), n) = Times(pendingIoQueue, n) + Same(n, x)
    BY TimesAppend
  <2>2. /\ Times(<<x>> \o pendingIoQueue, n) = Times(pendingIoQueue, n) + Same(n, x)
        /\ Times(<<x>> \o pendingRecvIoQueue, n) = Times(pendingRecvIoQueue, n) + Same(n, x)
        /\ Times(<<x>> \o pendingAcptIoQueue, n) = Times(pendingAcptIoQueue, n) + Same(n, x)
    BY TimesCons
  <2> HIDE DEF QueueTypes
  <2>3. /\ Times(batch, n) \in Nat /\ Times(localQueue, n) \in Nat
        /\ Times(remoteQueue, n) \in Nat /\ Times(pendingIoQueue, n) \in Nat
        /\ Times(pendingRecvIoQueue, n) \in Nat
        /\ Times(pendingAcptIoQueue, n) \in Nat /\ Times(cq, n) \in Nat
    BY QueueNumbers
  <2>4. Same(n, x) \in 0 .. 1
    BY SameType
  <2>5. Waiting(n)' = Times(pendingIoQueue', n) + Times(pendingRecvIoQueue', n)
                        + Times(pendingAcptIoQueue', n) + Times(cq', n)
    BY DEF Waiting
  <2>6. Waiting(n)' = Waiting(n) + Same(n, x)
    <3>1. CASE cq' = Append(cq, x)
               /\ UNCHANGED <<pendingIoQueue, pendingRecvIoQueue, pendingAcptIoQueue>>
      <4>1. /\ Times(cq', n) = Times(cq, n) + Same(n, x)
            /\ Times(pendingIoQueue', n) = Times(pendingIoQueue, n)
            /\ Times(pendingRecvIoQueue', n) = Times(pendingRecvIoQueue, n)
            /\ Times(pendingAcptIoQueue', n) = Times(pendingAcptIoQueue, n)
        BY <2>1, <3>1
      <4> QED
        BY <2>3, <2>4, <2>5, <4>1 DEF Waiting
    <3>2. CASE /\ pendingIoQueue' = Append(pendingIoQueue, x)
                  \/ pendingIoQueue' = <<x>> \o pendingIoQueue
               /\ UNCHANGED <<cq, pendingRecvIoQueue, pendingAcptIoQueue>>
      <4>1. /\ Times(pendingIoQueue', n) = Times(pendingIoQueue, n) + Same(n, x)
            /\ Times(cq', n) = Times(cq, n)
            /\ Times(pendingRecvIoQueue', n) = Times(pendingRecvIoQueue, n)
            /\ Times(pendingAcptIoQueue', n) = Times(pendingAcptIoQueue, n)
        BY <2>1, <2>2, <3>2
      <4> QED
        BY <2>3, <2>4, <2>5, <4>1 DEF Waiting
    <3>3. CASE pendingRecvIoQueue' = <<x>> \o pendingRecvIoQueue
               /\ UNCHANGED <<cq, pendingIoQueue, pendingAcptIoQueue>>
      <4>1. /\ Times(pendingRecvIoQueue', n) = Times(pendingRecvIoQueue, n) + Same(n, x)
            /\ Times(cq', n) = Times(cq, n)
            /\ Times(pendingIoQueue', n) = Times(pendingIoQueue, n)
            /\ Times(pendingAcptIoQueue', n) = Times(pendingAcptIoQueue, n)
        BY <2>2, <3>3
      <4> QED
        BY <2>3, <2>4, <2>5, <4>1 DEF Waiting
    <3>4. CASE pendingAcptIoQueue' = <<x>> \o pendingAcptIoQueue
               /\ UNCHANGED <<cq, pendingIoQueue, pendingRecvIoQueue>>
      <4>1. /\ Times(pendingAcptIoQueue', n) = Times(pendingAcptIoQueue, n) + Same(n, x)
            /\ Times(cq', n) = Times(cq, n)
            /\ Times(pendingIoQueue', n) = Times(pendingIoQueue, n)
            /\ Times(pendingRecvIoQueue', n) = Times(pendingRecvIoQueue, n)
        BY <2>2, <3>4
      <4> QED
        BY <2>3, <2>4, <2>5, <4>1 DEF Waiting
    <3> QED
      BY <3>1, <3>2, <3>3, <3>4 DEF Waits
  <2>7. /\ Queued(n)' + Waiting(n) = Queued(n) + Waiting(n)'
        /\ Waiting(n) \in Nat /\ Queued(n) \in Nat /\ Queued(n)' \in Nat
    BY <1>2, QueuedDelta
  <2> QED
    BY <2>4, <2>6, <2>7
<1> QED
  BY <1>2, <1>3

LEMMA RequestCompletesKeeps ==
    ASSUME IInv, NEW r \in Requests, RequestCompletes(r)
    PROVE  IInv'
<1> DEFINE o == requests[r].cb
<1>1. /\ pc = "progress" /\ requests[r] # Free
      /\ requests' = [requests EXCEPT ![r] = Free]
      /\ UNCHANGED <<cur, back, batch, localQueue, remoteQueue, pendingRecvIoQueue,
                     pendingAcptIoQueue, inputVars, opVars, stop>>
  BY DEF RequestCompletes
<1>2. LoopTypes /\ QueueTypes /\ RequestTypes /\ SlotTypes /\ InputTypes /\ OpTypes
  BY InvTypes
<1>3. LiveFinite /\ Cardinality(Live) <= sqUnflushedCount /\ Drained
  BY DEF IInv, Covered
<1>4. /\ RequestTypes' /\ LiveFinite' /\ o \in Ops \cup {Deferred}
      /\ \A p \in Ops : Reporting(p)' = Reporting(p) - (IF o = p THEN 1 ELSE 0)
      /\ Cardinality(Live)' = Cardinality(Live) - (IF o \in Ops THEN 1 ELSE 0)
      /\ Cardinality(Live) \in Nat /\ Cardinality(Live)' \in Nat
  BY <1>1, <1>2, <1>3, RequestGone
<1>5. Deferred \notin Ops
  BY OpsAssumption
<1>6. \/ /\ pc' \in {pc, "crashed"}
         /\ UNCHANGED <<cq, sqUnflushedCount, pendingIoQueue>>
      \/ /\ o # Deferred /\ pc' = pc
         /\ sqUnflushedCount' = sqUnflushedCount - 1
         /\ Waits(Op(o))
  <2>1. \/ pc' \in {pc, "crashed"} /\ UNCHANGED <<cq, sqUnflushedCount, pendingIoQueue>>
        \/ o # Deferred /\ cq' = Append(cq, Op(o))
           /\ sqUnflushedCount' = sqUnflushedCount - 1 /\ UNCHANGED <<pc, pendingIoQueue>>
        \/ o # Deferred /\ pendingIoQueue' = <<Op(o)>> \o pendingIoQueue
           /\ sqUnflushedCount' = sqUnflushedCount - 1 /\ UNCHANGED <<pc, cq>>
    BY DEF RequestCompletes
  <2> HIDE DEF o
  <2> QED
    BY <1>1, <2>1 DEF Waits
<1> HIDE DEF o
<1>7. /\ QueueTypes'
      /\ \/ sqUnflushedCount' = sqUnflushedCount /\ \A n : Queued(n)' = Queued(n)
         \/ /\ o \in Ops /\ sqUnflushedCount' = sqUnflushedCount - 1
            /\ \A n : Queued(n)' = Queued(n) + Same(n, Op(o))
  <2>1. CASE UNCHANGED <<cq, sqUnflushedCount, pendingIoQueue>>
    BY <1>1, <1>2, <2>1 DEF QueueTypes, Queued
  <2>2. CASE o # Deferred /\ sqUnflushedCount' = sqUnflushedCount - 1 /\ Waits(Op(o))
    <3>1. o \in Ops /\ Op(o) \in Nodes
      BY <1>4, <2>2, NodeFacts
    <3>2. QueueTypes' /\ \A n : Queued(n)' = Queued(n) + Same(n, Op(o))
      BY <1>1, <1>2, <2>2, <3>1, WaitsFacts
    <3> QED
      BY <2>2, <3>1, <3>2
  <2> QED
    BY <1>6, <2>1, <2>2
<1>8. Covered' /\ SlotTypes'
  <2>1. sqUnflushedCount \in 0 .. CqEntryCount
    BY <1>2 DEF SlotTypes
  <2>2. /\ sqUnflushedCount' \in 0 .. CqEntryCount
        /\ Cardinality(Live)' <= sqUnflushedCount'
    <3>1. CASE sqUnflushedCount' = sqUnflushedCount
      BY <1>3, <1>4, <2>1, <3>1
    <3>2. CASE o \in Ops /\ sqUnflushedCount' = sqUnflushedCount - 1
      BY <1>3, <1>4, <2>1, <3>2, CqEntryCountAssumption
    <3> QED
      BY <1>7, <3>1, <3>2
  <2> QED
    BY <1>4, <2>2 DEF Covered, SlotTypes
<1>9. pc' \in {"progress", "crashed"}
  BY <1>1, <1>6
<1>10. TypeOK'
  <2>1. LoopTypes' /\ InputTypes' /\ OpTypes'
    BY <1>1, <1>2, <1>9 DEF LoopTypes, InputTypes, OpTypes, opVars, inputVars
  <2>2. Types'
    BY <1>4, <1>7, <1>8, <2>1 DEF Types
  <2> QED
    BY <2>2, TypeSplit, PTL
<1>11. Submitting' /\ Drained'
  BY <1>1, <1>3, <1>9 DEF Submitting, Drained
<1>12. ASSUME NEW p \in Ops
       PROVE  OpInv(p)'
  <2>1. SameAt(p)
    BY <1>1 DEF SameAt, opVars
  <2>2. /\ Queued(Op(p)) \in Nat /\ Queued(Cop(p)) \in Nat /\ Reporting(p) \in Nat
        /\ Queued(Op(p))' \in Nat /\ Queued(Cop(p))' \in Nat /\ Reporting(p)' \in Nat
    BY <1>2, <1>3, <1>4, <1>7, NumbersStep
  <2>3. \A n : RunningOnce(n) = 0 /\ RunningOnce(n)' = 0
    BY <1>1, <1>9 DEF RunningOnce, Running
  <2>4. Reporting(p)' = Reporting(p) - (IF o = p THEN 1 ELSE 0)
    BY <1>4
  <2>5. /\ Queued(Cop(p))' = Queued(Cop(p))
        /\ Queued(Op(p))' + Reporting(p)' <= Queued(Op(p)) + Reporting(p)
    <3>1. CASE \A n : Queued(n)' = Queued(n)
      BY <2>2, <2>4, <3>1
    <3>2. CASE o \in Ops /\ \A n : Queued(n)' = Queued(n) + Same(n, Op(o))
      <4>1. /\ Same(Op(p), Op(o)) = IF p = o THEN 1 ELSE 0
            /\ Same(Cop(p), Op(o)) = 0
        BY <3>2, SameNodes
      <4>2. /\ Queued(Op(p))' = Queued(Op(p)) + Same(Op(p), Op(o))
            /\ Queued(Cop(p))' = Queued(Cop(p)) + Same(Cop(p), Op(o))
        BY <3>2
      <4> QED
        BY <2>2, <2>4, <4>1, <4>2
    <3> QED
      BY <1>7, <3>1, <3>2
  <2>6. NoNewLinks(p)
    <3>1. /\ Queued(Op(p))' + Reporting(p)' + RunningOnce(Op(p))'
               <= Queued(Op(p)) + Reporting(p) + RunningOnce(Op(p))
          /\ Queued(Cop(p))' + RunningOnce(Cop(p))' = Queued(Cop(p)) + RunningOnce(Cop(p))
      BY <2>2, <2>3, <2>5
    <3> QED
      BY <1>2, <1>3, <1>4, <1>7, <3>1, FewerLinks
  <2>7. OpInv(p)
    BY DEF IInv
  <2> QED
    BY <1>2, <2>1, <2>6, <2>7, OpKept
<1> QED
  BY <1>8, <1>10, <1>11, <1>12 DEF IInv

-----------------------------------------------------------------------------
(***************************************************************************)
(* request_stop_local.                                                     *)
(***************************************************************************)

\* No request reports that did not, and none to another operation.
LEMMA FewerRequests ==
    ASSUME LiveFinite, Live' \subseteq Live,
           \A p \in Ops : LiveRequests(p)' \subseteq LiveRequests(p)
    PROVE  /\ LiveFinite'
           /\ Cardinality(Live)' <= Cardinality(Live)
           /\ Cardinality(Live)' \in Nat /\ Cardinality(Live) \in Nat
           /\ \A p \in Ops : Reporting(p)' <= Reporting(p)
<1>1. IsFiniteSet(Live)
  BY DEF LiveFinite
<1>2. /\ IsFiniteSet(Live') /\ Cardinality(Live') <= Cardinality(Live)
      /\ Cardinality(Live') \in Nat /\ Cardinality(Live) \in Nat
  BY <1>1, FS_Subset, FS_CardinalityType
<1>3. ASSUME NEW p \in Ops
      PROVE  Reporting(p)' <= Reporting(p)
  <2>1. LiveRequests(p) \subseteq Live
    BY DEF LiveRequests, Live
  <2>2. IsFiniteSet(LiveRequests(p))
    BY <1>1, <2>1, FS_Subset
  <2>3. PICK A : A = LiveRequests(p)'
    OBVIOUS
  <2>4. A \subseteq LiveRequests(p)
    BY <2>3
  <2>5. Cardinality(A) <= Cardinality(LiveRequests(p))
    BY <2>2, <2>4, FS_Subset
  <2> QED
    BY <2>3, <2>5 DEF Reporting
<1> QED
  BY <1>2, <1>3 DEF LiveFinite

LEMMA PostCopFacts ==
    ASSUME OpTypes, NEW o \in Ops, PostCop(o)
    PROVE  /\ \/ CanSubmitIo /\ cq' = Append(cq, Cop(o)) /\ pendingIoQueue' = pendingIoQueue
                 /\ copExecute'[o] = "stopComplete"
              \/ ~CanSubmitIo /\ pendingIoQueue' = Append(pendingIoQueue, Cop(o)) /\ cq' = cq
                 /\ copExecute'[o] = "stopLocal"
           /\ copExecute' \in [Ops -> {"unset", "stopLocal", "stopComplete"}]
           /\ \A p \in Ops : p # o => copExecute'[p] = copExecute[p]
<1>1. copExecute \in [Ops -> {"unset", "stopLocal", "stopComplete"}]
  BY DEF OpTypes
<1> QED
  BY <1>1 DEF PostCop

\* The operation is taken out of the queue in which it was parked.
LEMMA ErasedAndPosted ==
    ASSUME QueueTypes, NEW o \in Ops, cq' = Append(cq, Cop(o)),
           \/ pendingRecvIoQueue' \in Erased(pendingRecvIoQueue, Op(o))
              /\ UNCHANGED pendingAcptIoQueue
           \/ pendingAcptIoQueue' \in Erased(pendingAcptIoQueue, Op(o))
              /\ UNCHANGED pendingRecvIoQueue,
           UNCHANGED <<batch, localQueue, remoteQueue, pendingIoQueue>>
    PROVE  /\ QueueTypes'
           /\ \A n : n # Op(o) => Queued(n)' = Queued(n) + Same(n, Cop(o))
           /\ Queued(Op(o))' <= Queued(Op(o))
<1>1. Cop(o) \in Nodes
  BY NodeFacts
<1>2. /\ cq' \in Seq(Nodes)
      /\ \A n : Times(cq', n) = Times(cq, n) + Same(n, Cop(o))
  <2>1. cq' \in Seq(Nodes)
    BY <1>1 DEF QueueTypes
  <2>2. \A n : Times(Append(cq, Cop(o)), n) = Times(cq, n) + Same(n, Cop(o))
    BY <1>1, TimesAppend DEF QueueTypes
  <2> QED
    BY <2>1, <2>2
<1>3. /\ pendingRecvIoQueue' \in Seq(Nodes)
      /\ \A n : Times(pendingRecvIoQueue', n) <= Times(pendingRecvIoQueue, n)
      /\ \A n : n # Op(o) => Times(pendingRecvIoQueue', n) = Times(pendingRecvIoQueue, n)
  <2>1. pendingRecvIoQueue \in Seq(Nodes) /\ \A n : Times(pendingRecvIoQueue, n) \in Nat
    BY QueueNumbers DEF QueueTypes
  <2>2. CASE UNCHANGED pendingRecvIoQueue
    BY <2>1, <2>2
  <2>3. CASE pendingRecvIoQueue' \in Erased(pendingRecvIoQueue, Op(o))
    <3>1. PICK t \in Erased(pendingRecvIoQueue, Op(o)) : pendingRecvIoQueue' = t
      BY <2>3
    <3>2. t \in Seq(Nodes) /\ \A n : Times(t, n) = IF n = Op(o) THEN 0 ELSE Times(pendingRecvIoQueue, n)
      BY <2>1, ErasedFacts
    <3> QED
      BY <2>1, <3>1, <3>2
  <2> QED
    BY <2>2, <2>3
<1>4. /\ pendingAcptIoQueue' \in Seq(Nodes)
      /\ \A n : Times(pendingAcptIoQueue', n) <= Times(pendingAcptIoQueue, n)
      /\ \A n : n # Op(o) => Times(pendingAcptIoQueue', n) = Times(pendingAcptIoQueue, n)
  <2>1. pendingAcptIoQueue \in Seq(Nodes) /\ \A n : Times(pendingAcptIoQueue, n) \in Nat
    BY QueueNumbers DEF QueueTypes
  <2>2. CASE UNCHANGED pendingAcptIoQueue
    BY <2>1, <2>2
  <2>3. CASE pendingAcptIoQueue' \in Erased(pendingAcptIoQueue, Op(o))
    <3>1. PICK t \in Erased(pendingAcptIoQueue, Op(o)) : pendingAcptIoQueue' = t
      BY <2>3
    <3>2. t \in Seq(Nodes) /\ \A n : Times(t, n) = IF n = Op(o) THEN 0 ELSE Times(pendingAcptIoQueue, n)
      BY <2>1, ErasedFacts
    <3> QED
      BY <2>1, <3>1, <3>2
  <2> QED
    BY <2>2, <2>3
<1>5. QueueTypes'
  BY <1>2, <1>3, <1>4 DEF QueueTypes
<1>6. ASSUME NEW n
      PROVE  /\ n # Op(o) => Queued(n)' = Queued(n) + Same(n, Cop(o))
             /\ Queued(n)' <= Queued(n) + Same(n, Cop(o))
  <2>1. /\ Queued(n)' + Waiting(n) = Queued(n) + Waiting(n)'
        /\ Waiting(n) \in Nat /\ Waiting(n)' \in Nat
        /\ Queued(n) \in Nat /\ Queued(n)' \in Nat
    BY <1>5, QueuedDelta
  <2>2. /\ Times(pendingIoQueue, n) \in Nat /\ Times(pendingRecvIoQueue, n) \in Nat
        /\ Times(pendingAcptIoQueue, n) \in Nat /\ Times(cq, n) \in Nat
    BY QueueNumbers
  <2>3. Times(pendingRecvIoQueue', n) \in Nat /\ Times(pendingAcptIoQueue', n) \in Nat
    BY <1>3, <1>4, TimesType
  <2>4. Same(n, Cop(o)) \in 0 .. 1
    BY SameType
  <2>5. Waiting(n)' = Times(pendingIoQueue, n) + Times(pendingRecvIoQueue', n)
                        + Times(pendingAcptIoQueue', n) + Times(cq', n)
    BY DEF Waiting
  <2>6. /\ Times(cq', n) = Times(cq, n) + Same(n, Cop(o))
        /\ Times(pendingRecvIoQueue', n) <= Times(pendingRecvIoQueue, n)
        /\ Times(pendingAcptIoQueue', n) <= Times(pendingAcptIoQueue, n)
        /\ n # Op(o) => /\ Times(pendingRecvIoQueue', n) = Times(pendingRecvIoQueue, n)
                        /\ Times(pendingAcptIoQueue', n) = Times(pendingAcptIoQueue, n)
    BY <1>2, <1>3, <1>4
  <2>7. /\ Waiting(n)' <= Waiting(n) + Same(n, Cop(o))
        /\ n # Op(o) => Waiting(n)' = Waiting(n) + Same(n, Cop(o))
    BY <2>2, <2>3, <2>4, <2>5, <2>6 DEF Waiting
  <2> QED
    BY <2>1, <2>4, <2>7
<1>7. Same(Op(o), Cop(o)) = 0
  BY SameNodes
<1>8. Queued(Op(o))' <= Queued(Op(o)) + Same(Op(o), Cop(o)) /\ Queued(Op(o)) \in Nat
  BY <1>6, QueuedType
<1> QED
  BY <1>5, <1>6, <1>7, <1>8

\* What request_stop_local does, whichever the sender.
StopLocalEffects(o) ==
    /\ QueueTypes' /\ RequestTypes' /\ LiveFinite'
    /\ Cardinality(Live)' <= Cardinality(Live)
    /\ Cardinality(Live)' \in Nat /\ Cardinality(Live) \in Nat
    /\ \A p \in Ops : /\ Reporting(p)' <= Reporting(p)
                      /\ Queued(Op(p))' <= Queued(Op(p))
                      /\ Queued(Cop(p))' = Queued(Cop(p)) + Same(Cop(p), Cop(o))
    /\ copExecute' \in [Ops -> {"unset", "stopLocal", "stopComplete"}]
    /\ desc' \in [Ops -> BOOLEAN]
    /\ conn' \in [Ops -> {"none", "open", "given", "disconnected"}]
    /\ \A p \in Ops : p # o => copExecute'[p] = copExecute[p] /\ conn'[p] = conn[p]
    /\ kind[o] # "connect" => conn' = conn
    /\ kind[o] = "connect" => conn'[o] # "open" \/ copExecute'[o] = "stopLocal"
    /\ conn'[o] \in {conn[o], "disconnected"}

LEMMA StopLocalHas ==
    ASSUME QueueTypes, RequestTypes, OpTypes, LiveFinite, NEW o \in Ops,
           RequestStopLocal(o), UNCHANGED <<batch, localQueue, remoteQueue>>
    PROVE  StopLocalEffects(o)
<1>1. PostCop(o)
  BY DEF RequestStopLocal, RequestStopLocalSend, RequestStopLocalRecv,
         RequestStopLocalRecvHeader, RequestStopLocalRecvBuffer,
         RequestStopLocalConnect, RequestStopLocalAccept
<1>2. /\ \/ CanSubmitIo /\ cq' = Append(cq, Cop(o)) /\ pendingIoQueue' = pendingIoQueue
            /\ copExecute'[o] = "stopComplete"
         \/ ~CanSubmitIo /\ pendingIoQueue' = Append(pendingIoQueue, Cop(o)) /\ cq' = cq
            /\ copExecute'[o] = "stopLocal"
      /\ copExecute' \in [Ops -> {"unset", "stopLocal", "stopComplete"}]
      /\ \A p \in Ops : p # o => copExecute'[p] = copExecute[p]
  BY <1>1, PostCopFacts
<1>3. /\ QueueTypes'
      /\ \A p \in Ops : /\ Queued(Op(p))' <= Queued(Op(p))
                        /\ Queued(Cop(p))' = Queued(Cop(p)) + Same(Cop(p), Cop(o))
  <2>1. CASE UNCHANGED <<pendingRecvIoQueue, pendingAcptIoQueue>>
    <3>1. Waits(Cop(o)) /\ Cop(o) \in Nodes
      BY <1>2, <2>1, NodeFacts DEF Waits
    <3>2. QueueTypes' /\ \A n : Queued(n)' = Queued(n) + Same(n, Cop(o))
      BY <3>1, WaitsFacts
    <3>3. \A p \in Ops : Same(Op(p), Cop(o)) = 0 /\ Queued(Op(p)) \in Nat
      BY SameNodes, QueuedType
    <3>4. \A p \in Ops : Queued(Op(p))' <= Queued(Op(p))
      BY <3>2, <3>3
    <3> QED
      BY <3>2, <3>4
  <2>2. CASE ~UNCHANGED <<pendingRecvIoQueue, pendingAcptIoQueue>>
    <3>1. /\ CanSubmitIo
          /\ \/ pendingRecvIoQueue' \in Erased(pendingRecvIoQueue, Op(o))
                /\ UNCHANGED pendingAcptIoQueue
             \/ pendingAcptIoQueue' \in Erased(pendingAcptIoQueue, Op(o))
                /\ UNCHANGED pendingRecvIoQueue
      BY <2>2 DEF RequestStopLocal, RequestStopLocalSend, RequestStopLocalRecv,
             RequestStopLocalRecvHeader, RequestStopLocalRecvBuffer,
             RequestStopLocalConnect, RequestStopLocalAccept
    <3>2. /\ QueueTypes'
          /\ \A n : n # Op(o) => Queued(n)' = Queued(n) + Same(n, Cop(o))
          /\ Queued(Op(o))' <= Queued(Op(o))
      BY <1>2, <3>1, ErasedAndPosted
    <3>3. \A p \in Ops : /\ Same(Op(p), Cop(o)) = 0 /\ Queued(Op(p)) \in Nat
                         /\ Cop(p) # Op(o)
                         /\ Op(p) = Op(o) => p = o
      BY SameNodes, QueuedType, NodeFacts
    <3>4. \A p \in Ops : Queued(Op(p))' <= Queued(Op(p))
      <4> TAKE p \in Ops
      <4>1. CASE p = o
        BY <3>2, <4>1
      <4>2. CASE p # o
        <5>1. Queued(Op(p))' = Queued(Op(p)) + Same(Op(p), Cop(o))
          BY <3>2, <3>3, <4>2
        <5> QED
          BY <3>3, <5>1
      <4> QED
        BY <4>1, <4>2
    <3>5. \A p \in Ops : Queued(Cop(p))' = Queued(Cop(p)) + Same(Cop(p), Cop(o))
      BY <3>2, <3>3
    <3> QED
      BY <3>2, <3>4, <3>5
  <2> QED
    BY <2>1, <2>2
<1>4. /\ RequestTypes' /\ LiveFinite'
      /\ Cardinality(Live)' <= Cardinality(Live)
      /\ Cardinality(Live)' \in Nat /\ Cardinality(Live) \in Nat
      /\ \A p \in Ops : Reporting(p)' <= Reporting(p)
  <2>1. RequestTypes' /\ Live' \subseteq Live /\ \A p \in Ops : LiveRequests(p)' \subseteq LiveRequests(p)
    <3>1. CASE UNCHANGED requests
      BY <3>1 DEF RequestTypes, Live, LiveRequests
    <3>2. CASE requests' # requests
      <4>1. PICK r : r = request[o]
        OBVIOUS
      <4>2. r \in Requests /\ requests[r] # Free /\ requests' = [requests EXCEPT ![r].cb = Deferred]
        <5>1. r # None /\ requests[r] # Free /\ requests' = [requests EXCEPT ![r].cb = Deferred]
          BY <3>2, <4>1 DEF RequestStopLocal, RequestStopLocalSend, RequestStopLocalRecv,
                 RequestStopLocalRecvHeader, RequestStopLocalRecvBuffer,
                 RequestStopLocalConnect, RequestStopLocalAccept
        <5>2. r \in Requests \cup {None}
          BY <4>1 DEF OpTypes
        <5> QED
          BY <5>1, <5>2
      <4>3. requests \in [Requests -> Callbacks \cup {Free}] /\ requests[r] \in Callbacks
        BY <4>2 DEF RequestTypes
      <4>4. PICK x : x = [requests[r] EXCEPT !.cb = Deferred]
        OBVIOUS
      <4>5. x \in Callbacks /\ x.cb = Deferred
        BY <4>3, <4>4 DEF Callbacks
      <4>6. requests' = [requests EXCEPT ![r] = x]
        BY <4>2, <4>3, <4>4
      <4>7. /\ requests' \in [Requests -> Callbacks \cup {Free}] /\ requests'[r] = x
            /\ \A q \in Requests : q # r => requests'[q] = requests[q]
        BY <4>2, <4>3, <4>5, <4>6
      <4>8. Deferred \notin Ops
        BY OpsAssumption
      <4> QED
        BY <4>5, <4>7, <4>8 DEF RequestTypes, Live, LiveRequests
    <3> QED
      BY <3>1, <3>2
  <2> QED
    BY <2>1, FewerRequests
<1>5. desc' \in [Ops -> BOOLEAN]
  <2>1. desc \in [Ops -> BOOLEAN]
    BY DEF OpTypes
  <2>2. desc' = desc \/ desc' = [desc EXCEPT ![o] = desc[o] /\ ~CanSubmitIo]
    BY DEF RequestStopLocal, RequestStopLocalSend, RequestStopLocalRecv,
           RequestStopLocalRecvHeader, RequestStopLocalRecvBuffer,
           RequestStopLocalConnect, RequestStopLocalAccept
  <2> QED
    BY <2>1, <2>2
<1>6. /\ conn' \in [Ops -> {"none", "open", "given", "disconnected"}]
      /\ \A p \in Ops : p # o => conn'[p] = conn[p]
      /\ kind[o] # "connect" => conn' = conn
      /\ kind[o] = "connect" => conn'[o] # "open" \/ ~CanSubmitIo
      /\ conn'[o] \in {conn[o], "disconnected"}
  <2>1. conn \in [Ops -> {"none", "open", "given", "disconnected"}]
    BY DEF OpTypes
  <2>2. CASE kind[o] = "connect"
    <3>1. conn' = [conn EXCEPT ![o] = IF @ = "open" /\ CanSubmitIo THEN "disconnected" ELSE @]
      BY <2>2 DEF RequestStopLocal, RequestStopLocalSend, RequestStopLocalRecv,
             RequestStopLocalRecvHeader, RequestStopLocalRecvBuffer,
             RequestStopLocalConnect, RequestStopLocalAccept
    <3> QED
      BY <2>1, <2>2, <3>1
  <2>3. CASE kind[o] # "connect"
    <3>1. conn' = conn
      BY <2>3 DEF RequestStopLocal, RequestStopLocalSend, RequestStopLocalRecv,
             RequestStopLocalRecvHeader, RequestStopLocalRecvBuffer,
             RequestStopLocalConnect, RequestStopLocalAccept
    <3> QED
      BY <2>1, <2>3, <3>1
  <2> QED
    BY <2>2, <2>3
<1> QED
  BY <1>2, <1>3, <1>4, <1>5, <1>6 DEF StopLocalEffects

LEMMA StoppedLinks ==
    ASSUME QueueTypes, LiveFinite, NEW o \in Ops, StopLocalEffects(o)
    PROVE  \A p \in Ops :
             /\ Links(Op(p)) \in Nat /\ Links(Cop(p)) \in Nat
             /\ Links(Op(p))' \in Nat /\ Links(Cop(p))' \in Nat
             /\ RunningOnce(Op(p)) \in 0 .. 1 /\ RunningOnce(Cop(p)) \in 0 .. 1
             /\ RunningOnce(Op(p))' \in 0 .. 1 /\ RunningOnce(Cop(p))' \in 0 .. 1
             /\ Links(Op(p))' + RunningOnce(Op(p)) <= Links(Op(p)) + RunningOnce(Op(p))'
             /\ Links(Cop(p))' + RunningOnce(Cop(p))
                  = Links(Cop(p)) + RunningOnce(Cop(p))' + Same(Cop(p), Cop(o))
<1> TAKE p \in Ops
<1>1. QueueTypes' /\ LiveFinite'
  BY DEF StopLocalEffects
<1>2. /\ Links(Op(p)) = Queued(Op(p)) + Reporting(p) + RunningOnce(Op(p))
      /\ Links(Cop(p)) = Queued(Cop(p)) + RunningOnce(Cop(p))
      /\ Links(Op(p)) \in Nat /\ Links(Cop(p)) \in Nat
      /\ Links(Op(p))' = Queued(Op(p))' + Reporting(p)' + RunningOnce(Op(p))'
      /\ Links(Cop(p))' = Queued(Cop(p))' + RunningOnce(Cop(p))'
      /\ Links(Op(p))' \in Nat /\ Links(Cop(p))' \in Nat
  BY <1>1, LinksStep
<1>3. /\ Queued(Op(p)) \in Nat /\ Queued(Cop(p)) \in Nat /\ Reporting(p) \in Nat
      /\ Queued(Op(p))' \in Nat /\ Queued(Cop(p))' \in Nat /\ Reporting(p)' \in Nat
      /\ RunningOnce(Op(p)) \in 0 .. 1 /\ RunningOnce(Cop(p)) \in 0 .. 1
      /\ RunningOnce(Op(p))' \in 0 .. 1 /\ RunningOnce(Cop(p))' \in 0 .. 1
  BY <1>1, NumbersStep
<1>4. /\ Reporting(p)' <= Reporting(p) /\ Queued(Op(p))' <= Queued(Op(p))
      /\ Queued(Cop(p))' = Queued(Cop(p)) + Same(Cop(p), Cop(o))
  BY DEF StopLocalEffects
<1>5. Same(Cop(p), Cop(o)) \in 0 .. 1
  BY SameType
<1> QED
  BY <1>2, <1>3, <1>4, <1>5

\* A step that stops o: the rest of the state.
LEMMA StoppedStep ==
    ASSUME IInv, NEW o \in Ops, StopLocalEffects(o),
           UNCHANGED <<cur, back, batch, localQueue, remoteQueue, sqUnflushedCount,
                       inputVars, kind, execute, onPending, request, completed>>,
           LoopTypes', Submitting', Drained', OpInv(o)',
           callback' \in [Ops -> {"unset", "registered", "ran", "gone"}],
           refCount' \in [Ops -> 0 .. 2], cancelFlag' \in [Ops -> BOOLEAN],
           stop' \in [Ops -> {"no", "requested", "cas", "flag", "enqueue", "finished"}],
           \A p \in Ops : p # o => /\ callback'[p] = callback[p] /\ refCount'[p] = refCount[p]
                                   /\ cancelFlag'[p] = cancelFlag[p] /\ stop'[p] = stop[p]
                                   /\ RunningOnce(Op(p))' = RunningOnce(Op(p))
                                   /\ RunningOnce(Cop(p))' = RunningOnce(Cop(p))
    PROVE  IInv'
<1>1. QueueTypes /\ SlotTypes /\ InputTypes /\ OpTypes
  BY InvTypes
<1>2. LiveFinite /\ Cardinality(Live) <= sqUnflushedCount
  BY DEF IInv, Covered
<1>3. \A p \in Ops :
             /\ Links(Op(p)) \in Nat /\ Links(Cop(p)) \in Nat
             /\ Links(Op(p))' \in Nat /\ Links(Cop(p))' \in Nat
             /\ RunningOnce(Op(p)) \in 0 .. 1 /\ RunningOnce(Cop(p)) \in 0 .. 1
             /\ Links(Op(p))' + RunningOnce(Op(p)) <= Links(Op(p)) + RunningOnce(Op(p))'
             /\ Links(Cop(p))' + RunningOnce(Cop(p))
                  = Links(Cop(p)) + RunningOnce(Cop(p))' + Same(Cop(p), Cop(o))
  BY <1>1, <1>2, StoppedLinks
<1>4. Types'
  <2>1. SlotTypes' /\ InputTypes'
    BY <1>1 DEF SlotTypes, InputTypes, inputVars
  <2>2. /\ QueueTypes' /\ RequestTypes'
        /\ copExecute' \in [Ops -> {"unset", "stopLocal", "stopComplete"}]
        /\ desc' \in [Ops -> BOOLEAN]
        /\ conn' \in [Ops -> {"none", "open", "given", "disconnected"}]
    BY DEF StopLocalEffects
  <2>3. OpTypes'
    BY <1>1, <2>2 DEF OpTypes
  <2> QED
    BY <2>1, <2>2, <2>3 DEF Types
<1>5. Covered'
  <2>1. /\ LiveFinite' /\ Cardinality(Live)' <= Cardinality(Live)
        /\ Cardinality(Live)' \in Nat /\ Cardinality(Live) \in Nat
    BY DEF StopLocalEffects
  <2>2. sqUnflushedCount \in Nat
    BY <1>1, CqEntryCountAssumption DEF SlotTypes
  <2>3. Cardinality(Live)' <= sqUnflushedCount
    BY <1>2, <2>1, <2>2
  <2> QED
    BY <2>1, <2>3 DEF Covered
<1>6. ASSUME NEW p \in Ops, p # o
      PROVE  SameAt(p) /\ NoNewLinks(p)
  <2>1. SameAt(p)
    BY <1>6 DEF SameAt, StopLocalEffects
  <2>2. Same(Cop(p), Cop(o)) = 0
    BY <1>6, SameNodes
  <2>3. Links(Op(p))' <= Links(Op(p)) /\ Links(Cop(p))' = Links(Cop(p))
    BY <1>3, <1>6, <2>2
  <2> QED
    BY <1>3, <2>1, <2>3 DEF NoNewLinks
<1> QED
  BY <1>4, <1>5, <1>6, OneOpStep

\* on_schedule_stop_complete.
LEMMA ExecuteStopLocalKeeps ==
    ASSUME IInv, NEW o \in Ops, ExecuteStopLocal(o)
    PROVE  IInv'
<1>1. /\ pc = "run" /\ pc' = back /\ cur = Cop(o) /\ completed[o] = 0
      /\ copExecute[o] = "stopLocal" /\ RequestStopLocal(o)
      /\ UNCHANGED <<cur, back, batch, localQueue, remoteQueue,
                     sqUnflushedCount, inputVars, kind, execute, callback,
                     refCount, cancelFlag, onPending, request, completed, stop>>
  BY DEF ExecuteStopLocal
<1>2. LoopTypes /\ QueueTypes /\ RequestTypes /\ OpTypes
  BY InvTypes
<1>3. LiveFinite /\ Drained
  BY DEF IInv, Covered
<1>4. StopLocalEffects(o)
  BY <1>1, <1>2, <1>3, StopLocalHas
<1>5. \A n : RunningOnce(n) = Same(n, Cop(o)) /\ RunningOnce(n)' = 0
  BY <1>1, <1>2 DEF RunningOnce, Running, Same, LoopTypes
<1>6. /\ Links(Op(o)) \in Nat /\ Links(Cop(o)) \in Nat
      /\ Links(Op(o))' \in Nat /\ Links(Cop(o))' \in Nat
      /\ Links(Op(o))' <= Links(Op(o)) /\ Links(Cop(o))' = Links(Cop(o))
  <2>1. Same(Op(o), Cop(o)) = 0 /\ Same(Cop(o), Cop(o)) = 1
    BY SameNodes
  <2>2. /\ Links(Op(o)) \in Nat /\ Links(Cop(o)) \in Nat
        /\ Links(Op(o))' \in Nat /\ Links(Cop(o))' \in Nat
        /\ Links(Op(o))' + RunningOnce(Op(o)) <= Links(Op(o)) + RunningOnce(Op(o))'
        /\ Links(Cop(o))' + RunningOnce(Cop(o))
             = Links(Cop(o)) + RunningOnce(Cop(o))' + Same(Cop(o), Cop(o))
    BY <1>2, <1>3, <1>4, StoppedLinks
  <2> QED
    BY <1>5, <2>1, <2>2
<1>7. Links(Cop(o)) >= 1
  <2>1. RunningOnce(Cop(o)) = 1
    BY <1>5, SameNodes
  <2>2. Links(Cop(o)) = Queued(Cop(o)) + RunningOnce(Cop(o)) /\ Queued(Cop(o)) \in Nat
    BY <1>2, <1>3, LinksOf, QueuedType DEF LinksCounted
  <2> QED
    BY <2>1, <2>2
<1>8. OpInv(o)'
  <2>1. /\ Counted(o) /\ Stopping(o) /\ Settled(o) /\ Closing(o)
        /\ refCount[o] \in 0 .. 2
    BY <1>2 DEF IInv, OpInv, OpTypes
  <2>2. /\ OpPending(o)' <= OpPending(o) /\ CopPending(o)' = CopPending(o)
        /\ OpPending(o) \in Nat /\ CopPending(o) \in Nat /\ OpPending(o)' \in Nat
    BY <1>1, <1>6 DEF OpPending, CopPending
  <2>3. Counted(o)'
    BY <1>1, <2>1, <2>2 DEF Counted
  <2>4. Stopping(o)'
    BY <1>1, <2>1, <2>2 DEF Stopping
  <2>5. Settled(o)'
    BY <1>1, <2>1 DEF Settled
  <2>6. Closing(o)'
    <3>1. /\ kind[o] # "connect" => conn' = conn
          /\ kind[o] = "connect" => conn'[o] # "open" \/ copExecute'[o] = "stopLocal"
          /\ conn'[o] \in {conn[o], "disconnected"}
      BY <1>4 DEF StopLocalEffects
    <3>2. conn[o] # "given"
      <4>1. CopPending(o) >= 1
        BY <1>6, <1>7 DEF CopPending
      <4> QED
        BY <2>1, <2>2, <4>1 DEF Counted, Closing
    <3> QED
      BY <1>1, <1>6, <1>7, <2>1, <3>1, <3>2 DEF Closing
  <2> QED
    BY <2>3, <2>4, <2>5, <2>6 DEF OpInv
<1>9. LoopTypes' /\ Submitting' /\ Drained'
  BY <1>1, <1>2, <1>3 DEF LoopTypes, Submitting, Drained
<1>10. /\ callback' \in [Ops -> {"unset", "registered", "ran", "gone"}]
       /\ refCount' \in [Ops -> 0 .. 2] /\ cancelFlag' \in [Ops -> BOOLEAN]
       /\ stop' \in [Ops -> {"no", "requested", "cas", "flag", "enqueue", "finished"}]
  BY <1>1, <1>2 DEF OpTypes
<1>11. ASSUME NEW p \in Ops, p # o
       PROVE  /\ callback'[p] = callback[p] /\ refCount'[p] = refCount[p]
              /\ cancelFlag'[p] = cancelFlag[p] /\ stop'[p] = stop[p]
              /\ RunningOnce(Op(p))' = RunningOnce(Op(p))
              /\ RunningOnce(Cop(p))' = RunningOnce(Cop(p))
  <2>1. Same(Op(p), Cop(o)) = 0 /\ Same(Cop(p), Cop(o)) = 0
    BY <1>11, SameNodes
  <2> QED
    BY <1>1, <1>5, <2>1
<1> QED
  BY <1>1, <1>4, <1>8, <1>9, <1>10, <1>11, StoppedStep

\* The winner of refCount_ on the I/O thread; its stop callback has run.
StopWon(o) ==
    /\ refCount[o] = 1
    /\ refCount' = [refCount EXCEPT ![o] = 2]
    /\ cancelFlag' = [cancelFlag EXCEPT ![o] = TRUE]
    /\ RequestStopLocal(o)

LEMMA StopWonKeeps ==
    ASSUME IInv, NEW o \in Ops, StopWon(o), callback[o] \in {"unset", "registered"},
           callback' = [callback EXCEPT ![o] = "ran"],
           (stop' = stop /\ stop[o] # "no") \/ stop' = [stop EXCEPT ![o] = "finished"],
           UNCHANGED <<cur, back, batch, localQueue, remoteQueue, sqUnflushedCount,
                       inputVars, kind, execute, onPending, request, completed>>,
           LoopTypes', Submitting', Drained',
           \A n : RunningOnce(n)' = RunningOnce(n)
    PROVE  IInv'
<1>1. LoopTypes /\ QueueTypes /\ RequestTypes /\ OpTypes
  BY InvTypes
<1>2. LiveFinite /\ OpInv(o)
  BY DEF IInv, Covered
<1>3. StopLocalEffects(o)
  BY <1>1, <1>2, StopLocalHas DEF StopWon
<1>4. /\ Links(Op(o)) \in Nat /\ Links(Cop(o)) \in Nat
      /\ Links(Op(o))' \in Nat /\ Links(Cop(o))' \in Nat
      /\ Links(Op(o))' <= Links(Op(o)) /\ Links(Cop(o))' = Links(Cop(o)) + 1
  <2>1. Same(Cop(o), Cop(o)) = 1
    BY SameNodes
  <2>2. /\ Links(Op(o)) \in Nat /\ Links(Cop(o)) \in Nat
        /\ Links(Op(o))' \in Nat /\ Links(Cop(o))' \in Nat
        /\ RunningOnce(Op(o)) \in 0 .. 1 /\ RunningOnce(Cop(o)) \in 0 .. 1
        /\ Links(Op(o))' + RunningOnce(Op(o)) <= Links(Op(o)) + RunningOnce(Op(o))'
        /\ Links(Cop(o))' + RunningOnce(Cop(o))
             = Links(Cop(o)) + RunningOnce(Cop(o))' + Same(Cop(o), Cop(o))
    BY <1>1, <1>2, <1>3, StoppedLinks
  <2> QED
    BY <2>1, <2>2
<1>5. /\ refCount \in [Ops -> 0 .. 2] /\ cancelFlag \in [Ops -> BOOLEAN]
      /\ callback \in [Ops -> {"unset", "registered", "ran", "gone"}]
      /\ stop \in [Ops -> {"no", "requested", "cas", "flag", "enqueue", "finished"}]
  BY <1>1 DEF OpTypes
<1>6. /\ refCount' \in [Ops -> 0 .. 2] /\ refCount[o] = 1 /\ refCount'[o] = 2
      /\ \A p \in Ops : p # o => refCount'[p] = refCount[p]
  BY <1>5 DEF StopWon
<1>7. /\ cancelFlag' \in [Ops -> BOOLEAN]
      /\ \A p \in Ops : p # o => cancelFlag'[p] = cancelFlag[p]
  BY <1>5 DEF StopWon
<1>8. /\ callback' \in [Ops -> {"unset", "registered", "ran", "gone"}]
      /\ callback'[o] = "ran"
      /\ \A p \in Ops : p # o => callback'[p] = callback[p]
  BY <1>5
<1>9. /\ stop' \in [Ops -> {"no", "requested", "cas", "flag", "enqueue", "finished"}]
      /\ stop'[o] \in {stop[o], "finished"} \ {"no"}
      /\ \A p \in Ops : p # o => stop'[p] = stop[p]
  BY <1>5
<1>10. OpInv(o)'
  <2>1. Counted(o) /\ Stopping(o) /\ Settled(o) /\ Closing(o)
    BY <1>2 DEF OpInv
  <2>2. CopPending(o) = 0 /\ stop[o] \in {"no", "requested"} /\ Links(Cop(o)) = 0
    BY <1>4, <2>1 DEF Stopping, CopPending
  <2>3. CopPending(o)' = 1 /\ Links(Cop(o))' = 1 /\ stop'[o] \in {"requested", "finished"}
    BY <1>4, <1>9, <2>2 DEF CopPending
  <2>4. OpPending(o)' <= OpPending(o) /\ OpPending(o) \in Nat /\ OpPending(o)' \in Nat
    BY <1>4 DEF OpPending
  <2>5. Counted(o)'
    BY <1>6, <2>1, <2>3, <2>4 DEF Counted
  <2>6. Stopping(o)'
    BY <1>8, <2>3 DEF Stopping
  <2>7. Settled(o)'
    BY <1>6, <2>1 DEF Settled
  <2>8. Closing(o)'
    <3>1. /\ kind[o] # "connect" => conn' = conn
          /\ kind[o] = "connect" => conn'[o] # "open" \/ copExecute'[o] = "stopLocal"
          /\ conn'[o] \in {conn[o], "disconnected"}
      BY <1>3 DEF StopLocalEffects
    <3> QED
      BY <1>6, <2>1, <2>3, <3>1 DEF Closing
  <2> QED
    BY <2>5, <2>6, <2>7, <2>8 DEF OpInv
<1>11. \A p \in Ops : p # o => /\ callback'[p] = callback[p] /\ refCount'[p] = refCount[p]
                               /\ cancelFlag'[p] = cancelFlag[p] /\ stop'[p] = stop[p]
                               /\ RunningOnce(Op(p))' = RunningOnce(Op(p))
                               /\ RunningOnce(Cop(p))' = RunningOnce(Cop(p))
  BY <1>6, <1>7, <1>8, <1>9
<1> QED
  BY <1>3, <1>6, <1>7, <1>8, <1>9, <1>10, <1>11, StoppedStep

\* The stop callback is registered, or has run in vain.
CallbackMoved(o) ==
    \/ callback' = callback
    \/ callback[o] = "unset" /\ callback' = [callback EXCEPT ![o] = "registered"]
    \/ callback' = [callback EXCEPT ![o] = "ran"]

StopEnded(o) ==
    \/ stop' = stop
    \/ /\ stop[o] \notin {"flag", "enqueue"}
       /\ stop' = [stop EXCEPT ![o] = "finished"]
       /\ callback' = [callback EXCEPT ![o] = "ran"]

LEMMA CallbackKeeps ==
    ASSUME IInv, NEW o \in Ops,
           CallbackMoved(o), StopEnded(o),
           UNCHANGED <<cur, back, queueVars, cq, requests, sqUnflushedCount, inputVars,
                       kind, execute, copExecute, refCount, cancelFlag, onPending,
                       request, desc, conn, completed>>,
           LoopTypes', Submitting', Drained',
           \A n : RunningOnce(n)' = RunningOnce(n)
    PROVE  IInv'
<1>1. QueueTypes /\ RequestTypes /\ SlotTypes /\ InputTypes /\ OpTypes
  BY InvTypes
<1>2. Covered /\ LiveFinite /\ OpInv(o)
  BY DEF IInv, Covered
<1>3. /\ QueueTypes' /\ LiveFinite' /\ Live' = Live
      /\ \A p \in Ops :
           /\ Links(Op(p)) \in Nat /\ Links(Cop(p)) \in Nat
           /\ Links(Op(p))' \in Nat /\ Links(Cop(p))' \in Nat
           /\ RunningOnce(Op(p)) \in 0 .. 1 /\ RunningOnce(Cop(p)) \in 0 .. 1
           /\ Links(Op(p))' + RunningOnce(Op(p)) = Links(Op(p)) + RunningOnce(Op(p))'
           /\ Links(Cop(p))' + RunningOnce(Cop(p)) = Links(Cop(p)) + RunningOnce(Cop(p))'
  BY <1>1, <1>2, RunningStep
<1>4. \A p \in Ops : Links(Op(p))' = Links(Op(p)) /\ Links(Cop(p))' = Links(Cop(p))
  <2> TAKE p \in Ops
  <2>1. RunningOnce(Op(p))' = RunningOnce(Op(p)) /\ RunningOnce(Cop(p))' = RunningOnce(Cop(p))
    OBVIOUS
  <2> QED
    BY <1>3, <2>1
<1>5. /\ callback \in [Ops -> {"unset", "registered", "ran", "gone"}]
      /\ stop \in [Ops -> {"no", "requested", "cas", "flag", "enqueue", "finished"}]
  BY <1>1 DEF OpTypes
<1>6. /\ callback' \in [Ops -> {"unset", "registered", "ran", "gone"}]
      /\ \A p \in Ops : p # o => callback'[p] = callback[p]
      /\ \/ callback'[o] = callback[o]
         \/ callback[o] = "unset" /\ callback'[o] = "registered"
         \/ callback'[o] = "ran"
  BY <1>5 DEF CallbackMoved
<1>7. /\ stop' \in [Ops -> {"no", "requested", "cas", "flag", "enqueue", "finished"}]
      /\ \A p \in Ops : p # o => stop'[p] = stop[p]
      /\ stop'[o] = stop[o]
         \/ (stop'[o] = "finished" /\ callback'[o] = "ran" /\ stop[o] \notin {"flag", "enqueue"})
  BY <1>5 DEF StopEnded
<1>8. Types'
  <2>1. RequestTypes' /\ SlotTypes' /\ InputTypes'
    BY <1>1 DEF RequestTypes, SlotTypes, InputTypes, inputVars
  <2>2. OpTypes'
    BY <1>1, <1>6, <1>7 DEF OpTypes
  <2> QED
    BY <1>3, <2>1, <2>2 DEF Types
<1>9. Covered'
  BY <1>2, <1>3 DEF Covered
<1>10. \A p \in Ops : p # o => SameAt(p) /\ NoNewLinks(p)
  <2>1. \A p \in Ops : p # o => SameAt(p)
    BY <1>6, <1>7 DEF SameAt
  <2>2. \A p \in Ops : NoNewLinks(p)
    BY <1>3, <1>4 DEF NoNewLinks
  <2> QED
    BY <2>1, <2>2
<1>11. OpInv(o)'
  <2>1. Counted(o) /\ Stopping(o) /\ Settled(o) /\ Closing(o)
    BY <1>2 DEF OpInv
  <2>2. Links(Op(o))' = Links(Op(o)) /\ Links(Cop(o))' = Links(Cop(o))
    BY <1>4
  <2>3. OpPending(o)' = OpPending(o) /\ CopPending(o)' = CopPending(o)
    BY <1>7, <2>2 DEF OpPending, CopPending
  <2>4. Counted(o)'
    BY <2>1, <2>3 DEF Counted
  <2>5. Stopping(o)'
    BY <1>6, <1>7, <2>1, <2>3 DEF Stopping
  <2>6. Settled(o)'
    BY <2>1 DEF Settled
  <2>7. Closing(o)'
    BY <1>7, <2>1, <2>2 DEF Closing
  <2> QED
    BY <2>4, <2>5, <2>6, <2>7 DEF OpInv
<1> QED
  BY <1>8, <1>9, <1>10, <1>11, OneOpStep

LEMMA ExecuteStartKeeps ==
    ASSUME IInv, NEW o \in Ops, ExecuteStart(o)
    PROVE  IInv'
<1>1. /\ pc = "run" /\ pc' = "submit" /\ cur = Op(o) /\ completed[o] = 0
      /\ UNCHANGED <<cur, back, batch, localQueue, remoteQueue,
                     sqUnflushedCount, inputVars, kind, execute, onPending,
                     request, completed, stop>>
  BY DEF ExecuteStart, TrySetupStartIo
<1>2. LoopTypes /\ Drained
  BY InvTypes DEF IInv
<1>3. LoopTypes' /\ Submitting' /\ Drained'
  BY <1>1, <1>2 DEF LoopTypes, Submitting, Drained
<1>4. \A n : RunningOnce(n)' = RunningOnce(n)
  BY <1>1 DEF RunningOnce, Running
<1>5. \/ /\ callback[o] = "unset" /\ callback' = [callback EXCEPT ![o] = "ran"]
         /\ stop[o] # "no" /\ StopWon(o)
      \/ /\ \/ callback' = callback
            \/ callback[o] = "unset" /\ callback' = [callback EXCEPT ![o] = "registered"]
            \/ callback' = [callback EXCEPT ![o] = "ran"]
         /\ UNCHANGED <<refCount, cancelFlag, requests, pendingIoQueue, cq,
                        pendingRecvIoQueue, pendingAcptIoQueue, copExecute, desc,
                        conn>>
  BY Zenon DEF ExecuteStart, TrySetupStartIo, RequestStopOnIoThread, StopWon
<1>6. CASE /\ callback[o] = "unset" /\ callback' = [callback EXCEPT ![o] = "ran"]
           /\ stop[o] # "no" /\ StopWon(o)
  BY <1>1, <1>3, <1>4, <1>6, StopWonKeeps
<1>7. CASE /\ \/ callback' = callback
              \/ callback[o] = "unset" /\ callback' = [callback EXCEPT ![o] = "registered"]
              \/ callback' = [callback EXCEPT ![o] = "ran"]
           /\ UNCHANGED <<refCount, cancelFlag, requests, pendingIoQueue, cq,
                          pendingRecvIoQueue, pendingAcptIoQueue, copExecute, desc,
                          conn>>
  <2>1. CallbackMoved(o) /\ StopEnded(o)
    BY <1>1, <1>7, Zenon DEF CallbackMoved, StopEnded
  <2>2. UNCHANGED <<cur, back, queueVars, cq, requests, sqUnflushedCount, inputVars,
                    kind, execute, copExecute, refCount, cancelFlag, onPending,
                    request, desc, conn, completed>>
    BY <1>1, <1>7 DEF queueVars
  <2> QED
    BY <1>3, <1>4, <2>1, <2>2, CallbackKeeps
<1> QED
  BY <1>5, <1>6, <1>7

LEMMA StopOnIoThreadKeeps ==
    ASSUME IInv, NEW o \in Ops, StopOnIoThread(o)
    PROVE  IInv'
<1>1. /\ pc = "exec" /\ stop[o] = "no" /\ callback[o] = "registered"
      /\ stop' = [stop EXCEPT ![o] = "finished"]
      /\ callback' = [callback EXCEPT ![o] = "ran"]
      /\ UNCHANGED <<pc, cur, back, batch, localQueue, remoteQueue,
                     sqUnflushedCount, inputVars, kind, execute, onPending,
                     request, completed>>
  BY DEF StopOnIoThread
<1>2. LoopTypes /\ Drained /\ Submitting
  BY InvTypes DEF IInv
<1>3. LoopTypes' /\ Submitting' /\ Drained'
  BY <1>1, <1>2 DEF LoopTypes, Submitting, Drained
<1>4. \A n : RunningOnce(n)' = RunningOnce(n)
  BY <1>1 DEF RunningOnce, Running
<1>5. \/ StopWon(o)
      \/ UNCHANGED <<refCount, cancelFlag, requests, pendingIoQueue, cq,
                     pendingRecvIoQueue, pendingAcptIoQueue, copExecute, desc, conn>>
  BY Zenon DEF StopOnIoThread, RequestStopOnIoThread, StopWon
<1>6. CASE StopWon(o)
  BY <1>1, <1>3, <1>4, <1>6, StopWonKeeps
<1>7. CASE UNCHANGED <<refCount, cancelFlag, requests, pendingIoQueue, cq,
                       pendingRecvIoQueue, pendingAcptIoQueue, copExecute, desc, conn>>
  <2>1. CallbackMoved(o) /\ StopEnded(o)
    <3>1. stop[o] \notin {"flag", "enqueue"}
      BY <1>1
    <3> QED
      BY <1>1, <3>1, Zenon DEF CallbackMoved, StopEnded
  <2>2. UNCHANGED <<cur, back, queueVars, cq, requests, sqUnflushedCount, inputVars,
                    kind, execute, copExecute, refCount, cancelFlag, onPending,
                    request, desc, conn, completed>>
    BY <1>1, <1>7 DEF queueVars
  <2> QED
    BY <1>3, <1>4, <2>1, <2>2, CallbackKeeps
<1> QED
  BY <1>5, <1>6, <1>7

-----------------------------------------------------------------------------
(***************************************************************************)
(* start_io, its second half.                                              *)
(***************************************************************************)

Begun(o, r, via) ==
    requests[r] = Free /\ requests' = [requests EXCEPT ![r] = [cb |-> o, via |-> via]]

\* One request more, and it reports to o.
LEMMA RequestBegun ==
    ASSUME RequestTypes, LiveFinite, NEW o \in Ops, NEW r \in Requests,
           NEW via \in {"cqe", "direct"}, Begun(o, r, via)
    PROVE  /\ RequestTypes' /\ LiveFinite'
           /\ \A p \in Ops : Reporting(p)' = Reporting(p) + (IF p = o THEN 1 ELSE 0)
           /\ Cardinality(Live)' = Cardinality(Live) + 1
           /\ Cardinality(Live) \in Nat /\ Cardinality(Live)' \in Nat
<1> DEFINE b == [cb |-> o, via |-> via]
<1>1. requests \in [Requests -> Callbacks \cup {Free}]
  BY DEF RequestTypes
<1>2. b \in Callbacks /\ b.cb = o
  BY DEF Callbacks
<1> HIDE DEF b
<1>3. requests[r] = Free /\ requests' = [requests EXCEPT ![r] = b]
  BY DEF Begun, b
<1>4. /\ requests' \in [Requests -> Callbacks \cup {Free}] /\ requests'[r] = b
      /\ \A q \in Requests : q # r => requests'[q] = requests[q]
  BY <1>1, <1>2, <1>3
<1>5. Free.cb = None /\ None \notin Ops
  BY OpsAssumption DEF Free
<1>6. Live' = Live \cup {r} /\ r \notin Live
  <2>1. requests'[r].cb \in Ops /\ requests[r].cb \notin Ops
    BY <1>2, <1>3, <1>4, <1>5
  <2> QED
    BY <1>4, <2>1 DEF Live
<1>7. ASSUME NEW p \in Ops
      PROVE  /\ p = o => LiveRequests(p)' = LiveRequests(p) \cup {r}
             /\ p # o => LiveRequests(p)' = LiveRequests(p)
             /\ r \notin LiveRequests(p)
  <2>1. requests'[r].cb = o /\ requests[r].cb \notin Ops
    BY <1>2, <1>3, <1>4, <1>5
  <2> QED
    BY <1>4, <2>1 DEF LiveRequests
<1>8. IsFiniteSet(Live)
  BY DEF LiveFinite
<1>9. IsFiniteSet(Live \cup {r}) /\ Cardinality(Live \cup {r}) = Cardinality(Live) + 1
  BY <1>6, <1>8, FS_AddElement
<1>10. ASSUME NEW p \in Ops
       PROVE  Reporting(p)' = Reporting(p) + (IF p = o THEN 1 ELSE 0)
  <2>1. LiveRequests(p) \subseteq Live
    BY DEF LiveRequests, Live
  <2>2. IsFiniteSet(LiveRequests(p))
    BY <1>8, <2>1, FS_Subset
  <2>3. Cardinality(LiveRequests(p)) \in Nat
    BY <2>2, FS_CardinalityType
  <2>4. CASE p = o
    <3>1. Cardinality(LiveRequests(p) \cup {r}) = Cardinality(LiveRequests(p)) + 1
      BY <1>7, <2>2, FS_AddElement
    <3>2. Reporting(p)' = Cardinality(LiveRequests(p) \cup {r})
      BY <1>7, <2>4 DEF Reporting
    <3> QED
      BY <2>3, <2>4, <3>1, <3>2 DEF Reporting
  <2>5. CASE p # o
    <3>1. Reporting(p)' = Cardinality(LiveRequests(p))
      BY <1>7, <2>5 DEF Reporting
    <3> QED
      BY <2>3, <2>5, <3>1 DEF Reporting
  <2> QED
    BY <2>4, <2>5
<1>11. Cardinality(Live)' = Cardinality(Live \cup {r}) /\ LiveFinite'
  BY <1>6, <1>9 DEF LiveFinite
<1>12. Cardinality(Live) \in Nat /\ Cardinality(Live \cup {r}) \in Nat
  BY <1>8, <1>9, FS_CardinalityType
<1> QED
  BY <1>4, <1>9, <1>10, <1>11, <1>12 DEF RequestTypes

WaitVars == <<cq, pendingIoQueue, pendingRecvIoQueue, pendingAcptIoQueue>>
CountVars == <<refCount, completed, callback>>

\* Where try_submit_io leaves the operation: waiting for the loop, with a
\* request that has a slot, or nowhere (cancelled, or completed inline).
SubmitWaits(o) == Waits(Op(o)) /\ UNCHANGED <<requests, sqUnflushedCount, CountVars>>

SubmitBegins(o) ==
    /\ \E r \in Requests, via \in {"cqe", "direct"} : Begun(o, r, via)
    /\ sqUnflushedCount < CqEntryCount
    /\ sqUnflushedCount' = sqUnflushedCount + 1
    /\ UNCHANGED <<WaitVars, CountVars>>

\* on_read_complete in the lambda.
ReadDone(o) == kind[o] \notin SymmetricKinds /\ CountDownUnlessPending(o, FALSE)

SubmitEnds(o) ==
    /\ UNCHANGED <<WaitVars, requests>>
    /\ \/ /\ sqUnflushedCount < CqEntryCount
          /\ sqUnflushedCount' = sqUnflushedCount + 1
          /\ UNCHANGED CountVars
       \/ /\ UNCHANGED sqUnflushedCount
          /\ ReadDone(o)

LEMMA PostOpWaits ==
    ASSUME NEW o, NEW h, PostOp(o, h),
           UNCHANGED <<pendingIoQueue, pendingRecvIoQueue, pendingAcptIoQueue, CountVars>>
    PROVE  SubmitWaits(o)
BY Zenon DEF PostOp, SubmitWaits, Waits, CountVars

LEMMA BeginRequestBegins ==
    ASSUME NEW o, NEW via \in {"cqe", "direct"}, BeginRequest(o, via), CanSubmitIo,
           UNCHANGED <<pendingIoQueue, pendingRecvIoQueue, pendingAcptIoQueue, CountVars>>
    PROVE  SubmitBegins(o)
<1>1. PICK r \in Requests : /\ Begun(o, r, via) /\ cq' = cq
                            /\ sqUnflushedCount' = sqUnflushedCount + 1
  BY Zenon DEF BeginRequest, Begun
<1>2. sqUnflushedCount < CqEntryCount
  BY DEF CanSubmitIo
<1>3. UNCHANGED <<WaitVars, CountVars>>
  BY <1>1, Zenon DEF WaitVars, CountVars
<1> QED
  BY <1>1, <1>2, <1>3, Zenon DEF SubmitBegins


LEMMA SubmitPlaces ==
    ASSUME NEW o \in Ops, TrySubmitIo(o)
    PROVE  SubmitWaits(o) \/ SubmitBegins(o) \/ SubmitEnds(o)
<1>1. CASE StartIoRefused(o)
  BY <1>1, Zenon DEF StartIoRefused, SubmitWaits, Waits, CountVars
<1>2. CASE StartIoCancelled(o)
  <2>1. sqUnflushedCount < CqEntryCount
    BY <1>2 DEF StartIoCancelled, CanSubmitIo
  <2> QED
    BY <1>2, <2>1, Zenon DEF StartIoCancelled, SubmitEnds, WaitVars, CountVars
<1>3. CASE StartIoSend(o)
  <2>1. /\ CanSubmitIo /\ UNCHANGED <<pendingRecvIoQueue, pendingAcptIoQueue, CountVars>>
        /\ \/ /\ \E via \in {"cqe", "direct"} : BeginRequest(o, via)
              /\ UNCHANGED pendingIoQueue
           \/ PostOp(o, "complete") /\ UNCHANGED pendingIoQueue
           \/ pendingIoQueue' = <<Op(o)>> \o pendingIoQueue
              /\ UNCHANGED <<cq, sqUnflushedCount, requests>>
    BY <1>3, Zenon DEF StartIoSend, CountVars
  <2>2. CASE /\ \E via \in {"cqe", "direct"} : BeginRequest(o, via)
             /\ UNCHANGED pendingIoQueue
    <3>1. PICK via \in {"cqe", "direct"} : BeginRequest(o, via)
      BY <2>2
    <3> QED
      BY <2>1, <2>2, <3>1, BeginRequestBegins
  <2>3. CASE PostOp(o, "complete") /\ UNCHANGED pendingIoQueue
    BY <2>1, <2>3, PostOpWaits
  <2>4. CASE pendingIoQueue' = <<Op(o)>> \o pendingIoQueue
             /\ UNCHANGED <<cq, sqUnflushedCount, requests>>
    BY <2>1, <2>4, Zenon DEF SubmitWaits, Waits, CountVars
  <2> QED
    BY <2>1, <2>2, <2>3, <2>4
<1>4. CASE StartIoRecv(o) \/ StartIoRecvHeader(o)
  <2>1. /\ CanSubmitIo /\ UNCHANGED <<pendingIoQueue, pendingAcptIoQueue>>
        /\ kind[o] \in {"recv", "recvHeader"}
        /\ \/ Park(o)
           \/ UNCHANGED pendingRecvIoQueue /\ ReadInline(o)
           \/ UNCHANGED <<pendingRecvIoQueue, CountVars>>
              /\ (BeginRequest(o, "cqe") \/ PostOp(o, "complete") \/ PostOp(o, "start"))
    BY <1>4, Zenon DEF StartIoRecv, StartIoRecvHeader, TakeMessage, CountVars
  <2>2. CASE Park(o)
    BY <2>1, <2>2, Zenon DEF Park, SubmitWaits, Waits, CountVars
  <2>3. CASE UNCHANGED pendingRecvIoQueue /\ ReadInline(o)
    <3>1. kind[o] \notin SymmetricKinds
      BY <2>1 DEF SymmetricKinds
    <3> QED
      BY <2>1, <2>3, <3>1, Zenon DEF ReadInline, OnReadComplete, OnReadHeaderComplete,
         SubmitEnds, WaitVars, ReadDone
  <2>4. CASE UNCHANGED <<pendingRecvIoQueue, CountVars>>
              /\ (BeginRequest(o, "cqe") \/ PostOp(o, "complete") \/ PostOp(o, "start"))
    <3>1. CASE BeginRequest(o, "cqe")
      BY <2>1, <2>4, <3>1, BeginRequestBegins
    <3>2. CASE PostOp(o, "complete") \/ PostOp(o, "start")
      BY <2>1, <2>4, <3>2, PostOpWaits
    <3> QED
      BY <2>4, <3>1, <3>2
  <2> QED
    BY <2>1, <2>2, <2>3, <2>4
<1>5. CASE StartIoRecvBuffer(o)
  <2>1. /\ CanSubmitIo
        /\ UNCHANGED <<pendingIoQueue, pendingRecvIoQueue, pendingAcptIoQueue, CountVars>>
        /\ BeginRequest(o, "cqe") \/ PostOp(o, "complete") \/ PostOp(o, "start")
    BY <1>5, Zenon DEF StartIoRecvBuffer, CountVars
  <2>2. CASE BeginRequest(o, "cqe")
    BY <2>1, <2>2, BeginRequestBegins
  <2>3. CASE PostOp(o, "complete") \/ PostOp(o, "start")
    BY <2>1, <2>3, PostOpWaits
  <2> QED
    BY <2>1, <2>2, <2>3
<1>6. CASE StartIoConnect(o)
  <2>1. /\ PostOp(o, "complete")
        /\ UNCHANGED <<pendingIoQueue, pendingRecvIoQueue, pendingAcptIoQueue, CountVars>>
    BY <1>6, Zenon DEF StartIoConnect, CountVars
  <2> QED
    BY <2>1, PostOpWaits
<1>7. CASE StartIoAccept(o)
  <2>1. /\ UNCHANGED <<pendingIoQueue, pendingRecvIoQueue, CountVars>>
        /\ \/ pendingAcptIoQueue' = <<Op(o)>> \o pendingAcptIoQueue
              /\ UNCHANGED <<cq, sqUnflushedCount, requests>>
           \/ PostOp(o, "complete") /\ UNCHANGED pendingAcptIoQueue
    BY <1>7, Zenon DEF StartIoAccept, CountVars
  <2>2. CASE pendingAcptIoQueue' = <<Op(o)>> \o pendingAcptIoQueue
             /\ UNCHANGED <<cq, sqUnflushedCount, requests>>
    BY <2>1, <2>2, Zenon DEF SubmitWaits, Waits, CountVars
  <2>3. CASE PostOp(o, "complete") /\ UNCHANGED pendingAcptIoQueue
    BY <2>1, <2>3, PostOpWaits
  <2> QED
    BY <2>1, <2>2, <2>3
<1> QED
  BY <1>1, <1>2, <1>3, <1>4, <1>5, <1>6, <1>7, Zenon DEF TrySubmitIo

\* The links after that: those of the operation that ran, and no others.
SubmitLinks(o) ==
    /\ QueueTypes' /\ RequestTypes' /\ SlotTypes' /\ Covered'
    /\ \A p \in Ops :
         /\ Links(Op(p)) \in Nat /\ Links(Cop(p)) \in Nat
         /\ Links(Op(p))' \in Nat /\ Links(Cop(p))' \in Nat
         /\ Links(Cop(p))' = Links(Cop(p))
         /\ p # o => Links(Op(p))' = Links(Op(p))
    /\ Links(Op(o)) >= 1
    /\ \/ Links(Op(o))' <= Links(Op(o)) /\ UNCHANGED CountVars
       \/ /\ Links(Op(o))' + 1 = Links(Op(o))
          /\ ReadDone(o)

LEMMA SubmitMoves ==
    ASSUME QueueTypes, RequestTypes, SlotTypes, Covered, back \in {"exec", "pend"},
           NEW o \in Ops, pc = "submit", cur = Op(o), pc' = back,
           UNCHANGED <<batch, localQueue, remoteQueue>>,
           SubmitWaits(o) \/ SubmitBegins(o) \/ SubmitEnds(o)
    PROVE  SubmitLinks(o)
<1>1. LiveFinite /\ Cardinality(Live) <= sqUnflushedCount /\ Cardinality(Live) \in Nat
  BY FS_CardinalityType DEF Covered, LiveFinite
<1>2. sqUnflushedCount \in 0 .. CqEntryCount /\ CqEntryCount \in Nat
  BY CqEntryCountAssumption DEF SlotTypes
<1>3. \A n : RunningOnce(n) = Same(n, Op(o)) /\ RunningOnce(n)' = 0
  BY DEF RunningOnce, Running, Same
<1>4. ASSUME UNCHANGED WaitVars
      PROVE  QueueTypes' /\ \A n : Queued(n)' = Queued(n)
  BY <1>4 DEF WaitVars, QueueTypes, Queued
<1>5. ASSUME UNCHANGED requests
      PROVE  /\ RequestTypes' /\ LiveFinite' /\ Cardinality(Live)' = Cardinality(Live)
             /\ \A p \in Ops : Reporting(p)' = Reporting(p)
  <2>1. Live' = Live /\ \A p \in Ops : Reporting(p)' = Reporting(p)
    BY <1>5, RequestsSame
  <2> QED
    BY <1>1, <1>5, <2>1 DEF RequestTypes, LiveFinite
<1>6. ASSUME QueueTypes', LiveFinite', NEW p \in Ops
      PROVE  /\ Links(Op(p)) = Queued(Op(p)) + Reporting(p) + Same(Op(p), Op(o))
             /\ Links(Cop(p)) = Queued(Cop(p))
             /\ Links(Op(p))' = Queued(Op(p))' + Reporting(p)'
             /\ Links(Cop(p))' = Queued(Cop(p))'
             /\ Links(Op(p)) \in Nat /\ Links(Cop(p)) \in Nat
             /\ Links(Op(p))' \in Nat /\ Links(Cop(p))' \in Nat
             /\ Queued(Op(p)) \in Nat /\ Queued(Cop(p)) \in Nat /\ Reporting(p) \in Nat
             /\ Queued(Op(p))' \in Nat /\ Queued(Cop(p))' \in Nat /\ Reporting(p)' \in Nat
             /\ Same(Op(p), Op(o)) = (IF p = o THEN 1 ELSE 0) /\ Same(Cop(p), Op(o)) = 0
  <2>1. /\ Links(Op(p)) = Queued(Op(p)) + Reporting(p) + RunningOnce(Op(p))
        /\ Links(Cop(p)) = Queued(Cop(p)) + RunningOnce(Cop(p))
        /\ Links(Op(p)) \in Nat /\ Links(Cop(p)) \in Nat
        /\ Links(Op(p))' = Queued(Op(p))' + Reporting(p)' + RunningOnce(Op(p))'
        /\ Links(Cop(p))' = Queued(Cop(p))' + RunningOnce(Cop(p))'
        /\ Links(Op(p))' \in Nat /\ Links(Cop(p))' \in Nat
    BY <1>1, <1>6, LinksStep
  <2>2. /\ Queued(Op(p)) \in Nat /\ Queued(Cop(p)) \in Nat /\ Reporting(p) \in Nat
        /\ Queued(Op(p))' \in Nat /\ Queued(Cop(p))' \in Nat /\ Reporting(p)' \in Nat
    BY <1>1, <1>6, NumbersStep
  <2>3. Same(Op(p), Op(o)) = (IF p = o THEN 1 ELSE 0) /\ Same(Cop(p), Op(o)) = 0
    BY SameNodes
  <2>4. /\ RunningOnce(Op(p)) = Same(Op(p), Op(o)) /\ RunningOnce(Op(p))' = 0
        /\ RunningOnce(Cop(p)) = 0 /\ RunningOnce(Cop(p))' = 0
    BY <1>3, <2>3
  <2> QED
    BY <2>1, <2>2, <2>3, <2>4
<1>7. CASE SubmitWaits(o)
  <2>1. QueueTypes' /\ \A n : Queued(n)' = Queued(n) + Same(n, Op(o))
    BY <1>7, NodeFacts, WaitsFacts DEF SubmitWaits
  <2>2. /\ RequestTypes' /\ LiveFinite' /\ Cardinality(Live)' = Cardinality(Live)
        /\ \A p \in Ops : Reporting(p)' = Reporting(p)
    BY <1>5, <1>7 DEF SubmitWaits
  <2>3. SlotTypes' /\ Covered'
    BY <1>1, <1>7, <2>2 DEF SubmitWaits, SlotTypes, Covered
  <2>4. ASSUME NEW p \in Ops
        PROVE  /\ Links(Op(p)) \in Nat /\ Links(Cop(p)) \in Nat
               /\ Links(Op(p))' \in Nat /\ Links(Cop(p))' \in Nat
               /\ Links(Cop(p))' = Links(Cop(p)) /\ Links(Op(p))' = Links(Op(p))
    <3>1. /\ Queued(Op(p))' = Queued(Op(p)) + Same(Op(p), Op(o))
          /\ Queued(Cop(p))' = Queued(Cop(p)) + Same(Cop(p), Op(o))
          /\ Reporting(p)' = Reporting(p)
      BY <2>1, <2>2
    <3> QED
      BY <1>6, <2>1, <2>2, <3>1
  <2>5. Links(Op(o)) >= 1
    BY <1>6, <2>1, <2>2
  <2>6. UNCHANGED CountVars
    BY <1>7 DEF SubmitWaits
  <2> QED
    BY <2>1, <2>2, <2>3, <2>4, <2>5, <2>6 DEF SubmitLinks
<1>8. CASE SubmitBegins(o)
  <2>1. QueueTypes' /\ \A n : Queued(n)' = Queued(n)
    BY <1>4, <1>8 DEF SubmitBegins
  <2>2. PICK r \in Requests, via \in {"cqe", "direct"} : Begun(o, r, via)
    BY <1>8 DEF SubmitBegins
  <2>3. /\ RequestTypes' /\ LiveFinite'
        /\ \A p \in Ops : Reporting(p)' = Reporting(p) + (IF p = o THEN 1 ELSE 0)
        /\ Cardinality(Live)' = Cardinality(Live) + 1
        /\ Cardinality(Live) \in Nat /\ Cardinality(Live)' \in Nat
    BY <1>1, <2>2, RequestBegun
  <2>4. SlotTypes' /\ Covered'
    <3>1. sqUnflushedCount' \in 0 .. CqEntryCount /\ sqUnflushedCount' = sqUnflushedCount + 1
      BY <1>2, <1>8 DEF SubmitBegins
    <3>2. Cardinality(Live)' <= sqUnflushedCount'
      BY <1>1, <1>2, <2>3, <3>1
    <3> QED
      BY <2>3, <3>1, <3>2 DEF SlotTypes, Covered
  <2>5. ASSUME NEW p \in Ops
        PROVE  /\ Links(Op(p)) \in Nat /\ Links(Cop(p)) \in Nat
               /\ Links(Op(p))' \in Nat /\ Links(Cop(p))' \in Nat
               /\ Links(Cop(p))' = Links(Cop(p)) /\ Links(Op(p))' = Links(Op(p))
    <3>1. /\ Queued(Op(p))' = Queued(Op(p)) /\ Queued(Cop(p))' = Queued(Cop(p))
          /\ Reporting(p)' = Reporting(p) + (IF p = o THEN 1 ELSE 0)
      BY <2>1, <2>3
    <3> QED
      BY <1>6, <2>1, <2>3, <3>1
  <2>6. Links(Op(o)) >= 1
    BY <1>6, <2>1, <2>3
  <2>7. UNCHANGED CountVars
    BY <1>8 DEF SubmitBegins
  <2> QED
    BY <2>1, <2>3, <2>4, <2>5, <2>6, <2>7 DEF SubmitLinks
<1>9. CASE SubmitEnds(o)
  <2>1. QueueTypes' /\ \A n : Queued(n)' = Queued(n)
    BY <1>4, <1>9 DEF SubmitEnds
  <2>2. /\ RequestTypes' /\ LiveFinite' /\ Cardinality(Live)' = Cardinality(Live)
        /\ \A p \in Ops : Reporting(p)' = Reporting(p)
    BY <1>5, <1>9 DEF SubmitEnds
  <2>3. SlotTypes' /\ Covered'
    <3>1. /\ sqUnflushedCount' \in 0 .. CqEntryCount
          /\ sqUnflushedCount' \in {sqUnflushedCount, sqUnflushedCount + 1}
      BY <1>2, <1>9 DEF SubmitEnds
    <3>2. Cardinality(Live)' <= sqUnflushedCount'
      BY <1>1, <1>2, <2>2, <3>1
    <3> QED
      BY <2>2, <3>1, <3>2 DEF SlotTypes, Covered
  <2>4. ASSUME NEW p \in Ops
        PROVE  /\ Links(Op(p)) \in Nat /\ Links(Cop(p)) \in Nat
               /\ Links(Op(p))' \in Nat /\ Links(Cop(p))' \in Nat
               /\ Links(Cop(p))' = Links(Cop(p))
               /\ Links(Op(p))' + (IF p = o THEN 1 ELSE 0) = Links(Op(p))
    <3>1. /\ Queued(Op(p))' = Queued(Op(p)) /\ Queued(Cop(p))' = Queued(Cop(p))
          /\ Reporting(p)' = Reporting(p)
      BY <2>1, <2>2
    <3> QED
      BY <1>6, <2>1, <2>2, <3>1
  <2>5. Links(Op(o))' + 1 = Links(Op(o)) /\ Links(Op(o))' \in Nat
    BY <2>4
  <2>6. \A p \in Ops : p # o => Links(Op(p))' = Links(Op(p))
    BY <2>4
  <2>7. UNCHANGED CountVars \/ ReadDone(o)
    BY <1>9 DEF SubmitEnds
  <2> QED
    BY <2>1, <2>2, <2>3, <2>4, <2>5, <2>6, <2>7 DEF SubmitLinks
<1> QED
  BY <1>7, <1>8, <1>9


\* What else it writes.
ExecuteSet(o) ==
    execute' = execute \/ \E h \in {"start", "complete"} : execute' = [execute EXCEPT ![o] = h]

RequestSet(o) ==
    request' = request \/ \E r \in Requests : request' = [request EXCEPT ![o] = r]

PendingSet(o) ==
    \/ onPending' = onPending
    \/ onPending' = [onPending EXCEPT ![o] = TRUE]
    \/ onPending' = [onPending EXCEPT ![o] = FALSE]

DescSet(o) == desc' = desc \/ desc' = [desc EXCEPT ![o] = FALSE]

ConnSet(o) ==
    \/ conn' = conn
    \/ kind[o] = "connect" /\ ~cancelFlag[o] /\ conn' = [conn EXCEPT ![o] = "open"]

InputsTaken ==
    /\ \/ amDescQueue' = amDescQueue
       \/ amDescQueue # <<>> /\ amDescQueue' = Tail(amDescQueue)
    /\ connReqs' = connReqs \/ connReqs' = 0

LEMMA PostOpSets ==
    ASSUME NEW o, NEW h \in {"start", "complete"}, PostOp(o, h)
    PROVE  ExecuteSet(o) /\ RequestSet(o)
BY Zenon DEF PostOp, ExecuteSet, RequestSet

LEMMA BeginRequestSets ==
    ASSUME NEW o, NEW via, BeginRequest(o, via)
    PROVE  ExecuteSet(o) /\ RequestSet(o)
<1>1. "complete" \in {"start", "complete"}
  OBVIOUS
<1> QED
  BY <1>1, Zenon DEF BeginRequest, ExecuteSet, RequestSet

LEMMA SubmitSets ==
    ASSUME NEW o \in Ops, TrySubmitIo(o)
    PROVE  /\ ExecuteSet(o) /\ RequestSet(o) /\ PendingSet(o) /\ DescSet(o)
           /\ ConnSet(o) /\ InputsTaken
<1>0. "complete" \in {"start", "complete"} /\ "start" \in {"start", "complete"}
  OBVIOUS
<1>1. CASE StartIoRefused(o)
  BY <1>0, <1>1, Zenon DEF StartIoRefused, ExecuteSet, RequestSet, PendingSet, DescSet,
     ConnSet, InputsTaken
<1>2. CASE StartIoCancelled(o)
  BY <1>2, Zenon DEF StartIoCancelled, ExecuteSet, RequestSet, PendingSet, DescSet,
     ConnSet, InputsTaken
<1>3. CASE StartIoSend(o)
  <2>1. ExecuteSet(o) /\ RequestSet(o)
    <3>1. \/ \E via \in {"cqe", "direct"} : BeginRequest(o, via)
          \/ PostOp(o, "complete")
          \/ execute' = [execute EXCEPT ![o] = "complete"] /\ request' = request
      BY <1>3, Zenon DEF StartIoSend
    <3>2. CASE execute' = [execute EXCEPT ![o] = "complete"] /\ request' = request
      BY <1>0, <3>2, Zenon DEF ExecuteSet, RequestSet
    <3> QED
      BY <1>0, <3>1, <3>2, PostOpSets, BeginRequestSets
  <2> QED
    BY <1>3, <2>1, Zenon DEF StartIoSend, PendingSet, DescSet, ConnSet, InputsTaken
<1>4. CASE StartIoRecv(o) \/ StartIoRecvHeader(o)
  <2>1. /\ UNCHANGED <<connReqs, desc, conn>>
        /\ \/ Park(o)
           \/ (\E how \in MessageKinds : TakeMessage(o, how))
              /\ (ReadInline(o) \/ BeginRequest(o, "cqe") \/ PostOp(o, "complete")
                  \/ PostOp(o, "start"))
    <3>1. "eager" \in MessageKinds /\ "rndv" \in MessageKinds /\ "gone" \in MessageKinds
      BY DEF MessageKinds
    <3> QED
      BY <1>4, <3>1, Zenon DEF StartIoRecv, StartIoRecvHeader
  <2>2. CASE Park(o)
    BY <1>0, <2>1, <2>2, Zenon DEF Park, ExecuteSet, RequestSet, PendingSet, DescSet,
       ConnSet, InputsTaken
  <2>3. CASE /\ \E how \in MessageKinds : TakeMessage(o, how)
             /\ ReadInline(o) \/ BeginRequest(o, "cqe") \/ PostOp(o, "complete")
                \/ PostOp(o, "start")
    <3>1. PendingSet(o) /\ DescSet(o) /\ ConnSet(o) /\ InputsTaken
      BY <2>1, <2>3, Zenon DEF TakeMessage, PendingSet, DescSet, ConnSet, InputsTaken
    <3>2. CASE ReadInline(o)
      BY <1>0, <3>1, <3>2, Zenon DEF ReadInline, ExecuteSet, RequestSet
    <3> QED
      BY <1>0, <2>3, <3>1, <3>2, PostOpSets, BeginRequestSets
  <2> QED
    BY <2>1, <2>2, <2>3
<1>5. CASE StartIoRecvBuffer(o)
  <2>1. BeginRequest(o, "cqe") \/ PostOp(o, "complete") \/ PostOp(o, "start")
    BY <1>5, Zenon DEF StartIoRecvBuffer
  <2>2. ExecuteSet(o) /\ RequestSet(o)
    BY <1>0, <2>1, PostOpSets, BeginRequestSets
  <2> QED
    BY <1>5, <2>2, Zenon DEF StartIoRecvBuffer, PendingSet, DescSet, ConnSet, InputsTaken
<1>6. CASE StartIoConnect(o)
  <2>1. PostOp(o, "complete")
    BY <1>6, Zenon DEF StartIoConnect
  <2>2. ExecuteSet(o) /\ RequestSet(o)
    BY <1>0, <2>1, PostOpSets
  <2> QED
    BY <1>6, <2>2, Zenon DEF StartIoConnect, PendingSet, DescSet, ConnSet, InputsTaken
<1>7. CASE StartIoAccept(o)
  <2>1. ExecuteSet(o) /\ RequestSet(o)
    <3>1. \/ execute' = [execute EXCEPT ![o] = "start"] /\ request' = request
          \/ PostOp(o, "complete")
      BY <1>7, Zenon DEF StartIoAccept
    <3>2. CASE execute' = [execute EXCEPT ![o] = "start"] /\ request' = request
      BY <1>0, <3>2, Zenon DEF ExecuteSet, RequestSet
    <3> QED
      BY <1>0, <3>1, <3>2, PostOpSets
  <2> QED
    BY <1>7, <2>1, Zenon DEF StartIoAccept, PendingSet, DescSet, ConnSet, InputsTaken
<1> QED
  BY <1>1, <1>2, <1>3, <1>4, <1>5, <1>6, <1>7, Zenon DEF TrySubmitIo

LEMMA SubmitIoKeeps ==
    ASSUME IInv, NEW o \in Ops, SubmitIo(o)
    PROVE  IInv'
<1>1. /\ pc = "submit" /\ cur = Op(o) /\ TrySubmitIo(o) /\ pc' = back
      /\ UNCHANGED <<cur, back, batch, localQueue, remoteQueue, arrived,
                     connArrived, kind, copExecute, cancelFlag, stop>>
  BY DEF SubmitIo, TrySubmitIo
<1>2. LoopTypes /\ QueueTypes /\ RequestTypes /\ SlotTypes /\ InputTypes /\ OpTypes
  BY InvTypes
<1>3. Covered /\ Drained /\ Submitting /\ OpInv(o) /\ back \in {"exec", "pend"}
  BY <1>2 DEF IInv, LoopTypes
<1>4. completed[o] = 0
  BY <1>1, <1>3, NodeFacts DEF Submitting
<1>5. SubmitLinks(o)
  <2>1. SubmitWaits(o) \/ SubmitBegins(o) \/ SubmitEnds(o)
    BY <1>1, SubmitPlaces
  <2> QED
    BY <1>1, <1>2, <1>3, <2>1, SubmitMoves
<1>6. /\ ExecuteSet(o) /\ RequestSet(o) /\ PendingSet(o) /\ DescSet(o)
      /\ ConnSet(o) /\ InputsTaken
  BY <1>1, SubmitSets
<1>7. /\ Links(Op(o)) \in Nat /\ Links(Cop(o)) \in Nat
      /\ Links(Op(o))' \in Nat /\ Links(Cop(o))' \in Nat
      /\ Links(Cop(o))' = Links(Cop(o)) /\ Links(Op(o)) >= 1
      /\ \/ Links(Op(o))' <= Links(Op(o)) /\ UNCHANGED CountVars
         \/ Links(Op(o))' + 1 = Links(Op(o)) /\ ReadDone(o)
  BY <1>5 DEF SubmitLinks
<1>8. Counted(o) /\ Stopping(o) /\ Settled(o) /\ Closing(o)
  BY <1>3 DEF OpInv
<1>9. /\ refCount[o] \in 1 .. 2 /\ execute[o] # "new" /\ OpPending(o) = Links(Op(o))
      /\ CopPending(o) \in Nat
  <2>1. refCount[o] \in 0 .. 2
    BY <1>2 DEF OpTypes
  <2>2. CopPending(o) \in Nat
    BY <1>7 DEF CopPending
  <2>3. execute[o] # "new"
    BY <1>7, <1>8 DEF Counted, OpPending
  <2>4. OpPending(o) = Links(Op(o))
    BY <1>7, <2>3 DEF OpPending
  <2> QED
    BY <1>7, <1>8, <2>1, <2>2, <2>3, <2>4 DEF Counted
<1>10. /\ execute' \in [Ops -> {"new", "start", "complete"}] /\ execute'[o] # "new"
       /\ \A p \in Ops : p # o => execute'[p] = execute[p]
  BY <1>2, <1>6, <1>9 DEF OpTypes, ExecuteSet
<1>11. /\ conn' \in [Ops -> {"none", "open", "given", "disconnected"}]
       /\ \A p \in Ops : p # o => conn'[p] = conn[p]
       /\ \/ conn'[o] = conn[o]
          \/ kind[o] = "connect" /\ ~cancelFlag[o] /\ conn'[o] = "open"
  BY <1>2, <1>6 DEF OpTypes, ConnSet
<1>12. /\ CompletionTypes' /\ OthersKept(o)
       /\ UNCHANGED CountVars \/ (CountedDown(o) /\ kind[o] # "connect")
  <2>1. CASE UNCHANGED CountVars
    BY <1>2, <2>1 DEF CountVars, OpTypes, CompletionTypes, OthersKept
  <2>2. CASE ReadDone(o)
    <3>1. \/ CountDown(o)
          \/ kind[o] \notin SymmetricKinds
             /\ \E pending \in BOOLEAN : CountDownUnlessPending(o, pending)
      <4>1. FALSE \in BOOLEAN
        OBVIOUS
      <4> QED
        BY <2>2, <4>1, Zenon DEF ReadDone
    <3>2. refCount[o] >= 1
      BY <1>9
    <3>3. CountedDown(o) /\ OthersKept(o) /\ CompletionTypes'
      BY <1>2, <1>4, <3>1, <3>2, CountDownEffects
    <3>4. kind[o] # "connect"
      BY <2>2 DEF ReadDone, SymmetricKinds
    <3> QED
      BY <3>3, <3>4
  <2> QED
    BY <1>7, <2>1, <2>2
<1>13. Types'
  <2>1. LoopTypes'
    BY <1>1, <1>2, <1>3 DEF LoopTypes
  <2>2. QueueTypes' /\ RequestTypes' /\ SlotTypes'
    BY <1>5 DEF SubmitLinks
  <2>3. InputTypes'
    <3>1. amDescQueue' \in Seq(MessageKinds)
      BY <1>2, <1>6 DEF InputTypes, InputsTaken
    <3>2. connReqs' \in 0 .. connArrived
      BY <1>2, <1>6, BoundsAssumption DEF InputTypes, InputsTaken
    <3> QED
      BY <1>1, <1>2, <3>1, <3>2 DEF InputTypes
  <2>4. OpTypes'
    <3>1. onPending' \in [Ops -> BOOLEAN] /\ desc' \in [Ops -> BOOLEAN]
      BY <1>2, <1>6 DEF OpTypes, PendingSet, DescSet
    <3>2. request' \in [Ops -> Requests \cup {None}]
      BY <1>2, <1>6 DEF OpTypes, RequestSet
    <3> QED
      BY <1>1, <1>2, <1>10, <1>11, <1>12, <3>1, <3>2 DEF OpTypes, CompletionTypes
  <2> QED
    BY <2>1, <2>2, <2>3, <2>4 DEF Types
<1>14. Covered' /\ Submitting' /\ Drained'
  <2>1. Covered'
    BY <1>5 DEF SubmitLinks
  <2>2. Submitting' /\ Drained'
    BY <1>1, <1>3 DEF Submitting, Drained
  <2> QED
    BY <2>1, <2>2
<1>15. ASSUME NEW p \in Ops, p # o
       PROVE  SameAt(p) /\ NoNewLinks(p)
  <2>1. SameAt(p)
    BY <1>1, <1>10, <1>11, <1>12, <1>15 DEF SameAt, OthersKept
  <2>2. NoNewLinks(p)
    BY <1>5, <1>15 DEF SubmitLinks, NoNewLinks
  <2> QED
    BY <2>1, <2>2
<1>16. OpInv(o)'
  <2>1. /\ OpPending(o)' = Links(Op(o))' /\ CopPending(o)' = CopPending(o)
        /\ OpPending(o)' \in Nat
    BY <1>1, <1>7, <1>10 DEF OpPending, CopPending
  <2>2. CASE UNCHANGED CountVars /\ Links(Op(o))' <= Links(Op(o))
    <3>1. UNCHANGED <<refCount, completed, callback>>
      BY <2>2 DEF CountVars
    <3>2. Counted(o)'
      BY <1>7, <1>8, <1>9, <2>1, <2>2, <3>1 DEF Counted
    <3>3. Stopping(o)'
      BY <1>1, <1>8, <2>1, <3>1 DEF Stopping
    <3>4. Settled(o)'
      BY <1>1, <1>8, <3>1 DEF Settled
    <3>5. Closing(o)'
      BY <1>1, <1>4, <1>7, <1>8, <1>9, <1>11, <3>1 DEF Closing
    <3> QED
      BY <3>2, <3>3, <3>4, <3>5 DEF OpInv
  <2>3. CASE CountedDown(o) /\ kind[o] # "connect" /\ Links(Op(o))' + 1 = Links(Op(o))
    <3>1. Counted(o)'
      BY <1>7, <1>8, <1>9, <2>1, <2>3 DEF Counted, CountedDown
    <3>2. Stopping(o)'
      BY <1>1, <1>8, <2>1, <2>3 DEF Stopping, CountedDown
    <3>3. Settled(o)'
      BY <1>1, <1>4, <1>9, <2>3 DEF Settled, CountedDown
    <3>4. conn'[o] = "none"
      BY <1>8, <1>11, <2>3 DEF Closing
    <3> QED
      BY <1>1, <2>3, <3>1, <3>2, <3>3, <3>4 DEF OpInv, Closing
  <2>4. UNCHANGED CountVars => Links(Op(o))' <= Links(Op(o))
    BY <1>7
  <2>5. \/ UNCHANGED CountVars
        \/ CountedDown(o) /\ kind[o] # "connect" /\ Links(Op(o))' + 1 = Links(Op(o))
    BY <1>7, <1>12
  <2> QED
    BY <2>2, <2>3, <2>4, <2>5
<1> QED
  BY <1>13, <1>14, <1>15, <1>16, OneOpStep


-----------------------------------------------------------------------------
(***************************************************************************)
(* The whole specification.                                                *)
(***************************************************************************)

LEMMA InitEstablishes == Init => IInv
<1> SUFFICES ASSUME Init
             PROVE  IInv
  OBVIOUS
<1>1. Types
  <2>1. LoopTypes /\ QueueTypes
    BY DEF Init, LoopTypes, QueueTypes
  <2>2. RequestTypes /\ SlotTypes /\ InputTypes
    BY CqEntryCountAssumption, BoundsAssumption
       DEF Init, RequestTypes, SlotTypes, InputTypes
  <2>3. OpTypes
    <3>1. onPending \in [Ops -> BOOLEAN]
      BY DEF Init
    <3>2. kind \in [Ops -> Kinds] /\ request \in [Ops -> Requests \cup {None}]
      BY DEF Init
    <3>3. /\ refCount \in [Ops -> 0 .. 2] /\ completed \in [Ops -> 0 .. 1]
          /\ cancelFlag \in [Ops -> BOOLEAN] /\ desc \in [Ops -> BOOLEAN]
      BY DEF Init
    <3>4. /\ execute \in [Ops -> {"new", "start", "complete"}]
          /\ copExecute \in [Ops -> {"unset", "stopLocal", "stopComplete"}]
          /\ callback \in [Ops -> {"unset", "registered", "ran", "gone"}]
          /\ conn \in [Ops -> {"none", "open", "given", "disconnected"}]
          /\ stop \in [Ops -> {"no", "requested", "cas", "flag", "enqueue", "finished"}]
      BY DEF Init
    <3> QED
      BY <3>1, <3>2, <3>3, <3>4 DEF OpTypes
  <2> QED
    BY <2>1, <2>2, <2>3 DEF Types
<1>2. Live = {} /\ \A o \in Ops : LiveRequests(o) = {}
  <2>1. \A r \in Requests : requests[r] = Free
    BY DEF Init
  <2>2. Free.cb = None /\ None \notin Ops
    BY OpsAssumption DEF Free
  <2> QED
    BY <2>1, <2>2 DEF Live, LiveRequests
<1>3. LiveFinite /\ Cardinality(Live) = 0
  BY <1>2, FS_EmptySet DEF LiveFinite
<1>4. Covered
  BY <1>3 DEF Covered, Init
<1>5. ASSUME NEW o \in Ops
      PROVE  Links(Op(o)) = 0 /\ Links(Cop(o)) = 0
  <2>1. \A n : Queued(n) = 0 /\ RunningOnce(n) = 0
    BY TimesEmpty DEF Init, Queued, RunningOnce, Running
  <2>2. Reporting(o) = 0
    BY <1>2, FS_EmptySet DEF Reporting
  <2>3. LinksCounted
    BY <1>1, <1>3, LinksOf DEF Types
  <2> QED
    BY <2>1, <2>2, <2>3 DEF LinksCounted
<1>6. ASSUME NEW o \in Ops
      PROVE  OpInv(o)
  <2>1. /\ execute[o] = "new" /\ stop[o] = "no" /\ refCount[o] = 1
        /\ completed[o] = 0 /\ conn[o] = "none"
    BY DEF Init
  <2>2. OpPending(o) = 1 /\ CopPending(o) = 0
    BY <1>5, <2>1 DEF OpPending, CopPending
  <2> QED
    BY <2>1, <2>2 DEF OpInv, Counted, Stopping, Settled, Closing
<1>7. Submitting /\ Drained
  BY DEF Init, Submitting, Drained
<1> QED
  BY <1>1, <1>4, <1>6, <1>7, TypeSplit DEF IInv

LEMMA StutterKeeps == IInv /\ UNCHANGED vars => IInv'
<1> SUFFICES ASSUME IInv, UNCHANGED vars
             PROVE  IInv'
  OBVIOUS
<1>1. /\ UNCHANGED <<pc, cur, back, cq, sqUnflushedCount, requests, stop>>
      /\ UNCHANGED queueVars /\ UNCHANGED inputVars /\ UNCHANGED opVars
  BY DEF vars
<1>2. UNCHANGED <<kind, execute, copExecute, callback, refCount, cancelFlag,
                  onPending, request, desc, conn, completed>>
  BY <1>1 DEF opVars
<1>3. LoopTypes /\ QueueTypes /\ RequestTypes /\ SlotTypes /\ InputTypes /\ OpTypes
  BY InvTypes
<1>4. Covered /\ LiveFinite /\ Submitting /\ Drained
  BY DEF IInv, Covered
<1>5. TypeOK'
  <2>1. LoopTypes' /\ RequestTypes' /\ SlotTypes' /\ OpTypes'
    BY <1>1, <1>2, <1>3 DEF LoopTypes, RequestTypes, SlotTypes, OpTypes
  <2>2. QueueTypes' /\ InputTypes'
    BY <1>1, <1>3 DEF QueueTypes, InputTypes, queueVars, inputVars
  <2>3. Types'
    BY <2>1, <2>2 DEF Types
  <2> QED
    BY <2>3, TypeSplit, PTL
<1>6. /\ \A n : Links(n)' = Links(n)
      /\ Live' = Live /\ LiveFinite'
  BY <1>1, <1>4, LinksSame
<1>7. Covered' /\ Submitting' /\ Drained'
  BY <1>1, <1>2, <1>4, <1>6 DEF Covered, Submitting, Drained, queueVars
<1>8. ASSUME NEW p \in Ops
      PROVE  OpInv(p)'
  <2>1. SameAt(p)
    BY <1>1, <1>2 DEF SameAt
  <2>2. Links(Op(p)) \in Nat /\ Links(Cop(p)) \in Nat
    BY <1>3, <1>4, LinksOf DEF LinksCounted
  <2>3. Links(Op(p))' = Links(Op(p)) /\ Links(Cop(p))' = Links(Cop(p))
    BY <1>6
  <2>4. NoNewLinks(p)
    BY <2>2, <2>3 DEF NoNewLinks
  <2>5. OpInv(p)
    BY DEF IInv
  <2> QED
    BY <1>3, <2>1, <2>4, <2>5, OpKept
<1> QED
  BY <1>5, <1>7, <1>8 DEF IInv

LEMMA NextKeeps == IInv /\ [Next]_vars => IInv'
<1> SUFFICES ASSUME IInv, [Next]_vars
             PROVE  IInv'
  OBVIOUS
<1>1. CASE IoThread
  <2>1. CASE TakeLocal \/ AcquireItems \/ TakePendingIo \/ EndPendingIo
             \/ EndProgress \/ ExecuteFreed
    BY <2>1, TakeLocalKeeps, AcquireItemsKeeps, TakePendingIoKeeps, EndPendingIoKeeps,
       EndProgressKeeps, ExecuteFreedKeeps
  <2>2. ASSUME NEW o \in Ops,
               \/ ExecuteStart(o) \/ ExecuteComplete(o) \/ ExecuteStopLocal(o)
               \/ ExecuteStopComplete(o) \/ SubmitIo(o)
        PROVE  IInv'
    BY <2>2, ExecuteStartKeeps, ExecuteCompleteKeeps, ExecuteStopLocalKeeps,
       ExecuteStopCompleteKeeps, SubmitIoKeeps
  <2> QED
    BY <1>1, <2>1, <2>2 DEF IoThread
<1>2. CASE Crashed \/ UNCHANGED vars
  BY <1>2, StutterKeeps DEF Crashed
<1>3. CASE Tasks
  BY <1>3, StartOnIoThreadKeeps, StopOnIoThreadKeeps DEF Tasks
<1>4. CASE Ucx
  BY <1>4, MessageArrivesKeeps, ConnRequestArrivesKeeps, RequestCompletesKeeps DEF Ucx
<1>5. ASSUME NEW o \in Ops, StartRemote(o) \/ StopRequested(o) \/ Stopper(o)
      PROVE  IInv'
  BY <1>5, StartRemoteKeeps, StopRequestedKeeps, StopLoadPendingKeeps, StopCasKeeps,
     StopSetFlagKeeps, RequestStopRemoteKeeps DEF Stopper
<1> QED
  BY <1>1, <1>2, <1>3, <1>4, <1>5 DEF Next

\* In every reachable state refCount_ covers whatever leads to the operation,
\* the slots cover the requests that report, and a connection that a cancelled
\* connect opened has a cop_ coming for it.
THEOREM CancelInvariant == Spec => []IInv
BY InitEstablishes, NextKeeps, PTL DEF Spec

\* However stop requests, starts, completions and a full ring interleave, no
\* node of an operation is ever linked twice in the intrusive queues, in the
\* ring and in the callbacks of requests, and nothing leads any more to a
\* connect or a receive into a buffer whose receiver has been called.
THEOREM NodesLinkedOnce == Spec => []LinkedOnce
<1>1. IInv => LinkedOnce
  <2> SUFFICES ASSUME IInv
               PROVE  LinkedOnce
    OBVIOUS
  <2>1. TypeOK /\ LinksCounted
    BY InvTypes, LinksOf DEF IInv, Covered
  <2>2. ASSUME NEW o \in Ops
        PROVE  /\ Links(Op(o)) \in Nat /\ Links(Cop(o)) \in Nat
               /\ Links(Op(o)) <= 1 /\ Links(Cop(o)) <= 1
               /\ Links(Op(o)) + Links(Cop(o)) <= refCount[o]
               /\ kind[o] \in SymmetricKinds /\ completed[o] > 0 => refCount[o] = 0
    <3>1. Links(Op(o)) \in Nat /\ Links(Cop(o)) \in Nat
      BY <2>1 DEF LinksCounted
    <3>2. Counted(o) /\ Settled(o) /\ refCount[o] \in 0 .. 2
      BY InvTypes DEF IInv, OpInv, OpTypes
    <3>3. /\ OpPending(o) >= Links(Op(o)) /\ CopPending(o) >= Links(Cop(o))
          /\ OpPending(o) \in Nat /\ CopPending(o) \in Nat
      BY <3>1 DEF OpPending, CopPending
    <3>4. /\ Links(Op(o)) <= 1 /\ Links(Cop(o)) <= 1
          /\ Links(Op(o)) + Links(Cop(o)) <= refCount[o]
      BY <3>1, <3>2, <3>3 DEF Counted
    <3> QED
      BY <3>1, <3>2, <3>4 DEF Settled
  <2>3. InOnePlace
    <3>1. \A n \in Nodes : \E o \in Ops : n = Op(o) \/ n = Cop(o)
      BY DEF Nodes, Op, Cop
    <3> QED
      BY <2>2, <3>1 DEF InOnePlace
  <2>4. SymmetricIsUnlinked
    BY <2>2 DEF SymmetricIsUnlinked, Unlinked
  <2> QED
    BY <2>1, <2>3, <2>4 DEF LinkedOnce
<1> QED
  BY <1>1, CancelInvariant, PTL

\* Every request that will report to an operation holds one of the slots that
\* sqUnflushedCount_ counts, though a cancelled send gives up its request and
\* the ring may be full.
THEOREM RequestsHaveSlots == Spec => []SlotsCoverRequests
<1>1. IInv => SlotsCoverRequests
  <2>1. UNION {LiveRequests(o) : o \in Ops} = Live
    BY DEF LiveRequests, Live
  <2> QED
    BY <2>1 DEF IInv, Covered, SlotsCoverRequests
<1> QED
  BY <1>1, CancelInvariant, PTL

\* When the receiver of a connect is called, an open connection was given to it
\* and its stop did not take refCount_ first, or the stop came too late to do so
\* and the stop_requested() branch of on_connect left the connection open.
THEOREM ConnectionsAccountedFor == Spec => []ConnectionAccounted
<1>1. IInv => ConnectionAccounted
  <2> SUFFICES ASSUME IInv, NEW o \in Ops, completed[o] > 0
               PROVE  /\ conn[o] = "open" => StopTooLate(o)
                      /\ conn[o] = "given" => ~cancelFlag[o]
    BY DEF ConnectionAccounted
  <2>1. LinksCounted /\ Counted(o) /\ Settled(o) /\ Closing(o)
    BY InvTypes, LinksOf DEF IInv, Covered, OpInv
  <2>2. ASSUME conn[o] = "open", cancelFlag[o]
        PROVE  FALSE
    <3>1. kind[o] \in SymmetricKinds
      BY <2>1, <2>2 DEF Closing, SymmetricKinds
    <3>2. refCount[o] = 0
      BY <2>1, <3>1 DEF Settled
    <3>3. Links(Op(o)) \in Nat /\ Links(Cop(o)) \in Nat
      BY <2>1 DEF LinksCounted
    <3>4. CopPending(o) = 0
      BY <2>1, <3>2, <3>3 DEF Counted, OpPending, CopPending
    <3> QED
      BY <2>1, <2>2, <3>3, <3>4 DEF Closing, CopPending
  <2> QED
    BY <2>1, <2>2 DEF Closing, StopTooLate
<1> QED
  BY <1>1, CancelInvariant, PTL

=============================================================================
