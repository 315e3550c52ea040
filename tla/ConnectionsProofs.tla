--------------------------- MODULE ConnectionsProofs ---------------------------
(***************************************************************************)
(* Proofs about Connections for any connections, endpoints and requests:   *)
(* ConnectionManager loses no connection and no slot and holds none twice, *)
(* ids lead to the connection that has the endpoint, every callback of a   *)
(* request is called once, and the destructor leaves nothing behind.       *)
(***************************************************************************)
EXTENDS Connections, FiniteSetTheorems, FunctionTheorems, SequenceTheorems, TLAPS

-----------------------------------------------------------------------------
(***************************************************************************)
(* The inductive invariant.                                                *)
(***************************************************************************)

ActiveMaps == UNION {[E -> Nat] : E \in SUBSET Eps}

MgrRecords ==
    [connections : Seq(Conns \cup {None}), freeSlots : Seq(Nat),
     activeMap : ActiveMaps, inactiveMap : {<<>>},
     failedConns : Seq(Conns), disconnectingConns : Seq(Conns)]

ConnRecords ==
    [life : {"unborn", "live", "gone"}, ep : Eps \cup {None},
     status : {"ok", "error"}, disconnecting : BOOLEAN,
     closing : Eps \cup {None}]

EpRecords ==
    [state : {"free", "open", "failed", "closing"}, handler : Conns \cup {None}]

ReqRecords ==
    [out : BOOLEAN, conn : Conns \cup {None}, callback : BOOLEAN, called : Nat]

Typed ==
    /\ pc \in Places
    /\ cur \in [conn : Conns \cup {None}, back : Places]
    /\ todo \in Seq(Conns)
    /\ mgr \in MgrRecords
    /\ conn \in [Conns -> ConnRecords]
    /\ ep \in [Eps -> EpRecords]
    /\ req \in [Requests -> ReqRecords]
    /\ connReqs \in 0 .. MaxConnReqs
    /\ pc = "accept" => connReqs > 0

Has(s, x) == \E i \in DOMAIN s : s[i] = x

NoRepeats(s) == \A i, j \in DOMAIN s : s[i] = s[j] => i = j

\* The connection that an entry of active_map_ leads to.
Found(m, e) == m.connections[m.activeMap[e]]

Listed(m, c) ==
    Has(m.connections, c) \/ Has(m.failedConns, c) \/ Has(m.disconnectingConns, c)

\* A connection is in one place of one of the three lists.
ListedOnce(m) ==
    /\ \A s, t \in DOMAIN m.connections :
         m.connections[s] # None /\ m.connections[s] = m.connections[t] => s = t
    /\ NoRepeats(m.failedConns) /\ NoRepeats(m.disconnectingConns)
    /\ \A c \in Conns :
         /\ ~(Has(m.connections, c) /\ Has(m.failedConns, c))
         /\ ~(Has(m.connections, c) /\ Has(m.disconnectingConns, c))
         /\ ~(Has(m.failedConns, c) /\ Has(m.disconnectingConns, c))

\* A slot is taken when an entry of active_map_ has it, and a slot in
\* freeSlots_ is empty.
SlotsKept(m) ==
    /\ \A e \in DOMAIN m.activeMap : /\ m.activeMap[e] \in DOMAIN m.connections
                                     /\ Found(m, e) # None
    /\ \A d, e \in DOMAIN m.activeMap : m.activeMap[d] = m.activeMap[e] => d = e
    /\ \A s \in DOMAIN m.connections :
         m.connections[s] # None => \E e \in DOMAIN m.activeMap : m.activeMap[e] = s
    /\ NoRepeats(m.freeSlots)
    /\ \A i \in DOMAIN m.freeSlots : /\ m.freeSlots[i] \in DOMAIN m.connections
                                     /\ m.connections[m.freeSlots[i]] = None

\* No slot is lost.
NoneLost(m) ==
    \A s \in DOMAIN m.connections : m.connections[s] = None => Has(m.freeSlots, s)

Slotted ==
    IF pc = "destroyed"
    THEN mgr.connections = <<>> /\ mgr.failedConns = <<>>
           /\ mgr.disconnectingConns = <<>> /\ mgr.activeMap = <<>>
    ELSE SlotsKept(mgr) /\ (SlotsInUse => NoneLost(mgr))

Living == \A c \in Conns : conn[c].life = "live" <=> Listed(mgr, c)

\* Endpoints and the connections that have them.
Owned ==
    /\ \A c \in Conns : conn[c].ep # None =>
         conn[c].life = "live" /\ ep[conn[c].ep].state \in {"open", "failed"}
    /\ \A c, d \in Conns : conn[c].ep # None /\ conn[c].ep = conn[d].ep => c = d
    /\ \A e \in Eps : ep[e].state \in {"open", "failed"} =>
         \E c \in Conns : conn[c].ep = e
    /\ \A e \in Eps : ep[e].handler # None => conn[ep[e].handler].ep = e

Active ==
    \A e \in DOMAIN mgr.activeMap :
        conn[Found(mgr, e)].ep = e /\ conn[Found(mgr, e)].status = "ok"

\* disconnect_direct works on connections of the failed and disconnecting
\* lists, and so do the loops that call it and disconnect().
AtWork ==
    /\ pc # "direct" => cur = [conn |-> None, back |-> "run"]
    /\ pc = "direct" =>
         /\ cur.conn \in Conns
         /\ \/ cur.back = "dispatch" /\ Has(mgr.disconnectingConns, cur.conn)
            \/ cur.back = "directFailed" /\ Has(mgr.failedConns, cur.conn)
            \/ /\ cur.back = "directRest"
               /\ \/ Has(mgr.failedConns, cur.conn)
                  \/ Has(mgr.disconnectingConns, cur.conn)
    /\ \A i \in DOMAIN todo :
         /\ pc = "directFailed" \/ cur.back = "directFailed" =>
              Has(mgr.failedConns, todo[i])
         /\ pc = "disconnectAll" => Has(mgr.disconnectingConns, todo[i])
         /\ pc = "directRest" \/ cur.back = "directRest" =>
              \/ Has(mgr.failedConns, todo[i])
              \/ Has(mgr.disconnectingConns, todo[i])

\* While failed connections wait for their handler.
FailedWait == pc \in {"run", "accept", "dispatch"} \/ cur.back = "dispatch"

Failed ==
    FailedWait =>
        \A i \in DOMAIN mgr.failedConns :
            LET c == mgr.failedConns[i]
            IN conn[c].ep # None /\ ep[conn[c].ep].state = "failed"

Requested ==
    \A r \in Requests :
        /\ req[r].called = IF req[r].out /\ req[r].callback THEN 0 ELSE 1
        /\ req[r].callback => req[r].conn # None
        /\ req[r].conn # None => req[r].out /\ conn[req[r].conn].life = "live"

IInv ==
    /\ Typed /\ ListedOnce(mgr) /\ Slotted /\ Living /\ Owned /\ Active
    /\ AtWork /\ Failed /\ Requested

-----------------------------------------------------------------------------
(***************************************************************************)
(* Sequences and functions.                                                *)
(***************************************************************************)

LEMMA EmptyMap == <<>> \in ActiveMaps /\ \A f : DOMAIN f = {} /\ f \in ActiveMaps => f = <<>>
<1>1. <<>> \in [{} -> Nat]
  OBVIOUS
<1>2. ASSUME NEW f, DOMAIN f = {}, f \in ActiveMaps
      PROVE  f = <<>>
  <2>1. PICK E \in SUBSET Eps : f \in [E -> Nat]
    BY <1>2 DEF ActiveMaps
  <2> QED
    BY <1>2, <2>1
<1> QED
  BY <1>1, <1>2 DEF ActiveMaps

(* A map without or with an entry is a map.                                *)
LEMMA MapFacts ==
    ASSUME NEW f \in ActiveMaps
    PROVE  DOMAIN f \in SUBSET Eps /\ \A e \in DOMAIN f : f[e] \in Nat
<1>1. PICK E \in SUBSET Eps : f \in [E -> Nat]
  BY DEF ActiveMaps
<1> QED
  BY <1>1

LEMMA EraseFacts ==
    ASSUME NEW f \in ActiveMaps, NEW id
    PROVE  /\ Erase(f, id) \in ActiveMaps
           /\ DOMAIN Erase(f, id) = DOMAIN f \ {id}
           /\ \A e \in DOMAIN f : e # id => Erase(f, id)[e] = f[e]
<1>1. PICK E \in SUBSET Eps : f \in [E -> Nat]
  BY DEF ActiveMaps
<1>2. Erase(f, id) \in [E \ {id} -> Nat]
  BY <1>1 DEF Erase
<1> QED
  BY <1>1, <1>2 DEF ActiveMaps, Erase

LEMMA InsertFacts ==
    ASSUME NEW f \in ActiveMaps, NEW id \in Eps, NEW s \in Nat
    PROVE  /\ Insert(f, id, s) \in ActiveMaps
           /\ DOMAIN Insert(f, id, s) = DOMAIN f \cup {id}
           /\ Insert(f, id, s)[id] = s
           /\ \A e \in DOMAIN f : e # id => Insert(f, id, s)[e] = f[e]
<1>1. PICK E \in SUBSET Eps : f \in [E -> Nat]
  BY DEF ActiveMaps
<1>2. Insert(f, id, s) \in [E \cup {id} -> Nat]
  BY <1>1 DEF Insert
<1> QED
  BY <1>1, <1>2 DEF ActiveMaps, Insert

LEMMA AppendFacts ==
    ASSUME NEW T, NEW s \in Seq(T), NEW a \in T
    PROVE  /\ Append(s, a) \in Seq(T)
           /\ \A x : Has(Append(s, a), x) <=> Has(s, x) \/ x = a
           /\ NoRepeats(s) /\ ~Has(s, a) => NoRepeats(Append(s, a))
<1> DEFINE t == Append(s, a)
<1>1. PICK l \in Nat : l = Len(s)
  OBVIOUS
<1>2. DOMAIN s = 1 .. l /\ DOMAIN t = 1 .. l + 1 /\ t \in Seq(T)
  BY <1>1
<1>3. t[l + 1] = a /\ \A i \in 1 .. l : t[i] = s[i]
  BY <1>1
<1>4. \A i \in 1 .. l + 1 : i = l + 1 \/ i \in 1 .. l
  OBVIOUS
<1>5. l + 1 \in 1 .. l + 1 /\ \A i \in 1 .. l : i \in 1 .. l + 1
  OBVIOUS
<1> HIDE DEF t
<1>6. \A x : Has(t, x) <=> Has(s, x) \/ x = a
  BY <1>2, <1>3, <1>4, <1>5 DEF Has
<1>7. NoRepeats(s) /\ ~Has(s, a) => NoRepeats(t)
  BY <1>2, <1>3, <1>4 DEF Has, NoRepeats
<1> QED
  BY <1>2, <1>6, <1>7 DEF t

LEMMA TailFacts ==
    ASSUME NEW T, NEW s \in Seq(T), s # <<>>
    PROVE  /\ Tail(s) \in Seq(T) /\ Head(s) \in T /\ Has(s, Head(s))
           /\ \A x : Has(Tail(s), x) => Has(s, x)
           /\ \A x : Has(s, x) => Has(Tail(s), x) \/ x = Head(s)
           /\ NoRepeats(s) => NoRepeats(Tail(s)) /\ ~Has(Tail(s), Head(s))
<1> DEFINE t == Tail(s)
<1>1. PICK l \in Nat : l + 1 = Len(s)
  <2>1. Len(s) \in Nat /\ Len(s) # 0
    OBVIOUS
  <2> QED
    BY <2>1
<1>2. DOMAIN s = 1 .. l + 1 /\ DOMAIN t = 1 .. l /\ t \in Seq(T) /\ Head(s) = s[1]
  BY <1>1
<1>3. \A i \in 1 .. l : t[i] = s[i + 1] /\ i + 1 \in 1 .. l + 1 /\ i + 1 # 1
  BY <1>1
<1>4. \A i \in 1 .. l + 1 : i = 1 \/ (i - 1 \in 1 .. l /\ (i - 1) + 1 = i)
  OBVIOUS
<1>5. 1 \in 1 .. l + 1
  OBVIOUS
<1>6. Head(s) \in T
  OBVIOUS
<1> HIDE DEF t
<1>7. Has(s, Head(s)) /\ \A x : Has(t, x) => Has(s, x)
  BY <1>2, <1>3, <1>5 DEF Has
<1>8. \A x : Has(s, x) => Has(t, x) \/ x = Head(s)
  <2> SUFFICES ASSUME NEW x, NEW i \in 1 .. l + 1, s[i] = x, i # 1
               PROVE  \E j \in 1 .. l : t[j] = x
    BY <1>2 DEF Has
  <2>1. i - 1 \in 1 .. l /\ t[i - 1] = s[i]
    BY <1>3, <1>4
  <2> QED
    BY <2>1
<1>9. NoRepeats(s) => NoRepeats(t) /\ ~Has(t, Head(s))
  <2> SUFFICES ASSUME NoRepeats(s) PROVE NoRepeats(t) /\ ~Has(t, Head(s))
    OBVIOUS
  <2>1. \A i, j \in 1 .. l + 1 : s[i] = s[j] => i = j
    BY <1>2 DEF NoRepeats
  <2>2. \A i, j \in 1 .. l : t[i] = t[j] => i + 1 = j + 1
    BY <1>3, <2>1
  <2>3. NoRepeats(t)
    BY <1>2, <2>2 DEF NoRepeats
  <2>4. \A i \in 1 .. l : t[i] # s[1]
    BY <1>3, <1>5, <2>1
  <2> QED
    BY <1>2, <2>3, <2>4 DEF Has
<1> QED
  BY <1>2, <1>6, <1>7, <1>8, <1>9 DEF t

LEMMA ConcatFacts ==
    ASSUME NEW T, NEW s \in Seq(T), NEW t \in Seq(T)
    PROVE  /\ s \o t \in Seq(T)
           /\ \A o : Has(s \o t, o) <=> Has(s, o) \/ Has(t, o)
           /\ NoRepeats(s) /\ NoRepeats(t) /\ (\A o : ~(Has(s, o) /\ Has(t, o)))
                => NoRepeats(s \o t)
<1> DEFINE c == s \o t
<1>1. /\ c \in Seq(T) /\ Len(c) = Len(s) + Len(t)
      /\ \A i \in 1 .. Len(c) : c[i] = IF i <= Len(s) THEN s[i] ELSE t[i - Len(s)]
      /\ Len(s) \in Nat /\ Len(t) \in Nat
      /\ DOMAIN c = 1 .. Len(c) /\ DOMAIN s = 1 .. Len(s) /\ DOMAIN t = 1 .. Len(t)
  BY ConcatProperties
<1> HIDE DEF c
<1>2. ASSUME NEW i \in 1 .. Len(c)
      PROVE  \/ i \in 1 .. Len(s) /\ c[i] = s[i]
             \/ i - Len(s) \in 1 .. Len(t) /\ c[i] = t[i - Len(s)] /\ i > Len(s)
  BY <1>1
<1>3. \A o : Has(c, o) <=> Has(s, o) \/ Has(t, o)
  <2> TAKE o
  <2>1. Has(c, o) => Has(s, o) \/ Has(t, o)
    BY <1>1, <1>2 DEF Has
  <2>2. Has(s, o) => Has(c, o)
    <3> SUFFICES ASSUME NEW i \in 1 .. Len(s), s[i] = o
                 PROVE  Has(c, o)
      BY <1>1 DEF Has
    <3>1. i \in 1 .. Len(c) /\ c[i] = o
      BY <1>1
    <3> QED
      BY <1>1, <3>1 DEF Has
  <2>3. Has(t, o) => Has(c, o)
    <3> SUFFICES ASSUME NEW i \in 1 .. Len(t), t[i] = o
                 PROVE  Has(c, o)
      BY <1>1 DEF Has
    <3> DEFINE j == i + Len(s)
    <3>1. j \in 1 .. Len(c) /\ ~(j <= Len(s)) /\ j - Len(s) = i
      BY <1>1
    <3>2. c[j] = o
      BY <1>1, <3>1
    <3> QED
      BY <1>1, <3>1, <3>2 DEF Has
  <2> QED
    BY <2>1, <2>2, <2>3
<1>4. ASSUME NoRepeats(s), NoRepeats(t), \A o : ~(Has(s, o) /\ Has(t, o))
      PROVE  NoRepeats(c)
  <2> SUFFICES ASSUME NEW i \in 1 .. Len(c), NEW j \in 1 .. Len(c), c[i] = c[j]
               PROVE  i = j
    BY <1>1 DEF NoRepeats
  <2>1. CASE i \in 1 .. Len(s) /\ c[i] = s[i]
    <3>1. Has(s, c[i])
      BY <1>1, <2>1 DEF Has
    <3>2. ~Has(t, c[j])
      BY <1>4, <3>1
    <3>3. j \in 1 .. Len(s) /\ c[j] = s[j]
      BY <1>1, <1>2, <3>2 DEF Has
    <3> QED
      BY <1>1, <1>4, <2>1, <3>3 DEF NoRepeats
  <2>2. CASE i - Len(s) \in 1 .. Len(t) /\ c[i] = t[i - Len(s)] /\ i > Len(s)
    <3>1. Has(t, c[i])
      BY <1>1, <2>2 DEF Has
    <3>2. ~Has(s, c[j])
      BY <1>4, <3>1
    <3>3. j - Len(s) \in 1 .. Len(t) /\ c[j] = t[j - Len(s)] /\ j > Len(s)
      BY <1>1, <1>2, <3>2 DEF Has
    <3>4. i - Len(s) = j - Len(s)
      BY <1>1, <1>4, <2>2, <3>3 DEF NoRepeats
    <3> QED
      BY <1>1, <3>4
  <2> QED
    BY <1>2, <2>1, <2>2
<1> QED
  BY <1>1, <1>3, <1>4 DEF c

(* SetToSeq lists a finite set, each element once.                         *)
LEMMA SetToSeqFacts ==
    ASSUME NEW S, IsFiniteSet(S)
    PROVE  /\ SetToSeq(S) \in Seq(S)
           /\ \A x : Has(SetToSeq(S), x) <=> x \in S
           /\ NoRepeats(SetToSeq(S))
<1> DEFINE n == Cardinality(S)
           ids == SetToSeq(S)
<1>1. n \in Nat /\ ExistsBijection(1 .. n, S)
  BY FS_CardinalityType
<1> HIDE DEF n
<1>2. \E f \in [1 .. n -> S] : IsInjective(f)
  BY <1>1 DEF ExistsBijection, Bijection, Injection
<1>3. ids \in [1 .. n -> S] /\ IsInjective(ids)
  BY <1>2 DEF SetToSeq, n
<1> HIDE DEF ids
<1>4. IsFiniteSet(1 .. n) /\ Cardinality(1 .. n) = n
  BY <1>1, FS_Interval
<1>5. ids \in Injection(1 .. n, S)
  BY <1>3 DEF Injection
<1>6. ids \in Surjection(1 .. n, S)
  BY <1>4, <1>5, FS_Injection DEF n
<1>7. \A x \in S : \E i \in 1 .. n : ids[i] = x
  BY <1>6 DEF Surjection
<1>8. DOMAIN ids = 1 .. n /\ ids \in Seq(S)
  BY <1>1, <1>3
<1>9. \A x : Has(ids, x) <=> x \in S
  BY <1>3, <1>7, <1>8 DEF Has
<1>10. NoRepeats(ids)
  BY <1>3, <1>8 DEF NoRepeats, IsInjective
<1> QED
  BY <1>8, <1>9, <1>10 DEF ids

(* A part of a sequence, in its order.                                     *)
Part(s, at) == [i \in DOMAIN at |-> s[at[i]]]

LEMMA AscendingFacts ==
    ASSUME NEW T, NEW s \in Seq(T), NEW kept \in SUBSET DOMAIN s,
           NEW at \in Ascending(kept), NEW t, t = Part(s, at)
    PROVE  /\ t \in Seq(T)
           /\ \A x : Has(t, x) <=> \E i \in kept : s[i] = x
           /\ NoRepeats(s) => NoRepeats(t)
<1>1. DOMAIN s = 1 .. Len(s) /\ Len(s) \in Nat
  OBVIOUS
<1>2. PICK n \in Nat : n = Cardinality(kept)
  <2>1. IsFiniteSet(1 .. Len(s))
    BY <1>1, FS_Interval
  <2>2. IsFiniteSet(kept)
    BY <1>1, <2>1, FS_Subset
  <2> QED
    BY <2>2, FS_CardinalityType
<1>3. /\ at \in [1 .. n -> kept] /\ DOMAIN at = 1 .. n
      /\ \A i, j \in 1 .. n : i < j => at[i] < at[j]
      /\ \A k \in kept : \E i \in 1 .. n : at[i] = k
  BY <1>2 DEF Ascending
<1>4. \A i \in 1 .. n : at[i] \in kept /\ at[i] \in DOMAIN s /\ at[i] \in Nat
  BY <1>1, <1>3
<1>5. DOMAIN t = 1 .. n /\ \A i \in 1 .. n : t[i] = s[at[i]]
  BY <1>3 DEF Part
<1>6. t \in Seq(T)
  <2>1. \A i \in 1 .. n : s[at[i]] \in T
    BY <1>4
  <2>2. t \in [1 .. n -> T]
    BY <1>3, <2>1 DEF Part
  <2> QED
    BY <2>2
<1>7. \A x : Has(t, x) <=> \E i \in kept : s[i] = x
  <2> SUFFICES ASSUME NEW x
               PROVE  (\E i \in 1 .. n : t[i] = x) <=> (\E i \in kept : s[i] = x)
    BY <1>5 DEF Has
  <2>1. ASSUME NEW i \in 1 .. n, t[i] = x
        PROVE  \E k \in kept : s[k] = x
    BY <1>4, <1>5, <2>1
  <2>2. ASSUME NEW k \in kept, s[k] = x
        PROVE  \E i \in 1 .. n : t[i] = x
    BY <1>3, <1>5, <2>2
  <2> QED
    BY <2>1, <2>2
<1>8. NoRepeats(s) => NoRepeats(t)
  <2> SUFFICES ASSUME NoRepeats(s), NEW i \in 1 .. n, NEW j \in 1 .. n, t[i] = t[j]
               PROVE  i = j
    BY <1>5 DEF NoRepeats
  <2>1. at[i] = at[j]
    BY <1>4, <1>5 DEF NoRepeats
  <2>2. ~(at[i] < at[j]) /\ ~(at[j] < at[i])
    BY <1>4, <2>1
  <2>3. ~(i < j) /\ ~(j < i)
    BY <1>3, <2>2
  <2> QED
    BY <2>3
<1> QED
  BY <1>6, <1>7, <1>8

-----------------------------------------------------------------------------
(***************************************************************************)
(* The operations of ConnectionManager, on any manager.                    *)
(***************************************************************************)

LEMMA MgrFields ==
    ASSUME NEW m \in MgrRecords
    PROVE  /\ m.connections \in Seq(Conns \cup {None})
           /\ m.freeSlots \in Seq(Nat)
           /\ m.activeMap \in ActiveMaps
           /\ m.inactiveMap = <<>>
           /\ m.failedConns \in Seq(Conns)
           /\ m.disconnectingConns \in Seq(Conns)
           /\ DOMAIN m.activeMap \in SUBSET Eps
           /\ \A e \in DOMAIN m.activeMap : m.activeMap[e] \in Nat
           /\ DOMAIN m.connections \in SUBSET Nat
           /\ m = [connections |-> m.connections, freeSlots |-> m.freeSlots,
                   activeMap |-> m.activeMap, inactiveMap |-> m.inactiveMap,
                   failedConns |-> m.failedConns,
                   disconnectingConns |-> m.disconnectingConns]
<1>1. /\ m.connections \in Seq(Conns \cup {None})
      /\ m.freeSlots \in Seq(Nat)
      /\ m.activeMap \in ActiveMaps
      /\ m.inactiveMap = <<>>
      /\ m.failedConns \in Seq(Conns)
      /\ m.disconnectingConns \in Seq(Conns)
      /\ m = [connections |-> m.connections, freeSlots |-> m.freeSlots,
              activeMap |-> m.activeMap, inactiveMap |-> m.inactiveMap,
              failedConns |-> m.failedConns,
              disconnectingConns |-> m.disconnectingConns]
  BY DEF MgrRecords
<1>2. DOMAIN m.activeMap \in SUBSET Eps /\ \A e \in DOMAIN m.activeMap : m.activeMap[e] \in Nat
  BY <1>1, MapFacts
<1>3. DOMAIN m.connections \in SUBSET Nat
  <2>1. DOMAIN m.connections = 1 .. Len(m.connections) /\ Len(m.connections) \in Nat
    BY <1>1
  <2> QED
    BY <2>1
<1> QED
  BY <1>1, <1>2, <1>3

\* The record of a manager.
Manager(connections, freeSlots, activeMap, inactiveMap, failed, disconnecting) ==
    [connections |-> connections, freeSlots |-> freeSlots,
     activeMap |-> activeMap, inactiveMap |-> inactiveMap,
     failedConns |-> failed, disconnectingConns |-> disconnecting]

LEMMA ManagerFields ==
    ASSUME NEW a, NEW b, NEW c, NEW d, NEW e, NEW f, NEW m, m = Manager(a, b, c, d, e, f)
    PROVE  /\ m.connections = a /\ m.freeSlots = b /\ m.activeMap = c
           /\ m.inactiveMap = d /\ m.failedConns = e /\ m.disconnectingConns = f
           /\ /\ a \in Seq(Conns \cup {None}) /\ b \in Seq(Nat) /\ c \in ActiveMaps
              /\ d = <<>> /\ e \in Seq(Conns) /\ f \in Seq(Conns)
              => m \in MgrRecords
<1>1. /\ m.connections = a /\ m.freeSlots = b /\ m.activeMap = c
      /\ m.inactiveMap = d /\ m.failedConns = e /\ m.disconnectingConns = f
  BY DEF Manager
<1>2. ASSUME a \in Seq(Conns \cup {None}), b \in Seq(Nat), c \in ActiveMaps,
             d = <<>>, e \in Seq(Conns), f \in Seq(Conns)
      PROVE  m \in MgrRecords
  BY <1>2 DEF Manager, MgrRecords
<1> QED
  BY <1>1, <1>2

\* What the operations change of a manager.
Emptied(connections, slot) == [connections EXCEPT ![slot] = None]

FailedExcept(m, s, x, y, z) ==
    [m EXCEPT !["failedConns"] = x, !.connections[s] = None,
              !["activeMap"] = y, !.freeSlots = z]

DisconnectingExcept(m, s, x, y, z) ==
    [m EXCEPT !["disconnectingConns"] = x, !.connections[s] = None,
              !["inactiveMap"] = y, !.freeSlots = z]

MapsExcept(m, x, y) == [m EXCEPT !.activeMap = x, !.inactiveMap = y]

LEMMA ManagerExceptFailed ==
    ASSUME NEW a, NEW b, NEW c, NEW d, NEW e, NEW f, NEW m, m = Manager(a, b, c, d, e, f),
           NEW s, NEW x, NEW y, NEW z
    PROVE  FailedExcept(m, s, x, y, z) = Manager(Emptied(a, s), z, y, d, x, f)
<1> DEFINE m1 == [m EXCEPT !["failedConns"] = x]
           m2 == [m1 EXCEPT !.connections[s] = None]
           m3 == [m2 EXCEPT !["activeMap"] = y]
           m4 == [m3 EXCEPT !.freeSlots = z]
<1>1. FailedExcept(m, s, x, y, z) = m4
  BY DEF FailedExcept
<1>2. m1 = Manager(a, b, c, d, x, f)
  BY DEF Manager
<1> HIDE DEF m1
<1>3. m2 = Manager(Emptied(a, s), b, c, d, x, f)
  BY <1>2 DEF Manager, Emptied
<1> HIDE DEF m2
<1>4. m3 = Manager(Emptied(a, s), b, y, d, x, f)
  BY <1>3 DEF Manager
<1> HIDE DEF m3
<1>5. m4 = Manager(Emptied(a, s), z, y, d, x, f)
  BY <1>4 DEF Manager
<1> QED
  BY <1>1, <1>5

LEMMA ManagerExceptDisconnecting ==
    ASSUME NEW a, NEW b, NEW c, NEW d, NEW e, NEW f, NEW m, m = Manager(a, b, c, d, e, f),
           NEW s, NEW x, NEW y, NEW z
    PROVE  DisconnectingExcept(m, s, x, y, z) = Manager(Emptied(a, s), z, c, y, e, x)
<1> DEFINE m1 == [m EXCEPT !["disconnectingConns"] = x]
           m2 == [m1 EXCEPT !.connections[s] = None]
           m3 == [m2 EXCEPT !["inactiveMap"] = y]
           m4 == [m3 EXCEPT !.freeSlots = z]
<1>1. DisconnectingExcept(m, s, x, y, z) = m4
  BY DEF DisconnectingExcept
<1>2. m1 = Manager(a, b, c, d, e, x)
  BY DEF Manager
<1> HIDE DEF m1
<1>3. m2 = Manager(Emptied(a, s), b, c, d, e, x)
  BY <1>2 DEF Manager, Emptied
<1> HIDE DEF m2
<1>4. m3 = Manager(Emptied(a, s), b, c, y, e, x)
  BY <1>3 DEF Manager
<1> HIDE DEF m3
<1>5. m4 = Manager(Emptied(a, s), z, c, y, e, x)
  BY <1>4 DEF Manager
<1> QED
  BY <1>1, <1>5

LEMMA ManagerExceptMaps ==
    ASSUME NEW a, NEW b, NEW c, NEW d, NEW e, NEW f, NEW m, m = Manager(a, b, c, d, e, f),
           NEW x, NEW y
    PROVE  MapsExcept(m, x, y) = Manager(a, b, x, y, e, f)
<1> DEFINE m1 == [m EXCEPT !.activeMap = x]
           m2 == [m1 EXCEPT !.inactiveMap = y]
<1>1. MapsExcept(m, x, y) = m2
  BY DEF MapsExcept
<1>2. m1 = Manager(a, b, x, d, e, f)
  BY DEF Manager
<1> HIDE DEF m1
<1>3. m2 = Manager(a, b, x, y, e, f)
  BY <1>2 DEF Manager
<1> QED
  BY <1>1, <1>3

(* A connection and its slot leave active_map_; n and m differ otherwise   *)
(* only in the lists.                                                      *)
Vacates(m, n, id) ==
    /\ n.connections = Emptied(m.connections, m.activeMap[id])
    /\ n.activeMap = Erase(m.activeMap, id)
    /\ n.freeSlots = Append(m.freeSlots, m.activeMap[id])

LEMMA RemoveToFailed ==
    ASSUME NEW m \in MgrRecords, NEW id \in DOMAIN m.activeMap,
           NEW n, n = RemoveConnectionToFailedQueue(m, id)
    PROVE  /\ Vacates(m, n, id)
           /\ n.failedConns = Append(m.failedConns, Found(m, id))
           /\ n.disconnectingConns = m.disconnectingConns
           /\ n = Manager(n.connections, n.freeSlots, n.activeMap, <<>>,
                          n.failedConns, n.disconnectingConns)
<1>1. PICK a, b, c, e, f : m = Manager(a, b, c, <<>>, e, f)
  BY MgrFields DEF Manager
<1>2. /\ m.connections = a /\ m.freeSlots = b /\ m.activeMap = c
      /\ m.failedConns = e /\ m.disconnectingConns = f
  BY <1>1, ManagerFields
<1>3. PICK s, x, y, z : s = c[id] /\ x = Append(e, a[s]) /\ y = Erase(c, id) /\ z = Append(b, s)
  OBVIOUS
<1>4. n = FailedExcept(m, s, x, y, z)
  <2>1. m["activeMap"] = c /\ m["failedConns"] = e
    BY <1>2
  <2> QED
    BY <1>2, <1>3, <2>1 DEF RemoveConnectionToFailedQueue, RemoveConnectionToContainer, FailedExcept
<1>5. n = Manager(Emptied(a, s), z, y, <<>>, x, f)
  BY <1>1, <1>4, ManagerExceptFailed
<1>6. PICK cs : cs = Emptied(a, s)
  OBVIOUS
<1>7. n = Manager(cs, z, y, <<>>, x, f)
  BY <1>5, <1>6
<1>8. /\ n.connections = cs /\ n.freeSlots = z /\ n.activeMap = y
      /\ n.failedConns = x /\ n.disconnectingConns = f
  BY <1>7, ManagerFields
<1> QED
  BY <1>2, <1>3, <1>6, <1>7, <1>8 DEF Vacates, Found

LEMMA RemoveToDisconnecting ==
    ASSUME NEW m \in MgrRecords, NEW id \in DOMAIN m.activeMap,
           NEW n, n = MoveConnectionFromInactiveToDisconnectingQueue(
                        RemoveConnectionToInactiveMap(m, id), id)
    PROVE  /\ Vacates(m, n, id)
           /\ n.failedConns = m.failedConns
           /\ n.disconnectingConns = Append(m.disconnectingConns, Found(m, id))
           /\ n = Manager(n.connections, n.freeSlots, n.activeMap, <<>>,
                          n.failedConns, n.disconnectingConns)
<1>1. PICK a, b, c, e, f : m = Manager(a, b, c, <<>>, e, f)
  BY MgrFields DEF Manager
<1>2. /\ m.connections = a /\ m.freeSlots = b /\ m.activeMap = c /\ m.inactiveMap = <<>>
      /\ m.failedConns = e /\ m.disconnectingConns = f
  BY <1>1, ManagerFields
<1>3. PICK s, x, y, z, i : /\ s = c[id] /\ x = Append(f, a[s]) /\ y = Erase(c, id)
                           /\ z = Append(b, s) /\ i = Insert(<<>>, id, s)
  OBVIOUS
<1>4. PICK k : k = RemoveConnectionToInactiveMap(m, id)
  OBVIOUS
<1>5. k = MapsExcept(m, y, i)
  BY <1>2, <1>3, <1>4 DEF RemoveConnectionToInactiveMap, MapsExcept
<1>6. k = Manager(a, b, y, i, e, f)
  BY <1>1, <1>5, ManagerExceptMaps
<1>7. /\ k.connections = a /\ k.freeSlots = b /\ k.activeMap = y /\ k.inactiveMap = i
      /\ k.failedConns = e /\ k.disconnectingConns = f
  BY <1>6, ManagerFields
<1>8. id \in DOMAIN i /\ i[id] = s /\ Erase(i, id) = <<>>
  <2>1. s \in Nat /\ id \in Eps
    BY <1>2, <1>3, MgrFields
  <2>2. PICK o \in ActiveMaps : DOMAIN o = {} /\ o = <<>>
    BY EmptyMap
  <2>6. i = Insert(o, id, s)
    BY <1>3, <2>2
  <2>7. i \in ActiveMaps /\ DOMAIN i = DOMAIN o \cup {id} /\ i[id] = s
    BY <2>1, <2>6, InsertFacts
  <2>3. i \in ActiveMaps /\ DOMAIN i = {id} /\ i[id] = s
    BY <2>2, <2>7
  <2>4. Erase(i, id) \in ActiveMaps /\ DOMAIN Erase(i, id) = DOMAIN i \ {id}
    BY <2>3, EraseFacts
  <2>5. DOMAIN Erase(i, id) = {}
    BY <2>3, <2>4
  <2> QED
    BY <2>3, <2>4, <2>5, EmptyMap
<1>9. n = DisconnectingExcept(k, s, x, <<>>, z)
  <2>1. n = RemoveConnectionToContainer(k, id, "disconnectingConns", "inactiveMap")
    BY <1>4 DEF MoveConnectionFromInactiveToDisconnectingQueue
  <2>2. k["inactiveMap"] = i /\ k["disconnectingConns"] = f
    BY <1>7
  <2> QED
    BY <1>3, <1>7, <1>8, <2>1, <2>2 DEF RemoveConnectionToContainer, DisconnectingExcept
<1>10. n = Manager(Emptied(a, s), z, y, <<>>, e, x)
  BY <1>6, <1>9, ManagerExceptDisconnecting
<1>11. PICK cs : cs = Emptied(a, s)
  OBVIOUS
<1>12. n = Manager(cs, z, y, <<>>, e, x)
  BY <1>10, <1>11
<1>13. /\ n.connections = cs /\ n.freeSlots = z /\ n.activeMap = y
       /\ n.failedConns = e /\ n.disconnectingConns = x
  BY <1>12, ManagerFields
<1> QED
  BY <1>2, <1>3, <1>11, <1>12, <1>13 DEF Vacates, Found

(* A slot is given up: what remains is as before.                          *)
LEMMA VacateFacts ==
    ASSUME NEW m \in MgrRecords, SlotsKept(m), ListedOnce(m),
           NEW id \in DOMAIN m.activeMap, NEW n, Vacates(m, n, id)
    PROVE  /\ n.connections \in Seq(Conns \cup {None})
           /\ n.activeMap \in ActiveMaps /\ n.freeSlots \in Seq(Nat)
           /\ SlotsKept(n) /\ (NoneLost(m) => NoneLost(n))
           /\ DOMAIN n.activeMap = DOMAIN m.activeMap \ {id}
           /\ \A e \in DOMAIN n.activeMap : Found(n, e) = Found(m, e)
           /\ Found(m, id) \in Conns /\ Has(m.connections, Found(m, id))
           /\ \A c \in Conns :
                Has(n.connections, c) <=> Has(m.connections, c) /\ c # Found(m, id)
           /\ \A s, t \in DOMAIN n.connections :
                n.connections[s] # None /\ n.connections[s] = n.connections[t] => s = t
<1>1. PICK a, b, c, slot : /\ a = m.connections /\ b = m.freeSlots /\ c = m.activeMap
                           /\ slot = c[id]
  OBVIOUS
<1>2. /\ a \in Seq(Conns \cup {None}) /\ b \in Seq(Nat) /\ c \in ActiveMaps
      /\ DOMAIN a \in SUBSET Nat
  BY <1>1, MgrFields
<1>3. PICK x, y, z : x = n.connections /\ y = n.activeMap /\ z = n.freeSlots
  OBVIOUS
<1>4. x = Emptied(a, slot) /\ y = Erase(c, id) /\ z = Append(b, slot)
  BY <1>1, <1>3 DEF Vacates
<1>5. /\ \A e \in DOMAIN c : c[e] \in DOMAIN a /\ a[c[e]] # None
      /\ \A d, e \in DOMAIN c : c[d] = c[e] => d = e
      /\ \A s \in DOMAIN a : a[s] # None => \E e \in DOMAIN c : c[e] = s
      /\ NoRepeats(b)
      /\ \A i \in DOMAIN b : b[i] \in DOMAIN a /\ a[b[i]] = None
  BY <1>1 DEF SlotsKept, Found
<1>6. slot \in DOMAIN a /\ slot \in Nat /\ a[slot] # None /\ a[slot] \in Conns
  <2>1. slot \in DOMAIN a /\ slot \in Nat /\ a[slot] # None
    BY <1>1, <1>2, <1>5
  <2>2. \A s \in DOMAIN a : a[s] \in Conns \cup {None}
    BY <1>2
  <2> QED
    BY <2>1, <2>2
<1>7. /\ DOMAIN x = DOMAIN a /\ x[slot] = None /\ x \in Seq(Conns \cup {None})
      /\ \A s \in DOMAIN a : s # slot => x[s] = a[s]
  <2>1. DOMAIN a = 1 .. Len(a) /\ Len(a) \in Nat /\ a \in [1 .. Len(a) -> Conns \cup {None}]
    BY <1>2
  <2>2. x \in [1 .. Len(a) -> Conns \cup {None}]
    BY <1>4, <2>1 DEF Emptied
  <2> QED
    BY <1>4, <1>6, <2>1, <2>2 DEF Emptied
<1>8. /\ y \in ActiveMaps /\ DOMAIN y = DOMAIN c \ {id}
      /\ \A e \in DOMAIN c : e # id => y[e] = c[e]
  BY <1>2, <1>4, EraseFacts
<1>9. ~Has(b, slot)
  BY <1>5, <1>6 DEF Has
<1>10. /\ z \in Seq(Nat) /\ NoRepeats(z)
       /\ \A s : Has(z, s) <=> Has(b, s) \/ s = slot
  BY <1>2, <1>4, <1>5, <1>6, <1>9, AppendFacts
<1>11. \A e \in DOMAIN y : y[e] = c[e] /\ y[e] # slot /\ x[y[e]] = a[c[e]]
  BY <1>1, <1>5, <1>7, <1>8
<1>12. \A s \in DOMAIN x : x[s] # None => \E e \in DOMAIN y : y[e] = s
  <2> SUFFICES ASSUME NEW s \in DOMAIN a, x[s] # None
               PROVE  \E e \in DOMAIN y : y[e] = s
    BY <1>7
  <2>1. s # slot /\ a[s] # None
    BY <1>7
  <2>2. PICK e \in DOMAIN c : c[e] = s
    BY <1>5, <2>1
  <2> QED
    BY <1>1, <1>8, <2>1, <2>2
<1>13. \A i \in DOMAIN z : z[i] \in DOMAIN x /\ x[z[i]] = None
  <2> SUFFICES ASSUME NEW i \in DOMAIN z
               PROVE  z[i] \in DOMAIN x /\ x[z[i]] = None
    OBVIOUS
  <2>1. Has(b, z[i]) \/ z[i] = slot
    BY <1>10 DEF Has
  <2>2. CASE z[i] = slot
    BY <1>6, <1>7, <2>2
  <2>3. CASE Has(b, z[i])
    <3>1. z[i] \in DOMAIN a /\ a[z[i]] = None
      BY <1>5, <2>3 DEF Has
    <3> QED
      BY <1>6, <1>7, <3>1
  <2> QED
    BY <2>1, <2>2, <2>3
<1>14. SlotsKept(n)
  <2>1. \A e \in DOMAIN y : y[e] \in DOMAIN x /\ x[y[e]] # None
    BY <1>5, <1>7, <1>8, <1>11
  <2>2. \A d, e \in DOMAIN y : y[d] = y[e] => d = e
    BY <1>5, <1>8, <1>11
  <2> QED
    BY <1>3, <1>10, <1>12, <1>13, <2>1, <2>2 DEF SlotsKept, Found
<1>15. NoneLost(m) => NoneLost(n)
  <2> SUFFICES ASSUME NoneLost(m), NEW s \in DOMAIN a, x[s] = None
               PROVE  Has(z, s)
    BY <1>3, <1>7 DEF NoneLost
  <2>1. CASE s = slot
    BY <1>10, <2>1
  <2>2. CASE s # slot
    <3>1. a[s] = None
      BY <1>7, <2>2
    <3>2. Has(b, s)
      BY <1>1, <3>1 DEF NoneLost
    <3> QED
      BY <1>10, <3>2
  <2> QED
    BY <2>1, <2>2
<1>16. \A s, t \in DOMAIN a : a[s] # None /\ a[s] = a[t] => s = t
  BY <1>1 DEF ListedOnce
<1>17. ASSUME NEW o \in Conns
       PROVE  Has(x, o) <=> Has(a, o) /\ o # a[slot]
  <2>1. o # None
    BY NoneAssumption
  <2>2. ASSUME NEW s \in DOMAIN x, x[s] = o
        PROVE  Has(a, o) /\ o # a[slot]
    <3>1. s # slot /\ s \in DOMAIN a /\ a[s] = o
      BY <1>7, <2>1, <2>2
    <3> QED
      BY <1>6, <1>16, <2>1, <3>1 DEF Has
  <2>3. ASSUME NEW s \in DOMAIN a, a[s] = o, o # a[slot]
        PROVE  Has(x, o)
    BY <1>7, <2>3 DEF Has
  <2> QED
    BY <2>2, <2>3 DEF Has
<1>18. \A s, t \in DOMAIN x : x[s] # None /\ x[s] = x[t] => s = t
  BY <1>7, <1>16
<1>19. Has(a, a[slot])
  BY <1>6 DEF Has
<1>20. Found(m, id) = a[slot] /\ \A e \in DOMAIN y : Found(n, e) = Found(m, e)
  BY <1>1, <1>3, <1>11 DEF Found
<1> QED
  BY <1>1, <1>3, <1>6, <1>7, <1>8, <1>10, <1>14, <1>15, <1>17, <1>18, <1>19, <1>20

(* add_connection takes one slot for the connection.                       *)
Takes(m, n, slot, id, c) ==
    /\ slot \in Nat
    /\ slot \in DOMAIN m.connections => m.connections[slot] = None
    /\ DOMAIN n.connections = DOMAIN m.connections \cup {slot}
    /\ n.connections[slot] = c
    /\ \A s \in DOMAIN m.connections : s # slot => n.connections[s] = m.connections[s]
    /\ n.activeMap = Insert(m.activeMap, id, slot)
    /\ \A s : Has(n.freeSlots, s) <=> Has(m.freeSlots, s) /\ s # slot
    /\ NoRepeats(n.freeSlots)
    /\ n.failedConns = m.failedConns
    /\ n.disconnectingConns = m.disconnectingConns

AddExcept(m, x, y, z) == [m EXCEPT !.freeSlots = x, !.connections = y, !.activeMap = z]

LEMMA ManagerAddExcept ==
    ASSUME NEW a, NEW b, NEW c, NEW d, NEW e, NEW f, NEW m, m = Manager(a, b, c, d, e, f),
           NEW x, NEW y, NEW z
    PROVE  AddExcept(m, x, y, z) = Manager(y, x, z, d, e, f)
<1> DEFINE m1 == [m EXCEPT !.freeSlots = x]
           m2 == [m1 EXCEPT !.connections = y]
           m3 == [m2 EXCEPT !.activeMap = z]
<1>1. AddExcept(m, x, y, z) = m3
  BY DEF AddExcept
<1>2. m1 = Manager(a, x, c, d, e, f)
  BY DEF Manager
<1> HIDE DEF m1
<1>3. m2 = Manager(y, x, c, d, e, f)
  BY <1>2 DEF Manager
<1> HIDE DEF m2
<1>4. m3 = Manager(y, x, z, d, e, f)
  BY <1>3 DEF Manager
<1> QED
  BY <1>1, <1>4

LEMMA AddEffects ==
    ASSUME NEW m \in MgrRecords, SlotsKept(m), NEW id \in Eps, NEW o \in Conns,
           NEW n, n = AddConnection(m, id, o)
    PROVE  n \in MgrRecords /\ \E slot : Takes(m, n, slot, id, o)
<1>1. PICK a, b, c, e, f : m = Manager(a, b, c, <<>>, e, f)
  BY MgrFields DEF Manager
<1>2. /\ m.connections = a /\ m.freeSlots = b /\ m.activeMap = c
      /\ m.failedConns = e /\ m.disconnectingConns = f
  BY <1>1, ManagerFields
<1>3. /\ a \in Seq(Conns \cup {None}) /\ b \in Seq(Nat) /\ c \in ActiveMaps
      /\ e \in Seq(Conns) /\ f \in Seq(Conns)
  BY <1>2, MgrFields
<1>4. /\ NoRepeats(b)
      /\ \A i \in DOMAIN b : b[i] \in DOMAIN a /\ a[b[i]] = None
  BY <1>2 DEF SlotsKept
<1>5. PICK slot, x, y, z :
        /\ slot = IF b = <<>> THEN Len(a) + 1 ELSE Head(b)
        /\ x = IF b = <<>> THEN b ELSE Tail(b)
        /\ y = IF b = <<>> THEN Append(a, o) ELSE [a EXCEPT ![slot] = o]
        /\ z = Insert(c, id, slot)
  OBVIOUS
<1>6. n = AddExcept(m, x, y, z)
  BY <1>2, <1>5 DEF AddConnection, AddExcept
<1>7. n = Manager(y, x, z, <<>>, e, f)
  BY <1>1, <1>6, ManagerAddExcept
<1>8. /\ n.connections = y /\ n.freeSlots = x /\ n.activeMap = z
      /\ n.failedConns = e /\ n.disconnectingConns = f
  BY <1>7, ManagerFields
<1>9. DOMAIN a = 1 .. Len(a) /\ Len(a) \in Nat /\ a \in [1 .. Len(a) -> Conns \cup {None}]
  BY <1>3
<1>10. /\ slot \in Nat
       /\ slot \in DOMAIN a => a[slot] = None
       /\ y \in Seq(Conns \cup {None})
       /\ DOMAIN y = DOMAIN a \cup {slot}
       /\ y[slot] = o
       /\ \A s \in DOMAIN a : s # slot => y[s] = a[s]
       /\ x \in Seq(Nat) /\ NoRepeats(x)
       /\ \A s : Has(x, s) <=> Has(b, s) /\ s # slot
  <2>1. CASE b = <<>>
    <3>1. PICK l \in Nat : l = Len(a)
      BY <1>9
    <3>2. slot = l + 1 /\ x = b /\ y = Append(a, o) /\ slot \notin DOMAIN a
      BY <1>5, <1>9, <2>1, <3>1
    <3>3. y \in Seq(Conns \cup {None}) /\ DOMAIN y = 1 .. l + 1 /\ y[l + 1] = o
      BY <1>3, <3>1, <3>2
    <3>4. \A s \in 1 .. l : y[s] = a[s]
      BY <1>3, <3>1, <3>2
    <3>5. DOMAIN y = DOMAIN a \cup {slot}
      BY <1>9, <3>1, <3>2, <3>3
    <3>6. \A s : ~Has(b, s)
      BY <2>1 DEF Has
    <3> QED
      BY <1>3, <1>4, <1>9, <3>1, <3>2, <3>3, <3>4, <3>5, <3>6
  <2>2. CASE b # <<>>
    <3>1. slot = Head(b) /\ x = Tail(b) /\ y = [a EXCEPT ![slot] = o]
      BY <1>5, <2>2
    <3>2. /\ x \in Seq(Nat) /\ slot \in Nat /\ Has(b, slot)
          /\ \A s : Has(x, s) => Has(b, s)
          /\ \A s : Has(b, s) => Has(x, s) \/ s = slot
          /\ NoRepeats(x) /\ ~Has(x, slot)
      BY <1>3, <1>4, <2>2, <3>1, TailFacts
    <3>3. slot \in DOMAIN a /\ a[slot] = None
      BY <1>4, <3>2 DEF Has
    <3>4. y \in [1 .. Len(a) -> Conns \cup {None}]
      BY <1>9, <3>1
    <3>5. y \in Seq(Conns \cup {None}) /\ DOMAIN y = DOMAIN a
      BY <1>9, <3>4
    <3>6. y[slot] = o /\ \A s \in DOMAIN a : s # slot => y[s] = a[s]
      BY <3>1, <3>3
    <3> QED
      BY <3>2, <3>3, <3>5, <3>6
  <2> QED
    BY <2>1, <2>2
<1>11. z \in ActiveMaps
  BY <1>3, <1>5, <1>10, InsertFacts
<1>12. n \in MgrRecords
  BY <1>3, <1>7, <1>10, <1>11, ManagerFields
<1>13. Takes(m, n, slot, id, o)
  BY <1>2, <1>5, <1>8, <1>10 DEF Takes
<1> QED
  BY <1>12, <1>13

(* A slot is taken: the rest is as before.                                 *)
LEMMA AddFacts ==
    ASSUME NEW m \in MgrRecords, SlotsKept(m), ListedOnce(m),
           NEW id \in Eps, id \notin DOMAIN m.activeMap,
           NEW o \in Conns, ~Listed(m, o),
           NEW n, n = AddConnection(m, id, o)
    PROVE  /\ n \in MgrRecords
           /\ SlotsKept(n) /\ ListedOnce(n) /\ (NoneLost(m) => NoneLost(n))
           /\ DOMAIN n.activeMap = DOMAIN m.activeMap \cup {id}
           /\ Found(n, id) = o
           /\ \A e \in DOMAIN m.activeMap : Found(n, e) = Found(m, e)
           /\ \A c \in Conns : Has(n.connections, c) <=> Has(m.connections, c) \/ c = o
           /\ n.failedConns = m.failedConns
           /\ n.disconnectingConns = m.disconnectingConns
<1>1. PICK slot : n \in MgrRecords /\ Takes(m, n, slot, id, o)
  BY AddEffects
<1>2. PICK a, b, c : a = m.connections /\ b = m.freeSlots /\ c = m.activeMap
  OBVIOUS
<1>3. PICK x, y, z : x = n.connections /\ y = n.activeMap /\ z = n.freeSlots
  OBVIOUS
<1>4. /\ slot \in Nat
      /\ slot \in DOMAIN a => a[slot] = None
      /\ DOMAIN x = DOMAIN a \cup {slot}
      /\ x[slot] = o
      /\ \A s \in DOMAIN a : s # slot => x[s] = a[s]
      /\ y = Insert(c, id, slot)
      /\ \A s : Has(z, s) <=> Has(b, s) /\ s # slot
      /\ NoRepeats(z)
      /\ n.failedConns = m.failedConns
      /\ n.disconnectingConns = m.disconnectingConns
  BY <1>1, <1>2, <1>3 DEF Takes
<1>5. /\ \A e \in DOMAIN c : c[e] \in DOMAIN a /\ a[c[e]] # None
      /\ \A d, e \in DOMAIN c : c[d] = c[e] => d = e
      /\ \A s \in DOMAIN a : a[s] # None => \E e \in DOMAIN c : c[e] = s
      /\ \A i \in DOMAIN b : b[i] \in DOMAIN a /\ a[b[i]] = None
  BY <1>2 DEF SlotsKept, Found
<1>6. c \in ActiveMaps /\ id \notin DOMAIN c
  BY <1>2, MgrFields
<1>7. /\ DOMAIN y = DOMAIN c \cup {id} /\ y[id] = slot
      /\ \A e \in DOMAIN c : e # id => y[e] = c[e]
  <2>1. y = Insert(c, id, slot) /\ slot \in Nat
    BY <1>4
  <2>2. c \in ActiveMaps
    BY <1>6
  <2>3. DOMAIN y = DOMAIN c \cup {id}
    BY <2>1, <2>2, InsertFacts
  <2>4. y[id] = slot
    BY <2>1, <2>2, InsertFacts
  <2>5. \A e \in DOMAIN c : e # id => y[e] = c[e]
    <3>1. slot \in Nat /\ c \in ActiveMaps /\ id \in Eps
      BY <2>1, <2>2
    <3>2. \A e \in DOMAIN c : e # id => Insert(c, id, slot)[e] = c[e]
      BY <3>1, InsertFacts, Zenon
    <3> QED
      BY <2>1, <3>2, Zenon
  <2> QED
    BY <2>3, <2>4, <2>5
<1>8. \A e \in DOMAIN c : y[e] = c[e] /\ y[e] # slot /\ x[y[e]] = a[c[e]]
  <2> SUFFICES ASSUME NEW e \in DOMAIN c
               PROVE  y[e] = c[e] /\ y[e] # slot /\ x[y[e]] = a[c[e]]
    OBVIOUS
  <2>1. y[e] = c[e] /\ c[e] \in DOMAIN a /\ a[c[e]] # None
    BY <1>5, <1>6, <1>7
  <2>2. c[e] # slot
    BY <1>4, <2>1
  <2> QED
    BY <1>4, <2>1, <2>2
<1>9. o # None
  BY NoneAssumption
<1>10. SlotsKept(n)
  <2>1. \A e \in DOMAIN y : y[e] \in DOMAIN x /\ x[y[e]] # None
    BY <1>4, <1>5, <1>7, <1>8, <1>9
  <2>2. \A d, e \in DOMAIN y : y[d] = y[e] => d = e
    BY <1>5, <1>7, <1>8
  <2>3. \A s \in DOMAIN x : x[s] # None => \E e \in DOMAIN y : y[e] = s
    BY <1>4, <1>5, <1>7, <1>8
  <2>4. \A i \in DOMAIN z : z[i] \in DOMAIN x /\ x[z[i]] = None
    <3> SUFFICES ASSUME NEW i \in DOMAIN z
                 PROVE  z[i] \in DOMAIN x /\ x[z[i]] = None
      OBVIOUS
    <3>1. Has(b, z[i]) /\ z[i] # slot
      BY <1>4 DEF Has
    <3>2. z[i] \in DOMAIN a /\ a[z[i]] = None
      BY <1>5, <3>1 DEF Has
    <3> QED
      BY <1>4, <3>1, <3>2
  <2> QED
    BY <1>3, <1>4, <2>1, <2>2, <2>3, <2>4 DEF SlotsKept, Found
<1>11. NoneLost(m) => NoneLost(n)
  <2> SUFFICES ASSUME NoneLost(m), NEW s \in DOMAIN x, x[s] = None
               PROVE  Has(z, s)
    BY <1>3 DEF NoneLost
  <2>1. s # slot /\ s \in DOMAIN a /\ a[s] = None
    BY <1>4, <1>9
  <2>2. Has(b, s)
    BY <1>2, <2>1 DEF NoneLost
  <2> QED
    BY <1>4, <2>1, <2>2
<1>12. ~Has(a, o) /\ ~Has(m.failedConns, o) /\ ~Has(m.disconnectingConns, o)
  BY <1>2 DEF Listed
<1>13. \A d \in Conns : Has(x, d) <=> Has(a, d) \/ d = o
  <2> SUFFICES ASSUME NEW d \in Conns
               PROVE  Has(x, d) <=> Has(a, d) \/ d = o
    OBVIOUS
  <2>1. d # None
    BY NoneAssumption
  <2>2. ASSUME NEW s \in DOMAIN x, x[s] = d
        PROVE  Has(a, d) \/ d = o
    BY <1>4, <2>2 DEF Has
  <2>3. ASSUME NEW s \in DOMAIN a, a[s] = d
        PROVE  Has(x, d)
    <3>1. s # slot /\ s \in DOMAIN x /\ x[s] = d
      BY <1>4, <2>1, <2>3
    <3> QED
      BY <3>1 DEF Has
  <2>4. Has(x, o)
    BY <1>4 DEF Has
  <2> QED
    BY <2>2, <2>3, <2>4 DEF Has
<1>14. \A s, t \in DOMAIN x : x[s] # None /\ x[s] = x[t] => s = t
  <2>1. \A s, t \in DOMAIN a : a[s] # None /\ a[s] = a[t] => s = t
    BY <1>2 DEF ListedOnce
  <2>2. \A s \in DOMAIN x : s # slot => x[s] # o
    BY <1>4, <1>12 DEF Has
  <2> QED
    BY <1>4, <2>1, <2>2
<1>15. ListedOnce(n)
  <2>1. \A d \in Conns : /\ ~(Has(x, d) /\ Has(n.failedConns, d))
                         /\ ~(Has(x, d) /\ Has(n.disconnectingConns, d))
    BY <1>2, <1>4, <1>12, <1>13 DEF ListedOnce
  <2>2. /\ NoRepeats(n.failedConns) /\ NoRepeats(n.disconnectingConns)
        /\ \A d \in Conns : ~(Has(n.failedConns, d) /\ Has(n.disconnectingConns, d))
    BY <1>4 DEF ListedOnce
  <2> QED
    BY <1>3, <1>14, <2>1, <2>2 DEF ListedOnce
<1>16. Found(n, id) = o /\ \A e \in DOMAIN m.activeMap : Found(n, e) = Found(m, e)
  BY <1>2, <1>3, <1>4, <1>7, <1>8 DEF Found
<1> QED
  BY <1>1, <1>2, <1>3, <1>4, <1>7, <1>10, <1>11, <1>13, <1>15, <1>16

\* The slots depend on these fields only.
SlotsSame(m, n) ==
    /\ n.connections = m.connections /\ n.freeSlots = m.freeSlots
    /\ n.activeMap = m.activeMap

LEMMA SameSlots ==
    ASSUME NEW m, NEW n, SlotsSame(m, n)
    PROVE  /\ SlotsKept(m) => SlotsKept(n)
           /\ NoneLost(m) => NoneLost(n)
           /\ \A e : Found(n, e) = Found(m, e)
<1>1. SlotsKept(m) => SlotsKept(n)
  BY DEF SlotsKept, SlotsSame, Found
<1>2. NoneLost(m) => NoneLost(n)
  BY DEF NoneLost, SlotsSame
<1> QED
  BY <1>1, <1>2 DEF Found, SlotsSame

ListsExcept(m, x, y) == [m EXCEPT !.failedConns = x, !.disconnectingConns = y]

LEMMA ManagerListsExcept ==
    ASSUME NEW m \in MgrRecords, NEW x \in Seq(Conns), NEW y \in Seq(Conns),
           NEW n, n = ListsExcept(m, x, y)
    PROVE  /\ n \in MgrRecords /\ SlotsSame(m, n)
           /\ n.failedConns = x /\ n.disconnectingConns = y
<1>1. PICK a, b, c, e, f : m = Manager(a, b, c, <<>>, e, f)
  BY MgrFields DEF Manager
<1>2. m.connections = a /\ m.freeSlots = b /\ m.activeMap = c
  BY <1>1, ManagerFields
<1>3. a \in Seq(Conns \cup {None}) /\ b \in Seq(Nat) /\ c \in ActiveMaps
  BY <1>2, MgrFields
<1> DEFINE m1 == [m EXCEPT !.failedConns = x]
           m2 == [m1 EXCEPT !.disconnectingConns = y]
<1>4. n = m2
  BY DEF ListsExcept
<1>5. m1 = Manager(a, b, c, <<>>, x, f)
  BY <1>1 DEF Manager
<1> HIDE DEF m1
<1>6. m2 = Manager(a, b, c, <<>>, x, y)
  BY <1>5 DEF Manager
<1>7. n = Manager(a, b, c, <<>>, x, y)
  BY <1>4, <1>6
<1>8. /\ n.connections = a /\ n.freeSlots = b /\ n.activeMap = c
      /\ n.failedConns = x /\ n.disconnectingConns = y /\ n \in MgrRecords
  BY <1>3, <1>7, ManagerFields
<1> QED
  BY <1>2, <1>8 DEF SlotsSame

(* A failed connection is handled: it goes to the disconnecting ones.      *)
LEMMA DispatchFacts ==
    ASSUME NEW m \in MgrRecords, ListedOnce(m), m.failedConns # <<>>,
           NEW n, n = ListsExcept(m, Tail(m.failedConns),
                                  Append(m.disconnectingConns, Head(m.failedConns)))
    PROVE  /\ n \in MgrRecords /\ SlotsSame(m, n) /\ ListedOnce(n)
           /\ Head(m.failedConns) \in Conns /\ Has(m.failedConns, Head(m.failedConns))
           /\ \A c : Has(n.failedConns, c) => Has(m.failedConns, c)
           /\ \A c : Has(n.disconnectingConns, c) <=>
                       Has(m.disconnectingConns, c) \/ c = Head(m.failedConns)
           /\ \A c \in Conns : Listed(n, c) <=> Listed(m, c)
<1>1. PICK a, e, f, h : /\ a = m.connections /\ e = m.failedConns
                        /\ f = m.disconnectingConns /\ h = Head(e)
  OBVIOUS
<1>2. e \in Seq(Conns) /\ f \in Seq(Conns) /\ e # <<>>
  BY <1>1, MgrFields
<1>3. PICK x, y : x = Tail(e) /\ y = Append(f, h)
  OBVIOUS
<1>4. /\ NoRepeats(e) /\ NoRepeats(f)
      /\ \A s, t \in DOMAIN a : a[s] # None /\ a[s] = a[t] => s = t
      /\ \A c \in Conns : /\ ~(Has(a, c) /\ Has(e, c)) /\ ~(Has(a, c) /\ Has(f, c))
                          /\ ~(Has(e, c) /\ Has(f, c))
  BY <1>1 DEF ListedOnce
<1>5. /\ x \in Seq(Conns) /\ h \in Conns /\ Has(e, h)
      /\ \A c : Has(x, c) => Has(e, c)
      /\ \A c : Has(e, c) => Has(x, c) \/ c = h
      /\ NoRepeats(x) /\ ~Has(x, h)
  BY <1>1, <1>2, <1>3, <1>4, TailFacts
<1>6. ~Has(f, h)
  BY <1>4, <1>5
<1>7. /\ y \in Seq(Conns) /\ NoRepeats(y)
      /\ \A c : Has(y, c) <=> Has(f, c) \/ c = h
  BY <1>2, <1>3, <1>4, <1>5, <1>6, AppendFacts
<1>8. n = ListsExcept(m, x, y)
  BY <1>1, <1>3
<1>9. /\ n \in MgrRecords /\ SlotsSame(m, n)
      /\ n.failedConns = x /\ n.disconnectingConns = y
  BY <1>5, <1>7, <1>8, ManagerListsExcept
<1>10. n.connections = a
  BY <1>1, <1>9 DEF SlotsSame
<1>11. \A c \in Conns : /\ ~(Has(a, c) /\ Has(x, c)) /\ ~(Has(a, c) /\ Has(y, c))
                        /\ ~(Has(x, c) /\ Has(y, c))
  BY <1>4, <1>5, <1>7
<1>12. ListedOnce(n)
  BY <1>4, <1>5, <1>7, <1>9, <1>10, <1>11 DEF ListedOnce
<1>13. \A c \in Conns : Listed(n, c) <=> Listed(m, c)
  BY <1>1, <1>5, <1>7, <1>9, <1>10 DEF Listed
<1> QED
  BY <1>1, <1>5, <1>7, <1>9, <1>12, <1>13

(* Some of the connections leave one of the lists.                         *)
LEMMA ShortenFacts ==
    ASSUME NEW m \in MgrRecords, ListedOnce(m),
           NEW x \in Seq(Conns), NEW y \in Seq(Conns),
           NoRepeats(x), NoRepeats(y),
           \A c : Has(x, c) => Has(m.failedConns, c),
           \A c : Has(y, c) => Has(m.disconnectingConns, c),
           NEW n, n = ListsExcept(m, x, y)
    PROVE  /\ n \in MgrRecords /\ SlotsSame(m, n) /\ ListedOnce(n)
           /\ n.failedConns = x /\ n.disconnectingConns = y
<1>1. /\ n \in MgrRecords /\ SlotsSame(m, n)
      /\ n.failedConns = x /\ n.disconnectingConns = y
  BY ManagerListsExcept
<1>2. n.connections = m.connections
  BY <1>1 DEF SlotsSame
<1>3. ListedOnce(n)
  BY <1>1, <1>2 DEF ListedOnce
<1> QED
  BY <1>1, <1>3

MovedExcept(m, x, y) ==
    [m EXCEPT !.disconnectingConns = x, !.connections = y, !.activeMap = <<>>]

LEMMA ManagerMovedExcept ==
    ASSUME NEW a, NEW b, NEW c, NEW d, NEW e, NEW f, NEW m, m = Manager(a, b, c, d, e, f),
           NEW x, NEW y
    PROVE  MovedExcept(m, x, y) = Manager(y, b, <<>>, d, e, x)
<1> DEFINE m1 == [m EXCEPT !.disconnectingConns = x]
           m2 == [m1 EXCEPT !.connections = y]
           m3 == [m2 EXCEPT !.activeMap = <<>>]
<1>1. MovedExcept(m, x, y) = m3
  BY DEF MovedExcept
<1>2. m1 = Manager(a, b, c, d, e, x)
  BY DEF Manager
<1> HIDE DEF m1
<1>3. m2 = Manager(y, b, c, d, e, x)
  BY <1>2 DEF Manager
<1> HIDE DEF m2
<1>4. m3 = Manager(y, b, <<>>, d, e, x)
  BY <1>3 DEF Manager
<1> QED
  BY <1>1, <1>4

(* The active connections go to the disconnecting ones, all slots empty.   *)
LEMMA MoveActiveFacts ==
    ASSUME NEW m \in MgrRecords, SlotsKept(m), ListedOnce(m),
           NEW n, n = RemoveActiveConnectionsToDisconnectingQueue(m)
    PROVE  /\ n \in MgrRecords /\ SlotsKept(n) /\ ListedOnce(n)
           /\ n.failedConns = m.failedConns
           /\ DOMAIN n.activeMap = {}
           /\ \A c \in Conns : Listed(n, c) <=> Listed(m, c)
           /\ \A c : Has(m.disconnectingConns, c) => Has(n.disconnectingConns, c)
<1>1. PICK a, b, c, e, f : m = Manager(a, b, c, <<>>, e, f)
  BY MgrFields DEF Manager
<1>2. /\ m.connections = a /\ m.freeSlots = b /\ m.activeMap = c
      /\ m.failedConns = e /\ m.disconnectingConns = f
  BY <1>1, ManagerFields
<1>3. /\ a \in Seq(Conns \cup {None}) /\ b \in Seq(Nat) /\ c \in ActiveMaps
      /\ e \in Seq(Conns) /\ f \in Seq(Conns)
      /\ DOMAIN c \in SUBSET Eps
  BY <1>2, MgrFields
<1>4. /\ \A k \in DOMAIN c : c[k] \in DOMAIN a /\ a[c[k]] # None
      /\ \A j, k \in DOMAIN c : c[j] = c[k] => j = k
      /\ \A s \in DOMAIN a : a[s] # None => \E k \in DOMAIN c : c[k] = s
      /\ NoRepeats(b)
      /\ \A i \in DOMAIN b : b[i] \in DOMAIN a /\ a[b[i]] = None
  BY <1>2 DEF SlotsKept, Found
<1>5. /\ NoRepeats(e) /\ NoRepeats(f)
      /\ \A s, t \in DOMAIN a : a[s] # None /\ a[s] = a[t] => s = t
      /\ \A o \in Conns : /\ ~(Has(a, o) /\ Has(e, o)) /\ ~(Has(a, o) /\ Has(f, o))
                          /\ ~(Has(e, o) /\ Has(f, o))
  BY <1>2 DEF ListedOnce
<1>6. PICK ids : ids = SetToSeq(DOMAIN c)
  OBVIOUS
<1>7. /\ ids \in Seq(DOMAIN c) /\ NoRepeats(ids)
      /\ \A k : Has(ids, k) <=> k \in DOMAIN c
  <2>2. IsFiniteSet(Eps)
    BY ConnectionsAssumption
  <2>1. IsFiniteSet(DOMAIN c)
    BY <1>3, <2>2, FS_Subset
  <2> QED
    BY <1>6, <2>1, SetToSeqFacts
<1>8. PICK g : g = [i \in DOMAIN ids |-> a[c[ids[i]]]]
  OBVIOUS
<1>9. PICK y : y = [s \in DOMAIN a |-> IF s \in {c[k] : k \in DOMAIN c} THEN None ELSE a[s]]
  OBVIOUS
<1>10. n = MovedExcept(m, f \o g, y)
  BY <1>2, <1>6, <1>8, <1>9 DEF RemoveActiveConnectionsToDisconnectingQueue, MovedExcept
<1>11. DOMAIN a = 1 .. Len(a) /\ Len(a) \in Nat /\ \A s \in DOMAIN a : a[s] \in Conns \cup {None}
  BY <1>3
<1>12. DOMAIN y = DOMAIN a /\ y \in Seq(Conns \cup {None}) /\ \A s \in DOMAIN a : y[s] = None
  <2>1. DOMAIN y = DOMAIN a
    BY <1>9
  <2>2. \A s \in DOMAIN a : y[s] = None
    BY <1>4, <1>9
  <2>3. y \in [1 .. Len(a) -> Conns \cup {None}]
    BY <1>9, <1>11
  <2> QED
    BY <1>11, <2>1, <2>2, <2>3
<1>13. /\ DOMAIN g = DOMAIN ids /\ \A i \in DOMAIN ids : g[i] = a[c[ids[i]]]
       /\ g \in Seq(Conns)
  <2>1. DOMAIN ids = 1 .. Len(ids) /\ Len(ids) \in Nat
    BY <1>7
  <2>2. \A i \in DOMAIN ids : ids[i] \in DOMAIN c
    BY <1>7
  <2>3. \A i \in DOMAIN ids : a[c[ids[i]]] \in Conns
    BY <1>4, <1>11, <2>2
  <2>4. g \in [1 .. Len(ids) -> Conns]
    BY <1>8, <2>1, <2>3
  <2> QED
    BY <1>8, <2>1, <2>4
<1>14. \A o : Has(g, o) <=> o # None /\ Has(a, o)
  <2>1. ASSUME NEW i \in DOMAIN g
        PROVE  g[i] # None /\ Has(a, g[i])
    <3>1. ids[i] \in DOMAIN c /\ g[i] = a[c[ids[i]]]
      BY <1>7, <1>13, <2>1
    <3> QED
      BY <1>4, <3>1 DEF Has
  <2>2. ASSUME NEW s \in DOMAIN a, a[s] # None
        PROVE  Has(g, a[s])
    <3>1. PICK k \in DOMAIN c : c[k] = s
      BY <1>4, <2>2
    <3>2. PICK i \in DOMAIN ids : ids[i] = k
      BY <1>7 DEF Has
    <3> QED
      BY <1>13, <3>1, <3>2 DEF Has
  <2> QED
    BY <2>1, <2>2 DEF Has
<1>15. NoRepeats(g)
  <2> SUFFICES ASSUME NEW i \in DOMAIN ids, NEW j \in DOMAIN ids, g[i] = g[j]
               PROVE  i = j
    BY <1>13 DEF NoRepeats
  <2>1. /\ ids[i] \in DOMAIN c /\ ids[j] \in DOMAIN c
        /\ g[i] = a[c[ids[i]]] /\ g[j] = a[c[ids[j]]]
    BY <1>7, <1>13
  <2>4. PICK p, q : p = c[ids[i]] /\ q = c[ids[j]]
    OBVIOUS
  <2>5. p \in DOMAIN a /\ q \in DOMAIN a /\ a[p] # None /\ a[p] = a[q]
    BY <1>4, <2>1, <2>4
  <2>2. c[ids[i]] = c[ids[j]]
    BY <1>5, <2>4, <2>5
  <2>3. ids[i] = ids[j]
    BY <1>4, <2>1, <2>2
  <2> QED
    BY <1>7, <2>3 DEF NoRepeats
<1>16. PICK x : x = f \o g
  OBVIOUS
<1>17. /\ x \in Seq(Conns) /\ NoRepeats(x)
       /\ \A o : Has(x, o) <=> Has(f, o) \/ Has(g, o)
  <2>1. \A o : ~(Has(f, o) /\ Has(g, o))
    <3> SUFFICES ASSUME NEW o, Has(f, o), Has(g, o)
                 PROVE  FALSE
      OBVIOUS
    <3>1. o \in Conns
      BY <1>3 DEF Has
    <3> QED
      BY <1>5, <1>14, <3>1
  <2> QED
    BY <1>3, <1>5, <1>13, <1>15, <1>16, <2>1, ConcatFacts
<1>18. n = Manager(y, b, <<>>, <<>>, e, x)
  BY <1>1, <1>10, <1>16, ManagerMovedExcept
<1>19. <<>> \in ActiveMaps /\ DOMAIN <<>> = {}
  BY EmptyMap
<1>20. /\ n.connections = y /\ n.freeSlots = b /\ n.activeMap = <<>>
       /\ n.failedConns = e /\ n.disconnectingConns = x
  BY <1>18, ManagerFields
<1>21. n \in MgrRecords
  BY <1>3, <1>12, <1>17, <1>18, <1>19, ManagerFields
<1>22. DOMAIN n.activeMap = {}
  BY <1>19, <1>20
<1>23. SlotsKept(n)
  BY <1>4, <1>12, <1>20, <1>22 DEF SlotsKept
<1>24. \A o \in Conns : ~Has(y, o)
  BY <1>12, NoneAssumption DEF Has
<1>25. \A o \in Conns : ~(Has(e, o) /\ Has(x, o))
  BY <1>5, <1>14, <1>17
<1>26. ListedOnce(n)
  BY <1>5, <1>12, <1>17, <1>20, <1>24, <1>25 DEF ListedOnce
<1>27. \A o \in Conns : Listed(n, o) <=> Listed(m, o)
  <2>1. \A o \in Conns : o # None
    BY NoneAssumption
  <2> QED
    BY <1>2, <1>14, <1>17, <1>20, <1>24, <2>1 DEF Listed
<1> QED
  BY <1>2, <1>17, <1>20, <1>21, <1>22, <1>23, <1>26, <1>27

-----------------------------------------------------------------------------
(***************************************************************************)
(* Connections, endpoints and requests.                                    *)
(***************************************************************************)

LEMMA ConnFields ==
    ASSUME NEW r \in ConnRecords
    PROVE  /\ r.life \in {"unborn", "live", "gone"} /\ r.ep \in Eps \cup {None}
           /\ r.status \in {"ok", "error"} /\ r.disconnecting \in BOOLEAN
           /\ r.closing \in Eps \cup {None}
  BY DEF ConnRecords

ClosedExcept(r, g) == [r EXCEPT !.ep = None, !.closing = g]

LEMMA ConnClosed ==
    ASSUME NEW r \in ConnRecords, NEW g \in Eps \cup {None},
           NEW n, n = ClosedExcept(r, g)
    PROVE  /\ n \in ConnRecords
           /\ n.ep = None /\ n.life = r.life /\ n.status = r.status
<1> DEFINE r1 == [r EXCEPT !.ep = None]
           r2 == [r1 EXCEPT !.closing = g]
<1>1. n = r2
  BY DEF ClosedExcept
<1>2. r1 \in ConnRecords /\ r1.ep = None /\ r1.life = r.life /\ r1.status = r.status
  BY DEF ConnRecords
<1> HIDE DEF r1
<1>3. r2 \in ConnRecords /\ r2.ep = None /\ r2.life = r.life /\ r2.status = r.status
  BY <1>2 DEF ConnRecords
<1> HIDE DEF r2
<1> QED
  BY <1>1, <1>3

(* disconnect() marks the connection, the destructor ends it.              *)
MarkedExcept(r) == [r EXCEPT !.disconnecting = TRUE, !.status = "error"]

LEMMA ConnMarked ==
    ASSUME NEW r \in ConnRecords
    PROVE  MarkedExcept(r) \in ConnRecords /\ MarkedExcept(r).life = r.life
<1> DEFINE r1 == [r EXCEPT !.disconnecting = TRUE]
           r2 == [r1 EXCEPT !.status = "error"]
<1>1. MarkedExcept(r) = r2
  BY DEF MarkedExcept
<1>2. r1 \in ConnRecords /\ r1.life = r.life
  BY DEF ConnRecords
<1> HIDE DEF r1
<1>3. r2 \in ConnRecords /\ r2.life = r.life
  BY <1>2 DEF ConnRecords
<1> HIDE DEF r2
<1> QED
  BY <1>1, <1>3

LEMMA ConnGone ==
    ASSUME conn \in [Conns -> ConnRecords], NEW c \in Conns
    PROVE  Destruct(c) \in ConnRecords /\ Destruct(c).life = "gone"
<1>1. PICK r : r = conn[c]
  OBVIOUS
<1>2. r \in ConnRecords
  BY <1>1
<1>3. Destruct(c) = [r EXCEPT !.life = "gone"]
  BY <1>1 DEF Destruct
<1>4. [r EXCEPT !.life = "gone"] \in ConnRecords /\ [r EXCEPT !.life = "gone"].life = "gone"
  BY <1>2 DEF ConnRecords
<1> QED
  BY <1>3, <1>4

(* What ep_close does to the connections in cs and to the endpoints.       *)
Closes(cs, after) ==
    /\ conn' \in [Conns -> ConnRecords]
    /\ ep' \in [Eps -> EpRecords]
    /\ \A c \in Conns \ cs : conn'[c] = conn[c]
    /\ \A c \in cs : /\ conn'[c].ep = None /\ conn'[c].life = after[c].life
                     /\ conn'[c].status = after[c].status
    /\ \A e \in Eps :
         IF \E c \in cs : conn[c].ep = e
         THEN ep'[e].state \in {"closing", "free"} /\ ep'[e].handler = None
         ELSE ep'[e] = ep[e]

LEMMA EpCloseEffects ==
    ASSUME conn \in [Conns -> ConnRecords], ep \in [Eps -> EpRecords],
           NEW cs \in SUBSET Conns, NEW slow, NEW after,
           \A c \in cs : after[c] \in ConnRecords,
           EpClose(cs, slow, after)
    PROVE  Closes(cs, after)
<1> DEFINE closing == {conn[c].ep : c \in cs} \ {None}
           slowEps == {conn[c].ep : c \in slow}
           g(c) == IF after[c].life = "gone" THEN None
                   ELSE IF c \in slow THEN conn[c].ep
                   ELSE after[c].closing
<1>1. ep' = [e \in Eps |->
               IF e \notin closing THEN ep[e]
               ELSE [state |-> IF e \in slowEps THEN "closing" ELSE "free",
                     handler |-> None]]
  BY DEF EpClose
<1>2. conn' = [c \in Conns |-> IF c \notin cs THEN conn[c] ELSE ClosedExcept(after[c], g(c))]
  BY DEF EpClose, ClosedExcept
<1>3. \A e \in Eps : e \in closing <=> \E c \in cs : conn[c].ep = e
  <2>1. \A e \in Eps : e # None
    BY NoneAssumption
  <2> QED
    BY <2>1
<1> HIDE DEF closing
<1>4. \A e \in Eps : e \notin closing => ep'[e] = ep[e]
  BY <1>1
<1>5. \A e \in Eps : e \in closing =>
        \E s \in {"closing", "free"} : ep'[e] = [state |-> s, handler |-> None]
  BY <1>1
<1> HIDE DEF slowEps
<1>6. \A e \in Eps : e \in closing =>
        /\ ep'[e].state \in {"closing", "free"} /\ ep'[e].handler = None
        /\ ep'[e] \in EpRecords
  <2> SUFFICES ASSUME NEW e \in Eps, e \in closing
               PROVE  /\ ep'[e].state \in {"closing", "free"} /\ ep'[e].handler = None
                      /\ ep'[e] \in EpRecords
    OBVIOUS
  <2>1. PICK s \in {"closing", "free"} : ep'[e] = [state |-> s, handler |-> None]
    BY <1>5
  <2> QED
    BY <2>1 DEF EpRecords
<1>7. ep' \in [Eps -> EpRecords]
  <2>1. \A e \in Eps : ep'[e] \in EpRecords
    BY <1>4, <1>6
  <2>2. ep' = [e \in Eps |-> ep'[e]]
    BY <1>1
  <2> QED
    BY <2>1, <2>2
<1>8. \A c \in cs : g(c) \in Eps \cup {None}
  <2> SUFFICES ASSUME NEW c \in cs
               PROVE  g(c) \in Eps \cup {None}
    OBVIOUS
  <2>1. conn[c].ep \in Eps \cup {None} /\ after[c].closing \in Eps \cup {None}
    <3>1. conn[c] \in ConnRecords /\ after[c] \in ConnRecords
      OBVIOUS
    <3> QED
      BY <3>1, ConnFields
  <2> QED
    BY <2>1
<1> HIDE DEF g
<1>9. \A c \in Conns \ cs : conn'[c] = conn[c]
  BY <1>2
<1>10. ASSUME NEW c \in cs
       PROVE  /\ conn'[c] \in ConnRecords
              /\ conn'[c].ep = None /\ conn'[c].life = after[c].life
              /\ conn'[c].status = after[c].status
  <2>1. conn'[c] = ClosedExcept(after[c], g(c))
    BY <1>2
  <2> QED
    BY <1>8, <2>1, ConnClosed
<1>11. conn' \in [Conns -> ConnRecords]
  <2>1. \A c \in Conns : conn'[c] \in ConnRecords
    BY <1>9, <1>10
  <2>2. conn' = [c \in Conns |-> conn'[c]]
    BY <1>2
  <2> QED
    BY <2>1, <2>2
<1>12. \A e \in Eps :
         IF \E c \in cs : conn[c].ep = e
         THEN ep'[e].state \in {"closing", "free"} /\ ep'[e].handler = None
         ELSE ep'[e] = ep[e]
  BY <1>3, <1>4, <1>6
<1> QED
  BY <1>7, <1>9, <1>10, <1>11, <1>12 DEF Closes

-----------------------------------------------------------------------------
(***************************************************************************)
(* The invariant, step by step.                                            *)
(***************************************************************************)

LEMMA InitInvariant == Init => IInv
<1> SUFFICES ASSUME Init PROVE IInv
  OBVIOUS
<1> USE DEF Init
<1>1. mgr = Manager(<<>>, <<>>, <<>>, <<>>, <<>>, <<>>)
  BY DEF Manager
<1>2. /\ mgr.connections = <<>> /\ mgr.freeSlots = <<>> /\ mgr.activeMap = <<>>
      /\ mgr.failedConns = <<>> /\ mgr.disconnectingConns = <<>>
  BY <1>1, ManagerFields
<1>3. mgr \in MgrRecords
  <2>1. PICK a : a = <<>>
    OBVIOUS
  <2>2. a \in Seq(Conns \cup {None}) /\ a \in Seq(Nat) /\ a \in Seq(Conns) /\ a \in ActiveMaps
    BY <2>1, EmptyMap
  <2>3. mgr = Manager(a, a, a, a, a, a)
    BY <1>1, <2>1
  <2> HIDE DEF Init
  <2> QED
    BY <2>1, <2>2, <2>3 DEF Manager, MgrRecords
<1>4. \A c \in Conns : conn[c] = Unborn
  OBVIOUS
<1>5. Unborn \in ConnRecords /\ Unborn.life = "unborn" /\ Unborn.ep = None
  BY DEF Unborn, ConnRecords
<1>6. conn \in [Conns -> ConnRecords]
  BY <1>4, <1>5
<1>7. ep \in [Eps -> EpRecords] /\ \A e \in Eps : ep[e].state = "free" /\ ep[e].handler = None
  BY DEF EpRecords
<1>8. req \in [Requests -> ReqRecords]
  BY DEF ReqRecords
<1>9. \A r \in Requests : /\ ~req[r].out /\ req[r].conn = None /\ ~req[r].callback
                          /\ req[r].called = 1
  OBVIOUS
<1>10. Typed
  <2>1. pc \in Places /\ cur \in [conn : Conns \cup {None}, back : Places] /\ todo \in Seq(Conns)
    BY DEF Places
  <2>2. connReqs \in 0 .. MaxConnReqs
    BY ConnectionsAssumption
  <2> QED
    BY <1>3, <1>6, <1>7, <1>8, <2>1, <2>2 DEF Typed
<1>11. ~\E c : Has(<<>>, c)
  BY DEF Has
<1>12. NoRepeats(<<>>) /\ DOMAIN <<>> = {}
  BY DEF NoRepeats
<1>13. ListedOnce(mgr)
  BY <1>2, <1>11, <1>12 DEF ListedOnce
<1>14. Slotted
  BY <1>2, <1>12 DEF Slotted, SlotsKept, NoneLost
<1>15. Living
  BY <1>2, <1>4, <1>5, <1>11 DEF Living, Listed
<1>16. Owned
  BY <1>4, <1>5, <1>7 DEF Owned
<1>17. Active /\ Failed
  BY <1>2, <1>12 DEF Active, Failed
<1>18. AtWork
  BY <1>12 DEF AtWork
<1>19. Requested
  BY <1>9 DEF Requested
<1> QED
  BY <1>10, <1>13, <1>14, <1>15, <1>16, <1>17, <1>18, <1>19 DEF IInv

LEMMA StutterKeeps == IInv /\ UNCHANGED vars => IInv'
<1> SUFFICES ASSUME IInv, UNCHANGED vars PROVE IInv'
  OBVIOUS
<1>1. /\ pc' = pc /\ cur' = cur /\ todo' = todo /\ mgr' = mgr /\ conn' = conn
      /\ ep' = ep /\ req' = req /\ connReqs' = connReqs
  BY DEF vars
<1> QED
  BY <1>1 DEF IInv, Typed, Slotted, SlotsInUse, Living, Owned, Active, AtWork, Failed,
              FailedWait, Requested

(* Steps that only move the thread.                                        *)
LEMMA ThreadMoves ==
    ASSUME IInv, UNCHANGED <<mgr, conn, ep, req>>,
           pc # "destroyed", pc' # "destroyed", pc' \in Places,
           cur' \in [conn : Conns \cup {None}, back : Places],
           todo' \in Seq(Conns),
           connReqs' \in 0 .. MaxConnReqs, pc' = "accept" => connReqs' > 0,
           SlotsInUse' => SlotsInUse, FailedWait' => FailedWait, AtWork'
    PROVE  IInv'
<1>1. mgr' = mgr /\ conn' = conn /\ ep' = ep /\ req' = req
  OBVIOUS
<1>2. Typed'
  BY <1>1 DEF IInv, Typed
<1>3. ListedOnce(mgr)' /\ Living' /\ Owned' /\ Active' /\ Requested'
  BY <1>1 DEF IInv, Living, Owned, Active, Requested
<1>4. Slotted'
  BY <1>1 DEF IInv, Slotted
<1>5. Failed'
  BY <1>1 DEF IInv, Failed
<1> QED
  BY <1>2, <1>3, <1>4, <1>5 DEF IInv

(* What a place of the thread says of the rest.                            *)
LEMMA PlaceFacts ==
    ASSUME IInv
    PROVE  /\ pc \in Places /\ cur \in [conn : Conns \cup {None}, back : Places]
           /\ todo \in Seq(Conns) /\ mgr \in MgrRecords
           /\ conn \in [Conns -> ConnRecords] /\ ep \in [Eps -> EpRecords]
           /\ req \in [Requests -> ReqRecords] /\ connReqs \in 0 .. MaxConnReqs
           /\ pc = "accept" => connReqs > 0
           /\ pc # "direct" => cur.back = "run"
           /\ pc = "direct" => cur.conn \in Conns /\ cur.back # "run"
           /\ pc # "destroyed" => SlotsKept(mgr) /\ (SlotsInUse => NoneLost(mgr))
           /\ Progressing => pc \in {"run", "direct", "dropFailed", "wait"}
<1>1. /\ pc \in Places /\ cur \in [conn : Conns \cup {None}, back : Places]
      /\ todo \in Seq(Conns) /\ mgr \in MgrRecords
      /\ conn \in [Conns -> ConnRecords] /\ ep \in [Eps -> EpRecords]
      /\ req \in [Requests -> ReqRecords] /\ connReqs \in 0 .. MaxConnReqs
      /\ pc = "accept" => connReqs > 0
  BY DEF IInv, Typed
<1>2. pc # "direct" => cur.back = "run"
  BY DEF IInv, AtWork
<1>3. pc = "direct" => cur.conn \in Conns /\ cur.back # "run"
  BY DEF IInv, AtWork
<1>4. pc # "destroyed" => SlotsKept(mgr) /\ (SlotsInUse => NoneLost(mgr))
  BY DEF IInv, Slotted
<1>5. Progressing => pc \in {"run", "direct", "dropFailed", "wait"}
  BY DEF Progressing
<1> QED
  BY <1>1, <1>2, <1>3, <1>4, <1>5

(* The thread goes from a place without a loop to another one.             *)
LEMMA PlainMoves ==
    ASSUME IInv, UNCHANGED <<cur, todo, mgr, conn, ep, req>>,
           pc \in {"run", "accept", "dispatch"},
           pc' \in {"run", "accept", "dispatch", "terminated"},
           connReqs' \in 0 .. MaxConnReqs, pc' = "accept" => connReqs' > 0
    PROVE  IInv'
<1>1. /\ cur \in [conn : Conns \cup {None}, back : Places]
      /\ todo \in Seq(Conns) /\ cur.back = "run"
      /\ cur = [conn |-> None, back |-> "run"]
  BY PlaceFacts DEF IInv, AtWork
<1>2. pc' \in Places
  BY DEF Places
<1>3. SlotsInUse' => SlotsInUse
  BY DEF SlotsInUse
<1>4. FailedWait' => FailedWait
  BY <1>1 DEF FailedWait
<1>5. AtWork'
  BY <1>1 DEF AtWork
<1> QED
  BY <1>1, <1>2, <1>3, <1>4, <1>5, ThreadMoves

LEMMA AcceptMoves ==
    ASSUME IInv, ProgressPendingConnRequests \/ RejectConnRequest
    PROVE  IInv'
<1>1. /\ connReqs \in 0 .. MaxConnReqs /\ MaxConnReqs \in Nat
      /\ pc = "accept" => connReqs > 0
  BY PlaceFacts, ConnectionsAssumption
<1>2. CASE ProgressPendingConnRequests
  BY <1>1, <1>2, PlainMoves DEF ProgressPendingConnRequests
<1>3. CASE RejectConnRequest
  BY <1>1, <1>3, PlainMoves DEF RejectConnRequest
<1> QED
  BY <1>2, <1>3

LEMMA DispatchMoves ==
    ASSUME IInv, RecreateFails \/ DispatchEnds
    PROVE  IInv'
<1>1. connReqs \in 0 .. MaxConnReqs
  BY PlaceFacts
<1>2. CASE RecreateFails
  BY <1>1, <1>2, PlainMoves DEF RecreateFails
<1>3. CASE DispatchEnds
  BY <1>1, <1>3, PlainMoves DEF DispatchEnds
<1> QED
  BY <1>2, <1>3

LEMMA ConnectRequestKeeps ==
    ASSUME IInv, ConnectRequestCallback
    PROVE  IInv'
<1>1. /\ connReqs \in 0 .. MaxConnReqs /\ pc \notin {"accept", "destroyed"} /\ pc \in Places
      /\ cur \in [conn : Conns \cup {None}, back : Places] /\ todo \in Seq(Conns)
  BY PlaceFacts DEF ConnectRequestCallback
<1>2. connReqs' \in 0 .. MaxConnReqs
  BY <1>1, ConnectionsAssumption DEF ConnectRequestCallback
<1>3. UNCHANGED <<pc, cur, todo, mgr, conn, ep, req>>
  BY DEF ConnectRequestCallback
<1>4. (SlotsInUse' => SlotsInUse) /\ (FailedWait' => FailedWait)
  BY <1>3 DEF SlotsInUse, FailedWait
<1>5. AtWork'
  BY <1>3 DEF IInv, AtWork
<1> QED
  BY <1>1, <1>2, <1>3, <1>4, <1>5, ThreadMoves

LEMMA DestroyMoves ==
    ASSUME IInv, DestroyConnections
    PROVE  IInv'
<1>1. /\ connReqs \in 0 .. MaxConnReqs /\ mgr \in MgrRecords
      /\ cur \in [conn : Conns \cup {None}, back : Places] /\ cur.back = "run"
      /\ cur = [conn |-> None, back |-> "run"]
  BY PlaceFacts DEF DestroyConnections, IInv, AtWork
<1>2. /\ pc = "run" /\ pc' = "directFailed" /\ todo' = mgr.failedConns
      /\ UNCHANGED <<cur, mgr, conn, ep, req, connReqs>>
  BY DEF DestroyConnections
<1>3. mgr.failedConns \in Seq(Conns)
  BY <1>1, MgrFields
<1>4. pc' \in Places
  BY <1>2 DEF Places
<1>5. (SlotsInUse' => SlotsInUse) /\ (FailedWait' => FailedWait)
  BY <1>2 DEF SlotsInUse, FailedWait
<1>6. \A i \in DOMAIN todo' : Has(mgr.failedConns, todo'[i])
  BY <1>2 DEF Has
<1>7. AtWork'
  BY <1>1, <1>2, <1>6 DEF AtWork
<1> QED
  BY <1>1, <1>2, <1>3, <1>4, <1>5, <1>7, ThreadMoves

LEMMA WaitMoves ==
    ASSUME IInv, AllDisconnected \/ WaitEnds
    PROVE  IInv'
<1>1. /\ connReqs \in 0 .. MaxConnReqs /\ mgr \in MgrRecords /\ todo \in Seq(Conns)
      /\ cur \in [conn : Conns \cup {None}, back : Places] /\ cur.back = "run"
      /\ cur = [conn |-> None, back |-> "run"]
  BY PlaceFacts DEF AllDisconnected, WaitEnds, IInv, AtWork
<1>2. CASE AllDisconnected
  <2>1. /\ pc = "disconnectAll" /\ pc' = "wait" /\ todo = <<>>
        /\ UNCHANGED <<cur, todo, mgr, conn, ep, req, connReqs>>
    BY <1>2 DEF AllDisconnected
  <2>2. pc' \in Places
    BY <2>1 DEF Places
  <2>3. (SlotsInUse' => SlotsInUse) /\ (FailedWait' => FailedWait)
    BY <1>1, <2>1 DEF SlotsInUse, FailedWait
  <2>4. AtWork'
    BY <1>1, <2>1 DEF AtWork
  <2> QED
    BY <1>1, <2>1, <2>2, <2>3, <2>4, ThreadMoves
<1>3. CASE WaitEnds
  <2>1. /\ pc = "wait" /\ pc' = "directRest"
        /\ todo' = mgr.failedConns \o mgr.disconnectingConns
        /\ UNCHANGED <<cur, mgr, conn, ep, req, connReqs>>
    BY <1>3 DEF WaitEnds
  <2>2. pc' \in Places
    BY <2>1 DEF Places
  <2>3. (SlotsInUse' => SlotsInUse) /\ (FailedWait' => FailedWait)
    BY <1>1, <2>1 DEF SlotsInUse, FailedWait
  <2>4. PICK e, f : e = mgr.failedConns /\ f = mgr.disconnectingConns
    OBVIOUS
  <2>5. e \in Seq(Conns) /\ f \in Seq(Conns) /\ todo' = e \o f
    BY <1>1, <2>1, <2>4, MgrFields
  <2>6. todo' \in Seq(Conns) /\ \A o : Has(todo', o) <=> Has(e, o) \/ Has(f, o)
    BY <2>5, ConcatFacts
  <2>7. \A i \in DOMAIN todo' : Has(e, todo'[i]) \/ Has(f, todo'[i])
    <3> TAKE i \in DOMAIN todo'
    <3>1. Has(todo', todo'[i])
      BY DEF Has
    <3> QED
      BY <2>6, <3>1
  <2>8. AtWork'
    BY <1>1, <2>1, <2>4, <2>7 DEF AtWork
  <2> QED
    BY <1>1, <2>1, <2>2, <2>3, <2>6, <2>8, ThreadMoves
<1> QED
  BY <1>2, <1>3

(* The loops of the destructor that call disconnect_direct.                *)
LEMMA LoopMoves ==
    ASSUME IInv, NEW here, NEW next, DirectLoop(here, next),
           \/ here = "directFailed" /\ next = "dropFailed"
           \/ here = "directRest" /\ next = "clear"
    PROVE  IInv'
<1>1. /\ connReqs \in 0 .. MaxConnReqs /\ todo \in Seq(Conns) /\ pc = here
      /\ cur \in [conn : Conns \cup {None}, back : Places] /\ cur.back = "run"
      /\ cur = [conn |-> None, back |-> "run"]
      /\ UNCHANGED <<mgr, conn, ep, req, connReqs>>
  BY PlaceFacts DEF DirectLoop, IInv, AtWork
<1>2. PICK e, f : e = mgr.failedConns /\ f = mgr.disconnectingConns
  OBVIOUS
<1>3. \A i \in DOMAIN todo :
         /\ here = "directFailed" => Has(e, todo[i])
         /\ here = "directRest" => Has(e, todo[i]) \/ Has(f, todo[i])
  BY <1>1, <1>2 DEF IInv, AtWork
<1>4. \A o : Has(todo, o) =>
         /\ here = "directFailed" => Has(e, o)
         /\ here = "directRest" => Has(e, o) \/ Has(f, o)
  BY <1>3 DEF Has
<1>5. CASE todo = <<>> /\ pc' = next /\ UNCHANGED <<cur, todo>>
  <2>1. pc' \in Places
    BY <1>5 DEF Places
  <2>2. (SlotsInUse' => SlotsInUse) /\ (FailedWait' => FailedWait)
    BY <1>1, <1>5 DEF SlotsInUse, FailedWait
  <2>3. AtWork'
    BY <1>1, <1>5 DEF AtWork
  <2> QED
    BY <1>1, <1>5, <2>1, <2>2, <2>3, ThreadMoves
<1>6. CASE /\ todo # <<>> /\ pc' = "direct" /\ todo' = Tail(todo)
           /\ cur' = [conn |-> Head(todo), back |-> here]
  <2>1. PICK h, l : h = Head(todo) /\ l = Tail(todo)
    OBVIOUS
  <2>2. l \in Seq(Conns) /\ h \in Conns /\ Has(todo, h) /\ \A o : Has(l, o) => Has(todo, o)
    BY <1>1, <1>6, <2>1, TailFacts
  <2>3. pc' \in Places /\ here \in Places
    BY <1>6 DEF Places
  <2>4. /\ cur' \in [conn : Conns \cup {None}, back : Places]
        /\ cur'.conn = h /\ cur'.back = here
    BY <1>6, <2>1, <2>2, <2>3
  <2>5. (SlotsInUse' => SlotsInUse) /\ (FailedWait' => FailedWait)
    BY <1>1, <1>6, <2>4 DEF SlotsInUse, FailedWait
  <2>6. \A i \in DOMAIN todo' : Has(l, todo'[i])
    BY <1>6, <2>1 DEF Has
  <2>7. /\ \A i \in DOMAIN todo' :
             /\ here = "directFailed" => Has(e, todo'[i])
             /\ here = "directRest" => Has(e, todo'[i]) \/ Has(f, todo'[i])
        /\ here = "directFailed" => Has(e, h)
        /\ here = "directRest" => Has(e, h) \/ Has(f, h)
    BY <1>4, <2>2, <2>6
  <2>8. AtWork'
    BY <1>1, <1>2, <1>6, <2>2, <2>4, <2>7 DEF AtWork
  <2> QED
    BY <1>1, <1>6, <2>1, <2>2, <2>3, <2>4, <2>5, <2>8, ThreadMoves
<1> QED
  BY <1>5, <1>6 DEF DirectLoop

(* Steps that only touch the requests.                                     *)
LEMMA RequestMoves ==
    ASSUME IInv, UNCHANGED <<pc, cur, todo, mgr, conn, ep, connReqs>>,
           req' \in [Requests -> ReqRecords], Requested'
    PROVE  IInv'
<1>1. /\ pc' = pc /\ cur' = cur /\ todo' = todo /\ mgr' = mgr /\ conn' = conn
      /\ ep' = ep /\ connReqs' = connReqs
  OBVIOUS
<1> QED
  BY <1>1 DEF IInv, Typed, Slotted, SlotsInUse, Living, Owned, Active, AtWork, Failed,
              FailedWait

LEMMA ReqFields ==
    ASSUME NEW q \in ReqRecords
    PROVE  /\ q.out \in BOOLEAN /\ q.conn \in Conns \cup {None} /\ q.callback \in BOOLEAN
           /\ q.called \in Nat
  BY DEF ReqRecords

LEMMA ProcessKeeps ==
    ASSUME IInv, NEW c \in Conns, conn[c].life = "live", ProcessRequest(c)
    PROVE  IInv'
<1>1. req \in [Requests -> ReqRecords]
  BY PlaceFacts
<1>2. PICK k : k = CHOOSE r \in Requests : ~req[r].out
  OBVIOUS
<1>3. k \in Requests
  BY <1>2 DEF ProcessRequest
<1>4. PICK q : q = [out |-> TRUE, conn |-> c, callback |-> TRUE, called |-> 0]
  OBVIOUS
<1>5. q \in ReqRecords /\ q.out /\ q.conn = c /\ q.callback /\ q.called = 0
  BY <1>4 DEF ReqRecords
<1>6. req' = [req EXCEPT ![k] = q] /\ UNCHANGED <<pc, cur, todo, mgr, conn, ep, connReqs>>
  BY <1>2, <1>4 DEF ProcessRequest
<1>7. req' \in [Requests -> ReqRecords]
  BY <1>1, <1>3, <1>5, <1>6
<1>8. req'[k] = q /\ \A r \in Requests : r # k => req'[r] = req[r]
  BY <1>1, <1>3, <1>6
<1>9. Requested'
  <2> SUFFICES ASSUME NEW r \in Requests
               PROVE  /\ req'[r].called = IF req'[r].out /\ req'[r].callback THEN 0 ELSE 1
                      /\ req'[r].callback => req'[r].conn # None
                      /\ req'[r].conn # None => req'[r].out /\ conn[req'[r].conn].life = "live"
    BY <1>6 DEF Requested
  <2>1. CASE r = k
    <3>1. c # None
      BY NoneAssumption
    <3> QED
      BY <1>5, <1>8, <2>1, <3>1
  <2>2. CASE r # k
    BY <1>8, <2>2 DEF IInv, Requested
  <2> QED
    BY <2>1, <2>2
<1> QED
  BY <1>6, <1>7, <1>9, RequestMoves

LEMMA SendKeeps ==
    ASSUME IInv, NEW c \in Conns,
           SendAmData(c) \/ SendAmIovData(c) \/ RecvAmData(c) \/ RecvAmIovData(c)
    PROVE  IInv'
<1>1. conn[c].life = "live" /\ ProcessRequest(c)
  BY DEF SendAmData, SendAmIovData, RecvAmData, RecvAmIovData
<1> QED
  BY <1>1, ProcessKeeps

LEMMA CallbackKeeps ==
    ASSUME IInv, NEW k \in Requests, CommonRequestCallback(k)
    PROVE  IInv'
<1>1. req \in [Requests -> ReqRecords]
  BY PlaceFacts
<1>2. PICK q : q = [out |-> FALSE, conn |-> None, callback |-> FALSE,
                    called |-> IF req[k].callback THEN req[k].called + 1 ELSE req[k].called]
  OBVIOUS
<1>3. req' = [req EXCEPT ![k] = q] /\ UNCHANGED <<pc, cur, todo, mgr, conn, ep, connReqs>>
  BY <1>2 DEF CommonRequestCallback
<1>4. /\ req[k].out
      /\ req[k].called = IF req[k].out /\ req[k].callback THEN 0 ELSE 1
  BY DEF CommonRequestCallback, IInv, Requested
<1>5. ~q.out /\ q.conn = None /\ ~q.callback /\ q.called = 1
  <2>1. (IF req[k].callback THEN req[k].called + 1 ELSE req[k].called) = 1
    BY <1>4
  <2>2. q = [out |-> FALSE, conn |-> None, callback |-> FALSE, called |-> 1]
    BY <1>2, <2>1
  <2> QED
    BY <2>2
<1>6. q \in ReqRecords
  <2>1. (IF req[k].callback THEN req[k].called + 1 ELSE req[k].called) = 1
    BY <1>4
  <2>2. q = [out |-> FALSE, conn |-> None, callback |-> FALSE, called |-> 1]
    BY <1>2, <2>1
  <2> QED
    BY <2>2 DEF ReqRecords
<1>7. req' \in [Requests -> ReqRecords]
  BY <1>1, <1>3, <1>6
<1>8. req'[k] = q /\ \A r \in Requests : r # k => req'[r] = req[r]
  BY <1>1, <1>3
<1>9. Requested'
  <2> SUFFICES ASSUME NEW r \in Requests
               PROVE  /\ req'[r].called = IF req'[r].out /\ req'[r].callback THEN 0 ELSE 1
                      /\ req'[r].callback => req'[r].conn # None
                      /\ req'[r].conn # None => req'[r].out /\ conn[req'[r].conn].life = "live"
    BY <1>3 DEF Requested
  <2>1. CASE r = k
    BY <1>5, <1>8, <2>1
  <2>2. CASE r # k
    BY <1>8, <2>2 DEF IInv, Requested
  <2> QED
    BY <2>1, <2>2
<1> QED
  BY <1>3, <1>7, <1>9, RequestMoves

(* What connect_common leaves: a new connection o with the endpoint e.     *)
Born(o, e) ==
    /\ conn' \in [Conns -> ConnRecords] /\ ep' \in [Eps -> EpRecords]
    /\ conn'[o].life = "live" /\ conn'[o].ep = e /\ conn'[o].status = "ok"
    /\ \A c \in Conns : c # o => conn'[c] = conn[c]
    /\ ep'[e].state = "open" /\ ep'[e].handler \in {o, None}
    /\ \A d \in Eps : d # e => ep'[d] = ep[d]

\* A connection that is not made yet and an endpoint that is free.
Fresh(o, e) ==
    /\ conn[o].ep = None /\ conn[o].life = "unborn" /\ ~Listed(mgr, o)
    /\ ep[e].state = "free" /\ e \notin DOMAIN mgr.activeMap
    /\ \A c \in Conns : conn[c].ep # e

(* An entry of active_map_ leads to a connection.                          *)
LEMMA FoundFacts ==
    ASSUME NEW m \in MgrRecords, SlotsKept(m), NEW e \in DOMAIN m.activeMap
    PROVE  Found(m, e) \in Conns /\ Has(m.connections, Found(m, e))
<1>1. PICK a, s : a = m.connections /\ s = m.activeMap[e]
  OBVIOUS
<1>2. a \in Seq(Conns \cup {None})
  BY <1>1, MgrFields
<1>3. s \in DOMAIN a /\ a[s] # None /\ Found(m, e) = a[s]
  BY <1>1 DEF SlotsKept, Found
<1>4. a[s] \in Conns \cup {None}
  BY <1>2, <1>3
<1> QED
  BY <1>1, <1>3, <1>4 DEF Has

LEMMA FreshFacts ==
    ASSUME IInv, pc # "destroyed", NEW o \in Conns, conn[o].life = "unborn",
           NEW e \in Eps, ep[e].state = "free"
    PROVE  Fresh(o, e)
<1>1. mgr \in MgrRecords /\ SlotsKept(mgr)
  BY PlaceFacts
<1>2. ~Listed(mgr, o)
  BY DEF IInv, Living
<1>3. conn[o].ep = None
  BY DEF IInv, Owned
<1>4. \A c \in Conns : conn[c].ep # e
  BY NoneAssumption DEF IInv, Owned
<1>5. e \notin DOMAIN mgr.activeMap
  <2> SUFFICES ASSUME e \in DOMAIN mgr.activeMap PROVE FALSE
    OBVIOUS
  <2>1. Found(mgr, e) \in Conns
    BY <1>1, FoundFacts
  <2>2. conn[Found(mgr, e)].ep = e
    BY DEF IInv, Active
  <2> QED
    BY <1>4, <2>1, <2>2
<1> QED
  BY <1>2, <1>3, <1>4, <1>5 DEF Fresh

LEMMA ConnectEffects ==
    ASSUME IInv, pc # "destroyed", NEW e \in Eps, NEW handled \in BOOLEAN,
           ConnectCommon(e, handled)
    PROVE  Constructed \in Conns /\ Fresh(Constructed, e) /\ Born(Constructed, e)
<1>1. PICK o : o = Constructed
  OBVIOUS
<1>2. o \in Conns /\ conn[o].life = "unborn"
  BY <1>1 DEF ConnectCommon, Constructible, Constructed
<1>3. Fresh(o, e)
  BY <1>2, FreshFacts DEF ConnectCommon
<1>4. conn \in [Conns -> ConnRecords] /\ ep \in [Eps -> EpRecords]
  BY PlaceFacts
<1>5. PICK h : h = IF handled THEN o ELSE None
  OBVIOUS
<1>6. PICK x, y : x = [state |-> "open", handler |-> h] /\ y = NewConnection(e)
  OBVIOUS
<1>7. ep' = [ep EXCEPT ![e] = x] /\ conn' = [conn EXCEPT ![o] = y]
  BY <1>1, <1>5, <1>6 DEF ConnectCommon
<1>8. h \in {o, None} /\ h \in Conns \cup {None}
  BY <1>2, <1>5
<1>9. x \in EpRecords /\ x.state = "open" /\ x.handler = h
  BY <1>6, <1>8 DEF EpRecords
<1>10. y \in ConnRecords /\ y.life = "live" /\ y.ep = e /\ y.status = "ok"
  <2> DEFINE u1 == [Unborn EXCEPT !.life = "live"]
             u2 == [u1 EXCEPT !.ep = e]
  <2>1. y = u2
    BY <1>6 DEF NewConnection
  <2>2. u1 \in ConnRecords /\ u1.life = "live" /\ u1.status = "ok"
    <3>1. PICK u : u = Unborn
      OBVIOUS
    <3>2. u \in ConnRecords /\ u.status = "ok"
      BY <3>1 DEF Unborn, ConnRecords
    <3>3. u1 = [u EXCEPT !.life = "live"]
      BY <3>1
    <3>4. [u EXCEPT !.life = "live"] \in ConnRecords /\ [u EXCEPT !.life = "live"].life = "live"
          /\ [u EXCEPT !.life = "live"].status = "ok"
      BY <3>2 DEF ConnRecords
    <3> QED
      BY <3>3, <3>4
  <2> HIDE DEF u1
  <2>3. u2 \in ConnRecords /\ u2.life = "live" /\ u2.ep = e /\ u2.status = "ok"
    BY <2>2 DEF ConnRecords
  <2> HIDE DEF u2
  <2> QED
    BY <2>1, <2>3
<1>11. conn' \in [Conns -> ConnRecords] /\ ep' \in [Eps -> EpRecords]
  BY <1>2, <1>4, <1>7, <1>9, <1>10
<1>12. conn'[o] = y /\ \A c \in Conns : c # o => conn'[c] = conn[c]
  BY <1>2, <1>4, <1>7
<1>13. ep'[e] = x /\ \A d \in Eps : d # e => ep'[d] = ep[d]
  BY <1>4, <1>7
<1>14. Born(o, e)
  BY <1>8, <1>9, <1>10, <1>11, <1>12, <1>13 DEF Born
<1> QED
  BY <1>1, <1>2, <1>3, <1>14

(* A new connection in a slot: what concerns endpoints and requests.       *)
LEMMA BornKeeps ==
    ASSUME IInv, pc # "destroyed", NEW o \in Conns, NEW e \in Eps, Fresh(o, e), Born(o, e),
           NEW n, n = AddConnection(mgr, e, o)
    PROVE  /\ n \in MgrRecords /\ SlotsKept(n) /\ ListedOnce(n)
           /\ NoneLost(mgr) => NoneLost(n)
           /\ n.failedConns = mgr.failedConns
           /\ n.disconnectingConns = mgr.disconnectingConns
           /\ Owned'
           /\ \A c \in Conns : conn'[c].life = "live" <=> Listed(n, c)
           /\ \A d \in DOMAIN n.activeMap :
                conn'[Found(n, d)].ep = d /\ conn'[Found(n, d)].status = "ok"
           /\ FailedWait => \A c : Has(n.failedConns, c) =>
                              conn'[c].ep # None /\ ep'[conn'[c].ep].state = "failed"
           /\ req' = req => Requested'
<1>1. mgr \in MgrRecords /\ SlotsKept(mgr)
  BY PlaceFacts
<1>2. /\ conn[o].ep = None /\ conn[o].life = "unborn" /\ ~Listed(mgr, o)
      /\ ep[e].state = "free" /\ e \notin DOMAIN mgr.activeMap
      /\ \A c \in Conns : conn[c].ep # e
  BY DEF Fresh
<1>3. /\ conn'[o].life = "live" /\ conn'[o].ep = e /\ conn'[o].status = "ok"
      /\ \A c \in Conns : c # o => conn'[c] = conn[c]
      /\ ep'[e].state = "open" /\ ep'[e].handler \in {o, None}
      /\ \A d \in Eps : d # e => ep'[d] = ep[d]
  BY DEF Born
<1>4. ListedOnce(mgr)
  BY DEF IInv
<1>5. /\ n \in MgrRecords /\ SlotsKept(n) /\ ListedOnce(n) /\ (NoneLost(mgr) => NoneLost(n))
      /\ DOMAIN n.activeMap = DOMAIN mgr.activeMap \cup {e}
      /\ Found(n, e) = o
      /\ \A d \in DOMAIN mgr.activeMap : Found(n, d) = Found(mgr, d)
      /\ \A c \in Conns : Has(n.connections, c) <=> Has(mgr.connections, c) \/ c = o
      /\ n.failedConns = mgr.failedConns
      /\ n.disconnectingConns = mgr.disconnectingConns
  BY <1>1, <1>2, <1>4, AddFacts
<1>6. o # None /\ e # None /\ \A d \in Eps : d # None
  BY NoneAssumption
<1>7. Owned'
  <2>1. /\ \A c \in Conns : conn[c].ep # None =>
             conn[c].life = "live" /\ ep[conn[c].ep].state \in {"open", "failed"}
        /\ \A c, d \in Conns : conn[c].ep # None /\ conn[c].ep = conn[d].ep => c = d
        /\ \A d \in Eps : ep[d].state \in {"open", "failed"} => \E c \in Conns : conn[c].ep = d
        /\ \A d \in Eps : ep[d].handler # None => conn[ep[d].handler].ep = d
    BY DEF IInv, Owned
  <2>2. \A c \in Conns : conn[c].ep \in Eps \cup {None}
    BY PlaceFacts, ConnFields
  <2>3. \A d \in Eps : ep[d].handler \in Conns \cup {None}
    BY PlaceFacts DEF EpRecords
  <2>4. \A c \in Conns : conn'[c].ep # None =>
          conn'[c].life = "live" /\ ep'[conn'[c].ep].state \in {"open", "failed"}
    <3> TAKE c \in Conns
    <3>1. CASE c = o
      BY <1>3, <3>1
    <3>2. CASE c # o
      BY <1>2, <1>3, <2>1, <2>2, <3>2
    <3> QED
      BY <3>1, <3>2
  <2>5. \A c, d \in Conns : conn'[c].ep # None /\ conn'[c].ep = conn'[d].ep => c = d
    <3> TAKE c, d \in Conns
    <3>1. CASE c = o \/ d = o
      BY <1>2, <1>3, <3>1
    <3>2. CASE c # o /\ d # o
      BY <1>3, <2>1, <3>2
    <3> QED
      BY <3>1, <3>2
  <2>6. \A d \in Eps : ep'[d].state \in {"open", "failed"} => \E c \in Conns : conn'[c].ep = d
    <3> SUFFICES ASSUME NEW d \in Eps, ep'[d].state \in {"open", "failed"}
                 PROVE  \E c \in Conns : conn'[c].ep = d
      OBVIOUS
    <3>1. CASE d = e
      BY <1>3, <3>1
    <3>2. CASE d # e
      <4>1. PICK c \in Conns : conn[c].ep = d
        BY <1>3, <2>1, <3>2
      <4>2. c # o
        BY <1>2, <1>6, <4>1
      <4> QED
        BY <1>3, <4>1, <4>2
    <3> QED
      BY <3>1, <3>2
  <2>7. \A d \in Eps : ep'[d].handler # None => conn'[ep'[d].handler].ep = d
    <3> SUFFICES ASSUME NEW d \in Eps, ep'[d].handler # None
                 PROVE  conn'[ep'[d].handler].ep = d
      OBVIOUS
    <3>1. CASE d = e
      BY <1>3, <3>1
    <3>2. CASE d # e
      <4>1. PICK c : c = ep[d].handler /\ c = ep'[d].handler
        BY <1>3, <3>2
      <4>2. c \in Conns /\ conn[c].ep = d
        BY <2>1, <2>3, <4>1
      <4>3. c # o
        BY <1>2, <1>6, <4>2
      <4> QED
        BY <1>3, <4>1, <4>2, <4>3
    <3> QED
      BY <3>1, <3>2
  <2> QED
    BY <2>4, <2>5, <2>6, <2>7 DEF Owned
<1>8. \A c \in Conns : conn'[c].life = "live" <=> Listed(n, c)
  <2>1. \A c \in Conns : conn[c].life = "live" <=> Listed(mgr, c)
    BY DEF IInv, Living
  <2>2. \A c \in Conns : Listed(n, c) <=> Listed(mgr, c) \/ c = o
    BY <1>5 DEF Listed
  <2> QED
    BY <1>3, <2>1, <2>2
<1>9. \A d \in DOMAIN n.activeMap :
        conn'[Found(n, d)].ep = d /\ conn'[Found(n, d)].status = "ok"
  <2> SUFFICES ASSUME NEW d \in DOMAIN n.activeMap
               PROVE  conn'[Found(n, d)].ep = d /\ conn'[Found(n, d)].status = "ok"
    OBVIOUS
  <2>1. CASE d = e
    BY <1>3, <1>5, <2>1
  <2>2. CASE d # e
    <3>1. d \in DOMAIN mgr.activeMap /\ Found(n, d) = Found(mgr, d)
      BY <1>5, <2>2
    <3>2. Found(mgr, d) \in Conns /\ Has(mgr.connections, Found(mgr, d))
      BY <1>1, <3>1, FoundFacts
    <3>3. Found(mgr, d) # o
      BY <1>2, <3>2 DEF Listed
    <3>4. conn[Found(mgr, d)].ep = d /\ conn[Found(mgr, d)].status = "ok"
      BY <3>1 DEF IInv, Active
    <3> QED
      BY <1>3, <3>1, <3>2, <3>3, <3>4
  <2> QED
    BY <2>1, <2>2
<1>10. FailedWait => \A c : Has(n.failedConns, c) =>
                       conn'[c].ep # None /\ ep'[conn'[c].ep].state = "failed"
  <2> SUFFICES ASSUME FailedWait, NEW c, Has(mgr.failedConns, c)
               PROVE  conn'[c].ep # None /\ ep'[conn'[c].ep].state = "failed"
    BY <1>5
  <2>1. c \in Conns
    <3>1. mgr.failedConns \in Seq(Conns)
      BY <1>1, MgrFields
    <3> QED
      BY <3>1 DEF Has
  <2>2. conn[c].ep # None /\ ep[conn[c].ep].state = "failed"
    BY DEF IInv, Failed, Has
  <2>3. c # o
    BY <1>2 DEF Listed
  <2>4. conn[c].ep \in Eps
    BY <2>1, <2>2, PlaceFacts, ConnFields
  <2> QED
    BY <1>2, <1>3, <2>1, <2>2, <2>3, <2>4
<1>11. req' = req => Requested'
  <2> SUFFICES ASSUME req' = req, NEW r \in Requests
               PROVE  /\ req'[r].called = IF req'[r].out /\ req'[r].callback THEN 0 ELSE 1
                      /\ req'[r].callback => req'[r].conn # None
                      /\ req'[r].conn # None => req'[r].out /\ conn'[req'[r].conn].life = "live"
    BY DEF Requested
  <2>1. /\ req[r].called = IF req[r].out /\ req[r].callback THEN 0 ELSE 1
        /\ req[r].callback => req[r].conn # None
        /\ req[r].conn # None => req[r].out /\ conn[req[r].conn].life = "live"
    BY DEF IInv, Requested
  <2>2. req[r].conn \in Conns \cup {None}
    BY PlaceFacts, ReqFields
  <2>3. req[r].conn # None => conn'[req[r].conn].life = "live"
    BY <1>2, <1>3, <2>1, <2>2
  <2> QED
    BY <2>1, <2>3
<1> QED
  BY <1>5, <1>7, <1>8, <1>9, <1>10, <1>11

LEMMA AddKeeps ==
    ASSUME IInv, pc # "destroyed", NEW o \in Conns, NEW e \in Eps, Fresh(o, e), Born(o, e),
           mgr' = AddConnection(mgr, e, o), UNCHANGED <<cur, todo, req>>,
           pc' = pc \/ (pc = "accept" /\ pc' = "run"),
           connReqs' \in 0 .. MaxConnReqs, pc' = "accept" => connReqs' > 0
    PROVE  IInv'
<1>1. /\ mgr' \in MgrRecords /\ SlotsKept(mgr') /\ ListedOnce(mgr')
      /\ NoneLost(mgr) => NoneLost(mgr')
      /\ mgr'.failedConns = mgr.failedConns
      /\ mgr'.disconnectingConns = mgr.disconnectingConns
      /\ Owned'
      /\ \A c \in Conns : conn'[c].life = "live" <=> Listed(mgr', c)
      /\ \A d \in DOMAIN mgr'.activeMap :
           conn'[Found(mgr', d)].ep = d /\ conn'[Found(mgr', d)].status = "ok"
      /\ FailedWait => \A c : Has(mgr'.failedConns, c) =>
                         conn'[c].ep # None /\ ep'[conn'[c].ep].state = "failed"
      /\ Requested'
  BY BornKeeps
<1>2. pc \in Places /\ cur \in [conn : Conns \cup {None}, back : Places] /\ todo \in Seq(Conns)
      /\ req \in [Requests -> ReqRecords]
  BY PlaceFacts
<1>3. Typed'
  <2>1. pc' \in Places
    BY <1>2 DEF Places
  <2>2. conn' \in [Conns -> ConnRecords] /\ ep' \in [Eps -> EpRecords]
    BY DEF Born
  <2> QED
    BY <1>1, <1>2, <2>1, <2>2 DEF Typed
<1>4. (SlotsInUse' => SlotsInUse) /\ (FailedWait' => FailedWait)
  BY DEF SlotsInUse, FailedWait
<1>5. Slotted'
  BY <1>1, <1>4, PlaceFacts DEF Slotted
<1>6. Living' /\ Active'
  BY <1>1 DEF Living, Active
<1>7. Failed'
  BY <1>1, <1>4 DEF Failed, Has
<1>8. AtWork'
  BY <1>1 DEF IInv, AtWork
<1> QED
  BY <1>1, <1>3, <1>5, <1>6, <1>7, <1>8 DEF IInv

LEMMA ConnectKeeps ==
    ASSUME IInv, NEW e \in Eps, Connect(e) \/ AmRecvCallback(e) \/ ProgressConnRequest(e)
    PROVE  IInv'
<1>1. connReqs \in 0 .. MaxConnReqs /\ (pc = "accept" => connReqs > 0) /\ MaxConnReqs \in Nat
  BY PlaceFacts, ConnectionsAssumption
<1>2. PICK handled \in BOOLEAN : ConnectCommon(e, handled)
  BY ConnectionsAssumption DEF Connect, CreateNewConnection, AmRecvCallback,
     CreateNewConnectionForEp, ProgressConnRequest, Accept
<1>3. /\ mgr' = AddConnection(mgr, e, Constructed) /\ UNCHANGED <<cur, todo, req>>
  BY DEF Connect, AmRecvCallback, ProgressConnRequest, HandleNewConnection
<1>4. pc # "destroyed"
  BY PlaceFacts DEF Connect, AmRecvCallback, ProgressConnRequest
<1>5. Constructed \in Conns /\ Fresh(Constructed, e) /\ Born(Constructed, e)
  BY <1>2, <1>4, ConnectEffects
<1>6. CASE Connect(e) \/ AmRecvCallback(e)
  <2>1. pc' = pc /\ connReqs' = connReqs
    BY <1>6 DEF Connect, AmRecvCallback
  <2> QED
    BY <1>1, <1>3, <1>4, <1>5, <2>1, AddKeeps
<1>7. CASE ProgressConnRequest(e)
  <2>1. /\ pc = "accept" /\ connReqs' = connReqs - 1
        /\ pc' = IF connReqs = 1 THEN "run" ELSE "accept"
    BY <1>7 DEF ProgressConnRequest
  <2>2. connReqs' \in 0 .. MaxConnReqs /\ (pc' = "accept" => connReqs' > 0)
    BY <1>1, <2>1
  <2>3. pc' = pc \/ (pc = "accept" /\ pc' = "run")
    BY <2>1
  <2> QED
    BY <1>3, <1>4, <1>5, <2>2, <2>3, AddKeeps
<1> QED
  BY <1>6, <1>7

(* The failed connection that is handled is closed next.                   *)
LEMMA DispatchThread ==
    ASSUME IInv, NEW c \in Conns, pc \in {"run", "dispatch"}, Dispatch(c),
           UNCHANGED <<todo, connReqs>>, Has(mgr'.disconnectingConns, c)
    PROVE  /\ pc' = "direct" /\ pc' \in Places /\ cur'.back = "dispatch"
           /\ cur' \in [conn : Conns \cup {None}, back : Places]
           /\ todo' \in Seq(Conns) /\ connReqs' \in 0 .. MaxConnReqs
           /\ SlotsInUse /\ FailedWait /\ AtWork'
<1>1. todo \in Seq(Conns) /\ connReqs \in 0 .. MaxConnReqs
  BY PlaceFacts
<1>2. pc' = "direct" /\ cur' = [conn |-> c, back |-> "dispatch"]
  BY DEF Dispatch
<1>3. "direct" \in Places /\ "dispatch" \in Places
  BY DEF Places
<1>4. /\ cur' \in [conn : Conns \cup {None}, back : Places]
      /\ cur'.conn = c /\ cur'.back = "dispatch"
  BY <1>2, <1>3
<1>5. SlotsInUse /\ FailedWait
  BY DEF SlotsInUse, FailedWait
<1>6. AtWork'
  BY <1>2, <1>4 DEF AtWork
<1> QED
  BY <1>1, <1>2, <1>3, <1>4, <1>5, <1>6

LEMMA DispatchKeeps ==
    ASSUME IInv, DispatchConnectionError
    PROVE  IInv'
<1>1. PICK c : c = Head(mgr.failedConns)
  OBVIOUS
<1>2. /\ pc \in {"run", "dispatch"} /\ mgr.failedConns # <<>> /\ Dispatch(c)
      /\ UNCHANGED <<todo, conn, ep, req, connReqs>>
      /\ mgr' = ListsExcept(mgr, Tail(mgr.failedConns),
                            Append(mgr.disconnectingConns, Head(mgr.failedConns)))
  BY <1>1 DEF DispatchConnectionError, ListsExcept
<1>3. /\ mgr \in MgrRecords /\ SlotsKept(mgr) /\ (SlotsInUse => NoneLost(mgr))
      /\ ListedOnce(mgr)
  BY <1>2, PlaceFacts DEF IInv
<1>4. /\ mgr' \in MgrRecords /\ SlotsSame(mgr, mgr') /\ ListedOnce(mgr')
      /\ c \in Conns /\ Has(mgr.failedConns, c)
      /\ \A d : Has(mgr'.failedConns, d) => Has(mgr.failedConns, d)
      /\ \A d : Has(mgr'.disconnectingConns, d) <=> Has(mgr.disconnectingConns, d) \/ d = c
      /\ \A d \in Conns : Listed(mgr', d) <=> Listed(mgr, d)
  BY <1>1, <1>2, <1>3, DispatchFacts
<1>5. /\ pc' = "direct" /\ pc' \in Places /\ cur'.back = "dispatch"
      /\ cur' \in [conn : Conns \cup {None}, back : Places]
      /\ todo' \in Seq(Conns) /\ connReqs' \in 0 .. MaxConnReqs
      /\ SlotsInUse /\ FailedWait /\ AtWork'
  BY <1>2, <1>4, DispatchThread
<1>6. Typed'
  BY <1>2, <1>4, <1>5, PlaceFacts DEF Typed
<1>7. SlotsKept(mgr') /\ NoneLost(mgr') /\ \A e : Found(mgr', e) = Found(mgr, e)
  BY <1>3, <1>4, <1>5, SameSlots
<1>8. Slotted'
  BY <1>5, <1>7 DEF Slotted
<1>9. Living'
  BY <1>2, <1>4 DEF IInv, Living
<1>10. Owned' /\ Requested'
  BY <1>2 DEF IInv, Owned, Requested
<1>11. Active'
  <2>1. DOMAIN mgr'.activeMap = DOMAIN mgr.activeMap
    BY <1>4 DEF SlotsSame
  <2> QED
    BY <1>2, <1>7, <2>1 DEF IInv, Active
<1>12. Failed'
  <2>1. \A d : Has(mgr.failedConns, d) => conn[d].ep # None /\ ep[conn[d].ep].state = "failed"
    BY <1>5 DEF IInv, Failed, Has
  <2>2. \A d : Has(mgr'.failedConns, d) => conn'[d].ep # None /\ ep'[conn'[d].ep].state = "failed"
    BY <1>2, <1>4, <2>1
  <2> QED
    BY <2>2 DEF Failed, Has
<1> QED
  BY <1>4, <1>5, <1>6, <1>8, <1>9, <1>10, <1>11, <1>12 DEF IInv

LEMMA RecreateKeeps ==
    ASSUME IInv, NEW e \in Eps, RecreateConnectionFromFailed(e)
    PROVE  IInv'
<1>1. PICK c, o : c = Head(mgr.failedConns) /\ o = Constructed
  OBVIOUS
<1>2. PICK n : n = AddConnection(mgr, e, o)
  OBVIOUS
<1>3. /\ pc \in {"run", "dispatch"} /\ mgr.failedConns # <<>> /\ Dispatch(c)
      /\ UNCHANGED <<todo, req, connReqs>>
      /\ ConnectCommon(e, ConnectionHandleError)
  BY <1>1 DEF RecreateConnectionFromFailed, CreateNewConnection
<1>4. mgr' = ListsExcept(n, Tail(n.failedConns), Append(n.disconnectingConns, c))
  BY <1>1, <1>2 DEF RecreateConnectionFromFailed, HandleNewConnection, ListsExcept
<1>5. o \in Conns /\ Fresh(o, e) /\ Born(o, e)
  BY <1>1, <1>3, ConnectEffects, ConnectionsAssumption
<1>6. /\ n \in MgrRecords /\ SlotsKept(n) /\ ListedOnce(n)
      /\ NoneLost(mgr) => NoneLost(n)
      /\ n.failedConns = mgr.failedConns
      /\ Owned'
      /\ \A d \in Conns : conn'[d].life = "live" <=> Listed(n, d)
      /\ \A d \in DOMAIN n.activeMap :
           conn'[Found(n, d)].ep = d /\ conn'[Found(n, d)].status = "ok"
      /\ FailedWait => \A d : Has(n.failedConns, d) =>
                         conn'[d].ep # None /\ ep'[conn'[d].ep].state = "failed"
      /\ Requested'
  BY <1>2, <1>3, <1>5, BornKeeps
<1>7. /\ mgr' \in MgrRecords /\ SlotsSame(n, mgr') /\ ListedOnce(mgr')
      /\ c \in Conns
      /\ \A d : Has(mgr'.failedConns, d) => Has(n.failedConns, d)
      /\ \A d : Has(mgr'.disconnectingConns, d) <=> Has(n.disconnectingConns, d) \/ d = c
      /\ \A d \in Conns : Listed(mgr', d) <=> Listed(n, d)
  <2>1. c = Head(n.failedConns) /\ n.failedConns # <<>>
    BY <1>1, <1>3, <1>6
  <2> QED
    BY <1>4, <1>6, <2>1, DispatchFacts
<1>8. /\ pc' = "direct" /\ pc' \in Places /\ cur'.back = "dispatch"
      /\ cur' \in [conn : Conns \cup {None}, back : Places]
      /\ todo' \in Seq(Conns) /\ connReqs' \in 0 .. MaxConnReqs
      /\ SlotsInUse /\ FailedWait /\ AtWork'
  BY <1>3, <1>7, DispatchThread
<1>9. Typed'
  <2>1. conn' \in [Conns -> ConnRecords] /\ ep' \in [Eps -> EpRecords]
    BY <1>5 DEF Born
  <2> QED
    BY <1>3, <1>7, <1>8, <2>1, PlaceFacts DEF Typed
<1>10. NoneLost(mgr)
  BY <1>3, <1>8, PlaceFacts
<1>11. SlotsKept(mgr') /\ NoneLost(mgr') /\ \A d : Found(mgr', d) = Found(n, d)
  BY <1>6, <1>7, <1>10, SameSlots
<1>12. Slotted'
  BY <1>8, <1>11 DEF Slotted
<1>13. Living'
  BY <1>6, <1>7 DEF Living
<1>14. Active'
  <2>1. DOMAIN mgr'.activeMap = DOMAIN n.activeMap
    BY <1>7 DEF SlotsSame
  <2> QED
    BY <1>6, <1>11, <2>1 DEF Active
<1>15. Failed'
  BY <1>6, <1>7, <1>8 DEF Failed, Has
<1> QED
  BY <1>6, <1>7, <1>8, <1>9, <1>12, <1>13, <1>14, <1>15 DEF IInv

(* Steps that keep the thread and the manager.                             *)
LEMMA QuietKeeps ==
    ASSUME IInv, UNCHANGED <<pc, cur, todo, mgr, req, connReqs>>,
           conn' \in [Conns -> ConnRecords], ep' \in [Eps -> EpRecords],
           Living', Owned', Active', Failed', Requested'
    PROVE  IInv'
<1>1. /\ pc' = pc /\ cur' = cur /\ todo' = todo /\ mgr' = mgr /\ req' = req
      /\ connReqs' = connReqs
  OBVIOUS
<1>2. Typed'
  BY <1>1 DEF IInv, Typed
<1>3. ListedOnce(mgr)' /\ Slotted' /\ AtWork'
  BY <1>1 DEF IInv, Slotted, SlotsInUse, AtWork
<1> QED
  BY <1>2, <1>3 DEF IInv

(* The requests refer to connections that stay.                            *)
LEMMA RequestsStay ==
    ASSUME IInv, req' = req,
           \A c \in Conns : conn[c].life = "live" => conn'[c].life = "live"
    PROVE  Requested'
<1> SUFFICES ASSUME NEW r \in Requests
             PROVE  /\ req'[r].called = IF req'[r].out /\ req'[r].callback THEN 0 ELSE 1
                    /\ req'[r].callback => req'[r].conn # None
                    /\ req'[r].conn # None => req'[r].out /\ conn'[req'[r].conn].life = "live"
  BY DEF Requested
<1>1. /\ req[r].called = IF req[r].out /\ req[r].callback THEN 0 ELSE 1
      /\ req[r].callback => req[r].conn # None
      /\ req[r].conn # None => req[r].out /\ conn[req[r].conn].life = "live"
  BY DEF IInv, Requested
<1>2. req[r].conn \in Conns \cup {None}
  BY PlaceFacts, ReqFields
<1>3. req[r].conn # None => conn'[req[r].conn].life = "live"
  BY <1>1, <1>2
<1> QED
  BY <1>1, <1>3

(* The connections that have failed, and the ones that are found.          *)
LEMMA FailedFacts ==
    ASSUME IInv, NEW c, Has(mgr.failedConns, c)
    PROVE  /\ c \in Conns
           /\ FailedWait => conn[c].ep \in Eps /\ ep[conn[c].ep].state = "failed"
<1>1. mgr.failedConns \in Seq(Conns)
  BY PlaceFacts, MgrFields
<1>2. c \in Conns
  BY <1>1 DEF Has
<1>3. FailedWait => conn[c].ep # None /\ ep[conn[c].ep].state = "failed"
  BY DEF IInv, Failed, Has
<1>4. conn[c].ep \in Eps \cup {None}
  BY <1>2, PlaceFacts, ConnFields
<1> QED
  BY <1>2, <1>3, <1>4

LEMMA ActiveFacts ==
    ASSUME IInv, pc # "destroyed", NEW e \in DOMAIN mgr.activeMap
    PROVE  /\ e \in Eps /\ Found(mgr, e) \in Conns /\ Has(mgr.connections, Found(mgr, e))
           /\ conn[Found(mgr, e)].ep = e /\ conn[Found(mgr, e)].status = "ok"
           /\ \A c \in Conns : conn[c].ep = e => c = Found(mgr, e)
<1>1. mgr \in MgrRecords /\ SlotsKept(mgr)
  BY PlaceFacts
<1>2. e \in Eps /\ Found(mgr, e) \in Conns /\ Has(mgr.connections, Found(mgr, e))
  BY <1>1, FoundFacts, MgrFields
<1>3. conn[Found(mgr, e)].ep = e /\ conn[Found(mgr, e)].status = "ok"
  BY DEF IInv, Active
<1>4. \A c \in Conns : conn[c].ep = e => c = Found(mgr, e)
  BY <1>2, <1>3, NoneAssumption DEF IInv, Owned
<1> QED
  BY <1>2, <1>3, <1>4

(* The endpoints change their state within what Owned allows.              *)
LEMMA OwnedStays ==
    ASSUME IInv, \A c \in Conns : conn'[c].ep = conn[c].ep /\ conn'[c].life = conn[c].life,
           \A e \in Eps : /\ ep'[e].handler = ep[e].handler
                          /\ ep'[e].state \in {"open", "failed"} <=>
                               ep[e].state \in {"open", "failed"}
    PROVE  Owned'
<1>1. /\ \A c \in Conns : conn[c].ep # None =>
           conn[c].life = "live" /\ ep[conn[c].ep].state \in {"open", "failed"}
      /\ \A c, d \in Conns : conn[c].ep # None /\ conn[c].ep = conn[d].ep => c = d
      /\ \A d \in Eps : ep[d].state \in {"open", "failed"} => \E c \in Conns : conn[c].ep = d
      /\ \A d \in Eps : ep[d].handler # None => conn[ep[d].handler].ep = d
  BY DEF IInv, Owned
<1>2. \A c \in Conns : conn[c].ep \in Eps \cup {None}
  BY PlaceFacts, ConnFields
<1>3. \A d \in Eps : ep[d].handler \in Conns \cup {None}
  BY PlaceFacts DEF EpRecords
<1>4. \A c \in Conns : conn'[c].ep # None =>
        conn'[c].life = "live" /\ ep'[conn'[c].ep].state \in {"open", "failed"}
  BY <1>1, <1>2
<1>5. \A c, d \in Conns : conn'[c].ep # None /\ conn'[c].ep = conn'[d].ep => c = d
  BY <1>1
<1>6. \A d \in Eps : ep'[d].state \in {"open", "failed"} => \E c \in Conns : conn'[c].ep = d
  BY <1>1
<1>7. \A d \in Eps : ep'[d].handler # None => conn'[ep'[d].handler].ep = d
  BY <1>1, <1>3
<1> QED
  BY <1>4, <1>5, <1>6, <1>7 DEF Owned

LEMMA CloseCompletedKeeps ==
    ASSUME IInv, NEW e \in Eps, CloseCompleted(e)
    PROVE  IInv'
<1>1. conn \in [Conns -> ConnRecords] /\ ep \in [Eps -> EpRecords] /\ pc # "destroyed"
  BY PlaceFacts DEF CloseCompleted
<1>2. /\ ep[e].state = "closing" /\ ep' = [ep EXCEPT ![e].state = "free"]
      /\ UNCHANGED <<pc, cur, todo, mgr, req, connReqs>>
      /\ conn' = [c \in Conns |-> IF conn[c].closing = e
                                  THEN [conn[c] EXCEPT !.closing = None] ELSE conn[c]]
  BY DEF CloseCompleted
<1>3. ASSUME NEW c \in Conns
      PROVE  /\ conn'[c] \in ConnRecords
             /\ conn'[c].life = conn[c].life /\ conn'[c].ep = conn[c].ep
             /\ conn'[c].status = conn[c].status
  <2>1. PICK r \in ConnRecords : r = conn[c]
    BY <1>1
  <2>2. conn'[c] = IF r.closing = e THEN [r EXCEPT !.closing = None] ELSE r
    BY <1>2, <2>1
  <2>3. PICK q : q = [r EXCEPT !.closing = None]
    OBVIOUS
  <2>4. q \in ConnRecords /\ q.life = r.life /\ q.ep = r.ep /\ q.status = r.status
    BY <2>3 DEF ConnRecords
  <2> QED
    BY <2>1, <2>2, <2>3, <2>4
<1>4. conn' \in [Conns -> ConnRecords]
  <2>1. conn' = [c \in Conns |-> conn'[c]]
    BY <1>2
  <2> QED
    BY <1>3, <2>1
<1>5. /\ ep' \in [Eps -> EpRecords] /\ ep'[e].state = "free" /\ ep'[e].handler = ep[e].handler
      /\ \A d \in Eps : d # e => ep'[d] = ep[d]
  <2>1. PICK x : x = [ep[e] EXCEPT !.state = "free"]
    OBVIOUS
  <2>2. PICK y \in EpRecords : y = ep[e]
    BY <1>1
  <2>3. x = [y EXCEPT !.state = "free"]
    BY <2>1, <2>2
  <2>4. x \in EpRecords /\ x.state = "free" /\ x.handler = y.handler
    BY <2>3 DEF EpRecords
  <2>5. ep' = [ep EXCEPT ![e] = x]
    BY <1>2, <2>1
  <2> QED
    BY <1>1, <2>2, <2>4, <2>5
<1>6. Owned'
  BY <1>2, <1>3, <1>5, OwnedStays
<1>7. Living'
  BY <1>2, <1>3 DEF IInv, Living
<1>8. Active'
  BY <1>1, <1>2, <1>3, ActiveFacts DEF Active
<1>9. Failed'
  <2> SUFFICES ASSUME FailedWait, NEW c, Has(mgr.failedConns, c)
               PROVE  conn'[c].ep # None /\ ep'[conn'[c].ep].state = "failed"
    BY <1>2 DEF Failed, FailedWait, Has
  <2>1. c \in Conns /\ conn[c].ep \in Eps /\ ep[conn[c].ep].state = "failed"
    BY FailedFacts
  <2> QED
    BY <1>2, <1>3, <1>5, <2>1, NoneAssumption
<1>10. Requested'
  BY <1>2, <1>3, RequestsStay
<1> QED
  BY <1>2, <1>4, <1>5, <1>6, <1>7, <1>8, <1>9, <1>10, QuietKeeps

LEMMA RefusedKeeps ==
    ASSUME IInv, NEW e \in Eps, AmRecvCallbackRefused(e)
    PROVE  IInv'
<1>1. conn \in [Conns -> ConnRecords] /\ ep \in [Eps -> EpRecords] /\ pc # "destroyed"
  BY PlaceFacts DEF AmRecvCallbackRefused
<1>2. PICK o : o = Constructed
  OBVIOUS
<1>3. /\ ep[e].state = "free" /\ ep' = [ep EXCEPT ![e].state = "closing"]
      /\ UNCHANGED <<pc, cur, todo, mgr, req, connReqs>>
      /\ conn' = [conn EXCEPT ![o].life = "gone"]
  BY <1>2 DEF AmRecvCallbackRefused
<1>4. o \in Conns /\ conn[o].life = "unborn"
  BY <1>2 DEF AmRecvCallbackRefused, Constructible, Constructed
<1>5. conn[o].ep = None /\ ~Listed(mgr, o) /\ \A c \in Conns : conn[c].ep # e
  BY <1>1, <1>3, <1>4, FreshFacts DEF Fresh
<1>6. /\ conn' \in [Conns -> ConnRecords]
      /\ conn'[o].life = "gone" /\ conn'[o].ep = None
      /\ \A c \in Conns : c # o => conn'[c] = conn[c]
  <2>1. PICK x : x = [conn[o] EXCEPT !.life = "gone"]
    OBVIOUS
  <2>2. PICK y \in ConnRecords : y = conn[o]
    BY <1>1, <1>4
  <2>3. x = [y EXCEPT !.life = "gone"]
    BY <2>1, <2>2
  <2>4. x \in ConnRecords /\ x.life = "gone" /\ x.ep = y.ep
    BY <2>3 DEF ConnRecords
  <2>5. conn' = [conn EXCEPT ![o] = x]
    BY <1>3, <2>1
  <2> QED
    BY <1>1, <1>4, <1>5, <2>2, <2>4, <2>5
<1>7. /\ ep' \in [Eps -> EpRecords] /\ ep'[e].state = "closing" /\ ep'[e].handler = ep[e].handler
      /\ \A d \in Eps : d # e => ep'[d] = ep[d]
  <2>1. PICK x : x = [ep[e] EXCEPT !.state = "closing"]
    OBVIOUS
  <2>2. PICK y \in EpRecords : y = ep[e]
    BY <1>1
  <2>3. x = [y EXCEPT !.state = "closing"]
    BY <2>1, <2>2
  <2>4. x \in EpRecords /\ x.state = "closing" /\ x.handler = y.handler
    BY <2>3 DEF EpRecords
  <2>5. ep' = [ep EXCEPT ![e] = x]
    BY <1>3, <2>1
  <2> QED
    BY <1>1, <2>2, <2>4, <2>5
<1>8. Owned'
  <2>1. /\ \A c \in Conns : conn[c].ep # None =>
             conn[c].life = "live" /\ ep[conn[c].ep].state \in {"open", "failed"}
        /\ \A c, d \in Conns : conn[c].ep # None /\ conn[c].ep = conn[d].ep => c = d
        /\ \A d \in Eps : ep[d].state \in {"open", "failed"} => \E c \in Conns : conn[c].ep = d
        /\ \A d \in Eps : ep[d].handler # None => conn[ep[d].handler].ep = d
    BY DEF IInv, Owned
  <2>2. \A c \in Conns : conn[c].ep \in Eps \cup {None} /\ conn'[c].ep = conn[c].ep
    BY <1>5, <1>6, PlaceFacts, ConnFields
  <2>3. \A d \in Eps : ep[d].handler \in Conns \cup {None} /\ ep'[d].handler = ep[d].handler
    BY <1>7, PlaceFacts DEF EpRecords
  <2>4. \A c \in Conns : conn'[c].ep # None =>
          conn'[c].life = "live" /\ ep'[conn'[c].ep].state \in {"open", "failed"}
    <3> SUFFICES ASSUME NEW c \in Conns, conn'[c].ep # None
                 PROVE  conn'[c].life = "live" /\ ep'[conn'[c].ep].state \in {"open", "failed"}
      OBVIOUS
    <3>1. c # o /\ conn'[c] = conn[c] /\ conn[c].ep # e /\ conn[c].ep \in Eps
      BY <1>5, <1>6, <2>2
    <3> QED
      BY <1>7, <2>1, <3>1
  <2>5. \A c, d \in Conns : conn'[c].ep # None /\ conn'[c].ep = conn'[d].ep => c = d
    BY <2>1, <2>2
  <2>6. \A d \in Eps : ep'[d].state \in {"open", "failed"} => \E c \in Conns : conn'[c].ep = d
    BY <1>7, <2>1, <2>2
  <2>7. \A d \in Eps : ep'[d].handler # None => conn'[ep'[d].handler].ep = d
    BY <2>1, <2>2, <2>3
  <2> QED
    BY <2>4, <2>5, <2>6, <2>7 DEF Owned
<1>9. Living'
  BY <1>3, <1>4, <1>5, <1>6 DEF IInv, Living
<1>10. Active'
  <2> SUFFICES ASSUME NEW d \in DOMAIN mgr.activeMap
               PROVE  conn'[Found(mgr, d)].ep = d /\ conn'[Found(mgr, d)].status = "ok"
    BY <1>3 DEF Active
  <2>1. /\ Found(mgr, d) \in Conns /\ Has(mgr.connections, Found(mgr, d))
        /\ conn[Found(mgr, d)].ep = d /\ conn[Found(mgr, d)].status = "ok"
    BY <1>1, ActiveFacts
  <2>2. Found(mgr, d) # o
    BY <1>5, <2>1 DEF Listed
  <2> QED
    BY <1>6, <2>1, <2>2
<1>11. Failed'
  <2> SUFFICES ASSUME FailedWait, NEW c, Has(mgr.failedConns, c)
               PROVE  conn'[c].ep # None /\ ep'[conn'[c].ep].state = "failed"
    BY <1>3 DEF Failed, FailedWait, Has
  <2>1. c \in Conns /\ conn[c].ep \in Eps /\ ep[conn[c].ep].state = "failed"
    BY FailedFacts
  <2>2. c # o
    BY <1>5 DEF Listed
  <2> QED
    BY <1>3, <1>6, <1>7, <2>1, <2>2, NoneAssumption
<1>12. Requested'
  BY <1>3, <1>4, <1>6, RequestsStay
<1> QED
  BY <1>3, <1>6, <1>7, <1>8, <1>9, <1>10, <1>11, <1>12, QuietKeeps

(* A connection in error leaves its slot for the failed ones.              *)
LEMMA FailFacts ==
    ASSUME NEW m \in MgrRecords, SlotsKept(m), ListedOnce(m), NEW e \in DOMAIN m.activeMap,
           NEW n, n = RemoveConnectionToFailedQueue(m, e)
    PROVE  /\ n \in MgrRecords /\ SlotsKept(n) /\ ListedOnce(n)
           /\ NoneLost(m) => NoneLost(n)
           /\ DOMAIN n.activeMap = DOMAIN m.activeMap \ {e}
           /\ \A d \in DOMAIN n.activeMap : Found(n, d) = Found(m, d)
           /\ \A c : Has(n.failedConns, c) <=> Has(m.failedConns, c) \/ c = Found(m, e)
           /\ n.disconnectingConns = m.disconnectingConns
           /\ \A c \in Conns : Listed(n, c) <=> Listed(m, c)
<1>1. PICK o : o = Found(m, e)
  OBVIOUS
<1>2. /\ Vacates(m, n, e) /\ n.failedConns = Append(m.failedConns, o)
      /\ n.disconnectingConns = m.disconnectingConns
      /\ n = Manager(n.connections, n.freeSlots, n.activeMap, <<>>,
                     n.failedConns, n.disconnectingConns)
  BY <1>1, RemoveToFailed
<1>3. /\ n.connections \in Seq(Conns \cup {None})
      /\ n.activeMap \in ActiveMaps /\ n.freeSlots \in Seq(Nat)
      /\ SlotsKept(n) /\ (NoneLost(m) => NoneLost(n))
      /\ DOMAIN n.activeMap = DOMAIN m.activeMap \ {e}
      /\ \A d \in DOMAIN n.activeMap : Found(n, d) = Found(m, d)
      /\ o \in Conns /\ Has(m.connections, o)
      /\ \A c \in Conns : Has(n.connections, c) <=> Has(m.connections, c) /\ c # o
      /\ \A s, t \in DOMAIN n.connections :
           n.connections[s] # None /\ n.connections[s] = n.connections[t] => s = t
  BY <1>1, <1>2, VacateFacts
<1>4. m.failedConns \in Seq(Conns) /\ m.disconnectingConns \in Seq(Conns)
  BY MgrFields
<1>5. NoRepeats(m.failedConns) /\ ~Has(m.failedConns, o) /\ ~Has(m.disconnectingConns, o)
  BY <1>3 DEF ListedOnce
<1>6. /\ n.failedConns \in Seq(Conns) /\ NoRepeats(n.failedConns)
      /\ \A c : Has(n.failedConns, c) <=> Has(m.failedConns, c) \/ c = o
  BY <1>2, <1>3, <1>4, <1>5, AppendFacts
<1>7. n \in MgrRecords
  <2>1. PICK a, b, c, f, g : /\ a = n.connections /\ b = n.freeSlots /\ c = n.activeMap
                             /\ f = n.failedConns /\ g = n.disconnectingConns
    OBVIOUS
  <2>2. n = Manager(a, b, c, <<>>, f, g)
    BY <1>2, <2>1
  <2>3. /\ a \in Seq(Conns \cup {None}) /\ b \in Seq(Nat) /\ c \in ActiveMaps
        /\ f \in Seq(Conns) /\ g \in Seq(Conns)
    BY <1>2, <1>3, <1>4, <1>6, <2>1
  <2> QED
    BY <2>2, <2>3, ManagerFields
<1>8. ListedOnce(n)
  <2>1. \A c \in Conns :
          /\ ~(Has(n.connections, c) /\ Has(n.failedConns, c))
          /\ ~(Has(n.connections, c) /\ Has(n.disconnectingConns, c))
          /\ ~(Has(n.failedConns, c) /\ Has(n.disconnectingConns, c))
    BY <1>2, <1>3, <1>5, <1>6 DEF ListedOnce
  <2>2. NoRepeats(n.disconnectingConns)
    BY <1>2 DEF ListedOnce
  <2> QED
    BY <1>3, <1>6, <2>1, <2>2 DEF ListedOnce
<1>9. \A c \in Conns : Listed(n, c) <=> Listed(m, c)
  BY <1>2, <1>3, <1>6 DEF Listed
<1> QED
  BY <1>1, <1>2, <1>3, <1>6, <1>7, <1>8, <1>9

LEMMA ErrorKeeps ==
    ASSUME IInv, NEW e \in Eps, HandleConnectionError(e)
    PROVE  IInv'
<1>1. conn \in [Conns -> ConnRecords] /\ ep \in [Eps -> EpRecords] /\ pc # "destroyed"
  BY PlaceFacts DEF HandleConnectionError
<1>2. PICK c : c = ep[e].handler
  OBVIOUS
<1>3. /\ ep[e].state = "open" /\ c # None /\ ep' = [ep EXCEPT ![e].state = "failed"]
      /\ UNCHANGED <<pc, cur, todo, req, connReqs>>
  BY <1>2 DEF HandleConnectionError
<1>4. c \in Conns /\ conn[c].ep = e
  <2>1. ep[e].handler \in Conns \cup {None}
    BY <1>1 DEF EpRecords
  <2> QED
    BY <1>2, <1>3, <2>1 DEF IInv, Owned
<1>5. /\ ep' \in [Eps -> EpRecords] /\ ep'[e].state = "failed" /\ ep'[e].handler = ep[e].handler
      /\ \A d \in Eps : d # e => ep'[d] = ep[d]
  <2>1. PICK x : x = [ep[e] EXCEPT !.state = "failed"]
    OBVIOUS
  <2>2. PICK y \in EpRecords : y = ep[e]
    BY <1>1
  <2>3. x = [y EXCEPT !.state = "failed"]
    BY <2>1, <2>2
  <2>4. x \in EpRecords /\ x.state = "failed" /\ x.handler = y.handler
    BY <2>3 DEF EpRecords
  <2>5. ep' = [ep EXCEPT ![e] = x]
    BY <1>3, <2>1
  <2> QED
    BY <1>1, <2>2, <2>4, <2>5
<1>6. \A d \in Eps : ep[d].state = "failed" => ep'[d].state = "failed"
  BY <1>5
<1>7. CASE UNCHANGED <<conn, mgr>>
  <2>1. Owned'
    BY <1>3, <1>5, <1>7, OwnedStays
  <2>2. Living' /\ Active'
    BY <1>7 DEF IInv, Living, Active
  <2>3. Failed'
    <3> SUFFICES ASSUME FailedWait, NEW d, Has(mgr.failedConns, d)
                 PROVE  conn[d].ep # None /\ ep'[conn[d].ep].state = "failed"
      BY <1>3, <1>7 DEF Failed, FailedWait, Has
    <3> QED
      BY <1>6, FailedFacts, NoneAssumption
  <2>4. Requested'
    BY <1>3, <1>7, RequestsStay
  <2> QED
    BY <1>1, <1>3, <1>5, <1>7, <2>1, <2>2, <2>3, <2>4, QuietKeeps
<1>8. CASE /\ conn' = [conn EXCEPT ![c].status = "error"]
           /\ mgr' = RemoveConnectionToFailedQueue(mgr, conn[c].ep)
  <2>1. /\ conn' \in [Conns -> ConnRecords]
        /\ conn'[c].ep = e /\ conn'[c].life = conn[c].life
        /\ \A d \in Conns : d # c => conn'[d] = conn[d]
    <3>1. PICK x : x = [conn[c] EXCEPT !.status = "error"]
      OBVIOUS
    <3>2. PICK y \in ConnRecords : y = conn[c]
      BY <1>1, <1>4
    <3>3. x = [y EXCEPT !.status = "error"]
      BY <3>1, <3>2
    <3>4. x \in ConnRecords /\ x.life = y.life /\ x.ep = y.ep
      BY <3>3 DEF ConnRecords
    <3>5. conn' = [conn EXCEPT ![c] = x]
      BY <1>8, <3>1
    <3> QED
      BY <1>1, <1>4, <3>2, <3>4, <3>5
  <2>2. \A d \in Conns : conn'[d].ep = conn[d].ep /\ conn'[d].life = conn[d].life
    BY <1>4, <2>1
  <2>3. Owned'
    BY <1>3, <1>5, <2>2, OwnedStays
  <2>4. Requested'
    BY <1>3, <2>2, RequestsStay
  <2>5. CASE e \notin DOMAIN mgr.activeMap
    <3>1. mgr' = mgr
      <4>1. mgr["activeMap"] = mgr.activeMap
        OBVIOUS
      <4> QED
        BY <1>4, <1>8, <2>5, <4>1 DEF RemoveConnectionToFailedQueue, RemoveConnectionToContainer
    <3>2. Living'
      BY <2>2, <3>1 DEF IInv, Living
    <3>3. Active'
      <4> SUFFICES ASSUME NEW d \in DOMAIN mgr.activeMap
                   PROVE  conn'[Found(mgr, d)].ep = d /\ conn'[Found(mgr, d)].status = "ok"
        BY <3>1 DEF Active
      <4>1. /\ Found(mgr, d) \in Conns
            /\ conn[Found(mgr, d)].ep = d /\ conn[Found(mgr, d)].status = "ok"
        BY <1>1, ActiveFacts
      <4>2. Found(mgr, d) # c
        BY <1>4, <2>5, <4>1
      <4> QED
        BY <2>1, <4>1, <4>2
    <3>4. Failed'
      <4> SUFFICES ASSUME FailedWait, NEW d, Has(mgr.failedConns, d)
                   PROVE  conn'[d].ep # None /\ ep'[conn'[d].ep].state = "failed"
        BY <1>3, <3>1 DEF Failed, FailedWait, Has
      <4> QED
        BY <1>6, <2>2, FailedFacts, NoneAssumption
    <3> QED
      BY <1>3, <1>5, <2>1, <2>3, <2>4, <3>1, <3>2, <3>3, <3>4, QuietKeeps
  <2>6. CASE e \in DOMAIN mgr.activeMap
    <3>1. c = Found(mgr, e)
      BY <1>1, <1>4, <2>6, ActiveFacts
    <3>2. /\ mgr \in MgrRecords /\ SlotsKept(mgr) /\ (SlotsInUse => NoneLost(mgr))
          /\ ListedOnce(mgr)
      BY <1>1, PlaceFacts DEF IInv
    <3>3. /\ mgr' \in MgrRecords /\ SlotsKept(mgr') /\ ListedOnce(mgr')
          /\ NoneLost(mgr) => NoneLost(mgr')
          /\ DOMAIN mgr'.activeMap = DOMAIN mgr.activeMap \ {e}
          /\ \A d \in DOMAIN mgr'.activeMap : Found(mgr', d) = Found(mgr, d)
          /\ \A d : Has(mgr'.failedConns, d) <=> Has(mgr.failedConns, d) \/ d = c
          /\ mgr'.disconnectingConns = mgr.disconnectingConns
          /\ \A d \in Conns : Listed(mgr', d) <=> Listed(mgr, d)
      BY <1>4, <1>8, <2>6, <3>1, <3>2, FailFacts
    <3>4. Typed'
      BY <1>3, <1>5, <2>1, <3>3, PlaceFacts DEF Typed
    <3>5. Slotted'
      BY <1>1, <1>3, <3>2, <3>3 DEF Slotted, SlotsInUse
    <3>6. Living'
      BY <2>2, <3>3 DEF IInv, Living
    <3>7. Active'
      <4> SUFFICES ASSUME NEW d \in DOMAIN mgr'.activeMap
                   PROVE  conn'[Found(mgr', d)].ep = d /\ conn'[Found(mgr', d)].status = "ok"
        BY DEF Active
      <4>1. d \in DOMAIN mgr.activeMap /\ d # e /\ Found(mgr', d) = Found(mgr, d)
        BY <3>3
      <4>2. /\ Found(mgr, d) \in Conns
            /\ conn[Found(mgr, d)].ep = d /\ conn[Found(mgr, d)].status = "ok"
        BY <1>1, <4>1, ActiveFacts
      <4> QED
        BY <1>4, <2>1, <4>1, <4>2
    <3>8. Failed'
      <4> SUFFICES ASSUME FailedWait, NEW d, Has(mgr'.failedConns, d)
                   PROVE  conn'[d].ep # None /\ ep'[conn'[d].ep].state = "failed"
        BY <1>3 DEF Failed, FailedWait, Has
      <4>1. CASE d = c
        BY <1>5, <2>1, <4>1, NoneAssumption
      <4>2. CASE Has(mgr.failedConns, d)
        BY <1>6, <2>2, <4>2, FailedFacts, NoneAssumption
      <4> QED
        BY <3>3, <4>1, <4>2
    <3>9. AtWork'
      BY <1>3, <3>3 DEF IInv, AtWork
    <3> QED
      BY <2>3, <2>4, <3>3, <3>4, <3>5, <3>6, <3>7, <3>8, <3>9 DEF IInv
  <2> QED
    BY <2>5, <2>6
<1> QED
  BY <1>2, <1>7, <1>8 DEF HandleConnectionError

(* Endpoints that are closed belong to the connections in cs alone.        *)
LEMMA CloseFacts ==
    ASSUME IInv, NEW cs \in SUBSET Conns, NEW after, Closes(cs, after)
    PROVE  /\ Owned'
           /\ \A c \in Conns \ cs :
                /\ conn'[c] = conn[c]
                /\ conn[c].ep \in Eps => ep'[conn[c].ep] = ep[conn[c].ep]
<1>1. /\ \A c \in Conns : conn[c].ep # None =>
           conn[c].life = "live" /\ ep[conn[c].ep].state \in {"open", "failed"}
      /\ \A c, d \in Conns : conn[c].ep # None /\ conn[c].ep = conn[d].ep => c = d
      /\ \A d \in Eps : ep[d].state \in {"open", "failed"} => \E c \in Conns : conn[c].ep = d
      /\ \A d \in Eps : ep[d].handler # None => conn[ep[d].handler].ep = d
  BY DEF IInv, Owned
<1>2. \A c \in Conns : conn[c].ep \in Eps \cup {None}
  BY PlaceFacts, ConnFields
<1>3. \A d \in Eps : ep[d].handler \in Conns \cup {None}
  BY PlaceFacts DEF EpRecords
<1>4. /\ \A c \in Conns \ cs : conn'[c] = conn[c]
      /\ \A c \in cs : conn'[c].ep = None
      /\ \A e \in Eps :
           IF \E c \in cs : conn[c].ep = e
           THEN ep'[e].state \in {"closing", "free"} /\ ep'[e].handler = None
           ELSE ep'[e] = ep[e]
  BY DEF Closes
<1>5. \A e \in Eps : e # None
  BY NoneAssumption
<1>6. \A c \in Conns \ cs : conn[c].ep \in Eps => ep'[conn[c].ep] = ep[conn[c].ep]
  <2> SUFFICES ASSUME NEW c \in Conns \ cs, conn[c].ep \in Eps
               PROVE  ep'[conn[c].ep] = ep[conn[c].ep]
    OBVIOUS
  <2>1. ~\E d \in cs : conn[d].ep = conn[c].ep
    BY <1>1, <1>5
  <2> QED
    BY <1>4, <2>1
<1>7. \A c \in Conns : conn'[c].ep # None =>
        conn'[c].life = "live" /\ ep'[conn'[c].ep].state \in {"open", "failed"}
  <2> SUFFICES ASSUME NEW c \in Conns, conn'[c].ep # None
               PROVE  conn'[c].life = "live" /\ ep'[conn'[c].ep].state \in {"open", "failed"}
    OBVIOUS
  <2>1. c \in Conns \ cs /\ conn'[c] = conn[c]
    BY <1>4
  <2> QED
    BY <1>1, <1>2, <1>6, <2>1
<1>8. \A c, d \in Conns : conn'[c].ep # None /\ conn'[c].ep = conn'[d].ep => c = d
  BY <1>1, <1>4
<1>9. \A e \in Eps : ep'[e].state \in {"open", "failed"} => \E c \in Conns : conn'[c].ep = e
  <2> SUFFICES ASSUME NEW e \in Eps, ep'[e].state \in {"open", "failed"}
               PROVE  \E c \in Conns : conn'[c].ep = e
    OBVIOUS
  <2>1. (~\E c \in cs : conn[c].ep = e) /\ ep'[e] = ep[e]
    BY <1>4
  <2>2. PICK c \in Conns : conn[c].ep = e
    BY <1>1, <2>1
  <2> QED
    BY <1>4, <2>1, <2>2
<1>10. \A e \in Eps : ep'[e].handler # None => conn'[ep'[e].handler].ep = e
  <2> SUFFICES ASSUME NEW e \in Eps, ep'[e].handler # None
               PROVE  conn'[ep'[e].handler].ep = e
    OBVIOUS
  <2>1. (~\E c \in cs : conn[c].ep = e) /\ ep'[e] = ep[e]
    BY <1>4
  <2>2. PICK c : c = ep[e].handler
    OBVIOUS
  <2>3. c \in Conns /\ conn[c].ep = e
    BY <1>1, <1>3, <2>1, <2>2
  <2> QED
    BY <1>4, <2>1, <2>2, <2>3
<1>11. Owned'
  BY <1>7, <1>8, <1>9, <1>10 DEF Owned
<1> QED
  BY <1>4, <1>6, <1>11

(* Requests that are forced have had their callback called.                *)
LEMMA ForceKeeps ==
    ASSUME IInv, NEW rs \in SUBSET Requests, ForceRequests(rs),
           \A r \in Requests \ rs :
              req[r].conn # None => conn'[req[r].conn].life = "live"
    PROVE  Requested' /\ req' \in [Requests -> ReqRecords]
<1>1. req \in [Requests -> ReqRecords]
  BY PlaceFacts
<1>2. \A r \in Requests :
        /\ req[r].called = IF req[r].out /\ req[r].callback THEN 0 ELSE 1
        /\ req[r].callback => req[r].conn # None
        /\ req[r].conn # None => req[r].out /\ conn[req[r].conn].life = "live"
  BY DEF IInv, Requested
<1>3. \A r \in Requests \ rs : req'[r] = req[r]
  BY DEF ForceRequests
<1>4. ASSUME NEW r \in rs
      PROVE  /\ req'[r] \in ReqRecords /\ req'[r].conn = None /\ ~req'[r].callback
             /\ req'[r].called = 1
  <2>1. PICK q \in ReqRecords : q = req[r]
    BY <1>1
  <2>2. PICK v : v = IF req[r].callback THEN req[r].called + 1 ELSE req[r].called
    OBVIOUS
  <2>3. v = 1
    BY <1>2, <2>2
  <2> DEFINE q1 == [q EXCEPT !.conn = None]
             q2 == [q1 EXCEPT !.callback = FALSE]
             q3 == [q2 EXCEPT !.called = v]
  <2>4. req'[r] = q3
    BY <2>1, <2>2 DEF ForceRequests
  <2>5. q1 \in ReqRecords /\ q1.conn = None
    BY DEF ReqRecords
  <2> HIDE DEF q1
  <2>6. q2 \in ReqRecords /\ q2.conn = None /\ ~q2.callback
    BY <2>5 DEF ReqRecords
  <2> HIDE DEF q2
  <2>7. q3 \in ReqRecords /\ q3.conn = None /\ ~q3.callback /\ q3.called = 1
    BY <2>3, <2>6 DEF ReqRecords
  <2> HIDE DEF q3
  <2> QED
    BY <2>4, <2>7
<1>5. req' \in [Requests -> ReqRecords]
  <2>1. req' = [r \in Requests |-> req'[r]]
    BY DEF ForceRequests
  <2>2. \A r \in Requests : req'[r] \in ReqRecords
    BY <1>1, <1>3, <1>4
  <2> QED
    BY <2>1, <2>2
<1>6. Requested'
  <2> SUFFICES ASSUME NEW r \in Requests
               PROVE  /\ req'[r].called = IF req'[r].out /\ req'[r].callback THEN 0 ELSE 1
                      /\ req'[r].callback => req'[r].conn # None
                      /\ req'[r].conn # None => req'[r].out /\ conn'[req'[r].conn].life = "live"
    BY DEF Requested
  <2>1. CASE r \in rs
    BY <1>4, <2>1
  <2>2. CASE r \notin rs
    BY <1>2, <1>3, <2>2
  <2> QED
    BY <2>1, <2>2
<1> QED
  BY <1>5, <1>6

(* disconnect_direct is over.                                              *)
LEMMA FinishKeeps ==
    ASSUME IInv, NEW slow, FinishDisconnectDirect(slow)
    PROVE  IInv'
<1>1. PICK c : c = cur.conn
  OBVIOUS
<1>2. /\ pc = "direct" /\ ForceRequests(AllRequests(c)) /\ EpClose({c}, slow, conn)
      /\ pc' = cur.back /\ cur' = [conn |-> None, back |-> "run"]
      /\ UNCHANGED <<todo, mgr, connReqs>>
  BY <1>1 DEF FinishDisconnectDirect
<1>3. /\ c \in Conns
      /\ \/ cur.back = "dispatch" /\ Has(mgr.disconnectingConns, c)
         \/ cur.back = "directFailed" /\ Has(mgr.failedConns, c)
         \/ /\ cur.back = "directRest"
            /\ Has(mgr.failedConns, c) \/ Has(mgr.disconnectingConns, c)
  BY <1>1, <1>2 DEF IInv, AtWork
<1>4. /\ conn \in [Conns -> ConnRecords] /\ ep \in [Eps -> EpRecords]
      /\ todo \in Seq(Conns) /\ connReqs \in 0 .. MaxConnReqs /\ mgr \in MgrRecords
  BY PlaceFacts
<1>5. Closes({c}, conn)
  <2>1. {c} \in SUBSET Conns /\ \A d \in {c} : conn[d] \in ConnRecords
    BY <1>3, <1>4
  <2> QED
    BY <1>2, <1>4, <2>1, EpCloseEffects
<1>6. /\ conn' \in [Conns -> ConnRecords] /\ ep' \in [Eps -> EpRecords]
      /\ conn'[c].life = conn[c].life
  BY <1>5 DEF Closes
<1>7. /\ Owned'
      /\ \A d \in Conns : d # c =>
           /\ conn'[d] = conn[d]
           /\ conn[d].ep \in Eps => ep'[conn[d].ep] = ep[conn[d].ep]
  <2>1. {c} \in SUBSET Conns
    BY <1>3
  <2>2. /\ Owned'
        /\ \A d \in Conns \ {c} :
             /\ conn'[d] = conn[d]
             /\ conn[d].ep \in Eps => ep'[conn[d].ep] = ep[conn[d].ep]
    BY <1>5, <2>1, CloseFacts
  <2> QED
    BY <2>2
<1>8. ~Has(mgr.connections, c)
  BY <1>3 DEF IInv, ListedOnce
<1>9. \A d \in Conns : conn'[d].life = conn[d].life
  BY <1>6, <1>7
<1>10. Requested' /\ req' \in [Requests -> ReqRecords]
  <2>1. AllRequests(c) \in SUBSET Requests
    BY DEF AllRequests
  <2>2. \A r \in Requests \ AllRequests(c) :
          req[r].conn # None => conn'[req[r].conn].life = "live"
    <3> SUFFICES ASSUME NEW r \in Requests, req[r].conn # None
                 PROVE  conn'[req[r].conn].life = "live"
      OBVIOUS
    <3>1. conn[req[r].conn].life = "live"
      BY DEF IInv, Requested
    <3>2. req[r].conn \in Conns \cup {None}
      BY PlaceFacts, ReqFields
    <3> QED
      BY <1>9, <3>1, <3>2
  <2> QED
    BY <1>2, <2>1, <2>2, ForceKeeps
<1>11. pc' \in {"dispatch", "directFailed", "directRest"} /\ pc' \in Places
  BY <1>2, <1>3 DEF Places
<1>12. "run" \in Places
  BY DEF Places
<1>13. Typed'
  <2>1. cur' \in [conn : Conns \cup {None}, back : Places] /\ cur'.back = "run"
    BY <1>2, <1>12
  <2> QED
    BY <1>2, <1>4, <1>6, <1>10, <1>11, <2>1 DEF Typed
<1>14. SlotsInUse' => SlotsInUse
  BY <1>2, <1>11 DEF SlotsInUse
<1>15. ListedOnce(mgr)' /\ Slotted'
  BY <1>2, <1>11, <1>14 DEF IInv, Slotted
<1>16. Living'
  BY <1>2, <1>9 DEF IInv, Living
<1>17. Active'
  <2> SUFFICES ASSUME NEW d \in DOMAIN mgr.activeMap
               PROVE  conn'[Found(mgr, d)].ep = d /\ conn'[Found(mgr, d)].status = "ok"
    BY <1>2 DEF Active
  <2>1. /\ Found(mgr, d) \in Conns /\ Has(mgr.connections, Found(mgr, d))
        /\ conn[Found(mgr, d)].ep = d /\ conn[Found(mgr, d)].status = "ok"
    BY <1>2, ActiveFacts
  <2>2. Found(mgr, d) # c
    BY <1>8, <2>1
  <2> QED
    BY <1>7, <2>1, <2>2
<1>18. Failed'
  <2> SUFFICES ASSUME FailedWait', NEW d, Has(mgr.failedConns, d)
               PROVE  conn'[d].ep # None /\ ep'[conn'[d].ep].state = "failed"
    BY <1>2 DEF Failed, Has
  <2>1. cur'.back = "run"
    BY <1>2
  <2>2. cur.back = "dispatch" /\ FailedWait /\ Has(mgr.disconnectingConns, c)
    BY <1>2, <1>3, <2>1 DEF FailedWait
  <2>3. d \in Conns /\ conn[d].ep \in Eps /\ ep[conn[d].ep].state = "failed"
    BY <2>2, FailedFacts
  <2>4. d # c
    BY <1>3, <2>2 DEF IInv, ListedOnce
  <2> QED
    BY <1>7, <2>3, <2>4, NoneAssumption
<1>19. AtWork'
  <2>1. \A i \in DOMAIN todo :
          /\ cur.back = "directFailed" => Has(mgr.failedConns, todo[i])
          /\ cur.back = "directRest" =>
               Has(mgr.failedConns, todo[i]) \/ Has(mgr.disconnectingConns, todo[i])
    BY DEF IInv, AtWork
  <2>2. cur'.back = "run"
    BY <1>2
  <2> QED
    BY <1>2, <1>11, <2>1, <2>2 DEF AtWork
<1> QED
  BY <1>7, <1>10, <1>13, <1>15, <1>16, <1>17, <1>18, <1>19 DEF IInv

(* A connection that is disconnected leaves its slot.                      *)
LEMMA LeaveFacts ==
    ASSUME NEW m \in MgrRecords, SlotsKept(m), ListedOnce(m), NEW e \in DOMAIN m.activeMap,
           NEW n, n = MoveConnectionFromInactiveToDisconnectingQueue(
                        RemoveConnectionToInactiveMap(m, e), e)
    PROVE  /\ n \in MgrRecords /\ SlotsKept(n) /\ ListedOnce(n)
           /\ NoneLost(m) => NoneLost(n)
           /\ DOMAIN n.activeMap = DOMAIN m.activeMap \ {e}
           /\ \A d \in DOMAIN n.activeMap : Found(n, d) = Found(m, d)
           /\ n.failedConns = m.failedConns
           /\ \A c \in Conns : Listed(n, c) <=> Listed(m, c)
<1>1. PICK o : o = Found(m, e)
  OBVIOUS
<1>2. /\ Vacates(m, n, e) /\ n.disconnectingConns = Append(m.disconnectingConns, o)
      /\ n.failedConns = m.failedConns
      /\ n = Manager(n.connections, n.freeSlots, n.activeMap, <<>>,
                     n.failedConns, n.disconnectingConns)
  BY <1>1, RemoveToDisconnecting
<1>3. /\ n.connections \in Seq(Conns \cup {None})
      /\ n.activeMap \in ActiveMaps /\ n.freeSlots \in Seq(Nat)
      /\ SlotsKept(n) /\ (NoneLost(m) => NoneLost(n))
      /\ DOMAIN n.activeMap = DOMAIN m.activeMap \ {e}
      /\ \A d \in DOMAIN n.activeMap : Found(n, d) = Found(m, d)
      /\ o \in Conns /\ Has(m.connections, o)
      /\ \A c \in Conns : Has(n.connections, c) <=> Has(m.connections, c) /\ c # o
      /\ \A s, t \in DOMAIN n.connections :
           n.connections[s] # None /\ n.connections[s] = n.connections[t] => s = t
  BY <1>1, <1>2, VacateFacts
<1>4. m.failedConns \in Seq(Conns) /\ m.disconnectingConns \in Seq(Conns)
  BY MgrFields
<1>5. NoRepeats(m.disconnectingConns) /\ ~Has(m.failedConns, o) /\ ~Has(m.disconnectingConns, o)
  BY <1>3 DEF ListedOnce
<1>6. /\ n.disconnectingConns \in Seq(Conns) /\ NoRepeats(n.disconnectingConns)
      /\ \A c : Has(n.disconnectingConns, c) <=> Has(m.disconnectingConns, c) \/ c = o
  BY <1>2, <1>3, <1>4, <1>5, AppendFacts
<1>7. n \in MgrRecords
  <2>1. PICK a, b, c, f, g : /\ a = n.connections /\ b = n.freeSlots /\ c = n.activeMap
                             /\ f = n.failedConns /\ g = n.disconnectingConns
    OBVIOUS
  <2>2. n = Manager(a, b, c, <<>>, f, g)
    BY <1>2, <2>1
  <2>3. /\ a \in Seq(Conns \cup {None}) /\ b \in Seq(Nat) /\ c \in ActiveMaps
        /\ f \in Seq(Conns) /\ g \in Seq(Conns)
    BY <1>2, <1>3, <1>4, <1>6, <2>1
  <2> QED
    BY <2>2, <2>3, ManagerFields
<1>8. ListedOnce(n)
  <2>1. \A c \in Conns :
          /\ ~(Has(n.connections, c) /\ Has(n.failedConns, c))
          /\ ~(Has(n.connections, c) /\ Has(n.disconnectingConns, c))
          /\ ~(Has(n.failedConns, c) /\ Has(n.disconnectingConns, c))
    BY <1>2, <1>3, <1>5, <1>6 DEF ListedOnce
  <2>2. NoRepeats(n.failedConns)
    BY <1>2 DEF ListedOnce
  <2> QED
    BY <1>3, <1>6, <2>1, <2>2 DEF ListedOnce
<1>9. \A c \in Conns : Listed(n, c) <=> Listed(m, c)
  BY <1>2, <1>3, <1>6 DEF Listed
<1> QED
  BY <1>2, <1>3, <1>7, <1>8, <1>9

(* disconnect() closes one connection, which lives on in its list.         *)
LEMMA MarkedCloses ==
    ASSUME IInv, NEW c \in Conns, NEW slow,
           EpClose({c}, slow, [d \in {c} |->
              [conn[d] EXCEPT !.disconnecting = TRUE, !.status = "error"]])
    PROVE  /\ conn' \in [Conns -> ConnRecords] /\ ep' \in [Eps -> EpRecords]
           /\ \A d \in Conns : conn'[d].life = conn[d].life
           /\ Owned'
           /\ \A d \in Conns : d # c =>
                /\ conn'[d] = conn[d]
                /\ conn[d].ep \in Eps => ep'[conn[d].ep] = ep[conn[d].ep]
<1>1. conn \in [Conns -> ConnRecords] /\ ep \in [Eps -> EpRecords]
  BY PlaceFacts
<1>2. PICK after : after = [d \in {c} |-> MarkedExcept(conn[d])]
  OBVIOUS
<1>3. EpClose({c}, slow, after)
  BY <1>2 DEF MarkedExcept
<1>4. after[c] = MarkedExcept(conn[c])
  BY <1>2
<1>5. after[c] \in ConnRecords /\ after[c].life = conn[c].life
  <2>1. conn[c] \in ConnRecords
    BY <1>1
  <2> QED
    BY <1>4, <2>1, ConnMarked
<1>6. {c} \in SUBSET Conns /\ \A d \in {c} : after[d] \in ConnRecords
  BY <1>5
<1>7. Closes({c}, after)
  BY <1>1, <1>3, <1>6, EpCloseEffects
<1>8. /\ Owned'
      /\ \A d \in Conns \ {c} :
           /\ conn'[d] = conn[d]
           /\ conn[d].ep \in Eps => ep'[conn[d].ep] = ep[conn[d].ep]
  BY <1>6, <1>7, CloseFacts
<1>9. /\ conn' \in [Conns -> ConnRecords] /\ ep' \in [Eps -> EpRecords]
      /\ conn'[c].life = conn[c].life
  BY <1>5, <1>7 DEF Closes
<1> QED
  BY <1>8, <1>9

LEMMA DisconnectKeeps ==
    ASSUME IInv, NEW c \in Conns, NEW slow, Disconnect(c, slow)
    PROVE  IInv'
<1>1. PICK e : e = conn[c].ep
  OBVIOUS
<1>2. /\ pc = "run" /\ e \in DOMAIN mgr.activeMap
      /\ mgr' = MoveConnectionFromInactiveToDisconnectingQueue(
                   RemoveConnectionToInactiveMap(mgr, e), e)
      /\ UNCHANGED <<pc, cur, todo, req, connReqs>>
  BY <1>1 DEF Disconnect
<1>3. EpClose({c}, slow, [d \in {c} |->
         [conn[d] EXCEPT !.disconnecting = TRUE, !.status = "error"]])
  BY DEF Disconnect
<1>4. /\ conn' \in [Conns -> ConnRecords] /\ ep' \in [Eps -> EpRecords]
      /\ \A d \in Conns : conn'[d].life = conn[d].life
      /\ Owned'
      /\ \A d \in Conns : d # c =>
           /\ conn'[d] = conn[d]
           /\ conn[d].ep \in Eps => ep'[conn[d].ep] = ep[conn[d].ep]
  BY <1>3, MarkedCloses
<1>5. /\ mgr \in MgrRecords /\ SlotsKept(mgr) /\ (SlotsInUse => NoneLost(mgr))
      /\ ListedOnce(mgr)
  BY <1>2, PlaceFacts DEF IInv
<1>6. /\ mgr' \in MgrRecords /\ SlotsKept(mgr') /\ ListedOnce(mgr')
      /\ NoneLost(mgr) => NoneLost(mgr')
      /\ DOMAIN mgr'.activeMap = DOMAIN mgr.activeMap \ {e}
      /\ \A d \in DOMAIN mgr'.activeMap : Found(mgr', d) = Found(mgr, d)
      /\ mgr'.failedConns = mgr.failedConns
      /\ \A d \in Conns : Listed(mgr', d) <=> Listed(mgr, d)
  BY <1>2, <1>5, LeaveFacts
<1>7. c = Found(mgr, e) /\ Has(mgr.connections, c)
  BY <1>1, <1>2, ActiveFacts
<1>8. Typed'
  BY <1>2, <1>4, <1>6, PlaceFacts DEF Typed
<1>9. Slotted'
  BY <1>2, <1>5, <1>6 DEF Slotted, SlotsInUse
<1>10. Living'
  BY <1>4, <1>6 DEF IInv, Living
<1>11. Active'
  <2> SUFFICES ASSUME NEW d \in DOMAIN mgr'.activeMap
               PROVE  conn'[Found(mgr', d)].ep = d /\ conn'[Found(mgr', d)].status = "ok"
    BY DEF Active
  <2>1. d \in DOMAIN mgr.activeMap /\ d # e /\ Found(mgr', d) = Found(mgr, d)
    BY <1>6
  <2>2. /\ Found(mgr, d) \in Conns
        /\ conn[Found(mgr, d)].ep = d /\ conn[Found(mgr, d)].status = "ok"
    BY <1>2, <2>1, ActiveFacts
  <2>3. Found(mgr, d) # c
    BY <1>1, <2>1, <2>2
  <2> QED
    BY <1>4, <2>1, <2>2, <2>3
<1>12. Failed'
  <2> SUFFICES ASSUME FailedWait, NEW d, Has(mgr.failedConns, d)
               PROVE  conn'[d].ep # None /\ ep'[conn'[d].ep].state = "failed"
    BY <1>2, <1>6 DEF Failed, FailedWait, Has
  <2>1. d \in Conns /\ conn[d].ep \in Eps /\ ep[conn[d].ep].state = "failed"
    BY FailedFacts
  <2>2. d # c
    BY <1>5, <1>7 DEF ListedOnce
  <2> QED
    BY <1>4, <2>1, <2>2, NoneAssumption
<1>13. AtWork'
  <2>1. cur = [conn |-> None, back |-> "run"] /\ cur.back = "run"
    BY <1>2 DEF IInv, AtWork
  <2> QED
    BY <1>2, <2>1 DEF AtWork
<1>14. Requested'
  BY <1>2, <1>4, RequestsStay
<1> QED
  BY <1>4, <1>6, <1>8, <1>9, <1>10, <1>11, <1>12, <1>13, <1>14 DEF IInv

(* disconnect() of the connections that were active.                       *)
LEMMA DisconnectActiveKeeps ==
    ASSUME IInv, NEW slow, DisconnectActive(slow)
    PROVE  IInv'
<1>1. PICK c : c = Head(todo)
  OBVIOUS
<1>2. /\ pc = "disconnectAll" /\ todo # <<>> /\ todo' = Tail(todo)
      /\ UNCHANGED <<pc, cur, mgr, req, connReqs>>
  BY DEF DisconnectActive
<1>3. /\ todo \in Seq(Conns) /\ connReqs \in 0 .. MaxConnReqs /\ pc \in Places
      /\ cur \in [conn : Conns \cup {None}, back : Places] /\ mgr \in MgrRecords
      /\ req \in [Requests -> ReqRecords]
      /\ cur = [conn |-> None, back |-> "run"] /\ cur.back = "run"
  BY <1>2, PlaceFacts DEF IInv, AtWork
<1>4. \A i \in DOMAIN todo : Has(mgr.disconnectingConns, todo[i])
  BY <1>2 DEF IInv, AtWork
<1>5. \A o : Has(todo, o) => Has(mgr.disconnectingConns, o)
  BY <1>4 DEF Has
<1>6. PICK l : l = Tail(todo)
  OBVIOUS
<1>7. /\ l \in Seq(Conns) /\ c \in Conns /\ Has(todo, c)
      /\ \A o : Has(l, o) => Has(todo, o)
  BY <1>1, <1>2, <1>3, <1>6, TailFacts
<1>8. todo' = l /\ Has(mgr.disconnectingConns, c)
  BY <1>2, <1>5, <1>6, <1>7
<1>9. \A i \in DOMAIN todo' : Has(mgr.disconnectingConns, todo'[i])
  <2> TAKE i \in DOMAIN todo'
  <2>1. Has(l, todo'[i])
    BY <1>8 DEF Has
  <2> QED
    BY <1>5, <1>7, <2>1
<1>10. AtWork'
  BY <1>2, <1>3, <1>9 DEF AtWork
<1>11. CASE UNCHANGED <<conn, ep>>
  <2>1. (SlotsInUse' => SlotsInUse) /\ (FailedWait' => FailedWait)
    BY <1>2 DEF SlotsInUse, FailedWait
  <2> QED
    BY <1>2, <1>3, <1>7, <1>8, <1>10, <1>11, <2>1, ThreadMoves
<1>12. CASE EpClose({c}, slow, [d \in {c} |->
              [conn[d] EXCEPT !.disconnecting = TRUE, !.status = "error"]])
  <2>1. /\ conn' \in [Conns -> ConnRecords] /\ ep' \in [Eps -> EpRecords]
        /\ \A d \in Conns : conn'[d].life = conn[d].life
        /\ Owned'
        /\ \A d \in Conns : d # c => conn'[d] = conn[d]
    BY <1>7, <1>12, MarkedCloses
  <2>2. Typed'
    BY <1>2, <1>3, <1>7, <1>8, <2>1 DEF Typed
  <2>3. ListedOnce(mgr)' /\ Slotted'
    BY <1>2 DEF IInv, Slotted, SlotsInUse
  <2>4. Living'
    BY <1>2, <2>1 DEF IInv, Living
  <2>5. Active'
    <3> SUFFICES ASSUME NEW d \in DOMAIN mgr.activeMap
                 PROVE  conn'[Found(mgr, d)].ep = d /\ conn'[Found(mgr, d)].status = "ok"
      BY <1>2 DEF Active
    <3>1. /\ Found(mgr, d) \in Conns /\ Has(mgr.connections, Found(mgr, d))
          /\ conn[Found(mgr, d)].ep = d /\ conn[Found(mgr, d)].status = "ok"
      BY <1>2, ActiveFacts
    <3>2. Found(mgr, d) # c
      BY <1>7, <1>8, <3>1 DEF IInv, ListedOnce
    <3> QED
      BY <2>1, <3>1, <3>2
  <2>6. Failed'
    BY <1>2, <1>3 DEF Failed, FailedWait
  <2>7. Requested'
    BY <1>2, <2>1, RequestsStay
  <2> QED
    BY <1>10, <2>1, <2>2, <2>3, <2>4, <2>5, <2>6, <2>7 DEF IInv
<1> QED
  BY <1>1, <1>11, <1>12 DEF DisconnectActive

(* The destructor moves the active connections to the disconnecting ones.  *)
LEMMA NoMoreFailedKeeps ==
    ASSUME IInv, NoMoreFailed
    PROVE  IInv'
<1>1. /\ pc = "dropFailed" /\ pc' = "disconnectAll"
      /\ mgr' = RemoveActiveConnectionsToDisconnectingQueue(mgr)
      /\ todo' = mgr'.disconnectingConns
      /\ UNCHANGED <<cur, conn, ep, req, connReqs>>
  BY DEF NoMoreFailed
<1>2. mgr \in MgrRecords /\ SlotsKept(mgr) /\ ListedOnce(mgr)
  BY <1>1, PlaceFacts DEF IInv
<1>3. cur = [conn |-> None, back |-> "run"] /\ cur.back = "run"
  BY <1>1 DEF IInv, AtWork
<1>4. /\ mgr' \in MgrRecords /\ SlotsKept(mgr') /\ ListedOnce(mgr')
      /\ DOMAIN mgr'.activeMap = {}
      /\ \A c \in Conns : Listed(mgr', c) <=> Listed(mgr, c)
  BY <1>1, <1>2, MoveActiveFacts
<1>5. todo' \in Seq(Conns)
  BY <1>1, <1>4, MgrFields
<1>6. Typed'
  <2>1. pc' \in Places
    BY <1>1 DEF Places
  <2> QED
    BY <1>1, <1>4, <1>5, <2>1, PlaceFacts DEF Typed
<1>7. Slotted'
  BY <1>1, <1>4 DEF Slotted, SlotsInUse
<1>8. Living' /\ Active'
  BY <1>1, <1>4 DEF IInv, Living, Active
<1>9. Owned' /\ Requested'
  BY <1>1 DEF IInv, Owned, Requested
<1>10. Failed'
  BY <1>1, <1>3 DEF Failed, FailedWait
<1>11. AtWork'
  <2>1. \A i \in DOMAIN todo' : Has(mgr'.disconnectingConns, todo'[i])
    BY <1>1 DEF Has
  <2> QED
    BY <1>1, <1>3, <2>1 DEF AtWork
<1> QED
  BY <1>4, <1>6, <1>7, <1>8, <1>9, <1>10, <1>11 DEF IInv

(* The destructors of the connections in cs.                               *)
LEMMA DestructCloses ==
    ASSUME IInv, NEW cs \in SUBSET Conns, NEW D, cs \in SUBSET D, D \in SUBSET Conns, NEW slow,
           EpClose(cs, slow, [c \in D |-> Destruct(c)])
    PROVE  /\ conn' \in [Conns -> ConnRecords] /\ ep' \in [Eps -> EpRecords]
           /\ \A c \in cs : conn'[c].life = "gone"
           /\ Owned'
           /\ \A c \in Conns \ cs : conn'[c] = conn[c]
<1>1. conn \in [Conns -> ConnRecords] /\ ep \in [Eps -> EpRecords]
  BY PlaceFacts
<1>2. PICK after : after = [c \in D |-> Destruct(c)]
  OBVIOUS
<1>3. \A c \in cs : after[c] \in ConnRecords /\ after[c].life = "gone"
  <2> TAKE c \in cs
  <2>1. after[c] = Destruct(c) /\ c \in Conns
    BY <1>2
  <2> QED
    BY <1>1, <2>1, ConnGone
<1>4. EpClose(cs, slow, after)
  BY <1>2
<1>5. Closes(cs, after)
  BY <1>1, <1>3, <1>4, EpCloseEffects
<1>6. Owned' /\ \A c \in Conns \ cs : conn'[c] = conn[c]
  BY <1>5, CloseFacts
<1>7. /\ conn' \in [Conns -> ConnRecords] /\ ep' \in [Eps -> EpRecords]
      /\ \A c \in cs : conn'[c].life = "gone"
  BY <1>3, <1>5 DEF Closes
<1> QED
  BY <1>6, <1>7

LEMMA DestructKeeps ==
    ASSUME IInv, NEW cs \in SUBSET Conns, NEW slow,
           EpClose(cs, slow, [c \in cs |-> Destruct(c)]),
           mgr' \in MgrRecords, SlotsSame(mgr, mgr'), ListedOnce(mgr'),
           \A c \in cs : DisconnectProgress(c) /\ ~Has(mgr.connections, c),
           \A c \in Conns : Listed(mgr', c) <=> Listed(mgr, c) /\ c \notin cs,
           pc \in {"dropFailed", "wait"}, UNCHANGED <<pc, cur, todo, req, connReqs>>
    PROVE  IInv'
<1>1. /\ conn' \in [Conns -> ConnRecords] /\ ep' \in [Eps -> EpRecords]
      /\ \A c \in cs : conn'[c].life = "gone"
      /\ Owned'
      /\ \A c \in Conns \ cs : conn'[c] = conn[c]
  BY DestructCloses
<1>2. Typed'
  BY <1>1, PlaceFacts DEF Typed
<1>3. SlotsKept(mgr) /\ (SlotsInUse => NoneLost(mgr))
  BY PlaceFacts
<1>4. /\ SlotsKept(mgr') /\ (NoneLost(mgr) => NoneLost(mgr'))
      /\ \A e : Found(mgr', e) = Found(mgr, e)
  BY <1>3, SameSlots
<1>5. Slotted'
  BY <1>3, <1>4 DEF Slotted, SlotsInUse
<1>6. Living'
  <2>1. \A c \in Conns : conn[c].life = "live" <=> Listed(mgr, c)
    BY DEF IInv, Living
  <2> QED
    BY <1>1, <2>1 DEF Living
<1>7. Active'
  <2> SUFFICES ASSUME NEW d \in DOMAIN mgr.activeMap
               PROVE  conn'[Found(mgr, d)].ep = d /\ conn'[Found(mgr, d)].status = "ok"
    BY <1>4 DEF Active, SlotsSame
  <2>1. /\ Found(mgr, d) \in Conns /\ Has(mgr.connections, Found(mgr, d))
        /\ conn[Found(mgr, d)].ep = d /\ conn[Found(mgr, d)].status = "ok"
    BY ActiveFacts
  <2>2. Found(mgr, d) \notin cs
    BY <2>1
  <2> QED
    BY <1>1, <2>1, <2>2
<1>8. cur = [conn |-> None, back |-> "run"] /\ cur.back = "run"
  BY DEF IInv, AtWork
<1>9. AtWork' /\ Failed'
  BY <1>8 DEF AtWork, Failed, FailedWait
<1>10. Requested'
  <2> SUFFICES ASSUME NEW r \in Requests
               PROVE  /\ req[r].called = IF req[r].out /\ req[r].callback THEN 0 ELSE 1
                      /\ req[r].callback => req[r].conn # None
                      /\ req[r].conn # None => req[r].out /\ conn'[req[r].conn].life = "live"
    BY DEF Requested
  <2>1. /\ req[r].called = IF req[r].out /\ req[r].callback THEN 0 ELSE 1
        /\ req[r].callback => req[r].conn # None
        /\ req[r].conn # None => req[r].out /\ conn[req[r].conn].life = "live"
    BY DEF IInv, Requested
  <2>2. req[r].conn \in Conns \cup {None}
    BY PlaceFacts, ReqFields
  <2>3. req[r].conn # None => req[r].conn \in Conns \ cs
    <3>1. ASSUME req[r].out, req[r].conn \in cs PROVE FALSE
      BY <3>1 DEF DisconnectProgress, AllRequests
    <3> QED
      BY <2>1, <2>2, <3>1
  <2>4. req[r].conn # None => conn'[req[r].conn].life = "live"
    BY <1>1, <2>1, <2>3
  <2> QED
    BY <2>1, <2>4
<1> QED
  BY <1>1, <1>2, <1>5, <1>6, <1>7, <1>9, <1>10 DEF IInv

(* The connections in a list that are done, and the places of the others.  *)
DoneIn(list) == {c \in ToSet(list) : DisconnectProgress(c)}

KeptIn(list) == {i \in DOMAIN list : list[i] \notin DoneIn(list)}

LEMMA RemoveDoneFacts ==
    ASSUME NEW list, NEW slow, RemoveDone(list, slow)
    PROVE  /\ \E at \in Ascending(KeptIn(mgr[list])) :
                 mgr' = [mgr EXCEPT ![list] = Part(mgr[list], at)]
           /\ EpClose(DoneIn(mgr[list]), slow,
                      [c \in DoneIn(mgr[list]) |-> Destruct(c)])
  BY DEF RemoveDone, DoneIn, KeptIn, Part

LEMMA RemoveFailedKeeps ==
    ASSUME IInv, NEW slow, RemoveFailedConnections(slow)
    PROVE  IInv'
<1>1. PICK e, f : e = mgr.failedConns /\ f = mgr.disconnectingConns
  OBVIOUS
<1>2. PICK cs, kept : cs = DoneIn(e) /\ kept = KeptIn(e)
  OBVIOUS
<1>3. /\ \E at \in Ascending(kept) : mgr' = [mgr EXCEPT !["failedConns"] = Part(e, at)]
      /\ EpClose(cs, slow, [c \in cs |-> Destruct(c)])
  <2>1. mgr["failedConns"] = e
    BY <1>1
  <2>2. RemoveDone("failedConns", slow)
    BY DEF RemoveFailedConnections
  <2> QED
    BY <1>2, <2>1, <2>2, RemoveDoneFacts
<1>4. PICK at \in Ascending(kept) : mgr' = [mgr EXCEPT !["failedConns"] = Part(e, at)]
  BY <1>3
<1>5. pc = "dropFailed" /\ UNCHANGED <<pc, cur, todo, req, connReqs>>
  BY DEF RemoveFailedConnections
<1>6. mgr \in MgrRecords /\ ListedOnce(mgr)
  BY PlaceFacts DEF IInv
<1>7. e \in Seq(Conns) /\ f \in Seq(Conns) /\ NoRepeats(e) /\ NoRepeats(f)
  BY <1>1, <1>6, MgrFields DEF ListedOnce
<1>8. PICK x : x = Part(e, at)
  OBVIOUS
<1>9. /\ x \in Seq(Conns) /\ NoRepeats(x)
      /\ \A c : Has(x, c) <=> \E i \in kept : e[i] = c
  <2>1. kept \in SUBSET DOMAIN e
    BY <1>2 DEF KeptIn
  <2> QED
    BY <1>7, <1>8, <2>1, AscendingFacts
<1>10. cs \in SUBSET Conns /\ \A c \in cs : DisconnectProgress(c) /\ Has(e, c)
  BY <1>2, <1>7 DEF DoneIn, ToSet, Has
<1>11. \A c : Has(x, c) <=> Has(e, c) /\ c \notin cs
  BY <1>2, <1>9 DEF KeptIn, Has
<1>12. mgr' = ListsExcept(mgr, x, f)
  <2>1. PICK a, b, c, g, h : mgr = Manager(a, b, c, <<>>, g, h)
    BY <1>6, MgrFields DEF Manager
  <2>2. f = h
    BY <1>1, <2>1, ManagerFields
  <2> DEFINE m1 == [mgr EXCEPT !.failedConns = x]
             m2 == [m1 EXCEPT !.disconnectingConns = f]
  <2>3. mgr' = m1
    BY <1>4, <1>8
  <2>4. ListsExcept(mgr, x, f) = m2
    BY DEF ListsExcept
  <2>5. m1 = Manager(a, b, c, <<>>, x, h)
    BY <2>1 DEF Manager
  <2> HIDE DEF m1
  <2>6. m2 = Manager(a, b, c, <<>>, x, h)
    BY <2>2, <2>5 DEF Manager
  <2> QED
    BY <2>3, <2>4, <2>5, <2>6
<1>13. /\ mgr' \in MgrRecords /\ SlotsSame(mgr, mgr') /\ ListedOnce(mgr')
       /\ mgr'.failedConns = x /\ mgr'.disconnectingConns = f
  <2>1. (\A c : Has(x, c) => Has(mgr.failedConns, c))
        /\ (\A c : Has(f, c) => Has(mgr.disconnectingConns, c))
    BY <1>1, <1>11
  <2> QED
    BY <1>6, <1>7, <1>9, <1>12, <2>1, ShortenFacts
<1>14. \A c \in Conns : Has(e, c) => ~Has(mgr.connections, c) /\ ~Has(f, c)
  BY <1>1, <1>6 DEF ListedOnce
<1>15. \A c \in Conns : Listed(mgr', c) <=> Listed(mgr, c) /\ c \notin cs
  BY <1>1, <1>10, <1>11, <1>13, <1>14 DEF Listed, SlotsSame
<1>16. \A c \in cs : DisconnectProgress(c) /\ ~Has(mgr.connections, c)
  BY <1>10, <1>14
<1> QED
  BY <1>3, <1>5, <1>10, <1>13, <1>15, <1>16, DestructKeeps

LEMMA RemoveDisconnectedKeeps ==
    ASSUME IInv, NEW slow, RemoveDisconnectedConnections(slow)
    PROVE  IInv'
<1>1. PICK e, f : e = mgr.failedConns /\ f = mgr.disconnectingConns
  OBVIOUS
<1>2. PICK cs, kept : cs = DoneIn(f) /\ kept = KeptIn(f)
  OBVIOUS
<1>3. /\ \E at \in Ascending(kept) : mgr' = [mgr EXCEPT !["disconnectingConns"] = Part(f, at)]
      /\ EpClose(cs, slow, [c \in cs |-> Destruct(c)])
  <2>1. mgr["disconnectingConns"] = f
    BY <1>1
  <2>2. RemoveDone("disconnectingConns", slow)
    BY DEF RemoveDisconnectedConnections
  <2> QED
    BY <1>2, <2>1, <2>2, RemoveDoneFacts
<1>4. PICK at \in Ascending(kept) : mgr' = [mgr EXCEPT !["disconnectingConns"] = Part(f, at)]
  BY <1>3
<1>5. pc = "wait" /\ UNCHANGED <<pc, cur, todo, req, connReqs>>
  BY DEF RemoveDisconnectedConnections
<1>6. mgr \in MgrRecords /\ ListedOnce(mgr)
  BY PlaceFacts DEF IInv
<1>7. e \in Seq(Conns) /\ f \in Seq(Conns) /\ NoRepeats(e) /\ NoRepeats(f)
  BY <1>1, <1>6, MgrFields DEF ListedOnce
<1>8. PICK x : x = Part(f, at)
  OBVIOUS
<1>9. /\ x \in Seq(Conns) /\ NoRepeats(x)
      /\ \A c : Has(x, c) <=> \E i \in kept : f[i] = c
  <2>1. kept \in SUBSET DOMAIN f
    BY <1>2 DEF KeptIn
  <2> QED
    BY <1>7, <1>8, <2>1, AscendingFacts
<1>10. cs \in SUBSET Conns /\ \A c \in cs : DisconnectProgress(c) /\ Has(f, c)
  BY <1>2, <1>7 DEF DoneIn, ToSet, Has
<1>11. \A c : Has(x, c) <=> Has(f, c) /\ c \notin cs
  BY <1>2, <1>9 DEF KeptIn, Has
<1>12. mgr' = ListsExcept(mgr, e, x)
  <2>1. PICK a, b, c, g, h : mgr = Manager(a, b, c, <<>>, g, h)
    BY <1>6, MgrFields DEF Manager
  <2>2. e = g
    BY <1>1, <2>1, ManagerFields
  <2> DEFINE m1 == [mgr EXCEPT !.failedConns = e]
             m2 == [m1 EXCEPT !.disconnectingConns = x]
             m3 == [mgr EXCEPT !.disconnectingConns = x]
  <2>3. mgr' = m3
    BY <1>4, <1>8
  <2>4. ListsExcept(mgr, e, x) = m2
    BY DEF ListsExcept
  <2>5. m1 = Manager(a, b, c, <<>>, g, h)
    BY <2>1, <2>2 DEF Manager
  <2>6. m3 = Manager(a, b, c, <<>>, g, x)
    BY <2>1 DEF Manager
  <2> HIDE DEF m1, m3
  <2>7. m2 = Manager(a, b, c, <<>>, g, x)
    BY <2>5 DEF Manager
  <2> QED
    BY <2>3, <2>4, <2>6, <2>7
<1>13. /\ mgr' \in MgrRecords /\ SlotsSame(mgr, mgr') /\ ListedOnce(mgr')
       /\ mgr'.failedConns = e /\ mgr'.disconnectingConns = x
  <2>1. (\A c : Has(e, c) => Has(mgr.failedConns, c))
        /\ (\A c : Has(x, c) => Has(mgr.disconnectingConns, c))
    BY <1>1, <1>11
  <2> QED
    BY <1>6, <1>7, <1>9, <1>12, <2>1, ShortenFacts
<1>14. \A c \in Conns : Has(f, c) => ~Has(mgr.connections, c) /\ ~Has(e, c)
  BY <1>1, <1>6 DEF ListedOnce
<1>15. \A c \in Conns : Listed(mgr', c) <=> Listed(mgr, c) /\ c \notin cs
  BY <1>1, <1>10, <1>11, <1>13, <1>14 DEF Listed, SlotsSame
<1>16. \A c \in cs : DisconnectProgress(c) /\ ~Has(mgr.connections, c)
  BY <1>10, <1>14
<1> QED
  BY <1>3, <1>5, <1>10, <1>13, <1>15, <1>16, DestructKeeps

ClearedExcept(m) ==
    [m EXCEPT !.activeMap = <<>>, !.inactiveMap = <<>>, !.failedConns = <<>>,
              !.disconnectingConns = <<>>, !.connections = <<>>]

LEMMA ManagerCleared ==
    ASSUME NEW m \in MgrRecords, NEW n, n = ClearedExcept(m)
    PROVE  /\ n \in MgrRecords
           /\ n.connections = <<>> /\ n.failedConns = <<>> /\ n.disconnectingConns = <<>>
           /\ n.activeMap = <<>>
<1>1. PICK a, b, c, d, e, f : m = Manager(a, b, c, d, e, f)
  BY MgrFields DEF Manager
<1>2. b \in Seq(Nat)
  <2>1. m.freeSlots = b
    BY <1>1, ManagerFields
  <2> QED
    BY <2>1, MgrFields
<1>3. PICK o : o = <<>>
  OBVIOUS
<1> DEFINE m1 == [m EXCEPT !.activeMap = o]
           m2 == [m1 EXCEPT !.inactiveMap = o]
           m3 == [m2 EXCEPT !.failedConns = o]
           m4 == [m3 EXCEPT !.disconnectingConns = o]
           m5 == [m4 EXCEPT !.connections = o]
<1>4. n = m5
  BY <1>3 DEF ClearedExcept
<1>5. m1 = Manager(a, b, o, d, e, f)
  BY <1>1 DEF Manager
<1> HIDE DEF m1
<1>6. m2 = Manager(a, b, o, o, e, f)
  BY <1>5 DEF Manager
<1> HIDE DEF m2
<1>7. m3 = Manager(a, b, o, o, o, f)
  BY <1>6 DEF Manager
<1> HIDE DEF m3
<1>8. m4 = Manager(a, b, o, o, o, o)
  BY <1>7 DEF Manager
<1> HIDE DEF m4
<1>9. m5 = Manager(o, b, o, o, o, o)
  BY <1>8 DEF Manager
<1> HIDE DEF m5
<1>10. n = Manager(o, b, o, o, o, o)
  BY <1>4, <1>9
<1>11. o \in Seq(Conns \cup {None}) /\ o \in Seq(Conns) /\ o \in ActiveMaps
  BY <1>3, EmptyMap
<1>12. n \in MgrRecords
  BY <1>2, <1>3, <1>10, <1>11 DEF Manager, MgrRecords
<1>13. /\ n.connections = o /\ n.failedConns = o /\ n.disconnectingConns = o
       /\ n.activeMap = o
  BY <1>10, ManagerFields
<1> QED
  BY <1>3, <1>12, <1>13

LEMMA HeldFacts ==
    ASSUME NEW m \in MgrRecords
    PROVE  Held(m) \in SUBSET Conns /\ \A c \in Conns : c \in Held(m) <=> Listed(m, c)
<1>1. PICK a, e, f : a = m.connections /\ e = m.failedConns /\ f = m.disconnectingConns
  OBVIOUS
<1>2. a \in Seq(Conns \cup {None}) /\ e \in Seq(Conns) /\ f \in Seq(Conns)
  BY <1>1, MgrFields
<1>3. /\ \A i \in DOMAIN a : a[i] \in Conns \cup {None}
      /\ \A i \in DOMAIN e : e[i] \in Conns
      /\ \A i \in DOMAIN f : f[i] \in Conns
  BY <1>2
<1>4. \A c \in Conns : c # None
  BY NoneAssumption
<1> QED
  BY <1>1, <1>3, <1>4 DEF Held, ToSet, Listed, Has

LEMMA ClearKeeps ==
    ASSUME IInv, NEW slow, Clear(slow)
    PROVE  IInv'
<1>1. PICK cs : cs = Held(mgr)
  OBVIOUS
<1>2. PICK rs : rs = {r \in Requests : req[r].conn \in cs}
  OBVIOUS
<1>3. /\ pc = "clear" /\ mgr' = ClearedExcept(mgr)
      /\ EpClose(cs, slow, [c \in Conns |-> Destruct(c)])
      /\ ForceRequests(rs) /\ pc' = "destroyed" /\ todo' = <<>>
      /\ UNCHANGED <<cur, connReqs>>
  BY <1>1, <1>2 DEF Clear, ClearedExcept
<1>4. /\ mgr \in MgrRecords /\ connReqs \in 0 .. MaxConnReqs
      /\ cur \in [conn : Conns \cup {None}, back : Places]
      /\ cur = [conn |-> None, back |-> "run"] /\ cur.back = "run"
  BY <1>3, PlaceFacts DEF IInv, AtWork
<1>5. cs \in SUBSET Conns /\ \A c \in Conns : c \in cs <=> Listed(mgr, c)
  BY <1>1, <1>4, HeldFacts
<1>6. /\ mgr' \in MgrRecords
      /\ mgr'.connections = <<>> /\ mgr'.failedConns = <<>> /\ mgr'.disconnectingConns = <<>>
      /\ mgr'.activeMap = <<>>
  BY <1>3, <1>4, ManagerCleared
<1>7. /\ conn' \in [Conns -> ConnRecords] /\ ep' \in [Eps -> EpRecords]
      /\ \A c \in cs : conn'[c].life = "gone"
      /\ Owned'
      /\ \A c \in Conns \ cs : conn'[c] = conn[c]
  <2>1. Conns \in SUBSET Conns
    OBVIOUS
  <2> QED
    BY <1>3, <1>5, <2>1, DestructCloses
<1>8. \A c \in Conns : conn[c].life = "live" <=> Listed(mgr, c)
  BY DEF IInv, Living
<1>9. Requested' /\ req' \in [Requests -> ReqRecords]
  <2>1. rs \in SUBSET Requests
    BY <1>2
  <2>2. \A r \in Requests \ rs :
          req[r].conn # None => conn'[req[r].conn].life = "live"
    <3> SUFFICES ASSUME NEW r \in Requests, r \notin rs, req[r].conn # None
                 PROVE  FALSE
      OBVIOUS
    <3>1. req[r].conn \in Conns \cup {None}
      BY PlaceFacts, ReqFields
    <3>2. conn[req[r].conn].life = "live"
      BY DEF IInv, Requested
    <3>3. req[r].conn \in cs
      BY <1>5, <1>8, <3>1, <3>2
    <3> QED
      BY <1>2, <3>3
  <2> QED
    BY <1>3, <2>1, <2>2, ForceKeeps
<1>10. Typed'
  <2>1. pc' \in Places /\ todo' \in Seq(Conns)
    BY <1>3 DEF Places
  <2> QED
    BY <1>3, <1>4, <1>6, <1>7, <1>9, <2>1 DEF Typed
<1>11. ~\E c : Has(<<>>, c)
  BY DEF Has
<1>12. NoRepeats(<<>>) /\ DOMAIN <<>> = {}
  BY DEF NoRepeats
<1>13. ListedOnce(mgr')
  BY <1>6, <1>11, <1>12 DEF ListedOnce
<1>14. Slotted'
  BY <1>3, <1>6 DEF Slotted
<1>15. Living'
  <2>1. \A c \in Conns : ~Listed(mgr', c)
    BY <1>6, <1>11 DEF Listed
  <2> QED
    BY <1>5, <1>7, <1>8, <2>1 DEF Living
<1>16. Active' /\ Failed'
  BY <1>6, <1>12 DEF Active, Failed
<1>17. AtWork'
  BY <1>3, <1>4, <1>12 DEF AtWork
<1> QED
  BY <1>7, <1>9, <1>10, <1>13, <1>14, <1>15, <1>16, <1>17 DEF IInv

-----------------------------------------------------------------------------
(***************************************************************************)
(* Theorems.                                                               *)
(***************************************************************************)

LEMMA NextInvariant == IInv /\ [Next]_vars => IInv'
<1> SUFFICES ASSUME IInv, [Next]_vars PROVE IInv'
  OBVIOUS
<1>1. CASE UNCHANGED vars
  BY <1>1, StutterKeeps
<1>2. CASE Context
  <2>1. ASSUME NEW c \in Conns,
               SendAmData(c) \/ SendAmIovData(c) \/ RecvAmData(c) \/ RecvAmIovData(c)
        PROVE  IInv'
    BY <2>1, SendKeeps
  <2>2. ASSUME NEW e \in Eps, Connect(e) \/ ProgressConnRequest(e)
        PROVE  IInv'
    BY <2>2, ConnectKeeps
  <2>3. ASSUME NEW e \in Eps, RecreateConnectionFromFailed(e)
        PROVE  IInv'
    BY <2>3, RecreateKeeps
  <2>4. ASSUME NEW slow, NEW c \in Conns, Disconnect(c, slow)
        PROVE  IInv'
    BY <2>4, DisconnectKeeps
  <2>5. ASSUME NEW slow, FinishDisconnectDirect(slow) \/ RemoveFailedConnections(slow)
                           \/ DisconnectActive(slow) \/ RemoveDisconnectedConnections(slow)
                           \/ Clear(slow)
        PROVE  IInv'
    BY <2>5, FinishKeeps, RemoveFailedKeeps, DisconnectActiveKeeps,
       RemoveDisconnectedKeeps, ClearKeeps
  <2>6. CASE ProgressPendingConnRequests \/ RejectConnRequest
    BY <2>6, AcceptMoves
  <2>7. CASE DispatchConnectionError
    BY <2>7, DispatchKeeps
  <2>8. CASE RecreateFails \/ DispatchEnds
    BY <2>8, DispatchMoves
  <2>9. CASE DestroyConnections
    BY <2>9, DestroyMoves
  <2>10. CASE DirectLoop("directFailed", "dropFailed")
    BY <2>10, LoopMoves
  <2>11. CASE DirectLoop("directRest", "clear")
    BY <2>11, LoopMoves
  <2>12. CASE FailedLoopIdles
    BY <2>12, StutterKeeps DEF FailedLoopIdles
  <2>13. CASE NoMoreFailed
    BY <2>13, NoMoreFailedKeeps
  <2>14. CASE AllDisconnected \/ WaitEnds
    BY <2>14, WaitMoves
  <2> QED
    BY <1>2, <2>1, <2>2, <2>3, <2>4, <2>5, <2>6, <2>7, <2>8, <2>9, <2>10, <2>11, <2>12,
       <2>13, <2>14 DEF Context
<1>3. CASE Ucx
  <2>1. ASSUME NEW r \in Requests, CommonRequestCallback(r)
        PROVE  IInv'
    BY <2>1, CallbackKeeps
  <2>2. ASSUME NEW e \in Eps, HandleConnectionError(e)
        PROVE  IInv'
    BY <2>2, ErrorKeeps
  <2>3. ASSUME NEW e \in Eps, CloseCompleted(e)
        PROVE  IInv'
    BY <2>3, CloseCompletedKeeps
  <2>4. ASSUME NEW e \in Eps, AmRecvCallback(e)
        PROVE  IInv'
    BY <2>4, ConnectKeeps
  <2>5. ASSUME NEW e \in Eps, AmRecvCallbackRefused(e)
        PROVE  IInv'
    BY <2>5, RefusedKeeps
  <2>6. CASE ConnectRequestCallback
    BY <2>6, ConnectRequestKeeps
  <2> QED
    BY <1>3, <2>1, <2>2, <2>3, <2>4, <2>5, <2>6 DEF Ucx
<1>4. CASE Destroyed
  BY <1>4, StutterKeeps DEF Destroyed
<1> QED
  BY <1>1, <1>2, <1>3, <1>4 DEF Next

(* Every reachable state satisfies the invariant.                          *)
THEOREM ConnectionsInvariant == Spec => []IInv
<1> QED
  BY InitInvariant, NextInvariant, PTL DEF Spec

LEMMA TypesHold == IInv => TypeOK
<1> SUFFICES ASSUME IInv PROVE TypeOK
  OBVIOUS
<1>1. /\ pc \in Places /\ cur \in [conn : Conns \cup {None}, back : Places]
      /\ todo \in Seq(Conns) /\ mgr \in MgrRecords
      /\ conn \in [Conns -> ConnRecords] /\ ep \in [Eps -> EpRecords]
      /\ req \in [Requests -> ReqRecords] /\ connReqs \in 0 .. MaxConnReqs
  BY PlaceFacts
<1>2. /\ mgr.connections \in Seq(Conns \cup {None})
      /\ mgr.freeSlots \in Seq(Nat)
      /\ DOMAIN mgr.activeMap \subseteq Eps
      /\ mgr.inactiveMap = <<>>
      /\ mgr.failedConns \in Seq(Conns) /\ mgr.disconnectingConns \in Seq(Conns)
  <2>1. DOMAIN mgr.activeMap \in SUBSET Eps
    BY <1>1, MgrFields
  <2> QED
    BY <1>1, <2>1, MgrFields
<1> QED
  BY <1>1, <1>2, Zenon DEF TypeOK, ConnRecords, EpRecords, ReqRecords

LEMMA SlotsHold == IInv => SlotsPartitioned
<1> SUFFICES ASSUME IInv, SlotsInUse PROVE SlotsPartitioned
  BY DEF SlotsPartitioned
<1>1. pc # "destroyed"
  BY DEF SlotsInUse
<1>2. mgr \in MgrRecords /\ SlotsKept(mgr) /\ NoneLost(mgr)
  BY <1>1, PlaceFacts
<1>3. PICK a, b, c : a = mgr.connections /\ b = mgr.freeSlots /\ c = mgr.activeMap
  OBVIOUS
<1>4. /\ \A e \in DOMAIN c : c[e] \in DOMAIN a /\ a[c[e]] # None
      /\ \A d, e \in DOMAIN c : c[d] = c[e] => d = e
      /\ \A s \in DOMAIN a : a[s] # None => \E e \in DOMAIN c : c[e] = s
      /\ NoRepeats(b)
      /\ \A i \in DOMAIN b : b[i] \in DOMAIN a /\ a[b[i]] = None
  BY <1>2, <1>3 DEF SlotsKept, Found
<1>5. \A s \in DOMAIN a : a[s] = None => \E i \in DOMAIN b : b[i] = s
  BY <1>2, <1>3 DEF NoneLost, Has
<1>6. PICK used, free : /\ used = {c[id] : id \in DOMAIN c}
                        /\ free = {b[i] : i \in DOMAIN b}
  OBVIOUS
<1>7. \A s \in DOMAIN a : a[s] = None <=> s \in free
  BY <1>4, <1>5, <1>6
<1>8. used \cup free = DOMAIN a /\ used \cap free = {}
  BY <1>4, <1>5, <1>6
<1>9. IsInjective(b) /\ IsInjective(c)
  BY <1>4 DEF IsInjective, NoRepeats
<1>10. ToSet(b) = free
  BY <1>6 DEF ToSet
<1> QED
  BY <1>3, <1>6, <1>7, <1>8, <1>9, <1>10 DEF SlotsPartitioned, Slots

LEMMA CountFacts ==
    ASSUME NEW s, NEW c, \A i, j \in DOMAIN s : s[i] = c /\ s[j] = c => i = j
    PROVE  Cardinality({i \in DOMAIN s : s[i] = c}) = IF Has(s, c) THEN 1 ELSE 0
<1>1. CASE Has(s, c)
  <2>1. PICK i \in DOMAIN s : s[i] = c
    BY <1>1 DEF Has
  <2>2. {j \in DOMAIN s : s[j] = c} = {i}
    BY <2>1
  <2> QED
    BY <1>1, <2>2, FS_Singleton
<1>2. CASE ~Has(s, c)
  <2>1. {j \in DOMAIN s : s[j] = c} = {}
    BY <1>2 DEF Has
  <2> QED
    BY <1>2, <2>1, FS_EmptySet
<1> QED
  BY <1>1, <1>2

LEMMA OwnersHold == IInv => OneOwner
<1> SUFFICES ASSUME IInv, NEW c \in Conns
             PROVE  Cardinality({s \in Slots : mgr.connections[s] = c})
                      + Cardinality({i \in DOMAIN mgr.failedConns : mgr.failedConns[i] = c})
                      + Cardinality({i \in DOMAIN mgr.disconnectingConns :
                                       mgr.disconnectingConns[i] = c})
                    = IF conn[c].life = "live" THEN 1 ELSE 0
  BY DEF OneOwner
<1>1. PICK a, e, f : a = mgr.connections /\ e = mgr.failedConns /\ f = mgr.disconnectingConns
  OBVIOUS
<1>2. c # None
  BY NoneAssumption
<1>3. /\ \A i, j \in DOMAIN a : a[i] = c /\ a[j] = c => i = j
      /\ \A i, j \in DOMAIN e : e[i] = c /\ e[j] = c => i = j
      /\ \A i, j \in DOMAIN f : f[i] = c /\ f[j] = c => i = j
      /\ ~(Has(a, c) /\ Has(e, c)) /\ ~(Has(a, c) /\ Has(f, c)) /\ ~(Has(e, c) /\ Has(f, c))
  BY <1>1, <1>2 DEF IInv, ListedOnce, NoRepeats
<1>4. conn[c].life = "live" <=> Has(a, c) \/ Has(e, c) \/ Has(f, c)
  BY <1>1 DEF IInv, Living, Listed
<1>5. PICK x, y, z : /\ x = Cardinality({i \in DOMAIN a : a[i] = c})
                     /\ y = Cardinality({i \in DOMAIN e : e[i] = c})
                     /\ z = Cardinality({i \in DOMAIN f : f[i] = c})
  OBVIOUS
<1>6. x = IF Has(a, c) THEN 1 ELSE 0
  BY <1>3, <1>5, CountFacts
<1>7. y = IF Has(e, c) THEN 1 ELSE 0
  BY <1>3, <1>5, CountFacts
<1>8. z = IF Has(f, c) THEN 1 ELSE 0
  BY <1>3, <1>5, CountFacts
<1>9. x + y + z = IF conn[c].life = "live" THEN 1 ELSE 0
  BY <1>3, <1>4, <1>6, <1>7, <1>8
<1> QED
  BY <1>1, <1>5, <1>9 DEF Slots

(* ConnectionManager never loses a connection or a slot and never holds    *)
(* one twice: add_connection reuses only slots that are free, and a        *)
(* connection that lives is in exactly one of connections_, failedConns_   *)
(* and disconnectingConns_, also while UCX re-enters disconnect_direct.    *)
THEOREM ConnectionsNeverLost == Spec => []ConnectionsHeld
<1>1. IInv => ConnectionsHeld
  BY TypesHold, SlotsHold, OwnersHold DEF ConnectionsHeld
<1> QED
  BY <1>1, ConnectionsInvariant, PTL

(* get_connection finds the connection that has the endpoint, every open   *)
(* endpoint belongs to one live connection, its error handler points to    *)
(* no other, and a failed connection keeps its id until it is handled.     *)
THEOREM IdsLeadToTheirConnection == Spec => []EndpointsKnown
<1>1. ASSUME IInv PROVE EndpointOwned
  <2>1. \A id \in DOMAIN mgr.activeMap :
          LET c == mgr.connections[mgr.activeMap[id]]
          IN conn[c].ep = id /\ conn[c].status = "ok"
    BY <1>1 DEF IInv, Active, Found
  <2>2. ASSUME NEW e \in Eps, NEW owners,
               owners = {c \in Conns : conn[c].life = "live" /\ conn[c].ep = e}
        PROVE  IF ep[e].state \in {"open", "failed"}
               THEN Cardinality(owners) = 1 /\ ep[e].handler \in owners \cup {None}
               ELSE owners = {} /\ ep[e].handler = None
    <3>1. e # None
      BY NoneAssumption
    <3>2. /\ \A c \in Conns : conn[c].ep = e =>
               conn[c].life = "live" /\ ep[e].state \in {"open", "failed"}
          /\ \A c, d \in Conns : conn[c].ep = e /\ conn[d].ep = e => c = d
          /\ ep[e].state \in {"open", "failed"} => \E c \in Conns : conn[c].ep = e
          /\ ep[e].handler # None => conn[ep[e].handler].ep = e
      BY <1>1, <3>1 DEF IInv, Owned
    <3>3. ep[e].handler \in Conns \cup {None}
      BY <1>1, PlaceFacts DEF EpRecords
    <3>4. ep[e].handler \in owners \cup {None}
      BY <2>2, <3>2, <3>3
    <3>5. CASE ep[e].state \in {"open", "failed"}
      <4>1. PICK c \in Conns : conn[c].ep = e
        BY <3>2, <3>5
      <4>2. owners = {c}
        BY <2>2, <3>2, <4>1
      <4> QED
        BY <3>4, <3>5, <4>2, FS_Singleton
    <3>6. CASE ep[e].state \notin {"open", "failed"}
      <4>1. owners = {}
        BY <2>2, <3>2, <3>6
      <4> QED
        BY <3>4, <3>6, <4>1
    <3> QED
      BY <3>5, <3>6
  <2> QED
    BY <2>1, <2>2 DEF EndpointOwned
<1>2. ASSUME IInv PROVE FailedKeepsItsId
  BY <1>2, FailedFacts, NoneAssumption DEF FailedKeepsItsId, FailedWait, ToSet, Has
<1>3. IInv => EndpointsKnown
  BY <1>1, <1>2 DEF EndpointsKnown
<1> QED
  BY <1>3, ConnectionsInvariant, PTL

(* The callback of a request is called exactly once, by its completion or  *)
(* by disconnect_direct, and no request refers to a destroyed connection.  *)
THEOREM CallbacksCalledOnce == Spec => []CalledOnce
<1>1. IInv => CalledOnce
  BY DEF IInv, Requested, CalledOnce
<1> QED
  BY <1>1, ConnectionsInvariant, PTL

(* The destructor leaves no connection, no open endpoint and no uncalled   *)
(* callback behind, whatever fails or connects while it runs.              *)
THEOREM DestructorLeavesNothing == Spec => []NothingLeftBehind
<1>1. ASSUME IInv, pc = "destroyed"
      PROVE  /\ \A c \in Conns : conn[c].life # "live"
             /\ \A e \in Eps : ep[e].state \in {"free", "closing"}
             /\ \A r \in Requests : ~req[r].callback
  <2>1. mgr.connections = <<>> /\ mgr.failedConns = <<>> /\ mgr.disconnectingConns = <<>>
    BY <1>1 DEF IInv, Slotted
  <2>2. \A c \in Conns : conn[c].life # "live"
    BY <1>1, <2>1 DEF IInv, Living, Listed, Has
  <2>3. \A e \in Eps : ep[e].state \in {"free", "closing"}
    <3> TAKE e \in Eps
    <3>1. ep[e].state \in {"free", "open", "failed", "closing"}
      BY <1>1, PlaceFacts DEF EpRecords
    <3>2. ep[e].state \notin {"open", "failed"}
      BY <1>1, <2>2, NoneAssumption DEF IInv, Owned
    <3> QED
      BY <3>1, <3>2
  <2>4. \A r \in Requests : ~req[r].callback
    <3> TAKE r \in Requests
    <3>1. req[r].conn \in Conns \cup {None}
      BY <1>1, PlaceFacts, ReqFields
    <3> QED
      BY <1>1, <2>2, <3>1 DEF IInv, Requested
  <2> QED
    BY <2>2, <2>3, <2>4
<1>2. IInv => NothingLeftBehind
  BY <1>1 DEF NothingLeftBehind
<1> QED
  BY <1>2, ConnectionsInvariant, PTL
=============================================================================
