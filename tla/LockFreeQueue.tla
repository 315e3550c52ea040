---------------------------- MODULE LockFreeQueue ----------------------------
(***************************************************************************)
(* LockFreeQueue: a linked list with a dummy node, head_ and tail_ moved   *)
(* by compare-and-swap.  One step per atomic access of push and pop, which *)
(* threads call as they like; ConnectionManager, its only user, calls it   *)
(* from the I/O thread alone.  pop frees the old dummy, and an allocation  *)
(* may return a freed address.  When a thread reads through a pointer to   *)
(* freed memory the model stops ("touched").                               *)
(***************************************************************************)
EXTENDS Naturals, Sequences, FiniteSets

CONSTANTS
    Pushers, Poppers,   \* threads
    Nodes,              \* addresses
    MaxPushes           \* bound on the values pushed: 1, 2, ...

Null == "null"

VARIABLES
    q,          \* head, tail, and per address: alive, next, value
    thr,        \* per thread: where it is and its local variables
    pushed,     \* values whose push has linked a node, in this order
    popped,     \* values taken, in the order of the swaps of head_
    touched     \* freed memory was read

qVars == <<q, thr, pushed, popped, touched>>

NoNode == [alive |-> FALSE, next |-> Null, value |-> 0]

Resting == [at |-> "idle", head |-> Null, tail |-> Null, next |-> Null,
            new |-> Null]

Dummy == CHOOSE n \in Nodes : TRUE

QInit ==
    /\ q = [head |-> Dummy, tail |-> Dummy,
            node |-> [n \in Nodes |->
                        [NoNode EXCEPT !.alive = (n = Dummy)]]]
    /\ thr = [t \in Pushers \cup Poppers |-> Resting]
    /\ pushed = <<>>
    /\ popped = <<>>
    /\ touched = FALSE

Goto(t, at) == thr' = [thr EXCEPT ![t].at = at]

\* A read of n's members.
Touch(n) == touched' = ~q.node[n].alive

-----------------------------------------------------------------------------
(* push                                                                    *)

PushNew(t, n, v) ==
    /\ thr[t].at = "idle"
    /\ ~q.node[n].alive
    /\ q' = [q EXCEPT !.node[n] = [alive |-> TRUE, next |-> Null,
                                   value |-> v]]
    /\ thr' = [thr EXCEPT ![t].at = "loadTail", ![t].new = n]
    /\ UNCHANGED <<pushed, popped, touched>>

PushLoadTail(t) ==
    /\ thr[t].at = "loadTail"
    /\ thr' = [thr EXCEPT ![t].at = "loadNext", ![t].tail = q.tail]
    /\ UNCHANGED <<q, pushed, popped, touched>>

PushLoadNext(t) ==
    /\ thr[t].at = "loadNext"
    /\ thr' = [thr EXCEPT ![t].at = "checkTail",
                          ![t].next = q.node[thr[t].tail].next]
    /\ Touch(thr[t].tail)
    /\ UNCHANGED <<q, pushed, popped>>

PushCheckTail(t) ==
    /\ thr[t].at = "checkTail"
    /\ Goto(t, IF thr[t].tail # q.tail THEN "loadTail"
               ELSE IF thr[t].next = Null THEN "link" ELSE "help")
    /\ UNCHANGED <<q, pushed, popped, touched>>

\* The swap of old_tail->next; a weak one may also fail for no reason.
PushLink(t) ==
    /\ thr[t].at = "link"
    /\ Touch(thr[t].tail)
    /\ \/ /\ q.node[thr[t].tail].next = Null
          /\ q' = [q EXCEPT !.node[thr[t].tail].next = thr[t].new]
          /\ pushed' = Append(pushed, q.node[thr[t].new].value)
          /\ Goto(t, "swing")
       \/ /\ Goto(t, "loadTail")
          /\ UNCHANGED <<q, pushed>>
    /\ UNCHANGED popped

SwingTail(expected, to) ==
    q' = IF q.tail = expected THEN [q EXCEPT !.tail = to] ELSE q

PushHelp(t) ==
    /\ thr[t].at = "help"
    /\ \/ SwingTail(thr[t].tail, thr[t].next)
       \/ UNCHANGED q
    /\ Goto(t, "loadTail")
    /\ UNCHANGED <<pushed, popped, touched>>

PushSwing(t) ==
    /\ thr[t].at = "swing"
    /\ \/ SwingTail(thr[t].tail, thr[t].new)
       \/ UNCHANGED q
    /\ thr' = [thr EXCEPT ![t] = Resting]
    /\ UNCHANGED <<pushed, popped, touched>>

-----------------------------------------------------------------------------
(* pop                                                                     *)

PopLoadHead(t) ==
    /\ thr[t].at = "idle"
    /\ thr' = [thr EXCEPT ![t].at = "popTail", ![t].head = q.head]
    /\ UNCHANGED <<q, pushed, popped, touched>>

PopLoadTail(t) ==
    /\ thr[t].at = "popTail"
    /\ thr' = [thr EXCEPT ![t].at = "popNext", ![t].tail = q.tail]
    /\ UNCHANGED <<q, pushed, popped, touched>>

PopLoadNext(t) ==
    /\ thr[t].at = "popNext"
    /\ thr' = [thr EXCEPT ![t].at = "popCheck",
                          ![t].next = q.node[thr[t].head].next]
    /\ Touch(thr[t].head)
    /\ UNCHANGED <<q, pushed, popped>>

\* "idle": the head has changed and pop starts over, or the queue is empty.
PopCheck(t) ==
    /\ thr[t].at = "popCheck"
    /\ Goto(t, IF thr[t].head # q.head THEN "idle"
               ELSE IF thr[t].head # thr[t].tail THEN "popSwap"
               ELSE IF thr[t].next = Null THEN "idle" ELSE "popHelp")
    /\ UNCHANGED <<q, pushed, popped, touched>>

PopHelp(t) ==
    /\ thr[t].at = "popHelp"
    /\ \/ SwingTail(thr[t].tail, thr[t].next)
       \/ UNCHANGED q
    /\ Goto(t, "idle")
    /\ UNCHANGED <<pushed, popped, touched>>

\* The swap of head_, the read of the value and the deletion of the dummy.
\* head_next is not looked at: with one thread it is never null here.
PopSwap(t) ==
    /\ thr[t].at = "popSwap"
    /\ \/ /\ q.head = thr[t].head
          /\ q' = [q EXCEPT !.head = thr[t].next,
                            !.node[thr[t].head].alive = FALSE]
          /\ popped' = Append(popped, q.node[thr[t].next].value)
          /\ Touch(thr[t].next)
       \/ UNCHANGED <<q, popped, touched>>
    /\ thr' = [thr EXCEPT ![t] = Resting]
    /\ UNCHANGED pushed

\* empty(), asked between two operations.
IsEmpty == q.head = q.tail /\ q.node[q.head].next = Null

\* size(): the nodes behind the dummy.
Size ==
    LET at[k \in 0 .. MaxPushes] ==
          IF k = 0 THEN q.node[q.head].next
          ELSE IF at[k - 1] = Null THEN Null ELSE q.node[at[k - 1]].next
    IN Cardinality({k \in 0 .. MaxPushes : at[k] # Null})

-----------------------------------------------------------------------------
Push(t) ==
    \/ PushLoadTail(t)
    \/ PushLoadNext(t)
    \/ PushCheckTail(t)
    \/ PushLink(t)
    \/ PushHelp(t)
    \/ PushSwing(t)

Pop(t) ==
    \/ PopLoadHead(t)
    \/ PopLoadTail(t)
    \/ PopLoadNext(t)
    \/ PopCheck(t)
    \/ PopHelp(t)
    \/ PopSwap(t)

QNext ==
    /\ ~touched
    /\ \/ \E t \in Pushers, n \in Nodes, v \in 1 .. MaxPushes :
            /\ \A w \in 1 .. MaxPushes :
                 w < v <=> \/ \E i \in DOMAIN pushed : pushed[i] = w
                           \/ \E u \in Pushers : thr[u].new # Null
                                /\ q.node[thr[u].new].value = w
            /\ PushNew(t, n, v)
       \/ \E t \in Pushers : Push(t)
       \/ \E t \in Poppers : Pop(t)

\* Values leave in the order in which they were linked, none is lost and
\* none is taken twice, no freed node is read, and between two calls size()
\* and empty() say how many are left: push, pop.  One thread may rely on it.
\* The class comment promises it to "multiple threads" that "access the queue
\* simultaneously"; with a second popper, or a pusher beside a popper, a
\* thread can read the dummy that another has freed.
FirstInFirstOut ==
    /\ ~touched
    /\ popped = SubSeq(pushed, 1, Len(popped))
    /\ (\A t \in Pushers \cup Poppers : thr[t].at = "idle") =>
         /\ Size = Len(pushed) - Len(popped)
         /\ IsEmpty <=> Size = 0

=============================================================================
