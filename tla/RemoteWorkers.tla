---------------------------- MODULE RemoteWorkers ----------------------------
(***************************************************************************)
(* SlotMap and the table of remote workers AxonWorker keeps in one: names  *)
(* lead to keys, keys to slots, and a generation per slot tells a key from *)
(* the keys of the slot's earlier tenants.  The worker only adds; erase    *)
(* and clear are operations of SlotMap that it does not call.              *)
(***************************************************************************)
EXTENDS Naturals, Sequences, FiniteSets

CONSTANTS
    Workers,        \* names of remote workers
    ConnIds,        \* connection ids
    MaxSlots,       \* bound on the slots made
    MaxGeneration   \* bound on a slot's generation, 2^32 in the code

VARIABLES
    sm,         \* remote_workers_: slots_, free_head_, count_
    slotOf,     \* remote_workers_slot_
    latest,     \* history: per worker, the endpoint last associated
    gone,       \* history: workers whose slot was erased
    lost,       \* slots whose construction threw
    cleared     \* clear() was called

rwVars == <<sm, slotOf, latest, gone, lost, cleared>>

NoWorker == [name |-> "nobody", conn |-> "none"]
InvalidIndex == 0

\* SlotKey{}: an index no slot has (indexes start at 1 here).
NoKey == [index |-> InvalidIndex, generation |-> 0]

EmptyMap == [slots |-> <<>>, freeHead |-> InvalidIndex, count |-> 0]

RwInit ==
    /\ sm = EmptyMap
    /\ slotOf = [w \in Workers |-> NoKey]
    /\ latest = [w \in Workers |-> NoWorker]
    /\ gone = {}
    /\ lost = {}
    /\ cleared = FALSE

-----------------------------------------------------------------------------
(* SlotMap.  A slot with an even generation is occupied, one with an odd   *)
(* generation is free and links to the next free one.                      *)

Occupied(slot) == slot.generation % 2 = 0

\* Without the check of the generation.
GetByIndex(m, key) == key.index \in 1 .. Len(m.slots)

Get(m, key) ==
    /\ key.index \in 1 .. Len(m.slots)
    /\ m.slots[key.index].generation = key.generation

NewSlot(v) == [generation |-> 0, value |-> v, nextFree |-> InvalidIndex]

EmplaceIndex(m) ==
    IF m.freeHead # InvalidIndex THEN m.freeHead ELSE Len(m.slots) + 1

Emplace(m, v) ==
    IF m.freeHead # InvalidIndex
    THEN [slots |-> [m.slots EXCEPT ![m.freeHead].value = v,
                                    ![m.freeHead].generation = @ + 1],
          freeHead |-> m.slots[m.freeHead].nextFree,
          count |-> m.count + 1]
    ELSE [m EXCEPT !.slots = Append(@, NewSlot(v)), !.count = @ + 1]

\* The constructor throws: the slot has left the free list, or has been
\* appended as free, and is on no list.
EmplaceThrows(m) ==
    IF m.freeHead # InvalidIndex
    THEN [m EXCEPT !.freeHead = m.slots[m.freeHead].nextFree]
    ELSE [m EXCEPT !.slots =
            Append(@, [NewSlot(NoWorker) EXCEPT !.generation = 1])]

KeyAt(m, i) == [index |-> i, generation |-> m.slots[i].generation]

\* False leaves the map alone.
Erase(m, key) ==
    IF ~Get(m, key) THEN m
    ELSE [slots |-> [m.slots EXCEPT
                       ![key.index].generation = @ + 1,
                       ![key.index].value = NoWorker,
                       ![key.index].nextFree = m.freeHead],
          freeHead |-> key.index,
          count |-> m.count - 1]

\* The generations go with the slots.
Clear(m) == IF m.count = 0 THEN m ELSE EmptyMap

-----------------------------------------------------------------------------
(* The worker's table.                                                     *)

\* ConnectEndpoint's connection is made: a worker that is known keeps its
\* slot and signatures, even if its slot is gone.
AssociateConnection(w, c) ==
    LET endpoint == [name |-> w, conn |-> c]
    IN /\ \/ /\ slotOf[w] = NoKey
             /\ EmplaceIndex(sm) <= MaxSlots
             /\ sm' = Emplace(sm, endpoint)
             /\ slotOf' = [slotOf EXCEPT ![w] = KeyAt(sm', EmplaceIndex(sm))]
          \/ /\ slotOf[w] # NoKey
             /\ sm' = IF Get(sm, slotOf[w])
                      THEN [sm EXCEPT !.slots[slotOf[w].index].value =
                                        endpoint]
                      ELSE sm
             /\ UNCHANGED slotOf
       /\ latest' = [latest EXCEPT ![w] =
                       IF w \in gone THEN NoWorker ELSE endpoint]
       /\ UNCHANGED <<lost, gone, cleared>>

\* No memory for the name: the caller gets an exception.
AssociateConnectionThrows(w) ==
    /\ slotOf[w] = NoKey
    /\ EmplaceIndex(sm) <= MaxSlots
    /\ sm' = EmplaceThrows(sm)
    /\ lost' = lost \cup {EmplaceIndex(sm)}
    /\ UNCHANGED <<slotOf, latest, gone, cleared>>

EraseKey(key) ==
    /\ Get(sm, key)
    /\ key.generation + 2 <= MaxGeneration
    /\ sm' = Erase(sm, key)
    /\ LET tenants == {w \in Workers : slotOf[w] = key}
       IN /\ latest' = [w \in Workers |->
                          IF w \in tenants THEN NoWorker ELSE latest[w]]
          /\ gone' = gone \cup tenants
    /\ UNCHANGED <<slotOf, lost, cleared>>

ClearAll ==
    /\ sm.count > 0
    /\ sm' = Clear(sm)
    /\ lost' = {}
    /\ cleared' = TRUE
    /\ UNCHANGED <<slotOf, latest, gone>>

\* The worker's key for a name: that of an unknown one is invalid.
WorkerKey(w) == slotOf[w]

\* The endpoint a call with this key goes to; nobody: WorkerNotFound.
GetConnectionId(key) ==
    IF Get(sm, key) THEN sm.slots[key.index].value ELSE NoWorker

\* The endpoint that gets the signatures.
RegisterEndpointSignatures(w) ==
    IF slotOf[w] # NoKey /\ Get(sm, slotOf[w])
    THEN sm.slots[slotOf[w].index].value ELSE NoWorker

RwNext ==
    \/ \E w \in Workers, c \in ConnIds : AssociateConnection(w, c)
    \/ \E w \in Workers : AssociateConnectionThrows(w)
    \/ \E i \in 1 .. Len(sm.slots) :
         Occupied(sm.slots[i]) /\ EraseKey(KeyAt(sm, i))
    \/ ClearAll

-----------------------------------------------------------------------------
\* A call by name goes to the connection last made to that worker, and
\* fails with WorkerNotFound exactly when there is none or its slot was
\* erased; signatures are added to that worker's (GetConnectionId,
\* RegisterEndpointSignatures).  Only clear(), which forgets the generations,
\* can confuse two workers.
CallReachesNamedWorker ==
    cleared
    \/ \A w \in Workers :
         /\ GetConnectionId(WorkerKey(w)) = latest[w]
         /\ RegisterEndpointSignatures(w) = latest[w]

\* The slots on the free list, followed from free_head_.
FreeList ==
    LET f[k \in 0 .. Len(sm.slots)] ==
          IF k = 0 THEN sm.freeHead
          ELSE IF f[k - 1] = InvalidIndex THEN InvalidIndex
          ELSE sm.slots[f[k - 1]].nextFree
    IN {f[k] : k \in 0 .. Len(sm.slots)} \ {InvalidIndex}

\* The free list holds every free slot but those whose construction threw,
\* each once, and count_ is the number of occupied ones: a slot is never
\* handed out twice.
FreeListExact ==
    LET indexes == 1 .. Len(sm.slots)
        free == {i \in indexes : ~Occupied(sm.slots[i])}
    IN /\ FreeList = free \ lost
       /\ sm.count = Cardinality(indexes \ free)

=============================================================================
