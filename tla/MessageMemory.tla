---------------------------- MODULE MessageMemory ----------------------------
(***************************************************************************)
(* The memory of messages: the wrappers of ucx_context_data.hpp, which are *)
(* moved, assigned, split, joined and destroyed, and the descriptors of    *)
(* received messages before and after they get there.                      *)
(*                                                                         *)
(* A block is one allocation, from the memory resource ("mr") or from UCX  *)
(* ("ucx"), and is never handed out again.  A wrapper refers to blocks and *)
(* may own them.  What no wrapper owns is the caller's ("users").          *)
(***************************************************************************)
EXTENDS Naturals, Sequences, FiniteSets

CONSTANTS
    Objs,       \* places for wrappers
    Blocks,     \* allocations
    MaxParts    \* bound on the buffers of a vector

VARIABLES
    heap,       \* per block: "unused", "mr", "ucx" or "freed"
    wrong,      \* blocks freed twice, or not the way they were allocated
    objs,       \* the wrappers
    users,      \* blocks the caller answers for
    context,    \* the descriptors in amDescQueue_ and amDescMap_, and whether
                \* the context is there
    leaked,     \* blocks nobody refers to any more
    twice       \* headers a cancelled receive released

mmVars == <<heap, wrong, objs, users, context, leaked, twice>>

Null == "null"
NoObject == [kind |-> "none"]
NoBacking == [block |-> Null, own |-> FALSE, fn |-> FALSE]

\* hdr: header; arr: array of an iovec; bufs: data; fn: a ucp_release_fn_.
Wrapper(kind, hdr, arr, bufs, ownHdr, own, fn) ==
    [kind |-> kind, hdr |-> hdr, arr |-> arr, bufs |-> bufs,
     ownHdr |-> ownHdr, own |-> own, fn |-> fn, backing |-> NoBacking]

MmInit ==
    /\ heap = [b \in Blocks |-> "unused"]
    /\ wrong = {}
    /\ objs = [o \in Objs |-> NoObject]
    /\ users = {}
    /\ context = [queue |-> <<>>, map |-> {}, alive |-> TRUE]
    /\ leaked = {}
    /\ twice = {}

Vacant(o) == objs[o] = NoObject
Is(o, kind) == objs[o].kind = kind
DataOf(w) == {w.bufs[i] : i \in DOMAIN w.bufs} \ {Null}
Header(hdr) == {hdr} \ {Null}

Way(fn) == IF fn THEN "ucx" ELSE "mr"

\* UcxMemoryResourceManager::allocate: a fresh block for each place asked.
Allocate(bs, type) ==
    /\ \A b \in bs : heap[b] = "unused"
    /\ heap' = [b \in Blocks |-> IF b \in bs THEN type ELSE heap[b]]

\* deallocate or the release function, for pairs of a block and a way.
Release(releases) ==
    /\ heap' = [b \in Blocks |->
                  IF \E r \in releases : r[1] = b THEN "freed" ELSE heap[b]]
    /\ wrong' = wrong \cup {r[1] : r \in {s \in releases : heap[s[1]] # s[2]}}

\* What the destructor of w releases.
BufferReleases(w) ==
    IF w.own THEN {<<b, Way(w.fn)>> : b \in DataOf(w)} ELSE {}
HeaderReleases(w) ==
    IF w.ownHdr THEN {<<b, "mr">> : b \in Header(w.hdr)} ELSE {}
BufferVecReleases(w) ==
    BufferReleases(w) \cup
    (IF w.backing.own THEN {<<w.backing.block, Way(w.backing.fn)>>} ELSE {})
AmDataReleases(w) == HeaderReleases(w) \cup BufferReleases(w)
AmIovecReleases(w) ==
    HeaderReleases(w) \cup BufferReleases(w) \cup
    (IF w.own THEN {<<b, "mr">> : b \in Header(w.arr)} ELSE {})

Releases(w) ==
    CASE w.kind = "none" -> {}
      [] w.kind = "buffer" -> BufferReleases(w)
      [] w.kind = "header" -> HeaderReleases(w)
      [] w.kind = "vec" -> BufferVecReleases(w)
      [] w.kind = "amdata" -> AmDataReleases(w)
      [] w.kind = "iovec" -> AmIovecReleases(w)

Owned(w) == {r[1] : r \in Releases(w)}

-----------------------------------------------------------------------------
(* Constructors that allocate.                                             *)

\* Also allocates for a wrapper that does not own: the caller's, then.
MakeBuffer(o, b, own) ==
    /\ Allocate({b}, "mr")
    /\ objs' = [objs EXCEPT
         ![o] = Wrapper("buffer", Null, Null, <<b>>, FALSE, own, FALSE)]
    /\ users' = IF own THEN users ELSE users \cup {b}

MakeHeader(o, b, own) ==
    /\ Allocate({b}, "mr")
    /\ objs' = [objs EXCEPT
         ![o] = Wrapper("header", b, Null, <<>>, own, FALSE, FALSE)]
    /\ users' = IF own THEN users ELSE users \cup {b}

MakeBufferVec(o, bs, own) ==
    /\ Allocate(DataOf([bufs |-> bs]), "mr")
    /\ objs' = [objs EXCEPT
         ![o] = Wrapper("vec", Null, Null, bs, FALSE, own, FALSE)]
    /\ users' = IF own THEN users ELSE users \cup DataOf([bufs |-> bs])

\* Nothing is allocated for what is not owned.
MakeAmData(o, h, b, ownHdr, own) ==
    /\ Allocate((IF ownHdr THEN {h} ELSE {}) \cup (IF own THEN {b} ELSE {}),
                "mr")
    /\ objs' = [objs EXCEPT
         ![o] = Wrapper("amdata", IF ownHdr THEN h ELSE Null, Null,
                        IF own THEN <<b>> ELSE <<>>, ownHdr, own, FALSE)]
    /\ UNCHANGED users

\* The array is allocated in any case; only an owner would free it.
MakeAmIovec(o, a, b, own) ==
    /\ Allocate({a} \cup (IF own THEN {b} ELSE {}), "mr")
    /\ objs' = [objs EXCEPT
         ![o] = Wrapper("iovec", Null, a, IF own THEN <<b>> ELSE <<Null>>,
                        FALSE, own, FALSE)]
    /\ leaked' = IF own THEN leaked ELSE leaked \cup {a}
    /\ UNCHANGED users

Construct(o) ==
    /\ Vacant(o)
    /\ \E a, b \in Blocks, own, ownHdr \in BOOLEAN :
         \/ MakeBuffer(o, b, own) /\ UNCHANGED leaked
         \/ MakeHeader(o, b, own) /\ UNCHANGED leaked
         \/ /\ MakeBufferVec(o, IF a = b THEN <<a>> ELSE <<a, b>>, own)
            /\ UNCHANGED leaked
         \/ a # b /\ MakeAmData(o, a, b, ownHdr, own) /\ UNCHANGED leaked
         \/ a # b /\ MakeAmIovec(o, a, b, own)
    /\ UNCHANGED <<wrong, context, twice>>

\* Constructors from memory there is.  An owner takes it over; the caller
\* passes a release function with memory of UCX.
AdoptBuffer(o, b, own) ==
    objs' = [objs EXCEPT ![o] =
      Wrapper("buffer", Null, Null, <<b>>, FALSE, own, heap[b] = "ucx")]

AdoptHeader(o, b, own) ==
    /\ heap[b] = "mr"
    /\ objs' = [objs EXCEPT ![o] =
         Wrapper("header", b, Null, <<>>, own, FALSE, FALSE)]

AdoptBufferVec(o, b, own) ==
    objs' = [objs EXCEPT ![o] =
      Wrapper("vec", Null, Null, <<b>>, FALSE, own, heap[b] = "ucx")]

AdoptAmData(o, b, own) ==
    objs' = [objs EXCEPT ![o] =
      Wrapper("amdata", Null, Null, <<b>>, FALSE, own, heap[b] = "ucx")]

\* The array, with no buffer in it yet.
AdoptAmIovec(o, b, own) ==
    /\ heap[b] = "mr"
    /\ objs' = [objs EXCEPT ![o] =
         Wrapper("iovec", Null, b, <<Null>>, FALSE, own, FALSE)]

Adopt(o, b, own) ==
    /\ Vacant(o) /\ b \in users
    /\ \/ AdoptBuffer(o, b, own)
       \/ AdoptHeader(o, b, own)
       \/ AdoptBufferVec(o, b, own)
       \/ AdoptAmData(o, b, own)
       \/ AdoptAmIovec(o, b, own)
    /\ users' = IF own THEN users \ {b} ELSE users
    /\ UNCHANGED <<heap, wrong, context, leaked, twice>>

-----------------------------------------------------------------------------
(* Moves.                                                                  *)

\* The pointers go, the ownership stays with the old data.
EmptiedStillOwning(w) == [w EXCEPT !.fn = FALSE]

\* What is left of w.
Emptied(w) ==
    [w EXCEPT !.hdr = Null, !.arr = Null, !.bufs = <<>>, !.ownHdr = FALSE,
              !.own = FALSE, !.fn = FALSE]

\* Both move constructors, that which sets the ownership of the data and
\* that which keeps it.  Data given up is left to the caller.
MoveInto(o, p, to, own) ==
    LET w == objs[o]
    IN /\ own \in {w.own, FALSE}
       /\ objs' = [objs EXCEPT ![p] = [to EXCEPT !.own = own],
                               ![o] = Emptied(w)]
       /\ users' = IF w.own /\ ~own
                   THEN users \cup DataOf(w) \cup Header(w.arr) ELSE users

MoveBuffer(o, p, own) == Is(o, "buffer") /\ MoveInto(o, p, objs[o], own)

MoveHeader(o, p, own) == Is(o, "header") /\ MoveInto(o, p, objs[o], own)

\* backing_buffer_ stays behind.
MoveBufferVec(o, p, own) ==
    /\ Is(o, "vec")
    /\ MoveInto(o, p, [objs[o] EXCEPT !.backing = NoBacking], own)

MoveAmData(o, p, own) == Is(o, "amdata") /\ MoveInto(o, p, objs[o], own)

MoveAmIovec(o, p, own) == Is(o, "iovec") /\ MoveInto(o, p, objs[o], own)

MoveConstruct(o, p, own) ==
    /\ ~Vacant(o) /\ Vacant(p)
    /\ \/ MoveBuffer(o, p, own)
       \/ MoveHeader(o, p, own)
       \/ MoveBufferVec(o, p, own)
       \/ MoveAmData(o, p, own)
       \/ MoveAmIovec(o, p, own)
    /\ UNCHANGED <<heap, wrong, context, leaked, twice>>

AssignOver(o, p) ==
    objs' = [objs EXCEPT ![p] = objs[o], ![o] = Emptied(objs[o])]

\* UcxBuffer and UcxHeader free what they held, UcxAmData and UcxAmIovec
\* forget it.
AssignBuffer(o, p) ==
    /\ Is(o, "buffer") /\ AssignOver(o, p)
    /\ Release(BufferReleases(objs[p]))
    /\ UNCHANGED leaked

AssignHeader(o, p) ==
    /\ Is(o, "header") /\ AssignOver(o, p)
    /\ Release(HeaderReleases(objs[p]))
    /\ UNCHANGED leaked

AssignAmData(o, p) ==
    /\ Is(o, "amdata") /\ AssignOver(o, p)
    /\ leaked' = leaked \cup Owned(objs[p])
    /\ UNCHANGED <<heap, wrong>>

AssignAmIovec(o, p) ==
    /\ Is(o, "iovec") /\ AssignOver(o, p)
    /\ leaked' = leaked \cup Owned(objs[p])
    /\ UNCHANGED <<heap, wrong>>

\* Here backing_buffer_ goes along, and the one it replaces is destroyed; the
\* blocks p owned are forgotten.
AssignBufferVec(o, p) ==
    /\ Is(o, "vec")
    /\ Release(BufferVecReleases([objs[p] EXCEPT !.own = FALSE]))
    /\ leaked' = leaked \cup Owned([objs[p] EXCEPT !.backing = NoBacking])
    /\ objs' = [objs EXCEPT
         ![p] = objs[o], ![o] = [Emptied(objs[o]) EXCEPT !.backing = NoBacking]]

MoveAssign(o, p) ==
    /\ o # p /\ ~Vacant(o) /\ objs[p].kind = objs[o].kind
    /\ \/ AssignBuffer(o, p)
       \/ AssignHeader(o, p)
       \/ AssignBufferVec(o, p)
       \/ AssignAmData(o, p)
       \/ AssignAmIovec(o, p)
    /\ UNCHANGED <<users, context, twice>>

Destroy(o) ==
    /\ ~Vacant(o)
    /\ Release(Releases(objs[o]))
    /\ objs' = [objs EXCEPT ![o] = NoObject]
    /\ UNCHANGED <<users, context, leaked, twice>>

-----------------------------------------------------------------------------
(* Splitting and joining.                                                  *)

\* n views of one buffer, which the vector keeps as its backing.
ToBufferVec(o, p, n) ==
    LET w == objs[o]
    IN /\ Is(o, "buffer") /\ Vacant(p) /\ w.bufs # <<>>
       /\ objs' = [objs EXCEPT
            ![p] = [Wrapper("vec", Null, Null, [i \in 1 .. n |-> w.bufs[1]],
                            FALSE, FALSE, FALSE)
                      EXCEPT !.backing = [block |-> w.bufs[1], own |-> w.own,
                                          fn |-> w.fn]],
            ![o] = Emptied(w)]
       /\ UNCHANGED <<heap, wrong, users, context, leaked, twice>>

\* The vector takes the ownership of the first for that of all: they are
\* alike.  The buffers keep their pointers and own nothing.
FromBuffers(from, p) ==
    LET first == objs[from[1]]
        Given(o) == \E i \in DOMAIN from : from[i] = o
    IN /\ Vacant(p)
       /\ \A i, j \in DOMAIN from : from[i] = from[j] => i = j
       /\ \A i \in DOMAIN from :
            LET w == objs[from[i]]
            IN /\ w.kind = "buffer" /\ w.bufs # <<>>
               /\ w.own = first.own /\ w.fn = first.fn
       /\ objs' = [o \in Objs |->
            IF o = p THEN Wrapper("vec", Null, Null,
                                  [i \in DOMAIN from |->
                                     objs[from[i]].bufs[1]],
                                  FALSE, first.own, first.fn)
            ELSE IF Given(o) THEN [objs[o] EXCEPT !.own = FALSE] ELSE objs[o]]
       /\ UNCHANGED <<heap, wrong, users, context, leaked, twice>>

\* A buffer per part; refused (std::logic_error) when there is a backing.
ExtractBuffers(o, to) ==
    LET w == objs[o]
    IN /\ Is(o, "vec") /\ w.backing.block = Null
       /\ \A i \in DOMAIN to : Vacant(to[i])
       /\ DOMAIN to = DOMAIN w.bufs
       /\ \A i, j \in DOMAIN to : to[i] = to[j] => i = j
       /\ objs' = [p \in Objs |->
            IF p = o THEN [w EXCEPT !.own = FALSE]
            ELSE IF \E i \in DOMAIN to : to[i] = p
            THEN Wrapper("buffer", Null, Null,
                         <<w.bufs[CHOOSE i \in DOMAIN to : to[i] = p]>>,
                         FALSE, w.own, w.fn)
            ELSE objs[p]]
       /\ UNCHANGED <<heap, wrong, users, context, leaked, twice>>

\* The caller frees what it answers for.
UserFrees(b) ==
    /\ b \in users
    /\ Release({<<b, heap[b]>>})
    /\ users' = users \ {b}
    /\ UNCHANGED <<objs, context, leaked, twice>>

-----------------------------------------------------------------------------
(* Received messages.  attr: the data was copied by the callback, is UCX's *)
(* and kept by the receiver ("data"), or is a descriptor ("rndv").         *)

\* No memory: what was allocated is freed again.
AmRecvCallbackNoMemory(h) ==
    /\ context.alive
    /\ heap[h] = "unused"
    /\ heap' = [heap EXCEPT ![h] = "freed"]
    /\ UNCHANGED <<wrong, objs, users, context, leaked, twice>>

AmRecvCallback(h, b, attr) ==
    /\ context.alive /\ context.queue = <<>>
    /\ h # b /\ heap[h] = "unused" /\ heap[b] = "unused"
    /\ heap' = [heap EXCEPT ![h] = "mr",
                            ![b] = IF attr = "copied" THEN "mr" ELSE "ucx"]
    /\ context' = [context EXCEPT !.queue =
                     <<[hdr |-> h, data |-> b, attr |-> attr]>>]
    /\ UNCHANGED <<wrong, objs, users, leaked, twice>>

\* Headers and data of descriptors nobody will receive; what a rendezvous
\* descriptor leads to stays.
DropReleases(d) ==
    {<<d.hdr, "mr">>} \cup
    (IF d.attr = "rndv" THEN {}
     ELSE {<<d.data, IF d.attr = "data" THEN "ucx" ELSE "mr">>})

Dropped(d) == IF d.attr = "rndv" THEN {d.data} ELSE {}

\* recv_header, the connection is gone.
RecvHeaderUnreachable ==
    /\ context.alive /\ context.queue # <<>>
    /\ Release(DropReleases(context.queue[1]))
    /\ leaked' = leaked \cup Dropped(context.queue[1])
    /\ context' = [context EXCEPT !.queue = <<>>]
    /\ UNCHANGED <<objs, users, twice>>

\* recv_header: the header's wrapper owns it, the descriptor that waits in
\* amDescMap_ for its data refers to it as well.
RecvHeader(o, p) ==
    LET d == context.queue[1]
    IN /\ context.alive /\ context.queue # <<>>
       /\ o # p /\ Vacant(o) /\ Vacant(p)
       /\ objs' = [objs EXCEPT
            ![o] = Wrapper("header", d.hdr, Null, <<>>, TRUE, FALSE, FALSE),
            ![p] = IF d.attr = "rndv" THEN NoObject
                   ELSE Wrapper("buffer", Null, Null, <<d.data>>, FALSE, TRUE,
                                d.attr = "data")]
       /\ context' = [context EXCEPT !.queue = <<>>,
                        !.map = IF d.attr = "rndv" THEN @ \cup {d} ELSE @]
       /\ UNCHANGED <<heap, wrong, users, leaked, twice>>

\* recv_buffer: UCX releases the descriptor it has received the data from;
\* if the connection is gone the descriptor stays.
RecvBuffer(d, connected) ==
    /\ context.alive /\ d \in context.map
    /\ Release(IF connected THEN {<<d.data, "ucx">>} ELSE {})
    /\ leaked' = IF connected THEN leaked ELSE leaked \cup {d.data}
    /\ context' = [context EXCEPT !.map = @ \ {d}]
    /\ UNCHANGED <<objs, users, twice>>

\* release_rndv_am_desc with release_header, its default.
ReleaseRndvAmDesc(d) == {<<d.hdr, "mr">>, <<d.data, "ucx">>}

\* A recv_buffer that is cancelled before it has started to receive.
CancelRecvBuffer(d) ==
    /\ context.alive /\ d \in context.map
    /\ Release(ReleaseRndvAmDesc(d))
    /\ twice' = twice \cup {d.hdr}
    /\ context' = [context EXCEPT !.map = @ \ {d}]
    /\ UNCHANGED <<objs, users, leaked>>

\* ~ucx_am_context.  Descriptors of UCX are released after its worker is gone.
DestroyContext ==
    /\ context.alive
    /\ Release(UNION {DropReleases(context.queue[i]) :
                        i \in DOMAIN context.queue})
    /\ leaked' = leaked \cup {d.data : d \in context.map} \cup
                 UNION {Dropped(context.queue[i]) : i \in DOMAIN context.queue}
    /\ context' = [queue |-> <<>>, map |-> {}, alive |-> FALSE]
    /\ UNCHANGED <<objs, users, twice>>

MmNext ==
    \/ \E o \in Objs : Construct(o) \/ Destroy(o)
    \/ \E o \in Objs, b \in Blocks, own \in BOOLEAN : Adopt(o, b, own)
    \/ \E o, p \in Objs : \/ MoveAssign(o, p)
                          \/ RecvHeader(o, p)
                          \/ \E own \in BOOLEAN : MoveConstruct(o, p, own)
                          \/ \E n \in 1 .. MaxParts : ToBufferVec(o, p, n)
    \/ \E o \in Objs, n \in 1 .. MaxParts :
         \E several \in [1 .. n -> Objs] :
            FromBuffers(several, o) \/ ExtractBuffers(o, several)
    \/ \E b \in Blocks : UserFrees(b) \/ AmRecvCallbackNoMemory(b)
    \/ \E h, b \in Blocks, attr \in {"copied", "data", "rndv"} :
         AmRecvCallback(h, b, attr)
    \/ RecvHeaderUnreachable
    \/ \E d \in context.map : \/ \E connected \in BOOLEAN :
                                   RecvBuffer(d, connected)
                              \/ CancelRecvBuffer(d)
    \/ DestroyContext

-----------------------------------------------------------------------------
QueueHolds(b) ==
    \E i \in DOMAIN context.queue :
        b \in {context.queue[i].hdr, context.queue[i].data}

\* Everyone who answers for b.
Owners(b) ==
    {o \in Objs : ~Vacant(o) /\ b \in Owned(objs[o])}
    \cup (IF b \in users THEN {"user"} ELSE {})
    \cup (IF QueueHolds(b) \/ \E d \in context.map : d.data = b
          THEN {"context"} ELSE {})
    \cup (IF b \in leaked THEN {"nobody"} ELSE {})

\* However wrappers are moved, split, joined and assigned and messages are
\* received or dropped, allocated memory has one owner and freed memory none,
\* and it is freed once, the way it was allocated (the constructors,
\* assignments and destructors of ucx_context_data.hpp, ~ucx_am_context).
\* Excepted are the headers of cancelled receives.
OneOwner ==
    \A b \in Blocks \ twice :
        /\ b \notin wrong
        /\ Cardinality(Owners(b)) = IF heap[b] \in {"mr", "ucx"} THEN 1 ELSE 0

\* No memory is freed twice, the headers of cancelled receives included.
NeverFreedTwice == wrong = {}

=============================================================================
