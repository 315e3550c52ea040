--------------------------- MODULE PartsInvariants ---------------------------
(***************************************************************************)
(* The inductive invariants of the parts of MCParts, and what the proofs   *)
(* of PartsProofs say about the state: types, the places of an item, and   *)
(* how far each operation is.  The theorems are in PartsProofs.            *)
(***************************************************************************)
EXTENDS MCParts

-----------------------------------------------------------------------------
(***************************************************************************)
(* The worker's clock (WorkerClock).  At most one update of hlc_ is        *)
(* under way, and the value it is about to store is after hlc_ and after the *)
(* clock it was merged with.                                               *)
(***************************************************************************)

Pending ==
    \A m \in Messages : Updating(m) => next[m] \in Clocks

Headers ==
    \A m \in Messages : pc[m] = "merge" => received[m] \in Clocks

Finished ==
    \A r \in Requests : reply[r] # NoClock => pc[r] = "done"

OneUpdate ==
    \A m, o \in Messages : Updating(m) /\ Updating(o) => m = o

NextIsLater ==
    \A m \in Messages :
      /\ Updating(m) => Before(hlc, next[m])
      /\ pc[m] = "merge" => Before(received[m], next[m])

Seen ==
    \A m \in Messages :
      received[m] # NoClock /\ pc[m] # "merge" => Before(received[m], hlc)

Replied ==
    \A r \in Requests :
      reply[r] # NoClock /\ received[r] # NoClock
        => Before(received[r], reply[r])

Causal == OneUpdate /\ NextIsLater /\ Seen /\ Replied

Inv == TypeOK /\ Pending /\ Headers /\ Finished /\ (Ordered => Causal)

-----------------------------------------------------------------------------
(***************************************************************************)
(* The connection requests (Listener).                                     *)
(***************************************************************************)

\* A request counts as queued only while it is in epConnReqQueue_, which is
\* empty once cleanup has run, and a next() that waits has an open listener.
ListenerInv ==
    /\ DOMAIN settled = 1 .. MaxRequests
    /\ requests \in Seq(1 .. MaxRequests)
    /\ \A r \in DOMAIN settled :
         settled[r] = "queued" => \E i \in DOMAIN requests : requests[i] = r
    /\ listener \in {"none", "open"}
    /\ accepting \in {"started", "parked"} => listener = "open"
    /\ accepting = "parked" => requests = <<>>
    /\ stream = "cleaned" => listener = "none" /\ accepting = "none" /\ requests = <<>>

-----------------------------------------------------------------------------
(***************************************************************************)
(* The answers to the client (ClientResponses).                            *)
(***************************************************************************)

\* The parts that a caller who wants w may get of the answer a.
Whole(w, a, parts) ==
    \/ w = "none" /\ parts = <<>>
    \/ w = "vec" /\ a.metas # <<>> /\ parts = a.metas
    \/ w \notin {"none", "vec"} /\ parts = <<a.length>>
    \/ w = "vec" /\ a.metas = <<>> /\ parts = <<a.length>>
    \/ w = "any" /\ parts = a.metas

\* What the handler makes of an answer.
Outcome(w, a, r) ==
    \/ /\ r.st = "value" /\ r.why = "none" /\ a.form = "eager"
       /\ CR!Honest(a) => Whole(w, a, r.parts)
    \/ /\ r.st = "receiving" /\ r.why = "none" /\ a.form = "rndv"
       /\ CR!Honest(a) => Whole(w, a, r.parts) /\ CR!Total(r.parts) = a.length
    \/ /\ r.st = "error" /\ r.why \in {"status", "monostate", "policy", "sizes"}
       /\ a.form = "rndv" => r.why \in {"status", "monostate", "policy"}
       /\ a.form = "eager" /\ CR!Honest(a) => r.why = "status"

States == {"idle", "waiting", "receiving", "value", "error"}
Whys == {"none", "deadline", "transfer", "send", "status", "stopped",
         "monostate", "policy", "sizes"}
Records == [st : States, wants : CR!Wants, policy : CR!Policies, why : Whys]

\* How far the call is and what it knows of its answer.
CallInv(k) ==
    /\ answer[k] = CR!NoAnswer \/ answer[k] \in CR!Answers
    /\ k \in desc => CR!Received(k) /\ answer[k].form = "rndv"
    /\ call[k].st = "idle" => ~CR!Received(k)
    /\ call[k].st = "waiting" => ~CR!Received(k) \/ answer[k].header = "garbage"
    /\ call[k].st = "receiving" =>
         /\ CR!Received(k)
         /\ CR!Honest(answer[k]) =>
              /\ Whole(call[k].wants, answer[k], result[k])
              /\ CR!Total(result[k]) = answer[k].length
    /\ call[k].st = "value" =>
         /\ CR!Received(k) /\ k \notin desc
         /\ CR!Honest(answer[k]) => Whole(call[k].wants, answer[k], result[k])
    /\ call[k].st = "error" =>
         /\ call[k].why = "stopped" => loop = "drained"
         /\ ~CR!Received(k) => call[k].why \in {"deadline", "send", "stopped"}
         /\ CR!Received(k) /\ CR!Honest(answer[k]) =>
              \/ call[k].why \in {"deadline", "transfer", "send", "status", "stopped"}
              \/ answer[k].form = "rndv" /\ call[k].why \in {"monostate", "policy"}
         /\ k \in desc =>
              \/ answer[k].header = "garbage"
              \/ call[k].why \in {"deadline", "send", "status", "monostate", "policy"}

AnswersInv ==
    /\ call \in [Calls -> Records]
    /\ DOMAIN answer = Calls /\ DOMAIN result = Calls
    /\ \A k \in Calls : CallInv(k)

-----------------------------------------------------------------------------
(***************************************************************************)
(* The remote workers and their SlotMap (RemoteWorkers).                   *)
(***************************************************************************)

\* What a slot may hold.
Endpoints == [name : Workers \cup {"nobody"}, conn : ConnIds \cup {"none"}]
SlotRecords == [generation : Nat, value : Endpoints, nextFree : Nat]
Maps == [slots : Seq(SlotRecords), freeHead : Nat, count : Nat]

FreeSlots(m) == {i \in 1 .. Len(m.slots) : ~RW!Occupied(m.slots[i])}
UsedSlots(m) == {i \in 1 .. Len(m.slots) : RW!Occupied(m.slots[i])}

\* list is the free list of m, from free_head_ to its end, without a repetition.
Chain(m, list) ==
    /\ list \in Seq(1 .. Len(m.slots))
    /\ \A i, j \in 1 .. Len(list) : list[i] = list[j] => i = j
    /\ m.freeHead = IF list = <<>> THEN 0 ELSE list[1]
    /\ \A i \in 1 .. Len(list) :
         m.slots[list[i]].nextFree = IF i = Len(list) THEN 0 ELSE list[i + 1]

Listed(list) == {list[i] : i \in 1 .. Len(list)}

\* The map m, of whose slots those in lo are on no list.
MapInv(m, lo) ==
    /\ m \in Maps
    /\ lo \subseteq FreeSlots(m)
    /\ m.count = Cardinality(UsedSlots(m))
    /\ \E list \in Seq(1 .. Len(m.slots)) :
         Chain(m, list) /\ Listed(list) = FreeSlots(m) \ lo

Freed(s, i, v, f) ==
    [s EXCEPT ![i].generation = @ + 1, ![i].value = v, ![i].nextFree = f]

\* A slot gets another value.
NewValue(m, i, v) == [m EXCEPT !.slots[i].value = v]

Keys == [index : Nat, generation : Nat]

\* The worker w has the key, e is the endpoint last associated with it, and gn
\* are the workers whose slot was erased.
Known(m, key, e, w, gn) ==
    IF key = RW!NoKey THEN e = RW!NoWorker /\ w \notin gn
    ELSE /\ key.index \in 1 .. Len(m.slots)
         /\ key.generation % 2 = 0
         /\ key.generation <= m.slots[key.index].generation
         /\ key.generation = m.slots[key.index].generation =>
              m.slots[key.index].value = e /\ w \notin gn
         /\ key.generation # m.slots[key.index].generation =>
              e = RW!NoWorker /\ w \in gn

TableInv ==
    \A w \in Workers :
      /\ Known(sm, slotOf[w], latest[w], w, gone)
      /\ \A v \in Workers : v # w /\ slotOf[w] # RW!NoKey => slotOf[v] # slotOf[w]

WorkersInv ==
    /\ MapInv(sm, lost)
    /\ slotOf \in [Workers -> Keys]
    /\ latest \in [Workers -> Endpoints]
    /\ cleared \/ TableInv

-----------------------------------------------------------------------------
(***************************************************************************)
(* The tables of the dispatcher (RpcDispatch).                             *)
(***************************************************************************)

\* A registered function, or nothing, and what the tables say of it.
Entry(id) ==
    /\ attempts[id] \in Nat
    /\ fns[id] # RD!Nothing => fns[id] \in MCFunctions
    /\ attempts[id] = 0 => fns[id] = RD!Nothing
    /\ fns[id] = RD!Nothing =>
         sigs[id] = RD!Nothing /\ handlers[id] = "unregistered" /\ id \notin orphans
    /\ RD!Clean(id) =>
         /\ sigs[id] = RD!MakeRpcSignature(fns[id])
         /\ handlers[id] = RD!PayloadFinder(fns[id].args)

DispatchInv ==
    /\ kind \in {"sync", "async"}
    /\ DOMAIN fns = FnIds /\ DOMAIN sigs = FnIds
    /\ DOMAIN handlers = FnIds /\ DOMAIN attempts = FnIds
    /\ fns = [i \in FnIds |-> fns[i]] /\ sigs = [i \in FnIds |-> sigs[i]]
    /\ handlers = [i \in FnIds |-> handlers[i]]
    /\ attempts = [i \in FnIds |-> attempts[i]]
    /\ \A id \in FnIds : Entry(id)

-----------------------------------------------------------------------------
(***************************************************************************)
(* The file streams (FileStreams).                                         *)
(***************************************************************************)

Bytes == [1 .. BufSize -> Nat]
Writes == [op : {"write"}, off : Nat, size : 1 .. BufSize]
OutStates == {"idle", "chunk", "flushing", "closing", "destroyed", "failed"}
OutRecords ==
    [at : OutStates, data : [0 .. 1 -> Bytes], future : [0 .. 1 -> Writes \cup {FS!Idle}],
     active : 0 .. 1, span : 0 .. BufSize, byteCount : Nat, offset : Nat]

\* Write w of the bytes in d is under way: it is the last one, of the bytes up
\* to offset, and the file has those before.
UnderWay(o, w, d, f, s) ==
    /\ w.off + w.size = o.offset
    /\ \A i \in 1 .. w.size : d[i] = w.off + i
    /\ ~s => f = FS!Upto(w.off)

\* The output stream o has been given the bytes 1 .. p; f is the file, s says
\* whether a transfer was short.  One write at most is under way, never of the
\* buffer that the client fills.
Writing(o, f, p, s) ==
    /\ o.byteCount + (BufSize - o.span) = p
    /\ o.at \in {"idle", "chunk"} => o.offset = o.byteCount /\ o.future[o.active] = FS!Idle
    /\ o.at \notin {"idle", "chunk"} => o.offset = p
    /\ \A i \in 1 .. BufSize - o.span : o.data[o.active][i] = o.byteCount + i
    /\ o.future[0] = FS!Idle \/ o.future[1] = FS!Idle
    /\ \A b \in 0 .. 1 :
         o.future[b] # FS!Idle =>
           o.at # "destroyed" /\ UnderWay(o, o.future[b], o.data[b], f, s)
    /\ (\A b \in 0 .. 1 : o.future[b] = FS!Idle) /\ ~s => f = FS!Upto(o.offset)

Writer(o, f, p, s) ==
    /\ o \in OutRecords /\ p \in Nat /\ f \in Seq(Nat) /\ s \in BOOLEAN
    /\ o.at # "failed" => Writing(o, f, p, s)

Reads == [op : {"read"}, off : Nat]
Dones == [op : {"done"}, n : 0 .. BufSize]
InStates == {"unborn", "idle", "chunk", "switched", "eof", "failed"}
InRecords ==
    [at : InStates, data : [0 .. 1 -> Bytes],
     future : [0 .. 1 -> Reads \cup Dones \cup {FS!Idle}],
     len : [0 .. 1 -> 0 .. BufSize], pos : [0 .. 1 -> 0 .. BufSize],
     active : 0 .. 1, chunk : Nat, skip : Nat, byteCount : Nat, offset : Nat]

\* The n bytes in d are those of the file f from base on, and all that fit
\* unless a transfer was short.
Holds(d, n, base, f, s) ==
    /\ n > 0 => base + n <= Len(f)
    /\ \A j \in 1 .. n : d[j] = f[base + j]
    /\ ~s /\ n < BufSize => base + n >= Len(f)

\* The buffer d is being read from base on, or has been.
Fetched(w, d, base, f, s) ==
    /\ w.op = "read" => w.off = base
    /\ w.op = "done" => Holds(d, w.n, base, f, s)

\* The active buffer is that of the file from base on, and the next is the
\* other one's; c are the bytes that the client got.
Ahead(i, base, f, c, s) ==
    /\ i.offset = base + 2 * BufSize
    /\ i.future[1 - i.active] # FS!Idle
    /\ Fetched(i.future[1 - i.active], i.data[1 - i.active], base + BufSize, f, s)

\* What the client has of the active buffer, once it was waited for.
Current(i, base, f, c, s) ==
    /\ i.future[i.active] = FS!Idle
    /\ Holds(i.data[i.active], i.len[i.active], base, f, s)
    /\ i.pos[i.active] <= i.len[i.active]
    /\ Len(c) + i.chunk = base + i.pos[i.active]

\* The input stream reads the file f, of which the client has c.
Reading(i, base, f, c, s) ==
    /\ Ahead(i, base, f, c, s)
    /\ \/ /\ i.at \in {"idle", "switched"}
          /\ i.future[i.active] # FS!Idle
          /\ Fetched(i.future[i.active], i.data[i.active], base, f, s)
          /\ Len(c) = base
       \/ /\ i.at \in {"idle", "chunk", "eof"}
          /\ Current(i, base, f, c, s)
    /\ i.at = "chunk" => i.pos[i.active] = i.len[i.active] /\ i.chunk <= i.len[i.active]

Reader(i, f, c, s) ==
    /\ i \in InRecords /\ f \in Seq(Nat) /\ c \in Seq(Nat) /\ s \in BOOLEAN
    /\ i.byteCount = Len(c) + i.chunk
    /\ Len(c) <= Len(f) /\ \A k \in 1 .. Len(c) : c[k] = f[k]
    /\ i.at # "chunk" => i.chunk = 0
    /\ i.at = "unborn" =>
         c = <<>> /\ i.offset = 0 /\ i.active = 0
    /\ i.at \in {"unborn", "failed"} => \A b \in 0 .. 1 : i.future[b] = FS!Idle
    /\ i.at \notin {"unborn", "failed"} => \E base \in Nat : Reading(i, base, f, c, s)
    /\ i.at = "eof" /\ ~s => Len(c) = Len(f)

\* What the client has after n more bytes of the buffer d, and what it holds.
Kept(c, d, first, n) == c \o SubSeq(d, first + 1, first + n)
Joined(r, c, d, first, n) ==
    /\ r \in Seq(Nat) /\ Len(r) = Len(c) + n
    /\ \A k \in 1 .. Len(c) : r[k] = c[k]
    /\ \A j \in 1 .. n : r[Len(c) + j] = d[first + j]
Prefix(c, f) == Len(c) <= Len(f) /\ \A k \in 1 .. Len(c) : c[k] = f[k]
Copies(d, l, base, f) ==
    /\ l > 0 => base + l <= Len(f)
    /\ \A j \in 1 .. l : d[j] = f[base + j]

\* The reader opens the file once the writer is gone.
FilesInv ==
    /\ Writer(out, file, produced, short)
    /\ Reader(in, file, consumed, short)
    /\ in.at # "unborn" => out.at = "destroyed"

-----------------------------------------------------------------------------
(***************************************************************************)
(* The memory of messages (MessageMemory): where a block is and who        *)
(* frees it.                                                               *)
(***************************************************************************)

Places == Blocks \cup {MM!Null}
Backings == [block : Places, own : BOOLEAN, fn : BOOLEAN]
Kinds == {"buffer", "header", "vec", "amdata", "iovec"}
Wrappers ==
    [kind : Kinds, hdr : Places, arr : Places, bufs : Seq(Places),
     ownHdr : BOOLEAN, own : BOOLEAN, fn : BOOLEAN, backing : Backings]

\* The reasons for which the destructor of w frees block c.
InBufs(w, c) == \E i \in DOMAIN w.bufs : w.bufs[i] = c
OwnsData(w, c) == w.kind # "header" /\ w.own /\ InBufs(w, c)
OwnsHeader(w, c) == w.kind \in {"header", "amdata", "iovec"} /\ w.ownHdr /\ w.hdr = c
OwnsBacking(w, c) == w.kind = "vec" /\ w.backing.own /\ w.backing.block = c
OwnsArray(w, c) == w.kind = "iovec" /\ w.own /\ w.arr = c

\* w frees c, and always in the way of h.
Frees(R, c) == \E r \in R : r[1] = c
InWay(R, c, h) == \A r \in R : r[1] = c => r[2] = h
Claims(w, c) == Frees(MM!Releases(w), c)
Knows(w, c, h) == InWay(MM!Releases(w), c, h)

\* What the wrappers' code keeps true of each of them.
Tidy(w) ==
    /\ w.kind = "buffer" => Len(w.bufs) <= 1
    /\ w.kind = "header" => ~w.own
    /\ w.kind # "iovec" => w.arr = MM!Null
    /\ w.kind = "iovec" => ~w.ownHdr
    /\ w.kind = "vec" /\ w.own => ~w.backing.own
    /\ w.kind = "amdata" /\ w.own /\ w.ownHdr =>
         \A c \in Blocks : ~(w.hdr = c /\ InBufs(w, c))
Object(w) == w = MM!NoObject \/ (w \in Wrappers /\ Tidy(w))

\* A vector that owns its buffers has block c among them once.
OnceIn(w, c) ==
    w.kind = "vec" /\ w.own =>
      \A i, j \in DOMAIN w.bufs : w.bufs[i] = c /\ w.bufs[j] = c => i = j

Descriptors ==
    [hdr : Blocks, data : Blocks, attr : {"copied", "data", "rndv"}]
Tag(attr) == IF attr = "copied" THEN "mr" ELSE "ucx"
Waits == context.queue # <<>>

\* Block c is at the place (k, x), nowhere else, and whoever frees it from
\* there knows how.
Spot(c, k, x) ==
    /\ k \in {"object", "user", "leaked", "hdr", "data", "map", "none"}
    /\ \A o \in Objs : Claims(objs[o], c) <=> k = "object" /\ x = o
    /\ c \in users <=> k = "user"
    /\ c \in leaked <=> k = "leaked"
    /\ Waits /\ context.queue[1].hdr = c <=> k = "hdr"
    /\ Waits /\ context.queue[1].data = c <=> k = "data"
    /\ \A d \in context.map : d.data = c <=> k = "map" /\ x = d
    /\ k = "object" => x \in Objs /\ Knows(objs[x], c, heap[c])
    /\ k = "map" => x \in context.map /\ heap[c] = "ucx"
    /\ k = "hdr" => heap[c] = "mr"
    /\ k = "data" => heap[c] = Tag(context.queue[1].attr)
    /\ heap[c] \in {"mr", "ucx"} <=> k # "none"
    /\ c \notin wrong

Heaps == [Blocks -> {"unused", "mr", "ucx", "freed"}]
Contexts ==
    [queue : {<<>>} \cup {<<d>> : d \in Descriptors},
     map : SUBSET Descriptors, alive : BOOLEAN]

MemoryTypes ==
    /\ heap \in Heaps
    /\ DOMAIN objs = Objs
    /\ \A o \in Objs : Object(objs[o])
    /\ context \in Contexts

Singly ==
    \A c \in Blocks \ twice :
       /\ \E k, x : Spot(c, k, x)
       /\ \A o \in Objs : OnceIn(objs[o], c)

MemoryInv == MemoryTypes /\ Singly

\* What a set of blocks that are freed in the way y says of c.
Pairs(S, y) == {<<b, y>> : b \in S}

Spotted(c) == \E k, x : Spot(c, k, x)

\* Neither the context nor anybody else but objects and callers has c.
Unlisted(c) ==
    /\ c \notin leaked
    /\ Waits => context.queue[1].hdr # c /\ context.queue[1].data # c
    /\ \A d \in context.map : d.data # c
Unclaimed(c) == \A y \in Objs : ~Claims(objs[y], c)
Live(c) == heap[c] \in {"mr", "ucx"}

\* Nothing happens to c.
Same(c) ==
    /\ heap'[c] = heap[c]
    /\ c \in users' <=> c \in users
    /\ c \in leaked' <=> c \in leaked
    /\ c \in wrong' <=> c \in wrong

\* All that Unlisted says but for leaked.
Offlist(c) ==
    /\ Waits => context.queue[1].hdr # c /\ context.queue[1].data # c
    /\ \A d \in context.map : d.data # c

\* What may become of a block when an object is made.
Fate(w, c) ==
    /\ OnceIn(w, c)
    /\ c \in wrong' <=> c \in wrong
    /\ \/ ~Claims(w, c) /\ Same(c)
       \/ /\ Claims(w, c) /\ Knows(w, c, heap'[c])
          /\ heap[c] = "unused" /\ Live(c)'
          /\ (c \in users' <=> c \in users) /\ (c \in leaked' <=> c \in leaked)
       \/ /\ Claims(w, c) /\ Knows(w, c, heap[c]) /\ heap'[c] = heap[c]
          /\ c \in users /\ c \notin users' /\ (c \in leaked' <=> c \in leaked)
       \/ /\ ~Claims(w, c) /\ heap[c] = "unused" /\ Live(c)'
          /\ c \in users' /\ (c \in leaked' <=> c \in leaked)
       \/ /\ ~Claims(w, c) /\ heap[c] = "unused" /\ Live(c)'
          /\ (c \in users' <=> c \in users) /\ c \in leaked'

\* c is in the sequence; at one place.
Among(bs, c) == \E i \in DOMAIN bs : bs[i] = c
Sole(bs, c) == \A i, j \in DOMAIN bs : bs[i] = c /\ bs[j] = c => i = j
Apart(hdr, bs) == \A c \in Blocks : ~(hdr = c /\ Among(bs, c))

\* What becomes of a block when objects o and p become u and v.
Shift(o, p, u, v, c) ==
    /\ OnceIn(u, c) /\ OnceIn(v, c)
    /\ c \in wrong' <=> c \in wrong
    /\ \/ /\ ~Claims(objs[o], c) /\ ~Claims(objs[p], c)
          /\ ~Claims(u, c) /\ ~Claims(v, c) /\ Same(c)
       \/ /\ Claims(objs[o], c) \/ Claims(objs[p], c)
          /\ \/ /\ Same(c) /\ (Claims(u, c) <=> ~Claims(v, c))
                /\ Claims(u, c) => Knows(u, c, heap[c])
                /\ Claims(v, c) => Knows(v, c, heap[c])
             \/ /\ ~Claims(u, c) /\ ~Claims(v, c)
                /\ \/ /\ heap'[c] = heap[c] /\ c \in users'
                      /\ c \in leaked' <=> c \in leaked
                   \/ /\ heap'[c] = heap[c] /\ c \in leaked'
                      /\ c \in users' <=> c \in users
                   \/ /\ heap'[c] = "freed"
                      /\ c \in users' <=> c \in users
                      /\ c \in leaked' <=> c \in leaked

\* v is w but for the ownership of the data and for the backing of a vector.
Keeps(w, v) ==
    /\ v \in Wrappers
    /\ v.kind = w.kind /\ v.hdr = w.hdr /\ v.arr = w.arr /\ v.bufs = w.bufs
    /\ (v.ownHdr <=> w.ownHdr) /\ v.fn = w.fn
    /\ v.own => w.own
    /\ v.kind = "vec" => ~v.backing.own

\* What becomes of a block when an object that was z is assigned to.
Loss(z, c) ==
    /\ c \in wrong' <=> c \in wrong
    /\ ~Claims(z, c) => heap'[c] = heap[c] /\ (c \in leaked' <=> c \in leaked)
    /\ Claims(z, c) =>
         \/ heap'[c] = "freed" /\ (c \in leaked' <=> c \in leaked)
         \/ heap'[c] = heap[c] /\ c \in leaked'

\* Objects pass block c on among themselves, if at all.
Passed(c) ==
    \/ Unclaimed(c) /\ Unclaimed(c)'
    \/ \E o, p \in Objs : /\ Claims(objs[o], c)
                          /\ \A y \in Objs : Claims(objs'[y], c) <=> y = p
                          /\ Knows(objs'[p], c, heap[c])

AtHdr(c) == Waits /\ context.queue[1].hdr = c
AtData(c) == Waits /\ context.queue[1].data = c
AtMap(d, c) == d \in context.map /\ d.data = c

\* The context neither gets nor gives c away.
StillListed(c) ==
    /\ AtHdr(c)' <=> AtHdr(c)
    /\ AtData(c)' <=> AtData(c)
    /\ AtData(c) => context'.queue[1].attr = context.queue[1].attr
    /\ \A d : d \in context'.map /\ d.data = c <=> d \in context.map /\ d.data = c

-----------------------------------------------------------------------------
(***************************************************************************)
(* The queue, as one thread uses it (LockFreeQueue): which number each node *)
(* has, and what the thread has read of it.                                *)
(***************************************************************************)

Threads == Pushers \cup Poppers
OneThread == \A t, u \in Threads : t = u

Addresses == Nodes \cup {LQ!Null}
NodeRecords == [alive : BOOLEAN, next : Addresses, value : Nat]
QueueRecords == [head : Nodes, tail : Nodes, node : [Nodes -> NodeRecords]]
ThreadRecords ==
    [at : {"idle", "loadTail", "loadNext", "checkTail", "link", "help", "swing",
           "popTail", "popNext", "popCheck", "popHelp", "popSwap"},
     head : Addresses, tail : Addresses, next : Addresses, new : Addresses]

\* Node c[i] holds the i-th value pushed, from the dummy, whose value was the
\* last that was popped, to the last value pushed.
Strung(c, node, lo, hi) ==
    /\ c \in [lo .. hi -> Nodes]
    /\ \A i, j \in lo .. hi : c[i] = c[j] => i = j
    /\ \A i \in lo .. hi : node[c[i]].alive /\ (i > lo => node[c[i]].value = i)
    /\ \A i \in lo .. hi : i < hi => node[c[i]].next = c[i + 1]
    /\ node[c[hi]].next = LQ!Null

\* tail_ may be one node behind.
Tailed(tail, c, lo, hi) == tail = c[hi] \/ (lo < hi /\ tail = c[hi - 1])

\* The node that is about to be linked.
Fresh(n, c, node, lo, hi) ==
    /\ n \in Nodes /\ node[n].alive /\ node[n].next = LQ!Null
    /\ node[n].value = hi + 1 /\ hi < MaxPushes
    /\ \A i \in lo .. hi : c[i] # n

\* What the thread has read is still so.
Local(r, c, head, tail, node, lo, hi) ==
    /\ r.at \in {"idle", "popTail", "popNext", "popCheck", "popHelp", "popSwap"} =>
         r.new = LQ!Null
    /\ r.at \in {"loadTail", "loadNext", "checkTail", "link", "help"} =>
         Fresh(r.new, c, node, lo, hi)
    /\ r.at \in {"loadNext", "checkTail", "link", "help", "swing"} => r.tail = tail
    /\ r.at \in {"checkTail", "link", "help"} => r.next = node[tail].next
    /\ r.at = "link" => r.next = LQ!Null
    /\ r.at = "help" => r.next # LQ!Null
    /\ r.at = "swing" => lo < hi /\ r.new = c[hi] /\ tail = c[hi - 1]
    /\ r.at \in {"popTail", "popNext", "popCheck", "popHelp", "popSwap"} => r.head = head
    /\ r.at \in {"popNext", "popCheck", "popHelp", "popSwap"} => r.tail = tail
    /\ r.at \in {"popCheck", "popHelp", "popSwap"} => r.next = node[head].next
    /\ r.at = "popSwap" => head # tail
    /\ r.at = "popHelp" => head = tail /\ r.next # LQ!Null

Counted(s, n) == s \in Seq(Nat) /\ Len(s) = n /\ \A i \in 1 .. n : s[i] = i

Queued(c, lo, hi) ==
    /\ lo \in Nat /\ hi \in Nat /\ lo <= hi /\ hi <= MaxPushes
    /\ Counted(pushed, hi) /\ Counted(popped, lo)
    /\ Strung(c, q.node, lo, hi)
    /\ q.head = c[lo] /\ Tailed(q.tail, c, lo, hi)
    /\ \A t \in Threads : Local(thr[t], c, q.head, q.tail, q.node, lo, hi)

QueueInv ==
    /\ ~touched
    /\ q \in QueueRecords
    /\ thr \in [Threads -> ThreadRecords]
    /\ \E lo, hi, c : Queued(c, lo, hi)

SameBut(to, node, x) == \A k \in Nodes : k # x => to[k] = node[k]
Linked(to, node, x, n) == to[x].alive /\ to[x].value = node[x].value /\ to[x].next = n
Longer(c, n, lo, hi) == [i \in lo .. hi + 1 |-> IF i = hi + 1 THEN n ELSE c[i]]
Shorter(c, lo, hi) == [i \in lo + 1 .. hi |-> c[i]]

-----------------------------------------------------------------------------
(***************************************************************************)
(* The requests that are saved and loaded (StoredMessages).                *)
(***************************************************************************)

\* A value of a type.
Fits(base, v) ==
    base \in DOMAIN ST!Ints =>
      v \in Int /\ ST!Cast(v, ST!Ints[base].size, ST!Ints[base].signed) = v

\* Records whose fields have the types a table gives them.
FieldsFit(fields, rec) ==
    /\ rec = [f \in DOMAIN fields |-> rec[f]]
    /\ \A f \in DOMAIN fields : Fits(fields[f], rec[f])

\* Lists of values.
IsList(s) == \E n \in Nat : s = [i \in 1 .. n |-> s[i]]

\* A parameter's contents have its type.
ParamFits(p) ==
    /\ p = [type |-> p.type, base |-> p.base, content |-> p.content]
    /\ p.type \in {"void", "primitive", "vector", "tensor", "tensorVec"}
    /\ p.type = "void" => p.content = "null"
    /\ p.type = "primitive" => Fits(p.base, p.content)
    /\ p.type = "vector" => IsList(p.content)
         /\ \A i \in DOMAIN p.content : Fits(p.base, p.content[i])
    /\ p.type = "tensor" => FieldsFit(ST!TensorFields, p.content)
    /\ p.type = "tensorVec" => IsList(p.content)
         /\ \A i \in DOMAIN p.content : FieldsFit(ST!TensorFields, p.content[i])

Blank(p) == [p EXCEPT !.content = "null"]

\* The memory a payload is in.
Placed(pl) ==
    /\ pl = [kind |-> pl.kind, parts |-> pl.parts, mem |-> pl.mem]
    /\ pl.mem = "none" <=> pl.kind = "none"

\* A message as its constructor makes it.
MessageFits(m) ==
    /\ m = ST!AxonMessage(m.header, m.params, m.payload)
    /\ FieldsFit(ST!HeaderFields, m.header)
    /\ IsList(m.params) /\ \A i \in DOMAIN m.params : ParamFits(m.params[i])
    /\ Placed(m.payload)

Headed(id) == [f \in DOMAIN ST!HeaderFields |->
                 ST!Cast(id, ST!Ints[ST!HeaderFields[f]].size, FALSE)]

\* The constructor's message, on the host or not.
Messaged(s, id, mem) ==
    ST!AxonMessage(Headed(id), s.params,
                   [kind |-> s.payload.kind, parts |-> s.payload.parts,
                    mem |-> IF s.payload.kind = "none" THEN "none" ELSE mem])

\* Every tensor a message describes is in its payload.
Described(params, parts) ==
    \/ ST!TensorParams(params) = {}
    \/ \E i \in DOMAIN params :
         /\ i # 0 /\ ST!TensorParams(params) = {i} /\ Len(parts) \in Nat
         /\ params[i].type = "tensor" => 1 <= Len(parts)
         /\ params[i].type # "tensor" =>
              Len(params[i].content) \in Nat /\ Len(params[i].content) <= Len(parts)

ShapeFits(s) ==
    /\ IsList(s.params) /\ \A i \in DOMAIN s.params : ParamFits(s.params[i])
    /\ Described(s.params, s.payload.parts)

\* What a file's records are made of.
Written(s) == [i \in DOMAIN s |-> ST!Serialize(s[i])]

StorageInv ==
    /\ incoming \in ST!Incoming
    /\ arrival \in Seq(ST!Incoming)
    /\ saved \in [Names -> Seq(ST!Incoming)]
    /\ DOMAIN files = Names
    /\ \A n \in Names : files[n] # ST!NoFile => files[n].records = Written(saved[n])

=============================================================================
