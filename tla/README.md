# A TLA+ development for execution-ucx

execution-ucx is a C++20 RPC system. `ucx_context` is an execution context (in
the style of unifex's io_uring context) that runs UCX active-message I/O on one
thread; `axon` is an RPC worker (client and server in one object) built on it,
with storage for requests and a Python binding; `rpc_core` has the types of
requests and responses and their dispatch. This directory holds a model of the
parts whose correctness depends on the order in which threads, callbacks,
messages and calls act, the TLC configurations that check them on small
instances, and theorems for every value of the constants: each safety invariant
and action property that a passing run checks is also proved.
`PROJECT.json` relates every definition to the lines it models and lists runs,
mutants, findings, hazards and theorems.

## 1. Inventory

| Component | State | Operations | Interacts with | Hard because | Module |
|---|---|---|---|---|---|
| Run loop of `ucx_am_context` | `localQueue_`, `remoteQueue_`, `pendingIoQueue_`, `pendingRecvIoQueue_`, ring `cqEntries_` with `cqHead_`/`cqTail_`, `sqUnflushedCount_`, `cqPendingCount_`, `remoteQueueReadSubmitted_`, `remoteQueueEventEntry_` | `run_impl`, `schedule_*`, registration and signalling of the remote queue, acquisition of completions, receive of messages | producers on any thread; UCX callbacks on the loop's thread | producers write the ring; counters must be exact for ever | EventLoop, TaskLanes |
| Operation senders and cancellation | an operation's result, `request_`, `cancel_flag_`, `refCount_`, stop callback | `start_io`, `on_*_complete`, `request_stop` of send, recv, recv_header, recv_buffer, connect, accept | run loop, UCX requests | cancellation from another thread in every phase | OperationCancel |
| Timers of `ucx_am_context` | `timers_`, `currentDueTime_`, `timersAreDirty_`, `activeTimerCount_`, POSIX timer | `schedule_at`, `update_timers`, `remove_timer`, signal handler | ring and counters above; other threads' stop requests | a signal handler changes the ring between any two instructions; slots of cancelled timers | Timers |
| ConnectionManager, UcxConnection | `connections_`, `freeSlots_`, active and inactive maps, disconnecting and failed lists; endpoint and requests | add, fail, progress the lists, clear; establish, close, error callback; reconnection; destructor | UCX endpoint callbacks, the loop | UCX calls back in the middle of walking the lists; ids are addresses that are used again | Connections |
| Accept stream | `ucpListener_`, `epConnReqQueue_` | `next`, `cleanup`, `listen`, connect request callback | accept operations | requests that arrive while it is cleaned up | Listener |
| Memory of messages | owners of headers, buffers, vectors and descriptors | construct, adopt, move, assign, convert, destroy; receive, cancel, release | context's queue and map of descriptors | ownership flags move with every assignment and with the outcome of a receive | MessageMemory |
| LockFreeQueue | linked nodes, `head_`, `tail_` | push, pop, empty, size | ConnectionManager (one thread) | reclamation of the old head | LockFreeQueue |
| Pending calls of the client | `RingBuffer` of handlers, `size_` | registration in `InvokeRpc`, response, deadline, cancellation, `StopClient` | caller threads, client context, time context | three threads use a slot without a lock | PendingRpc |
| Answers to the client | `ClientCtxLoop_`, `amDescMap_`, memory policy | response eager or by rendezvous, receive into the buffers asked for, `StartClient`, `StopClient` | dispatcher's results, `recv_buffer` | two paths must give the caller the same | ClientResponses |
| Server of the worker | running and stopped flags, loop, scope, thread; `storage_`, `request_id_to_iterator_` | `StartServer`, `StopServer`, pipeline with back-pressure, deadline and life-cycle policy, stored requests | dispatcher, pool, contexts, user threads | answers exactly once under deadline and stop; identifiers that come again | ServerRequests |
| Remote workers and SlotMap | slots with generations, free list; names to keys | connect, associate, announce signatures, look up; emplace, erase, clear | callers keep keys | slots are used again, keys are kept | RemoteWorkers |
| RPC dispatcher | functions, signatures, the worker's handlers | register (typed, dynamic, synchronous, asynchronous), validate, dispatch, pack results | server pipeline, client's validation | three tables that registration changes one after the other | RpcDispatch |
| HybridLogicalClock, the worker's `hlc_` | one 64-bit word | `Merge`, `TickLocal` | every thread of the worker; clocks in headers | a plain word on several threads; counter of 16 bits | HybridLogicalClock, WorkerClock |
| File streams | two buffers, futures, offsets | `Next`, `Backup`, `Flush`, `Skip`, destruction | io_uring | buffers in flight while the other is used | FileStreams |
| AxonStorage, AxonMessage, avro format | `arrival_requests_`, files | emplace, erase, save, load, conversion | server's stored requests | signed storage of unsigned numbers; names that repeat | StoredMessages |
| PythonWakeManager | task queue, eventfd, `reader_ref_count_`, reader flag | enqueue, `ProcessQueue`, `ClearQueue`, register, unregister | asyncio loops, the GIL | edge-triggered wakeup, GIL given up in the middle | PythonWake |
| AxonRuntime; CUDA and memory resources; Python value conversion; metrics, errors, hashes | values, handles | forwarding, allocation, formatting | - | no protocol of their own | not modelled |

What makes them correct:

* *Run loop*: every operation handed to the context is started, once, in the
  order in which its lane received it; the two counters equal what they count,
  because admission of all further I/O depends on them.
* *Operations*: an operation is linked in at most one queue, is out of all of them
  when its receiver is called (the receiver frees it), and a request in flight
  keeps its slot in the ring; a connection that a connect has made is given to its
  receiver or closed.
* *Timers*: a timer elapses or is removed, not both, not before its time, and
  the loop is woken for it.
* *Connections*: a slot is free or has one connection; an id leads to the live
  connection with that endpoint; a request's callback is called once; the
  destructor ends and leaves nothing.
* *Accept stream*: every connection request is handed out or rejected.
* *Memory*: a block has one owner and is freed once, the way it was allocated.
* *Pending calls and answers*: a call's handler is called exactly once and for its
  own call; a registered call completes, by its deadline if nothing else; the
  data of an answer arrives whole on either path.
* *Server*: a request is answered, once; a stored request is found until it is
  erased; `StopServer` returns when nothing runs any more.
* *Remote workers, dispatcher*: a call reaches the worker and the function it
  names, with the parameters and payload that the announced signature says.
* *Clock*: what the worker stamps on a message is later than everything it has
  received (the happened-before order of the RPC causality tests).
* *Storage*: what is loaded is what was saved.
* *Python wakeups*: a task that was enqueued is run, once, as long as some
  component is started; tasks are discarded only when none is.

`PROJECT.json`, "hazards", lists at which line each hard behaviour bites and the
property that would see it go wrong.

## 2. Modules

| Module | Role |
|---|---|
| `TaskLanes` | abstract specification: lanes of tasks, each handed out once, in order |
| `EventLoop`, `MCEventLoop` | the run loop, its producers and receives; refines `TaskLanes` |
| `EventLoopProofs` | inductive invariant of `EventLoop`, its theorems, the steps of the refinement |
| `OperationCancel`, `MCOperationCancel` | the senders' operations with their cancellation; symmetry |
| `OperationCancelProofs` | inductive invariant of `OperationCancel` and its theorems; counting in sequences |
| `Timers`, `MCTimers` | `schedule_at`, `timers_`, the POSIX timer and its handler |
| `TimersProofs` | inductive invariant of `Timers` and its theorems; induction on sequences |
| `Connections`, `MCConnections` | ConnectionManager, UcxConnection, destruction of the context |
| `ConnectionsProofs` | inductive invariant of `Connections` and its theorems |
| `PendingRpc`, `MCPendingRpc` | pending calls of the client; constraints |
| `PendingRpcProofs` | inductive invariant of `PendingRpc` and its theorems |
| `ServerRequests`, `MCServerRequests` | the server of AxonWorker and its stored requests |
| `ServerRequestsProofs` | inductive invariant of `ServerRequests` and its theorems |
| `PythonWake`, `MCPythonWake` | PythonWakeManager with threads, asyncio and the GIL |
| `PythonWakeProofs` | inductive invariant of `PythonWake` and its theorems |
| `HybridLogicalClock` | clocks as records, `Merge`, `TickLocal` |
| `WorkerClock` | the worker's threads that read and write `hlc_` |
| `RemoteWorkers` | SlotMap and the table of workers |
| `LockFreeQueue` | the queue, one step per atomic access |
| `RpcDispatch` | the two dispatchers, request and response builders, the worker's registration |
| `MessageMemory` | owners of the memory of messages |
| `Listener` | accept_connection and the listener |
| `FileStreams` | the two io_uring streams |
| `StoredMessages` | AxonStorage, avro conversion, AxonMessage |
| `ClientResponses` | the client's loop and what becomes of an answer |
| `MCParts` | runs the last eight and `WorkerClock`, each by itself |
| `PartsInvariants` | an inductive invariant for each of these nine, in named parts |
| `PartsProofs` | that they are inductive, and the theorems that follow |

`MCParts` is not a composition: its first state picks a part and only that part
moves, so that its state graph is the disjoint union of the parts' graphs, and
a property speaks of the states of its own part. The parts have few states each
and no fairness; one run saves the start of nine. A theorem about a part is stated
of `MCParts`' specification, so that it names the property the run checks; its
proof uses only that the part's variables change by the part's own steps.

How the modules meet: `EventLoop` gives every other module on the I/O thread its
turns, which `OperationCancel`, `Timers` and `Connections` take as "the loop
runs the next ready operation". Each of these models again the ring's counters
as far as it uses them. `PendingRpc` decides who gets a call's handler,
`ClientResponses` what the handler does. `ServerRequests` takes storage as a set
and dispatch as a function that returns or fails; `StoredMessages` and
`RpcDispatch` have their insides.

### EventLoop

One process is the I/O thread; `pc` is where it is in `run_impl`, and one action
is the code between two points at which another thread's step can matter: each
access to `remoteQueue_`, `remoteQueueEventEntry_`, `cqTail_`. Each producer has
a program counter of its own for `schedule_remote` and `signal_remote_queue`,
with the load and the store of `cqTail_` as separate steps. Queues are sequences
of operation names; `remoteQueue_` is a sequence and a mark, as unifex's
`atomic_intrusive_queue` is an inactive marker or a list. A message is a record
of whether it is eager and, for a rendezvous message, when UCX finishes it
(immediately or through `RequestCallback`).

Abstractions: an eager message's receiver runs between the two updates of
`sqUnflushedCount_` (`ucx_am_context.hpp:1291-1293`), and what it submits there may
exceed the ring's limit by one; here the receive is one step and what its receiver
submits comes after. The ring is indexed with `%` where the code uses a power-of-two
mask; `cqHead_` and `cqTail_` do not wrap at 2^32 (the code only uses their
difference and their remainder, both of which the wrap preserves for a ring whose
size is a power of two); `remoteQueueEventEntry_` starts as false, because C++20
value-initialises `std::atomic`. Memory order is sequential consistency. Stores
on one variable by two threads are interleaved, not torn into bytes.

Two history variables record the two races of the code: `torn` (a load/store of
`cqTail_` overlapped another thread's) and `lateReset` (a producer cleared the
flag of a registration that is not the one it signalled). The invariants say
what holds before the race concerned has happened; the run `lost_wakeup` shows
what the second does.

The refinement of `TaskLanes` maps a lane to the set of its operations that are
queued and not started (`Unstarted`), and the order of joining to the pairs of one
lane that stand in that order in the batch under way, `localQueue_` and
`remoteQueue_`, one after the other (`InOrder(Backlog)`). Pairs instead of
sequences keep the mapping free of selection from a sequence, about which the
provers know nothing; they say the same, since the operations are distinct.

### OperationCancel

Each operation has its sender's kind, chosen in `Init`, and two intrusive nodes:
`Op(o)`, the operation, and `Cop(o)`, its `cancel_operation`. Queues and ring
entries hold nodes. The I/O thread takes a node, and the action that follows is
the whole handler its `execute_` points at; only `start_io` is two actions
(`TrySetupStartIo` registers the stop callback, `TrySubmitIo` submits), because a
stop request may come between them. A stop request of another thread is one step
per atomic access (`onPending_`, the exchange on `refCount_`, `cancel_flag_`, the
remote queue); one on the I/O thread is a single step, from a task or from inside
the registration of the callback.

UCX's requests are a pool: `request_` of an operation may name a request that was
given back and taken by another operation, as the pointer in the code may. A
request reports through a ring entry or directly. The model goes to `crashed`, and
stutters there, when the loop is about to run a node whose receiver has already
been called.

Abstractions: the wakeup of the remote queue (EventLoop's subject: here the loop
takes it every time round); `destruct()` of the stop callback does not wait, a
callback that is still running finds `refCount_` = 0 afterwards; results and
status codes are left out except for what decides the path; `cqPendingCount_` is
the number of entries in the ring and the limits of `sqUnflushedCount_` and of the
ring are the same constant, as in the code; whether the connection of a send is
still valid when it is stopped is a choice.

### PendingRpc

A slot of the ring is empty or holds a call; a call is at its caller (allocated,
sending, registering), and has a response, a deadline and a cancellation that
three threads process. The code takes no lock, so every access to a slot's state,
session or value and to `size_` is a step: `emplace` (the compare-and-swap, which
may fail for no reason; the comparison of the session of an occupied slot; the
write of the new value), `find` (state, then session), `at`, `erase`. A slot is
used again as soon as it is empty, by any later call whose id is the same
`% Size`, also of the same session, while responses and deadlines of earlier calls
are still to come; `replaced` records the calls whose handler a later one has
overwritten. `raced` records that two threads were inside one slot at once: one
acts on what it has read there while another is between its first and last access,
or after the slot was erased.

### PythonWake

`Loops` are Python threads with an asyncio loop, on which any number of components
is started (a server and a client register on one loop); a thread
holds the GIL in the steps that `HoldsGil` names, and may give it up while a
task's Python code runs. `eventfd` is readable or not. Components are started
and stopped in balance (what the binding does). `RegisterAsyncioReader`
fails before or after the count is incremented; a component whose registration
failed is started without a reader, as the binding ignores the result.
The eventfd, asyncio's `add_reader`, unifex's queue and the GIL are external and
modelled from their use. A failing read of the eventfd in `ProcessQueue`
(`python_wake_manager.cpp:87-89`) cannot happen on the non-blocking descriptor of
this process other than by finding nothing to read, and its exception is left out.

### WorkerClock

`hlc_` is one variable; each thread that updates it loads, computes `Merge` or
`TickLocal`, and stores. The clocks in headers are arbitrary (a peer may send
any), the wall clock is read anew at each update and may go back. The physical
part is assumed to fit its 48 bits; the logical counter has `LogicalRange`
values and wraps as the code's mask does. `raced` and `wrapped` record an overlap
of two updates and a wrap. Replies of success carry no `hlc_` of the worker and
are left out.

### Timers

The I/O thread goes round the ready queue, the ring, `update_timers` and the
remote queue. `state_`'s two flags, the stop callback's registration and its
destruction are separate steps, so that a stop request from another thread falls
between any two. The POSIX timer is armed for a due time; its expiry starts the
handler, which loads the counters in one step and stores them in another
(`torn` ends the behaviour when they changed in between: EventLoop has that
race). `timerId_` 0 is the id of a process's first timer and also what the code
takes for "no timer"; after `timer_delete` every `timer_settime` fails, and the
failure posts an entry at once: both are modelled as they are. History fields
`leaked` and `doubled` record the slots that cancellation keeps and a timer for
which both the handler and the cancellation posted an entry.
`activeTimerCount_` is modulo `CounterRange`.

### Connections

All code runs on the I/O thread; `pc` is where it is, and `Progressing` names
the points at which it calls `ucp_worker_progress`, where UCX may complete a
request, fail an endpoint, deliver the first message of an unknown peer or ask
for a connection: this re-entrance is the subject. An id is an endpoint's
address and is used again after a close. An endpoint that has failed or is
closed delivers no message and reports at most one error (UCX's contract in
error mode PEER). Assertions are taken as compiled out. A failed reconnection
ends the process, as `value()` of an empty optional in a `noexcept` function
does (`RecreateFails`). `remove_active_connections_to_disconnecting_queue` does
not return slots to `freeSlots_`; only the destructor calls it, so nothing
reuses them. `remove_connection`, `get_connection_by_slot` and
`is_in_disconnecting` have no caller and are left out.

### ServerRequests

A request goes through the loop, the pool, the context's thread for a rendezvous
receive, its function and its answer; a deadline and `StopServer` act on it from
outside, in the places `stop_when` looks. A send that a stop overtakes ends in done
whether or not UCX sends it, and both are modelled. A rendezvous message may have
neither tensor metas nor data, which the handler answers with an error. `Fns` has one function per kind the
code tells apart: without payload, with payload, and retaining. The random
choice of `reject_messages_` is nondeterminism. `storage_` and
`request_id_to_iterator_` have no lock; each access is a step, and keeping
threads apart is left to the user, as in the code. Starting a server twice
while its old thread is still joinable would terminate the process and is not
done by the model's user; nor is a memory policy that throws in a `noexcept`
handler.

### RemoteWorkers, LockFreeQueue

A slot's generation is even when it is occupied. `erase`, `clear` and a
throwing constructor are operations of SlotMap that the worker does not use
itself; they are actions all the same. `GetConnectionId`'s test for a worker without
a connection is left out, since an entry is made with its connection. The queue has
no property in a run: what its class comment promises to several threads is false
for two (section 4) and for one thread it is proved (section 5), the one thread of
ConnectionManager. Addresses of freed nodes are handed out again.

### RpcDispatch

A function is the list of its argument kinds, of its results, and whether it is
dynamic. The three tables (functions, signatures, the worker's handlers) change
one after the other as in the code, and a registration may throw between
them. Dispatching changes no state and is an operator: the properties evaluate
it for every request in every reachable state of the tables. Values of
parameters and the cista encoding are data; a buffer that does not decode is
`garbage`.

### MessageMemory

A block is one allocation and remembers how it was made. Each wrapper of
`ucx_context_data.hpp` refers to blocks with the ownership flags of the code;
constructors, moves, assignments and destructors are actions. A message's header
and data go from `amDescQueue_` to `amDescMap_` and to the wrappers as
`recv_header_sender` and `recv_buffer_sender` hand them over. `leaked` collects
blocks that nobody refers to any more: leaks are allowed by the properties, and
listed below. Left out: a move of `UcxAmData` or `UcxAmIovec` moves the flag of the
data only (headers are moved as `UcxHeader`), and a vector is made from buffers
that all own their memory or all do not.

### Listener, FileStreams, StoredMessages

One stream of accepted connections whose user asks for one element at a time and
cleans it up when no `next` waits, as unifex's streams require.
File streams: io_uring finishes the writes and reads in flight in any order, may
transfer less than asked, may fail, and a cancelled read is taken for the end of the
file. What counts as written is what the user commits: Next, then Backup with what
was not used, as the header asks. A second Next without Backup gives the same span
again, so that the bytes put there are overwritten; the avro adapter
(`avro_unifex_io.cpp:39-43`) passes its caller's `next` and `backup` on as they
come, and whether avro's writer calls `backup` for a chunk that is full is not to be
seen from this repository. The properties are about committed bytes only. Stored
messages: a save that fails leaves the first of its records, the last perhaps cut
off, and a payload of no kind has no tensors (`GetTensor`'s null data for it is not
reached); integers of 8, 16, 32 and
64 bits are 2, 3, 4 and 5 bits wide and take the values at the ends of their
ranges; the avro types are as wide and as signed as in the schema. A file name
is a member of a small set and may come again, since it is made from the
millisecond.

### ClientResponses

An answer is its form (eager or rendezvous), whether its header decodes, its
status, the sizes of its tensors and its length; a call asks for nothing, one
buffer, several, or either. Sizes are bytes up to `MaxSize`. A receive that has
started may fail or be stopped by the deadline, and releases its descriptor unless
the stop came before it began. A callback that sees its stop requested
(`axon_worker.hpp:1080-1085`) is the deadline followed by an answer nobody takes. A
client is started and stopped once.

## 3. Runs

| Run | Instance | Distinct states | Shows |
|---|---|---|---|
| `scheduling` | 2 producers, 3 remote tasks, 1 local task, stop; ring of 2 | 96,881 | wakeup protocol, refinement of `TaskLanes`, every queued operation starts |
| `slots` | 2 receives, 2 messages, ring of 2 | 192,788 | exact counters, one queue per operation, a receive in `pendingIoQueue_` is run |
| `calls` | 2 calls of 1 or 2 sessions, 1 slot | 559,577 | one owner per handler at every moment, called for its own session, `size_` follows the slots; a registered call completes |
| `wake` | 2 producers, 2 loops, 2 tasks, 2 starts | 83,996 | no wakeup and no task lost, an enqueued task is taken |
| `cancel` | 2 operations of any kinds, 1 request, ring of 2, 1 message, 1 connection request | 3,598,618 | one queue per node, nothing linked at delivery (buffer receive, connect), slots cover requests, a connection is given or closed |
| `timers` | 2 timers due at 1 or 2, ring of 2, counter of 8 | 398,050 | completed once and when due, slots and `activeTimerCount_`, wakeup pending, every timer completes |
| `connections` | 3 connections on 2 addresses, 2 requests, 1 connection request | 850,494 | slots, owners, endpoints, callbacks; the destructor ends with nothing left |
| `server` | 2 requests, 2 ids, 3 functions | 500,891 | answered once, or again by an error after an overtaken send, descriptors, index of stored requests, quiet after stop; answered, stop returns |
| `parts` | see below | 773,713 | one or more properties of each of eight parts; the queue without one |
| `lost_wakeup` | 1 producer, 2 tasks | violated | see findings |
| `late_response` | 2 calls of 1 session, one after the other, 1 slot | violated | see findings |
| `header_freed_twice` | as `parts` | violated | see findings |

In `parts`: 3 worker names, 2 slots, generations up to 4; a queue of 3 addresses
and 5 pushes; one function id and all functions with up to two arguments; 3
wrappers and 2 blocks; 3 connection requests and 3 calls of `next`; buffers of 2
bytes and 5 bytes; one file name and 3 stored requests; 2 requests and a
response for the clock, whose counter has 3 values; one call with tensors of up
to 2 bytes.

Deadlock is checked in `cancel`, `timers` and `connections`, where the loop never
stops or stutters at its end. Elsewhere the loop stops when it is told to, all
threads may be at rest with nothing to do, or a bound on the inputs is reached.

A property that joins several invariants of a module (`HandlerOwned`,
`NoTaskLost`, `LinkedOnce`, `CompletesOnceWhenDue`, `ConnectionsHeld`,
`EndpointsKnown`, `SettledOnce`, `IndexExact`, `SignatureKept`) is their
conjunction, with the module's type invariant where there is one; the conjuncts
are named and commented in the module.

*Bounds.* Ring of two, with two receives and the remote queue's registration: the
smallest instance in which an operation is refused, waits and is retried while
another completes, and in which the ring wraps several times. The same ring with
two operations of any two kinds: each may hold the slot the other waits for, and
the one request may be reused by the other operation. With two timers: one
armed and one cancelled, and two cancellations fill the ring. Two producers and
three tasks: one producer may be in the middle of a signal while the other finds
the queue active, then inactive, then active again. Two calls in one slot:
collisions in a slot are between a call and one other; calls in different slots
share only `size_`. Three connections on two addresses: an address is used
again while the connection that had it is in a list, and one fails while the
other is being closed. Two server requests: with equal and with different ids,
one being processed while the other is stored. Two loops: one drains while the
other runs Python code. Three addresses for a queue: a freed node comes back
while two are linked. Generations up to 4: a slot has three tenants. Three
wrappers of two blocks: a header and a payload are moved, and assigned over
another. Five bytes in buffers of two: both buffers are in flight and the last is
partial. A counter of three values, so that it wraps and also does not. The
other bounds are caps on inputs. `RacedAlone` (a constraint) cuts the run `calls`
where the invariants, which all have `~raced` as hypothesis, say nothing and `raced` never
becomes false again; it goes on with two threads that race over a single call, up to the
call of an empty proxy.

The run `calls` has a temporal property and so no symmetry set; instead `Canonical`
fixes which of the interchangeable calls is made first and with which session, which
loses no behaviour up to renaming. `OneStopped` and `StoppedApart` are bounds: of the two
calls at most one is cancelled or has a send that fails, and none once the client is
being stopped (`StopClient` with a cancelled call pending is covered by the proofs of the
invariants, and by the same run without `StoppedApart`, which passes with about 1.58
million states but takes longer). `OneOrder` in `server` fixes in the same way which of the two requests
is of which kind and which id is whose. `OneAtATime` in `late_response` makes the
second call only when the first has completed, so that the counterexample is not one of
overlapping calls.

*Symmetry.* Only in runs without liveness. In `parts` the action property
`ClockAdvances` is itself symmetric in the requests.

*Fairness.* EventLoop: weak fairness of the I/O thread (it spins in `run_impl`),
of each producer inside `signal_remote_queue` (straight-line code), and
strong fairness of `RequestCallback` (UCX finishes a transfer that is progressed
again and again). Nothing is assumed about producers calling at all. PendingRpc:
threads finish the calls they are in, an armed deadline expires, and
`StopClient`, once entered, goes on; responses may never come (one weak condition
on all of these steps: each call has finitely many, so that it is as strong as one per
thread). PythonWake: a
thread goes on with a call it is in, a readable eventfd's callback is run by a
loop that has a reader, and strong fairness where a thread waits for the GIL,
which CPython hands over on request. No fairness on starts, stops or awaits.
Timers: the I/O thread, a stop request that has begun, the passage of time, the
expiry of an armed timer and its handler; none on starts and stops. Connections:
the destructor's thread, once it has begun, and UCX's completion of requests and
closes that are progressed; none on failures and messages. ServerRequests: a
request that the loop has taken goes on (pool and context threads run, functions
return or fail, a send and a receive end, by error if need be), and `StopServer`,
once entered, goes on; no deadline has to expire. OperationCancel states weak
fairness of the I/O thread and of a stop request that has begun and strong
fairness of a request's completion; its run checks safety only.

## 4. Findings

Three runs contradict what a comment says; `PROJECT.json` quotes it. In short:

* `lost_wakeup`: `signal_remote_queue` clears `remoteQueueEventEntry_` after the
  event is published; it may clear the next registration's flag.
* `late_response`: request ids a multiple of the buffer's size apart share a slot, and
  `find` compares only the session, so that the late response of a call that has ended
  (its registration was refused, or its send failed) completes the next call of its
  session in that slot.
* `header_freed_twice`: a cancelled `recv_buffer` releases the descriptor with its
  header, which `recv_header` has given to the caller as an owning `UcxHeader`.

The models also contain, or were written around, the following, without a run
of their own; the properties say what holds apart from them.

Run loop and operations:

* `cqTail_` is loaded and stored by producers and by the I/O thread without a
  read-modify-write: a completion is lost or the tail ends up behind the head
  (`torn`);
* sends, receives and accepts whose `on_stop_complete` does not look at `refCount_`
  and delivers while the operation is still linked (`crashed`);
* a `request_` that outlives its request, so that a cancellation replaces the
  callback of another operation (`ucx_am_context.hpp:2480`);
* a slot lost with each cancelled send, receive or accept (`:1138`), so that sends
  that hold the whole ring and are stopped never call their receivers;
* a stop that is dropped before a receive has parked (`:1308`), and a buffer
  receive that is rescheduled for ever when its descriptor is missing (`:1583`);
* a connect whose stop comes after `refCount_` was taken to 0 ends in `set_done` by the
  `stop_requested()` branch of `on_connect` (`ucx_am_context.hpp:3562-3564`) with its
  connection open and its id lost: the exception named in `ConnectionAccounted`;
* a timer whose handler and cancellation both post an entry: `activeTimerCount_`
  is one too low from then on and a later timer may be forgotten
  (`ucx_am_context.cpp:677`); `lastTimerOp_` is read after its operation is freed
  (`:686`), which the model takes as if the memory were unchanged;
* a range-for over a deque to which error callbacks append
  (`ucx_connection_manager.cpp`), and the end of the process after a failed
  reconnection (`ucx_am_context.hpp:3188`);
* `init_with_internal_ucp_context` cleans up a context it does not own when the
  worker cannot be made.

Messages and memory:

* `UcxBufferVec`'s move constructor loses `backing_buffer_`
  (`ucx_context_data.hpp:384-427`): the views of a vector made by `to_buffer_vec`
  and then moved outlive their memory;
* move assignment of `UcxBufferVec`, `UcxAmData` and `UcxAmIovec` leaks what was
  there; a `UcxAmIovec` that does not own leaks its array;
* descriptors still in the queue or map when the context is destroyed, or of a
  message from an unknown connection, are not released.

Client and server:

* a response and a deadline take the same handler from a slot, and
  `RingBuffer::at` asserts (`axon_worker.cpp:1540`);
* `RingBuffer::emplace` replaces a waiting call of the same session
  (`ring_buffer.hpp:137`; the comment at `axon_worker.hpp:1217` says otherwise);
* a response that is sent although the deadline or `StopServer` overtook its send
  (`ucx_am_context.hpp:2506-2545` end in `set_done`) is followed by an error answer
  (`axon_worker.cpp:1005-1022`, `1329-1333`); with the client's `find` by session the
  second answer may end the next call in that slot. `AnsweredOnce` allows this case
  and no other;
* a rendezvous answer for which there is no handler, with an error status or for a
  caller who wants no payload, leaves its descriptor; an eager `PayloadVariant` is
  one buffer where a rendezvous one has a buffer per tensor; tensors that are
  smaller than the data give a prefix on the eager path and an error on the other,
  larger ones an error and an uninitialised tail;
* a retained request's function that takes parameters fails always, because the
  header has been moved away; an error status reads the header of an erased request
  (`axon_worker.hpp:1601`); requests with one id share an index entry; loaded
  requests are not in the index; a request for a function without payload, one without
  tensor metas (`axon_worker.hpp:1405-1417`), or one stopped before its receive, leaves
  its descriptor;
* overlapping updates of `hlc_` take the worker's clock back
  (`axon_worker.cpp:1563`), as does a counter that wraps
  (`hybrid_logical_clock.hpp:177`).

Dispatch and tables:

* an asynchronous registration binds the function before the validation throws; a
  synchronous one of the same id replaces the signature and keeps the function;
  asynchronous typed signatures announce no results; the typed `Dispatch` of a
  failed call throws `bad_variant_access`; surplus parameters go unnoticed; "at most
  one TensorMeta parameter" (`rpc_dispatcher.hpp`, at
  `ValidateTensorPayloadConstraints`) is not enforced with a vector payload;
* `SlotMap::clear` forgets the generations, a throwing constructor loses a slot, and
  `access` returns a pointer after unlocking;
* the queue's comment (`lock_free_queue.hpp:28-30`) promises use by several threads;
  with two, one that pops frees the node another is about to read
  (`lock_free_queue.hpp:124-126`). With a second name in `Poppers` TLC finds
  `FirstInFirstOut` violated; ConnectionManager, the only user, has one thread.

Storage and Python:

* AxonWorker's storage uses an io_uring context that nobody runs
  (`axon_worker.cpp:94`), so that its save and load wait for ever;
* short writes are not noticed, a short read is taken for the end of the file, the
  input stream does not wait for reads in flight when it is destroyed; files of the
  same millisecond overwrite each other;
* a queue marked inactive by another thread is dequeued
  (`python_wake_manager.cpp:98`); the last component's stop discards tasks of one
  just started (`:221`), and a registration that fails before it has incremented
  the count decrements it (`:214`).

## 5. Proofs

Each proof module states an inductive invariant (`IInv`; for `PartsProofs` one per
part, in `PartsInvariants`), one lemma per action that it is kept, and the theorems.
TLC checked every one on the instance of the component's run; for the few that say
that a list, an offset or a numbering exists, with that quantifier bounded. What is
in `PROJECT.json`, "theorems",
with a "property" is an invariant or action property a run checks: the run shows
it for one instance, the theorem for all.

`EventLoopProofs` proves, for any sets of producers and operations, any ring size
and any number of messages: `TypeCorrect`, `WakeupIsNotLost`, `OneSignaller`,
`DequeueIsLegal`, `SlotsAreCounted`, `RingIsBounded`, `OperationsInOnePlace`,
`LanesAreImplemented`. None of the invariants
is inductive alone. That a producer finds room in the ring needs the slot
accounting; the accounting needs that at most one producer has an event under
way; that needs the registration protocol (the flag, the mark of the queue and
`remoteQueueReadSubmitted_` agree at every program counter). `IInv` is the type
invariant and, while `~torn`, the conjunction of these (`Untorn`). The proof has
a lemma per action; `SlotDistinct` (no two live entries share a slot, from
their number being at most `CqEntryCount`), `RingKept` and `CountsKept` carry
what several actions share; `TornStays` lets each of them assume `~torn` before
and after. Assumptions: the named ones of `EventLoop` (finite sets of
operations, disjoint kinds, `CqEntryCount` positive).

`OperationsInOnePlace` counts, for one operation, its positions in each queue, the
ring and the receives in flight; an action moves one position from one count to
another, and the sum stays at one from the start of an operation to its completion.
It is proved while `~torn`, like the counters.

`LanesAreImplemented` is the refinement: `Lanes!Spec`, which has no fairness, holds
of every behaviour, torn or not. Its invariant `LaneInv` says that every queued
operation is in the backlog at one position, and what else is there has begun
(`LinedUp`); that what is in the ring or in the two pending queues has been started
(`Sidelined`); and that the batch is not empty only while it is being executed
(`BatchPoint`). With it, executing the head of the batch is `Start` of the first
operation of its lane (or `StartAndSubmit`, when its receiver schedules another),
an enqueue is `Submit`, taking over the remote queue moves its operations behind
the local ones without changing the order of either lane, and everything else
leaves both lanes alone.

`PartsProofs` has the nine parts of `MCParts`; their invariants are defined in
`PartsInvariants`.

* `WorkerClock`: `ClockTypeCorrect`, `SeenStaysPast`, `ReplyIsAfterRequest`,
  `ClockNeverGoesBack`, for any messages, counter width and times. The invariant
  adds that, before a race or wrap, at most one update is under way, that the value
  it is about to store is later than the clock, and that the clock is not before
  anything seen or replied to. The lemmas below it are about the operators:
  `BumpLogical` without a wrap increments, the raw word is ordered as the pair
  (physical, logical), and `Merge` is later than both arguments.
* `Listener`: `RequestsAreAnswered`. `ListenerInv` says that a request counts as
  queued only while it is in `epConnReqQueue_`, that this is empty after the cleanup,
  and that a `next` waits only with the listener open and nothing queued.
* `ClientResponses`: `AnswersStayIntact`. `CallInv` ties what a call has been given
  to the answer and to the path by which it came; the sum of the sizes, a
  recursive function, is needed for a payload in one part only, where it is
  resolved by an explicit witness.
* `RemoteWorkers`: `CallsReachNamedWorkers`. `MapInv` describes the SlotMap: the
  free slots are those on an explicit list that `nextFree` follows from
  `free_head_`, and what the model's recursive function visits is that list (by a
  least counterexample). `Known` says that a key's generation is even and at most
  its slot's, so that a key in use names the tenant it was given for; `TableInv`
  that two names never have one key.
* `RpcDispatch`: `SignaturesAreKept`. `DispatchInv`: for an id whose registration
  did not throw and whose signature was not replaced (`Clean`), the tables hold the
  function's own signature and handler, whatever other registrations did since. The
  ids are any set; the functions are those of `MCFunctions`.
* `FileStreams`: `BytesStayInOrder`, for any buffer size (`BufSizeAssumption`:
  positive). `FilesInv`: the writer has at most one write in flight, it ends at
  `offset_`, and it is never of the buffer the client fills. The reader's active
  buffer has the bytes from `offset_` less two buffers on, and the other one those
  after it, already read or still to come; the reader is opened only when the writer
  has been destroyed, so the file is complete. A stream that has failed is excepted.
* `MessageMemory`: `BlocksHaveOneOwner`, for any objects, blocks and sizes of a
  vector (`NullAssumption`: null is not a block). `MemoryInv`: every block that was
  not released twice is at exactly one `Spot` (in a wrapper, with the user, leaked,
  header or data of a queued message, data in the map, or nowhere, when it is
  free), and whoever has it knows how to give it back. `Tidy` is the consistency of
  a wrapper's flags with what it refers to, and `OnceIn` that an owning vector has
  a block in one place.
* `LockFreeQueue`: `OneThreadGetsBackWhatItPushed`, for any nodes and number of pushes
  (`QueueAssumption`: there is a node for the dummy, and null is not one), under
  `OneThread`: all of `Pushers` and `Poppers` is one thread, which is how
  ConnectionManager uses it. For two the property is false (section 4).
  `QueueInv` numbers the nodes: node `lo` is the dummy, `lo + 1` to `hi` hold the
  values pushed under these numbers, each node's `next` is the following one, `tail_`
  is the last or the one before it, and what the thread has read is still so. An
  address is used again only when it is not in the chain. `size()` is the length of
  the chain, again by a least counterexample.
* `StoredMessages`: `FilesGiveBackWhatWasSaved`, for any names and number of
  requests. `CastBack` is proved for every value of every type: converting it to
  the avro type of its union branch and back is the identity; `MessageBack` for every
  message whose contents have their types: deserialising what was serialised gives
  that message in host memory. The widths are those of the model. The invariant says
  that a file holds the serialised requests last written to it, all that were to be
  saved or, when the save failed, the first of them, and that the storage holds requests
  of the kinds that come.

`ServerRequestsProofs` proves, for any requests, ids and functions:
`ServerTypeCorrect`, `RequestSettledOnce`, `StorageIndexExact`,
`StopServerQuiets`. The invariant says which points of the pipeline follow an
answer (`AnswerEnds`: the end, or the error path after an overtaken send, which only a
stop opens), that a descriptor UCX still holds is that of a rendezvous
message at a point that has not consumed it, that the payload is in storage
exactly for stored requests (`PayloadMoves`), and that once `StopServer` waits
for the scope no request enters it (`ScopeClosing`), which is why nothing is
in progress when the wait ends.

`PendingRpcProofs` proves, for any calls, sessions and size of the buffer:
`HandlersOwnedOnce` and `SizeNeverDrifts`, both as long as no two threads met
inside one slot (`~raced`; section 4 has the orders that set it). Calls of one
session use a slot again in any number and order, replace each other's handlers and
complete each other by late responses; none of this loses or doubles a handler.
`Exclusive` gives each slot to at most one thread between its compare-and-swap
and its last store; `SlotContents` and `Holds` say what the slot and the thread
hold at each of these points; `Owned` counts the owners of a handler; `SizeExact`
adds to `size_` the emplaces before their increment and the erases before their
decrement. Cardinalities change by one element at a time, so the sets of calls
and of slots have to be finite.

`PythonWakeProofs` proves, for any producers, loops and tasks: `NoTaskIsLost`.
`Woken` is the edge-triggered protocol: if the queue is neither inactive nor
empty, the descriptor is readable or a thread is at a point of `ProcessQueue`
from which it looks at the queue again. `Distinct` and `Queued` say that a queued
task is in the queue or in one thread's batch, at one position.

`TimersProofs` proves, for any operations, due times and size of the ring:
`TimerFiresOnceWhenDue`, `TimerSlotsAccounted`, `FirstTimerWakes`. `Stage` says,
for each value of an operation's state, in which queues it is and what the two
sides of the cancellation race may still do; `Once` that it is in each at most
once; `Sorted` that the list of timers is in order of due time, so that its head
is the first; `Ring` counts entries, armed timers and handlers against
`sqUnflushedCount_`; `Wake` is the reason that the head of the list is noticed.

`ConnectionsProofs` proves, for any connections, endpoints and requests:
`ConnectionsNeverLost`, `IdsLeadToTheirConnection`, `CallbacksCalledOnce`,
`DestructorLeavesNothing`. `ListedOnce` and `Living` hold every live connection
in one list at one position; `SlotsKept` and `NoneLost` partition the slots until
the destructor gives them up; `Owned` gives each open endpoint its one owner, which
is the connection its error handler points to; `Active` says that a mapped id
leads to an owner without error. UCX re-enters this code from within
`disconnect_direct` and from the loops over the lists, so the proof needs
`AtWork`: whatever those loops still have to do concerns connections of the failed
or the disconnecting list, so that closing never reaches an active connection, and
`Failed`: a failed connection keeps its endpoint until its error was dispatched.
`Requested` ties a request to a live connection. The last theorem is the safety
half of `DestructorEnds`; that the destructor ends stays with TLC.

`OperationCancelProofs` proves, for any operations, senders, requests and size of
the ring: `NodesLinkedOnce`, `RequestsHaveSlots`, `ConnectionsAccountedFor`.
The argument is one inequality, `Counted`: `refCount_` is at least the number of
places that lead to the operation. `Links` counts the places of a node (positions
in the queues and the ring, requests that report to it, the loop itself); to those
of the operation `OpPending` adds the start that is still to come, and to those of
`cop_` `CopPending` adds a stop request that has won `refCount_` and not yet
enqueued it, so that neither a start nor a stop request changes the sum. A
completion takes one place and one of the count; a stop request adds one of each.
`Stopping` says why the stop request finds `cop_` free (its callback runs once),
`Settled` why the receiver of a symmetric sender is the last to know, `Closing`
that an open connection of a cancelled connect has a `cop_` still to run
`request_stop_local`, and that a connection given away is not cancelled any more. `Submitting` and `Drained` are facts about the loop: nothing
is delivered between the halves of `start_io`, and a batch is executed to its end.
The theorems, like the run, are about the behaviour up to `crashed`, the first use
of a delivered operation (section 4 has the senders where that happens).

Sequences. The library states induction over an operator, which the provers
cannot instantiate; `TimersProofs` states it over a set of numbers instead, from
the well-foundedness of `<`, and proves with it what sorted insertion and removal
need. The provers have no facts about `SelectSeq`, so the modules proved about
define removal by positions: `Keep` in `Timers`, `Ascending` in
`Connections`, `Erased` in `OperationCancel`. `OperationCancelProofs` counts a
node's positions (`Times`) and proves what appending, concatenating, taking and
erasing do to the count, from bijections between sets of positions.

One invariant turned out to be wrong beyond its run: `TimerSlots` compared the
entries that are coming with a truth value, where a re-armed timer and a handler
that already runs are two. TLC shows this with `MaxTime = 3`; the property now
adds them.

A second disagreement was about notation: the provers read `UNION A \cup B` as
`UNION (A \cup B)`, TLC as `(UNION A) \cup B`. `StoredMessages` now has the
parentheses; no other module had this form.

Model-checked only: liveness (`QueuedOpStarts`, `PendingIoStarts`,
`RegisteredCompletes`, `EnqueuedIsTaken`, `TimerCompletes`, `DestructorEnds`,
`RequestAnswered`, `StopReturns`), since it rests on fairness, for which the provers
have no rules. The three findings are counterexamples that TLC shows. What the theorems
leave to the reader is what the models leave out (section 2) and the histories
under which they hold: `~torn`, `~raced`, before `crashed`, before `clear`, with
`OneThread`.

## 6. Plan

Every module planned is there, and every safety property of a passing run is
proved. What could be added: the parts of the system below, and a version of
`EventLoop` in which `cqTail_` is updated by one read-modify-write, of which
`~torn` would be a theorem.

Not modelled, and why. AxonRuntime owns a pool, a time context and a worker and
forwards to it. CUDA contexts and memory managers are calls to the driver.
The Python bindings convert values; their threads are in `PythonWake`. Metrics,
error types, hashes and tensors are values. Setting up UCX (contexts, workers,
addresses, device contexts) is I/O without further state. Stopping a
`dispatch_connection_error` operation follows the protocol of `OperationCancel`
with a `cop_` that is never submitted.
