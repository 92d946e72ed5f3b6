# A TLA+ model of rmw_embeddedrtps

`rmw_embeddedrtps` is the ROS 2 middleware layer that puts micro-ROS on top of
embeddedRTPS, for microcontrollers: all state is in static arrays, threads are
those of an RTOS, and there are no tests in the repository. This directory models
what it does with shared memory and threads, checks it with TLC, and proves with
TLAPS, for every size of its arrays and any number of threads, each safety property
that a passing run checks. Paths below are relative to the repository.

## 1. The system

### Components

| Component | State | Operations | Modules |
| --- | --- | --- | --- |
| Memory pools (`memory.cpp`, `types.cpp`) | per pool: two doubly linked lists through the items of a static array, a mutex | `get_memory`, `put_memory`, `rmw_ertps_init_X_memory` | `MemPool`, `ItemPool` |
| Receive path (`callbacks.cpp`) | `static_buffer_memory`: items with owner, header, payload | `generic_callback`, `inner_callback` | `StaticBuffers`, `Mailbox`; the walk: `Endpoints` |
| Takes (`rmw_take.cpp`, `rmw_request.cpp`, `rmw_response.cpp`) | the same items | `rmw_take[_with_info]`, `rmw_take_sequence`, `rmw_take_request`, `rmw_take_response`, `rmw_ertps_find_static_input_buffer_by_owner` | `StaticBuffers`, `Requests` |
| Waiting (`rmw_wait.cpp`) | `has_data` of each entity, the semaphore `rmw_wait_sem` | `rmw_wait` | `RmwWait` |
| Sending (`rmw_publish.cpp`, `rmw_request.cpp`, `rmw_response.cpp`) | one static output buffer per function | `rmw_publish`, `rmw_send_request`, `rmw_send_response` | `Requests` |
| Creation (`rmw_publisher.cpp`, `rmw_subscription.cpp`, `rmw_service.cpp`, `rmw_client.cpp`, `utils.cpp`) | one pool per kind, static name arrays, endpoints of embeddedRTPS | `rmw_create_*` | `Endpoints` |
| Initialisation, nodes (`rmw_init.cpp`, `rmw_node.cpp`) | session and node pools, the mutexes, the semaphore | `rmw_init`, `rmw_create_node` | `Startup` |
| Graph cache (`rmw_graph.cpp`, optional) | one graph message | `rmw_graph_init`, `rmw_graph_add_entity`, `rmw_graph_publish` | not modelled (section 5) |
| Everything else (`rmw_count.cpp`, `rmw_event.c`, `rmw_logging.c`, `rmw_serialize.c`, `rmw_destroy_*`, ...) | none | return "Function not implemented" or a constant | not modelled |

External, and modelled only by the way this code uses them: embeddedRTPS (its
reader threads call the callbacks; `createWriter`, `createReader` may return
NULL; writers number their changes from 1), lwIP's `sys_arch` layer (the
semaphore is binary, a mutex is a mutex), the RTOS scheduler, the application.

### How the parts interact

A reader thread of embeddedRTPS receives a message and calls
`generic_callback<kind>`. `inner_callback` walks the pool of that kind, without
its mutex, to the entity of the reader; gets an item of the buffer pool that all
entities share; fills it field by field without a lock; and signals the one
semaphore. The application's executor sleeps in `rmw_wait` on that semaphore,
looks for an item of each of its entities, and takes from the entities that
`rmw_wait` left in the wait set. A take finds an item under the mutex, reads it
without, and puts it back. Sends go through a static array per function to
`newChange`.

### What is hard here

* Items are visible on the allocated list before they are filled, and while they
  are read; owners are never erased. Whether this hurts depends on scheduling.
* One pool and one semaphore serve everybody; `has_data` is never cleared.
* Failures in the middle of a creation undo nothing, and nothing is destroyed.
* Walks without locks; static arrays shared by threads.
* Numbers: halves of sequence numbers, milliseconds in 32 bits, name lengths.
* `rmw_init` may be called again, and makes mutexes anew that others hold.

`PROJECT.json` lists these under `hazards`, each at its line.

### What makes each component correct

* Pools: no item is lost, duplicated or in two lists.
* Receive path and takes: an item is in one pair of hands; every item that is not
  free is being used or holds a message its owner will find; a take returns one
  whole message of its entity.
* Waiting: nobody sleeps over a message; items become free when traffic pauses.
* Sending: what leaves is what the caller passed; an answer has the identity of
  its request.
* Creation: callbacks find their entity from the first message on; endpoints meet
  on the right topics; a failure leaves no reader behind.
* Initialisation: a pool keeps its items over further calls, and its mutual
  exclusion where the order of the calls allows it; a node is the application's own
  and has everything it needs.

## 2. The modules

`ItemPool` is the abstract pool: a sequence of allocated items, newest first, and
a stack of free ones. `MemPool` (detailed) implements it, and `StaticBuffers` is
written on top of it, so that the links of `memory.cpp` need not be carried
through every interleaving. Where a reader takes no lock, or where the mutex itself is
in question, `get_memory` is in steps: in `Endpoints` and in `Startup`. `RmwWait`
extends `StaticBuffers`. `Mailbox` is the abstract receive path, implemented by
`StaticBuffers`. `Endpoints`, `Requests` and `Startup` stand alone. `MC*` modules give constants values. `MemPoolProofs`,
`StaticBuffersProofs`, `MailboxProofs`, `RmwWaitProofs`, `EndpointsProofs`,
`RequestsProofs` and `StartupProofs` hold the theorems, `ListLemmas` the lemmas about
lists that the first four share. A definition whose comment
starts with "Broken on purpose" is a plausible bug; the `mutants` of
`PROJECT.json` put it in place of the definition it follows in name and show that
the property notices.

**MemPool.** `mem` is `rmw_ertps_mempool_t` with the `prev` and `next` of all
items; items are array indices and 0 is NULL. `GetMemory` is `get_memory`
(lines 29-67), `Unlink` and `PushFree` are the halves of `put_memory` (75-84,
94-101), `InitBegin` and `InitStep` are `RMW_INIT_MEMORY`. Each call holds the
mutex throughout, so it is one step. `held` records what the callers have.

**StaticBuffers.** A callback is the steps `Accept` (or `Refuse`), `WriteOwner`,
`WriteHeader`, `CopyInto` then `Signal`, or `CopyFails` then `PutBack`
(`callbacks.cpp:28-50`). A take is a call for `n` messages: `TakeFind`,
`TakeHeader` (only requests and responses have one), `TakePayload`, `TakePut`,
then `TakeNext` for the next round of `rmw_take_sequence` until `n` are taken or
one fails, and `TakeReturn`. With `n` = 1 it is any of the other takes. `data` is
what the application gets, and its length is `*taken`. A message is its number of
arrival; header and payload of an item say which message they belong to, so a torn
message shows. `AppPreempts` is the scheduling assumption: FALSE when the reader
threads have the higher priority on one core, TRUE when an application thread may
run between two steps of a callback. The repository fixes neither. `WriteHeader` sets
the fields of the header, five writes without a lock, in one step: no property
tells a half-written header from one that is not written.

**RmwWait.** `EnterFlagged`, `EnterBlocks`, `Poll`, `Wake`, `TimeOut`, `Scan`,
`Return` are the parts of `rmw_wait` (45-67, 69-78, 69-82, 78, 78, 81-121,
123-146); `TakeReady` is the executor, which calls one take per entity left in its
set. `Milliseconds` is the conversion of the timeout (71-76), with `Millisecond`
for 10^6 and `Wrap` for 2^32; what it returns decides whether `TimeOut` can happen.
`TimeOut` needs a semaphore that is not signalled: `sys_arch_sem_wait` returns
at once otherwise. Entities that are services, clients or subscriptions are
treated alike by the code and by the model; the scan may go in any order.

**Endpoints.** A creation is a walk along `PublisherSteps`, `SubscriptionSteps`,
`ServiceSteps` or `ClientSteps`, each step an action with its failure. The walk of
`inner_callback` (`StartWalk`, `WalkOn`, `WalkEnds`) reads the list without the
mutex, so `get_memory` is there in its parts: `TakeItem` enters and takes the first
free item (`memory.cpp:34-37`), `LinkItem` writes its `next` (40), `PublishItem` the
head of the list (50) and leaves. Until it is linked an item points to its
successor on the free list. `Locked` is the mutex. `prev` pointers are left out, as
no walk reads them. `InOrder` says that another thread sees the two writes in the
order of the program: nothing in the code (fence, atomic, lock in the reader)
makes it so; one core does, if the compiler keeps the order. As nothing is ever put back in these pools, their
items leave in one order and are numbered in it.

A name is a topic and a type, sequences of characters; `FullTopic` and `FullType`
add what the kinds of endpoint add, and `Cut` cuts both, as `snprintf` does. A prefix
or a suffix counts as one character, which is enough because each is told from the
others by any of its characters that stay. The mutexes are those of one `rmw_init`.

**Requests.** `Serialize*` fills the static buffer of a process, `New*` is
`newChange`; between them other threads run. `NewRequest` hands the request to the
writer and `NumberRequest` assigns `*sequence_id`: the answer may be there in
between. That the change which `newChange` returned is still valid then is up to
embeddedRTPS. `Pack` and `Unpack` are the conversions of sequence numbers with
`Half` for 2^32. A guid travels unchanged: `rmw_request.cpp:94-102` and
`rmw_response.cpp:43-51` copy 16 bytes from the 12 of the prefix on, which is the
whole guid if `rtps::Guid_t` has the entity id right behind the prefix; that layout
is embeddedRTPS's and is assumed.

**Startup.** A call of `rmw_init` goes along `InitSteps`; `MakePool` is
`RMW_INIT_MEMORY`, which makes the mutex anew each time and loads the items once.
Every thread may run at any time, also while another is inside a pool. A mutex
and the semaphore are told apart by how often they were made, and a thread
remembers which one it holds or sleeps on: `Enter` waits only for those that hold
the mutex of this moment. `See` reads the first free item and `Get` unlinks it, so
that two threads inside one pool may both get one item; what else they may do to the
links is not modelled, nor what the destruction of a lock does to a mutex that is not
the one it locked. `LockNodes` to `NodeFails` are `rmw_create_node`; `LockBuffers` to
`Filled` stand for the callbacks and `Wait`, `WaitEnds` for the waits of the other
modules, as far as they use a mutex and the semaphore. The application calls
`rmw_init` from one thread at a time and creates nodes only in contexts for which it
returned `RMW_RET_OK`. Without `Overlap` it does nothing else while a call makes a
session (`Initialises`), and a call for which no session is left may come at any
moment; in a build for one domain that is no restriction, since before the only
session there is nothing else to do. The reader threads of embeddedRTPS run in any
case, and there may be several of them, as embeddedRTPS is commonly configured.

## 3. Runs

| Run | Shows | Bounds |
| --- | --- | --- |
| `pool_lists` | types, `WellFormed`, refinement of `ItemPool` | 4 items: a head, a tail, and two in between; all reachable lists of them |
| `callbacks_first` | `Exclusive`, `PutFromAllocated`, `NoLeak`, `Intact`, `TakenOnce`, `OkTakesAll`, refinement of `Mailbox`, when callbacks are not preempted by takes | 3 items, 4 messages, 2 reader threads, 2 application threads, takes of 1 or 2: the pool fills up, is reused with stale owners, items go back from any place, and sequences end early |
| `executor` | `NoLostWakeup`, `PutFromAllocated`, `NoLeak`, `ReturnTells`, `BoundedReturns`, `PoolDrains` with preemption | 2 items, 4 messages, 2 entities; timeouts that poll, are too short, time out, wrap to nothing and are infinite |
| `endpoints` | `WalkFinds`, `NoOrphanReader`, `Matches` | 3 calls in 2 threads, 2 slots per kind, 1 walker, 2 writers and 2 readers, so that endpoints run out; 4 names where a topic has room for 3 characters with its prefix and a type for 2: topics that fit with their suffix, without it, and not at all, types that fit, that fit only without what a service adds, and that do not |
| `requests` | `AnswersMatch`, `PublishedIntact` | 2 clients, a server and a publisher, 2 messages per sender, `Half` = 2 so that the second number carries |
| `startup` | `OneInside`, `WaiterKept`, `NodesApart`, `NodesUsable` | 3 calls of `rmw_init`, 2 contexts, 2 domains, 3 application threads, 1 reader thread, 2 nodes, 2 buffers, without `Overlap`: a first and a second session with every failure, a retry, and a call that finds no session while nodes are made, threads sleep and a callback is in the pool of buffers |

Six runs show that the code does not do what one of its comments or its
documentation says (`findings` in `PROJECT.json`):

* `unfinished_item`: `rmw_take.cpp:53` "Find first related item" may find an item
  that a callback is still filling, if takes can run in the middle of a callback.
* `double_put`: `memory.cpp:75` "Gets item from allocated pool" does not hold when
  a callback drops a message that is too long while a take reads its item.
* `stale_flags`: `rmw_wait.cpp:45` "Clear data flags" clears nothing. After its
  first message an entity is in every wait set `rmw_wait` returns.
* `two_executors`: `rmw_wait.cpp:69` "If there is no data ... wait" with two
  threads in `rmw_wait`: one swallows the other's signal.
* `shared_names`: `README.md:29` "There are no known limitations", but two threads
  that create publishers share an array, and one gets a writer for the other's topic.
* `remade_mutex`: `memory.cpp:37` "Gets item from free pool", but `rmw_init` makes the
  mutex of the static buffers anew, also in a call that fails, while a callback
  holds it: two callbacks fill one buffer.

Bounds that only cap counters: `MaxArrivals` (messages that ever arrive),
`MaxSent`, `MaxCalls`, `MaxInits`, `MaxEndpoints` (also a real limit of
embeddedRTPS). Runs whose bound
lets the system come to rest have `CHECK_DEADLOCK FALSE`; `pool_lists` checks
deadlock. Calls that change nothing (a take without an item, a creation without a
slot) are stuttering and no actions.

What the runs do *not* claim. TLC refutes these variants of the instances above:
with preemption, `Exclusive` and `Intact` (a take that runs during a callback may
read the item it fills and return half of another message); with preemption and
two reader threads, also `NoLeak`; with two application threads that take from
one entity, `Exclusive`, `Intact` and `PutFromAllocated`, even without preemption; in
`Requests`, two threads of one process in the same sending function share its
static buffer, which refutes `PublishedIntact`. Without `ServesAll`,
`ReturnTells` is refuted: the signal for an entity outside the wait set ends the
wait, which returns `RMW_RET_OK` with an empty set. Without `InOrder`, `WalkFinds`
is refuted: the walk starts at an item whose `next` still points into the free
list. With two domains and `Overlap`, `OneInside`, `NodesApart` and `WaiterKept` are:
the `rmw_init` of a second session makes the mutex of the nodes anew while a thread
is in that pool, and the semaphore anew that a thread sleeps on. Two properties are
not stated because the code plainly does not have them: a timeout of less than a
millisecond becomes 0 and never ends (`rmw_wait.cpp:75`), and a poll (timeout zero)
skips the scan (`rmw_wait.cpp:82`), so that an executor which only polls gets nothing.

**Fairness.** `PoolDrains` and `BoundedReturns` need it. `FairWaitSpec` has weak
fairness of each callback (a thread of embeddedRTPS that got an item goes on: it
holds no lock and waits for nothing) and of the executor's loop (`AppStep`: a thread
that can run eventually does, and a timeout eventually passes). `Poll` is not part
of `AppStep`: the application does not only poll, for otherwise it gets nothing. The
arrival of messages is not fair. Weak fairness of the callbacks also
says that the application does not starve the reader threads: an executor whose
timeouts are all over at once spins, and on one core it must not have the higher
priority. `PoolDrains` says that items become free, not that each message reaches the
application: one that cannot be deserialized does not. It holds because the
executor takes from every entity of the wait set before it waits again.
`BoundedReturns` is about timeouts from one millisecond to 2^32 of them; all others
may wait without limit.

## 4. Proofs

Every invariant and every refinement that a passing run checks, and the action
property `ReturnTells`, is a theorem here: for any number of items, threads,
entities, messages, names and nodes, where the run has two or three. What the
theorems assume of the constants is the `ASSUME` of each module (numbers are
natural, sets of model values are finite or apart), and the hypothesis that the
theorem names.

| Theorem | Says | Holds when |
| --- | --- | --- |
| `MemPoolProofs`: `TypeCorrect`, `ListsWellFormed` | the links form two proper lists that share out the items | always |
| `PoolImplemented` | those lists are the sequences of `ItemPool` | always |
| `StaticBuffersProofs`: `TypeCorrect`, `OkCorrect` | `TypeOK`, `OkTakesAll` | always |
| `OneOwner`, `PutsAllocated`, `NothingLost`, `TakesAreIntact`, `TakenAtMostOnce` | `Exclusive`, `PutFromAllocated`, `NoLeak`, `Intact`, `TakenOnce` | `CallbacksFirst`, `OwnEntities` |
| `MailboxProofs`: `LatestFirst`, `MailboxImplemented` | the allocated list is in the order of arrival; refinement of `Mailbox` | `CallbacksFirst`, `OwnEntities` |
| `RmwWaitProofs`: `WaitTypeCorrect` | `WaitTypeOK` | always |
| `WakeupsAreKept` | `NoLostWakeup` | `OneExecutor` |
| `ReturnsTell` | `ReturnTells` | `OneExecutor`, `ServesAll` |
| `PutsAllocatedInLoop` | `PutFromAllocated` in the executor's loop | `OneExecutor`, `MessagesFit` |
| `NothingLostInLoop` | `NoLeak` in the executor's loop | `OneExecutor`, `OneReader`, `MessagesFit` |
| `EndpointsProofs`: `TypeCorrect`, `ReadersHaveOwners` | `TypeOK`, `NoOrphanReader` | always |
| `WalksFindTheirEntity` | `WalkFinds` | `InOrder` |
| `EndpointsMeet` | `Matches` | `OneCreator` |
| `RequestsProofs`: `TypeCorrect` | `TypeOK` | always |
| `AnswersAreMatched`, `PublishedIsIntact` | `AnswersMatch`, `PublishedIntact` | `OwnBuffers` |
| `StartupProofs`: `TypeCorrect`, `NodesAreUsable` | `TypeOK`, `NodesUsable` | always |
| `OneInsideHolds`, `WaiterIsKept`, `NodesAreApart` | `OneInside`, `WaiterKept`, `NodesApart` | `Domains = 1` or `~Overlap` |

**The hypotheses.** Each names a way of using the library, which the code does not
fix, and the run that checks the property satisfies it. They are needed: with one of
them dropped from the instance of the run, TLC finds each property violated, with
two exceptions. `NoLeak` alone is refuted when callbacks are preempted and there
are two reader threads; its other hypotheses are those of `PutFromAllocated`,
because in the model an item that is not allocated cannot be put back, and what it
does after that point would show nothing. `LatestFirst` has the hypotheses of the
refinement, for which it was proved.

* `CallbacksFirst` (`~AppPreempts`): the reader threads of embeddedRTPS have the
  higher priority on one core, so no take runs between two steps of a callback.
* `OwnEntities`: no two application threads take from the same entity.
* `OneExecutor`: one thread calls `rmw_wait`. `ServesAll`: with all entities in its
  wait set, as an executor does that has them all. The theorems about the loop hold
  for every schedule, also when the application preempts callbacks.
* `MessagesFit` (`~Oversize`): no message exceeds
  `RMW_ERTPS_MAX_INPUT_BUFFER_SIZE`; otherwise run `double_put` shows what happens.
* `OneReader`: embeddedRTPS delivers from one thread.
* `OneCreator`: no two threads create publishers, nor two subscriptions; their
  names are in static arrays.
* `OwnBuffers`: each process has one thread per sending function, whose output
  buffer is static. Clients, servers and publishers of one process may interleave.
* `InOrder`: the writes of `get_memory` reach a thread that takes no lock in program
  order, as they do on one core if the compiler keeps it.
* `Domains = 1` or `~Overlap`: the build is for one domain, as it is by default, or the
  application does nothing else while it makes a session. Neither restricts the
  scheduler: every thread may be stopped anywhere, also inside a pool.

**The inductive invariants.** TLC checked each on the instances of the runs before
it was proved. None of the properties is inductive as it stands.

* *Pools.* `WellFormed` says that there *are* sequences along the links. `IInv`
  adds the types and `Fresh`: the links of the items that the pool does not have
  yet are still NULL, which is why `put_memory`, called on such an item while the
  pool is loaded, unlinks nothing. Lemmas about lists come first: `ListFrame` (a
  change of links outside a list does not disturb it), `ListCons` (a new head),
  `ListRemove` (an item leaves from any place and its neighbours are joined),
  `Neighbours`. For the refinement, `NextLists` says for two *given* lists into
  which lists a step turns them, and by `ListIsUnique` the links determine the
  list, so that the `CHOOSE` of the refinement mapping means those lists.
* *Receive path.* `TInv`, for every schedule: types, `PoolOK` (each item is in one
  place of one list) and `Working` (whoever works has an item). `BInv`, under the
  hypotheses: `CallbacksOK` (what a callback has written so far is in its item,
  which is its own), `FullOK` (every other allocated item holds a message, and no
  two the same one), `TakesOK` (what a take has read is what its item holds) and
  `DataOK` (what was handed out is nowhere any more). It needs the scheduling in
  one place: a take that finds an item by its owner finds a full one, since while
  it looks no callback is between two steps.
* *Mailbox.* `OrderOK`: the messages of the allocated list get older along it,
  counting an item that is being filled by the message it will have. Hence the
  first item of an owner has the newest message of its box.
* *Waiting.* `TracesOK`: of each message that waits for a thread there is a trace,
  either a signal, or a flag, or a scan that has not come to its entity. The one
  semaphore loses signals; what makes up for them is that `has_data` is never
  cleared. `UntakenOK`: as long as no flag is set nothing was taken, so a signal
  means a message. `HeldOK` and `WrittenOK` are what is left of `BInv` when a take
  may preempt a callback: a callback may then write to an item that was taken from
  under it and put back, but with one reader thread nobody else has got that item.
* *Creation.* `EInv`: each creation is at a step of its function with an item of
  its own whose endpoints are those made so far (`CreatorOK`, `ApartOK`), and a reader
  gets a callback only when its item already refers to it (`RegisteredOK`). `LInv`,
  under `InOrder`, is about the list in the middle of `get_memory`: who holds the
  mutex has the latest item, and links it to the head before it becomes the head
  (`LockOK`); from the head on the links go down by one, and an item that is not on
  the list has no reader (`ListOK`); so the owner of a walk's reader is never behind
  the walk (`WalkerOK`). `NamesOK` and `EndsOK` say what is in the static arrays, and
  that endpoints have the names of their item. `Matches` then is about names only:
  what fits is not cut, and the prefixes and suffixes of different directions differ.
* *Requests.* `RInv`: the numbers a client got rise, `Pack` and `Unpack` are inverse,
  and so identities are different (`IdsOK`); whatever travels carries an identity that
  its client got, or is about to get, for just that payload (`KnownOK`).
* *Startup.* `SInv`, always: free sessions and nodes, those in the hands of a call and
  those in use are different ones (`FreeOK`, `SessionOK`, `NodeOK`); a pool whose step
  lies behind a call is made (`InitOK`); a context that is ready has a complete
  session (`ContextOK`); the semaphore was made at most once per session taken
  (`SemaphoreOK`); an item that a thread has seen is the first free one, or another
  thread got it meanwhile (`SeenOK`). `CInv`, under the hypothesis: whoever is in the
  pool of nodes is alone there with its present mutex (`KeptOK`), threads are idle
  while a session is made (`QuietOK`), nodes in the making
  and finished ones are apart (`ApartOK`), a sleeper has the present semaphore
  (`WaitOK`). What carries it is `Calm`: when a call of `rmw_init` has got past its test
  for a session, no other thread is in the pool of nodes or asleep; with one domain
  because there is no node yet: that would need a ready context, hence a session.

Where a proof needs the least element of a set of numbers (the first item of an
owner, the first place where two lists differ), `LeastNumber` of `ListLemmas`
supplies it from well-foundedness, in place of an induction.

**What proving changed in the model.** `Matches` was stated with a condition that
names of the instance met by chance: a service "aRequest" whose suffix has no room
reads the requests to the service "a". It now says that of two endpoints that meet
without belonging together one was cut (`Fits`). `AnswersMatch` now asks for exactly
one request. `Requests` and `Endpoints` name what they assume of the constants:
clients are not publishers, names are sequences. `NodesApart` was
claimed for every use while `get_memory` was one step in `Startup`; since it is in two,
TLC finds the two domains that break it, and the theorem has a hypothesis.

**Only model-checked.** `BoundedReturns` and `PoolDrains`: liveness under fairness
is out of the prover's reach. The violations of section 3 are counterexamples and
need no proof. That `StaticBuffers` may be written on top of `ItemPool` instead of
the links is argued by `PoolImplemented`, not by one composed specification. That
`get_memory` and `put_memory` may be one step there assumes that the mutex of the
buffers works; `OneInside` does not cover it, since `rmw_init` makes that mutex anew.
`StaticBuffers` is therefore about an application that does not call `rmw_init` once
messages arrive; run `remade_mutex` shows what happens if it does.

## 5. Not modelled, and why

* Stubs: there is nothing to model.
* The branch of `RMW_ERTPS_ALLOW_DYNAMIC_ALLOCATIONS`: no build file defines it.
  As written it would lock its own mutex twice (`memory.cpp:60`).
* Heap failures: `rmw_allocate` of a handle is not tested for NULL.
* Contents of messages, type supports, QoS: nothing depends on them.
* The graph cache: no build can contain it. With `RMW_ERTPS_GRAPH`,
  `rmw_publisher.cpp:132`, `rmw_subscription.cpp:136` and `rmw_init.cpp:129` call
  `rmw_graph_*` functions that they do not declare, `types.hpp:54` uses a type whose
  header it does not include, and the functions are declared and defined differently.
* A second thread in `rmw_init`, and nodes in a context for which it failed: the
  ROS 2 API excludes them.

## 6. Plan

Done: pools; receive path, takes and sequences of takes, waiting with its timeouts;
creation with names, and with the list as an unlocked walk sees it; sending;
initialisation with mutexes that are made anew; the proofs of all safety properties
and of both refinements. What is left of the code has no state (section 5).

What may still be done: the behaviour of `put_memory` on an item that is not
allocated, carried through `StaticBuffers`, so that `NoLeak` can be asked after it;
what remains true of a take that runs during a callback, where `Intact` fails; and
`Startup` with the links of the lists, so that it shows all that two threads inside
one pool may do.
