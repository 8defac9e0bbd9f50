# gtl: a verification development in TLA+

gtl is a C++ library of containers, memory allocators, smart pointers, threads
and network primitives. This directory models the parts of it whose correctness
depends on more than one call, one thread or one piece of state, checks them
with TLC on small instances, and proves with TLAPS what matters most for
instances of every size. Paths below are relative to `src/src/gtl`.

Read a component in this order: the abstract module (what it promises), the
module (what the code does), the `MC` module and the `.cfg` (the instances TLC
checks), the `Proofs` module (what holds for every instance).

## The system

| Part | State it keeps | Operations | What makes it correct |
|---|---|---|---|
| `thread/thread_pool` | `stop_`, `threads_`, `tasks_`, a mutex, a condition variable | Start, AddTask, Stop, the worker's Run | tasks run once, in order; none queued before Stop is lost; Stop returns and leaves no thread |
| `thread/thread`, `mutex`, `cond_var` | a pthread handle and two flags | Start, Join, Detach, Cancel, Kill; Lock, Wait, Signal | a handle is joined or detached once; no wakeup is lost |
| `memory/simple_allocator` (and its copy `gtl_allocator`) | regions, a list of all blocks, a sorted list of unused blocks, `region_count_` | Malloc, Free, Calloc, Realloc | memory handed out never overlaps; blocks tile the regions; neighbours are merged; regions are given back |
| `memory/smart_pointers` | a RefCount of two atomic counters shared by SharedPtrs and WeakPtrs | copy, move, swap, reset, destruction, lock | object and RefCount are deleted once, in order, not too early |
| `net/poller`, `epoll`, `kqueue`, `event_handler`, `reactor` | what the kernel watches, what each handler believes it watches, the results of the last Wait | Add, Mod, Del, Wait, Dispatch; RegsiterEvents, ModifyEvents, RemoveEvents | the handler's `events_` and the kernel agree; no callback for what was never wanted |
| `container/hash_table`, `unordered_map` | nodes in one chain, buckets that point into it | insert with and without a hint, erase, rehash, swap, copy, move | every node is found from its bucket, whatever changed around it |
| `container/lru_cache` | a ring of entries, a table of pointers to them, a capacity | Set, Get | ring and table agree; the least recently used entry goes first |
| `container/vector`, `storage` | a buffer with a size and a capacity | insert, emplace, erase, replace, assign, resize, reserve, copy, move | objects live exactly in the cells before `size_`; elements keep their order |
| `container/deque`, `queue`, `stack` | a map of blocks, two iterators into it | push and pop at both ends, insert, erase, assign, resize | the blocks are those between the iterators; elements keep their order |
| `container/list`, `slist`, `linux_list` and their bases | linked nodes, a head, a size, for `slist` a tail | insert, erase, splice, merge, reverse, the sorts | rings and chains of the right nodes; splices and sorts move nodes and copy nothing |
| `container/priority_queue`, `algorithm/heap_op` | a vector kept as a heap | push, pop, the heap functions | the greatest element is in front |
| `algorithm/seq_op`, `memory_op` | none | searches, copies, removals, reversals | the result is that of the standard function |
| `net/socket`, `select`, `net_event_handler` | a descriptor | SendAll, RecvAll, Connect, Accept ... | every byte is sent once, in order |
| `memory/smart_pointers`: AutoPtr, UniquePtr | one pointer | release, reset, move | one owner |
| arrays, spans, iterators, strings, logging, time, util | none that interacts | | not modelled |

How the parts interact: the containers take memory from the allocator through
`DefaultAllocator()`, from every thread; the pool keeps its handles in a Vector
and its tasks in a Queue, which is a Deque, and uses Thread, Mutex and CondVar;
the allocator links its blocks with `list_base.h` and locks with Mutex, and List
and LRUCache use the same ring; LRUCache looks its entries up in a HashTable;
PriorityQueue keeps a heap in a Vector, and Vector and Deque move their elements
with the loops of `seq_op.h` and `memory_op.h`; the reactor calls handlers back
from `Poller::Dispatch`, and handlers call the poller from those callbacks.

Hard behaviours: threads that read or write shared state without the mutex
(`Stop`, `AddTask`, `Malloc`), a condition variable whose predicate is changed
without its mutex, counters tested and changed in two atomic steps (`lock`),
calls that fail half-way (`pthread_create`, `mmap`), and long sequences of legal
calls that must keep a list sorted, coalesced and free of gaps, a bucket in step
with its neighbour in the chain, a tail with the last node, or the borders of
raw and live memory where a size says they are. `PROJECT.json` lists these
hazards line by line, with the properties that watch over each.

## Modules

* `Executor`: a FIFO executor, what `IThreadPool` promises.
* `ThreadPool`: the pool. `MCThreadPool`: its instances. `ThreadPoolProofs`: its
  invariants, and that it implements `Executor`, proved.
* `Heap`: an allocator, as the extents its callers own.
* `SimpleAllocator`: the allocator. `MCSimpleAllocator`: its instances.
  `SimpleAllocatorHeap`: what each of its operations does to the heap, as lemmas;
  `SimpleAllocatorProofs`: its invariants, and that it implements `Heap`, proved.
* `SharedPtr`: SharedPtr, WeakPtr and RefCount. `MCSharedPtr`, `SharedPtrProofs`.
* `EventHandler`: the reactor. `MCEventHandler`, `EventHandlerProofs`.
* `Sequence`: what a sequence container promises of its elements. `Storage`: the
  cells under Vector and Deque. `Links`: nodes and `list_base.h`.
* `Vector`, `Deque`, `Queue`, `List`, `SList`, `PriorityQueue`, `SeqAlgorithms`:
  the containers and functions of those names. `MCSequences`: their instances;
  it extends Vector and takes the others with INSTANCE. `VectorProofs`: that
  every operation of Vector leaves what Sequence promises, and its invariants,
  proved.
* `HashTable`: what each operation makes of the memory of a table; `HashTables`:
  tables on which they are called. `Recency`: an LRU cache, as the history of its
  use; `LRUCache`, which composes Links and HashTable. `MCKeyed`: the instances of
  both. `HashTableProofs`: that every operation of a table leaves a chain its
  buckets divide, and the invariant of HashTables, proved. `LRUCacheProofs`: that
  ring and table agree and that the cache implements `Recency`, proved on those
  lemmas. It extends `HashTableProofs`, which brings the constants of `HashTables`;
  no definition of the cache mentions them.

Operators named `Slip...` take no part in a specification. Each is a plausible
mistake in the definition it stands before; put in its place, it makes TLC find
the property violated that `PROJECT.json` pairs it with, which shows that the
property can tell the code from a wrong version of it.

### ThreadPool

Variables have the names of the members (`stop_`, `threads_`, `tasks_`,
`mutex_`); `waiters` are the threads blocked on `cond_var_`; `wpc`, `apc`, `opc`
say where a worker is in Run, a caller in AddTask, the owner in Start or Stop.
An access made without `mutex_` is a step of its own: `stop_ = true`, the
broadcast, `threads_.empty()`, and the signal, which AddTask sends after its
unlock. A critical section that runs to its end is one step; the worker's is cut
between the test of the predicate and the wait, and between the test and the
pop, because that is where others can meet it. `pthread_cond_wait` releases the
mutex and enlists the thread in one step and may wake for no reason
(`SpuriousWakeup`); the mutex is taken again before the predicate is.
`SpawnFails` is `pthread_create` failing: an invalid handle stays in `threads_`
and Start goes on. `early` and `missed` are history variables: the tasks queued
while `stop_` was false, and the workers that were between their test and their
wait when Stop broadcast.

The owner calls Start and Stop from one thread, as often as it likes; a Start
after a Stop is in the model, two Stops at once and a Stop from a task are not.
Tasks terminate, and may add tasks.

### SimpleAllocator

A block is named by the address of its header, `<<region, offset>>`. `heap` has
the size and the flag of every block (`block`), the list of all blocks (`list`),
the list of unused blocks (`free`) and `region_count`. The private functions of
the class are operators from one heap to the next, under their own names. Sizes
are bytes and the constants of the run are those of the source (72 bytes of
header, 128 KiB regions), except `kMaxBlockCount`, which is 1 instead of 1024 so
that regions are given back.

Everything Malloc does under `mutex_` is one step. What it does after the lock
is released (`NewBlock`, `NewBlockLink`, `NewBlockEnlist`, `NewBlockShrink`,
`NewBlockMark`) is one step per list operation. Free is cut where MergeBlock has
chosen the leftmost unused neighbour and not yet used it, and at every turn of
the loop of MergeRightBlock (`FreeEnlist`, then `FreeMergeRight` as often as
there is a right neighbour to merge, then `FreeMerge`, which re-sorts the block,
unmaps a surplus region and unlocks). `mapped` is the system's side: how many bytes
of each region NewBlock has asked for and DeleteBlock has not given back, each by
the size it computes itself. Realloc
is the check of the block's own size, the attempt to grow in place, and Malloc
followed by Free. `raced` is set when a step touches the heap while another
thread is in an unlocked section. List operations are single steps even there,
so from that point on the model shows some outcomes of the data race and not
all; no property except the one the race is shown with says anything once
`raced` is set.

Not modelled: the overflow of Calloc, its clearing of the memory, alignment, the
copy of the data in Realloc and the texts of MemoryInfo and LeakStats. The loop
of MergeBlock compares with the wrong list head; what it then reads is never a
region address, so its other test stops it, and the model stops there.

### SharedPtr

One object, its RefCount and the pointers to it. The processes are the pointer
objects: `at[p]` is what p refers to or where its operation stands. Increments
and decrements are atomic steps; the destructor of the last SharedPtr is
`DecUseCount`, `DeleteData`, `DecWeakCount` and perhaps `DeleteRefCount`, and
`lock()` is `LockTest` and `LockInc`. A pointer that is copied from is not
changed at the same time (the rule of the standard library and of
`docs/smart_pointers.md`), so a copy is one step; a WeakPtr that is being locked
is not changed either, but other pointers are. `forgotten` counts the WeakPtrs
that were reset: reset does not give the weak count back. Once lock() has taken
`use_count` from 0 to 1 (`revived`) the program has undefined behaviour and the
behaviours of the model end.

### EventHandler

Handlers with a descriptor each, one poller, one thread. `events_[h]` is the
member of the handler, `watched[h]` what the kernel watches for its descriptor,
which is another matter: EventHandler ignores what `Add`, `Mod` and `Del`
return. Each member function is an action; `Wait` fills `results` and
`HandleEvents` dispatches the first of them, one callback at a time. The member
functions may occur between any two callbacks, which is what a callback that
asks for or drops events does, of its own handler or of another.

`poller` is chosen in `Init` as the build chooses it in `CreatePoller`. The
kernel is modelled from the calls: `EPOLL_CTL_ADD` fails for a descriptor that is
registered, `EPOLL_CTL_MOD` for one that is not, `EPOLL_CTL_DEL` ends a
registration whatever events it is given; kevent handles each filter by itself
and stops at the first change it cannot make. Any request to add may be refused
(no memory). Two histories say when the two pictures may differ: `refused`, the
handlers that were refused an event, and `split`, the handlers that, since they
last had no events, registered twice, gave up one event of two or modified a
registration they did not have, which epoll answers with an error or with
forgetting the descriptor.

Not modelled: descriptors that are closed or that two handlers share, handlers
that are destroyed, edge triggering, timeouts, and pollers used without a
handler as in the examples.

### The containers

Each operation of a container is an operator from the memory before the call to
the memory after it, built from the operators of the private functions the code
calls, in their order and under their names. The actions apply the operators to
a few objects, so that TLC reaches the states from which calls differ. The
properties come in two kinds: one invariant of the memory (no cell, block, node
or bucket out of place, none lost), and one that, from every state reached,
tries every call with every argument in the bounds and compares what it leaves
with the sequence or the amounts that `Sequence` or the standard say.

Where the code does not do what the standard asks, the model does what the code
does and the property leaves those calls out under a name of its own (such as
`LosesElement` or `UniqueSeesMoved`); "What was found" lists them. A call that ends in
undefined behaviour whatever the state is no action.

*Vector* and *Deque* keep cells, not values: a cell is `Raw` before an object is
constructed in it, `Moved` after one was moved from, and becomes `Bad` when code
assigns to raw memory, constructs over an object or leaves the memory, so the
order and the borders of each loop matter. A Deque iterator, which is a pointer
to a block, its borders and a place in it, is the integer that block index and
place make; its carries at the edges of blocks are what integer arithmetic does.
`MinCapacity` is the 16 of `next2capacity`, `block_capacity_` the number of
elements in a block, which the source sets to 16 as well. *Queue* is Deque with the calls `queue.h` leaves, and the two
promises of `docs/deque.md` that these break.

*List* and *SList* are in one memory each, with the nodes and heads of all lists
and of the temporary lists the sorts make; addresses are given out lowest first.
`transfer`, `splice`, `merge` and the three sorts are modelled link by link, and
`ListNodesMoved` says that nodes move and are neither copied nor lost.

*HashTable* keeps the chain and the buckets, `before` and `finish` being
`node_before_begin` and `node_finish`. A key is its own hash; two of
the keys share a bucket at every size in the bounds. `equal_key` insertion keeps
equal keys together, and a hint is any node or none. After a swap or a move the
bucket of a table's first node is behind the head of another table: the table is
`Stale`, `BucketsExact` says that nothing worse is wrong with it, and only calls
that look at no bucket, or empty it, are made of it. *LRUCache* is the ring
of `list_base.h` and that table, unabstracted; `used`, the history it is mapped
to `Recency` with, is the order of the calls. In *PriorityQueue* the vector is
a sequence, since Vector is checked by itself. In *SeqAlgorithms* a range is a
sequence and the value of a moved-from element is `Moved`, or the element itself
for a type that has nothing to move; the results are compared with definitions
by quantifiers, each loop with one of its own.

## What the runs check

| Run | Instance | Shows |
|---|---|---|
| `pool_safety` | 2 workers, 1 producer, 3 tasks, 3 handles, 1 spurious wakeup; about 126,000 states | tasks leave in the order of arrival and run at most once (`ImplementsExecutor`), the worker's `front()` is defined, every thread still in Run can be joined, what was queued before `stop_` is done when Stop has returned |
| `pool_liveness` | 2 workers, 1 producer, 2 tasks | no signal of AddTask is lost; Stop returns unless its broadcast missed a worker |
| `pool_stop_hangs` | 1 worker | Stop may never return |
| `allocator_heap` | 2 threads, sizes 8, 130904 and 131000, 2 regions, 4 pointers; about 1,660,000 states | the blocks tile each region from its start to the end of what is mapped of it, and what has no block is not mapped; the free list is exact and sorted, neighbours are merged, nothing leaks, surplus regions go, no check fails, and the allocator implements `Heap` |
| `allocator_race` | 2 threads, one size | two threads that only call Malloc and Free make a `GTL_CHECK` fail |
| `shared_ptr_counts` | 4 SharedPtrs, 3 WeakPtrs, 2 resets; 386 states up to symmetry | counters are exact; the object and the RefCount are deleted once and in time |
| `shared_ptr_lock` | 2 SharedPtrs, 1 WeakPtr | lock() may return a SharedPtr to a deleted object |
| `event_handler` | 2 handlers, 2 results, epoll and kqueue; about 139,000 states up to symmetry | the kernel watches what `events_` says and nothing that was dropped; callbacks are for events the handler had asked for |
| `sequence_containers` | one container at a time, chosen by `kind`: 2 vectors, a deque, 2 lists, 2 slists, a priority queue, a range; about 23,600 states, from each of which every call is tried | memory exact and each call's result the standard's, for Vector, Deque, List, SList, PriorityQueue with the heap functions, and seq_op |
| `keyed_containers` | 2 tables or one cache, chosen by `kind`; about 45,000 states | buckets exact, those of a swapped or moved table included, whose first one is behind another head (`BucketsExact`), and elements found (`TableContents`); ring and table agree (`ListAndTableAgree`), and the cache implements `Recency` |
| `deque_reuse` | a queue of at most 2 elements | a push after the queue was emptied writes where no block is |
| `deque_map_waste` | the same | the map doubles without limit while the queue stays short |

The bounds. *Pool*: two workers and a producer are what it takes for a task to be
taken by another worker than the one signalled, three tasks for one to be queued
behind another while a third runs; three handles leave room for a failed one and
for a second Start. *Allocator*: the first block of a
region has 131072 bytes of data. A request of 130904 leaves 168 of them, a header
and a remainder of 96; 8 bytes out of that leave 88, exactly the header and the 16
bytes of the smallest split. A request of 131000 leaves 72, too few to split, and 8
is smaller than the list node written into an unused block. Two regions and a
limit of one make the second go back. Four pointers allow an unused block
between used ones in both regions, the case where both neighbours merge.
*SharedPtr*: three SharedPtrs are needed
for one to be copied while another dies and a third is being locked.

*EventHandler*: two handlers and two results are what it takes for one callback to
change what another result of the batch is about.

*Sequence containers*: blocks of three elements give a block an inside as well as
two edges; five elements lie in two or three blocks and a map of 8 in which they
can begin anywhere; the least capacity of two in place of 16 makes vectors and
maps grow within these bounds. Two vectors hold 4 elements together, with
capacities of 2 and 4, so that insertions meet raw cells, live cells and the
border of both, in place and with growth. Lists hold 3 nodes together, which
puts 2 in one and 1 in the other for the calls between two; the sorts are also
tried on every list of up to 5 nodes, what it takes for `sort` to merge runs of
1, 2 and 4. Ranges go up to 5 elements, heaps up to 4: odd and even lengths, and a
last parent with one child and with two.
*Keyed containers*: keys 0, 2 and 4 share a bucket of a table of two buckets, 0
and 4 one of four, and 1 lies between them in the chain; three nodes make a
rehash from 2 to 4 buckets and a bucket whose `before` is another bucket's
last. Capacities of the cache go from 0 to 3 and there are 4 keys, so every cache
overflows. *Deque violations*: a queue of two elements needs two blocks at most,
so any map of more than four times the least shows the growth.

`CHECK_DEADLOCK FALSE` stands where the system may stop: all tasks done and nobody
calling, no pointer left, a container at the bounds, or undefined behaviour
reached. The reactor never stops and is checked for deadlock.
Symmetry is declared only where no action tells the permuted values apart, and
in no run with a liveness property.

Fairness, in `FairSpec` of ThreadPool only: the scheduler runs each thread that
can take a step of its own code (weak fairness per worker, per caller with a call
under way, and for the owner inside Start and Stop). Nobody is obliged to call
anything, and no spurious wakeup is owed. Weak fairness on taking `mutex_` is
what a mutex without priorities gives to a finite number of threads whose
critical sections end.

## What was found

* **Stop can hang** (`pool_stop_hangs`, `thread/thread_pool.h:39`). `stop_` is
  set and the broadcast sent without `mutex_`; a worker between its test and its
  wait hears neither. `StopReturnsUnlessMissed` shows that this is the only way.
* **Malloc works unlocked on shared lists** (`allocator_race`,
  `memory/simple_allocator.cc:24`). `NoFault` and the other invariants show
  that the algorithm is right as long as no other thread is inside meanwhile.
* **lock() can revive a dead object** (`shared_ptr_lock`,
  `memory/smart_pointers.h:380`). `DeletedOnce` and its companions show that
  the counting is right in every behaviour without such a lock.
* **A queue that was emptied cannot be pushed to** (`deque_reuse`,
  `container/deque.h:533`). Removing the last element destroys the block both
  iterators point to and keeps the map; the next push writes into no block. The
  queue of ThreadPool is used in this way. (In `ThreadPool`, `tasks_` is the
  queue as it is meant to be; the two parts are shown apart.)
* **A short queue's map grows for ever** (`deque_map_waste`,
  `container/deque.h:609`). `reallocate_block_storage` asks for the old map and
  the new blocks and doubles that, however few blocks are in use.

The container properties hold with the following calls left out, each of which
the code gets wrong; most are named by an operator in the module.

| Where | What the code does |
|---|---|
| `vector.h:293` | emplace in the middle of a vector that is not full loses an element |
| `vector.h:263` | insertion of a range in place before the end writes the wrong elements or runs off the storage |
| `vector.h:198` | assigning an empty range keeps the elements; self move-assignment empties (also List) |
| `vector.h`, `list.h`, `slist.h`, `deque.h` | `operator!=` calls itself |
| `deque.h:512`, `:519` | emplace in the left half moves one element too many, in the right half it loses one |
| `deque.h:432`, `:481` | insertion in the right half overlaps when more than twice the inserted elements follow; inserting a whole block or more miscounts the blocks |
| `deque.h:611` | building a deque of nearly 16 blocks underflows `mid_offset` |
| `list.h:348`, `:369`, `slist.h:329` | `merge_sort(comp)` and `sort(comp)` ignore `comp` |
| `list.h:179`, `:413`, `slist.h:378` | `assign(count, value)` does not clear, assigning nothing does nothing |
| `list.h:408` | `qsort` changes the dummy head, so `end()` taken before it dangles |
| `slist.h:233` | `pop_back` dereferences null |
| `hash_table.h:271`, `:554` | swap and move leave the bucket of the first node behind the other head |
| `hash_table.h:221` | `erase(pos)` among equal keys erases the first of them |
| `hash_table.h:565` | assignment reserves `bucket_count` elements, so buckets double at each copy |
| `priority_queue.h:69` | `pop` ignores `compare_`; swap leaves it behind |
| `seq_op.h:584`, `:613` | `reverse` runs off a range of even length, `unique` compares with an element it has moved from |
| `seq_op.h:642` | `unique_copy` with a predicate assigns the first element to the iterator and not through it, which is the same for one that inserts and for no other |
| `seq_op.h:427`, `:543`, `:598` | `remove_copy` and its forms return the iterator they write through as the type of the one they read with; `replace_copy_if_n` ends without a return and `rotate` has no body, and both are in no module |
| `lru_cache.h:49` | with capacity 0, Set returns an iterator to the node it has destroyed; the moves do nothing, `LRUMap::Set` calls itself |

Worth knowing, although no line of the source promises otherwise: with epoll a
handler must not call RegsiterEvents twice or RemoveEvents for one event of two
(`net/event_handler.cc:16`, `:41`). The first is rejected and the second ends the
whole registration, while `events_` says something else; `WatchedAsBelieved`
needs `split` for that reason. ModifyEvents is safe once the handler is
registered.

## What is proved

For all values of the constants that satisfy the assumptions of the modules
(`PoolAssumption`, `PtrAssumption`, `PollerAssumption`, `AllocatorAssumption`,
`StorageAssumption`, `VectorAssumption`, `TableAssumption`, `TablesAssumption`,
`CacheAssumption`),
and checked by `tlapm` down to the last leaf:

* `ThreadPoolProofs`: `TypeCorrect`, `FrontAlwaysDefined`, `NoThreadForgotten`,
  `StopDrains`. None of these invariants is inductive by itself. `Inv` adds who
  can be where: a worker past its test holds `mutex_` (`HolderOK`), the threads
  in `waiters` are blocked (`WaitersOK`), a call under way has its arguments
  (`CallsOK`), the handles the join loop has passed are of threads that ended
  (`JoinedOK`), and every early task is queued, running or done, none of them
  queued once a worker has left (`EarlyOK`). `DrainedOnStop` then follows: when
  the join loop is through, no worker is left in Run, and the last to leave saw
  an empty queue with `stop_` set. And `PoolImplementsExecutor`, which is `Spec =>
  ImplementsExecutor`. A push maps to `Submit` only if nobody has the task, and
  the end of `func()` to `Finish` only if no other worker runs the same one;
  `OnceOK` says so: a task is in one place at a time on its way from its caller
  through `tasks_` to a worker, and with `Inv` it is inductive. `OwnerRefines`,
  `CallerRefines` and `WorkerRefines` map the steps of each kind of thread to a
  step of the executor or a stutter, with the same `Abstract` that TLC checks.
* `SharedPtrProofs`: `TypeCorrect`, `CountersExact`, `ObjectDeletedOnce`,
  `RefCountDeletedLast`. `Inv` adds that at most one pointer ends the sharing,
  and then no SharedPtr is left; that a lock under way keeps its WeakPtr; and that
  `weak_count` is 0 exactly from the moment some pointer is chosen to delete the
  RefCount. The counts are cardinalities of sets of pointers; `Enter`, `Leave`
  and `Apart` say what one pointer changing its state does to them, and every
  step cites these lemmas.

* `EventHandlerProofs`: `TypeCorrect`, `KernelAgrees`, `DroppedIsUnwatched`,
  `CallsWereAsked`. Here the properties together are inductive: that what is
  watched stays within `events_` is what makes a batch harmless, and equality is
  what makes kqueue's list of deletions complete. `OneHandler` reduces each
  member function to what it does to one handler.
* `SimpleAllocatorProofs`, on the lemmas of `SimpleAllocatorHeap`:
  `AllocatorTypeOK`, `AllocatorRegionsTiled`, `AllocatorFreeListExact`,
  `AllocatorCoalesced`, `AllocatorUsedIsHeld`, `AllocatorFreeNodeFits`,
  `AllocatorFreeRegionsBounded`, `AllocatorNoFault`, and `AllocatorImplementsHeap`,
  which is `Spec => ImplementsHeap`. The next section says how.
* `VectorProofs`: `VectorSlotsExact`, `VectorElementsKept`, and the lemma about
  each operation that both rest on. The section after the next says how.
* `HashTableProofs`: `TablesInvariant`, `TablesBuckets`, `TablesContents`, and a
  lemma about each operation of a table. The last section but one says how.
* `LRUCacheProofs`, on the lemmas of `HashTableProofs`: `CacheInvariant`,
  `CacheAgrees`, and `CacheRecency`, which is `CacheSpec => ImplementsRecency`. The
  last section says how.

### The proof about SimpleAllocator

`AllocatorAssumption` asks of the constants what the source's satisfy: a list
node fits into the data of the smallest block a split leaves, a header is longer
than the name it begins with, and a region has room for a header. The numbers of
threads, regions and held pointers, the sizes asked for and `kMaxBlockCount` are
arbitrary.

*The heap between operations.* `Sound(h, pending, open)` says that the block list
tiles the regions (`Tiled`), that the free list is exact and sorted
(`FreeExact`), that a list node written into a block stays within its region
(`NodesFit`), and that few regions are unused (`FewFreeRegions`). `Mapped(h, m)`
says that the last block of each region ends where the mapping m of it does, and
that m maps nothing else; splits, merges and sorting leave each region's end where
it is (`SameEnds`), and a block without neighbours is as long as its mapping, which
is what DeleteBlock unmaps (`DeleteMapped`). `RegionsTiled`
alone is not inductive, since a block may be end to end with the one before it
and yet overlap a third: `InOrder` and `Together` add that the blocks of a region
are in the order of their addresses and that no other region's block is among
them. `FreeNodeFits` needs `NodesFit` of the used blocks as well, since Free is
what makes them unused.

*The heap inside an operation.* The arguments name the exceptions: `pending`, the
unused blocks that are in no free list yet (the new block of Malloc's slow
path, the remainder SplitBlock has linked); `open`, the block whose size has
changed since it was sorted; and for `CoalescedBut`, the blocks that may still
have an unused neighbour. `SimpleAllocatorHeap` has a lemma for each private
function and for each of these parts. Neighbours that Free has still to merge
are a `Run`, which each turn of the loop shortens and which is the block alone
when the loop ends. The remainder that `NewBlockLink` has linked overlaps the
block it comes from until `NewBlockShrink`: in between it is the heap `Settled`,
as the shrink will leave it, that is sound.

*The threads.* `IInv` is that, as long as `raced` is not set, at most one thread
is inside the heap (`OneInside`), each call's pointer is held and belongs to no
other call (`CallsSound`), the used blocks are the held ones (`HeldSound`), and
the heap is off by what the stage of the thread inside allows (`StageSound`), or
not at all when nobody is inside. A step that would race sets `raced`, after
which nothing is claimed, as in the runs: `allocator_race` shows that nothing can
be. For the same reason `AllocatorTypeOK` states `~raced => TypeOK`; TLC checks
`TypeOK` after a race too, in the behaviours the model shows of one.

*Heap.* The extent of a held pointer lies in its block, and the blocks of every
heap a stage allows lie apart once the pending shrink is done, so an extent that
a step adds or grows is apart from all the others.

Two arguments stand in for induction, which the prover cannot do over data: the
element SelectInSeq finds and the leftmost neighbour of MergeBlock are least and
greatest elements, which exist by the well-foundedness of inclusion between
finite intervals (`LeastNat`); and `region_count` stays within `MaxRegions`
because the regions' first blocks map one to one into `Regions`.

### The proof about Vector

`StorageAssumption` and `VectorAssumption` ask that the marks of cells are no
elements and that bounds and the least capacity are numbers. Nothing bounds the
number of vectors, the lengths and capacities, or the values.

*The invariant.* `Stored(s, cap)` is the storage of `cap` cells whose first ones
are the elements of s and whose others are raw, and `IInv` says that every vector
has such a storage for some sequence of objects. Moved-from objects are among
these: the calls that lose elements leave them behind. It implies `SlotsExact`,
which TLC checks and which says the same cell by cell, and from a state that
satisfies it `ElementsKept` is a statement about the operators alone: for
each call, that `Op(Stored(s, cap), ...)` is a storage that holds the sequence the
standard promises of s (`InsertFillIs`, `InsertRangeIs`, `EmplaceIs`, `EraseIs`,
`ReplaceOneIs`, `ReplaceRangeIs`, `AssignRangeIs`, `ResizeIs`, `GrownIs`,
`ConstructedIs`). The lemmas hold for arguments of every length, where the
properties TLC evaluates try three elements. The calls that lose elements are
proved to keep `IInv` and nothing more.

*The loops.* `UninitializedMove`, `Move` and `MoveBackward` are recursive functions
of the number of turns, one element each. `Shifted` is the memory such a loop
should leave, as a formula, and `UninitializedMoveIs`, `MoveIs` and `MoveBackwardIs`
say that it does, if source and destination are filled or free as each loop needs
and lie in the direction it goes; this is where the order of the loop matters, since
a cell must be read before it is written. The loop and the formula agree at the
start and one turn keeps them in step, so there is no first turn at which they
differ (`SameLoop`): least counterexamples (`LeastNat`) take the place of
induction. That a loop of n turns has a run at all, a recursive function on
`0 .. n`, is proved in the same way (`LoopRuns`).

*The ways through the storage.* An insertion that has room uses two of these loops
or a loop and a construction, split at the border between live and raw cells
(`LastMovedIs`, `MovedUpIs`, `MovedPastIs` are the cells after the first of them);
one that has none builds the new storage from three parts (`RegrownIs`).

### The proof about HashTable

`TableAssumption` asks that nodes are finitely many numbers, keys are numbers and
the least number of buckets is not 0; `TablesAssumption`, that the heads of the
tables are no nodes. How many tables, nodes, keys and buckets there are is open,
and so is how many keys share a bucket.

*The invariant.* `ChainIs(mem, t, s)` says that the nodes behind head t are the
sequence s. `Filed` adds that `size_` is its length and each bucket is right: the
nodes of a bucket are a `Block` of s, those from some place to another and no
others, its finish is the last of them and its before the place in front of the
block, which may be a node of another bucket or the head. `Held` adds that nodes
of one key are neighbours (`Together`). `Chained` says that every table holds a
chain, the chains share no node, and no table is fuller than three nodes to four
buckets (`Light`), as insertions and rehash leave it. What the bucket of a first
node is behind is left open by `Held` where a swap or a move may have been
(`stale`); `BehindHead`, a part of `Chained`, says that it is a head all the same,
which goes with the chain in a swap (`BehindKept`) and is the table's own again
after any call that looks at its buckets (`BehindOwn`). If it is the table's own, the table is
not `Stale` and everything about it is right (`NotStale`). `BucketsExact`, which TLC checks, says the
same of the nodes themselves and follows (`HeldExact`).

*Two operations on a chain.* Everything that changes a table does so through
`insert_node` and `erase_node`. `Spliced(s, p, g)` is s with the nodes g behind its
first p: `InsertNodesIs` says that insert_node makes it of s, and `EraseNodesIs`
that erase_node makes s of it. Both go through the buckets one by one: the one the
nodes are of gets longer, shorter, begins or ends; the one that begins behind them
must be told its new neighbour, which `hash_table.h:486` does and `:459` undoes; the
others only move along the chain. An insertion is right where `Mayput` and
`Beside` say: inside or at the edges of the bucket, and not between two nodes of
another key.

*The operations.* find_node ends at such a place (`FindNodeIs`), and so does a hint
that is used (`HintIs`). `Becomes(mem, r, T, t, s, q)` says that a call made the
chain q of the chain s of table t and changed nothing of the others; each operation
has a lemma that it does (`InsertIs`, `InsertRangeIs`, `ErasePosIs`, `EraseRangeIs`,
`EraseKeyIs`, `RehashIs`, `ReleaseIs`, `AssignListIs`, `CopyIs`; `ChainedSwap` and
`MoveHeld` for two tables at once).

*The loops.* do_rehash, erase_range and insert_range are loops, recursive functions
of the number of turns. `LoopInside` is the rule for them: if each turn leads
from one set of states to the next, there is a run of the loop that keeps to
these sets, and so the run of the model does. For do_rehash the set says that the groups passed so far
are a table again, in new buckets, and the others are linked as they were
(`Rehashing`); for erase_range that the nodes up to `last` are still to go, behind
the same node (`Erasing`); for insert_range that every key of the range so far is
there once more (`Growing`).

*What is in a table.* `TableContents` is about what a call leaves, counted by key.
`Bears(mem, s, k)` is how many nodes of the chain s have key k: since a chain has no
node twice, that is `Amount` of the keys a caller reads (`PlacesCount`,
`AmountsAre`), and since nodes of one key are neighbours, it is how many find_range
finds (`RangeCount`). Each operation's lemma says which nodes it adds or drops, so
what is left to prove is a count: insert adds one node that has the key
(`InsertLeaves`), erasures cut the nodes they are told and no others (`Cut`,
`ErasePosLeaves`, `EraseRangeLeaves`, `EraseKeyLeaves`), rehash moves nodes and
leaves their keys (`RehashLeaves`), and copies bear each key as often as the other
table (`Refilled`, `CopyLeaves`). equals compares the sizes, and the amounts of the
keys of the first table only: if they agree, the nodes of the first table go into
the second one to one with their keys, by the sizes onto it, and no key is left that
only the second one has (`AsOftenFits`, `EqualsIs`).

### The proof about LRUCache

`CacheAssumption` asks that the addresses of the ring's head and of the table are
no nodes and that there are more nodes than the capacity, since Set adds an entry
before it drops one. Keys, values, the capacity and the number of calls are
arbitrary.

*The invariant.* `ListAndTableAgree` says what a caller can see and is not
inductive: that the table finds a key rests on its buckets, and which entry goes
next rests on the order of the whole ring. `CacheInv` names the ring, a sequence r
of nodes, and has two parts. `Holds` says that `next` and `prev` run through r and
back (`Ring`), that the table holds a chain its buckets divide (`Held` of
`HashTableProofs`), and that `second` maps the nodes of the table one to one to
those of r with the same keys (`Mapped`). `Recent` says that r has the keys used
last, in the order of their use, and no more of them than the capacity.

*The calls.* `RemovedIs` and `AddedIs` say what the two operators of `Links` do to a
ring, `DestroyNodeIs` what the loss of an entry does to ring and table, with
`EraseKeyIs` for the table; on them rest `GetStep`, `UpdateStep`, `AddStep` and
`DestroyStep`. A found node goes first (`HitIs`). A new one goes first too, and if
it is one too many the last of the ring goes, which is the node of the key used
least recently (`MissInOrder`). The loop of the destructor drops the last node at
each turn (`DropTurn`); `LoopInside` gives what is left after all of them.

*Recency.* By `Recent`, the keys of the ring are the first `capacity_` of `used`
(`CachedIs`), which is what `Recency` says of `cached`; that the value of a key in
the ring changes only in a call that sets it is the rest of `RecencyStep`.

Every `Inv`, `IInv` and `OnceOK` was checked with TLC before it was proved, those of
Vector and HashTable in the form of `SlotsExact`, `BucketsExact` and `TableContents`, that of LRUCache in the
form of `ListAndTableAgree` and `ImplementsRecency`.

### What is only model-checked

`TypeOK` of SimpleAllocator after a race; Deque, the lists, PriorityQueue and
SeqAlgorithms; and liveness, which TLAPS cannot prove here. The prover has no
induction over data: what Vector and HashTable show of their loops is open to
others whose turns can be described one by one; for what `SeqAlgorithms` computes
with folds and for the sorts of the lists there is no such description at hand.

## Plan

1. Deque's cells with the lemmas of `VectorProofs` about the loops they share.
2. `Thread`: the life cycle of a handle with Join, Detach and the moves.
3. `Socket`: SendAll and RecvAll over partial transfers and interrupts.
4. `UniquePtr` and `AutoPtr`: one owner under release, reset and moves.

Left out for good: `UnorderedMap` (its header does not compile; what it calls is
HashTable), `Select` (does not compile), NetEventHandler (unfinished),
`gtl_allocator` (a copy), `linux_list.h` (macros that nothing uses), CallOnce,
arrays, spans, iterators, strings, logging and time, which keep no state that
interacts. `Stack`, two names for calls of Deque, has no module of its own.
Swap and copies of a Deque, and insertions of a whole block, are not modelled.
