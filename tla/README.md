# A TLA+ verification of parallel-packed-csr

parallel-packed-csr stores a directed graph with edge values in a packed memory
array and lets a pool of threads add and remove edges in parallel. This project
holds TLA+ models of the parts in which the program's correctness is decided,
TLC configurations that check them on small instances, and TLAPS proofs of what
holds for every instance. Paths below are relative to the repository; `PCSR.cpp`
stands for `src/pcsr/PCSR.cpp`.

## 1. The system

### Components

| Component | State | Operations | Module |
|---|---|---|---|
| `FastLock` (`src/utility/fastLock.h`), the global lock | `lockRequested`, `thread_counter`, `arrived_threads`, `mtx` | `lock`, `unlock`, `lock_shared`, `unlock_shared`, `registerThread`, `unregisterThread` | `FastLock`, `RWLock` |
| `HybridLock` (`src/utility/hybridLock.h`), one per leaf | a shared mutex and a version counter | `lock`, `lock_shared`, `++`, `load` | in `PCSR` |
| the edge list (`PCSR.cpp`) | `edges.items`, `edges.N/logN/H`, `nodes` | `insert`, `remove`, `redistribute`, `slide_*`, `double_list`, `half_list`, `binary_search`, `add_node` | `EdgeList` |
| updates (`PCSR.cpp`) | the above, the locks, each call's locals | `add_edge_parallel`, `remove_edge`, `acquire_insert_locks`, `acquire_remove_locks`, `got_correct_insertion_index` | `LockPlan`, `PCSR` |
| readers (`PCSR.cpp`) | - | `edge_exists`, `get_neighbourhood`, `read_neighbourhood`, ... | `EdgeList`, `FastLock` |
| `ThreadPool` (`src/thread_pool`) | task queues, `finished` | `submit_*`, `start`, `execute`, `stop` | `ThreadPool` |
| `ThreadPoolPPPCSR` (`src/thread_pool_pppcsr`) | the same, and tables of the threads of each domain | the same, with a change of registration | `ThreadPoolPPPCSR` |
| `PPPCSR` (`src/pppcsr`) | partitions, their first vertices | delegation by `get_partiton` | `PPPCSR` |
| `update_existing_graph` (`src/main.cpp`) | the batch it is at | submits a batch, `start`, `stop` | in `ThreadPool` |
| `bfs`, `pagerank` (`src/utility`) | - | sequential readers | not modelled |

### How they interact

A worker of a pool registers with the global lock when it gets its first task and
unregisters when its queue is empty. Each update is bracketed by `lock_shared` and
`unlock_shared` of the global lock. Inside it searches its slot (under shared leaf
locks when `lock_search` is set), lets go of those, takes exclusive locks of the
leaves its redistribution may touch, compares the version of the slot's leaf with
the one it saw at the search, writes, increments the versions of its leaves and
unlocks. When it must resize the array, or has tried too often, it leaves the
shared section and does its work under `lock`/`unlock` of the global lock, with no
leaf lock at all. Readers take no lock.

The main thread fills the queues, runs worker 0 itself and then joins the others; a
second batch may follow on the same graph. In the partitioned graph each partition has a
global lock of its own, and a worker changes its registration when its next task has its
source in another partition.

### What is hard

* The global lock's shared side takes no lock in the usual case. A writer trusts a
  comparison of two counters that are loaded one after the other.
* A search and the write it leads to are apart in time. A version counter of one
  leaf is all that connects them.
* Lock sets grow while they are used: to the right in place, to the left by
  letting everything go and starting again.
* Sentinels are edges of the array and boundaries of the vertices at once. Every
  move of one must be followed in `nodes`.
* Without shared leaf locks (`lock_search = false`) a search reads slots, versions and
  `nodes` while others write them.
* A worker that is registered but does not come back would stop every writer; one that
  comes back without registering would not be waited for.
* The boundaries: the last slot, the last vertex, the first slot, a single leaf,
  and repeated subtraction of a double that is then truncated.

What makes the components correct: the global lock excludes and is never left
waiting for nobody; the array keeps each vertex's edges in its block, in order and
once; every write stays inside its locks; the updates are linearizable, i.e. behave
like one atomic change of a graph each; every call returns; a pool runs every task once,
under the right registration, and stops; every vertex is in the partition that is asked
for it.

The `hazards` of `PROJECT.json` list the dangers line by line, with the property
that watches each one, or why none does yet.

## 2. The modules

| Module | What it is |
|---|---|
| `RWLock` | a shared/exclusive lock in four lines: what callers of the global lock rely on |
| `FastLock` | `fastLock.h`, one atomic access per step; implements `RWLock` |
| `FastLockProofs` | proofs about it, for every finite set of threads |
| `EdgeList` | the packed memory array as operators on a value `[N, items, nodes]`, one operator per function of the code, and what a well-formed list is |
| `LockPlan` | what a thread that holds the locks of leaves `lo..hi` decides to do next |
| `Graph` | what PCSR promises: a linearizable graph |
| `PCSR` | updates by several threads over `EdgeList`, `LockPlan` and an `RWLock`; implements `Graph` |
| `Arithmetic` | division, remainders, powers of two, and induction as a statement about sets of numbers |
| `EdgeListProofs` | proofs about the operators of `EdgeList`: the shape of a list, the geometry of leaves and windows, `binary_search`, and that `redistribute`, `double_list`, `half_list` and the slides keep the edges and their order; which slots `insert` writes |
| `PCSRProofs` | proofs about `PCSR`: the global lock, the leaf locks, their order, and that the locked leaves cover every slot to be written |
| `WriteProofs` | proofs about what `PCSR` writes and about the size of its array, and that `insert` and `remove` keep a list well formed and change its edges as they should |
| `BlockProofs` | proofs that `nodes` and the sentinels agree, that edges stay in the blocks of their sources and in order, that `PCSR` implements `Graph`, and its type correctness |
| `ThreadPool` | the pool of one graph, composed with every step of `FastLock` |
| `ThreadPoolProofs` | what is proved of the lock holds in the pool; the pool's invariants |
| `PPPCSR` | the distribution of vertices, `get_partiton`, and the operations on a partitioned graph |
| `ThreadPoolPPPCSR` | the pool of a partitioned graph; implements `Graph` |
| `PartitionProofs` | proofs about the distribution, the change of registration, and that the partitions are one graph |
| `MCFastLock`, `MCPCSR`, `MCThreadPool`, `MCPartitions` | instances for TLC |
| `MCScripts` | an instance of `PCSR` in which one thread makes a given sequence of calls |

`PCSR` instantiates `RWLock` for `edges.global_lock`, and `FastLock` is proved to
implement `RWLock`, so the two layers are checked apart. `ThreadPool` instantiates
`FastLock` itself, and `ThreadPoolPPPCSR` instantiates `Graph` for what its partitions
promise together. (A step `Release` of
`RWLock` is where `FastLock`'s `unlock_shared` has passed its check; a thread that
then parks is in no section.)

### FastLock

Each thread's `pc` names the next atomic access. `lock()` is `LockArrive` (:27),
`LockAcquire` (:28), `LockRequest` (:29), `SpinLoad`/`SpinAgain`/`SpinDone` (:30-32)
and `LockEnter` (:33); `unlock()` is `UnlockRequest` and `UnlockMutex`; `lock_shared`
and `unlock_shared`, which are the same function, are `PassOrPark`, `SharedArrive`,
`SharedAcquire`, `SharedDepart` and `SharedDrop`. The two loads of the loop are in
the order in which the compiler emits them, `arrived_threads` first. Clients do what
the pools' workers do: register, run updates and `read_neighbourhood`, unregister
between two of them.

### EdgeList

One operator per function, of the same name in capitals. Destinations and values are
small numbers below `MaxU32`, which plays `UINT32_MAX`. Densities are compared as
integers; window lengths are powers of two, so no rounding is lost. The double
arithmetic of `redistribute` is not: `index_d -= step` may truncate to one slot less
than the exact quotient. Where that happens is the constant `RoundsLow`, a table
computed with the code's arithmetic for all arrays of up to 32 slots (`RoundsLow32`
in `MCPCSR`).

The operators were also run against the compiled `PCSR.cpp`, with its minimum
capacity of 1024 scaled down: array contents, `nodes` and the leaves locked agreed
on several thousand transitions in both search modes, including `add_node`, an
occupied last slot and the endless retry of section 4.

### PCSR

A step is what a thread does up to its next lock, or its next read of a variable
that another thread may be changing. Slots are written only under exclusive leaf locks,
but `nodes` is read without one, so a locked update is as many steps as it has values of
`nodes` to show: `Write` (the element is put, after a slide if need be, or erased),
`SpreadLeaf` (its leaf is evened out) and `SettleDensity` (a larger window is). Within
one of these, each field of `nodes` goes from its old value to its new one in one store,
and a thread that compares the fields of a vertex holds the leaf in which the vertex
ends, so it sees no mixture of two steps. The release of the leaves is a step of its own,
because a search that waits for the locks learns of it only then.

| Action | Code |
|---|---|
| `BeginAdd`, `BeginRemove` | the call; `add_edge_parallel` ignores value 0 and unknown sources (:1375) |
| `Call`, `CallForced` | `lock_shared` and the read of `beginning` (:1388, :715); after more than three retries the global lock (:1380) |
| `Snap` | the read of `end` (:1390, :718) |
| `ShareLeaf` | shared leaf locks for the search (:1398, :724) |
| `Search` | the check that the vertex has not moved, `binary_search`, unlock (:1402-1424, :727-745) |
| `LoadVersion` | the version that an unlocked search loads after the slots (:463-476) |
| `LockLeaf` | the first leaf locks (:963-985, :1158-1167) |
| `CheckInsert`, `CheckRemove` | version and position checks (:986-1008, :1168-1189) |
| `Plan` | density climb, locks for it and for slides: `Extend`, `Restarted`, `Escalate`, or go on (:1012-1133, :1192-1231) |
| `Write`, `SpreadLeaf`, `SettleDensity` | `insert` (:519-595) and `remove` (:597-630) under leaf locks |
| `ReleaseLocks` | `release_locks` and `unlock_shared` |
| `Upgrade`, `WriteAlone`, `Unlock` | `NEED_GLOBAL_WRITE` and forced insertions |
| `AddVertex` | `add_node`, which takes no lock, when no thread is in a call |

A leaf's version is read only by the thread that searched in it, and only compared for
equality, so it is one bit `fresh` of that thread's frame, cleared when another thread
releases that leaf. With shared leaf locks the version is read before they go; without
them `LoadVersion` is a step of its own, and releases before it are not noticed.

The constant `SearchModes` gives the values of `lock_bsearch` to consider; the variable
never changes. An unlocked search that meets a leaf which another thread is writing may
return any slot of its range when `TornSearch` holds. That covers whatever the loop of
`binary_search` may read, at the price of slots it would not return: what holds then holds
of the code. A disagreement is only reported with `TornSearch = FALSE`, where the search
reads nothing half-done and all behaviours are real.

`LockPlan` decides again from the leftmost lock after each new
lock; what it found out about the leaves it already held cannot have changed.
`got_correct_insertion_index` scans left beyond the locked leaves: if another thread
is writing there, the outcome of the check is nondeterministic (`IndexChecks`).

### ThreadPool

The pool knows of an operation only the sections of the global lock that it passes
through. When a worker takes a task, `Ways` chooses them: some attempts that end in
`NEED_RETRY`, then one that is done or that goes on in the exclusive section, or, for
`add_edge`, the forced insertion after too many. Each section is then run with
the steps of `FastLock`, interleaved with those of all other threads.

| Action | Code |
|---|---|
| `Submit` | the loop of `update_existing_graph` over `submit_*`, `finished = false` (`main.cpp`:68-81) |
| `Spawn` | one thread of `start()`; the last one is the master's own `execute<true>(0)` (:82-99) |
| `Stop`, `Join` | `stop()`: `finished`, and one `join()` per worker (:105-112) |
| `Take`, `Register` | a task leaves the queue; `registerThread` if need be (:35-42) |
| `SharedSection`, `ExclusiveSection`, `Read` | the operation (:43-49) |
| `Rest` | an empty queue: `unregisterThread` and polling (:51-56) |
| `Leave` | the end of `execute` (:58-60) |

`num_neighbors` of the source is counted on the way in and taken back by an attempt that
starts again, as the code does along each path, modulo `Width` in place of 2^32.

### PPPCSR and ThreadPoolPPPCSR

A partition is the graph that a `PCSR` promises: a number of vertices and a set of edges.
`Table` is the constructor's loop that deals the threads out to the domains, kept as a
recursive function. `AfterTake` is the comparison of `registered` with the partition of
the next task; `Unregister` and `Register` are two steps, so a thread may be between two
locks while others work. The lock of a partition is the protocol of `FastLock` with its
waits and without its counters: `LockShared` and `UnlockShared` wait for a writer of that
partition, `Lock` for every other thread that is registered with it to be at a safe point.

## 3. The runs

All bounds are on the inputs: which edges each thread may add or remove, how many
vertices there are, and how small the array is. Calls repeat without limit, and the
state spaces are finite because the array is bounded by the edges it can hold.

| Run | Instance | What it shows |
|---|---|---|
| `fastlock` | 3 threads | `CountersExact`, `MutualExclusion`, `RequestFollowsOwner`, `RendezvousComplete`, `ParkedStayParked`, and that `FastLock` implements `RWLock` |
| `sequential` | 1 thread, 2 vertices and a third by `add_node`, 3 destinations, 8 to 16 slots, both search modes | layout, order, search, linearizability and termination through doubling and halving; `NeverFull`, `FirstSlotTaken`, `KeepsHeight`; `SlidesInside` and `VertexAtFreeEnd`, on which the proofs about the layout rest |
| `last_slot` | 1 thread, 6 vertices on 16 slots, crowded at the end | sliding off the end, sliding left, insertion at slot N-1 |
| `dense` | 2 threads with a vertex each, 6 vertices, 16 and 32 slots, shared leaves | doubling in the exclusive section, restarts, stale searches, forced insertions: layout, order and linearizability; `FirstSlotTaken`, `LeafLocksInside`, `LeavesAscend`, `WritesAreLocked` |
| `thread_pool` | 3 threads, 2 batches, 6 tasks of 3 sources | `RunsRegistered`, `QuietBetweenBatches`, `CountsEveryTask`, `Terminates` |
| `partitions` | 3 threads, 2 domains of 2 partitions, 9 vertices and a tenth, 10 tasks | `EveryVertexPlaced`, `TasksInDomain`, `WritersExclude`, linearizable, `Terminates` |
| `neighbourhood`, `spurious_retry`, `stale_search`, `unlocked_search`, `late_vertex`, `off_the_other_end` | | what the code does against its own words, see section 4 |

Why the bounds are enough to mean something. Three threads are the least with which a
writer of `FastLock` can miscount: one waits, one is inside, one registers and arrives
between the two loads. The array of 16 slots has 2 leaves of 8, and the one of 32 has 4,
so a window can be a leaf, an inner node and the root; both ends of the array, doubling,
halving, crowded and empty leaves, and neighbourhoods that span leaves all occur. Two
threads suffice for every pair of an update and what disturbs it. TLC reports deadlock in
every run of `PCSR` and `FastLock`, so no set of threads of these instances waits for each
other; the pools do stop, and there `Terminates` says that they stop with all work done.

In `thread_pool` one attempt may start again (`Retries = 1`) before the forced insertion.
In the code there are four; for the lock each one is another shared section. One source
is added to in both batches, one is removed from though nothing was added, so its count
wraps around, and each source has one thread. In `partitions` 9 does not divide by 4, so
the last partition is longer; 3 does not divide by 2, so one domain has two threads; the
tasks make a worker stay, change its partition, and come back, and one names a vertex that
exists only after `add_node`.

### Properties

* **Layout** (`BlocksIntact`): in every state, `nodes` points at the sentinels and each
  edge lies between its vertex's sentinel and the next.
* **Order** (`Sorted`) and **search** (`EdgeExistsExact`): each vertex's edges ascend,
  and `edge_exists` finds exactly the stored ones. As it takes no lock, the latter is
  claimed where no update is between putting or erasing its element and evening out
  (`Settled`): until `remove` redistributes, an erased slot N-2 hides an edge in slot N-1.
* **Linearizability** (`ImplementsGraph`): the list, read as a set of edges, changes only
  by one whole pending update at a time. The refinement maps `edges` to the edges stored
  anywhere in the array and `pending` to the calls that have not yet had their effect,
  so retries, escalations and forced insertions may neither lose nor repeat an update.
* **Locks**: `LeafLocksInside`, `LeavesAscend` and `WritesAreLocked`.
* **Boundaries**: `NeverFull`, `FirstSlotTaken` and `KeepsHeight`; `SlidesInside` (no slide
  carries a sentinel off the array) and `VertexAtFreeEnd` (`add_node` finds slot N-1 free),
  which the findings 5 and 6 below show to fail for other inputs.
* **Pool**: `RunsRegistered` (nobody works unregistered, so every writer waits for every
  worker), `QuietBetweenBatches` (nothing of a batch is left for the next: no task, no
  registration, no request), `CountsEveryTask` (each task is counted exactly once, whatever
  attempts it took: note that the count is of *tasks*, `PCSR.h`:22 notwithstanding).
* **Partitions**: `EveryVertexPlaced` (`get_partiton` inverts the distribution),
  `TasksInDomain`, `WritersExclude`, and `ImplementsGraph`: the partitions together, read
  through `get_neighbourhood`, are one graph.
* **Liveness** (`CallsReturn`, `Terminates`): see fairness.

### Fairness

`Terminates` assumes weak fairness of the main thread and of each worker
(`WF_vars(Main)`, `WF_vars(Work(t))`): the operating system runs every thread that can
run. Nothing is assumed of the mutex in `FastLock`, which may let a writer wait while
readers come and go. That the pools end nevertheless rests on their having finitely many
tasks, on `add_edge` forcing its way in, and on workers unregistering when they
have nothing to do. `remove_edge` has no limit on its attempts, so `Retries` is an
assumption there.

`CallsReturn` is checked under `FairSpec` of `PCSR`, which says that a thread inside a
call keeps taking steps. There is one thread, which finds every lock free; the condition
is written without `ENABLED`, which TLC would have to evaluate by searching for a
successor in every state. For one thread it is weak fairness of `Continue`, which is always
enabled inside a call. With several threads the code gives no such guarantee: `remove_edge`
may retry as often as others disturb it. Begin steps are not fair: a client need not call.

## 4. What disagrees with the code's own words

1. **The last slot is not read** (`neighbourhood`). The last vertex's `end` is N-1, which
   is exclusive, but an edge may be stored there. `edge_exists` finds it;
   `get_neighbourhood`, `get_edges` and `count_total_edges` do not.
2. **A retry without a cause** (`spurious_retry`). `remove_edge` of an absent edge whose
   search ends at an occupied slot N-1 fails `got_correct_insertion_index` and starts again
   for ever, although "things had changed" is not so. That is why the liveness runs use
   instances that never fill slot N-1.
3. **A search over several leaves, one version** (`stale_search`). When two
   threads update the same vertex and its edges span leaves, one insertion does not
   notice the other: the vertex's edges get out of order, so `edge_exists` misses one, or
   the same edge is stored twice. Threads that keep
   to vertices of their own are not affected (`dense`). `Sorted`, `EdgeExistsExact`
   and `ImplementsGraph` are therefore checked where each vertex has one writer.
4. **A version that is too new** (`unlocked_search`). Without shared leaf locks
   `binary_search` reads the slots and then loads the version of the leaf. If another
   thread's update of that leaf ends in between, the slot is old and the version new, and
   neither the version check nor `got_correct_insertion_index` notices: an edge is stored
   twice although each thread has a vertex of its own. Of several threads in this mode
   only the lock discipline is claimed.
5. **A vertex added to a full end** (`late_vertex`). When slot N-1 is occupied, the
   sentinel of the new vertex makes `insert` double the list and search again, in the
   range that `nodes` has for a vertex whose sentinel is not there yet. The range is that
   of the old list, so the sentinel lands between the edges of some other vertex.
6. **Off the other end** (`off_the_other_end`). `insert` at an occupied slot with no null on
   its right slides left instead. When the only null of the array is the slot that it
   slides from, `slide_left` carries it along and falls off the left end: it doubles the
   list in the middle of the slide, and `insert` goes on with slot numbers of the old
   layout. "Since it can't be full this doesn't need to worry about going off the other
   end" (`PCSR.cpp`:353) overlooks that. One thread gets there with 27 calls on an
   array that is not full; the edge lands among those of another vertex.

   A relative of it is the script `OffTheEnd` of `MCScripts`: when `slide_right` pushes the
   last slot out of the array and that slot holds a sentinel, it notes slot N for the
   sentinel (:345) before it slides back left, and `nodes` keeps a value outside of the
   array. `BlocksIntact` fails there, for a state deep enough that the runs which
   check it do not reach it.

## 5. The proofs

TLAPS checks everything below for any finite set of threads (`FastLockProofs`), any
threads, vertices, edges and array sizes (`EdgeListProofs`, `PCSRProofs`, `WriteProofs`,
`BlockProofs`), any number of threads and any batches (`ThreadPoolProofs`), any numbers of
vertices, domains, partitions and threads and any tasks (`PartitionProofs`). The
assumptions are the named `ASSUME`s of the modules. The one that is not about the type of
an input is `RoundsLowAssumption`: the running sum of `redistribute` may fall below the
exact quotient `k * len / j` only where that is a whole number and `len / j` is no whole
number itself. In the code the error of the sum is of the order of `len * j * 2^-53`, far
below the distance `1 / j` of any other quotient to the next whole number for the windows
that fit into memory, and the sums of whole numbers are exact.

Induction is the least element of a set of numbers (`Arithmetic`), since the library's
induction theorems cannot be instantiated; recursive functions are shown to exist and to
be bounded in the same way (`Recursion`, `Continued`).

**FastLock.** `MutualExclusion` is not inductive. `Inv` adds what the counters count
(`CountersExact`), who owns `mtx` and how (`ReadersInv`, `WriterInv`,
`RequestFollowsOwner`), and the two facts that make the comparison of two loads sound:
while a writer compares, nobody leaves its safe point, so the value it loaded is at most
the counter (`SeenInv`), and once it has passed, nobody is in a shared section
(`Excluded`). The step that matters is `AllParked`: the parked threads are a subset of
the registered ones, so if they are as many they are the same set. From `Inv` follow the
invariants, the two action properties, and `Refinement`: each step of the protocol
is a step of `RWLock` or leaves the mode of every thread alone.

**The list.** `SearchFound`: `binary_search` ends, and ends inside its range, whatever
the slots contain. `SearchParts`: over a range whose destinations ascend it ends where
smaller destinations lie before and greater ones behind, whichever slots of the range are
empty and whichever way the scan for a taken slot went. `SpreadSlotFound`: `redistribute` gives the elements of a window
different slots of it, in their order, whatever its sum of doubles rounds. On it rest
`RedistributeKeeps`, `DoubleKeeps`, `HalfKeeps` and `SlidesKeep`: each of these operations
keeps all elements and their order (`Keeps`), and `KeepsOrder` draws the conclusion: the
same stored edges, sorted where they were, in blocks where they were.

**The locks of PCSR.** `LockInv` ties the mode of the global lock and the leaf locks to
where a thread is, and keeps `RWLock`'s exclusion. It is inductive on its own, since no
decision about the contents of the list matters: four lemmas cover the ways to enter, to
stay in and to leave a section, and `LockStep` puts every action under one of them. It
gives `LeafLocksInside`, and `ResizeAlone`: while a thread may reallocate the array of
leaf locks nobody holds one. `LeafInv` adds the shape of the list (`IsList`: the number of
slots is a power of two), the type of the frames, and exactly which leaves each thread
holds, as a function of its place and its locals (`HeldBy`). `StepOfOne` is the argument
for all actions at once: a step of t changes nothing of the others but their `fresh` bit,
so it is enough to look at t and at whether what it locks was free. `LeavesAscend` and
`LeafExclusion` follow.

**The writes of PCSR.** `WriteInv` adds to `LeafInv` what a thread relies on once it has
decided to write (`Ready`): its slot lies in its locked leaves, there is a null in them
for the slide, and the windows that it will redistribute lie within them. That holds when
`Plan` says "go", and is kept until the release, since the slots of held leaves change only by
the holder. `WritesAreLocked` follows for every array with more than one leaf
(`KeepsHeight` is its hypothesis: with a single leaf `density_bound` divides by zero).

`KeepsHeight` and `NeverFull` need more: how far removals can empty the array. `SizeInv`
holds when the constructor's capacity is at least 4 (it is 1024) and there are two
vertices or more, as long as `nodes` agrees with the sentinels (`SentinelsPointed`, the
first half of `BlocksIntact`): two sentinels that stay in the array keep its density above
what `half_list` asks for a single leaf. With one vertex whose edges are all removed the
array does shrink to one leaf; TLC finds it in an array of 8 slots. With these premises
the three theorems hold in every search mode.

**The layout of PCSR.** A list is `WellFormed` when each vertex has one sentinel and no
other slot looks like one, `nodes` points at the sentinels and at the next ones, every
edge lies behind the sentinel of its source and before the next, and, where every vertex
has one writer, the edges of a source ascend. `RedistributeWell`,
`DoubleWell`, `PutWell`, `InsertWell`, `RemoveWell` and `AddNodeWell` show that the
operations keep that, where the edge is put at a slot where it `Fits`: everything left of
the slot belongs to its source or to a vertex before, everything from the slot on to its
source or behind. `FindFits` says that the search in a well-formed list ends at
such a slot. What the operations do to a well-formed list is the second half of
`WriteProofs`; what the threads do with them is `BlockProofs`.

Between the search of an insertion and its write other threads write. `BlockInv` says what
remains true of the slot: it fits, unless another thread is changing its leaf or has changed
it and not yet raised its version (`Busy`), or the version has been raised (`fresh`). It
is kept by the writes of other threads because such a write stays inside the leaves its
thread holds (`WriteLocked`), these are a stretch of the array that the slot is not part
of, and a redistribution of a stretch moves no sentinel across a slot outside of it
(`SentinelStays`, `FitsElsewhere`). The insertion locks the leaf, so nobody is `Busy` in it
any more, and compares the version, so the slot fits when it writes. A removal finds its edge in the slot for the same reason
(`Removable`). This is
`BlockInvCorrect`; `BlocksIntactCorrect`, `SizeKept` and `WritesStayLocked` follow without
a premise about `nodes`. So does `FirstSlotTakenCorrect`: slot 0 is never empty, since
a redistribution puts the first element of its window into the window's first slot, no
edge fits left of the first sentinel, and `remove` erases only edges. The element in slot 0
has no sentinel on its left, so it is the sentinel of vertex 0.

The premises that remain are two properties of the runs. `SlidesInside` and
`VertexAtFreeEnd` exclude what the findings 5 and 6 describe, which does break the layout,
so the theorem is false without them. That a constructor with fewer than 2^32 vertices is
meant is `InitVertices <= MaxU32` and `MaxVertices <= MaxU32`: the sentinel of a vertex
carries its number in 32 bits. With several threads that search without leaf locks nothing
is claimed (`Exact`), since finding 4 breaks it.

**The order and the graph of PCSR.** Where two threads work for one source the edges of
the source need not ascend (finding 3). So the three theorems of this part have the
premise `OneWriter`: no vertex is the source of edges of two threads. It is a premise
about the caller, who names the thread of each task in `submit_add`; `main.cpp` deals the
tasks out in turn (:71) and does not keep to it. The threads still share leaves, locks and
windows, and still move each other's edges. `Located` is then stronger: the slot that a
search has found also `Splits` the edges of its source, those to smaller destinations lie
before it, the others from it on. `SearchParts` gives that at the end of the search, where
the range of the source was read under the locks of its leaves (`Sharing` says that all
are held then) or by the only thread there is (`Ranged`). Until the write it is kept by
the writes of the others, which have other sources and move this source's edges only
inside stretches that the slot is not part of. `SortedCorrect` is a part of `WellFormed`;
`EdgeExistsExactCorrect` is `SearchParts` once more. Both need `EndBacked`: the range of
the last vertex does not include slot N-1, though an edge may lie there; the search is
right about that edge too, because slot N-1 is taken only if the one before it is, except
between the first two writes of an insertion into the last leaf.

`GraphCorrect` is the refinement of `Graph`. The edges change in one step of a call: an
insertion's when it puts its element or replaces the value (`Write`, or `WriteAlone` under
the exclusive lock), a removal's when it erases the element, or, when the edge is absent,
when it returns EDGE_NOT_FOUND. At that step the edges become those with the key taken out
and, for an insertion, the new one put in (`Done`): the key is in the list at most once,
and if it is, it is in the slot that the search found. The call and `add_node` are steps
of `Graph` as well. Every other step, the retries, the escalation, the two redistributions
after the write, keeps the stored edges (`Keeps`) and is a stutter.

**The types of PCSR.** `TypeOK` says more than types: each thread holds locks of leaves
that the list has, even though another may halve it, an idle thread has no locals left,
and a slot without an edge is the one null element. `TypeInv` adds to `BlockInv` what is
needed: `Bounded`, the search range and the leaves planned lie inside the list until the
locks are released (a halving has the global lock to itself and so meets no thread that
has any); `Blank`, about the null slots; and `Tabled`, that the two tables of locks are
functions of the threads.

**ThreadPool.** `LockStep` shows that every step of the pool is a step of `FastLock` or
leaves the lock alone, so `PoolUsesLock`: the pool implements `FastLock!Spec`, and every
theorem of `FastLockProofs` holds in the pool; `PoolExcludes` is one of them. `PoolInv`
relates the place of each worker to its registration (a worker that is off, has ended, or
is about to register is unregistered; one that runs is registered) and says how far
`stop()` has come in joining. `QuietBetweenBatches` follows with `CountersExact` and
`RequestFollowsOwner` of the lock: with no thread registered both counters are 0 and no
request is up. `CountsEveryTask` is strengthened to a statement about every state
(`CountInv`): each queue is a suffix of the thread's share of the batch, and `num_neighbors`
has counted the tasks that have been taken, whatever has become of the attempts of the one
that is running. `PoolTypeCorrect` needs that what remains of an operation's sections is
the rest of one of its `Ways`.

**Partitions.** `EveryVertexPlaced` needs only that the partitions but the last keep
their size, that the last one may grow, and arithmetic about multiples of the size; the
size may be 0. `WritersExclude` is strengthened by: whoever is in an operation is
registered with the partition of its task. The writer has waited for these threads to be
at safe points, and from a safe point there is no way into a section while it is inside.
`TableCorrect` is about the constructor's loop: the domains get `NumThreads \div
NumDomains` threads each, the first ones one more, one after the other; the invariant of the loop
(`RowInv`) says what the table holds after i threads. `TasksInDomain` follows, since the
round-robin of `submit` stays inside a domain. `PartitionsImplementGraph` is the refinement of
`Graph`: a step that changes a partition changes the edges that `get_neighbourhood` shows
through `get_partiton` by exactly the update it takes from `pending`; every other step is
a stutter. It rests on different edges of the graph being different edges of
partitions (`Different`, `EdgePairs`), and on `VertexOf`: the vertex number inside a
partition and the partition determine the vertex.

**Model-checked only.** Of the invariants of the passing runs only `SlidesInside`; it and
`VertexAtFreeEnd` depend on the densities that the given edges lead to, can both be
violated (findings 5 and 6), and are the premises of the theorems about `PCSR` that mention
them. And all liveness.

## 6. What is not modelled, and the plan

Not modelled: NUMA allocation and placement, pinning, timing, output, the constructor
that takes condition variables, empty or uncalled functions, `bfs` and `pagerank`
(sequential readers of a quiet graph), and the reading of files and arguments. Vertex and
edge numbers are small; arrays have at most 32 slots; `version_counter` does not wrap.
The plain increments of `num_neighbors` by two threads with the same source are a data race
of which nothing is claimed. `half_list`'s `unlock` of leaf locks that nobody holds, and
`unlock` on a leaf that is held shared (:728), are undefined by the standard and are taken
to do nothing else. A list that shrinks to a single leaf (possible with one vertex only,
see section 5) makes `density_bound` divide by zero and is not followed. `remove_edge` of an
unknown source is not submitted (:717 does not check).

What could come next:

1. The slot-by-slot `binary_search` of `lock_search = false`, with the version of each
   leaf, to say what does hold of the layout in that mode.
2. A condition on the edges and the first size of the array that implies `SlidesInside`, in
   place of the premise.
3. `bfs` against distance by paths.
