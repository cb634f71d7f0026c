# A verification of monya

monya builds forests of binary trees (k-d trees in the example that ships with
it) with several threads per tree and answers nearest-neighbour queries on them.
Its repository also holds SAFS, the user-space file system it is meant to keep
data in: asynchronous I/O with a thread per disk, a page cache, allocators and
message queues. This directory holds TLA+ models of both, the configurations that
model-check them with TLC, and proofs checked by TLAPS.

All paths are relative to the root of the repository; in the rows on SAFS, file
names without a directory are in `SAFS/libsafs/`.

## 1. The system and its parts

| part | source | state | operations | what is hard about it |
|---|---|---|---|---|
| Scheduler | `src/structures/Scheduler.{hpp,cpp}` | node lists per level, current level, pending-thread counter, condition | constructor, `schedule`, `run_level`, `wake4run`, `wait4completion`, destructor | lost or early wakeups, the level barrier, tear-down while threads run |
| WorkerThread | `src/structures/WorkerThread.{hpp,cpp}`, `ThreadState.hpp` | state, lock, condition, queue, active node | `callback`, `run`, `request_task`, `wait`, `wake`, `init`, destructor | unlocked reads of the state, two-step decrement and test |
| BuildTaskQueue | `src/structures/TaskQueue.{hpp,cpp}` | queue, mutex | `enqueue`, `dequeue`, `has_task` | `empty()` is tested outside the lock |
| BinaryTreeProgram | `src/BinaryTreeProgram.hpp` | tree, scheduler, level lists | `build`, `find_neighbors`, node creation | levels that are not full are processed again |
| ComputeEngine | `src/ComputeEngine.hpp` | forest, I/O objects | constructor, `train`, `query`, destructor | one shared I/O singleton for all trees |
| k-d node | `src/examples/kdtree.cpp` | comparator, split dimension, samples | `prep`, `run`, `spawn`, `find_neighbors` | ties, odd sizes, stack discipline of the search |
| NodeView, BinaryNode, NAryNode, EMNode, RBNode | `src/structures/` | indexes, children, parent, depth | child and parent links | who owns which child |
| BinaryTree, RBTree, VecBinaryTree | `src/structures/` | node links, root, depth | `insert`, `find`, `_delete`, rotations | pointer surgery |
| IndexVector, SampleVector, NNVector, Stack | `src/common/types.hpp`, `src/common/NNVector.hpp`, `src/structures/` | sorted flags, cached size, linked list | `append`, `find`, `eval`, `pop_back`, `trim` | stale flags and caches |
| Metric, distance, BruteForcekNN | `src/common/`, `src/validate/` | none | accuracy, reference search | bounded result lists |
| IO | `src/io/` | matrix, orientation, file | `get_col`, `get_row`, `transpose`, `destroy` | orientation and buffer ownership |
| SAFS threads | `SAFS/libsafs/thread.{h,cpp}` | running, sleeping and activated flags, mutex, condition; task queue and counter of `task_thread` | `start`, `run`, `wait`, `activate`, `stop`, `join`, `add_task`, `wait4complete` | activations between a test and a wait, signals sent after the unlock |
| SAFS asynchronous I/O | `remote_access.*`, `disk_read_thread.*`, `aio_private.*`, `wpaio.*` | senders, queues per disk, AIO slots, completion queues, counters, open files | `access`, `flush_requests`, `wait4complete`, `cleanup`, open and close commands, `run`, completion callbacks | three kinds of threads and the kernel hand a request on; each thread may sleep |
| SAFS mappers and files | `file_mapper.*`, `safs_file.cpp`, `native_file.*`, `file_partition.h` | RAID layout, partitions, headers | `map`, `map2file`, `create_file`, `rename`, `resize`, `load_data` | two halves of one address computed in two threads; failures half-way |
| SAFS requests, messages, containers | `io_request.*`, `messaging.*`, `container.h` | buffer vectors, messages, ring buffers | `add_buf`, `extract`, `send`, `flush`, `add`, `fetch` | growth at the limit, ownership moved by `memcpy`, several flushers |
| SAFS page cache and cached I/O | `associative_cache.*`, `cache.h`, `global_cached_private.*` | hash cells, pages with reference counts and flags, waiting requests | `search`, eviction, `expand`, `shrink`, flushing, `access` | pages that move while somebody looks, write-back of a page being written |
| SAFS allocators | `slab_allocator.*`, `memory_manager.*` | free lists, thread-local buffers, size | `alloc`, `free` | limits with several threads |
| SAFS start-up and configuration | `io_interface.*`, `parameters.*`, `config_map.*`, `RAID_config.cpp` | global data, parameters, factories | `init_io_system`, `destroy_io_system`, factories, `wait4ios` | several callers, repeated initialisation |
| SAFS user tasks and key-value store | `comp_io_scheduler.*`, `direct_comp_access.*`, `in_mem_io.*`, `simple_KV_store.h` | queues of tasks, references, pending memory | `access`, `wait4complete`, `async_request` | tasks freed by the last reference, limits on memory |
| SAFS NUMA support | `NUMA_cache.h`, `cache_config.*`, `NUMA_mapper.*` | parts of the cache, ranges | `page2cache`, `search`, `copy_from`, `copy_to` | unequal parts, order of the parts |
| SAFS-util | `SAFS/utils/SAFS-util.cpp` | a file | `create`, `load`, `load_part`, `verify`, `export`, `delete` | sizes that fill no page or buffer |

## 2. How the parts interact

A `ComputeEngine` makes one `BinaryTreeProgram` per tree, each with its own
`Scheduler` and worker threads; the trees share one `MemoryIO`. `build()` schedules the
root, and after each level has run, asks every node of the level to spawn its children
and schedules them. A level is run only when it is full: the `Scheduler` deals its nodes
to the workers' queues, wakes the workers and waits until all of them are waiting again.
A worker calls `prep()` and `run()` on each node of its queue. A query walks the
finished tree and gathers its answer in an `NNVector`.

SAFS is a chain of threads. At its top an application thread calls `access()` of a
`global_cached_io`, which looks pages up in the page cache, evicts and writes back, and
reads what is missing through a `remote_io`; or of an I/O that runs a user task when its
data is there. `remote_io::access()` splits requests at RAID block
boundaries and buffers the parts in one sender per disk; flushing a sender moves the
parts to the queue of the disk's I/O thread and activates it. The I/O thread finds the
file and the offset, submits to the kernel as far as there are AIO slots, reaps what has
completed and gives it to a completion thread (or, when that thread's queue is full,
handles it itself), which puts it into the completion queue of the `remote_io` and
activates the application thread. A thread with nothing to do sleeps in `thread::wait()`.

What correctness means for each part:

* Scheduler and workers: the counter of busy workers is exact, the barrier holds
  when `wait4completion()` returns, no node is run twice or forgotten, unlocked
  accesses never collide with writes, every full level is run.
* Tree building, queries, forests: the leaves partition the samples, comparators
  separate them, `build()` ends; a query returns exactly the k nearest samples; every
  tree reads the data it was given.
* Containers and trees: links, sizes, caches, flags and order agree with the contents.
* SAFS threads: an activation is never lost and `wait()` never returns without one.
* Asynchronous I/O: no part of a request is lost, duplicated or counted twice; slots are
  never overcommitted; nobody sleeps on work; every call returns; a page goes to the disk
  and the place the mapper names.
* Page cache and cached I/O: a page that is held stays; references and flags are
  exact; nothing written is lost and nothing stale is read; a waiting request is resumed.
  Each of these has exceptions in this code; the properties name them exactly and section 8
  lists them.
* Memory, messages, queues, requests: one owner for each object, order kept, copies exact.
* Files, configuration, start-up: a file created or loaded is whole for every later reader
  whatever failed before; the system runs with the options given; nobody's stop takes the
  system from another.

## 3. Modules and how they correspond to the code

monya:

| module | models |
|---|---|
| `Scheduler`, `LevelBarrier`, `SchedulerProofs` | `WorkerThread.cpp`, `TaskQueue.cpp` and `Scheduler.cpp`, one action per step another thread can observe; the abstract level-by-level build; the theorems |
| `KdTree`, `KdQuery` | `BinaryTreeProgram::build()` with the k-d nodes, on top of the level barrier; `find_neighbors()` on the built tree |
| `NNVector`, `NearestList` | the linked list of neighbours with its cache and addresses; what it promises |
| `IndexVector`, `BruteForce` | `IndexVector` with `std::sort` and `std::binary_search` as used; `getNN()` and `get_raw_accuracy()` |
| `RBTree`, `BinaryTree` | insertion, balancing, deletion, lookup and destruction |
| `Engine`, `MatrixIO`, `MatrixUse` | a program from `Params` to its answers over the IO objects; layouts, loading, rows and columns; a client of the IO objects alone |

SAFS:

| module | models |
|---|---|
| `SafsThread`, `ActivationEvent`, `SafsThreadProofs` | `thread` and `task_thread`; what `activate()`, `wait()` and `stop()` promise; the theorems |
| `RemoteIO`, `RemoteIOSteps`, `RemoteIOWork`, `RemoteIOProofs`, `IOSelect` | clients, I/O threads, kernel and completion thread, sleeping on an `ActivationEvent`; the theorems about them, in three parts; `wait4ios()` on several `remote_io` |
| `DiskFiles`, `FileMapper` | remote commands, open files, and the two halves of finding a page on a disk; RAID0, RAID5 and hash mapping with the theorem about them |
| `GlobalCachedIO`, `MergeRequests`, `PageArrays` | the cached I/O with eviction and write-back; `merge_reqs`; references that move with byte arrays and clones |
| `PageTable`, `Eviction`, `PageFlags`, `PageFlagsProofs` | the hash table under growth; the five policies; the flags of a page instruction by instruction, and the theorems about them |
| `NumaCache`, `NumaBuffer` | the parts of a cache spread over nodes and where a page belongs; data spread over nodes |
| `CompIO`, `KVStore`, `ByteArrays` | I/O with user tasks; the key-value store; the arrays a task reads through |
| `Queues`, `Messages`, `IORequest`, `Slab` | containers, messages, requests, the slab allocator |
| `SafsFiles`, `SafsUtil`, `SafsInit`, `Config` | files on native directories with failures and restarts; the utility; start and stop; options and parameters |

`MCPool` instantiates the small systems. A behaviour of one of its runs is a behaviour of one
of the systems the run's constant `Systems` lists, named by `which`, and each property says what
it requires of each system it is about. The systems do not interact; they share a run because
each asks one or two questions. `PoolSteps` is their specification without fairness, for the runs that check safety only;
`PoolSpec` adds the fairness of section 5, for the systems in which somebody waits or loops.

Variables carry the names of the fields they stand for; an action carries the name
of the function, or of the function and the step of it (`cleanup_poll`). `...pc`
variables say where a thread is. A mutex appears only through what it makes atomic:
a critical section is one action, an access outside of one is an action of its own; the
header of a module says what its grain is. Addresses are numbers where reuse of freed
memory matters (`NNVector`, `RBTree`, `Slab`, `PageArrays`). A definition that
nothing refers to and whose comment describes a mistake is one that a property is tested against,
put in the place of the definition it varies. `PROJECT.json` maps every definition to the lines it models: about 31 % of the
lines of the implementation. The rest is what section 9 lists, declarations, printing,
statistics and comments.

Choices worth knowing:

* `pthread_cond_wait` may return spuriously; `pthread_cond_signal` wakes a blocked
  thread and is lost when there is none.
* `std::sort` leaves equal elements in any order, so a sorted node is any sorted
  permutation.
* In `RemoteIO` requests are page ranges, a client's file is its own, and only
  high-priority requests exist: the low-priority path ends in `assert(0)`.
  `flush_counter` is left out because all it controls is a function with an empty
  body. A client waits only for requests that were accepted, and destroys its
  `remote_io` only when nothing is outstanding; section 8 says what happens otherwise.
* In `GlobalCachedIO` the contents of a page are the set of writes they reflect, so
  that `Coherent` can tell lost and stale data apart without bytes. The history variables
  `raced` and `misread` record the two events after which a page may be wrong, so that the
  property can say that nothing else makes one wrong.
* An assertion of the code that can fail is a value of `failed` (or `fault`, or an `abort`
  position); nothing happens afterwards. The property of the module says which assertion may
  fail and in which case, and the liveness properties hold "unless an assertion ended the
  program".
* `steal_pages` and `add_pages` of the hash table take no cell lock, so that in `PageTable`
  picking a page, taking it and giving it to a cell are steps of their own.
* `GlobalCachedIO` is the object with the default parameters; `merge_reqs` is on in
  `MergeRequests`, and `PageFlags` includes `merge_pages2req`, which the defaults switch off.
* `Config` scales sizes: an `int` has a few bits and a kilobyte a few bytes, so that
  casts, divisions and overflow happen within TLC's reach.
* A composed model stands on the promise of the part below it: `RemoteIO` on
  `ActivationEvent`, which `SafsThread` is shown to implement; `KdTree` on the level barrier.

## 4. The runs

| run | what it asks | distinct states |
|---|---|---|
| `scheduler` | counter, barrier, races, faults, complete levels; implements `LevelBarrier`; full levels are run | 143,090 |
| `task_thread` | no lost wake-up, `wait4complete()` means done; implements `ActivationEvent`; waits and joins end | 161,397 |
| `remote_io` | parts conserved, nobody sleeps on work, calls justified (counters, slots, open files, cleanup), every call returns | 128,138 |
| `exact` | safety of 23 systems: `NNVector`, `RBTree` (insertion; deletion), `BinaryTree`, `BruteForce`, `KdTree`, `KdQuery`, `Engine`, `MatrixUse`; `SafsFiles`, `SafsInit`, `DiskFiles`, `NumaCache`, `SafsUtil`, `Slab`, `Messages`, `PageArrays`, `Config`, `ByteArrays`, `NumaBuffer`, `KVStore`, `IORequest`, `PageFlags` | 2,108,042 |
| `progress` | safety and liveness of ten systems: `PageTable`, `Eviction`, `Queues`, `CompIO`, `IOSelect`, `MergeRequests`, `GlobalCachedIO`; that the loops of `RBTree`, `KdTree` and `KdQuery` end | 576,104 |
| `scheduler_wakeup` | does `wait4completion()` always return? (no) | |
| `scheduler_join` | does deleting a worker join it, as the unit test says? (no) | |
| `kd_level_full` | does a level that is run hold all its nodes, as the comment says? (no) | |
| `index_vector_stale` | does `find()` find what is there? (no, after a sort and an append) | |
| `command_alive` | is a remote command executed to its end before its owner deletes it? (no) | |
| `init_complete` | does every caller of `init_io_system()` see the complete global data? (no) | |
| `part_reads_page` | is a page that is written in part read first? (another page is) | |

The comment above a property of `MCPool` says what it requires of each system; the
definitions are in the system's module. The assumption `MappersRight` of `MCPool` checks the three mappers, as operators, for up to four
files, blocks of up to three pages and sizes up to thirty pages.

Bounds and why they are enough:

* `scheduler`: three workers and seven nodes, three levels with batches of one node:
  a worker can be idle, have one batch or two, finish before another is woken, and
  meet the next level. Two workers cannot show the first going back to `wait()` while
  the second works and the third is not woken.
* `task_thread`: two adders with two tasks and a batch of two; a counter of three bits
  wraps below zero as `size_t` does and cannot wrap above.
* `remote_io`: one AIO slot per disk and a completion queue of two, so that three parts
  exceed both; grouping starts at two completions instead of eight; a client flushes when
  more than one part is buffered, instead of 1000. Six scenarios each drive one hard case.
* `GlobalCachedIO`: two instances on a page set of two frames over a file of three pages with
  RAID blocks of two: every scenario evicts, and most run out of frames without references. At
  most two pages are in requests to the underlying I/O, instead of 1000. Seven scenarios:
  arrays of requests whose rest queues, synchronous requests of one and of several pages,
  also behind an unfinished one, user tasks that keep pages, writes that end within a page.
* Trees: all 0/1 matrices of up to four samples (`BuildSamples`; three where that `build()` ends is
  checked) bring ties in every position; with five to
  nine distinct samples there are levels that one pass does not fill, and (at seven) one
  that orphans fill. Depths 0, 1, 2 and 10 stop the build early or not at all. Two
  queries in a row show whether the first leaks into the second; k is 0, 2 and 4, more than
  some data sets have. Eight insertions of three comparators fire every case of the
  balancing loop; trees of up to six nodes bring the cases of a deletion.
* Lists: k = 3 with two indexes and two distances: full list, ties at the limit, and a
  freed address that is handed out again; brute force with k = 0, k < n, k = n, k > n.
* `Engine`: three files of different layout and size, so that wrong strides and
  orientations give other values; two engines in a row on the same singleton, of the same
  file or of another.
* `PageTable`: one cell of three pages, so that the fourth page splits the table while two
  threads look up pages that move; two threads grow it, one shrinks it while pages are found
  and become dirty, one split is merged back. `Eviction`: cells of three pages, hits that wrap at three, six searches.
* `Queues`: a queue of one that grows to two under two producers and two consumers, adds
  that may give up, an interrupted fetch, a queue with a spin lock below and at its limit.
  `CompIO`: four tasks and a limit on memory that two or three of their requests reach, so that
  one access keeps up to two requests back, of two tasks or of one. `IOSelect`: a callback that issues to another `remote_io`.
  `MergeRequests`: reads that meet, cross a RAID block, and share pages being read.
* Files: three disks, two faults (a failed native operation or a stop) anywhere in plans
  that create, delete, load, rename and resize, with the directories in order or shuffled.
  `SafsUtil`: sizes that fill no page, one page and no buffer. `SafsInit`: six disks on two
  nodes, three threads that wait for the start of the system or race it, a second start.
  `DiskFiles`: two files whose stripes lie differently on four disks of two threads, and a page
  of one written back through the `remote_io` of the other.
* Memory: two threads that run out together (`Slab`); messages of two units and an object
  of two (`Messages`); arrays one page longer than the embedded buffer (`PageArrays`); a
  vector whose capacity has few bits, so that it wraps (`IORequest`); every offset and length around two
  pages and blocks (`ByteArrays`), around all node counts and range sizes (`NumaBuffer`).
* `PageFlags`: two users with three calls each, two completers, two merged write-backs; the
  theorems hold for any number.

Deadlock is not checked: every system may stop, after destruction, after the last
request, when a build has ended. That nobody waits for ever is a property
(`FullLevelRuns`, `WaitReturns`, `CallsReturn`, `AllReturn`, `LoopsEnd`, `WaitersReturn`).

## 5. Fairness

* `Scheduler`: every thread that can take a step does (weak fairness per thread:
  POSIX threads are scheduled preemptively). Waking a worker needs the worker's lock,
  which the worker takes and releases itself in `wait()`, again after each spurious
  wake-up; that a waiting locker gets it in the end is strong fairness of that step.
* Sequential code: a call that has begun goes on; nobody has to begin one.
* Threads of SAFS: weak fairness of each thread inside a call and of the disks, which
  complete what was submitted, in any order. Clients need not make calls.
* In `GlobalCachedIO` a search that finds no page to evict is repeated by its caller. Strong
  fairness of the search that gets one (`Given`) says that a client that comes back to search
  for ever meets a moment at which the set has a page, if there is one again and again: the
  cell's spin lock and the scheduler decide who comes first, not the program.
* Of producers and consumers of a queue each is scheduled; which waiter a signal wakes
  is left open.

## 6. What is proved

`SchedulerProofs`, for every number of threads, fanout, batch size and number of nodes
(assumptions `NThreadAssumption` and `SchedulerAssumption`: naturals, all but the number
of nodes positive):

* `TypeCorrect`: `Spec => []SchedulerTypeOK`. The type of `task_queue` depends on
  `run_level()` never reading past the list of a level, hence `LevelShape`, and that of
  `ran` on a worker running only what it dequeued, hence `ActiveIsNode`.
* `PendingCorrect`, `BarrierCorrect`, `FaultFree`, `RaceFree`. None of them is inductive
  alone. The counter is decremented by a worker and set by the owner; that it equals the
  number of workers outside `wait()` needs that the owner wakes only workers that are in
  `wait()` (`WakeOrder`), which needs the barrier, which needs the counter. `PcState` ties
  a worker's position to its state, `DestroyPhase` says what the owner still does after
  the destructor has begun. `Inv` is their conjunction; `WorkerProtocol`, `WakeProtocol`,
  `SignalProtocol` and `ProtocolStep` show that each step keeps it, with cardinality
  lemmas (`PendingRemove`, `PendingAdd`, `ZeroMeansAllWait`) for the counter.
* `LevelsCorrect`: `Spec => []LevelsComplete`: when `run_level()` has returned, the nodes of
  the level have run, all of them and nothing else. `Inv` says where the threads are, not
  where the nodes are; `WorkInv` adds that: a node that was scheduled is on the list of its
  level, still to be dealt, in a queue, in a worker's hands or has run (`WorkConserved`);
  the list of a level holds the nodes scheduled for it and nothing else (`ListsExact`); and a
  worker that was woken goes back to `wait()` only with an empty queue (`QueueDrained`), which
  is why a counter of zero means that nothing is left. Each worker step moves at most one node
  (`WorkerMovesWork`), `run_level()` deals a batch that was next on the list (`BatchRange`).
* `BarrierImplemented`: `Spec => ImplementsBarrier`: the threads, queues, condition variables
  and the counter implement the level-by-level build of `LevelBarrier`, on which `KdTree`
  stands. `BarrierStep` shows, from `Inv` and `WorkInv`, that `schedule()` is `Add`, the run of
  a node is `Run`, the return from `wait4completion()` is `Complete` and that every other step
  leaves the abstract state alone.

`SafsThreadProofs`, for any set of calling threads:

* `NoWakeupLost`: `ThreadSpec => []NoLostWakeup`. The invariant `WakeInv` adds that a
  thread inside `pthread_cond_wait` is recorded as asleep: `activate()` signals only then.
* `EventImplemented`: `ThreadSpec => ImplementsEventSafety`. Every step of the thread and
  of its callers is a step of `ActivationEvent` or leaves its variables alone, which is
  what the modules built on it use. `TaskWakeupKept` and `TaskEventImplemented` state the
  two for `task_thread`, whose steps are steps of the thread (`TaskStepIsThreadStep`).
* `WaitIsDone`: `Spec => []WaitMeansDone`, for any finite set of adders, any number of tasks,
  batch size and width of `size_t`. `wait4complete()` tests a flag, not the counter, and the
  counter wraps below zero when a task has run that `add_task()` has not counted yet. The
  invariant `TaskInv` therefore counts modulo 2^w: `num_pending` is the number of tasks that
  wait minus the number of adders that have pushed a task and not counted it. The fetched
  tasks and the queue form one sequence without repetitions that together with the tasks that
  have run makes up what was pushed (`QueueExact`). Fetching leaves that sequence as it is
  (`FetchKeepsQueue`), running a task takes its head (`TaskTakesFirst`), adding one appends
  (`PushAdds`). That 2^w is a positive number is an assumption on the constant, since it needs
  an induction; TLC evaluates it.

`RemoteIOSteps` (what each step does), `RemoteIOWork` (who answers for an entry) and
`RemoteIOProofs` (what is counted, and the theorems), for any number of clients and disks, any
requests and programs, AIO depth, size of the completion queue and point at which a client flushes
(`RemoteIOAssumption`: positive sizes, each request made once and by its client, `cleanup()`
last):

* `NobodySleepsOnWork`: `Spec => []NoSleepOnWork`. The property is not inductive: it allows
  that anybody is about to activate the thread. `SleepInv` says who it is.
  `WorkAnswered`: unless an I/O thread is going to look at its queues, each command in them is
  the command of a client that is about to activate that thread, and each part belongs to a
  client that is in the flush of that disk or in `cleanup()`. `cleanup()` flushes all disks
  without activating a thread, polls the queues one by one, and goes on to activate and
  poll again only if it has counted an entry. That this is
  enough is `CleanupProgress`: no sender behind the loop holds data and, while it has counted
  nothing, no queue behind it has a part of its client, since only the client itself adds
  such parts (`OthersCleanup`, `OwnCleanup`, `LowerCleanup`). `HandoverInv` is the same for the
  way back: a thread collects completions only when it has none left to hand over, and a
  group is empty, the client still to be activated, after its parts have been put.
  `SlotsCovered` says that `busy_aio` covers what is in the kernel, in its events and in
  `io_wait()`: a thread that finds it zero may sleep. `ClientWork`, `IOWork`, `ClientHandover`,
  `IOHandover`, `NotifyHandover` and `CompletionHandover` have the steps.
* `CleanupLeavesNothing` and `SlotsNeverExceeded` follow from the same invariant: when
  `cleanup()` has stopped polling, nothing of its client is in a sender or a queue; no
  more requests are submitted than the AIO context has slots.

The counters of a client are left open in the types of the proof: nobody's sleep depends
on them.

`PageFlagsProofs`, for any number of users and completers and of calls (`ThreadsApart`:
finitely many users, no thread both user and completer):

* `FlagsCorrect`: `FlagSpec => []FlagsExact`. A search sets `OLD_DIRTY` with a plain load
  and store under the lock of the cell, a completion clears it under the lock of the page,
  and everyone else changes bits atomically: no lock is common to all. What keeps them
  apart is the reference count, so the invariant `FlagInv` counts: `refcnt` is the number
  of users that refer to the page plus one for a write to the disk (`RefInv`). At zero
  nobody uses the page, no I/O is in flight (`OneIO`, `QueueInv`) and the search is alone
  with it (lemma `Alone`). That a second write is not counted for the first needs that
  one user alone evicted what is in the page (`EvictorInv`), and that nobody uses the
  page while its old content waits (`OldInv`).
* `EvictionSafe`: `EvictedQuiet` and `DirtyExcludes` from the same invariant.

`FileMapper`, for every number of files, block size, first file and file size:

* `StripedInjective`: RAID0 and RAID5 give each page a place of its own, and `map2file`
  agrees with `map`. The hash mapper is injective only for suitable constants; TLC
  checks it for one pair.

Only model-checked:

* liveness (`FullLevelRuns`, `WaitReturns`, the `WF` part of `ImplementsEvent`,
  `CallsReturn`, `AllReturn`, `LoopsEnd`, `WaitersReturn`): the prover handles neither
  fairness nor `ENABLED`;
* `RemoteIO`: `PartsConserved` and the counter in `CallsJustified` are equations between sums
  over sets, whose changes need an induction over the set; that a request reaches the disk
  only while its file is open, and that the slots are exactly (not at most) `busy_aio`, need
  that no part is in two places, which is not proved;
* `GlobalCachedIO`: the steps of `access()` are folds over the pages of a
  request, and what a fold computes needs an induction the provers cannot do;
* trees, lists, evictions, messages, buffers: their operators are recursive over the data
  (paths, chains, sequences of any length), for the same reason;
* files, start-up and configuration: not attempted.

## 7. Where the code disagrees with what is said of it

Each is a run that TLC refutes; `PROJECT.json` quotes the line the property comes from.

* `scheduler_wakeup`: `wait4completion()` can sleep for ever. The last worker decrements
  the counter and signals without the owner's mutex, so that the signal can fall between
  the owner's test and its wait. The safety theorems do not depend on it, and
  `FullLevelRuns` holds because it speaks of the nodes, not of the owner.
* `scheduler_join`: deleting a `WorkerThread` does not join its thread, although the unit
  test prints that it does.
* `kd_level_full`: a level can be run when it holds orphaned nodes and lacks live ones: the
  length of the list is compared with the size of a full level, and nodes of an earlier pass
  stay on it. The finished tree is still right (`LeavesPartition`, part of `BuildExact`).
* `index_vector_stale`: `IndexVector::find()` trusts a flag that `append()`, `insert()` and
  `set_indexes()` leave set, and then misses what is there.
* `command_alive`: `complete()` of a remote command signals after it has released the mutex
  (`disk_read_thread.h`, lines 68–71 and 168–171); its owner may by then have seen the flag
  and deleted the command.
* `init_complete`: `init_io_system()` counts its callers and returns at once to all but the
  first (`io_interface.cpp:113–118`), although its comment promises that all threads see the complete
  data. `UsersKeepSystem` says that only a caller that returned so early, or while another destroyed
  the system, can fail.
* `part_reads_page`: before `__write` writes a part of a page it reads the page, but at the offset
  of the request (`global_cached_private.cpp:907–908`): a write of several pages that ends within the
  last gets the first page's data around its own there.

## 8. Seen while reading

These are not runs of their own: no line of the repository says otherwise, a run of section 7
already stands for the part, or they lie outside what a correct client does. The models either
include the behaviour, and then the property that passes names the case it excepts, or state in
their headers the use they assume. An entry that ends in a property's name in brackets is such an
exception: the case is reachable in the run, and the property says that nothing else goes wrong.

Scheduling, trees and data of monya:

* `RandomSplit` draws from 0 to `nfeatures` inclusive (`kdtree.cpp:251,339`); for the last value
  the constructor of `cunsigned` throws and the program ends (`types.hpp:361–363`).
* `BinaryTree::insert_at` and `RBTree::insert_at` dereference the root before the test for an
  empty tree (`BinaryTree` 76–91). `RBTree::_delete` faults for most nodes, leaves
  `sub->parent` dangling (305) and does not restore the red-black rules; `echo` prints the
  colours inverted (`RBTree.cpp:105`, `RBNode.hpp:29`).
* `NNVector::find()` and `to_IndexVector()` loop without advancing; `IndexVector::resize()`
  adds half of what is missing.
* `MemoryIO` is a singleton that keeps the first file, shape and orientation
  (`IO.hpp:194–209`): a second engine answers from the file of the first [`ForestReads`]; `from_file` allocates before `open` fails (212–229);
  `create(data, …)` leaves `is_data_local` unset (189–192); `transpose` leaks the old buffer and
  leaves a matrix that is not square with neither rows nor columns right (265–284); `read`
  assigns its parameter (243). `SyncIO::read` reads from the current position (364); a row it
  returns is leaked by `kdnode::distance` (`kdtree.cpp:61`) [`ForestReads`]; only `Params` (`types.hpp:130`)
  keeps two threads from sharing its stream. Trees are not deleted by `~ComputeEngine`.

Threads, asynchronous I/O and start-up of SAFS:

* `remote_io::access` counts the whole array as issued before it rejects a request
  (`remote_access.cpp:165`); `cleanup()` waits for queues, not for completions;
  `notify_completion` uses the object after the completion is visible; `async_io::access` never
  sets `IO_PENDING` (`aio_private.cpp:241–243`).
* `open_files` keeps closed entries (`aio_private.cpp:408`); `buffered_io::access` drops the
  offset within a page with more than one file (`read_private.cpp:60`); a failing open throws
  in the I/O thread.
* An initialisation may race the last destruction [`UsersKeepSystem`]; `global_cache` is never dropped; an I/O
  thread's `aio` is deleted while the thread runs (`disk_read_thread.h:217`).
* A failed initialisation leaves -1 as mapping option or cache type (`parameters.cpp:105–107`,
  117–119), and a later one without the key gets no mapper (`io_interface.cpp:159,178`).
  Parameters of an earlier initialisation persist, `num_nodes` excepted. The block size is cast
  before it is divided, so that small and huge sizes give 0 pages (`parameters.cpp:89–90`).
  Boolean options are true whenever present. The help names `huge_page_enabled`, the code reads
  `huge_page`; `hit_percent` is never read. The last line of a disk list without a newline loses
  a character (`RAID_config.cpp:155`) [`UsersKeepSystem`], a blank line clears the list.
* `create_io_select` ignores that `add_io` refuses an I/O. `thread::represent_thread()` asserts
  what `get_curr_thread()` makes false.
* The queue with a spin lock asserts that all entries fit, also when it has grown to its
  maximum (`container.h:316`) [`FIFOOrder`].

Page cache and cached I/O:

* An evicted dirty page of another file is written through this instance's `remote_io`
  (`global_cached_private.cpp:1214,1250`): its offset is looked up in the partition of its own file, which
  may be closed or lie in another I/O thread, where "We have to make sure the offset does exist in
  the partition" is asserted (`file_partition.h:94–96`) [`AccessExact`].
* An evicted dirty page can be read back from the disk before its old data is there: no
  search finds a frame by the page it had [`Coherent`]. A request may evict a page of its own
  range, or the one behind it, and fails the assertion at 1236; a synchronous request that gets no
  page fails that at 1486, one made while an earlier request waits for pages that at 1516
  [`AssertionsHold`]. A synchronous request of several pages that found some of them and then
  no room sleeps for ever in `wait4req` (1719–1723) [`AllReturn`].
* A page written while a merged write-back is under way can be lost; `__write` may report a
  request complete early; a user task covering more pages than a set holds never finishes;
  `preload` (1636–1656) changes flags without the lock.
* Pages can be in the table twice during a split (comment at 210–221 of
  `associative_cache.cpp`). `steal_pages` takes no cell lock: a page found between its test and its
  taking is stolen while in use, and one that becomes dirty fails the assertion at 290
  [`PageKept`]. `merge` spins with two cells locked until nobody uses a page of the second
  (183–194); nobody can, since the cell is not yet in the table's range when it is given up,
  and so the wait ends at once (`MergeUnused`, part of `PageKept`). Shrinking past level 0
  (771–778); clock policies may count one referenced page repeatedly (568–608) and
  `predict_evicted_pages` need not end.
* The NUMA cache lists its parts in the order of an `unordered_map` and indexes them by node
  (`cache_config.cpp:150–154`, `NUMA_cache.h:44–57`); `page2cache` adds a shift without a
  modulus; a cast is negative above 8 TB (`cache_config.h:151`).

Requests, memory, files:

* `get_num_tot_entries` is not decreased by `next` (`cache.h:817–823`); `move_to` past the end
  keeps the old page and says so only by its result, after which `has_next` may skip pages
  (843–846) [`CopiesExact`]; an iterator ends in `assert(0)` (913). `get_serialized_size` is not what
  `serialize` writes for small writes that are not inlined (`io_request.h:1002–1005,1032–1039`; no client
  sends such a request); `vec_capacity` has 15 bits and wraps (`io_request.cpp:91–99`), `init(ext)` asserts
  on the capacity (`io_request.h:132`) [`RequestsWhole`]; `init()` leaves two flags (664–684); `has_overlap` counts a range that ends at the start (797).
* `direct_comp_io::access` gives no reference to requests behind the first that does not fit
  (`direct_comp_access.cpp:303`), so that its task may be freed early [`WorkConserved`]; `flush_io_requests` resets its count after the I/O was issued
  (`simple_KV_store.h:191–194`).
* The slab allocator's destructor leaks its free lists; `thread_safe_msg_sender::flush` can
  reorder (`messaging.h:426`); a clone with an exhausted allocator dereferences NULL.
* `safs_file::resize` makes partitions shorter (`safs_file.cpp:135–142`), although "right now we can only
  extend the file size" (129): it gives the size of partition i to the directory of number i, which
  in a shuffled file holds another [`FilesExact`]; sizes are computed with the configured, not
  the file's block size; a rename leaves the path in the header; a partial create followed by
  another leaves two partition files; shorter user metadata leaves the old tail; `load_data`
  ignores a failed create. SAFS-util's load ignores the block size it is given
  (`SAFS-util.cpp:218–227`), keeps the size of an existing file, and asserts a layout the hash
  mapper does not have (285).

## 9. Not modelled

* The page flusher (`associative_cache.cpp` 1040–1593): its requests end in `assert(0)` of
  `process_low_prio_msg` (`disk_read_thread.cpp:143–147`), the rest is under `#if 0`, and
  `use_flusher` is off by default.
* Code the build leaves out: `VecBinaryTree` (`VECNODES` is never defined), `LRU2Q.h`,
  `shadow_cell`, and with `PART_IO`, which nothing defines, the partitioned cached I/O
  (`part_global_cached_private.*`); stubs (`EMNode`, `NAryNode`); the `frame` class, which only unit tests
  use; `stack_array`, `io_reply`, `request_sender`, `alloc_objs`, which nothing uses.
* Pure I/O and presentation: SAFS-util's list, info, rename and help, logging, printing,
  statistics, `mem_tracker`; CPU and node binding, the hwloc topology.
* Third-party code (`cxxopts`), tests and workload generators.
* The small accessors `direct_io`, `data_loc_t`, `request_range`, `aligned_allocator`,
  `NUMA_cache::init`, `add_tree`, `set_params`, `set_depth`, `MemoryIO::read`.
* Inside what is modelled: the slots of `wpaio.cpp` are a counter; destroying an I/O thread's
  `aio` is one step of `SafsInit`; that the deletion loop of `RBTree` ends is not asked; in
  `PageArrays` the memory suffices and a clone is not cloned again.

## 10. What could follow

An invariant that each part in `RemoteIO` is in at most one place, stated as positions
instead of counts; the page table's moves under a split; the file operations of `SafsFiles`,
whose partial failures are finite case distinctions; the slots of `wpaio.cpp` in detail.
