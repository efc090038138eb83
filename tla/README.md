# hixo in TLA+

hixo is a small event-driven TCP server in C: a master that forks workers, a
worker loop around `epoll`, two demo applications (an echo server and a fixed
HTTP page), and a few support libraries. This directory models the parts that
carry its logic, checks them with TLC on small instances and proves the main
invariants with TLAPS for every instance.

Paths below are relative to the repository's root; `src/src/...` in
`PROJECT.json` is the repository's `src/...`.

## Inventory

| Part | State it keeps | Operations | Hard behaviour | What makes it correct |
|---|---|---|---|---|
| Event loop (`src/modules/event_core_module.c`) | `mp_posted_events`, `mp_connections`, `m_power` | `event_loop`, `hixo_handle_accept`, `hixo_handle_close` | handlers close and accept sockets while the posted list is walked; every call of accept can fail half way | no assertion fails, no slot, descriptor or unit of power is lost or used twice |
| epoll module (`src/modules/epoll_module.c`) | `m_hold_lock`, the events, tags in `mpp_servers`, the kernel's interest list | `epoll_process_events`, add/del event | events for slots that were reused; partial failure of adding or removing listeners | registrations agree with sockets; listeners are watched only under the lock, unless removing them failed |
| Accept lock (`include/spinlock.h`) | one word in shared memory | `spinlock_try`, `spinlock_unlock` | interleaving of workers; death of the holder; the lock is released before the accepts happen | one owner; one worker watches the listeners; waiting connections are served |
| Sockets (`src/socket.c`) | descriptor, flags, handlers, stale bit | create, destroy, close request | reuse of the object | a new incarnation is told from the old one |
| Socket cache (`src/resource.c`) | free list, `m_used`, owner marks | create, alloc, free, destroy | exhaustion | every element is free or handed out, once |
| Lists (`include/list.h`) | intrusive links | `add_node`, `rm_node`, dlists | a node in two lists | an operation changes one list, by one node |
| Echo (`src/modules/echo.c`) | queue of read buffers | read, disconnect | partial reads and writes, errors of the first read | buffers are freed with the connection |
| simple_http (`src/modules/simple_http.c`) | none | read | failing write | – |
| slub (`src/slub.c`) | bitmaps in the first block of a region | `slub_format`, `slub_alloc`, `slub_free` (empty) | bytes of bitmaps, padding, limits | objects never overlap, NULL only when full |
| Master and workers (`src/hixo.c`, init and exit of the event core) | process table, signal masks, shared memory id | fork chain, `master_main`, `worker_main`, init/exit of modules | races between the end of the master and the start of workers, restart of a worker | every worker attaches the lock; a restart works |
| Buffers (`src/buffer.c`) | data, size, capacity | create, destroy, resize | – | size within capacity |
| Red-black tree (`src/rbtree.c`) | tree | insert, erase, search | rebalancing | order and colour invariants |
| Strings, digits, bitmap (`src/adv_string.c`, `include/common.h`, `include/bitmap.h`) | none | conversions, counting bits | limits of the integer types | agree with a reference |
| Configuration (`src/conf.c`, `src/modules/main_core_module.c`) | constants | fill a structure | – | – |

How they interact: the event core module calls the epoll module through
function pointers, the epoll module links sockets into `mp_posted_events` and
takes the shared lock, the event core walks that list and calls the handlers of
the application (or `hixo_handle_accept` for a listener), which set flags on the
socket that the loop looks at afterwards. Workers share the listeners and the
lock word and nothing else. `main()` of this commit is built with `RUN` 0 and is
a demo of slub; the server is `hixo_main`, which is compiled but not called.

## Modules

### EventLoop

One worker from its first call of `epoll_process_events` on. `pc` says where it
is; the steps are the places where a call's outcome matters:

| `pc` | Actions | Code |
|---|---|---|
| lock | `TryLock` | `epoll_module.c` 159-163 |
| add | `AddListeners` | 165-176 |
| wait | `EpollWait`, `EpollWaitFails` | 178-184, 201-215 |
| clear | `ClearListeners` | 186-199 |
| post | `PostEvents` | 216-246 |
| loop | `NextPosted` | `event_core_module.c` 54-69 |
| read | `NotReadable`, `ReadListener`, `ReadEcho`, `ReadHttp` | 71-73 and the handlers |
| alloc, accept | `AllocFails`, `alloc_resource`, `AcceptFails`, `AcceptConnection`, `RegisterFails` | 93-181 |
| close | `KeepOpen`, `CloseConnection` | 74-79, 183-196 |
| write | `WriteAndUnlink` | 80-91 |
| stop, abort | `Stopped` | `event_loop` returned; an assertion failed |

The lists are sets: `m_node` links a slot into the free list or
`mp_connections`, `m_posted_node` into `mp_posted_events`, and no result depends
on the order. A node linked twice counts as a failed assertion. Data read and
written on connections is left out; what remains of the handlers is which flags
they set and whether the connection holds read buffers. The kernel is a set of
open descriptors (`accept` may return any closed one, so descriptors are reused)
and an interest list; `epoll_wait` may report any events of registered sockets,
at most `m_max_connections` of them. Which worker gets the lock is open here.
The constant `CtlFaults` says which `epoll_ctl` operations may fail.

`Init` is the state after `event_core_init_master` and `hixo_spawn_workers`:
the listeners that could be opened are allocated and linked, the rest of the
cache is free. A cache has `m_max_connections` plus one slot per *configured*
server, so with a listener that could not be opened there are more slots for
connections than `m_max_connections`.

### AcceptLock

All workers and the shared word. A worker goes through the same phases; a
connection is only counted. The environment opens connections (`Arrive`), makes
system calls fail (`Fault` inside the actions) and kills workers (`Crash`); each
is bounded by a constant. The word keeps its value when a worker dies.

Each worker has its `mpp_servers` with the tags (`tagged`), the listeners in its
epoll instance (`reg`) and the instance's ready list (`ready`), which is edge
triggered: a listener gets there when it is added while connections wait or when
one arrives. `AddListeners` ends at the first `EPOLL_CTL_ADD` that fails and tags
the entry; `ClearListeners` skips tagged entries and ends at the first
`EPOLL_CTL_DEL` that fails, so that the listeners behind it stay watched after
the unlock, and tags behind it stay set. A tag met by `AddListeners` fails the
assertion of line 168 and the worker dies with the lock. `failed[w]` remembers
that the last removal was cut short. `EpollWait` takes at most
`m_max_connections` events, listeners and connections together, as the array of
line 181 allows; what does not fit stays on the ready list.

### WorkerCycle

What one worker promises to the others: it asks for the lock only with power
left, starts to watch listeners only under the lock, stops before it releases it
unless a removal failed in that round, and its power follows its connections.
`EventLoop` (one worker in detail, the lock's answer left open) and `AcceptLock`
(all workers, each phase abstract) both implement it. `AcceptLock` does so with
failing removals; `EventLoop` is mapped with `failed` always FALSE and does so
where `EPOLL_CTL_DEL` does not fail.

### Slub

The allocator with its three kinds of bitmaps, each the set of the bits that are
1 including the padding. `slub_alloc` is one action; the helpers follow the
functions of the source. History variables record the intervals handed out
(`objs`) and the types that were answered NULL (`refused`).

### Echo, DList and EchoSocket

`Echo` is the echo application on one slot of the cache, from `accept` to the
close, call by call: collecting buffers, `readv` with every possible result,
merging, `writev` with every possible result, and the way back into `event_loop`.
The queues are the rings of `list.h` (`DList`, the same link words and the same
order of stores), the buffers are those of `buffer.c`, and a byte is its position
in what the peer sent, so that a lost or moved byte shows. `EchoSocket` is what
`EventLoop` takes the handler to be, one step that may leave buffers and always
asks for the close; `Echo` implements it.

| `pc` | Actions | Code |
|---|---|---|
| closed, idle | `Accept`, `echo_handle_read` (up to its loop) | `echo.c` 80-90 |
| collect | `CollectBuffer` | 97-115 |
| readv | `ReadvData`, `ReadvEof`, `ReadvAgain` | 117-170 |
| send | `Writev`, `SendEnds` | `test_syn_send` |
| return, close | `ReturnRead`, `echo_handle_disconnect` | 172-206, `event_loop` |

### RbTree and OrderedSet

`RbTree` is `rbtree.c`, used as `tests/rbtree_test.c` uses it: search and link,
then `rb_insert_color`; `rb_erase`; `rb_replace_node`; and the walks. The fields
of the nodes are the state. An iteration of one of the two repairing loops is an
action, so the invariants also speak of the tree half way through a repair. The
left and right branches of the code are mirror images and one definition with
the side as a parameter; all of them were compared with the lines of both
branches. `OrderedSet` is the set that the tree stands for.

### Digits

`count_places` and `wtoa` of `common.h`, `itostr` and `strtoi` of `adv_string.c`,
called again and again on one buffer, with the byte behind the buffer as part of
the state. The width of the integers is a constant (8 bits in the run), and so is
the length of the table of nines: as in the code, with 18 entries for 64 bits and
9 for 32, the largest integer has one digit more than the table has entries.
Overflow wraps; where the C standard leaves the
result of `-INTEGER_MIN` open, both outcomes that compilers produce are allowed.

### Resource and SlotSets

`SlotSets` is the abstract view that EventLoop takes of the cache and the lists:
elements move between sets. `Resource` has the link words, the heads, `m_used`
and the owner marks of the source, with `rm_node` as a walk from the head, and
its callers in the order the event core calls them. The refinement maps each set
to the elements met on a walk (`Sets == INSTANCE SlotSets WITH ...`).

### Lifecycle

All processes of one start of the server. Process `p` forks process `p + 1` and
becomes worker `p`; the last child is the master, so the workers are the
master's ancestors, not its children. `has[p]` is what a process has acquired
and `apps[p]` its list of applications, from the head; both are copied by `fork`.
The shared memory segment is the only shared state. `event_core_init_worker` looks
for the event module, then links the applications with `dlist_add_head`. In this
build `gap_modules` has one event module and two applications, so that
`ERR_NECESSARY_MODULE_NOT_FOUND` is not reached; the tables are constants
(`EventModules`, `NApplications`), and the theorems hold also for those without
the one or the other, where the worker tries again for ever.

| `pc` | Actions | Code |
|---|---|---|
| main, event | `main_core_init`, `event_core_init_master`, `InitMasterFails` | `main_core_module.c` 26-38, `event_core_module.c` 198-383 |
| daemon | `fall_into_daemon` | `hixo.c` 79-110 |
| spawn | `hixo_spawn_workers`, `ForkFails` | 289-321, 356-361 |
| master | `master_main` | 122-184 |
| exit, end | `ExitModules`, `Return` | 371-382 |
| core, epoll, app | `AssertFails`, `event_core_init_worker`, `ShmatFails`, `epoll_init`, `EpollInitFails`, `InitApps` | 186-217 and the modules' `mpf_init_worker` |
| run | `Running` (module EventLoop), `LoopFails` | 219-234 |
| leave | `ExitWorker` | 236-260 |

The segment follows Linux: `IPC_RMID` marks it, it exists as long as a process
has it attached, and until then its id can still be attached. A worker does not
call `mpf_exit_worker` anywhere, so it never detaches except by dying.
`event_core_exit_master` without a cache is the end "corrupt". `Kill` ends a
process at any point.

### Proof modules

`EventLoop_proofs`, `AcceptLock_proofs`, `Lifecycle_proofs`, `Slub_proofs`,
`Resource_proofs`, `Echo_proofs`, `RbTree_proofs` and `Digits_proofs` hold the
theorems about the module of the same name; see *What is proved*. Definitions
marked `mutant` in the modules are wrong variants of the definition after them
and are not used by it; `PROJECT.json` says which property notices each.

## Runs

A run checks a few properties, some of which are conjunctions of named parts
(`MapsExact`, `Placement`, `TornDownOnce`, `BuffersOwned`, `SearchTree`,
`RedBlack`, `TextExact`, `InBounds`); the comments of the parts say
what each is about. `IInv` implies `TypeOK`, `PowerAccounting`, `CloseIsPrompt` and
the other invariants of EventLoop but `ListenOnlyLocked`.

| Run | Instance | Shows |
|---|---|---|
| `event_loop` | two listeners (one per application), two connection slots, two descriptors, `m_max_connections` 2, failing `EPOLL_CTL_ADD` | all properties of one worker, the inductive invariant of the proofs, `WorkerCycle` is implemented |
| `accept_lock` | two workers with `m_max_connections` 1 and a cache of two slots, two listeners, three connections, two faults (each any failing call), one crash, fairness | owner of the lock, who watches the listeners, when a tag survives, `PendingServed`, `WorkerCycle` is implemented |
| `lifecycle` | three workers, two servers, two cpus, two faults, one kill, as a daemon, fairness | what a running worker has, entries of `ga_pss_info`, tear-down and the segment, `Settles` |
| `lifecycle_assert`, `lifecycle_master` | one worker; one fault, no fault | findings, below |
| `resource` | a cache of four elements | lists stay apart, no assertion fails, `SlotSets` is implemented |
| `slub` | 2, 3, 7, 8, 9, 30 and 31 blocks, and two sizes that are refused; objects of 512 and 2048 bytes | no overlap, exact maps, NULL only when full, where objects and the header lie, no failing assertion up to eight blocks |
| `slub_assert`, `slub_top` | 9 blocks; 8 blocks | findings, below |
| `echo` | two buffers of two bytes per `readv`, up to six bytes, fairness | buffers are owned once and freed, bytes stay in order, what is answered, `HandlerReturns`, `EchoSocket` is implemented |
| `rbtree` | eight keys, fairness | links, order, colours and black heights in every state, walks, `CallsReturn`, `OrderedSet` is implemented |
| `digits` | 8 bit integers around every power of ten and at both limits, two texts on a buffer of five bytes | agreement with the numeral, what is written outside the buffer |

Bounds and why they are enough. Two connection slots let one slot be freed and
reused while another is posted, and the bit `m_stale` go through both values;
two descriptors let a descriptor come back in another slot. With two listeners a
failure of adding the second leaves the first registered. Two workers are all a
lock can tell apart; three connections exceed the two slots of a worker, whose
`m_power` then is -1, and two faults are needed for a tag to meet the assertion:
one add, one removal. With `m_max_connections` 1 a batch holds one of the two
listeners. In
slub one type has objects that fill whole bytes of the use map and one has
padding; seven blocks leave one bit of the top bitmap's byte as padding, eight fill
it, nine need a second one, 30 and 31
are on both sides of the size of the header. Four
elements let a node be first, in the middle and last in a list while the other
list is not empty. In Lifecycle
three workers give a chain with a first, a middle and a last fork and one cpu
fewer than workers; two faults let a worker fail and its neighbour fail while it
tears down. Six bytes are one full `readv` of four and a
partial one, or several partial ones, with a partly filled buffer between full
ones. Eight keys give all trees in which an insertion recolours and goes up, in
which an erasure repeats its loop and rotates for a red sibling first, and in
which the successor is or is not a child. In `digits` a second text over a first
one shows what is left of the first. In
`slub` the check for deadlock is off because a failed assertion ends the program.

No run of EventLoop has failing removals: `accept_lock` checks what they do to the
lock, the listeners and the tags, and the theorems about EventLoop say what holds
of one worker when only removals fail (`OneKindOfFault`).

Symmetry is used in EventLoop, where slots and descriptors are interchangeable,
and not in the runs that check liveness.

Fairness (`FairSpec`): weak fairness of every worker's next step. Each worker is
a process the kernel schedules, and `epoll_wait` returns after `m_ev_timer_ms`
(1000 ms in `src/conf.c`) at the latest. Nothing is assumed of arrivals, faults
or crashes, nor that a particular worker wins the lock. In Lifecycle it is weak
fairness of every process's next step, with the failure of the event loop and
kills left out. In Echo it is weak fairness of the handler's next step: the
sockets are non-blocking, so no call in it waits; that the peer sends finitely
many bytes is a bound of the model and a condition of `HandlerReturns`. In RbTree
it is weak fairness of the loop: a call that has begun runs on.

`PendingServed` has two exceptions, and the code needs both: workers without power
do not try the lock, and the word is never reset when its holder dies
(`epoll_module.c` 159 and 240), after which no worker accepts again. The bound on a
batch does not hurt it: a worker with power has fewer connections than
`m_max_connections`, so their events leave room for a listener in the array, and one
that does not fit stays ready; that a flood of arrivals at one listener cannot keep
the other out is not shown, because arrivals are bounded. The check for deadlock is
off in `accept_lock` because all workers may die there: one by the crash, one by the
assertion.

`Settles` has one exception, which the code needs: the master marks the segment
without waiting, and if no worker has attached it by then it is gone; such
workers call `shmat` for ever without a pause.

## Findings

Four disagree with what the repository says, and each has a run:

* `slub_assert`: `slub_alloc_from_existed` leaves its loop at the first byte of a
  type's bitmap that is not zero. When the first eight blocks of a type are full
  and it gets a ninth, the second search fails `assert(NULL != rslt)` (line 400).
* `slub_top`: the comment at `slub.c` 64-65 says that the first bitmap records
  which blocks are used. For a multiple of eight blocks `~0 << (nblocks % 8)` marks
  the last eight as used from the start (line 240); a region of eight blocks can
  allocate nothing. `NullOnlyWhenFull` and `MapsExact` are about the other sizes.
* `lifecycle_assert`: `EXIT_WORKER` calls `mpf_exit_master` (`hixo.c` 245). After
  an error in `epoll_init` or in the loop the worker removes the shared memory,
  sets `m_shmid` to -1, starts again and fails the assertion at
  `event_core_module.c` 426.
* `lifecycle_master`: `g_child_count` is never incremented, so the master ends
  while its workers start. Counting alone would not help: the workers are the
  master's ancestors and it would wait for ever (that is the mutant of `Settles`).

For the others we know of no text that says otherwise but the assertion of the
first. A property of a passing run, or the part of it named here, says how far the
code goes, with the exception spelled out in it; it documents the defect and
catches the rest:

* `TagsDropped`: when the `EPOLL_CTL_ADD` of a listener fails and, in the same
  round, the `EPOLL_CTL_DEL` of one before it in `mpp_servers`, the tag survives and
  the worker's next round with the lock fails the assertion at `epoll_module.c` 168;
  it dies with the lock set. `accept_lock` reaches this. In `event_loop` only adds
  fail, and there `NoAssertFails` includes this assertion.
* `ListenExclusive`: after a failing `EPOLL_CTL_DEL` (`epoll_module.c` 195-197)
  listeners stay watched without the lock until a removal succeeds.
* `InRegion`: the number of blocks includes the header's block (`slub.c` 213), so
  the last block is outside the region; the demo in `hixo.c` passes such a region.
* `HeaderFits`: with 31 blocks the header needs 4103 bytes and overlaps the first
  block (`slub.c` 216).
* `AnswerSent`: when the first `readv` of a connection fails, `test_syn_send` takes
  the head of the empty queue for a buffer (`echo.c` 223), and nothing is promised.
  After a short `writev` the loop passes the same vectors again (`echo.c` 238), so
  the peer gets the beginning of the answer once more, possibly more than once,
  and not the end.
* `OldQueueUnused`: the reuse of an earlier call's buffers is dead code.
* `WtoaExact`: `INTEGER_MIN` is copied without its NUL (`common.h` 177); the demo
  prints it from such a buffer (`hixo.c` 454).
* `ItostrInBounds`, `ItostrExact`: for a negative number whose digits fill the
  buffer the NUL is stored one byte behind it, because the sign is not counted
  (`adv_string.c` 76); `INTEGER_MIN` is negated, which is undefined.

Three defects have no property: `slub_format` returns an uninitialised value on
success, which its only caller ignores; echo does not test the result of
`calloc`; with a timer resolution of 20 ms or less `epoll_wait` has no timeout and
waits for a SIGALRM that is blocked (`event_core_module.c` 420-423; `conf.c` sets
1000 ms, so that the branch is not taken). In `Lifecycle` a failing `fork` in
`fall_into_daemon` ends the process (the end "quit") and leaves the segment behind;
no text of the repository promises otherwise, so no run is about it.

## What is proved

Every theorem is of the form `Spec => []P`, `Spec => [][A]_vars` or `Spec =>
Abstract!Spec`, for every value of the constants that satisfies the assumptions
of the module; only theorems of `EventLoop_proofs` have a condition of their own.

| Module | Run properties proved | For every |
|---|---|---|
| `EventLoop_proofs` | `IInv`, `NoAssertFails`, `PoolPartition`, `FdsOwned`, `InterestExact`, `EventsFresh`, `PostedLive`, `ListenOnlyLocked`, `NoBufferLeak`, `ClosesOwnFd`, `ImplementsCycle` | cache, descriptors, listeners, configuration |
| `AcceptLock_proofs` | `LockOwned`, `ListenExclusive`, `TagsDropped`, `ImplementsCycle` | number of workers, listeners, connections, faults, crashes |
| `Lifecycle_proofs` | `RunReady`, `EntriesDistinct`, `TornDownOnce` | number of workers and servers, tables of modules |
| `Slub_proofs` | `NoAbortUpToEight`, `MapsExact`, `ObjectsDisjoint`, `Placement`, `NullOnlyWhenFull` | region sizes and requests |
| `Resource_proofs` | `NoAssertFails`, `ListsSound`, `ImplementsSets` | capacity |
| `Echo_proofs` | `BuffersOwned`, `StreamIntact`, `AnswerSent`, `ImplementsSocket` | number and size of buffers, length of the head, number of bytes |
| `RbTree_proofs` | `SearchTree`, `RedBlack`, `ImplementsSet` | finite set of keys |
| `Digits_proofs` | `TextExact`, `ReadsBack`, `InBounds` | width of the integers, numbers, size of the buffer |

### EventLoop

The assumptions are that the cache is finite, that `mpp_servers` names at least
one listener and each once, and that descriptors of listeners are distinct and
never returned by `accept`. Then:

* `TypeCorrect`, unconditionally;
* if not both kinds of `epoll_ctl` calls fail (`OneKindOfFault`): `NoAssertFails`,
  `PoolPartition`, `FdsOwned`, `InterestExact`, `EventsFresh`, `PostedLive`,
  `PowerAccounting`, `NoBufferLeak`, `CloseIsPrompt` and the action property
  `ClosesOwnFd`;
* if `EPOLL_CTL_DEL` does not fail: `ListenOnlyLocked`, and the implementation of
  `WorkerCycle`.

The first condition is needed: when an add and later a delete fail, a tag
survives the round and the assertion at `epoll_module.c` 168 fails. So is the
second: a listener that could not be removed is watched after the unlock.

The argument is one inductive invariant, `IInv`, a conjunction of parts about the
lists (`ListsInv`), the counters (`CountInv`), the walk (`WalkInv`), the kernel
(`KernelInv`), the batch of events (`EventsInv`), the lock and the tags
(`LockInv`) and the buffers (`BufferInv`). None of the properties is inductive:
that `rm_node` finds the closed socket needs that only connections are asked to
close, which needs the handlers of listeners, which need that `accept` never
works on a listener's slot, which needs the lists to be disjoint. Each part has a
lemma for `Init` and one for a step; counting uses the library's facts about
cardinalities.

### AcceptLock

`TypeOK`, `LockOwned`, `ListenExclusive`, `TagsDropped`, `PowerAccounting` and,
worker by worker, the implementation of `WorkerCycle` follow from `LockOwned`
together with `PlaceInv` (where a worker can be when it holds the lock, watches
listeners or has tags, unless its last removal failed) and `CountInv`. No
condition on the faults is needed. With the theorem of the same name about
`EventLoop`, both pictures of a worker are proved to be pictures of the same cycle
where removals do not fail.

### Lifecycle

`TypeOK`, `RunReady`, `EntriesDistinct` and `TornDownOnce` (`NoDoubleDestroy` and
`SegmentFreed`). The invariant says that behind the head of the fork chain nobody
exists (`ChainInv`), what a process has at each point (`HasInv`), that the list of
applications is empty until it is built and then holds each once (`AppsInv`), that
all have the same listeners (`ListenInv`), and that whoever tore down has marked the
segment (`SegInv`). `RunReady` needs it because a worker that starts again comes
back to the same point with less, and only the assertion on `m_shmid` keeps it from
going on.

### Slub

The model is defined for region sizes above zero and requests of up to the
largest object (`SizesAssumption`, `RequestsAssumption`). `IInv` says, bit by bit,
what the three kinds of bitmaps mean together: the top map is the blocks of all
types and its padding (`TopExact`), a block is in the map of at most one type
(`Distinct`), the padding of a use map is set (`Padded`), the other bits are those
of the objects handed out (`Exact`, `Handed`), blocks are taken from the lowest
up (`Filled`), and as long as no assertion failed the blocks of a type are in one
byte of its map (`OneByte`). The last one is what `NoAbortUpToEight` and
`NullOnlyWhenFull` need, because the search looks at the first byte that is not
zero and at nothing behind it. That an object lies in its
block is arithmetic over the sizes of the ten types, done by cases; that the first
clear bit exists and is the least is `LeastExists`.

### Resource

`IInv` says that each list is a chain: there is a sequence of elements, each once,
that the links follow from the head to NULL (`Sound`); that the free list,
`mp_connections` and the elements a caller holds share the cache out; and that
`m_used` and the owner marks agree with the free list. The free list and
`mp_connections` use the same link word, so that a store for one of them must be
shown not to touch the other. The lemmas say what `create_resource`, `add_node`
and `rm_node` make of chains. The model's lists are what a walk from the head
meets; that a walk over a chain meets the chain's elements, and then NULL, is an
induction (`WalkIs`).
`SetsImplemented` then maps each chain to the set of its elements, so the sets in
EventLoop stand on the links of the source.

### Echo

`IInv` says that the links of each queue are a ring through its head, given by the
sequence of its buffers (`RingOf`), that the queues share no buffer and together
hold the ones allocated (`LinkInv`), how many buffers there are at each point of
the handler (`BufferInv`), that the buffers of the read queue hold consecutive
pieces of the stream (`StreamInv`, with the offset of every piece), and what was
answered (`AnswerInv`). `ForEachIs` shows that a walk over a ring yields its
sequence; `InitRing`, `AddTail`, `Merge` and `FreeRing` show what the stores of
`dlist_init`, `dlist_add_tail`, `dlist_merge` and the removal of all nodes make of
rings; `Spread` shows that the sizes echo.c computes from `readv`'s result are
those of the pieces the kernel stored. `Flattened` puts the pieces together.
`calloc` is taken to succeed, and `NewBufIs` shows that the model's supply of
buffers never runs out, so the bound is no restriction.

### RbTree

What a subtree holds and how many black nodes are on its paths look like
inductions over trees. Instead `IInv` says, for some set `C` of nodes, that there
are an interval `lo[n]..hi[n]` of keys for every node `n`, which the links narrow
from parent to child (`TreeShape`), and a number `h[n]` that is the black height
under `n` (`Heights`). A rotation or a removal changes the intervals of few nodes,
so every step has to speak of the nodes around the one it repairs and of no path.

How far the balance is right depends on what is running: everywhere (`Steady`);
everywhere but for a red node with a red parent (`Inserting`); everywhere but
for one link under which a black node is missing, which may be to no node at
all, and the colour of the node there (`Erasing`). Each step of the code is
first shown to be a rotation, a change of colours, a link, a removal or a
renaming (`Rotated`, `Recoloured`, `Linked`, `Removed`, `Renamed`), with the
stores of its branch; a lemma for each of these says what it does to intervals
and heights, and from this the lemmas for the actions get `IInv` back. The left
and right branches are one proof with the side as a parameter. That the repairs
never dereference NULL - the grandparent of a red parent, the sibling of a node
that lacks a black one - is part of it.

`SearchTree` and `RedBlack` then follow. `Subtree` adds children as long as
there are any, and what it collects is shown to be the nodes whose keys are in
the interval (`SubtreeIs`); the black nodes above a node and the height under it
are shown, from the root down, to make the same number everywhere. For the
walks, `rb_next` is shown to find the next key by the same intervals.
`ImplementsSet` is one lemma per action: the repairs keep `C`, the calls change
it by the one node they are given.

### Digits

`LowSeq` is the digits of a number as repeated division by ten gives them,
`NumSeq` those of the reference numeral; `LowMirrorsNum` says that one is the other
turned round. `DigitCount` reads the number of digits off the table of nines, and
`SearchEnds` shows, with the window of every iteration, that the binary search ends
at that place; so `count_places` is exact on both sides of every entry, behind the
last one and for `INTEGER_MIN`. `WtoaStores` and `ItostrStores` say what a call
stores and that it fits, and `NumberIsRead` that `strtoi`, which computes modulo
the width, does not overflow before the last digit; for `INTEGER_MIN` the overflow
of the sum and that of the sign cancel (`NumeralIsRead`). The inductive invariant is the
conjunction of what the three calls promise of the last call.

The assumption (`ConstantsAssumption`) is that the largest integer has one digit
more than the table has entries and is not all nines. Without the second part
`INTEGER_MIN` would have one digit more than its neighbour, whose digits
`count_places` counts for it; both tables of the source satisfy it.

### How the inductions are done

The provers cannot instantiate a theorem that takes an operator, so an induction
is done with *sets*: `SetInduction` says that a set that has 0 and with every
number the next one is `Nat`, `LeastExists` that a set that is not empty has a
least number, which is used for the set of the counterexamples. A proof module
that needs one of them begins with it. That a recursive function satisfies its
equation is proved by exhibiting a function that does: for `Digits` by one lemma
for all its functions (`RecursionExists`), with the function's steps as a value.
This is enough for walks over links, concatenations, loops and digits.

### Only model-checked

`PendingServed`, `Settles`, `HandlerReturns` and `CallsReturn`: liveness under
fairness is out of this prover's reach. Every safety property of a passing run is
proved.

## Not modelled

Logging, the wording of messages, socket options, the bytes of requests and
answers, the dump functions of slub, `conf.c` (its constants are the models'
CONSTANTS). No file includes `bitmap.h`. `hixo_expand_buffer` and
`hixo_byte_array_transfer` of `buffer.c`, `list_add`, `list_remove`, the stack
macros and the backward walks of `list.h`, and `mem_is_filled`
and `mem_detect_bit` of `slub.c` have no caller, so there is no use of them to be
faithful to. The mempool functions of `resource.c` and `epoll_mod_event` are
empty. A failing `calloc` in echo ends the process, which `AcceptLock` has as a
crash. The assertions are taken as compiled in: the calls of `rm_node` are
inside `assert()`, so a build with `NDEBUG` would be another program; the
makefile does not define it.

## Plan

All parts with logic of their own are modelled, and every safety property of the
runs is proved. What could be added:

1. An abstract specification of slub (objects of given sizes in a region) that
   `Slub` implements, in place of the history variables.
2. A composition of `EventLoop` with `Echo` in place of its one-step handler.
