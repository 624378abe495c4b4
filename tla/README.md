# Verification of KytyPS5

TLA+ models of the concurrent core of KytyPS5, an emulator of the PlayStation 5: the objects its guest threads sleep
on, the guest's memory and what tracks it, and the path of a frame from the guest to the screen. TLC checks every module on small
instances; TLAPS proves part of it for instances of any size. Paths are relative to the repository's own
source tree, `src/` (written `src/src/` in `PROJECT.json`).

Contents: 1 the system - 2 the modules - 3 the runs, their bounds and what they show - 4 fairness - 5 proofs -
6 findings - 7 limits: what is only model-checked, what is abstracted, what is not modelled.

## 1. The system

The emulator maps a guest executable into its own process and patches it; every guest thread is a host thread.
Calls of system libraries end in `kernel/` and `libs/`. Command buffers for the guest's GPU are interpreted
on one *GPU thread* (also: render thread), which translates them to Vulkan; other threads of the emulator replay the recorded
Vulkan calls, copy guest memory to the host's GPU, retire what the host's GPU has finished, present frames and
translate ahead. The guest's memory is written by guest threads directly, through host page protections.

| Component | State | Operations | Interacts with | What is hard | Correct when |
|---|---|---|---|---|---|
| Kernel semaphore, `kernel/semaphore.cpp` | count, limits, status, list of waiters by priority or arrival | Wait, Poll, Signal, Cancel, Delete | guest threads; signals are dispatched while one sleeps | waiters that fit pass those that do not; a grant races a timeout; records live on waiters' stacks | units are conserved, nobody who could be served sleeps, a deleted object is not touched |
| POSIX semaphore, same file | count, number of waiters, a record in guest memory | init, destroy, post, wait, trywait, timedwait | guest threads | one is signalled per post and may be away | no unit stays while somebody sleeps |
| Event flag, `kernel/eventFlag.cpp` | bit pattern, status, number of waiters | Wait, Poll, Set, Clear, Cancel, Delete | guest threads | Set, Clear and Cancel give the mutex up while they poll | no wakeup is lost, Cancel is exclusive and ends, the count does not leak |
| Event queue, `kernel/eventQueue.cpp` | handle table, events with state and pending triggers, timers | Create, Delete, Add/Delete event, Trigger, Wait | file loader, interrupts, video out trigger it | one waiter is notified per trigger; lookup and use are separate steps | triggers are received once, in order, by somebody; close wakes all |
| Sync on address, `kernel/syncOnAddress.cpp` | a registry of waiters by address, or the host's futex | Wait, Wake | guest threads | compare and sleep against a wake; the last waiter drops the entry | no wake of everybody is lost |
| Pthreads, `kernel/pthread.cpp` | mutexes, conditions, read-write locks, a pool of thread records | lock, wait, signal, create, join, detach, the reaper | all guest threads | polled sleeps, recursive counts across waits, records that are reused | locks exclude, wakeups reach their waiter, one thread per record |
| Backing of guest memory, `kernel/memoryAddressSpace.inc` | views of the backing file, a reader's slot, a fence, an epoch | map, unmap, zero, read and write by the renderer | every memory call | two fences without a lock on the reader's side; translations are cached | copies are whole, translations current |
| Virtual ranges, `kernel/memory.cpp` | a sorted vector of ranges with cached clamps | add, remove, replace, protect, rename, query | memory calls, renderer | merging of neighbours, boundaries of binary searches | the table is what it is page by page |
| Guest memory calls, same file | ledgers: ranges, physical blocks, mappings, pool, views | map, reserve, protect, name, unmap, release, commit, decommit | the three above | a span is changed in parts, each of which the host may refuse | the ledgers stay in step, a refused call leaves nothing |
| Partially resident memory, same file | committed pages of an aperture | commit, decommit, replace, the renderer's read | renderer | two representations, three mutexes | a read finds every page owned |
| Page tracking, `host_gpu/pageManager.cpp`, `memoryTracker.*`, `regionManager.h` | dirty bits, watchers, host protections, epochs | fault, upload, GPU write, download, mprotect, collection | guest threads, render thread, upload worker | a fault races a change of protection; protections are applied late | no write of guest or GPU is lost to the other |
| Readbacks, `host_gpu/renderer/cache/bufferCache.cpp`, `local/readback-queue.h` | requests with slots and claims | fault, submit, copy, share, detach, evict | guest threads, render thread, copy engine | who copies, when the slot is free again | a guest's read gets the GPU's last write |
| Uploads, `local/async-upload.h`; recording, `local/vulkan-recording.cpp` | two rings, one worker each | batches of copies, packets, drain, submit | render thread, unmapping guests | lock-free wakeups; two orders have to be kept | in order, never before their copies, every submission arrives |
| Command buffers, `renderer/commandScheduler.cpp`, `masterSemaphore.cpp` | pool with fences, current tick, cached GPU tick, recorders | Begin, Flush, Finish, Wait, Refresh, SubmitRecorded | GPU thread, translating worker | buffers are reused on a cached value; a fence is guessed before the submission | no buffer the GPU has is recorded again |
| Deferred operations, same file | pending and priority lists, an active operation, phase | Defer, DeferPriority, PopPending, WaitPriority, Shutdown | GPU thread, priority thread, callbacks | one condition variable for three kinds of sleepers; stop request without the mutex | run once, after the GPU, priority first; waits end |
| Flips, `presentation/videoOut.cpp`, `window/swapchain.cpp` | per-port status, lists of requests, a pool of frames | Open, Close, SubmitFlip, Prepare, Complete, present, idle refresh | guests, GPU, priority and present threads | Close against a flip anywhere on its way; few frames | no frame lost or shared; waits end; a port's counts are its own |
| Interrupts, `renderer/renderContext.cpp`, `sync.cpp` | registrations of event queues | add, delete, trigger, removal of stale ones | event queues, GPU and priority threads | triggered outside the lock | no registration is lost |
| GPU thread, `guest_gpu/graphicsRun.cpp` | one graphics and 56 compute queues, commands, frame numbers | Submit, Done, SendCommand(Sync), Shutdown, the loop | guest threads, all of the above | queues are served in turn, frames must not mix; blocked buffers are put back; Done waits with a mutex held | frames are kept apart, Done and commands return |
| Platform layer, `common/threads.cpp` | `Mutex`, `CondVar` | Lock, Wait, WaitFor, Signal | everything | a wait is cut into 10 ms slices | - |

The other parts (packets, caches' searches, pipeline and shader translation, loader, file system, audio and
codecs, network, dialogs, launcher) are listed in `PROJECT.json` with the reason they are left out.

Two facts about the platform layer matter to every module. `Common::Mutex` is recursive and `CondVar::Signal` wakes
one sleeper. `CondVar::Wait` without a timeout returns to its caller's loop every 10 ms once the kernel has installed
its poll callback (`kernel/pthread.cpp:1208`), so that a guest's signals are dispatched; `CondVar::WaitFor` does not.
Hence a lost notification delays a thread that sleeps in `CondVar::Wait` but strands it nowhere; safety
properties, not liveness, are where a missing wakeup shows (`FlagInv`, `NoStrandedWaiter`, `EventsInv`,
`PosixSemInv`). The `std::condition_variable` of the scheduler (`m_operation_available`) has no such net, nor have `WaitFor`
and the atomic waits of the rings and of `SendCommandSync`.

## 2. The modules

Conventions: a section of code under a mutex that is not given up is one action, and the mutex is a variable only
where its holder sleeps or another thread looks without it (`owner` in GuestGpu, `driver` in FlipQueue, `lock` in
PageTracking). A sleep is a location in a `pc`-like variable. Lock-free parts (BackingFence, AsyncUpload, RecordingStream) have one
action per atomic access that another thread could tell from the next. Variables
have the members' names where the names allow it. Mutated forms of a definition stand before it under a `Mutant`
comment; nothing refers to them.

Objects of the kernel:

* **KernelSema** (class `KernelSemaPrivate`). `Wait`, `Poll`, `Signal`, `Cancel`, the
  destructor and the creation of the next object. `Signal` is cut into the iterations of `WakeWaiters`; `scan` is its iterator. A waiter is parked, awake (out of `WaitFor`, without the
  mutex) or back.
  **CountingSema** is the abstract object: units, undecided calls, decisions, without list, lock or sleep;
  `Abstract` in KernelSema is the refinement mapping.
* **EventFlag** (`KernelEventFlagPrivate`). All methods; `blocked` is the poll for status Set in Set, Clear and Cancel,
  `cancel` and `delete` are the polls for `m_waiting_threads = 0`.
* **PosixSem** (`PosixSemPrivate`). A waiter that is out to dispatch signals is "awake", like one whose deadline passed.
* **EventQueue**. One queue. Lookup by handle and the work under `m_mutex` are separate
  steps (`WaitEqueue` / `WaitReturns`, `DeleteEqueue` / `Close`). Events are user events with or without `EV_CLEAR`,
  queued ones, whose triggers are kept behind each other, and one-shot timers. `GetTriggeredEvents` is
  one step: `Rooms`, what an event finds left of the waiter's array, `Taken` from each and what is `Kept`.
* **PthreadMonitor** (the `Native*`, `Cond*` functions). A mutex and a condition used with it. A condition wait gives
  a recursive mutex up in one call and has it back in two (`Relocks`, `Recounts`). **Monitor** is its abstraction:
  a holder with its holds, sleepers in order, wakeups given to one each, answers.
* **PthreadRwlock** (`RwlockLockCooperative` and its callers). **PthreadThreads**: the pool of records, creation, the exit of a thread, join,
  detach and the thread that reaps detached ones, whose three loads of a record are three steps.
* **SyncOnAddress**. Both platforms: a slot of the host's futex that is left every 10 ms, and the portable registry, whose entry the last waiter removes.

Guest memory:

* **BackingFence**. The reader's slot and epoch, both fences, the locks and the cached translation, one step per access.
* **PageRanges** has the operators on sorted vectors of ranges that **VirtualRanges** (the class `VirtualRangeTable`)
  and **GuestMemory** (the calls of `memory.cpp`) share. In VirtualRanges an update takes
  its mutex once and is one action; each is compared with its meaning page by page. In GuestMemory a call is one action with the host's answers as
  nondeterministic choices: how far the call gets before the host refuses, and the rollback.
* **PrtResidency**. The calls that change a page of the aperture, step by step, against a read of the render thread.
* **PageTracking**. Pages with dirty bits, watchers and host protections, guest threads whose writes fault, the render thread and the
  upload worker. Data is reduced to which side lacks a write (`stale`, `imageStale`, `behind`). The setting (`mode`) has the region's pages.
* **GuestReadback**. Requests for pages the GPU wrote: their slots, the copy on the graphics queue or the copy engine, and who
  stores the bytes.

The path of a frame:

* **GuestGpu** (class `GuestGpu`). Guests submit and end frames, the GPU thread selects, runs, puts back and retries. A
  command buffer is a sequence of label writes and waits; a label is *recorded* when its packet was interpreted,
  *flushed* when the slice's work was submitted and *written* when the host's GPU got there.
* **AsyncUpload** and **RecordingStream**: the two rings with their workers; **Doorbell** is the sleep both share.
  **SubmitPath** composes them: the render thread's batches, packets, inline calls and submissions, and guests that unmap.
* **CommandBuffers** (`CommandPool`, `Submit`, `Begin`, recorders, `MasterSemaphore`). The GPU thread opens,
  records, submits and waits; the worker fills recorder buffers; everybody refreshes the cached tick in two steps.
* **DeferredOperations** (priority and pending operations). The Runner is `PriorityOperationsThread`; "poised" is where it holds the mutex between the test of its
  predicate and its sleep. Callbacks may defer.
* **FlipQueue** (`FlipQueue`, ports, `FramePool`). Guests open and close ports and
  submit flips; the GPU thread reserves, prepares and waits; the priority thread completes; the present thread shows,
  refreshes and counts. `EXIT`s that find a flip or a frame elsewhere set `fatal`, which is never set; two others end the
  emulator on purpose and are `GpuExits`: a queue full of CPU flips behind a flip of the GPU, and a port closed under such a flip.
* **Interrupts**. Guests add and delete events, the GPU and the priority thread copy the registrations, trigger them and erase stale ones. The ones
  copied are the places `at` of those with the event's id, in their order.

The parts of a frame's path are cut at these interfaces: what GuestGpu flushes is a submission of SubmitPath; its end
is `done` in DeferredOperations and the timeline in CommandBuffers; a flip's completion is a priority operation, an
action of FlipQueue after the preparation; an event an interrupt triggers is one of EventQueue.

Compositions: **KernelObjects** is the sum of the kernel's objects, **Commands** of SubmitPath and DeferredOperations, **Memory** of
BackingFence, PrtResidency and GuestReadback (to which MCMemory adds the table of ranges and the calls), **Renderer** of
CommandBuffers, Interrupts, PageTracking and FlipQueue; a
behaviour is of one of the parts (section 3). `*_proofs` hold the theorems of section 5: KernelWaits_proofs those of EventFlag,
EventQueue, PthreadRwlock, SyncOnAddress, PosixSem and PthreadThreads, PthreadMonitor_proofs those of the monitor, and KernelObjects_proofs those of
KernelSema and of the sum; Commands_proofs those of SubmitPath and of its sum with DeferredOperations, Memory_proofs and
Renderer_proofs those of the parts of Memory and of Renderer; the others are named for
their module. A sum instantiates a part's *proof* module, where it has one: its lemmas are then about the instance.
`MC*` are instances for TLC.

## 3. Runs

Every run checks all reachable states of its instance. A *sum* run (`kernel_objects`, `live`, `renderer`, `commands`,
`memory`) has several systems in one module: `used` chooses one in the initial state and the variables of the others stay
as they are. The systems of a sum share no state, so that it asks of each what runs of their own would, and a property is stated
once for the systems it is about. Threads (and ports, where they are alike) are symmetric, except in runs with liveness.

| Run | Property | Says |
|---|---|---|
| kernel_objects | `IInv`, `NoStrandedWaiter` | semaphore: list and stacks agree, count and grants fit; whenever the mutex is free nobody who could be served waits undecided |
| | `GrantsKeepOrder`, `ImplementsCountingSema` | grants follow the list; every step is one of CountingSema or a stutter |
| | `FlagInv` | flag: no sleeper's condition holds, `m_waiting_threads` is their number on every way out, Cancel's waiters leave with Canceled |
| | `LocksInv` | mutex: the holds are what the threads believe, across waits that save them; read-write lock: a writer is alone, and `waiting_writers` ends with the writers |
| | `ImplementsMonitor` | mutex and condition implement Monitor |
| | `WaitersAreReachable`, `WakesAreTotal` | address: who waits is listed in the entry a wake finds; a wake of everybody reaches everybody, as does a flag's Cancel |
| | `ThreadsInv` | a record belongs to one thread at a time, is not reused while somebody joins it, and no result is given twice |
| | `EventsInv` | triggers are received once and in order; close wakes all; a pending trigger has a waiter on its way |
| | `PosixSemInv` | no unit stays while somebody sleeps and nobody is on its way |
| live | `DeleteCompletes`, `FlagCallsComplete` | the semaphore's destructor, the flag's Set, Clear and Cancel end |
| | `RwlockServes` | a writer that waits gets the lock although readers keep coming |
| | `FlipCallsReturn` | closing a port ends, and the GPU thread's wait for a buffer's flips ends, unless the present thread is stuck as `flips_refresh` shows or the flip is one only the waiting thread can prepare |
| | `MemoryCallsReturn` | a guest's read of GPU memory, a change of mappings behind the fence, a call on resident memory end |
| renderer | `OpenIsFree`, `RecorderIsFree`, `FenceIsSubmission`, `KnownNeverFalls` | no command buffer is recorded that the GPU still has; a fence is the tick its submission signals; the cached tick does not fall |
| | `FlipsAreSound` | frames have one owner, counts are a port's own, nothing of a closed port is left, no `EXIT` of the queue or the pool finds a flip or a frame elsewhere |
| | `InterruptsInv` | an accepted registration stays until it is deleted or its queue closed |
| | `PagesAreSound` | a write of the guest faults while the GPU's copy depends on it, and the reverse; no side's write is lost |
| commands | `SubmitInv`, `InOrder` | packets and copies run in order, none twice or before its copies, none on unmapped memory |
| | `DeferredInv` | operations run after the GPU, priority ones first, none is dropped |
| | `WorkCompletes` | every submission arrives; every operation runs and every wait for one ends |
| guest_gpu | `NothingOvertakes`, `DoneMeansIdle`, `TypeOK` | nothing is processed before what precedes it in its queue or frame; after Done the GPU is idle |
| | `GuestCallsReturn` | every Done and every command returns although buffers wait for each other's labels |
| memory | `CopiesAreWhole`, `TranslationsAreCurrent` | the backing does not change under a copy; a translation used without lock is the mapping of now |
| | `UpdatesArePagewise`, `QueriesArePagewise` | the table of ranges is what it is page by page, after every call and for every question |
| | `MemoryInStep`, `RollbackIsTotal` | ranges, blocks, mappings, pool and views say the same of each page; a refused call changes nothing a guest sees |
| | `ReadsSucceed` | a read that finds its pages committed finds them mapped |
| | `ReadsAreSound` | a guest that reads what the GPU wrote gets the last write, from a slot that is its own |

Six runs expect a violation, told in section 6: deferred_stop (`ShutdownFinishes`), flips_refresh (`RefreshReturns`), page_late
(`ProtectionPrecedesCopies`), futex_wake (`FutexKeepsWakes`), prt_munmap (`ResidencyPublished`), rename_split (`AliasesAreOwned`).

Bounds, and why they are enough. Threads are two or three: the races above are between one thread that is about to sleep, one that
wakes it and, where sleepers have an order or a count, a third. Counters are capped by constants in the guards
(`MaxTick`, `MaxOps`, `Serials`, `MaxTriggers`, `Lives`...), each high enough to wrap, overflow or reuse once.

* kernel_objects: three threads. Semaphore: initial counts -1, 0, 2, limits 0 and 2, needs 0..3, signals 1..3, cancels with
  -1, 1 and 3, two priorities: every rejected argument, a waiter that never fits and one that is passed over. Flag: two bits. Mutex: both types, two holds. Read-write lock: two
  holds per reader. Address: four entries, two values, wakes of one and of all, both platforms. Pool: two records, two lives each.
  Event queue: a user, a queued and a timer event, two triggers of each, waiters that each ask for one event or for two. POSIX semaphore: greatest value 2.
* live: two threads each (three for the lock: a writer between two readers that alternate), one port with two frames, capacity 2 and
  two flips or one flip and a port that is opened twice, with refreshes and late vblanks, one page and slot with three requests and two writes, one address with two pages, one page of the aperture.
* renderer: buffers: growth by 2, at most 3, three ticks (a buffer is reused twice), one recorded buffer handed over at a time, one viewer. Flips: two ports,
  guests and frames, capacity 2, refreshes and late vblanks, and `Limits`: three flips of a port opened once (a full queue, by CPU flips alone, too), or two flips and two openings.
  Interrupts: two guests, raisers and queues. Pages: one page of two guests or two of one, two jobs in the worker's ring,
  four settings of the KYTY variables (three with two pages), in all of which copies are queued with the protections they depend on (section 5).
* commands: one area of capacity 1 (so that it is full), two jobs, two chunks, three packets, both modes; three operations, two ticks.
* guest_gpu: two submitters, the graphics and one compute queue, two frames, one command, one label.
* memory: fence with three threads, an address and two pages, an epoch that wraps after 2; tables over four pages, three kinds, two
  names: every merge of a range with either neighbour; calls over three pages, two of direct and one of flexible memory, from each of whose states
  every refusal by the host is rolled back, and over two pages with a host that refuses any page of any call; aperture with two guests;
  readbacks with two guests and pages, one slot allowed (its request is evicted) or two, four requests, three writes, with
  the copy engine and `KYTY_READBACK_DETACH`: each only adds steps.

## 4. Fairness

* A thread that can go on without waiting for another does so: weak fairness of its steps. Host threads are not suspended for ever.
* A thread that needs a mutex others take and release again and again gets it: strong fairness of the step that takes it
  (`WaitReturns`, `WaitTimesOut`, `DeleteEnds` of KernelSema; `Modify` of a blocked EventFlag caller; `Vblank`,
  `LateLooks`, `GpuRetries`, `FlipDue` of FlipQueue, while the emulator runs; `DoneDrained` of GuestGpu; `Command` in GuestReadback; the steps of
  PrtResidency that lock). `std::mutex` does not promise that; the waits it
  is used for retry every 10 us to 10 ms or are notified each time, so to be late always needs an unbounded run of bad luck.
* `CondVar::Wait` returns every 10 ms (section 1): `SliceEnds`, `Wakes` are weakly fair. Timeouts elapse: `WaitTimesOut`.
* The host's GPU finishes what it was given: `GpuFinishes`, `LabelWritten`.
* In DeferredOperations a notification is delivered to *one* sleeper chosen by the system; nothing says which.
* Guests are never assumed to call anything, with two exceptions. `CancelCompletes` has the premise that no thread enters Wait
  for ever: without it, a guest that repeats its wait at once keeps Cancel polling, and the code has no defence. And
  `RwlockServes` assumes that who has the lock unlocks it.
* MemoryCallsReturn assumes weak fairness only for the fence: its readers announce themselves and finish. The data-write fence
  is not claimed to be free of starvation.
* What must end is stated as `[]<>` of its being over, not as "begun leads to ended": a call that has ended and a call that never
  begins are the same to TLC, and the formula is equivalent for a condition that leads to its own negation.
* The specifications of `live` and `commands` are the sums of their systems' next-state relations with all
  their fairness; conditions on a system that is not used are vacuous.

## 5. Proofs

`tlapm` proves every obligation of the eight `*_proofs` modules. The assumptions are those the modules name
(`...Assumption`: arguments of calls are integers, limits positive, threads distinct from `None`, a submission has room for
three buffers, a ring at least one slot, `None` is no slot and no request, and `Precedes`, below) and, where something is counted, that the threads are finitely many
(`IsFiniteSet(Threads)`), or the pages or frames. Numbers of threads, queues, buffers, pages, frames, ports, flips
and submissions are not bounded by them. Every property of `kernel_objects` and of `renderer` is proved, all of the safety of `commands` and
`guest_gpu`, and those of the fence, the sparse reads and the readbacks in `memory`.

**KernelSema.** `IInv`: `TypeOK`; `ListMatchesStacks`, the list
names exactly the threads inside Wait, each once; `Support`, what the rest needs of threads outside and of legal
arguments; `PassedDoNotFit`, while Signal runs no undecided waiter *before* the cursor `scan` fits; and the properties. `NoStrandedWaiter` only speaks of states in which nobody is inside
`WakeWaiters`, and is not inductive through the loop: `PassedDoNotFit` is. One pass over the list is enough because the count only
goes down during it. `CountInRange` promises a count
that is not negative only for signal counts that are not. From `IInvHolds` follow `Typing`,
`NoWaiterIsStranded`, `CountStaysInRange`, `DecidedWaitersAreAwake`, `ListIsSorted`, and the action property `GrantsFollowTheList`: removing a decided waiter and
inserting one in order keep the relative places of the others. In
`SemaphoreImplementsCounting` a grant inside the loop needs `PassedDoNotFit` (the abstract object may only grant the first that fits), the end of the loop that
nobody fits.

**EventFlag.** The invariant adds to `FlagInv` that who waits has arguments a wait accepts and that nobody waits on a
freed object. `NobodySleepsThroughSet`: Set gives the mutex up while it polls, but never between
its change of the bits and the mark on the waiters. `CancelsAreTotal`: who is inside at a Cancel leaves with its answer.

**PosixSem.** `NoUnitIsStranded`. Post signals one sleeper of several, so "a unit has a waiter on its way" has to count:
the number of waiters awake is at least the smaller of units and waiters. **PthreadRwlock.** `WritersAreAlone`, with the count of
waiting writers over every exit of the loop, timeouts included. **SyncOnAddress.** `EveryWaiterIsReachable`, `PortableWakesAreKept`: the registry's entry is the one every thread between its lookup
and its sleep refers to, since only the last waiter erases it. **PthreadThreads.** A record is owned by the guests that may still name it and by its host thread; the reaper's three loads are related to the
life they were made in.

**EventQueue.** `EventsReachWaiters`, for any threads, sets of events of each kind and sizes of the waiters' arrays. `EventsIInv`
adds to the property the types and `EventsClear`: queued events clear, and so does all that is taken until a timer or an event without
`EV_CLEAR` is added. What a waiter takes and leaves of an event are together what there was (`Shares`), so that `got` and the rest
continue `sent`. A waiter returns with nothing only after its timeout: the first triggered event, which a least index gives,
finds all of the room (`FoundIsTaken`), so that a waiter that stops looking takes at least one trigger with it, and `Unreceived` shrinks
with `Awake`; a trigger notifies a sleeper, which adds to both.

**PthreadMonitor.** `LocksAreKept`: the mutex's holds and what sleepers saved are what the threads believe
(`HoldsAreKept`), and no listed thread has its wakeup already (`ReadyIsUnlisted`). These carry `MutexAndConditionAreMonitor`, the
refinement of Monitor: a recursive mutex comes back in two steps of which only the second is visible.

**KernelObjects.** What the run states of the sum, from the lemmas of its instances: a part's variables are its own while `used` names it.

**BackingFence** (in Memory_proofs, with the next two). `FenceHolds` is the conjunction of who may be where (`FenceInv`; too slow an invariant for a run, since it ranges over
functions of all threads): between announcing itself and reading the epoch a reader may be seen or
not, so the proof distinguishes the writer's place relative to each reader. From it `CopiesWhole` and `TranslationsCurrent`.

**PrtResidency.** `ReadsOfResidentMemorySucceed`. A call is the list of the steps it has left; `Left` says which lists fit the page's
range, its view, who has the residency's mutex and who owns the page, for each of the calls and each place in it. While a call runs on a page,
what it has left fits; a page on which none runs is `Settled`. The reader holds the mutex from its look at the ranges to
its copy, so that only a page that was given up before can fail it, and it remembers that one.

**GuestReadback.** `GuestsReadTheLastWrite`. A slot's request is for pages of the GPU, with their newest versions, and no two
slots' requests share a page. Its bytes are on their way or there: its copy is the last into the slot, and after every write of its pages, on the graphics
queue (`OnQueue`), or the only one for the slot on the copy engine (`OnEngine`), or made (`InSlotNow`). One guest thread claims a request
(`OneClaims`), and a request that is being copied keeps its slot. `Alone`: while the render thread reads or uses
a page for itself no slot has a request for it, which is why the write it then records makes no slot's versions old.

**CommandBuffers** (in Renderer_proofs, with the next three). `Timeline`: what is read <= the timeline < the next tick, for every thread between its read and
its publication; from it `Monotone`. `NoBufferInFlightIsOpened` needs that a pool buffer's last submission is at most its fence, which is
the tick the submission *will* signal: open buffers carry the current tick, and nothing
is submitted between the choice and the submission (`FencesAreSubmissions`). `NoRecordedBufferIsInFlight` does the
same for recorders, whose fence is set after the submission, with the mark "Recording" in between.

**Interrupts.** `EventsHearInterrupts`. `Telling` adds to the property where an erasure is due: a thread that triggers or erases has registrations
left to visit (`EventsWait`), and an event that is in a queue while a thread is about to erase its registration is among `raced`
(`RacesAreKnown`), so that the only registration an erasure takes from an event that is there is of one that was added meanwhile.

**PageTracking.** `NoWriteIsLost`, for any number of guest threads and pages and any length of the worker's ring. `Tracking` is:

* `WatchersFollow`: a page has one watcher if it is not writable and one more if an image watches it; what is writable is dirty, and
  access is denied to exactly the GPU's pages. (The code counts; the invariant says what it counts.)
* `UploadOK`, `DownloadOK`: what the render thread has in hand at each place. What it will protect is among what it will copy; an upload for a write has the
  region's lock and no dirty page in its range; after a download nothing of the region is behind.
* `JobsOK`: the number of deferred protections is that of the `protect` and `settle` jobs in the ring and of the one in hand, so that 0 means that none is left, and
  every page of such a job is one whose copies are queued too.
* `HostOK`: a page is inaccessible if the GPU owns it, and a page that is watched and still writable on the host is `Late`: its protection is in hand or in the
  ring, before a copy of it (and, with an image on it, before the image's read). The pages a guest's own mprotect or fault has just opened are excepted, and only until it is done.
* `EpochsOK`: a region that counts as proven has no dirty page, and a dirty page is either announced in `bda` or the render thread is about to look.
* `DataOK`: what guest memory lacks is the GPU's, and what the buffers lack is dirty or will be copied.

A write through a page that is still `Late` is in a copy taken later: that is `HostOK` and `DataOK` together, and it is why the order in
the ring matters. It needs the assumption `Precedes`: a setting that queues protections queues the images' copies too and, if ranges are
copied as one, knows of every range whether it can be. The three KYTY settings allow others, and `page_late` (section 6) shows what happens there.

**FlipQueue.** `FlipsAreSound`, for any numbers of ports, guests, frames and flips and any capacity. A flip is in one place of several, and
each thread that works on it may find that its port was closed. `FlipsOK` is:

* `FlipListsOK`: the three lists share no flip and have exactly those that are not gone, each in a state its list allows: a cancelled one is never ready or shown.
* `FlipPortsOK`: a port that is being closed is not open, and its closer has the driver's mutex; the port for whose queue the GPU thread reserves a slot
  has been opened, and may be closed or being closed since: then it ends the emulator.
* `FlipWorkOK`: an unfinished flip has one thread or one way on: it is a submission, in a guest's or in the GPU thread's hand, or deferred until its submission is
  done. Cancelling moves it between the lists under their feet, so each place says only what survives that.
* `FlipShownOK`: while the present thread shows a flip it is the first of the queue, and stays so because Close waits for `m_processing`.
* `FlipFramesOK`: a frame is free or has one holder, a flip or a thread between two steps; none is lost, and the last one shown is free.
* `FlipCountsOK`: the count a guest polls is that of its open port's GPU flips, and unless it is being closed its queued flips are of its present generation.

Not excluded are the two `EXIT`s of `GpuExits`: the queue full of CPU flips (`videoOut.cpp:1088`), and a port closed since a command buffer's flip
found it (`sync.cpp:195`). Nothing limits the CPU's flips but the capacity; after such an `EXIT` no step is taken.

**GuestGpu.** `Inv` says of the frames: at most one boundary is outstanding, queued or with the GPU thread
(`FramesOK`, which also counts a boundary that Done has queued and not yet counted); it is of the frame being consumed, and what
is queued behind it of the next (`QueueOK`); when it has been taken, nothing queued anywhere is of its frame (`HeldOK`). Each
queue is in the order of its serials and of its frames, and what the GPU thread has precedes the rest of its queue, so that
putting it back keeps the order. `OwnerInDone`: between the publication of the
boundary and `submitted + 1`, which is done without `m_queue_mutex`, only `m_submission_mutex` keeps a submission of the old frame
from being queued behind the boundary. From this follow `NothingIsOvertaken` and `FramesAreOneAhead`. `WorkIsCounted` is the rest of `TypeOK`: `m_submission_count` is
the cardinality of the set of queued places, so that a push, a pop and a removal from the middle are each one element; with it
`DoneDrains`: a count of 0 and an idle GPU thread leave no queue that has anything.

**SubmitPath.** `RingsAreKept`: a slot between `done` and `head` keeps its job because a push waits for room; a sleeper's last look
and the number it announced bound what it can have missed; and an unmap that waits for a job (`Awaits`) waits for the greatest
number of those on its area. `SubmissionsInOrder` numbers the packets across chunks: `b` gives each chunk the number before its first, the chunks that are
published and not completed continue each other, and each packet's copies are among the promises made when it was recorded.

**DeferredOperations.** `OperationsAreSound`. *Books*: ticks in a queue do not fall, a queue holds what its operations'
status says and once, and who has taken an operation is its runner. *Course*: a stage of Shutdown implies what it has behind it -- everything submitted, all retired, both queues drained -- and the
stop request is made in one stage only; what is deferred after that runs at once. `OperationsRunInTime` carries it to the sum that `commands` checks.

Left to TLC: all liveness, which is out of the prover's reach, and the safety of the modules without proofs. VirtualRanges and GuestMemory compare folds over sorted vectors with their meaning page by page (`UpdatesArePagewise`, `QueriesArePagewise`,
`MemoryInStep`, `RollbackIsTotal`): each would be an induction over data.

## 6. Findings

* **`deferred_stop`: Shutdown may never return.** `CommandScheduler::Shutdown` calls `request_stop()` and
  `notify_all()` without `m_operation_mutex` (`commandScheduler.cpp:264`). The priority thread tests its predicate
  under the mutex and then sleeps; both calls can fall between the two, and `join()` waits for ever.
* **`flips_refresh`: the present thread waits for itself.** `FramePool::Acquire` may hand out the last shown frame
  (`swapchain.cpp:115`); an idle refresh then asks for a blank frame and waits in Acquire. If all frames belong to
  queued flips, the only thread that gives frames back is the one that waits. The overlay's refreshes are one way there. The other needs no overlay: a late
  vblank looks for open ports, drops `m_mutex` and asks for a blank frame (`videoOut.cpp:853-869`); a port opened in between may have flips that
  take all frames. In either case WaitFlipDone does not return.
* **`page_late`: a copy before its protection.** A deferred protection is ordered before the copies of its own upload only
  (`bufferCache.cpp:1605`). A page whose protection is still queued counts as watched, so an image that starts to watch it changes no protection, and with
  `KYTY_ASYNC_UPLOAD=1` its source is read at once: a guest's write in between faults nowhere and the image keeps the old contents. The proof of
  PageTracking met the same root without an image: UploadCopies queues the copy of a range whose backing is contiguous and makes the others at once (`bufferCache.cpp:1617`). If
  a page's protection is queued with its own copy, and a joint upload of it and a neighbour is then copied at once, a write before the
  worker's protection is in neither. It takes a page that becomes dirty again while its protection is queued (`CopyGuestMemory` marks it so).
* **`futex_wake`: a wake that reaches nobody.** On Linux a wait leaves the futex every 10 ms to dispatch signals; a wake in that
  moment finds nobody, and the waiter may time out although it was woken (`syncOnAddress.cpp:101`).
* **`prt_munmap`: residency in halves.** KernelMunmap unmaps the view and removes the range without
  `g_prt_residency_mutex` (`memory.cpp:2840`); a reader that holds it sees one without the other and is refused.
* **`rename_split`: a name that ends the program.** Naming one page of a direct mapping splits its range and not its physical block;
  releasing the memory then finds a block longer than its range and `EXIT`s (`memory.cpp:3177`).

Seen while modelling, without a property because nothing in the repository promises otherwise:

* a user event without EV_CLEAR fills a waiter's whole array with copies of itself (`eventQueue.cpp:107`);
* a timer that is added again while it is triggered keeps the trigger and gets the new deadline;
* a waiter with a timeout sleeps in `CondVar::WaitFor`, which does not dispatch the guest's signals;
* a negative signal count is accepted by the kernel semaphore and lowers its count (`semaphore.cpp:140`);
* `pthread_create` logs the new thread's record after the thread may have ended and been reaped;
* an interrupt's registration that is found stale is erased after the lock was given up (`renderContext.cpp:140`);
* `Done` holds `m_submission_mutex` while it waits, so that another thread cannot submit what would end a wait (`graphicsRun.cpp:248`);
* `SendCommandSync`'s command notifies on the caller's stack variable after the exchange, when the caller may have returned;
* `GuestGpu::Shutdown` with a command buffer that waits for ever does not end, and a submission after it ends the emulator;
* sixteen CPU flips that wait leave no slot for a flip of the GPU, which then ends the emulator (`WaitForSubmitSlot`; `GpuExits`);
* UploadCopies reads the upload mode twice (`bufferCache.cpp:1603`, `:1621`), harmless as long as it is set once at the start;
* a Munmap or Free that fails half way leaves committed pages without the renderer's range (`memory.cpp:139-146`);
* a pool reservation next to a reserved range named "anon" merges with it: the call answers EBUSY and leaks the reservation;
* MapFlexible and MapDirect that fail after `ReplaceFixed` leave the span reserved, and of several reservations only one name;
* a rollback of private chunks commits zeroed memory; `KernelMtypeprotect` ignores the type; a host that refuses a decommit ends the program.

## 7. Limits

Abstracted: names and logging; memory orders (atomics are sequentially consistent: each of the exchanges that
matter is one read-modify-write, or is published by the mutex around it); user data of events; data of packets and
images; the rate of flips and vblanks; Vulkan failures, which end the emulator.

* GuestGpu: registers of the processors and their reset, the constant stream beside a graphics submission's commands,
  nested buffers, the speculation.
* FlipQueue: the events of a port and the registered buffers; a command buffer that names a port already closed when it is first
  looked up ends the emulator at once (`sync.cpp:195`), which is no step of the model. EventQueue: the handle table beyond
  one queue, periodic timers (the code has one-shot ones only).
* GuestMemory: a call is one action (its mutex is held throughout); the host refuses a page in the way forward and
  not again in the rollback; alignment, `NO_OVERWRITE`, `NO_COALESCE` and memory types are left out, names only kept where they
  decide a merge; stack and code mappings are runtime mappings; batch calls are sequences of calls; `SetPrtAperture` is one call
  before all others.
* GuestReadback: `TryGuestReadFromFeedback` (`bufferCache.cpp:1250`) and `TryReadCopyFeedback` (`:1294`) answer a read from the copy an image
  made, without a request, and are left out; ticks are not modelled, so that the slot evicted, the one with the oldest tick, is any. In `live` there is one
  page, and no request is evicted.
* PrtResidency: mappings of the loader (`memory.cpp:4000`) are not partially resident and left out.
* SubmitPath: a packet that fits no chunk goes inline. `WaitDeferredSubmits` exists on Windows only.
* PosixSem: destroying or initialising a semaphore others sleep on is the guest's error and not enumerated.
* PageTracking: a page's data is which side lacks a write; regions of several pages are protected page by page.

Not modelled: the components marked so in `PROJECT.json`, each with its reason. Most of the repository's lines translate data and keep
little state between calls: packets to Vulkan calls, shader binaries to SPIR-V, caches' searches over descriptors, executables, codecs, save data and
the host's sockets and dialogs. What is concurrent about them lies in the parts above that they call.
