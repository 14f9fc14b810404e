# Verification of vkd3d-proton (ppc64le fork)

vkd3d-proton implements Direct3D 12 on Vulkan. This directory holds TLA+ models
of the parts of it whose correctness depends on the order in which threads,
queues and the GPU act, TLC configurations that check the models on small
instances, and TLAPS proofs that hold for all instances.

All paths below are relative to `src/libs/vkd3d/` unless they name another
directory. `command.c:1294` is line 1294 of `src/libs/vkd3d/command.c`.

* Section 1: the system, its components and what makes each of them correct.
* Section 2: the modules and how they correspond to the code.
* Section 3: what each run checks, with which bounds.
* Section 4: fairness.
* Section 5: what is proved, and how.
* Section 6: disagreements between code and comments that the runs show.
* Section 7: what is abstracted, what is not modelled.
* Section 8: the plan.

## 1. The system

D3D12 promises virtual queues that may wait for a fence before anybody has
submitted its signal, fences that the application and the GPU may set to any
value (also to a smaller one, a "rewind"), and objects that may be released
while the GPU still uses them. Vulkan has few physical queues, which several
D3D12 queues share, and timeline semaphores that only grow and should not be
waited for before their signal is submitted. The difference is made up on the
CPU, by threads: almost all of that is in `command.c`.

| Component | State | Operations |
|---|---|---|
| Fence, `d3d12_fence` | virtual value, scheduled updates with their Vulkan timeline values, `signal_count`/`update_count`, wait tickets, events, cached `max_pending_virtual_timeline_value`, two reference counts, two condition variables | CPU `Signal`, `SetEventOnCompletion` (event or NULL), registration of a queue wait, scheduling and applying of a GPU signal, blocking until a value is pending, waiting for a signal count, `Release` |
| Command queue, `d3d12_command_queue` | FIFO of submissions, its thread, deferred waits (semaphores and fences), `last_submission_timeline_value`, drain counters | `ExecuteCommandLists`, `Wait`, `Signal`, drains, sparse binding, retaining of resources, STOP |
| Fence worker, `vkd3d_fence_worker` | FIFO of callbacks, each with a timeline value | run each callback when the GPU has reached its value |
| Physical queue, `vkd3d_queue` | mutex, `submission_timeline` and its count, list of global waits, fence proxies and the observed value | acquire, release, submit; hand out a proxy, wait for a timeline value |
| Interop users | `queue_lock` and the `vkd3d_queue` mutex, kept across calls | `vkd3d_acquire_vk_queue`, `vkd3d_release_vk_queue`; swap chain, `LockCommandQueue` |
| Deferred release (`resource.c`) | inflight counters of the queues, references | free a resource at once if all queues look idle, else let busy queues retain it |
| Events over several fences, shared fences | atomic payload shared by the fences of one call; worker thread of a shared fence, its running flag, the list of its events | `SetEventOnMultipleFenceCompletion` (ANY, ALL, NULL event), signals, start of the worker on demand, last `Release` |
| Memory transfer queue, allocator (`memory.c`) | list of clears and texture writes, ring of command buffers, timeline semaphore, tracked textures; chunks with sorted free ranges | list a clear, write a subresource, flush, wait for or take back a clear, suballocate, free |
| Swap chain (`swapchain.c`) | ring of requests, present callback, wait thread with its queue, acquire semaphores, latency semaphore | `Present`, `ChangeProperties`, recreation of the Vulkan swapchain, `Release` |
| Disk cache (`cache.c`) | read-only, write-only and merge archives, tables of hashes, queue of pipelines to save | start of a session, merge, cancellation, appending, end of the thread |
| Address map (`va_map.c`) | two-level table, atomic stores | not modelled |
| Device singletons (`device.c`) | table of live devices, reference count | not modelled |
| Recording, pipelines, shaders, meta operations, ray tracing | Vulkan objects | single-threaded data translation, not modelled |

How they interact. An application thread appends to the FIFO of a command queue
and takes an internal reference of the fence it names. The queue's submission
thread executes the calls in order; it blocks in a wait until the fence has a
satisfying update scheduled, so that a Vulkan wait is never submitted before its
signal. It submits to the `vkd3d_queue` it shares with other command queues, with
the mutex of that object, and leaves callbacks with its fence worker. The fence
worker waits for the timeline of the VkQueue and runs the callbacks: signalling
a fence (which wakes application threads, submission threads and other fence
workers), releasing allocators and resources. Where a fence worker must not
overtake another queue's, it first waits for a signal count of a fence. External
users drain a command queue and then keep its locks; the swap chain's present
callback runs on the submission thread. Before `ExecuteCommandLists` appends
anything, it flushes the transfer queue, which leaves with every `vkd3d_queue` a wait
for the clears; the next submission of any command queue takes it along.

The hard behaviours:

* rewinds: a wait may be satisfied and unsatisfied again before anybody looks;
* fence workers of several queues apply the updates of one fence out of order;
* two kinds of sleepers on one condition variable, in the fence
  (`fence->cond`: broadcast) and in the command queue (`queue_cond`: signal);
* waits that are deferred to the next submission, dropped when the GPU is
  already past them, replaced by submission order on a shared VkQueue, or done
  on the CPU;
* values that were read under a lock and are used after it was released
  (`last_submission_timeline_value`, `submission_timeline_count`,
  the observed timeline);
* words and rings that are shared without a lock (the payload of an event, the
  requests of a swap chain);
* clears that are listed, flushed or taken back while the memory changes hands;
* calls that fail half way, a lost device, a process that is killed;
* releases by the application at any moment.

What makes each component correct:

* Fence: a wait that could be satisfied at any moment is satisfied for ever
  (the comment at `command.c:1330`), a wait never gets through otherwise, updates take effect in the order in
  which they were scheduled and once, no thread sleeps on a true condition, and
  releasing a fence frees everybody.
* Command queue: work runs after what it was ordered after, a signal is seen
  only after the work before it, and in the order of the signals before it; the
  GPU is never given a wait that nobody signals; memory is kept while in use.
* Interop: who acquires the VkQueue gets it, finds all earlier calls submitted,
  and may signal a fence that covers the external work.
* Events: signalled once, not before the fences, whatever fails or is released
  meanwhile, and the payload is freed by its last user.
* Memory: new memory reads as zero, no clear hits memory in use, what the GPU
  touches exists, ranges of a chunk are neither lost nor given out twice.
* Swap chain: a frame is shown with its request or, after the application has run
  ahead, a later one of its slot, semaphores and images are used as
  Vulkan allows, the application is at most its latency ahead, calls return.
* Disk cache: what a completed session saved is found by the next one, and a
  pipeline is found with the SPIR-V it links to.
* Submission timeline: fence workers find what they wait on, a VkFence is never
  reset while it is in use, and a resource outlives the work that uses it.

`PROJECT.json` lists the hazards one by one, at their lines, with the
properties that would catch them and a note where there is none.

## 2. The modules

`X_Variant` definitions marked "Faulty variant" are what a plausible mistake in
the code would make of definition `X`; nothing uses them. They document which
mistake each property detects.

### FenceObject

The critical sections of `struct d3d12_fence` as functions from one record to
the next: whatever the code does between locking and unlocking `fence->mutex`.
`CpuSignal` is `d3d12_fence_signal_cpu_timeline_semaphore`, `AddPendingSignal`
is `d3d12_fence_add_pending_signal_locked`, `Signal` is `d3d12_fence_signal`,
`RegisterWait` is `d3d12_fence_register_pending_gpu_wait`; `MustBlock`,
`HasTicket`, `Resolutions` and `ConsumeTicket` are the parts of
`d3d12_fence_block_until_pending_value_reaches_locked`. Each ends with the
recomputation of `max_pending` and the satisfied events and tickets, exactly
where the code does it.

The arrays are removed from by swapping in the last element, so their order is
accidental: they are sets, and "the first match in the array" is any match. The
loops of `d3d12_fence_signal` over updates and over events do not depend on the
order of events; a set of values taken one after the other satisfies what any of
them satisfies.

### D3D12Fence

One fence and all threads that can touch it, in any order: application threads,
submission threads (`wait[w].pc` from "queued" to "satisfied" or "ordering") and
fence workers ("ordering" to "ordered", and `in_worker`, the updates that wait
for the GPU). Each iteration of a condition-variable loop is an action, "asleep"
is inside `pthread_cond_wait` and "awake" is woken but without the mutex yet, so
that everything may happen in between. `reached` is history: the fence held a
satisfying value at some moment since `Wait` was called.

An update is applied when its fence worker runs, at any moment after scheduling:
this covers every GPU and every order of workers.

### FenceContract and D3D12FenceContract

`FenceContract` is what a fence promises, without tickets, workers or sleeping
threads: requests, which are met the moment the fence holds a sufficient value
and remain met, GPU signals that take effect in the order of scheduling and once
each, clients that continue only if a request of theirs was met. `D3D12FenceContract` maps the detailed
state to it: the pending updates, numbered by `update_count`, are the promised
values, events and unsatisfied waits are the open requests.
`ImplementsContract` is the refinement.

`OrderedWasReached` is the part of the refinement that is not obvious: a wait
that was resolved to some update is still held by an update with a sufficient
value, or was satisfied, whatever signals and rewinds happened since.

### CommandQueue

Several command queues with their submission threads and fence workers, from
their first call to the end of both threads, several VkQueues, several fences (by FenceObject). It composes the fence with
the queues and the GPU. The variables are the fields of the C structures:
`submissions`, `wait_semaphores`, `wait_fences`, `last_submission`,
`fence_worker` for a command queue, `submission_timeline_count` and the
submitted work for a `vkd3d_queue`. `FlushWaiters`, `WaitIsDeferred`,
`WaitOnSameVkQueue`, `WaitOnCpu`, `Signals`, `Execute` are the operations of the
submission thread, `SignalsFence`, `EnsuresOrder`, `ReleasesSubmission` the
callbacks of the worker, `Gpu` a VkQueue that executes one submission.

History variables record what D3D12 orders before what, by the calls alone:
`known[c]` is all that the next call of queue c follows, through waits and
signals of other queues; `before` and `followed` freeze it for a piece of work
and for an update of a fence; `done` is what the GPU has finished. The
properties compare this order with what happens.

`Programs` says what the application may do: how often it calls each command
queue, which waits and signals, which fences and queues it releases, and whether
the device may be lost, after which every Vulkan call fails. One is chosen in
Init. Within it calls arrive in any order and interleaving, so that queues may be made to
wait for each other. `SubmissionFails` is
what the error paths of a submission do to the counters and references.

### QueueInterop

The physical queue as `vkd3d_acquire_vk_queue` and `vkd3d_release_vk_queue` use
it: drains through `queue_lock` and `queue_cond`, the mutex of `vkd3d_queue`,
staggered submissions that let go of it. Each call of
`pthread_cond_signal` wakes one sleeper, whichever.

### SubmissionTimeline

What fence workers and the release of resources know of a `vkd3d_queue`: the
submission timeline, the fence proxies for drivers whose timeline semaphores
are slow to wait for on the CPU (`slow`, chosen in Init), with waiters that
share a proxy, time-outs, recycling of VkFences; and the idle test of
`d3d12_device_add_queue_timeline_deferred_decref` (`resource.c:2319`), which
reads three values one after the other under different locks. `own` is history:
whether a callback waits for a submission of its own queue.

### FenceEvents

Events that wait for several fences, with the fences that fire them. A native
fence keeps its mutex while it walks its events, so each use of the payload in
that walk is an action of the thread that signals; a shared fence has a worker
with a list and a condition variable, started by the first event and joined by
the last reference. `reg[c][f]` is how far fence f is with call c: listed, due,
firing, claiming, dropping its reference, freeing. `count` and `bit` are the two
parts of the payload's word, and each atomic operation is a step. `seen` is history:
the fences that had their value since the call.

### Swapchain

The application's thread, the callback on the submission thread, the wait
thread and the GPU. `step` is where the callback is in
`dxgi_vk_swap_chain_present_callback` and `present_iteration`, across the
retries and the recreation of the Vulkan swapchain; `next` says where it goes on after
destroying one. A frame is a number, a swapchain too, so that "the wrong frame"
and "a swapchain that is gone" can be said. `ring` and `request` hold the number of the
frame whose request it is. A copy that meets the write of a later request may in the code be
torn; the model takes either of the two. `waitCounts` is how far the low latency mode has let the
application run ahead. Semaphores are what Vulkan makes of
them: signalled, or with a wait pending.

### MemoryTransfers and MemoryChunk

`MemoryTransfers` has suballocations of a chunk, the chunk, dedicated allocations and
mapped textures with all threads that use them: who allocates and lists a clear, who
flushes (in steps: the submission, one wait per `vkd3d_queue`, after the mutex was
given back), who frees and searches the list or waits, and the tracking
thread. `content` is what the GPU has done to each piece of memory, by which the
promise "reads as zero" is checked; `withdrawn` is history, too: a clear was taken from the list since
the last flush. A texture may be released at any time, as `d3d12_resource_Release` does not look at the
list, and `PollsIdle` is what it asks of the memory. `MemoryChunk` is the allocator of ranges
inside a chunk as operators on the sorted array; `RangesAreRight` compares them with sets of
free cells, for every such set of a small chunk, and MemoryTransfers uses
them for its chunk.

### DiskCache

The disk thread step by step: what it renames, reads, appends and deletes, with
stdio buffers between the thread and the files. A file is a sequence of entries,
a torn entry ends what can be read. The merge parses the read-only archive (`Parse`) and appends
one entry at a time (`MergeEntry`), before each of which it may find the device being destroyed
(`CancelMerge`, `PutBack`); its buffer goes to the file whenever stdio likes (`WriteBuffer`). Processes are killed at any step and devices
destroyed at any step; other builds invalidate the header. Three variables are history:
`promised`, the pipelines that sessions have saved and closed properly, as far as no merge that
was cut off has taken them away; `lost`, the SPIR-V of the archives such a merge took away; `disturbed`,
that two processes ran at the same time.

### MC modules and proofs

`MCD3D12Fence`, `MCCommandQueue`, `MCQueueInterop`, `MCSubmissionTimeline`,
`MCFenceEvents`, `MCSwapchain`, `MCMemoryTransfers` and `MCDiskCache` give the
instances. The theorems of section 5 are in `D3D12FenceProofs`, `QueueInteropProofs`,
`SubmissionTimelineProofs`, `FenceEventsProofs`, `SwapchainProofs`,
`MemoryTransfersProofs`, `DiskCacheProofs` and `CommandQueueProofs`, the last in the order values on
their way, allocators, references, the order of signals, work before signals, work before work.
Each begins with the lemmas about maxima, sequences and finite sets that it needs.

## 3. The runs

| Run | Checks | Distinct states |
|---|---|---|
| `fence_live` | one wait, an event, a blocked thread, two GPU signals with rewinds, release: tickets, updates, wakeups, the code's assertion, refinement of the contract, liveness | 49,260 |
| `queues` | three command queues on two VkQueues, five programs (below): order on the GPU and of what the CPU sees, no wait before its signal, allocators, references; fence workers and VkQueues drain, a release returns | 289,802 |
| `queue_alias` | finding 1 | violation |
| `interop` | one external user and staggered submissions: acquisition returns, drains are complete, submissions are taken | 24,531 |
| `interop_two_drains` | finding 2 | violation |
| `timeline_safe` | two command queues and the transfer queue on one VkQueue, a resource that is released, one time-out: proxies, VkFences, life of the resource | 0.9 million |
| `events_live` | a call over a native and a shared fence (ANY or ALL, may fail), a call on the shared fence, signals, release: the payload and the event | 83,485 |
| `events_null` | finding 3 | violation |
| `swap_live` | four frames, two requests, a latency of two, in and out of low latency mode, a resize, one trouble, release: frames in step, Vulkan objects ready, calls return | 302,286 |
| `memory_transfers` | two suballocations, a dedicated allocation, a texture that is released at any time, one failed flush: clears, waits, ranges | 86,468 |
| `disk_cache` | five sessions of one process with two pipelines, one kill anywhere, two builds: nothing saved is lost, nothing torn is used, and what a cut-off merge parts from its SPIR-V is bounded | 475,063 |
| `disk_cut_off` | finding 4 | violation |

The bounds, and why they are enough for what the runs ask:

* Fence values 0..2, where 2 stands for `UINT64_MAX`: "before", "after" and
  "released". A rewind needs two values; a third value that is both above and
  below others is `UINT64_MAX`, which the application may also signal itself.
  The critical sections of the fence treat waits and events
  independently, so that one of each meets all interleavings of a pair; the
  proofs cover every number of them. `fence_live` has one VkQueue, so that any
  satisfying update may be chosen, which includes the choices that several
  VkQueues would make.
* `queues` has five programs, in `MCCommandQueue`, which share the VkQueues: A and B are on one,
  C is on the other.
  `Chain` passes order on to another VkQueue and back, with two signals of one fence: C waits
  for F and A waits for G, so that A and C wait for each other if both wait first.
  `Shared` is a chain through the two queues of one VkQueue, with a CPU wait as an
  alternative. `Lost` is the same with a release of a queue and the loss of the device.
  In `Cycle` A signals G and waits for F, and C signals F and waits for G. If both wait before they
  signal, no queue gets on until the CPU signals F. If both signals were scheduled before, A's worker and
  C's order themselves after each other, and the drain relies on each worker keeping the order of
  its items: a worker that puts an ordering item in front of its FIFO violates `QueuesDrain` there. In `VkQueueCycle`
  no two command queues wait for each other, but the VkQueues might: B, when it is released,
  leaves its wait for F to the VkQueue, where A's work and the signal of A that F depends on may
  come after it. That a wait reaches a VkQueue only when its signal is on its way keeps this from happening.
  A and C are source, middle and end of a chain in one of them, B is middle and end.
* `interop`: four acquisitions with three calls between, so that a drain meets a
  count that an earlier one left behind. Two users are finding 2; that
  acquisition is safe for any number of them is proved.
* `timeline_safe`: three submissions from two command queues, at most one of
  them the signal of a shared fence and one external: two workers that want the same proxy,
  a proxy that becomes obsolete while another one is waited on, a recycled
  VkFence, a value without a proxy.
* `events_live`: two fences of different kinds for one payload, which is enough
  for every order of two atomic operations on it, and a second event for the
  worker's list.
* `swap_live`: every slot of the ring is used twice. Four frames are what it takes in low latency mode
  to replace a request that was not picked up. The code has
  16 entries in the ring; the bound keeps `Latency <= Ring`, as the code does. `MaxEvents` bounds
  presents, resizes and troubles together.
* `memory_transfers`: one command buffer, so that the second flush waits for the
  first; two allocations besides the first use make the queue flush by itself.
  `RangesAreRight` covers a chunk of 8 cells with every set of free cells, every size and
  alignment; more than 4 free ranges at once do not occur there.
* `disk_cache`: five sessions are an archive, its merge, a second build, and two
  more that find the result; or an archive, a second one that links to it, a merge that is cut off,
  and two sessions that live with it. The kill comes at any step.

Further instances beside these, each with its .cfg, are evidence for what section
6 says or larger than a routine check should be:

| Instance | Shows |
|---|---|
| `FenceWaits.cfg` (MCD3D12Fence) | two queue waits on two VkQueues, three GPU signals: 1.1 million states, passes |
| `QueueOrder.cfg` (MCCommandQueue) | `Chain` and `Shared` with one more call and more work, safety only: 1.1 million states, passes |
| `DiskCacheTwo.cfg` (MCDiskCache) | two processes at the same time, one kill: 1.3 million states, passes |
| `QueueTwoSignallers.cfg` (MCCommandQueue) | violates `UpdatesTakenWhenReached`: observation a |
| `InteropStaggered.cfg` (MCQueueInterop) | violates `SignalCoversExternalWork`: observation b |
| `TimelineShared.cfg` (MCSubmissionTimeline) | violates `SubmissionFound`: observation c |
| `SwapchainRing.cfg` (MCSwapchain) | violates `RequestIsItsOwn`: observation d |
| `MemoryInherited.cfg` (MCMemoryTransfers) | violates `NothingInUseIsIdle`: observation g |
| `MemoryListed.cfg` (MCMemoryTransfers) | violates `ListedTexturesLive`: observation h |

Deadlock is not checked, as every instance stops when the application has made
its calls; that nobody is stuck then is what the liveness properties say.

The properties are commented in the modules with the code they are about.

## 4. Fairness

Only what runs by itself is fair. Weak fairness of a submission thread, of a
fence worker and of a woken thread says that the operating system schedules a
thread that can run; the condition variables and mutexes are part of the models,
so a thread that sleeps is not enabled. Weak fairness of `FenceSignal` and `Gpu`
says that the GPU finishes what was submitted and whose waits are over. In
`QueueInterop` a user that holds the VkQueue releases it, and signals afterwards.
A thread that has called into the library goes on there: the thread that frees a
command queue (`FreesQueue`), memory (`Free`), a fence or a swap chain, and the
one that is inside `Present`.
The application itself is never fair: it need not call anything, and
`queues` therefore shows draining with signals that may never be called.
Liveness is claimed only as long as the device works: after a loss, items that
order fence workers wait for a `signal_count` that nobody advances any more
(section 6).
Starvation on a mutex is not ruled out by weak fairness: the properties checked
under fairness do not depend on it (the locks are free again and again and
the competitors are bounded). DiskCache claims no liveness: its thread may be
killed at any step.

## 5. The proofs

Module `D3D12FenceProofs`, for every set of waits, VkQueues, handles and blocked
threads, every mapping of waits to VkQueues, every `UINT64_MAX` and every bound
on the number of updates. The assumptions, named in `D3D12Fence`:
`UINT64_MAX` and `MaxUpdates` are natural numbers, `QueueOf` maps waits to
VkQueues, and a handle is not a thread.

`IInv` is the inductive invariant:

* `TypeOK`;
* `MaxPendingIsExact`: the cached maximum is the maximum;
* `UpdatesAreContiguous`: exactly the updates signal_count + 1 .. update_count
  are pending, each once. Not inductive alone: that a fence worker never finds a
  gap needs the next one;
* `UpdatesAreInWorkers`: every pending update is still to be applied by a fence
  worker, and nobody refers to an update that was not scheduled;
* `TicketsAreOwned`: tickets are numbered apart, carry the value of their wait,
  and are held for values above the current one. Without it consuming a ticket
  might take away somebody else's;
* `TicketIffUnsatisfied`: a waiting call has its ticket exactly as long as the
  fence did not hold a satisfying value since the call;
* `SatisfiedWasReached`: a call that was dropped had its value;
* `NoLostWakeup`: who sleeps has a reason to;
* `EventsAreUnsatisfied`: no registered event has been reached, and blocked
  threads are registered.

`Invariance` proves `Spec => []IInv`, with one lemma per action and, for the three
actions that take values (CPU signal, Release, GPU signal), the common lemma
`TakingValues`. Below are lemmas about the operators of FenceObject (`CpuSignalFields`,
`AddPendingSignalFields`, `SignalFields`: what each field becomes), and two
about the maximum of a bounded set, which rest on the library's
facts about finite sets.

The theorems for readers:

| Theorem | States |
|---|---|
| `PendingListCorrect`, `TicketsCorrect`, `SatisfiedCorrect`, `WakeupsCorrect`, `EventsCorrect` | the conjuncts of `IInv` that the runs check |
| `OrderingIsServed` | a fence worker that is held back has another one to wait for |
| `AssertionHolds` | `assert(update_count != UINT64_MAX)` (`command.c:1286`) |
| `OrderedCorrect` | a fence worker that may pass does so after the awaited value was held |
| `FenceKeepsContract` | every behaviour of the fence is one of `FenceContract` |
| `WaitsFollowSignals` | no submission waits for a timeline value that is not on its way |
| `AllocatorsStayHeld` | until the device is lost, the allocators of unfinished work are held by a fence worker |
| `RefcountsMatch` | a fence counts exactly the calls, deferred waits and worker items that refer to it, and the application |
| `FencesInOrder` | `SignalOrderCorrect`, and every value, count and thread state in its range |
| `SignalOrderCorrect` | a signal is not seen before one that it follows, through any number of queues |
| `SignalledWorkFinished` | work that a signal follows is finished when the signal is seen |
| `WorkIsOrdered` | work runs on the GPU after all work that it follows, through any number of queues |
| `AcquireSafety` | whoever acquires the VkQueue of a command queue holds it alone and finds everything submitted that was queued before |
| `TimelineFresh` | a submission that gets a proxy has none and is not observed: the "Should not happen" of `command.c:441` |
| `SleepersCovered` | a fence worker that sleeps has somebody who will wake it |
| `ProxiesRight` | a queue that waits for its own submission finds its proxy; a VkFence has one user and at most one waiter |
| `ResourceOutlives` | a resource is freed after the work that was called before its release, unless a wait timed out |
| `PayloadCounted`, `PayloadFreed` | the count of an event's payload is the number of fences that refer to it; it is freed once, by the last |
| `EventRight` | an event is signalled at most once, after its fences had their values, never after a failure |
| `VulkanObjectsReady` | images, semaphores and swapchains are used as Vulkan allows, across recreation and at the end |
| `ReplacedOnlyWhenIdle` | the application's buffers are replaced when no frame uses them |
| `FramesInStep`, `RequestsAreTheirOwn` | in every mode, the callback works with the request of its frame or a later one of the same slot, and the latency bound, the wait thread's swapchain and the wakeups are right; with its own request, unless the low latency mode is used |
| `ListReliable` | work and memory see clears in time: what must read as zero does, a listed clear is one that did not run, and memory that is polled idle is unused (but for observation g) |
| `GpuAccessSafe` | memory, command buffers and textures outlive what was submitted with them |
| `RangesKept`, `AllocatorOk` | suballocations lie in the chunk, aligned and apart, and the free ranges are exactly the rest; for a chunk of any size, aligned free cells are found if there are any |
| `PromisesAreAlwaysKept` | what a session compiled and closed properly is found by every later one that is alone, wherever a merge in between was stopped |
| `LibraryIsAlwaysWhole` | a pipeline that is found has its SPIR-V beside it, but for SPIR-V that merges which were cut off took away, until two processes run at once |

`FenceKeepsContract`, in `D3D12FenceProofs`, has a lemma per action that
shows the action to be a step of the contract or a stutter. It uses `IInv`,
`OrderedWasReached` (for the fence workers that are let pass) and
`NullThreadsStartIdle` (a thread that does not block has no event and no latch,
so that its next call is a new request).

Module `QueueInteropProofs`, for every set of users, any number of calls and
acquisitions, with staggered submissions or without. The code compares two
counters, `drain_count` and `queue_drain_count`; that the comparison means "my
drain is over" needs an account of the drains that are on their way. The
inductive invariant `IInv` is

* `Shape`: types, and the position of every submission in the FIFO;
* `WorkerHoldsOp`: what the submission thread holds is what it took out last;
* `LocksAreHeld`: `queue_lock` and the mutex belong to whoever is in the section
  they protect;
* `CallsAreCounted`: appended calls are finished, in the thread's hands, or queued;
* `DrainsAreCounted`: the drains in the FIFO and in the thread's hands are those
  between the two counters;
* `UsersAreCounted`: a drain of a user that has not been counted yet is still
  on its way, at or behind the user's position;
* `DrainIsComplete`.

Module `CommandQueueProofs`, for every set of command queues, VkQueues and fences,
every mapping of queues to VkQueues and every set of programs, assume what
`ProgramsAssumption` names: programs have the type `ProgramType`, `UINT64_MAX` is a
natural number, queues and fences have different names, by which the history tells
work from updates, and there are finitely many queues, because references are counted
over all of them. These invariants are proved, each with the help of those before it.

* `IInv`: the fields of the structures and, for
  `NoWaitBeforeSignal`, where a value can be on its way from the signal to a
  submission: pending updates of fences (`UpdatesOnTheirWay`), the last submission
  and the deferred waits of a queue (`QueuesOnTheirWay`), submissions
  (`SubmittedOnTheirWay`). Each value is at most the count of its timeline. It
  holds when the device is lost, too.
* `HInv`, until the device is lost: `Timeline` (what is in
  a VkQueue signals the values directly above the one that was reached),
  `QueuesReferToUpdates` (deferred waits and worker items name updates that were
  scheduled), `FlushedHasNoWaits`, `HistoryShape`, and `WorkIsHeld`: unfinished work has a release item
  that waits for the value of the submission the work is in.
* `RInv`, also when the device is lost: `RefcountMatchesHolders`, and
  `QueueOk`: STOP is the last call of a queue, a CPU wait belongs to the call at the head,
  waits are gone when the thread is flushed, and a queue that was freed has nothing
  left. Without `QueueOk` a reference could be dropped with a FIFO. A step of a queue is
  `Balanced` if it changes the count of each fence by as much as the number of references the
  queue holds (`Size`); there is a lemma for each way a list of
  references changes, and lemmas that count positions of a
  sequence when it is extended, shortened or concatenated.
* `OInv`: whatever a queue knows has been seen or is
  announced by its worker or by a deferred wait (`KnownIsAnnounced`), whatever a signal follows is
  announced in front of the signal (`SignalsAreAnnounced`), the updates of a fence
  follow more and more (`SignallersKnow`), and what is seen is complete
  (`SignalledIsSeen`).
* `DInv`: work that a queue knows is finished, is submitted at
  or below the queue's last submission, or is followed by a signal the queue knows
  (`KnownWork`); the same for the signals in the workers (`SignalledWork`).
  A signal can only be applied after the ones it follows (`OInv`), so that the last
  case is settled before.
* `EInv`, until the device is lost: there is a `G` such that `G[v][n]`
  is finished whenever VkQueue `v` has reached `n`, and what a queue knows is
  finished, or in `G` at its last submission, or in `G` at a value it waits for (`KnownIsBehind`; the same for
  pending updates and submissions). A submission extends `G` above the
  count of its VkQueue by its work and by all its queue knows; no other step changes
  it. `WInv` adds that an update belongs to a queue that has submitted at least its value, and
  that a CPU wait is part of the call at the head of the FIFO. `WorkIsOrdered` needs no
  `device_lost \/`, because nothing is submitted or finished any more.

* `VInv`, until the device is lost: the values of fences and of their
  updates are at most `UINT64_MAX`, and what is submitted or finished is work of a queue. With
  `HInv` and `RInv` it gives the shape of all structures, for `FencesInOrder`.

`OInv` and `DInv` rest on `OneSignaller`: one command queue signals a fence. The
theorems have it as a hypothesis, and it is needed: `QueueTwoSignallers.cfg` shows what
happens without (observation a). `EInv` rests on `NoAliasedWait`: no queue waits for a
signal of another queue on its own VkQueue. Without it `WaitOrdersWork` does not hold
(finding 1); it is stronger than necessary, as `queues` checks programs with such
a wait that pass nothing on to a third VkQueue. `device_lost \/` in a theorem means that nothing is claimed
from the loss of the device on: fence workers then call their callbacks
without having waited (`command.c:23532`).

Module `SubmissionTimelineProofs`, for every finite set of command queues, any
number of other users and of calls, with VkFences or without (`slow`). That the
set is finite is an assumption (`QueuesAssumption`): the reference count of a
resource is compared with a number of queues. `IInv` consists of

* `Shape`: the fields of the structures;
* `TimelineInv`: one submission at a time is between its value and the VkQueue;
  completed is behind submitted, observed behind completed;
* `QueueInv`: the mutex belongs to the queue that submits, and the atomic counter
  that the release reads without a lock is the length of the FIFO;
* `ProxyInv`: timeline values and VkFences name one proxy each; a worker that waits on a
  VkFence has marked its proxy, and a marked proxy has such a worker. Without the two
  directions a collection of old proxies could recycle a VkFence somebody waits on;
* `OwnInv`: what a queue submitted itself has a proxy until it is observed, from the
  submission through its worker's FIFO to the wait;
* `SleepersAreCovered`, which is inductive with the parts above;
* `HoldInv`: the reference count is the number of queues with an item for the resource,
  a queue has one item at most, and those that were not read yet have none;
* `UsesInv` and `UsingInv`: a use of the resource that is still in a FIFO is counted or is
  followed by a retain item of the same queue; a use on the GPU is covered by a queue
  (`Covers`): it was not read yet, is being read, has a retain item, or a worker
  releases there at that value or later. The reader takes the counter and
  `last_submission` of one queue at a time, and this is what stays true in between.

The VkQueue is shared, so that a use on the GPU may be covered by a queue other than
the one that submitted it; only the value counts.

Module `FenceEventsProofs`, for every set of calls, native and shared fences, every choice
of fences per call and any number of signals. Assumed are what the names in
`FenceEvents` say: a fence is native or shared, there are finitely many and at least one, each
call waits for a set of them that is not empty. `IInv` is `TypeOK` and, for each call,

* `SeenInv`: nothing fires an event but a fence that had its value while the call
  was in progress. Rewinds are why it is not enough to look at the value;
* `IdleInv`, `ListInv`, `CallerInv`, `ModeInv`: what the caller and the steps of
  `vkd3d_waiting_event_signal` know at each point, such as that a fence that failed still has its
  reference when the call gives up;
* `CountInv`: the payload is counted, and freed once;
* `ClaimInv`: one fence claims the event, and in ALL mode it holds the last
  reference;
* `BitInv`: the signal bit of the counter is there until the event is claimed or given up.

Module `SwapchainProofs`, for every number of buffers, every latency that fits them
(`LatencyFits`: `ensure_unsuspended` and the constructor never give more), and any bounds on presents,
resizes, results of Vulkan that recreate the swapchain, and retries. `IInv` is `TypeOK` and

* `StepInv`, `ImageInv`: what the callback knows at each step; an acquired image has
  its semaphore signalled;
* `BlitInv`, `FrameInv`: submissions finish in the order of their numbers, and the
  blits of a frame lie before the end of that frame. This is what makes waiting for
  `vk_complete_semaphore` enough to replace or free the buffers; waits for acquire
  semaphores at the end are the exception;
* `QueueInv`: the wait queue holds exactly the frames between the last one released
  and the last one pushed, with presents of the current swapchain only, and the sentinel behind them.
  That the drain before a recreation ends with an empty queue follows;
* `LatencyInv`: each `Present` takes one count of the semaphore, now or later, and each frame gives one back;
* `RingInv`: a slot holds the request of a frame that belongs there, not older than any that is to come,
  and the last `Ring` requests are in the ring;
* `RequestInv`: what the callback has picked up is of its slot, not older than its frame;
* `BlitsAreOfLive`, `OnlyCurrentSignalled`, `NoPendingWait`, `NoMissedWakeup`.

`FramesInStep` follows from `IInv` in every mode. `NormalInv` adds what holds without the low latency mode:
at most one wait is outstanding, so that the application cannot get a ring's length ahead, and the request
of a frame is still in its slot when the callback comes. With the low latency mode
that fails (`SwapchainRing.cfg`, observation d), hence the hypothesis of `RequestsAreTheirOwn`.

Module `MemoryTransfersProofs`, for any sets of suballocations, dedicated allocations, textures and queues, a
chunk and requirements of any size, any number of command buffers, and any bounds on
calls and failures. The assumptions of `MemoryTransfers`: sizes, alignments and the number of
command buffers are positive, names of objects and of memory are apart. `IInv` consists of

* `SeqInv`: `TypeOK` and the shape of the lists;
* `OwnerInv`: what is listed belongs to somebody, under the value of the next flush;
* `ListInv`: a transfer is listed once and counted, so that removing it once is enough;
* `GpuInv`: submissions that are not finished have consecutive values, and command
  buffers in turn;
* `ClearInv`: the memory of a clear that was submitted is held until the semaphore has
  reached its value (`Outlives`);
* `ContentInv`: what is listed was not touched since it was allocated, and memory in use was
  cleared, is listed, or is being cleared;
* `QueueInv`: a job on a queue comes after the clears of its memory, because it or a job before it
  waits for them; every queue but those the flush has not told yet (`todo`) waits for every flush.
  That work needs no value of its own, as the code has none, rests on this;
* `RangeInv`: suballocations that are held are aligned, in the chunk and apart, and the free ranges
  describe the rest of the chunk. `Describes(r, free)` says of an array of ranges that it is sorted,
  that ranges do not touch, and which cells it has. There is one such array for each set of cells, namely
  `FreeRanges` (`DescriptionIsUnique`, `EverySetIsDescribed`), and allocation and freeing lead from one
  to the next (`AllocationDescribed`, `FreedDescribed`);
* `RefInv`: the references of the tracking thread are the items in its two lists, and a write that
  is not finished has an item of at least its value;
* `PollInv`: an allocation has the value of the next flush only if something is listed or a clear was
  taken from the list since the last one, and memory in use only in the latter case: whoever calls
  `ExecuteCommandLists` flushes what is listed.

Module `DiskCacheProofs`, for every finite set of processes, every set of pipelines and what they
link to, and any number of sessions, kills and builds. Assumed are `CacheAssumption`, in which pipelines
are told apart from SPIR-V, and `NamesAssumption`: headers, torn entries and "no file" are none of these. `IInv` consists of

* `TypeInv`: a file has one name, a header is the first entry of its file, nothing in a buffer is
  torn, a process has written no more than the file has, and what each stage of the disk thread has open;
* `AloneInv`: a process that is alone is the only one; only such processes leave promises, and
  as long as nothing was disturbed there are no others;
* `StageInv`: for each stage of an alone process, which archives hold what was promised, and that the
  SPIR-V in a file comes before what links to it, or is `lost` (`Closed`). Nobody else touches the files then. If nobody runs, it is
  `StartOk`: two of the three names hold what was promised, and one of the three is free. This is
  what any kill must leave behind, so that each stage implies it, up to the one kill that costs
  something (`Crash` says which).

Two parts carry the argument. While the merge appends, the archive is spread over the file, the buffer and the
mapped rest of the other archive: `AppendOk` says that together they hold what was promised, and
that the known entries are those of `Stream`, what was written with what stdio still has. `OnFile` says
that the file is a prefix of it, up to its end or a torn entry. A kill then leaves a prefix of
a closed sequence, which is closed (`CodeOf` is never ahead of its pipeline), and the write-only
archive is still there. In the loop (`LoopOk`) everything in the library is in the read-only archive or in the stream; this is why a
pipeline that is not written again is in an archive already. A session that was torn down before its
library was loaded (not `setup`) may find the write-only archive still there and save nothing: it
makes no promise, but keeps those of others.

`Closed` is relative to `lost`, which only a kill between the renames of a merge extends. What it is
extended by is what the deleted archive had; hence a pipeline that misses SPIR-V misses that of such an archive.

Of the behaviours of several processes at once only `TypeInv` is claimed, as observation l says.

Not proved: liveness and ENABLED are out of the prover's reach. RECURSIVE operators are not used, and
the library's theorems on induction cannot be instantiated here; where a proof needs induction (over a
list of writes in `WritesOfList`, over the size of a chunk in `EverySetIsDescribed`) it takes a least counterexample instead,
with `LeastOfBounded`. That the
structures of CommandQueue keep their shape (`TypeOK`, part of `FencesKeepOrder`) is proved until
the device is lost; the runs check it afterwards, too.

## 6. Disagreements shown by the runs

1. `queue_alias`. `command.c:1260` says that for a satisfying signal on the same
   VkQueue "we can just rely on submission order". No submission follows, and
   the queue's `last_submission_timeline_value` stays what it was: a signal the
   queue makes next is scheduled at a value that does not cover the work waited
   for, and a third queue on another VkQueue overtakes it. An empty submission, or taking over
   the timeline value, would be needed. The other properties of the run's
   instance hold; `queues` checks them with programs in which the last
   queue is not on a VkQueue of its own.
2. `interop_two_drains`. Two threads that acquire the VkQueue of one command
   queue at the same time: `queue_cond` is signalled, not broadcast, for the
   submission thread and for both drains, and one of the threads may sleep for
   ever. The same happens with a condition variable that wakes in arrival order.
3. `events_null`. A NULL event in ALL mode gets no temporary event
   (`device.c:8299`): the call registers an invalid handle with each fence in
   turn and sleeps in the first one that was not reached, on a latch that only
   the fence that takes the payload to zero sets. The later fences are not
   registered, so none does.
4. `disk_cut_off`. `cache.c:2989-2992` says that after a merge which failed "we'll end up in
   a consistent state either way", and 3148 that cache data may be lost. A process that is killed after the
   read-only archive was renamed to the merge archive leaves it to be deleted (`cache.c:3153`)
   by the next session, which promotes the write-only archive. The pipelines there may link to SPIR-V
   that only the deleted archive had. Such an entry is not used, but it is not healed either: the
   pipeline is found in the archive, compiled again, and never saved again. That nothing
   else is parted from its SPIR-V is what `LibraryIsWhole` says.

Observations from further instances, and from reading the code beside the models:

a. `d3d12_fence_signal` applies all updates before its own. The comment at
   `command.c:1422` says that "the physical value itself is monotonic"; that holds
   for one VkQueue. If two VkQueues signal the fence without ordering, an update is
   taken before its own timeline got there.
b. A staggered submission overwrites `last_submission_timeline_value` with the value it had
   taken before it let go of the mutex (`command.c:24750`), after an external user of the
   VkQueue has advanced it: a signal after the external work does not cover it.
c. `d3d12_command_queue_signal_shared` reads `submission_timeline_count` at
   `command.c:24006` after the VkQueue was released. The value may be that of a
   submission without a proxy, although `vkd3d_private.h:3693` says that the wait must not
   be called with a value that was not registered. `timeline_safe` checks that own
   values are always registered (`ProxiesAreRight`), so this line is the only source.
d. The comment at `swapchain.c:1138` says that the present thread "will pick up the request from the ring".
   In low latency mode `Present` does not wait for the latency semaphore
   (`swapchain.c:1083-1110`), and an application that presents a ring's length ahead of the
   submission thread replaces a request that was not picked up: the frame is shown with the parameters of a later
   one, or, as nothing keeps the copy and the write apart, with parts of both.
e. After the loss of a device, items that order fence workers wait for a `signal_count`
   that dropped signals no longer advance: a fence worker, and with it the release of
   its command queue, may wait for ever.
f. A failed `vkQueueSubmit2` of command lists neither gives back the counters of their
   allocators nor frees the array that holds them (`command.c:24779`), although
   `command.c:25433-25437` says that they are freed early on error.
g. `memory.c:595-598` takes a clear that is listed under the allocation's own value as a sign
   that the memory is unused. A suballocation that need not be zeroed inherits the
   chunk's value through the slice (`vkd3d_private.h:880-890`). If the clear that left it there is taken
   back, `ExecuteCommandLists` finds an empty list and flushes nothing, and the memory is in use with a value
   that is still to be signalled (`MemoryInherited.cfg`). `resource.c:2351-2354` relies on the test.
   `PolledIdleMeansUnused` says that this is the only case.
h. `vkd3d_memory_transfer_queue_write_subresource` keeps a plain pointer until the
   flush (`memory.c:560-575`), and the texture's release does not look for it: a write may be listed for a
   texture that is gone (`MemoryListed.cfg`). From the flush on, the tracking thread has a reference.
i. A flush that fails after its textures were tracked leaves the tracking thread waiting for a value that
   only a later successful flush signals; the join at teardown then hangs. The device's teardown
   cleans up the allocator before that thread is joined (`device.c:4874-4875`).
j. A native handle that cannot be signalled during registration counts the payload down twice, and
   the payload is not freed when a shared fence is awaited with a NULL event or a fence is destroyed with
   its event pending. With a NULL event in ANY mode, a failed registration destroys the
   temporary event while an earlier fence may be about to signal it.
k. `swapchain.c` ends by waiting for its last complete semaphore; waits that give back
   an acquire semaphore may still be pending then.
l. `cache.c:3010-3013` says that the write-only archive is owned by its thread. A second process that
   promotes the write archive while the first one merges can part a pipeline from its SPIR-V, as the
   kill of finding 4 does. The comment at 2992 expects one instance; `LibraryIsWhole` and `promised` leave
   the time after two processes ran at once out (`disturbed`).

## 7. Abstractions, and what is left out

* The GPU runs the submissions of a VkQueue in order and finishes each before
  the next: the timeline semaphore of the VkQueue promises no less, as its
  signals are ordered.
* CommandQueue treats sleeping on `fence->cond` as a guard. D3D12Fence models
  the condition variable, and `WakeupsCorrect` justifies the guard. A call stays at the head
  of `submissions` until it is done, where the code copies it out first: nobody
  looks at the head in between. Whether a wait is done on the CPU depends on time
  stamps of other queues (`d3d12_command_queue_needs_cpu_waits`); it is a free
  choice here wherever another queue shares the VkQueue. CPU signals only raise
  the value there; rewinds are D3D12Fence's subject. A Vulkan call fails only after the device was
  lost, and then every call does.
* The arrays of waits have no capacity and allocation does not fail, but where a
  module says so: a registration in FenceEvents, a flush in MemoryTransfers.
* SubmissionTimeline: the queues are scanned in any order; the observed value is
  read together with the release; the counter of calls in flight goes down with
  the end of the submission, which is earlier than in the code, so that a queue
  looks idle more often. Which VkFence of the pool is taken makes no
  difference. The branches commented "should not happen" are not modelled:
  `TimelineIsFresh` shows that they are not reached. The resource has the
  flag `VKD3D_RESOURCE_RETAINED_GPU_REFERENCE`; the shortcuts for resources that
  were only cleared are left out. At most one
  wait times out.
* QueueInterop: the command queue's other calls are drains, executes and signals;
  waits would only delay them.
* FenceEvents: a native fence takes values 0 and 1 and a call waits for 1; the list of
  pending updates is D3D12Fence's subject.
* Swapchain: failing wait submissions, an invalid latency handle, the application's own latency event,
  the early return for occluded windows, present timing and latency markers are not modelled.
* MemoryTransfers: one chunk, not followed by another when it is full; sizes
  count cells; debug fills, the build of NULL acceleration structures and the
  teardown of the queue are left out. Removing a transfer swaps the last one into
  its place, and the model does so too.
* DiskCache: the POSIX branch. `VKD3D_SHADER_CACHE_SYNC`, entries of the driver's own cache,
  failing writes, and leftover bytes behind entries that are appended are not modelled.
* Overflow of the counters: 64 bits that count submissions, not modelled.

Not modelled, though there is behaviour over time to check:

* The address map (`va_map.c`). An entry is removed by two stores, address first
  (`va_map.c:199`), and a lookup of the same block may come in between; the
  application must not look up an address it is releasing.
* The device singletons (`device.c:4774`): a table of live devices under one mutex, with
  a reference that may be revived.
* Sparse binding, the serializing semaphore of a VkQueue, the waits of a command
  queue for a shared fence (a CPU wait), moving a command queue to an out-of-band
  VkQueue, the transition pool, and the diagnostics that are off by default
  (breadcrumbs, debug ring, timeline trace, descriptor checks).

Not modelled, because there is no behaviour over time to check: command
recording, pipelines, shaders, meta operations, ray tracing and work graphs,
vendor extensions that only forward, capability queries, loaders, the ppc64le
build and its generated thunks and headers, demos and tests. They are the greater
part of the sources by lines: translation of structures and calls, whose errors are
wrong data, not a wrong order. `src/khronos` and `src/subprojects` are
empty in this tree.

## 8. Plan

What would come next, in this order:

1. VaMap (`va_map.c`) with the stores as steps, and DeviceSingleton
   (`device.c:4774`): small modules for the two hazards that have no property.
2. CommandQueue: sparse binding with its two submissions, waits for shared
   fences, the counters of the allocators on failure.
3. The serialization of a pipeline library (`cache.c:3453`), as operators on entries.
4. Abstract specifications: an in-order queue for CommandQueue (the history
   variables are its seed), an atomic latch for FenceEvents.
