------------------------------ MODULE Swapchain ------------------------------
(***************************************************************************)
(* The swap chain (swapchain.c): the application presents and leaves a      *)
(* request in a ring; a callback on the submission thread of the command    *)
(* queue picks it up, recreates the Vulkan swapchain when it has to, blits   *)
(* and presents; a wait thread waits for each frame and releases the        *)
(* latency semaphore that holds the application back.                       *)
(*                                                                         *)
(* Swapchains are numbered as they are created. A frame n is the n-th call   *)
(* of Present.                                                             *)
(***************************************************************************)
EXTENDS Integers, Sequences, FiniteSets

CONSTANTS
  Ring,         \* DXGI_MAX_SWAP_CHAIN_BUFFERS: requests, acquire semaphores
  Latency,      \* frame_latency_internal
  LowModes,     \* what a call of Present may find as the low latency mode
  MaxPresents,  \* bound on the calls of Present
  MaxResizes,   \* bound on the calls of ChangeProperties
  MaxTroubles,  \* bound on the requests and results of Vulkan that recreate the swapchain
  MaxEvents,    \* bound on presents, resizes and troubles together
  MaxRetries    \* retries of an iteration (3 in the code)

ASSUME LatencyFits == Ring \in Nat /\ Latency \in 1 .. Ring
ASSUME LowModesType == LowModes \subseteq BOOLEAN
ASSUME BoundsType == {MaxPresents, MaxResizes, MaxTroubles, MaxEvents, MaxRetries} \subseteq Nat

VARIABLES
  app,          \* the application's thread
  userCount,    \* user.present_count and user.blit_count
  resizes,
  waitCounts,   \* frame_latency_event_internal_wait_counts
  latencySem,   \* frame_latency_event_internal
  ring,         \* ring[i]: the frame whose request is in request_ring[i]
  step, next,   \* the callback, and where it goes after destroying a swapchain
  request,      \* chain->request: the frame it belongs to
  presentCount, \* present.present_count
  swapchain,    \* present.vk_swapchain, 0 for VK_NULL_HANDLE
  created,      \* swapchains created so far
  force,        \* force_swapchain_recreation
  lost,         \* is_surface_lost
  retry,        \* retry_counter
  troubles,
  image,        \* current_backbuffer_index # UINT32_MAX
  idValid,      \* present_id_valid
  shown,        \* the last blit that was handed to vkQueuePresentKHR
  acquire,      \* acquire_semaphore_index
  signalled,    \* acquire_semaphore_signalled
  consumed,     \* acquire_semaphore_consumed_at_blit
  blitCount,    \* internal_blit_count
  gpu,          \* submissions of this file the VkQueue has not finished
  blitDone,     \* vk_internal_blit_semaphore
  complete,     \* vk_complete_semaphore
  waitQueue,    \* wait_thread.wait_queue
  worker,       \* the wait thread
  skip,         \* skip_waits
  released      \* frames whose latency semaphore was released

appVars  == <<app, userCount, resizes, waitCounts>>
taskVars == <<step, next, request, presentCount, swapchain, created, force, lost,
              retry, troubles, image, idValid, shown>>
acqVars  == <<acquire, signalled, consumed, blitCount>>
gpuVars  == <<gpu, blitDone, complete>>
workVars == <<waitQueue, worker, skip, released>>
vars == <<appVars, latencySem, ring, taskVars, acqVars, gpuVars, workVars>>

\* Bounds only.
EventsLeft == userCount + resizes + troubles < MaxEvents
MayFail == troubles < MaxTroubles /\ EventsLeft

Slot(n) == n % Ring
\* Submissions: a blit to an image of swapchain s (0: only a wait for an acquire
\* semaphore), and the signal of the end of a frame.
Blit(k, s)  == [blit |-> k, frame |-> 0, of |-> s]
Complete(n) == [blit |-> 0, frame |-> n, of |-> 0]
Sentinel    == [frame |-> 0, id |-> 0]

Init ==
  /\ app = "runs" /\ userCount = 0 /\ resizes = 0 /\ waitCounts = 0
  /\ latencySem = Latency - 1
  /\ ring = [i \in 0 .. Ring - 1 |-> 0]
  /\ step = "idle" /\ next = "none" /\ request = 0 /\ presentCount = 0
  /\ swapchain = 0 /\ created = 0 /\ force = FALSE /\ lost = FALSE
  /\ retry = 0 /\ troubles = 0 /\ image = FALSE /\ idValid = FALSE /\ shown = 0
  /\ acquire = 0 /\ signalled = [i \in 0 .. Ring - 1 |-> FALSE]
  /\ consumed = [i \in 0 .. Ring - 1 |-> 0] /\ blitCount = 0
  /\ gpu = <<>> /\ blitDone = 0 /\ complete = 0
  /\ waitQueue = <<>> /\ worker = "top" /\ skip = FALSE /\ released = 0

-----------------------------------------------------------------------------
(* The application                                                         *)

\* The ring is written before the callback is enqueued. In low latency mode the
\* call does not block when more than two frames are not complete.
Present ==
  LET n == userCount + 1 IN
  /\ app = "runs" /\ n <= MaxPresents /\ EventsLeft
  /\ userCount' = n
  /\ ring' = [ring EXCEPT ![Slot(n)] = n]
  /\ waitCounts' = waitCounts + 1
  /\ app' = "latency"
  /\ UNCHANGED <<resizes, latencySem, taskVars, acqVars, gpuVars, workVars>>

\* Take what the semaphore has.
ReturnEarly ==
  LET k == IF latencySem < waitCounts THEN latencySem ELSE waitCounts IN
  /\ app = "latency" /\ TRUE \in LowModes /\ complete + 2 < userCount
  /\ latencySem' = latencySem - k
  /\ waitCounts' = waitCounts - k
  /\ app' = "runs"
  /\ UNCHANGED <<userCount, resizes, ring, taskVars, acqVars, gpuVars, workVars>>

DecideToWait ==
  /\ app = "latency" /\ (FALSE \in LowModes \/ complete + 2 >= userCount)
  /\ app' = "waits"
  /\ UNCHANGED <<userCount, resizes, waitCounts, latencySem, ring, taskVars, acqVars, gpuVars, workVars>>

AcquireLatency ==
  /\ app = "waits" /\ latencySem > 0
  /\ latencySem' = latencySem - 1
  /\ waitCounts' = waitCounts - 1
  /\ app' = IF waitCounts = 1 THEN "runs" ELSE "waits"
  /\ UNCHANGED <<userCount, resizes, ring, taskVars, acqVars, gpuVars, workVars>>

\* ChangeProperties with other properties than before.
Resize ==
  /\ app = "runs" /\ resizes < MaxResizes /\ EventsLeft
  /\ resizes' = resizes + 1
  /\ app' = "resizes"
  /\ UNCHANGED <<userCount, waitCounts, latencySem, ring, taskVars, acqVars, gpuVars, workVars>>

\* Faulty variant: the last frame is not waited for.
Reallocate_OneShort ==
  /\ app = "resizes" /\ complete + 1 >= userCount
  /\ force' = TRUE
  /\ app' = "runs"
  /\ UNCHANGED <<userCount, resizes, waitCounts, latencySem, ring, step, next, request,
       presentCount, swapchain, created, lost, retry, troubles, image, idValid, shown,
       acqVars, gpuVars, workVars>>

\* drain_user_images, then the buffers are freed and the swapchain is marked.
Reallocate ==
  /\ app = "resizes" /\ complete >= userCount
  /\ force' = TRUE
  /\ app' = "runs"
  /\ UNCHANGED <<userCount, resizes, waitCounts, latencySem, ring, step, next, request,
       presentCount, swapchain, created, lost, retry, troubles, image, idValid, shown,
       acqVars, gpuVars, workVars>>

\* The last reference: drain the command queue ...
Release ==
  /\ app = "runs"
  /\ app' = "drains"
  /\ UNCHANGED <<userCount, resizes, waitCounts, latencySem, ring, taskVars, acqVars, gpuVars, workVars>>

Lingering == Cardinality({i \in DOMAIN signalled : signalled[i]})

\* Faulty variant: the command queue is not drained.
QueueDrained_Not ==
  /\ app = "drains"
  /\ app' = "completes"
  /\ UNCHANGED <<userCount, resizes, waitCounts, latencySem, ring, taskVars, acqVars, gpuVars, workVars>>

\* ... wait on the acquire semaphores that were left signalled ...
QueueDrained ==
  /\ app = "drains" /\ step = "idle" /\ presentCount = userCount
  /\ app' = "completes"
  /\ blitCount' = blitCount + Lingering
  /\ gpu' = gpu \o [i \in 1 .. Lingering |-> Blit(blitCount + i, 0)]
  /\ UNCHANGED <<userCount, resizes, waitCounts, latencySem, ring, taskVars, acquire, signalled,
       consumed, blitDone, complete, workVars>>

\* Faulty variant: the wait thread is not woken.
StopWorker_Silently ==
  /\ app = "completes" /\ complete >= userCount
  /\ waitQueue' = Append(waitQueue, Sentinel)
  /\ app' = "joins"
  /\ UNCHANGED <<userCount, resizes, waitCounts, latencySem, ring, taskVars, acqVars, gpuVars, worker, skip, released>>

\* ... wait for the blits, and push the sentinel for the wait thread.
StopWorker ==
  /\ app = "completes" /\ complete >= userCount
  /\ waitQueue' = Append(waitQueue, Sentinel)
  /\ worker' = IF worker = "asleep" THEN "top" ELSE worker
  /\ app' = "joins"
  /\ UNCHANGED <<userCount, resizes, waitCounts, latencySem, ring, taskVars, acqVars, gpuVars, skip, released>>

JoinWorker ==
  /\ app = "joins" /\ worker = "exited"
  /\ app' = "gone"
  /\ UNCHANGED <<userCount, resizes, waitCounts, latencySem, ring, taskVars, acqVars, gpuVars, workVars>>

App == Present \/ ReturnEarly \/ DecideToWait \/ AcquireLatency \/ Resize \/ Reallocate
       \/ Release \/ QueueDrained \/ StopWorker \/ JoinWorker

-----------------------------------------------------------------------------
(* The callback on the submission thread                                   *)

\* Faulty variant: the slot of the frame before.
CallbackBegins_PreviousSlot(changes) ==
  LET n == presentCount + 1 IN
  /\ step = "idle" /\ presentCount < userCount
  /\ request' = ring[Slot(n + 1)]
  /\ changes => MayFail
  /\ troubles' = IF changes THEN troubles + 1 ELSE troubles
  /\ force' = (force \/ changes)
  /\ idValid' = FALSE
  /\ retry' = 0
  /\ step' = "check"
  /\ UNCHANGED <<appVars, latencySem, ring, next, presentCount, swapchain, created, lost,
       image, shown, acqVars, gpuVars, workVars>>

\* changes: the request needs another swapchain (format, color space, interval).
CallbackBegins(changes) ==
  LET n == presentCount + 1 IN
  /\ step = "idle" /\ presentCount < userCount
  /\ request' = ring[Slot(n)]
  /\ changes => MayFail
  /\ troubles' = IF changes THEN troubles + 1 ELSE troubles
  /\ force' = (force \/ changes)
  /\ idValid' = FALSE
  /\ retry' = 0
  /\ step' = "check"
  /\ UNCHANGED <<appVars, latencySem, ring, next, presentCount, swapchain, created, lost,
       image, shown, acqVars, gpuVars, workVars>>

\* recreate_swapchain_if_required begins with destroying.
CheckSwapchain ==
  /\ step = "check"
  /\ IF swapchain = 0 \/ force THEN step' = "destroy" /\ next' = "create"
                               ELSE step' = "acquire" /\ UNCHANGED next
  /\ UNCHANGED <<appVars, latencySem, ring, request, presentCount, swapchain, created, force, lost,
       retry, troubles, image, idValid, shown, acqVars, gpuVars, workVars>>

NothingToDestroy ==
  /\ step = "destroy" /\ swapchain = 0
  /\ step' = next
  /\ UNCHANGED <<appVars, latencySem, ring, next, request, presentCount, swapchain, created, force,
       lost, retry, troubles, image, idValid, shown, acqVars, gpuVars, workVars>>

\* Faulty variant: the presents of the swapchain are not waited for.
PresentsAreOver_Assumed == TRUE

\* The fences of the presents (or vkQueueWaitIdle) are waited for first.
PresentsAreOver == blitDone >= shown

\* drain_waiter: each look at the queue, then sleep on the condition variable.
DrainWaiter ==
  /\ step = "destroy" /\ swapchain # 0 /\ PresentsAreOver /\ waitQueue # <<>>
  /\ skip' = TRUE
  /\ step' = "drainSleeps"
  /\ UNCHANGED <<appVars, latencySem, ring, next, request, presentCount, swapchain, created, force,
       lost, retry, troubles, image, idValid, shown, acqVars, gpuVars, waitQueue, worker, released>>

\* Faulty variant: the wait thread is not drained.
DestroySwapchain_AtOnce ==
  /\ step = "destroy" /\ swapchain # 0 /\ PresentsAreOver
  /\ skip' = FALSE
  /\ swapchain' = 0 /\ force' = FALSE /\ idValid' = FALSE /\ image' = FALSE
  /\ step' = next
  /\ UNCHANGED <<appVars, latencySem, ring, next, request, presentCount, created, lost, retry,
       troubles, shown, acqVars, gpuVars, waitQueue, worker, released>>

DestroySwapchain ==
  /\ step = "destroy" /\ swapchain # 0 /\ PresentsAreOver /\ waitQueue = <<>>
  /\ skip' = FALSE
  /\ swapchain' = 0 /\ force' = FALSE /\ idValid' = FALSE /\ image' = FALSE
  /\ step' = next
  /\ UNCHANGED <<appVars, latencySem, ring, next, request, presentCount, created, lost, retry,
       troubles, shown, acqVars, gpuVars, waitQueue, worker, released>>

\* No surface, no extent, or no format: this frame is not shown.
CreateSwapchain(result) ==
  /\ step = "create"
  /\ lost => result = "none"
  /\ result # "ok" => (lost \/ MayFail)
  /\ troubles' = IF result = "ok" \/ lost THEN troubles ELSE troubles + 1
  /\ lost' = (lost \/ result = "lost")
  /\ IF result = "ok" THEN /\ created' = created + 1
                           /\ swapchain' = created'
                           /\ step' = "acquire"
                      ELSE /\ step' = "signal"
                           /\ UNCHANGED <<created, swapchain>>
  /\ UNCHANGED <<appVars, latencySem, ring, next, request, presentCount, force,
       retry, image, idValid, shown, acqVars, gpuVars, workVars>>

\* An image that was acquired before is used first.
HasImage ==
  /\ step = "acquire" /\ image
  /\ step' = "blit"
  /\ UNCHANGED <<appVars, latencySem, ring, next, request, presentCount, swapchain, created, force,
       lost, retry, troubles, image, idValid, shown, acqVars, gpuVars, workVars>>

\* Faulty variant: the semaphore is left as it is.
NextSemaphore_LeavesIt ==
  /\ step = "acquire" /\ ~image
  /\ acquire' = (acquire + 1) % Ring
  /\ step' = "acquireNext"
  /\ UNCHANGED <<appVars, latencySem, ring, next, request, presentCount, swapchain, created, force,
       lost, retry, troubles, image, idValid, shown, signalled, consumed, blitCount, gpuVars, workVars>>

\* The current semaphore is not left behind signalled: a wait is submitted for it.
NextSemaphore ==
  /\ step = "acquire" /\ ~image
  /\ IF signalled[acquire]
     THEN /\ blitCount' = blitCount + 1
          /\ gpu' = Append(gpu, Blit(blitCount', 0))
          /\ consumed' = [consumed EXCEPT ![acquire] = blitCount']
          /\ signalled' = [signalled EXCEPT ![acquire] = FALSE]
     ELSE UNCHANGED <<blitCount, gpu, consumed, signalled>>
  /\ acquire' = (acquire + 1) % Ring
  /\ step' = "acquireNext"
  /\ UNCHANGED <<appVars, latencySem, ring, next, request, presentCount, swapchain, created, force,
       lost, retry, troubles, image, idValid, shown, blitDone, complete, workVars>>

\* What an iteration does with the result of acquiring or presenting.
Failed(result) ==
  /\ force' = TRUE
  /\ lost' = (lost \/ result = "lost")
  /\ step' = "destroy"
  /\ IF result = "outOfDate" /\ retry < MaxRetries
     THEN next' = "check" /\ retry' = retry + 1
     ELSE next' = "signal" /\ UNCHANGED retry

\* Faulty variant: an earlier wait may still be pending.
AcquireImage_NoDrain(result) ==
  /\ step = "acquireNext"
  /\ result # "ok" => MayFail
  /\ troubles' = IF result = "ok" THEN troubles ELSE troubles + 1
  /\ IF result \in {"ok", "suboptimal"}
     THEN /\ image' = TRUE
          /\ signalled' = [signalled EXCEPT ![acquire] = TRUE]
          /\ force' = (force \/ result = "suboptimal")
          /\ step' = "blit"
          /\ UNCHANGED <<lost, next, retry>>
     ELSE Failed(result) /\ UNCHANGED <<image, signalled>>
  /\ UNCHANGED <<appVars, latencySem, ring, request, presentCount, swapchain, created, idValid,
       shown, acquire, consumed, blitCount, gpuVars, workVars>>

\* The next semaphore's earlier wait must be over before it is signalled again.
AcquireImage(result) ==
  /\ step = "acquireNext" /\ blitDone >= consumed[acquire]
  /\ result # "ok" => MayFail
  /\ troubles' = IF result = "ok" THEN troubles ELSE troubles + 1
  /\ IF result \in {"ok", "suboptimal"}
     THEN /\ image' = TRUE
          /\ signalled' = [signalled EXCEPT ![acquire] = TRUE]
          /\ force' = (force \/ result = "suboptimal")
          /\ step' = "blit"
          /\ UNCHANGED <<lost, next, retry>>
     ELSE Failed(result) /\ UNCHANGED <<image, signalled>>
  /\ UNCHANGED <<appVars, latencySem, ring, request, presentCount, swapchain, created, idValid,
       shown, acquire, consumed, blitCount, gpuVars, workVars>>

\* Faulty variant: a failed blit gives its image and semaphore back.
SubmitBlit_Forgets(ok) ==
  /\ step = "blit"
  /\ ok \/ MayFail
  /\ blitCount' = blitCount + 1
  /\ signalled' = [signalled EXCEPT ![acquire] = FALSE]
  /\ IF ok
     THEN /\ gpu' = Append(gpu, Blit(blitCount', swapchain))
          /\ consumed' = [consumed EXCEPT ![acquire] = blitCount']
          /\ step' = "present"
          /\ UNCHANGED troubles
     ELSE /\ step' = "signal"
          /\ troubles' = troubles + 1
          /\ UNCHANGED <<gpu, consumed>>
  /\ UNCHANGED <<appVars, latencySem, ring, next, request, presentCount, swapchain, created, force,
       lost, retry, image, idValid, shown, acquire, blitDone, complete, workVars>>

SubmitBlit(ok) ==
  /\ step = "blit"
  /\ ok \/ MayFail
  /\ blitCount' = blitCount + 1
  /\ IF ok
     THEN /\ gpu' = Append(gpu, Blit(blitCount', swapchain))
          /\ consumed' = [consumed EXCEPT ![acquire] = blitCount']
          /\ signalled' = [signalled EXCEPT ![acquire] = FALSE]
          /\ step' = "present"
          /\ UNCHANGED troubles
     ELSE /\ step' = "signal"
          /\ troubles' = troubles + 1
          /\ UNCHANGED <<gpu, consumed, signalled>>
  /\ UNCHANGED <<appVars, latencySem, ring, next, request, presentCount, swapchain, created, force,
       lost, retry, image, idValid, shown, acquire, blitDone, complete, workVars>>

\* useId: the present mode paces frames, so that a present ID is waited for.
QueuePresent(result, useId) ==
  /\ step = "present"
  /\ result # "ok" => MayFail
  /\ troubles' = IF result = "ok" THEN troubles ELSE troubles + 1
  /\ shown' = blitCount
  /\ IF result \in {"ok", "suboptimal"}
     THEN /\ image' = FALSE
          /\ idValid' = useId
          /\ force' = (force \/ result = "suboptimal")
          /\ step' = "signal"
          /\ UNCHANGED <<lost, next, retry>>
     ELSE Failed(result) /\ UNCHANGED <<image, idValid>>
  /\ UNCHANGED <<appVars, latencySem, ring, request, presentCount, swapchain, created,
       acqVars, gpuVars, workVars>>

\* Once per frame, whatever the iteration did.
SignalComplete ==
  /\ step = "signal"
  /\ gpu' = Append(gpu, Complete(presentCount + 1))
  /\ step' = "push"
  /\ UNCHANGED <<appVars, latencySem, ring, next, request, presentCount, swapchain, created, force,
       lost, retry, troubles, image, idValid, shown, acqVars, blitDone, complete, workVars>>

\* Faulty variant: frames that were not presented are not pushed.
PushPresentId_Shown ==
  /\ step = "push"
  /\ IF idValid THEN /\ waitQueue' = Append(waitQueue, [frame |-> presentCount + 1, id |-> swapchain])
                     /\ worker' = IF worker = "asleep" THEN "top" ELSE worker
                ELSE UNCHANGED <<waitQueue, worker>>
  /\ step' = "done"
  /\ UNCHANGED <<appVars, latencySem, ring, next, request, presentCount, swapchain, created, force,
       lost, retry, troubles, image, idValid, shown, acqVars, gpuVars, skip, released>>

PushPresentId ==
  /\ step = "push"
  /\ waitQueue' = Append(waitQueue, [frame |-> presentCount + 1,
                                     id |-> IF idValid THEN swapchain ELSE 0])
  /\ worker' = IF worker = "asleep" THEN "top" ELSE worker
  /\ step' = "done"
  /\ UNCHANGED <<appVars, latencySem, ring, next, request, presentCount, swapchain, created, force,
       lost, retry, troubles, image, idValid, shown, acqVars, gpuVars, skip, released>>

CallbackEnds ==
  /\ step = "done"
  /\ presentCount' = presentCount + 1
  /\ step' = "idle"
  /\ UNCHANGED <<appVars, latencySem, ring, next, request, swapchain, created, force, lost, retry,
       troubles, image, idValid, shown, acqVars, gpuVars, workVars>>

Callback ==
  \/ \E changes \in BOOLEAN : CallbackBegins(changes)
  \/ CheckSwapchain \/ NothingToDestroy \/ DrainWaiter \/ DestroySwapchain
  \/ \E result \in {"ok", "none", "lost"} : CreateSwapchain(result)
  \/ HasImage \/ NextSemaphore
  \/ \E result \in {"ok", "suboptimal", "outOfDate", "lost"} :
       \/ AcquireImage(result)
       \/ \E useId \in BOOLEAN : QueuePresent(result, useId)
  \/ \E ok \in BOOLEAN : SubmitBlit(ok)
  \/ SignalComplete \/ PushPresentId \/ CallbackEnds

-----------------------------------------------------------------------------
(* The VkQueue and the wait thread                                         *)

Gpu ==
  /\ gpu # <<>>
  /\ gpu' = Tail(gpu)
  /\ IF Head(gpu).frame = 0
     THEN blitDone' = Head(gpu).blit /\ UNCHANGED complete
     ELSE complete' = Head(gpu).frame /\ UNCHANGED blitDone
  /\ UNCHANGED <<appVars, latencySem, ring, taskVars, acqVars, workVars>>

WorkerSleeps ==
  /\ worker = "top" /\ waitQueue = <<>>
  /\ worker' = "asleep"
  /\ UNCHANGED <<appVars, latencySem, ring, taskVars, acqVars, gpuVars, waitQueue, skip, released>>

\* skip_waits is read without the lock.
WorkerTakes ==
  /\ worker = "top" /\ waitQueue # <<>>
  /\ worker' = IF Head(waitQueue) = Sentinel THEN "exited"
               ELSE IF Head(waitQueue).id # 0 /\ skip THEN "waited" ELSE "waits"
  /\ UNCHANGED <<appVars, latencySem, ring, taskVars, acqVars, gpuVars, waitQueue, skip, released>>

\* vkWaitForPresentKHR returns, with success or not; or the blits are complete.
WorkerWaited ==
  /\ worker = "waits"
  /\ Head(waitQueue).id # 0 \/ complete >= Head(waitQueue).frame
  /\ worker' = "waited"
  /\ UNCHANGED <<appVars, latencySem, ring, taskVars, acqVars, gpuVars, waitQueue, skip, released>>

\* Faulty variant: the semaphore is not released for frames that were skipped.
WorkerReleases_Shown ==
  /\ worker = "waited"
  /\ released' = Head(waitQueue).frame
  /\ latencySem' = IF skip THEN latencySem ELSE latencySem + 1
  /\ worker' = "pops"
  /\ UNCHANGED <<appVars, ring, taskVars, acqVars, gpuVars, waitQueue, skip>>

\* Faulty variant: two counts for a frame.
WorkerReleases_Twice ==
  /\ worker = "waited"
  /\ released' = Head(waitQueue).frame
  /\ latencySem' = latencySem + 2
  /\ worker' = "pops"
  /\ UNCHANGED <<appVars, ring, taskVars, acqVars, gpuVars, waitQueue, skip>>

WorkerReleases ==
  /\ worker = "waited"
  /\ released' = Head(waitQueue).frame
  /\ latencySem' = latencySem + 1
  /\ worker' = "pops"
  /\ UNCHANGED <<appVars, ring, taskVars, acqVars, gpuVars, waitQueue, skip>>

\* Faulty variant: the present task is not woken.
WorkerPops_Silently ==
  /\ worker = "pops"
  /\ waitQueue' = Tail(waitQueue)
  /\ worker' = "top"
  /\ UNCHANGED <<appVars, latencySem, ring, taskVars, acqVars, gpuVars, skip, released>>

\* The condition variable is signalled when the queue has become empty: a
\* present task may be asleep.
WorkerPops ==
  /\ worker = "pops"
  /\ waitQueue' = Tail(waitQueue)
  /\ worker' = "top"
  /\ step' = IF Len(waitQueue) = 1 /\ step = "drainSleeps" THEN "destroy" ELSE step
  /\ UNCHANGED <<appVars, latencySem, ring, next, request, presentCount, swapchain, created, force,
       lost, retry, troubles, image, idValid, shown, acqVars, gpuVars, skip, released>>

Worker == WorkerSleeps \/ WorkerTakes \/ WorkerWaited \/ WorkerReleases \/ WorkerPops

Next == App \/ Callback \/ Gpu \/ Worker

Spec == Init /\ [][Next]_vars

\* The threads and the VkQueue run; the application finishes calls it began.
FairSpec ==
  /\ Spec
  /\ WF_vars(Callback) /\ WF_vars(Gpu) /\ WF_vars(Worker)
  /\ WF_vars(app # "runs" /\ App)

-----------------------------------------------------------------------------
(* Properties                                                              *)

Steps == {"idle", "check", "destroy", "drainSleeps", "create", "acquire", "acquireNext", "blit",
          "present", "signal", "push", "done"}
Frames == 0 .. MaxPresents

\* Types of the state.
TypeOK ==
  /\ app \in {"runs", "latency", "waits", "resizes", "drains", "completes", "joins", "gone"}
  /\ userCount \in Frames /\ resizes \in 0 .. MaxResizes /\ waitCounts \in Frames
  /\ latencySem \in 0 .. Latency - 1 + released
  /\ ring \in [0 .. Ring - 1 -> Frames]
  /\ step \in Steps /\ next \in {"none", "check", "create", "signal"}
  /\ request \in Frames /\ presentCount \in 0 .. userCount
  /\ created \in Nat /\ swapchain \in {0, created}
  /\ retry \in 0 .. MaxRetries /\ troubles \in 0 .. MaxTroubles
  /\ {force, lost, image, idValid, skip} \subseteq BOOLEAN
  /\ acquire \in 0 .. Ring - 1 /\ blitCount \in Nat
  /\ signalled \in [0 .. Ring - 1 -> BOOLEAN]
  /\ consumed \in [0 .. Ring - 1 -> 0 .. blitCount]
  /\ shown \in 0 .. blitCount /\ blitDone \in 0 .. blitCount
  /\ gpu \in Seq([blit : Nat, frame : Frames, of : Nat])
  /\ complete \in 0 .. userCount /\ released \in 0 .. userCount
  /\ waitQueue \in Seq([frame : Frames, id : Nat])
  /\ worker \in {"top", "asleep", "waits", "waited", "pops", "exited"}

\* The callback of frame n works with the request of frame n, or with the one of
\* a later frame that was put into the same slot before; a request is replaced
\* before it is picked up only when the low latency mode has let the application
\* run ahead by more than one wait (swapchain.c:1138, 1146, 3198).
RequestIsPickedUp ==
  /\ step # "idle" => /\ request \in presentCount + 1 .. userCount
                      /\ Slot(request) = Slot(presentCount + 1)
  /\ step = "idle" /\ presentCount < userCount /\ waitCounts <= 1 =>
       ring[Slot(presentCount + 1)] = presentCount + 1

\* The callback of a frame picks up the request of that frame. This holds without
\* the low latency mode only (swapchain.c:1138).
RequestIsItsOwn == step # "idle" => request = presentCount + 1

\* When the application has made up for its waits it is at most Latency - 1
\* frames ahead of the frames that were shown (swapchain.c:1612).
LatencyBounded == app = "runs" /\ waitCounts = 0 => userCount - released <= Latency - 1

\* The wait thread waits for a present only on the swapchain that took it and
\* that still exists (swapchain.c:1656, 3707).
WaitsOnLiveSwapchain == worker = "waits" /\ Head(waitQueue).id # 0 => Head(waitQueue).id = swapchain

\* A swapchain is destroyed after the GPU has finished with its images
\* (swapchain.c:1683).
BlitsAreOfLive == \A i \in DOMAIN gpu : gpu[i].of \in {0, swapchain}

\* Only the current acquire semaphore is signalled without a wait for it: the
\* next one never needs a blocking wait (swapchain.c:2797).
OnlyCurrentSignalled ==
  \A i \in DOMAIN signalled : signalled[i] => i = acquire /\ step # "acquireNext"

\* An acquire semaphore is not signalled while a wait for it is pending
\* (swapchain.c:2754).
NoPendingWait == \A i \in DOMAIN signalled : signalled[i] => consumed[i] <= blitDone

\* The assertion of submit_blit: an image comes with a signalled semaphore
\* (swapchain.c:2673).
AcquiredBeforeBlit == step = "blit" => signalled[acquire]

\* When the last reference is gone the wait thread is stopped behind the
\* last frame: no callback runs and none is pending, and no submission is left
\* for what is destroyed next, but waits for acquire semaphores (swapchain.c:489, 548).
NothingAfterRelease ==
  app \in {"joins", "gone"} =>
    /\ step = "idle" /\ presentCount = userCount
    /\ \A i \in DOMAIN gpu : gpu[i].frame = 0 /\ gpu[i].of = 0

\* Nobody sleeps on the condition variable that the wait thread and the present
\* task share while what it waits for is there (swapchain.c:1661, 3626, 3712).
NoMissedWakeup ==
  /\ worker = "asleep" => waitQueue = <<>>
  /\ step = "drainSleeps" => waitQueue # <<>>

\* The application's buffers are replaced, and the flag of the present task is
\* set from another thread, when no frame uses them any more (swapchain.c:888, 905).
ReplacedWhenIdle ==
  [][app = "resizes" /\ app' = "runs" =>
       /\ step \in {"push", "done", "idle"}
       /\ \A i \in DOMAIN gpu : gpu[i].blit = 0]_vars

\* A call of Present returns, whatever happens to the swapchain
\* (swapchain.c:3218, 3222).
PresentReturns == app \in {"latency", "waits"} ~> app = "runs"

\* Releasing the swap chain returns (swapchain.c:645).
ReleaseReturns == app = "drains" ~> app = "gone"

\* Every callback ends: destroying a swapchain does not wait for ever.
CallbackReturns == step # "idle" ~> step = "idle"

\* Frames, requests and waits keep in step between the application, the present
\* task and the wait thread.
FramesAreInStep == TypeOK /\ RequestIsPickedUp /\ LatencyBounded /\ WaitsOnLiveSwapchain /\ NoMissedWakeup

\* Semaphores, images and buffers are used only as Vulkan allows, also across the
\* recreation of the swapchain and at the end.
VulkanObjectsAreReady ==
  BlitsAreOfLive /\ OnlyCurrentSignalled /\ NoPendingWait /\ AcquiredBeforeBlit /\ NothingAfterRelease

\* Present, Release and the callbacks return.
EveryoneGetsThrough == PresentReturns /\ ReleaseReturns /\ CallbackReturns
=============================================================================
