----------------------------- MODULE CommandQueue -----------------------------
(***************************************************************************)
(* Command queues that wait for and signal shared fences                   *)
(* (libs/vkd3d/command.c): per queue the calls of the application, the     *)
(* submission thread that carries them out in order and the fence worker   *)
(* that observes their completion; below them the VkQueues, several        *)
(* command queues to one VkQueue where the device has too few.             *)
(*                                                                         *)
(* A VkQueue has one timeline semaphore, which every submission of every   *)
(* command queue on it advances; a fence is scheduled at a value of that   *)
(* timeline.  The module follows which GPU work has to precede which (the  *)
(* history variables) and compares it with what the semaphores enforce.    *)
(*                                                                         *)
(* The call a submission thread works on stays at the head of submissions  *)
(* until it is done.  Sleeping on fence->cond is a guard here: D3D12Fence  *)
(* models the condition variable and shows that no wakeup is lost.         *)
(* A command queue may be released, which ends both of its threads, and    *)
(* the device may be lost, after which every Vulkan call fails.            *)
(***************************************************************************)
EXTENDS FenceObject, Sequences

CONSTANTS
  Queues,       \* the command queues
  VkQueues,     \* the VkQueues; each stands for its submission_timeline too
  VkQueueOf,    \* the VkQueue a command queue is mapped to
  Fences,
  UINT64_MAX,
  Programs      \* what the application may do, and whether the device may be
                \* lost; calls[c] bounds how often it uses command queue c

ProgramType ==
  [calls : [Queues -> Nat],            \* calls of a command queue, its release apart
   waits_and_signals : SUBSET [type : {"wait", "signal"}, queue : Queues,
                               fence : Fences, value : 1..(UINT64_MAX - 1)],
   executing : SUBSET Queues,          \* queues it submits work to
   cpu_signals : SUBSET [fence : Fences, value : 1..(UINT64_MAX - 1)],
                                       \* what it signals from the CPU
   releasable : SUBSET Fences,         \* fences it releases
   closable : SUBSET Queues,           \* command queues it releases
   may_lose_device : BOOLEAN]

ASSUME ProgramsAssumption ==
  /\ VkQueueOf \in [Queues -> VkQueues] /\ Programs \subseteq ProgramType
  /\ Queues \cap Fences = {}     \* the history tells them apart by name
  /\ IsFiniteSet(Queues)         \* references are counted over all queues
  /\ UINT64_MAX \in Nat

VARIABLES
  program,            \* the one of Programs that is carried out
  fence,              \* struct d3d12_fence of every fence
  refcount_internal,  \* references that keep a fence's memory
  released,           \* fences the application has no reference to any more
  queue,              \* struct d3d12_command_queue of every command queue
  vk_queue,           \* struct vkd3d_queue and the VkQueue behind it
  device_lost,        \* every later Vulkan call returns VK_ERROR_DEVICE_LOST
  known,              \* history: what everything later in a queue follows
  followed,           \* history: what each update of a fence follows
  before,             \* history: what each work of a queue follows
  done                \* history: work the GPU has finished

\* What is followed is the n-th work <<c, n>> of a command queue, or the n-th
\* update <<f, n>> of a fence.

refs    == <<refcount_internal, released>>
history == <<known, followed, before, done>>
gpu     == <<vk_queue, device_lost>>
vars    == <<program, fence, refs, queue, gpu, history>>

NewQueue ==
  [open |-> TRUE, submissions |-> <<>>, pc |-> "ready",
   cpu_wait |-> 0, calls |-> 0,
   wait_semaphores |-> {}, wait_fences |-> <<>>, last_submission |-> 0,
   fence_worker |-> <<>>]

NewVkQueue == [submission_timeline_count |-> 0, submitted |-> <<>>, completed |-> 0]

Init ==
  /\ program \in Programs
  /\ fence = [f \in Fences |-> NewFence(0)]
  /\ refcount_internal = [f \in Fences |-> 1]
  /\ released = {}
  /\ queue = [c \in Queues |-> NewQueue]
  /\ vk_queue = [v \in VkQueues |-> NewVkQueue]
  /\ device_lost = FALSE
  /\ known = [c \in Queues |-> {}]
  /\ followed = [f \in Fences |-> <<>>]
  /\ before = [c \in Queues |-> <<>>]
  /\ done = {}

-----------------------------------------------------------------------------
(* The application.                                                        *)

Enqueue(c, op) ==
  /\ queue[c].open /\ queue[c].calls < program.calls[c]
  /\ queue' = [queue EXCEPT ![c].submissions = Append(@, op), ![c].calls = @ + 1]

ExecuteCommandLists(c) ==
  /\ c \in program.executing
  /\ Enqueue(c, [type |-> "execute"])
  /\ UNCHANGED <<program, fence, refs, gpu, history>>

\* ID3D12CommandQueue::Wait and Signal hold the fence until the submission
\* thread is through with the call.
QueueWait(k) ==
  /\ k.type = "wait" /\ k.fence \notin released
  /\ fence' = [fence EXCEPT ![k.fence] = RegisterWait(@, k.value)]
  /\ refcount_internal' = [refcount_internal EXCEPT ![k.fence] = @ + 1]
  /\ Enqueue(k.queue, [type |-> "wait", fence |-> k.fence, value |-> k.value,
                       ticket |-> fence'[k.fence].wait_ticket_counter])
  /\ UNCHANGED <<program, released, gpu, history>>

QueueSignal(k) ==
  /\ k.type = "signal" /\ k.fence \notin released
  /\ refcount_internal' = [refcount_internal EXCEPT ![k.fence] = @ + 1]
  /\ Enqueue(k.queue, [type |-> "signal", fence |-> k.fence, value |-> k.value])
  /\ UNCHANGED <<program, fence, released, gpu, history>>

\* ID3D12Fence::Signal; bound: only to raise the value.
CpuSignalFence(f) ==
  \E k \in program.cpu_signals :
    /\ k.fence = f /\ f \notin released
    /\ fence[f].virtual_value < k.value
    /\ fence' = [fence EXCEPT ![f] = CpuSignal(@, k.value)]
    /\ UNCHANGED <<program, refs, queue, gpu, history>>

\* ID3D12Fence::Release of the last public reference.
Release(f) ==
  /\ f \in program.releasable \ released
  /\ fence' = [fence EXCEPT ![f] = CpuSignal(@, UINT64_MAX)]
  /\ released' = released \cup {f}
  /\ refcount_internal' = [refcount_internal EXCEPT ![f] = @ - 1]
  /\ UNCHANGED <<program, queue, gpu, history>>

\* ID3D12CommandQueue::Release of the last reference: STOP is the last call of
\* the submission thread, which the application then waits for.
ReleaseQueue(c) ==
  /\ c \in program.closable /\ queue[c].open
  /\ queue' = [queue EXCEPT ![c].open = FALSE,
                            ![c].submissions = Append(@, [type |-> "stop"])]
  /\ UNCHANGED <<program, fence, refs, gpu, history>>

-----------------------------------------------------------------------------
(* Submissions to a VkQueue.                                               *)

Completed(v, value) == vk_queue[v].completed >= value

\* A semaphore occurs once in wait_semaphores, with its largest value.
AddWaitSemaphore(waits, w) ==
  LET same == {x \in waits : x.semaphore = w.semaphore}
  IN  (waits \ same) \cup
        {[w EXCEPT !.value = Max({x.value : x \in same \cup {w}})]}

AddWait(q, f, u) ==
  [q EXCEPT
     !.wait_fences = Append(@, [fence |-> f, update_count |-> u.update_count]),
     !.wait_semaphores =
        AddWaitSemaphore(@, [semaphore |-> u.vk_semaphore,
                             value |-> u.vk_semaphore_value])]

\* Faulty variant: a wait is dropped one submission too early.
RemainingWaits_OffByOne(waits) ==
  {w \in waits : w.value = 0 \/ ~Completed(w.semaphore, w.value - 1)}

\* Waits that are still needed; those for value 0 are never looked up.
RemainingWaits(waits) ==
  {w \in waits : w.value = 0 \/ ~Completed(w.semaphore, w.value)}

\* The fence worker may go on once signal_count has reached the update.
OrderItem(f, n) == [kind |-> "order", fence |-> f, update_count |-> n]

SignalItem(f, n, value) ==
  [kind |-> "signal", fence |-> f, update_count |-> n, value |-> value]

ReleaseItem(work, value) == [kind |-> "release", work |-> work, value |-> value]

\* The references of wait_fences move on to the fence worker.
FinalizeWaits(q) ==
  [q EXCEPT
     !.wait_semaphores = {}, !.wait_fences = <<>>,
     !.fence_worker = @ \o [i \in DOMAIN q.wait_fences |->
        OrderItem(q.wait_fences[i].fence, q.wait_fences[i].update_count)]]

NextTimelineValue(c) == vk_queue[VkQueueOf[c]].submission_timeline_count + 1

\* vkQueueSubmit2 of the gathered waits and of the work.
SubmitWork(c, work) ==
  /\ ~device_lost
  /\ vk_queue' = [vk_queue EXCEPT
       ![VkQueueOf[c]].submission_timeline_count = @ + 1,
       ![VkQueueOf[c]].submitted =
          Append(@, [value |-> NextTimelineValue(c), work |-> work,
                     waits |-> RemainingWaits(queue[c].wait_semaphores)])]
  /\ UNCHANGED device_lost

\* The deferred waits for fence f, each of which holds a reference.
WaitsOn(q, f) == {i \in DOMAIN q.wait_fences : q.wait_fences[i].fence = f}

WaitReferences(q, f) == Cardinality(WaitsOn(q, f))

DropWaits(q) == [q EXCEPT !.wait_semaphores = {}, !.wait_fences = <<>>]

\* vkQueueSubmit2 fails: its timeline value is spent, and the references of
\* wait_fences are given back at once.
SubmissionFails(c) ==
  /\ device_lost
  /\ vk_queue' = [vk_queue EXCEPT ![VkQueueOf[c]].submission_timeline_count = @ + 1]
  /\ refcount_internal' =
       [f \in Fences |-> refcount_internal[f] - WaitReferences(queue[c], f)]
  /\ UNCHANGED <<program, fence, released, device_lost, history>>

-----------------------------------------------------------------------------
(* The submission thread of a command queue.                               *)

Working(c, type) ==
  queue[c].submissions # <<>> /\ Head(queue[c].submissions).type = type

Current(c) == Head(queue[c].submissions)

NextSubmission(q) == [q EXCEPT !.submissions = Tail(@), !.pc = "ready"]

DecRef(f) == refcount_internal' = [refcount_internal EXCEPT ![f] = @ - 1]

\* The wait took effect on the CPU already: its ticket is gone.
WaitSatisfied(c) ==
  LET op == Current(c)
  IN  /\ Working(c, "wait") /\ queue[c].pc = "ready"
      /\ ~HasTicket(fence[op.fence], op.ticket)
      /\ queue' = [queue EXCEPT ![c] = NextSubmission(@)]
      /\ DecRef(op.fence)
      /\ UNCHANGED <<program, fence, released, gpu, history>>

Unresolved(c) ==
  /\ Working(c, "wait") /\ queue[c].pc = "ready"
  /\ HasTicket(fence[Current(c).fence], Current(c).ticket)
  /\ ~MustBlock(fence[Current(c).fence], Current(c).value)

\* Update u is scheduled and will satisfy the wait.
Resolves(c, u) ==
  LET op == Current(c)
  IN  /\ fence' = [fence EXCEPT ![op.fence] = ConsumeTicket(@, op.ticket)]
      /\ known' = [known EXCEPT ![c] = @ \cup followed[op.fence][u.update_count]
                                         \cup {<<op.fence, u.update_count>>}]
      /\ UNCHANGED <<program, released, gpu, followed, before, done>>

\* A callback for the fence worker.
AddItem(q, item) == [q EXCEPT !.fence_worker = Append(@, item)]

\* Faulty variant: submission order is taken to order the fence workers too.
AddOrder_Skipped(q, f, n) == q

AddOrder(q, f, n) == AddItem(q, OrderItem(f, n))

\* A signal on the same VkQueue: submission order does the rest.  The call's
\* reference moves on to the fence worker.
WaitOnSameVkQueue(c) ==
  LET op == Current(c)
  IN  Unresolved(c) /\ \E u \in Resolutions(fence[op.fence], op.value, VkQueueOf[c]) :
        /\ u.vk_semaphore = VkQueueOf[c]
        /\ Resolves(c, u)
        /\ queue' = [queue EXCEPT
             ![c] = AddOrder(NextSubmission(@), op.fence, u.update_count)]
        /\ UNCHANGED refcount_internal

\* Waits may go to the CPU if another command queue uses the VkQueue and has
\* submitted lately.
MayNeedCpuWaits(c) == \E d \in Queues \ {c} : VkQueueOf[d] = VkQueueOf[c]

\* The next submission of the queue waits for the update.  The call's
\* reference moves on to wait_fences.
WaitIsDeferred(c) ==
  LET op == Current(c)
  IN  Unresolved(c) /\ \E u \in Resolutions(fence[op.fence], op.value, VkQueueOf[c]) :
        /\ u.vk_semaphore # VkQueueOf[c]
        /\ Resolves(c, u)
        /\ queue' = [queue EXCEPT ![c] = AddWait(NextSubmission(@), op.fence, u)]
        /\ UNCHANGED refcount_internal

\* The thread itself waits for the update, and orders its fence worker.
WaitOnCpu(c) ==
  LET op == Current(c)
  IN  Unresolved(c) /\ \E u \in Resolutions(fence[op.fence], op.value, VkQueueOf[c]) :
        /\ u.vk_semaphore # VkQueueOf[c] /\ MayNeedCpuWaits(c)
        /\ Resolves(c, u)
        /\ queue' = [queue EXCEPT
             ![c] = [AddOrder(@, op.fence, u.update_count) EXCEPT
                       !.pc = "cpu_wait",
                       !.cpu_wait = [semaphore |-> u.vk_semaphore,
                                     value |-> u.vk_semaphore_value]]]
        /\ refcount_internal' = [refcount_internal EXCEPT ![op.fence] = @ + 1]

CpuWaitReturns(c) ==
  /\ queue[c].pc = "cpu_wait"
  /\ device_lost \/ Completed(queue[c].cpu_wait.semaphore, queue[c].cpu_wait.value)
  /\ queue' = [queue EXCEPT ![c] = [NextSubmission(@) EXCEPT !.cpu_wait = 0]]
  /\ DecRef(Current(c).fence)
  /\ UNCHANGED <<program, fence, released, gpu, history>>

\* SIGNAL and STOP follow the waits before them.
FlushIsDue(c) ==
  /\ Working(c, "signal") \/ Working(c, "stop")
  /\ queue[c].pc = "ready"

\* Faulty variant: waits are left to the next submission of work.
FlushWaiters_Deferred(c) ==
  /\ FlushIsDue(c)
  /\ queue' = [queue EXCEPT ![c].pc = "flushed"]
  /\ UNCHANGED <<program, fence, refs, gpu, history>>

\* Faulty variant: the timeline value is taken before it is known whether
\* there is anything to submit.
FlushWaiters_TakesValue(c) ==
  /\ FlushIsDue(c)
  /\ IF RemainingWaits(queue[c].wait_semaphores) = {}
     THEN /\ vk_queue' = [vk_queue EXCEPT
               ![VkQueueOf[c]].submission_timeline_count = @ + 1]
          /\ UNCHANGED device_lost
     ELSE SubmitWork(c, {})
  /\ queue' = [queue EXCEPT
       ![c] = [FinalizeWaits(@) EXCEPT
                 !.pc = "flushed", !.last_submission = NextTimelineValue(c)]]
  /\ UNCHANGED <<program, fence, refs, history>>

\* The waits are submitted, unless all of them are over.
FlushWaiters(c) ==
  /\ FlushIsDue(c)
  /\ IF RemainingWaits(queue[c].wait_semaphores) = {}
     THEN /\ queue' = [queue EXCEPT ![c] = [FinalizeWaits(@) EXCEPT !.pc = "flushed"]]
          /\ UNCHANGED gpu
     ELSE /\ SubmitWork(c, {})
          /\ queue' = [queue EXCEPT
               ![c] = [FinalizeWaits(@) EXCEPT
                         !.pc = "flushed", !.last_submission = NextTimelineValue(c)]]
  /\ UNCHANGED <<program, fence, refs, history>>

FlushFails(c) ==
  /\ FlushIsDue(c) /\ RemainingWaits(queue[c].wait_semaphores) # {}
  /\ SubmissionFails(c)
  /\ queue' = [queue EXCEPT ![c] = [DropWaits(@) EXCEPT
       !.pc = "flushed", !.last_submission = NextTimelineValue(c)]]

\* Faulty variant: the signal is scheduled at a value yet to be submitted.
Signals_Ahead(c) ==
  LET op == Current(c)
      value == queue[c].last_submission + 1
      updated == AddPendingSignal(fence[op.fence], op.value, VkQueueOf[c], value)
  IN  /\ Working(c, "signal") /\ queue[c].pc = "flushed"
      /\ fence' = [fence EXCEPT ![op.fence] = updated]
      /\ queue' = [queue EXCEPT
           ![c] = AddItem(NextSubmission(@),
                          SignalItem(op.fence, updated.update_count, value))]
      /\ followed' = [followed EXCEPT ![op.fence] = Append(@, known[c])]
      /\ known' = [known EXCEPT ![c] = @ \cup {<<op.fence, updated.update_count>>}]
      /\ UNCHANGED <<program, refs, gpu, before, done>>

\* The fence is scheduled at the queue's last submission.  The call's
\* reference moves on to the fence worker.
Signals(c) ==
  LET op == Current(c)
      value == queue[c].last_submission
      updated == AddPendingSignal(fence[op.fence], op.value, VkQueueOf[c], value)
  IN  /\ Working(c, "signal") /\ queue[c].pc = "flushed"
      /\ fence' = [fence EXCEPT ![op.fence] = updated]
      /\ queue' = [queue EXCEPT
           ![c] = AddItem(NextSubmission(@),
                          SignalItem(op.fence, updated.update_count, value))]
      /\ followed' = [followed EXCEPT ![op.fence] = Append(@, known[c])]
      /\ known' = [known EXCEPT ![c] = @ \cup {<<op.fence, updated.update_count>>}]
      /\ UNCHANGED <<program, refs, gpu, before, done>>

\* Faulty variant: the allocators are released after the submission before.
Execute_ReleasesEarly(c) ==
  LET work == <<c, Len(before[c]) + 1>>
  IN  /\ Working(c, "execute")
      /\ SubmitWork(c, {work})
      /\ queue' = [queue EXCEPT
           ![c] = [AddItem(NextSubmission(FinalizeWaits(@)),
                           ReleaseItem(work, queue[c].last_submission))
                     EXCEPT !.last_submission = NextTimelineValue(c)]]
      /\ before' = [before EXCEPT ![c] = Append(@, known[c])]
      /\ known' = [known EXCEPT ![c] = @ \cup {work}]
      /\ UNCHANGED <<program, fence, refs, followed, done>>

\* The work is submitted behind the deferred waits; its command allocators
\* are released by the fence worker.
Execute(c) ==
  LET work == <<c, Len(before[c]) + 1>>
  IN  /\ Working(c, "execute")
      /\ SubmitWork(c, {work})
      /\ queue' = [queue EXCEPT
           ![c] = [AddItem(NextSubmission(FinalizeWaits(@)),
                           ReleaseItem(work, NextTimelineValue(c)))
                     EXCEPT !.last_submission = NextTimelineValue(c)]]
      /\ before' = [before EXCEPT ![c] = Append(@, known[c])]
      /\ known' = [known EXCEPT ![c] = @ \cup {work}]
      /\ UNCHANGED <<program, fence, refs, followed, done>>

\* Neither the work nor the release of its allocators follows.
ExecuteFails(c) ==
  /\ Working(c, "execute")
  /\ SubmissionFails(c)
  /\ queue' = [queue EXCEPT ![c] = NextSubmission(DropWaits(@))]

\* The thread ends when the GPU has finished the queue's last submission
\* (d3d12_command_queue_wait_idle).
Stops(c) ==
  /\ Working(c, "stop") /\ queue[c].pc = "flushed"
  /\ device_lost \/ Completed(VkQueueOf[c], queue[c].last_submission)
  /\ queue' = [queue EXCEPT ![c].submissions = <<>>, ![c].pc = "ended"]
  /\ UNCHANGED <<program, fence, refs, gpu, history>>

SubmissionThread(c) ==
  \/ WaitSatisfied(c) \/ WaitOnSameVkQueue(c) \/ WaitIsDeferred(c)
  \/ WaitOnCpu(c) \/ CpuWaitReturns(c)
  \/ FlushWaiters(c) \/ FlushFails(c) \/ Signals(c)
  \/ Execute(c) \/ ExecuteFails(c) \/ Stops(c)

\* Faulty variant: the fence worker is stopped with its submission thread.
FreesQueue_WorkerLeft(c) ==
  /\ queue[c].pc = "ended"
  /\ queue' = [queue EXCEPT ![c].pc = "freed"]
  /\ UNCHANGED <<program, fence, refs, gpu, history>>

\* The releasing thread has joined the submission thread, then the fence worker,
\* which ends after its last item.
FreesQueue(c) ==
  /\ queue[c].pc = "ended" /\ queue[c].fence_worker = <<>>
  /\ queue' = [queue EXCEPT ![c].pc = "freed"]
  /\ UNCHANGED <<program, fence, refs, gpu, history>>

-----------------------------------------------------------------------------
(* The fence worker of a command queue, and the GPU.                       *)

NextItem(c, kind) ==
  /\ queue[c].pc # "freed"
  /\ queue[c].fence_worker # <<>> /\ Head(queue[c].fence_worker).kind = kind
  /\ queue' = [queue EXCEPT ![c].fence_worker = Tail(@)]
  /\ UNCHANGED <<program, released, gpu, history>>

EnsuresOrder(c) ==
  LET item == Head(queue[c].fence_worker)
  IN  /\ NextItem(c, "order")
      /\ fence[item.fence].signal_count >= item.update_count
      /\ DecRef(item.fence)
      /\ UNCHANGED fence

SignalsFence(c) ==
  LET item == Head(queue[c].fence_worker)
  IN  /\ NextItem(c, "signal")
      /\ Completed(VkQueueOf[c], item.value)
      /\ fence' = [fence EXCEPT ![item.fence] = Signal(@, item.update_count)]
      /\ DecRef(item.fence)

\* The wait for the GPU fails: the fence is not signalled.
DropsSignal(c) ==
  /\ device_lost
  /\ NextItem(c, "signal")
  /\ DecRef(Head(queue[c].fence_worker).fence)
  /\ UNCHANGED fence

ReleasesSubmission(c) ==
  /\ NextItem(c, "release")
  /\ device_lost \/ Completed(VkQueueOf[c], Head(queue[c].fence_worker).value)
  /\ UNCHANGED <<fence, refcount_internal>>

FenceWorker(c) ==
  EnsuresOrder(c) \/ SignalsFence(c) \/ DropsSignal(c) \/ ReleasesSubmission(c)

\* A VkQueue runs its submissions in order, each when its waits are over.
Gpu(v) ==
  LET s == Head(vk_queue[v].submitted)
  IN  /\ ~device_lost /\ vk_queue[v].submitted # <<>>
      /\ \A w \in s.waits : Completed(w.semaphore, w.value)
      /\ vk_queue' = [vk_queue EXCEPT ![v].submitted = Tail(@),
                                      ![v].completed = s.value]
      /\ done' = done \cup s.work
      /\ UNCHANGED <<program, fence, refs, queue, device_lost, known, followed, before>>

LoseDevice ==
  /\ program.may_lose_device /\ ~device_lost /\ device_lost' = TRUE
  /\ UNCHANGED <<program, fence, refs, queue, vk_queue, history>>

Next ==
  \/ \E c \in Queues : ExecuteCommandLists(c) \/ ReleaseQueue(c)
  \/ \E k \in program.waits_and_signals : QueueWait(k) \/ QueueSignal(k)
  \/ \E f \in Fences : CpuSignalFence(f) \/ Release(f)
  \/ \E c \in Queues : SubmissionThread(c) \/ FenceWorker(c) \/ FreesQueue(c)
  \/ \E v \in VkQueues : Gpu(v)
  \/ LoseDevice

Spec == Init /\ [][Next]_vars

\* Threads are scheduled and the GPU makes progress; the application need not
\* call anything.
FairSpec ==
  /\ Spec
  /\ \A c \in Queues : /\ WF_vars(SubmissionThread(c)) /\ WF_vars(FenceWorker(c))
                       /\ WF_vars(FreesQueue(c))
  /\ \A v \in VkQueues : WF_vars(Gpu(v))

-----------------------------------------------------------------------------
(* Properties.                                                             *)

Works(events) == {e \in events : e[1] \in Queues}

\* The structures of fences, queues and VkQueues keep their shape, and no
\* submission thread has read past the calls it was given.
TypeOK ==
  /\ \A f \in Fences : /\ fence[f].virtual_value \in 0..UINT64_MAX
                       /\ fence[f].signal_count \in 0..fence[f].update_count
                       /\ Len(followed[f]) = fence[f].update_count
  /\ refcount_internal \in [Fences -> Nat] /\ released \subseteq Fences
  /\ \A c \in Queues :
       /\ queue[c].pc \in {"ready", "cpu_wait", "flushed", "ended", "freed"}
       /\ queue[c].last_submission \in
             0..vk_queue[VkQueueOf[c]].submission_timeline_count
       /\ queue[c].pc \in {"cpu_wait", "flushed"} => queue[c].submissions # <<>>
       /\ queue[c].pc \in {"ended", "freed"} => ~queue[c].open
  /\ \A v \in VkQueues : vk_queue[v].completed \in 0..vk_queue[v].submission_timeline_count
  /\ \A w \in done : w[1] \in Queues /\ w[2] \in DOMAIN before[w[1]]

\* D3D12's ordering on the GPU: work runs after everything that precedes it
\* in its queue and after everything the signals it waited for followed
\* (d3d12_command_queue_wait, add_wait, gather_wait_semaphores_locked).
WaitOrdersWork ==
  \A c \in Queues : \A n \in DOMAIN before[c] :
    <<c, n>> \in done => Works(before[c][n]) \subseteq done

\* D3D12's ordering on the CPU: when a fence has taken an update, all work the
\* signal followed is finished, through however many queues
\* (d3d12_command_queue_signal, vkd3d_wait_for_gpu_timeline_semaphore).
SignalledWorkIsDone ==
  \A f \in Fences : \A n \in 1..fence[f].signal_count :
    Works(followed[f][n]) \subseteq done

\* A signal that follows another one, in its queue or through a wait, is not
\* seen before it, although fence workers of different queues apply them
\* (ensure_fence_signal_order, push_fence_waits_to_worker).
SignalsKeepOrder ==
  \A f \in Fences : \A n \in 1..fence[f].signal_count :
    \A e \in followed[f][n] : e[1] \in Fences => e[2] <= fence[e[1]].signal_count

\* What the CPU sees of the queues is whole and in order.
FencesKeepOrder == TypeOK /\ SignalsKeepOrder

\* The updates of a fence are taken in order, and the timeline values they
\* are scheduled at are taken to be in order too (d3d12_fence_signal).
UpdatesTakenWhenReached ==
  [][\A f \in Fences : \A u \in fence[f].pending_updates \ fence'[f].pending_updates :
       Completed(u.vk_semaphore, u.vk_semaphore_value)]_vars

\* No VkQueue is made to wait for a value that is not on its way: an aliased
\* queue could be the one that has to signal it
\* (the reason d3d12_fence_block_until_pending_value_reaches_locked exists).
NoWaitBeforeSignal ==
  \A v \in VkQueues : \A i \in DOMAIN vk_queue[v].submitted :
    \A w \in vk_queue[v].submitted[i].waits :
      w.value <= vk_queue[w.semaphore].submission_timeline_count

\* The calls and the items of the fence worker that hold a reference to fence f.
CallsOn(q, f) ==
  {i \in DOMAIN q.submissions :
     q.submissions[i].type \in {"wait", "signal"} /\ q.submissions[i].fence = f}

ItemsOn(q, f) ==
  {i \in DOMAIN q.fence_worker :
     q.fence_worker[i].kind # "release" /\ q.fence_worker[i].fence = f}

\* Nothing of a queue that was freed reaches a fence.
HoldersInQueue(q, f) ==
  IF q.pc = "freed" THEN {}
  ELSE ({"call"} \X CallsOn(q, f)) \cup ({"wait"} \X WaitsOn(q, f))
         \cup ({"item"} \X ItemsOn(q, f))

Holders(f) == UNION {{c} \X HoldersInQueue(queue[c], f) : c \in Queues}

\* A fence is freed exactly when neither the application, nor a pending call,
\* a deferred wait or a fence worker can still reach it, whether Vulkan calls
\* fail or not, and a command queue that is freed leaves no reference behind
\* (d3d12_fence_inc_ref, d3d12_fence_dec_ref, d3d12_command_queue_finalize_waits,
\* d3d12_command_queue_Release).
RefcountMatchesHolders ==
  \A f \in Fences :
    refcount_internal[f] =
      (IF f \in released THEN 0 ELSE 1) + Cardinality(Holders(f))

\* As long as the device works, the command allocators of submitted work stay
\* referenced until the GPU is through with it
\* (vkd3d_waiting_fence_release_submission).
AllocatorsHeldUntilDone ==
  device_lost \/ \A c \in Queues : \A n \in DOMAIN before[c] :
    \/ <<c, n>> \in done
    \/ \E i \in DOMAIN queue[c].fence_worker :
         /\ queue[c].fence_worker[i].kind = "release"
         /\ queue[c].fence_worker[i].work = <<c, n>>

\* Fence workers that hold back their signals for other workers never wait for
\* each other, and the GPU never hangs on what was submitted to it, also when
\* the application makes its queues wait for one another: as long as the device
\* works, all workers and all VkQueues come to rest together
\* (d3d12_fence_wait_until_signal_count_reaches_locked, d3d12_command_queue_wait).
QueuesDrain ==
  []<>(\/ device_lost
       \/ /\ \A c \in Queues : queue[c].fence_worker = <<>>
          /\ \A v \in VkQueues : vk_queue[v].submitted = <<>>)

\* The submission thread waits for a signal that is not scheduled: nobody has
\* called it, or it waits itself in its queue.
AwaitsSignal(c) == /\ Working(c, "wait") /\ queue[c].pc = "ready"
                   /\ HasTicket(fence[Current(c).fence], Current(c).ticket)
                   /\ MustBlock(fence[Current(c).fence], Current(c).value)

\* The last release of a command queue returns, with all calls carried out and
\* both threads ended, unless a call waits for a signal that does not come
\* (d3d12_command_queue_Release, vkd3d_fence_worker_stop).
ReleaseReturns ==
  []<>(\/ device_lost
       \/ \A c \in Queues :
            queue[c].open \/ queue[c].pc = "freed" \/ AwaitsSignal(c))
=============================================================================
