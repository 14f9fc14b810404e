-------------------------- MODULE SubmissionTimeline --------------------------
(***************************************************************************)
(* Who knows how far a VkQueue has come (libs/vkd3d/command.c,             *)
(* resource.c).  The command queues on one struct vkd3d_queue advance its  *)
(* submission timeline; their fence workers wait for values of it, either  *)
(* directly or, where that is slow, through a VkFence attached to every    *)
(* submission (a fence proxy), and note the value as observed.  A resource *)
(* that the application lets go is freed at once only if every command     *)
(* queue looks idle by that note; else the busy ones retain it.            *)
(***************************************************************************)
EXTENDS Integers, Sequences, FiniteSets, FiniteSetsExt

CONSTANTS
  Queues,       \* the command queues on the VkQueue
  None,         \* nobody
  MaxCalls,     \* bound: calls of the application and submissions of the memory
                \* transfer queue, by type
  MaxTotal,     \* bound: the same, of all types together
  MayTimeOut    \* waits of the fence workers have a time-out (bound: one of
                \* them ends in it)

ASSUME MaxCallsAssumption ==
  MaxCalls \in [{"execute", "signal_shared", "external"} -> Nat]
ASSUME MaxTotalAssumption == MaxTotal \in Nat
ASSUME NoneAssumption == None \notin Queues
ASSUME QueuesAssumption == IsFiniteSet(Queues)
ASSUME MayTimeOutAssumption == MayTimeOut \in BOOLEAN

VARIABLES
  slow,         \* d3d12_device_has_slow_cpu_timeline_semaphores
  calls,        \* how many calls were made, by type
  queue,        \* struct d3d12_command_queue
  worker,       \* struct vkd3d_fence_worker of each command queue
  vkd3d_queue,  \* struct vkd3d_queue: its mutex, its timeline, and the GPU
  proxies,      \* its fence proxies and the observed value (fence_mutex)
  resource,     \* a resource of all queues, and the thread that releases it
  using,        \* history: timeline values of unfinished work that uses it
  timed_out     \* history: some wait ended in a time-out

vars == <<slow, calls, queue, worker, vkd3d_queue, proxies, resource, using, timed_out>>

Init ==
  /\ slow \in BOOLEAN
  /\ calls = [t \in DOMAIN MaxCalls |-> 0]
  /\ queue = [c \in Queues |-> [submissions |-> <<>>, inflight |-> 0, pc |-> "ready",
                                last_submission |-> 0]]
  /\ worker = [c \in Queues |-> [fences |-> <<>>, pc |-> "ready", vk_fence |-> 0]]
  /\ vkd3d_queue = [mutex |-> None, submission_timeline_count |-> 0,
                    submitted |-> 0, completed |-> 0]
  /\ proxies = [submissions |-> {}, vk_fences |-> {}, created |-> 0, observed |-> 0]
  /\ resource = [pc |-> "alive", refcount |-> 1, todo |-> {}, checked |-> None,
                 inflight |-> 0, last_observed |-> 0]
  /\ using = {}
  /\ timed_out = FALSE

-----------------------------------------------------------------------------
(* The application.                                                        *)

\* Faulty variant: calls in flight are not counted.
AddSubmission_NotCounted(q, sub) == [q EXCEPT !.submissions = Append(@, sub)]

AddSubmission(q, sub) ==
  [q EXCEPT !.submissions = Append(@, sub), !.inflight = @ + 1]

Counted(type) ==
  /\ calls[type] < MaxCalls[type]
  /\ MapThenSumSet(LAMBDA t : calls[t], DOMAIN calls) < MaxTotal
  /\ calls' = [calls EXCEPT ![type] = @ + 1]

\* ExecuteCommandLists, or Signal of a shared fence.
Call(c, type) ==
  /\ Counted(type)
  /\ queue' = [queue EXCEPT ![c] =
       AddSubmission(@, [type |-> type,
                         uses |-> type = "execute" /\ resource.pc = "alive"])]
  /\ UNCHANGED <<slow, worker, vkd3d_queue, proxies, resource, using, timed_out>>

\* ID3D12Resource::Release of the last public reference, which reads the
\* observed value first; whatever is called from now on does not count.
ReleaseResource ==
  /\ resource.pc = "alive"
  /\ resource' = [resource EXCEPT !.pc = "scan", !.todo = Queues,
                                  !.last_observed = proxies.observed]
  /\ UNCHANGED <<slow, calls, queue, worker, vkd3d_queue, proxies, using, timed_out>>

ReadsInflight(c) ==
  /\ resource.pc = "scan" /\ c \in resource.todo
  /\ resource' = [resource EXCEPT !.pc = "check", !.todo = @ \ {c}, !.checked = c,
                                  !.inflight = queue[c].inflight]
  /\ UNCHANGED <<slow, calls, queue, worker, vkd3d_queue, proxies, using, timed_out>>

\* Faulty variant: the queue's last submission is all that is looked at.
LooksIdle_TimelineOnly(c) == queue[c].last_submission <= resource.last_observed

LooksIdle(c) ==
  resource.inflight = 0 /\ queue[c].last_submission <= resource.last_observed

\* A queue that does not look idle retains the resource.
ChecksQueue ==
  LET c == resource.checked
      scanned == [resource EXCEPT !.pc = "scan", !.checked = None, !.inflight = 0]
      retained == [type |-> "retain", uses |-> FALSE]
  IN  /\ resource.pc = "check"
      /\ IF LooksIdle(c)
         THEN /\ resource' = scanned
              /\ UNCHANGED queue
         ELSE /\ resource' = [scanned EXCEPT !.refcount = @ + 1]
              /\ queue' = [queue EXCEPT ![c] = AddSubmission(@, retained)]
      /\ UNCHANGED <<slow, calls, worker, vkd3d_queue, proxies, using, timed_out>>

DropsReference ==
  /\ resource.pc = "scan" /\ resource.todo = {}
  /\ resource' = [resource EXCEPT !.pc = "released", !.refcount = @ - 1,
                                  !.last_observed = 0]
  /\ UNCHANGED <<slow, calls, queue, worker, vkd3d_queue, proxies, using, timed_out>>

-----------------------------------------------------------------------------
(* Submissions.                                                            *)

Working(c, types) ==
  queue[c].submissions # <<>> /\ Head(queue[c].submissions).type \in types

\* The submission thread is through with a call, which has a callback for
\* the fence worker.
Done(q) == [q EXCEPT !.submissions = Tail(@), !.pc = "ready", !.inflight = @ - 1]

\* own: the value is that of a submission of the queue itself.
Enqueue(c, kind, value, own) ==
  worker' = [worker EXCEPT ![c].fences =
               Append(@, [kind |-> kind, value |-> value, own |-> own])]

\* vkd3d_queue_acquire, and the next value of the timeline.
BeginsSubmit(c) ==
  /\ Working(c, {"execute", "signal_shared"}) /\ queue[c].pc = "ready"
  /\ vkd3d_queue.mutex = None
  /\ vkd3d_queue' = [vkd3d_queue EXCEPT !.mutex = c, !.submission_timeline_count = @ + 1]
  /\ queue' = [queue EXCEPT ![c].pc = "submitting"]
  /\ UNCHANGED <<slow, calls, worker, proxies, resource, using, timed_out>>

\* Faulty variant: a fence that is taken stays in the pool.
GetOrCreateFence_Kept ==
  IF proxies.vk_fences # {}
  THEN [vk_fence |-> Min(proxies.vk_fences), vk_fences |-> proxies.vk_fences,
        created |-> proxies.created]
  ELSE [vk_fence |-> proxies.created + 1, vk_fences |-> {},
        created |-> proxies.created + 1]

\* vkd3d_queue_get_or_create_fence_locked: a recycled fence if there is
\* one; which of them makes no difference.
GetOrCreateFence ==
  IF proxies.vk_fences # {}
  THEN [vk_fence |-> Min(proxies.vk_fences),
        vk_fences |-> proxies.vk_fences \ {Min(proxies.vk_fences)},
        created |-> proxies.created]
  ELSE [vk_fence |-> proxies.created + 1, vk_fences |-> {},
        created |-> proxies.created + 1]

\* vkd3d_queue_get_signal_fence_proxy_locked.
AddProxy ==
  IF ~slow THEN UNCHANGED proxies
  ELSE LET new == GetOrCreateFence
       IN  proxies' = [proxies EXCEPT
             !.submissions =
                @ \cup {[timeline |-> vkd3d_queue.submission_timeline_count,
                         vk_fence |-> new.vk_fence, existing_waiter |-> FALSE]},
             !.vk_fences = new.vk_fences, !.created = new.created]

\* vkQueueSubmit2 with the proxy, and vkd3d_queue_release.
EndsSubmit(c) ==
  /\ vkd3d_queue.mutex = c
  /\ AddProxy
  /\ vkd3d_queue' = [vkd3d_queue EXCEPT
       !.mutex = None, !.submitted = vkd3d_queue.submission_timeline_count]
  /\ UNCHANGED <<slow, calls, resource, timed_out>>

\* The command allocators are released when the GPU is done.  The counter of
\* calls in flight goes down a little later in the code.
EndsExecute(c) ==
  LET value == vkd3d_queue.submission_timeline_count
  IN  /\ Working(c, {"execute"})
      /\ EndsSubmit(c)
      /\ using' = IF Head(queue[c].submissions).uses THEN using \cup {value} ELSE using
      /\ Enqueue(c, "release_submission", value, TRUE)
      /\ queue' = [queue EXCEPT ![c] = [Done(@) EXCEPT !.last_submission = value]]

EndsSignalShared(c) ==
  /\ Working(c, {"signal_shared"})
  /\ EndsSubmit(c)
  /\ queue' = [queue EXCEPT
       ![c].pc = "submitted",
       ![c].last_submission = vkd3d_queue.submission_timeline_count]
  /\ UNCHANGED <<worker, using>>

\* The shared fence is released when the GPU has come to where the timeline
\* is now; the mutex is no longer held.
ReleasesSharedFence(c) ==
  LET value == vkd3d_queue.submission_timeline_count
  IN  /\ queue[c].pc = "submitted"
      /\ Enqueue(c, "release_fence", value, value = queue[c].last_submission)
      /\ queue' = [queue EXCEPT ![c] = Done(@)]
      /\ UNCHANGED <<slow, calls, vkd3d_queue, proxies, resource, using, timed_out>>

\* d3d12_command_queue_defer_release_resource.
RetainsResource(c) ==
  /\ Working(c, {"retain"})
  /\ Enqueue(c, "release_resource", queue[c].last_submission, TRUE)
  /\ queue' = [queue EXCEPT ![c] = Done(@)]
  /\ UNCHANGED <<slow, calls, vkd3d_queue, proxies, resource, using, timed_out>>

SubmissionThread(c) ==
  \/ BeginsSubmit(c) \/ EndsExecute(c) \/ EndsSignalShared(c)
  \/ ReleasesSharedFence(c) \/ RetainsResource(c)

\* The memory transfer queue submits to the VkQueue too, without a proxy.
ExternalSubmit ==
  /\ vkd3d_queue.mutex = None
  /\ Counted("external")
  /\ vkd3d_queue' = [vkd3d_queue EXCEPT
       !.submission_timeline_count = @ + 1, !.submitted = @ + 1]
  /\ UNCHANGED <<slow, queue, worker, proxies, resource, using, timed_out>>

Gpu ==
  /\ vkd3d_queue.completed < vkd3d_queue.submitted
  /\ vkd3d_queue' = [vkd3d_queue EXCEPT !.completed = @ + 1]
  /\ using' = using \ {vkd3d_queue'.completed}
  /\ UNCHANGED <<slow, calls, queue, worker, proxies, resource, timed_out>>

-----------------------------------------------------------------------------
(* Fence workers.                                                          *)

Waiting(c) == Head(worker[c].fences)

\* The callback of the head of the worker's queue; none of them asks whether
\* the wait succeeded.
Completes(c) ==
  /\ worker' = [worker EXCEPT ![c].fences = Tail(@), ![c].pc = "ready"]
  /\ resource' = IF Waiting(c).kind = "release_resource"
                 THEN [resource EXCEPT !.refcount = @ - 1] ELSE resource

\* vkWaitSemaphores, and vkd3d_queue_update_observed_cpu_timeline.
WaitsForSemaphore(c) ==
  /\ ~slow /\ worker[c].fences # <<>>
  /\ vkd3d_queue.completed >= Waiting(c).value
  /\ Completes(c)
  /\ proxies' = [proxies EXCEPT !.observed = Max({@, Waiting(c).value})]
  /\ UNCHANGED <<slow, calls, queue, vkd3d_queue, using, timed_out>>

SemaphoreTimesOut(c) ==
  /\ MayTimeOut /\ ~timed_out /\ ~slow /\ worker[c].fences # <<>>
  /\ vkd3d_queue.completed < Waiting(c).value
  /\ Completes(c)
  /\ timed_out' = TRUE
  /\ UNCHANGED <<slow, calls, queue, vkd3d_queue, proxies, using>>

Pending(value) == {s \in proxies.submissions : s.timeline = value}

\* Faulty variant: a proxy is obsolete although somebody waits on its fence.
Obsolete_Waited(p) == {s \in p.submissions : s.timeline <= p.observed}

\* Faulty variant: the proxy of the next submission goes as well.
Obsolete_OffByOne(p) ==
  {s \in p.submissions : ~s.existing_waiter /\ s.timeline <= p.observed + 1}

Obsolete(p) ==
  {s \in p.submissions : ~s.existing_waiter /\ s.timeline <= p.observed}

Recycle(p, gone) ==
  [p EXCEPT !.submissions = @ \ gone, !.vk_fences = @ \cup {s.vk_fence : s \in gone}]

CollectGarbage == proxies' = Recycle(proxies, Obsolete(proxies))

\* The loop of vkd3d_queue_wait_submission_timeline, with fence_mutex.
Iterating(c) == slow /\ worker[c].fences # <<>> /\ worker[c].pc = "ready"

SeesObserved(c) ==
  /\ Iterating(c) /\ Waiting(c).value <= proxies.observed
  /\ CollectGarbage
  /\ Completes(c)
  /\ UNCHANGED <<slow, calls, queue, vkd3d_queue, using, timed_out>>

\* vkWaitForFences on the proxy, without the mutex.
WaitsForProxy(c) ==
  /\ Iterating(c) /\ Waiting(c).value > proxies.observed
  /\ \E s \in Pending(Waiting(c).value) :
       /\ ~s.existing_waiter
       /\ proxies' = [proxies EXCEPT !.submissions =
                        (@ \ {s}) \cup {[s EXCEPT !.existing_waiter = TRUE]}]
       /\ worker' = [worker EXCEPT ![c].pc = "waiting", ![c].vk_fence = s.vk_fence]
  /\ UNCHANGED <<slow, calls, queue, vkd3d_queue, resource, using, timed_out>>

\* Another fence worker waits on it already.
JoinsWaiter(c) ==
  /\ Iterating(c) /\ Waiting(c).value > proxies.observed
  /\ \E s \in Pending(Waiting(c).value) : s.existing_waiter
  /\ worker' = [worker EXCEPT ![c].pc = "asleep"]
  /\ UNCHANGED <<slow, calls, queue, vkd3d_queue, proxies, resource, using, timed_out>>

\* Faulty variant: sleepers are not woken.
Broadcast_Nobody(w) == w

\* Everybody on fence_cond is woken.
Broadcast(w) ==
  [c \in Queues |-> [w[c] EXCEPT !.pc = IF @ = "asleep" THEN "ready" ELSE @]]

\* Faulty variant: all that was submitted is taken to be done.
ObservedAfter_Count(value) == vkd3d_queue.submission_timeline_count

ObservedAfter(value) == Max({proxies.observed, value})

\* The fence is signalled: the proxy is done with.
ProxyReached(c) ==
  /\ worker[c].pc = "waiting" /\ vkd3d_queue.completed >= Waiting(c).value
  /\ proxies' = Recycle([proxies EXCEPT !.observed = ObservedAfter(Waiting(c).value)],
                        Pending(Waiting(c).value))
  /\ worker' = Broadcast([worker EXCEPT ![c].pc = "ready", ![c].vk_fence = 0])
  /\ UNCHANGED <<slow, calls, queue, vkd3d_queue, resource, using, timed_out>>

\* The proxy stays for others, unless it is obsolete.
ProxyTimesOut(c) ==
  LET others == {s \in proxies.submissions : s.timeline # Waiting(c).value}
      left   == {[s EXCEPT !.existing_waiter = FALSE] : s \in Pending(Waiting(c).value)}
      kept   == [proxies EXCEPT !.submissions = others \cup left]
  IN  /\ MayTimeOut /\ ~timed_out /\ worker[c].pc = "waiting"
      /\ vkd3d_queue.completed < Waiting(c).value
      /\ proxies' = Recycle(kept, Obsolete(kept))
      /\ worker' = Broadcast([worker EXCEPT ![c].fences = Tail(@), ![c].pc = "ready",
                                            ![c].vk_fence = 0])
      /\ resource' = IF Waiting(c).kind = "release_resource"
                     THEN [resource EXCEPT !.refcount = @ - 1] ELSE resource
      /\ timed_out' = TRUE
      /\ UNCHANGED <<slow, calls, queue, vkd3d_queue, using>>

FenceWorker(c) ==
  \/ WaitsForSemaphore(c) \/ SemaphoreTimesOut(c)
  \/ SeesObserved(c) \/ WaitsForProxy(c) \/ JoinsWaiter(c)
  \/ ProxyReached(c) \/ ProxyTimesOut(c)

Next ==
  \/ \E c \in Queues : \/ Call(c, "execute") \/ Call(c, "signal_shared")
                       \/ ReadsInflight(c) \/ SubmissionThread(c) \/ FenceWorker(c)
  \/ ReleaseResource \/ ChecksQueue \/ DropsReference
  \/ ExternalSubmit \/ Gpu

Spec == Init /\ [][Next]_vars

-----------------------------------------------------------------------------
(* Properties.                                                             *)

\* The structures keep their shape, and the counter of calls in flight
\* (inflight_submissions) stays a counter.
TypeOK ==
  /\ slow \in BOOLEAN /\ timed_out \in BOOLEAN
  /\ \A c \in Queues :
       /\ queue[c].inflight \in Nat
       /\ queue[c].pc \in {"ready", "submitting", "submitted"}
       /\ queue[c].last_submission \in 0..vkd3d_queue.submission_timeline_count
       /\ worker[c].pc \in {"ready", "waiting", "asleep"}
  /\ vkd3d_queue.mutex \in Queues \cup {None}
  /\ vkd3d_queue.completed \in 0..vkd3d_queue.submitted
  /\ proxies.observed \in 0..vkd3d_queue.submission_timeline_count
  /\ proxies.vk_fences \subseteq 1..proxies.created
  /\ resource.refcount \in Nat /\ resource.last_observed \in 0..proxies.observed

\* A resource is freed only when all work that was called before its release
\* is done, although idleness is judged by values read one after the other
\* without a common lock (d3d12_device_add_queue_timeline_deferred_decref);
\* a wait that timed out means that the device is lost.
ResourceOutlivesWork ==
  resource.refcount = 0 /\ ~timed_out =>
    /\ \A c \in Queues : \A i \in DOMAIN queue[c].submissions :
         ~queue[c].submissions[i].uses
    /\ using = {}

\* What assert(submission) claims of waits for a queue's own submissions:
\* whoever is about to wait finds the proxy, unless the value is observed
\* (vkd3d_queue_wait_submission_timeline_iterate_locked).
OwnWaitsHaveProxies ==
  \A c \in Queues :
    Iterating(c) /\ Waiting(c).own /\ Waiting(c).value > proxies.observed =>
      Pending(Waiting(c).value) # {}

\* The same of every wait.
SubmissionFound ==
  \A c \in Queues :
    Iterating(c) /\ Waiting(c).value > proxies.observed => Pending(Waiting(c).value) # {}

\* existing_waiter is set exactly while one worker waits on the very fence of
\* the proxy: it is not recycled under the worker, which finds it again with
\* the second assert(submission).
WaiterMarksItsProxy ==
  /\ \A c \in Queues : worker[c].pc = "waiting" =>
       [timeline |-> Waiting(c).value, vk_fence |-> worker[c].vk_fence,
        existing_waiter |-> TRUE] \in proxies.submissions
  /\ \A s \in proxies.submissions : s.existing_waiter =>
       \E c \in Queues : worker[c].pc = "waiting" /\ worker[c].vk_fence = s.vk_fence
  /\ \A c, d \in Queues : worker[c].pc = "waiting" /\ worker[d].pc = "waiting" /\ c # d =>
       worker[c].vk_fence # worker[d].vk_fence

\* A worker that sleeps on fence_cond has another one waiting on its behalf,
\* which will wake it (vkd3d_queue_wait_submission_timeline_iterate_locked).
SleepersAreCovered ==
  \A c \in Queues : worker[c].pc = "asleep" =>
    /\ Waiting(c).value > proxies.observed
    /\ \E d \in Queues : worker[d].pc = "waiting" /\ Waiting(d).value = Waiting(c).value

\* A VkFence belongs to one pending submission or to the pool, never to both
\* and never to two: it is reset only after its signal.
FencesHaveOneUse ==
  /\ \A s, t \in proxies.submissions : s.vk_fence = t.vk_fence => s = t
  /\ \A s \in proxies.submissions : s.vk_fence \notin proxies.vk_fences

\* The submission that a proxy is made for was neither observed nor given a
\* proxy before: "Should not happen" holds (get_signal_fence_proxy_locked).
TimelineIsFresh ==
  vkd3d_queue.mutex # None =>
    /\ proxies.observed < vkd3d_queue.submission_timeline_count
    /\ Pending(vkd3d_queue.submission_timeline_count) = {}

\* The proxies serve who waits on them: the one that is needed is there, it is
\* marked by its waiter, and its VkFence has one use at a time.
ProxiesAreRight == TypeOK /\ OwnWaitsHaveProxies /\ WaiterMarksItsProxy /\ FencesHaveOneUse
=============================================================================
