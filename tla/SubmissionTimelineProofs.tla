------------------------ MODULE SubmissionTimelineProofs ------------------------
(***************************************************************************)
(* Proofs about the timeline of a VkQueue, its fence proxies and the        *)
(* deferred release, for any number of command queues and calls.            *)
(***************************************************************************)
EXTENDS SubmissionTimeline, FiniteSetTheorems, TLAPS

-----------------------------------------------------------------------------
(* Data.                                                                   *)

(* A bounded, non-empty set of natural numbers has a largest and a least   *)
(* element.  (The intervals x..N are finite sets; a minimal one of them,   *)
(* under strict inclusion, belongs to the largest x.)                      *)

LEMMA MaxOfBounded ==
  ASSUME NEW N \in Nat, NEW S \in SUBSET (0..N), S # {}
  PROVE  Max(S) \in S /\ \A y \in S : y <= Max(S)
<1> DEFINE T == {x..N : x \in S}
<1>1. \A x \in S : x \in 0..N /\ x..N \in SUBSET Nat /\ IsFiniteSet(x..N)
  <2> TAKE x \in S
  <2>1. x \in 0..N
    OBVIOUS
  <2>2. IsFiniteSet(x..N)
    BY <2>1, FS_Interval
  <2> QED BY <2>1, <2>2
<1>2. T \subseteq FiniteSubsetsOf(Nat)
  BY <1>1, Zenon DEF FiniteSubsetsOf
<1>3. T # {}
  OBVIOUS
<1> HIDE DEF T
<1>4. PICK t \in T : \A u \in T : ~(<<u, t>> \in StrictSubsetOrdering(Nat))
  BY <1>2, <1>3, FS_StrictSubsetOrderingWellFounded, WFMin, Zenon
<1>5. PICK x \in S : t = x..N
  BY <1>4, Zenon DEF T
<1>6. \A y \in S : y <= x
  <2> SUFFICES ASSUME NEW y \in S, ~(y <= x) PROVE FALSE
    OBVIOUS
  <2>1. x < y /\ x \in 0..N /\ y \in 0..N
    BY <1>1
  <2>2. y..N \subseteq x..N /\ x \in x..N /\ x \notin y..N
    BY <2>1
  <2>3. y..N \in SUBSET Nat /\ x..N \in SUBSET Nat
    BY <1>1, Zenon
  <2>4. <<y..N, x..N>> \in StrictSubsetOrdering(Nat)
    BY <2>2, <2>3 DEF StrictSubsetOrdering
  <2>5. y..N \in T
    BY Zenon DEF T
  <2> QED BY <1>4, <1>5, <2>4, <2>5, Zenon
<1>7. \A y \in S : x >= y
  BY <1>1, <1>6
<1>8. Max(S) \in S /\ \A y \in S : Max(S) >= y
  BY <1>7 DEF Max
<1> QED BY <1>8, <1>1

LEMMA LeastOfBounded ==
  ASSUME NEW N \in Nat, NEW S \in SUBSET (0..N), S # {}
  PROVE  \E x \in S : \A y \in S : x <= y
<1> DEFINE M == {N - x : x \in S}
<1>1. M \in SUBSET (0..N) /\ M # {}
  <2>1. ASSUME NEW x \in S PROVE N - x \in 0..N
    OBVIOUS
  <2>2. PICK x : x \in S
    OBVIOUS
  <2>3. N - x \in M
    BY <2>2
  <2> QED BY <2>1, <2>3, Zenon
<1>2. Max(M) \in M /\ \A y \in M : y <= Max(M)
  BY <1>1, MaxOfBounded
<1>3. PICK x \in S : Max(M) = N - x
  BY <1>2
<1>4. \A y \in S : x <= y
  <2> TAKE y \in S
  <2>1. N - y <= N - x
    BY <1>2, <1>3
  <2> QED BY <2>1
<1> QED BY <1>4

LEMMA MinOfBounded ==
  ASSUME NEW N \in Nat, NEW S \in SUBSET (0..N), S # {}
  PROVE  Min(S) \in S
<1>1. PICK x \in S : \A y \in S : x <= y
  BY LeastOfBounded
<1> QED BY <1>1 DEF Min

LEMMA MaxOfTwo ==
  ASSUME NEW a \in Int, NEW b \in Int
  PROVE  Max({a, b}) = IF a >= b THEN a ELSE b
<1> DEFINE m == IF a >= b THEN a ELSE b
<1>1. m \in {a, b} /\ (\A y \in {a, b} : m >= y)
  OBVIOUS
<1>2. \A x \in {a, b} : (\A y \in {a, b} : x >= y) => x = m
  OBVIOUS
<1> HIDE DEF m
<1>3. Max({a, b}) = m
  BY <1>1, <1>2 DEF Max
<1> QED BY <1>3 DEF m


Submission == [type : {"execute", "signal_shared", "retain"}, uses : BOOLEAN]
Wait == [kind : {"release_submission", "release_fence", "release_resource"},
         value : Nat, own : BOOLEAN]
Proxy == [timeline : Nat, vk_fence : Nat, existing_waiter : BOOLEAN]

QueueRecord ==
  [submissions : Seq(Submission), inflight : Int,
   pc : {"ready", "submitting", "submitted"}, last_submission : Nat]
WorkerRecord ==
  [fences : Seq(Wait), pc : {"ready", "waiting", "asleep"}, vk_fence : Nat]
TimelineRecord ==
  [mutex : Queues \cup {None}, submission_timeline_count : Nat, submitted : Nat,
   completed : Nat]
ProxiesRecord ==
  [submissions : SUBSET Proxy, vk_fences : SUBSET Nat, created : Nat, observed : Nat]
ResourceRecord ==
  [pc : {"alive", "scan", "check", "released"}, refcount : Int, todo : SUBSET Queues,
   checked : Queues \cup {None}, inflight : Int, last_observed : Nat]

Shape ==
  /\ slow \in BOOLEAN /\ timed_out \in BOOLEAN
  /\ queue \in [Queues -> QueueRecord]
  /\ worker \in [Queues -> WorkerRecord]
  /\ vkd3d_queue \in TimelineRecord
  /\ proxies \in ProxiesRecord /\ proxies.vk_fences \subseteq 1..proxies.created
  /\ resource \in ResourceRecord
  /\ using \subseteq Nat

Count == vkd3d_queue.submission_timeline_count

\* One submission at a time is between its value and the VkQueue, and what was
\* observed is behind what the GPU has completed.
TimelineInv ==
  /\ Count = vkd3d_queue.submitted + (IF vkd3d_queue.mutex = None THEN 0 ELSE 1)
  /\ proxies.observed <= vkd3d_queue.completed
  /\ vkd3d_queue.completed <= vkd3d_queue.submitted
  /\ resource.last_observed <= proxies.observed
  /\ \A v \in using : vkd3d_queue.completed < v /\ v <= vkd3d_queue.submitted

\* The mutex belongs to the queue that submits; the atomic counter of a queue
\* is the length of its FIFO.
QueueInv(c) ==
  /\ queue[c].pc = "submitting" <=> vkd3d_queue.mutex = c
  /\ queue[c].pc = "submitting" => Working(c, {"execute", "signal_shared"})
  /\ queue[c].pc = "submitted" => Working(c, {"signal_shared"})
  /\ queue[c].inflight = Len(queue[c].submissions)
  /\ queue[c].last_submission <= vkd3d_queue.submitted

\* Timeline values and VkFences name one proxy each, and the marked proxies and
\* the workers that wait on a VkFence are one to one.
ProxyInv ==
  /\ ~slow => proxies.submissions = {} /\ \A c \in Queues : worker[c].pc = "ready"
  /\ \A s \in proxies.submissions :
       /\ s.timeline <= vkd3d_queue.submitted
       /\ s.vk_fence \in 1..proxies.created /\ s.vk_fence \notin proxies.vk_fences
       /\ s.existing_waiter =>
            \E c \in Queues : worker[c].pc = "waiting" /\ worker[c].vk_fence = s.vk_fence
  /\ \A s, t \in proxies.submissions :
       s.timeline = t.timeline \/ s.vk_fence = t.vk_fence => s = t
  /\ \A c \in Queues : worker[c].pc # "ready" => worker[c].fences # <<>>
  /\ \A c \in Queues : worker[c].pc = "waiting" =>
       [timeline |-> Waiting(c).value, vk_fence |-> worker[c].vk_fence,
        existing_waiter |-> TRUE] \in proxies.submissions
  /\ \A c, d \in Queues : worker[c].pc = "waiting" /\ worker[d].pc = "waiting" /\ c # d =>
       worker[c].vk_fence # worker[d].vk_fence

HasProxy(value) == slow /\ value > proxies.observed => Pending(value) # {}

\* What a queue submitted itself has a proxy until it is observed: a worker that
\* waits for it finds one.
OwnInv ==
  \A c \in Queues :
    /\ HasProxy(queue[c].last_submission)
    /\ \A i \in DOMAIN worker[c].fences : worker[c].fences[i].own => HasProxy(worker[c].fences[i].value)

RetainAt(c, i) == queue[c].submissions[i].type = "retain"
ReleaseAt(c, i) == worker[c].fences[i].kind = "release_resource"
Retains(c) == \E i \in DOMAIN queue[c].submissions : RetainAt(c, i)
Releases(c) == \E i \in DOMAIN worker[c].fences : ReleaseAt(c, i)
Holders == {c \in Queues : Retains(c) \/ Releases(c)}
Unread(c) == resource.pc = "alive" \/ c \in resource.todo

\* The reference count is the number of queues that hold the resource, each with
\* one item; queues that were not read yet hold nothing.
HoldInv ==
  /\ resource.refcount = Cardinality(Holders) + (IF resource.pc = "released" THEN 0 ELSE 1)
  /\ resource.pc \in {"alive", "released"} => resource.todo = {}
  /\ resource.pc = "check" => resource.checked \in Queues \ (resource.todo \cup Holders)
  /\ \A c \in Holders : ~Unread(c)
  /\ \A c \in Queues :
       /\ ~(Retains(c) /\ Releases(c))
       /\ \A i, j \in DOMAIN queue[c].submissions : RetainAt(c, i) /\ RetainAt(c, j) => i = j
       /\ \A i, j \in DOMAIN worker[c].fences : ReleaseAt(c, i) /\ ReleaseAt(c, j) => i = j

\* A submission in the FIFO that uses the resource is still to be counted, was
\* counted, or has a retain item behind it.
UsesInv(c) ==
  \A i \in DOMAIN queue[c].submissions : queue[c].submissions[i].uses =>
    \/ Unread(c)
    \/ resource.pc = "check" /\ resource.checked = c /\ resource.inflight # 0
    \/ \E j \in DOMAIN queue[c].submissions : i < j /\ RetainAt(c, j)

\* Queue c accounts for the submission with value v: it is still to be read, holds
\* the resource in its FIFO, or has a worker that releases it at v or later.
Covers(c, v) ==
  /\ v <= queue[c].last_submission
  /\ \/ Unread(c)
     \/ resource.pc = "check" /\ resource.checked = c
     \/ Retains(c)
     \/ \E i \in DOMAIN worker[c].fences : ReleaseAt(c, i) /\ v <= worker[c].fences[i].value

\* Submissions that the GPU still executes are accounted for by some queue.
UsingInv == ~timed_out => \A v \in using : \E c \in Queues : Covers(c, v)

IInv ==
  /\ Shape /\ TimelineInv /\ (\A c \in Queues : QueueInv(c)) /\ ProxyInv /\ OwnInv
  /\ SleepersAreCovered /\ HoldInv /\ (\A c \in Queues : UsesInv(c)) /\ UsingInv

-----------------------------------------------------------------------------

LEMMA GetOrCreateFenceType ==
  ASSUME Shape
  PROVE  LET new == GetOrCreateFence IN
         /\ new.vk_fences = proxies.vk_fences \ {new.vk_fence}
         /\ \/ new.vk_fence \in proxies.vk_fences /\ new.created = proxies.created
            \/ /\ new.vk_fence = proxies.created + 1 /\ new.created = proxies.created + 1
               /\ proxies.vk_fences = {}
<1>1. proxies.created \in Nat /\ proxies.vk_fences \in SUBSET (0..proxies.created)
  BY DEF Shape, ProxiesRecord
<1>2. proxies.vk_fences # {} => Min(proxies.vk_fences) \in proxies.vk_fences
  BY <1>1, MinOfBounded
<1> QED BY <1>1, <1>2 DEF GetOrCreateFence

LEMMA SeqTypes ==
  ASSUME NEW T, NEW s \in Seq(T)
  PROVE  /\ \A e \in T : Append(s, e) \in Seq(T)
         /\ s # <<>> => Tail(s) \in Seq(T) /\ Head(s) \in T
OBVIOUS

LEMMA DoneType ==
  ASSUME NEW q \in QueueRecord, q.submissions # <<>>
  PROVE  Done(q) \in QueueRecord
<1>1. q.submissions \in Seq(Submission) /\ q.inflight \in Int
  BY DEF QueueRecord
<1>2. Tail(q.submissions) \in Seq(Submission) /\ q.inflight - 1 \in Int
  BY <1>1, SeqTypes
<1>3. [q EXCEPT !.submissions = Tail(@)] \in QueueRecord
  BY <1>2 DEF QueueRecord
<1>4. [[q EXCEPT !.submissions = Tail(@)] EXCEPT !.pc = "ready"] \in QueueRecord
  BY <1>3, Zenon DEF QueueRecord
<1> QED BY <1>2, <1>4 DEF Done, QueueRecord

LEMMA AddSubmissionType ==
  ASSUME NEW q \in QueueRecord, NEW s \in Submission
  PROVE  AddSubmission(q, s) \in QueueRecord
<1>1. q.submissions \in Seq(Submission) /\ q.inflight \in Int
  BY DEF QueueRecord
<1>2. Append(q.submissions, s) \in Seq(Submission) /\ q.inflight + 1 \in Int
  BY <1>1, SeqTypes
<1> QED BY <1>2 DEF AddSubmission, QueueRecord

\* What a worker waits for is well-formed.
LEMMA WaitingType ==
  ASSUME Shape, NEW c \in Queues, worker[c].fences # <<>>
  PROVE  /\ Waiting(c) \in Wait
         /\ [worker EXCEPT ![c].fences = Tail(@), ![c].pc = "ready"] \in [Queues -> WorkerRecord]
<1>1. worker[c] \in WorkerRecord /\ worker[c].fences \in Seq(Wait)
  BY DEF Shape, WorkerRecord
<1>2. Tail(worker[c].fences) \in Seq(Wait) /\ Waiting(c) \in Wait
  BY <1>1, SeqTypes DEF Waiting
<1>3. [[worker[c] EXCEPT !.fences = Tail(@)] EXCEPT !.pc = "ready"] \in WorkerRecord
  BY <1>1, <1>2 DEF WorkerRecord
<1> QED BY <1>2, <1>3 DEF Shape

LEMMA BroadcastType ==
  ASSUME NEW w \in [Queues -> WorkerRecord]
  PROVE  Broadcast(w) \in [Queues -> WorkerRecord]
BY DEF Broadcast, WorkerRecord

LEMMA RecycleType ==
  ASSUME NEW p \in ProxiesRecord, NEW gone \in SUBSET p.submissions
  PROVE  Recycle(p, gone) \in ProxiesRecord
<1>1. p.submissions \ gone \in SUBSET Proxy
  BY DEF ProxiesRecord
<1>2. p.vk_fences \cup {s.vk_fence : s \in gone} \in SUBSET Nat
  BY DEF ProxiesRecord, Proxy
<1> QED BY <1>1, <1>2 DEF Recycle, ProxiesRecord

\* Obsolete proxies and those of one value are proxies.
LEMMA SubsetsOfProxies ==
  /\ \A value : Pending(value) \subseteq proxies.submissions
  /\ \A p : Obsolete(p) \subseteq p.submissions
BY DEF Pending, Obsolete

LEMMA QueueTypeStep ==
  ASSUME Shape, NEW c \in Queues, QueueInv(c),
         SubmissionThread(c) \/ Call(c, "execute") \/ Call(c, "signal_shared") \/ ChecksQueue
  PROVE  queue' \in [Queues -> QueueRecord]
<1> USE DEF Shape
<1>1. queue[c] \in QueueRecord
  OBVIOUS
<1>2. ASSUME NEW type \in {"execute", "signal_shared"}, Call(c, type)
      PROVE  queue' \in [Queues -> QueueRecord]
  <2>1. [type |-> type, uses |-> type = "execute" /\ resource.pc = "alive"] \in Submission
    BY DEF Submission
  <2> QED BY <1>1, <1>2, <2>1, AddSubmissionType DEF Call
<1>3. ASSUME ChecksQueue PROVE queue' \in [Queues -> QueueRecord]
  <2>1. [type |-> "retain", uses |-> FALSE] \in Submission
    BY DEF Submission
  <2>2. \A q \in QueueRecord : AddSubmission(q, [type |-> "retain", uses |-> FALSE]) \in QueueRecord
    BY <2>1, AddSubmissionType
  <2> QED BY <1>3, <2>2 DEF ChecksQueue
<1>4. CASE BeginsSubmit(c) \/ EndsSignalShared(c)
  <2>1. vkd3d_queue.submission_timeline_count \in Nat
    BY DEF TimelineRecord
  <2>2. \A q \in QueueRecord :
          /\ [q EXCEPT !.pc = "submitting"] \in QueueRecord
          /\ [[q EXCEPT !.pc = "submitted"]
               EXCEPT !.last_submission = vkd3d_queue.submission_timeline_count] \in QueueRecord
    BY <2>1 DEF QueueRecord
  <2> QED BY <1>1, <1>4, <2>2, Zenon DEF BeginsSubmit, EndsSignalShared
<1>5. CASE EndsExecute(c) \/ ReleasesSharedFence(c) \/ RetainsResource(c)
  <2>1. queue[c].submissions # <<>>
    BY <1>5 DEF EndsExecute, ReleasesSharedFence, RetainsResource, Working, QueueInv
  <2>2. Done(queue[c]) \in QueueRecord
    BY <1>1, <2>1, DoneType
  <2>3. [Done(queue[c]) EXCEPT !.last_submission = vkd3d_queue.submission_timeline_count]
          \in QueueRecord
    BY <2>2 DEF QueueRecord, TimelineRecord
  <2> QED BY <1>5, <2>2, <2>3, Zenon DEF EndsExecute, ReleasesSharedFence, RetainsResource
<1> QED BY <1>2, <1>3, <1>4, <1>5 DEF SubmissionThread

LEMMA EnqueueType ==
  ASSUME Shape, NEW c \in Queues, NEW kind \in {"release_submission", "release_fence", "release_resource"},
         NEW value \in Nat, NEW own \in BOOLEAN, Enqueue(c, kind, value, own)
  PROVE  worker' \in [Queues -> WorkerRecord]
<1>1. [kind |-> kind, value |-> value, own |-> own] \in Wait
  BY DEF Wait
<1>2. worker[c] \in WorkerRecord /\ worker[c].fences \in Seq(Wait)
  BY DEF Shape, WorkerRecord
<1>3. Append(worker[c].fences, [kind |-> kind, value |-> value, own |-> own]) \in Seq(Wait)
  BY <1>1, <1>2, SeqTypes
<1> QED BY <1>2, <1>3 DEF Enqueue, Shape, WorkerRecord

LEMMA WorkerTypeStep ==
  ASSUME Shape, ProxyInv, NEW c \in Queues, SubmissionThread(c) \/ FenceWorker(c)
  PROVE  worker' \in [Queues -> WorkerRecord]
<1> USE DEF Shape
<1>1. worker[c] \in WorkerRecord /\ queue[c] \in QueueRecord
  OBVIOUS
<1>2. /\ vkd3d_queue.submission_timeline_count \in Nat
      /\ queue[c].last_submission \in Nat
  BY <1>1 DEF TimelineRecord, QueueRecord
<1>3. CASE EndsExecute(c) \/ ReleasesSharedFence(c) \/ RetainsResource(c)
  <2>1. (vkd3d_queue.submission_timeline_count = queue[c].last_submission) \in BOOLEAN
    OBVIOUS
  <2> QED BY <1>2, <1>3, <2>1, EnqueueType, Zenon DEF EndsExecute, ReleasesSharedFence, RetainsResource
<1>4. CASE BeginsSubmit(c) \/ EndsSignalShared(c)
  BY <1>4 DEF BeginsSubmit, EndsSignalShared
<1>5. CASE Completes(c) /\ worker[c].fences # <<>>
  BY <1>5, WaitingType, Zenon DEF Completes
<1>6. CASE WaitsForProxy(c)
  <2>1. \A s \in proxies.submissions : s.vk_fence \in Nat
    BY DEF ProxiesRecord, Proxy
  <2>2. PICK s \in Pending(Waiting(c).value) :
          worker' = [worker EXCEPT ![c].pc = "waiting", ![c].vk_fence = s.vk_fence]
    BY <1>6 DEF WaitsForProxy
  <2>3. s.vk_fence \in Nat
    BY <2>1, SubsetsOfProxies
  <2>4. [[worker[c] EXCEPT !.pc = "waiting"] EXCEPT !.vk_fence = s.vk_fence] \in WorkerRecord
    BY <1>1, <2>3 DEF WorkerRecord
  <2> QED BY <2>2, <2>4
<1>7. CASE JoinsWaiter(c)
  BY <1>7 DEF JoinsWaiter, WorkerRecord
<1>8. CASE ProxyReached(c)
  <2>1. [[worker[c] EXCEPT !.pc = "ready"] EXCEPT !.vk_fence = 0] \in WorkerRecord
    BY <1>1 DEF WorkerRecord
  <2>2. [worker EXCEPT ![c].pc = "ready", ![c].vk_fence = 0] \in [Queues -> WorkerRecord]
    BY <2>1
  <2> QED BY <1>8, <2>2, BroadcastType, Zenon DEF ProxyReached
<1>9. CASE ProxyTimesOut(c)
  <2>1. worker[c].fences # <<>>
    BY <1>9 DEF ProxyTimesOut, ProxyInv
  <2>2. Tail(worker[c].fences) \in Seq(Wait)
    BY <2>1, SeqTypes DEF WorkerRecord
  <2>3. [[[worker[c] EXCEPT !.fences = Tail(worker[c].fences)] EXCEPT !.pc = "ready"]
          EXCEPT !.vk_fence = 0] \in WorkerRecord
    BY <1>1, <2>2 DEF WorkerRecord
  <2>4. [worker EXCEPT ![c].fences = Tail(@), ![c].pc = "ready", ![c].vk_fence = 0]
          \in [Queues -> WorkerRecord]
    BY <2>3
  <2> QED BY <1>9, <2>4, BroadcastType, Zenon DEF ProxyTimesOut
<1>10. CASE WaitsForSemaphore(c) \/ SemaphoreTimesOut(c) \/ SeesObserved(c)
  BY <1>5, <1>10 DEF WaitsForSemaphore, SemaphoreTimesOut, SeesObserved, Iterating
<1> QED BY <1>3, <1>4, <1>6, <1>7, <1>8, <1>9, <1>10 DEF SubmissionThread, FenceWorker

LEMMA ResourceTypeStep ==
  ASSUME Shape, ProxyInv, Next
  PROVE  resource' \in ResourceRecord
<1> USE DEF Shape, ResourceRecord
<1>1. resource \in ResourceRecord /\ proxies.observed \in Nat
  BY DEF ProxiesRecord
<1>2. CASE ReleaseResource \/ DropsReference \/ ChecksQueue
  <2>1. resource.refcount + 1 \in Int /\ resource.refcount - 1 \in Int
    OBVIOUS
  <2>2. CASE ReleaseResource
    BY <1>1, <2>2 DEF ReleaseResource
  <2>3. CASE DropsReference
    BY <1>1, <2>1, <2>3 DEF DropsReference
  <2>4. CASE ChecksQueue
    <3> DEFINE scanned == [resource EXCEPT !.pc = "scan", !.checked = None, !.inflight = 0]
    <3>b. \A r \in ResourceRecord : [r EXCEPT !.pc = "scan"] \in ResourceRecord
      OBVIOUS
    <3>c. \A r \in ResourceRecord : [r EXCEPT !.checked = None] \in ResourceRecord
      OBVIOUS
    <3>d. \A r \in ResourceRecord : [r EXCEPT !.inflight = 0] \in ResourceRecord
      OBVIOUS
    <3>e. scanned = [[[resource EXCEPT !.pc = "scan"] EXCEPT !.checked = None] EXCEPT !.inflight = 0]
      BY Zenon
    <3>1. scanned \in ResourceRecord
      BY <1>1, <3>b, <3>c, <3>d, <3>e, Zenon
    <3>a. scanned.refcount = resource.refcount
      BY <1>1
    <3>2. resource' \in {scanned, [scanned EXCEPT !.refcount = @ + 1]}
      BY <2>4 DEF ChecksQueue
    <3> HIDE DEF scanned
    <3> QED BY <2>1, <3>1, <3>2
  <2> QED BY <1>2, <2>2, <2>3, <2>4
<1>3. ASSUME NEW c \in Queues, ReadsInflight(c) PROVE resource' \in ResourceRecord
  <2>1. queue[c].inflight \in Int
    BY DEF QueueRecord
  <2> QED BY <1>3, <2>1 DEF ReadsInflight
<1>4. ASSUME NEW c \in Queues, FenceWorker(c) PROVE resource' \in ResourceRecord
  <2>1. resource' \in {resource, [resource EXCEPT !.refcount = @ - 1]}
    BY <1>4 DEF FenceWorker, Completes, WaitsForSemaphore, SemaphoreTimesOut, SeesObserved,
                WaitsForProxy, JoinsWaiter, ProxyReached, ProxyTimesOut
  <2> QED BY <2>1
<1>5. ASSUME NEW c \in Queues, SubmissionThread(c) \/ Call(c, "execute") \/ Call(c, "signal_shared")
      PROVE  resource' \in ResourceRecord
  BY <1>5 DEF SubmissionThread, BeginsSubmit, EndsExecute, EndsSignalShared, EndsSubmit,
              ReleasesSharedFence, RetainsResource, Call
<1> QED BY <1>2, <1>3, <1>4, <1>5 DEF Next, ExternalSubmit, Gpu

\* The proxies with what a worker has recycled.
RightProxies(p) ==
  /\ p \in ProxiesRecord /\ p.vk_fences \subseteq 1..p.created
  /\ \A s \in p.submissions : s.vk_fence \in 1..p.created

LEMMA RecycleRight ==
  ASSUME NEW p, RightProxies(p), NEW gone \in SUBSET p.submissions
  PROVE  RightProxies(Recycle(p, gone))
<1>1. Recycle(p, gone) \in ProxiesRecord
  BY RecycleType DEF RightProxies
<1>2. /\ Recycle(p, gone).created = p.created
      /\ Recycle(p, gone).submissions = p.submissions \ gone
      /\ Recycle(p, gone).vk_fences = p.vk_fences \cup {s.vk_fence : s \in gone}
  BY DEF Recycle, RightProxies, ProxiesRecord
<1> QED BY <1>1, <1>2 DEF RightProxies

LEMMA ProxiesTypeStep ==
  ASSUME IInv, Next
  PROVE  RightProxies(proxies')
<1>1. RightProxies(proxies)
  BY DEF IInv, Shape, ProxyInv, RightProxies
<1>2. proxies.observed \in Nat /\ Count \in Nat /\ proxies.created \in Nat
  BY DEF IInv, Shape, ProxiesRecord, TimelineRecord, Count
<1>3. ASSUME NEW v \in Nat PROVE RightProxies([proxies EXCEPT !.observed = Max({@, v})])
  <2>1. Max({proxies.observed, v}) \in Nat
    BY <1>2 DEF Max
  <2> QED BY <1>1, <2>1 DEF RightProxies, ProxiesRecord
<1>4. ASSUME NEW c \in Queues, EndsSubmit(c) PROVE RightProxies(proxies')
  <2>1. CASE ~slow
    BY <1>1, <1>4, <2>1 DEF EndsSubmit, AddProxy
  <2>2. CASE slow
    <3> DEFINE new == GetOrCreateFence
               s == [timeline |-> Count, vk_fence |-> new.vk_fence, existing_waiter |-> FALSE]
    <3>1. /\ new.vk_fences \subseteq proxies.vk_fences
          /\ new.created \in Nat /\ proxies.created <= new.created
          /\ new.vk_fence \in 1..new.created
      BY <1>1, <1>2, GetOrCreateFenceType DEF IInv, RightProxies
    <3>2. proxies' = [proxies EXCEPT !.submissions = @ \cup {s}, !.vk_fences = new.vk_fences,
                                     !.created = new.created]
      BY <1>4, <2>2, Zenon DEF EndsSubmit, AddProxy, Count
    <3>3. s \in Proxy /\ s.vk_fence = new.vk_fence
      BY <1>2, <3>1 DEF Proxy
    <3> HIDE DEF s, new
    <3>4. /\ proxies'.submissions = proxies.submissions \cup {s}
          /\ proxies'.vk_fences = new.vk_fences /\ proxies'.created = new.created
          /\ proxies' \in ProxiesRecord
      BY <1>1, <3>1, <3>2, <3>3 DEF RightProxies, ProxiesRecord
    <3> QED BY <1>1, <1>2, <3>1, <3>3, <3>4 DEF RightProxies
  <2> QED BY <2>1, <2>2 DEF IInv, Shape
<1>5. ASSUME NEW c \in Queues, WaitsForSemaphore(c) PROVE RightProxies(proxies')
  <2>1. Waiting(c).value \in Nat
    BY <1>5, WaitingType DEF WaitsForSemaphore, IInv, Wait
  <2> QED BY <1>3, <1>5, <2>1, Zenon DEF WaitsForSemaphore
<1>6. ASSUME NEW c \in Queues, SeesObserved(c) PROVE RightProxies(proxies')
  BY <1>1, <1>6, RecycleRight, SubsetsOfProxies, Zenon DEF SeesObserved, CollectGarbage
<1>7. ASSUME NEW c \in Queues, WaitsForProxy(c) PROVE RightProxies(proxies')
  <2>1. PICK s \in proxies.submissions :
          proxies' = [proxies EXCEPT !.submissions =
                        (@ \ {s}) \cup {[s EXCEPT !.existing_waiter = TRUE]}]
    BY <1>7, SubsetsOfProxies DEF WaitsForProxy
  <2>2. [s EXCEPT !.existing_waiter = TRUE] \in Proxy
        /\ [s EXCEPT !.existing_waiter = TRUE].vk_fence = s.vk_fence
    BY <1>1 DEF RightProxies, ProxiesRecord, Proxy
  <2> QED BY <1>1, <2>1, <2>2 DEF RightProxies, ProxiesRecord
<1>8. ASSUME NEW c \in Queues, ProxyReached(c) PROVE RightProxies(proxies')
  <2>1. Waiting(c).value \in Nat
    BY <1>8, WaitingType DEF ProxyReached, IInv, ProxyInv, Wait
  <2> DEFINE p == [proxies EXCEPT !.observed = ObservedAfter(Waiting(c).value)]
  <2>2. RightProxies(p)
    BY <1>3, <2>1 DEF ObservedAfter
  <2>3. p.submissions = proxies.submissions
    BY <1>1 DEF RightProxies, ProxiesRecord
  <2>4. proxies' = Recycle(p, Pending(Waiting(c).value))
    BY <1>8 DEF ProxyReached
  <2> HIDE DEF p
  <2> QED BY <2>2, <2>3, <2>4, RecycleRight, SubsetsOfProxies
<1>9. ASSUME NEW c \in Queues, ProxyTimesOut(c) PROVE RightProxies(proxies')
  <2> DEFINE left == {[s EXCEPT !.existing_waiter = FALSE] : s \in Pending(Waiting(c).value)}
             others == {s \in proxies.submissions : s.timeline # Waiting(c).value}
             kept == [proxies EXCEPT !.submissions = others \cup left]
  <2>1. proxies.submissions \subseteq Proxy /\ DOMAIN proxies = {"submissions", "vk_fences", "created", "observed"}
    BY <1>1 DEF RightProxies, ProxiesRecord
  <2>2. \A s \in left : s \in Proxy /\ s.vk_fence \in 1..proxies.created
    <3> SUFFICES ASSUME NEW s \in proxies.submissions
                 PROVE  LET t == [s EXCEPT !.existing_waiter = FALSE] IN
                        t \in Proxy /\ t.vk_fence \in 1..proxies.created
      BY SubsetsOfProxies
    <3> QED BY <1>1, <2>1 DEF Proxy, RightProxies
  <2>3. others \subseteq proxies.submissions
    OBVIOUS
  <2> HIDE DEF left, others
  <2>4. kept.submissions = others \cup left /\ kept.vk_fences = proxies.vk_fences
        /\ kept.created = proxies.created /\ kept \in ProxiesRecord
    BY <1>1, <2>1, <2>2, <2>3 DEF RightProxies, ProxiesRecord
  <2>5. RightProxies(kept)
    BY <1>1, <2>2, <2>3, <2>4 DEF RightProxies
  <2>6. proxies' = Recycle(kept, Obsolete(kept))
    BY <1>9 DEF ProxyTimesOut, left, others
  <2> HIDE DEF kept
  <2> QED BY <2>5, <2>6, RecycleRight, SubsetsOfProxies
<1>10. ASSUME UNCHANGED proxies PROVE RightProxies(proxies')
  BY <1>1, <1>10
<1>11. ASSUME NEW c \in Queues, SubmissionThread(c) PROVE RightProxies(proxies')
  BY <1>4, <1>10, <1>11 DEF SubmissionThread, EndsExecute, EndsSignalShared, BeginsSubmit,
                            ReleasesSharedFence, RetainsResource
<1>12. ASSUME NEW c \in Queues, FenceWorker(c) PROVE RightProxies(proxies')
  BY <1>5, <1>6, <1>7, <1>8, <1>9, <1>10, <1>12 DEF FenceWorker, JoinsWaiter, SemaphoreTimesOut
<1> QED BY <1>10, <1>11, <1>12
        DEF Next, Call, ReadsInflight, ReleaseResource, ChecksQueue, DropsReference,
            ExternalSubmit, Gpu

\* How far the workers have seen the GPU come.
LEMMA ObservedStep ==
  ASSUME IInv, Next
  PROVE  /\ proxies.observed <= proxies'.observed
         /\ \/ proxies'.observed = proxies.observed
            \/ /\ proxies'.observed <= vkd3d_queue.completed
               /\ UNCHANGED <<vkd3d_queue, using, queue>>
<1>1. proxies \in ProxiesRecord /\ proxies.observed \in Nat /\ vkd3d_queue.completed \in Nat
  BY DEF IInv, Shape, ProxiesRecord, TimelineRecord
<1>2. ASSUME proxies'.observed = proxies.observed
      PROVE  proxies.observed <= proxies'.observed
  BY <1>1, <1>2
<1>3. ASSUME NEW c \in Queues, worker[c].fences # <<>>, vkd3d_queue.completed >= Waiting(c).value
      PROVE  LET m == Max({proxies.observed, Waiting(c).value}) IN
             proxies.observed <= m /\ m <= vkd3d_queue.completed
  <2>1. Waiting(c).value \in Nat
    BY <1>3, WaitingType DEF IInv, Wait
  <2> QED BY <1>1, <1>3, <2>1, MaxOfTwo DEF IInv, TimelineInv
<1>4. ASSUME NEW c \in Queues, WaitsForSemaphore(c)
      PROVE  /\ proxies.observed <= proxies'.observed
             /\ proxies'.observed <= vkd3d_queue.completed
             /\ UNCHANGED <<vkd3d_queue, using, queue>>
  BY <1>1, <1>3, <1>4 DEF WaitsForSemaphore, ProxiesRecord
<1>5. ASSUME NEW c \in Queues, ProxyReached(c)
      PROVE  /\ proxies.observed <= proxies'.observed
             /\ proxies'.observed <= vkd3d_queue.completed
             /\ UNCHANGED <<vkd3d_queue, using, queue>>
  <2>1. worker[c].fences # <<>>
    BY <1>5 DEF ProxyReached, IInv, ProxyInv
  <2> QED BY <1>1, <1>3, <1>5, <2>1 DEF ProxyReached, Recycle, ObservedAfter, ProxiesRecord
<1>6. ASSUME NEW c \in Queues, EndsSubmit(c) PROVE proxies'.observed = proxies.observed
  BY <1>1, <1>6 DEF EndsSubmit, AddProxy, ProxiesRecord
<1>7. ASSUME NEW c \in Queues, SeesObserved(c) \/ WaitsForProxy(c) \/ ProxyTimesOut(c)
      PROVE  proxies'.observed = proxies.observed
  BY <1>1, <1>7 DEF SeesObserved, CollectGarbage, WaitsForProxy, ProxyTimesOut, Recycle, ProxiesRecord
<1>8. ASSUME NEW c \in Queues, SubmissionThread(c) PROVE proxies'.observed = proxies.observed
  BY <1>6, <1>8 DEF SubmissionThread, BeginsSubmit, EndsExecute, EndsSignalShared,
                    ReleasesSharedFence, RetainsResource
<1>9. ASSUME NEW c \in Queues, FenceWorker(c)
      PROVE  \/ proxies'.observed = proxies.observed
             \/ WaitsForSemaphore(c) \/ ProxyReached(c)
  BY <1>7, <1>9 DEF FenceWorker, SemaphoreTimesOut, JoinsWaiter
<1>10. \/ proxies'.observed = proxies.observed
       \/ \E c \in Queues : WaitsForSemaphore(c) \/ ProxyReached(c)
  BY <1>8, <1>9 DEF Next, Call, ReadsInflight, ReleaseResource, ChecksQueue, DropsReference,
                    ExternalSubmit, Gpu
<1> QED BY <1>2, <1>4, <1>5, <1>10

\* What happens to the timeline and to the work that uses the resource.
LEMMA TimelineEffects ==
  ASSUME IInv, Next
  PROVE  \/ UNCHANGED <<vkd3d_queue, using>>
         \/ /\ UNCHANGED using /\ vkd3d_queue.mutex = None
            /\ \E c \in Queues : vkd3d_queue' =
                 [vkd3d_queue EXCEPT !.mutex = c, !.submission_timeline_count = @ + 1]
         \/ /\ using' \in {using, using \cup {Count}} /\ vkd3d_queue.mutex # None
            /\ vkd3d_queue' = [vkd3d_queue EXCEPT !.mutex = None, !.submitted = Count]
         \/ /\ UNCHANGED using /\ vkd3d_queue.mutex = None
            /\ vkd3d_queue' = [vkd3d_queue EXCEPT !.submission_timeline_count = @ + 1,
                                                  !.submitted = @ + 1]
         \/ /\ using' = using \ {vkd3d_queue.completed + 1}
            /\ vkd3d_queue.completed < vkd3d_queue.submitted
            /\ vkd3d_queue' = [vkd3d_queue EXCEPT !.completed = @ + 1]
<1>1. ASSUME NEW c \in Queues, FenceWorker(c) PROVE UNCHANGED <<vkd3d_queue, using>>
  BY <1>1 DEF FenceWorker, WaitsForSemaphore, SemaphoreTimesOut, SeesObserved, WaitsForProxy,
              JoinsWaiter, ProxyReached, ProxyTimesOut
<1>2. ASSUME NEW c \in Queues, EndsExecute(c) \/ EndsSignalShared(c)
      PROVE  /\ using' \in {using, using \cup {Count}} /\ vkd3d_queue.mutex # None
             /\ vkd3d_queue' = [vkd3d_queue EXCEPT !.mutex = None, !.submitted = Count]
  BY <1>2, NoneAssumption DEF EndsExecute, EndsSignalShared, EndsSubmit, Count
<1>3. ASSUME Gpu
      PROVE  /\ using' = using \ {vkd3d_queue.completed + 1}
             /\ vkd3d_queue.completed < vkd3d_queue.submitted
             /\ vkd3d_queue' = [vkd3d_queue EXCEPT !.completed = @ + 1]
  BY <1>3 DEF Gpu, IInv, Shape, TimelineRecord
<1>4. ASSUME NEW c \in Queues, BeginsSubmit(c)
      PROVE  /\ UNCHANGED using /\ vkd3d_queue.mutex = None
             /\ vkd3d_queue' =
                  [vkd3d_queue EXCEPT !.mutex = c, !.submission_timeline_count = @ + 1]
  BY <1>4 DEF BeginsSubmit
<1>5. ASSUME NEW c \in Queues, ReleasesSharedFence(c) \/ RetainsResource(c)
      PROVE  UNCHANGED <<vkd3d_queue, using>>
  BY <1>5 DEF ReleasesSharedFence, RetainsResource
<1>6. ASSUME ExternalSubmit
      PROVE  /\ UNCHANGED using /\ vkd3d_queue.mutex = None
             /\ vkd3d_queue' = [vkd3d_queue EXCEPT !.submission_timeline_count = @ + 1,
                                                   !.submitted = @ + 1]
  BY <1>6 DEF ExternalSubmit
<1> HIDE DEF IInv
<1> QED BY <1>1, <1>2, <1>3, <1>4, <1>5, <1>6
        DEF Next, SubmissionThread, Call, ReadsInflight, ReleaseResource, ChecksQueue,
            DropsReference

LEMMA TimelineTypeStep ==
  ASSUME IInv, Next
  PROVE  vkd3d_queue' \in TimelineRecord /\ using' \subseteq Nat
<1> USE DEF TimelineRecord, Count
<1>1. vkd3d_queue \in TimelineRecord /\ using \subseteq Nat
  BY DEF IInv, Shape
<1>2. /\ Count \in Nat /\ vkd3d_queue.submission_timeline_count + 1 \in Nat
      /\ vkd3d_queue.submitted + 1 \in Nat /\ vkd3d_queue.completed + 1 \in Nat
  BY <1>1
<1> QED BY <1>1, <1>2, TimelineEffects

LEMMA LastObservedStep ==
  ASSUME IInv, Next
  PROVE  resource'.last_observed \in {0, proxies.observed, resource.last_observed}
<1>1. resource \in ResourceRecord
  BY DEF IInv, Shape
<1> USE DEF ResourceRecord
<1>2. ASSUME NEW c \in Queues, FenceWorker(c)
      PROVE  resource'.last_observed = resource.last_observed
  BY <1>1, <1>2 DEF FenceWorker, Completes, WaitsForSemaphore, SemaphoreTimesOut, SeesObserved,
                    WaitsForProxy, JoinsWaiter, ProxyReached, ProxyTimesOut
<1>3. ASSUME NEW c \in Queues, SubmissionThread(c) \/ ReadsInflight(c)
      PROVE  resource'.last_observed = resource.last_observed
  BY <1>1, <1>3 DEF SubmissionThread, BeginsSubmit, EndsExecute, EndsSignalShared, EndsSubmit,
                    ReleasesSharedFence, RetainsResource, ReadsInflight
<1>4. ASSUME ChecksQueue \/ ReleaseResource \/ DropsReference
      PROVE  resource'.last_observed \in {0, proxies.observed, resource.last_observed}
  BY <1>1, <1>4 DEF ChecksQueue, ReleaseResource, DropsReference
<1> QED BY <1>2, <1>3, <1>4 DEF Next, Call, ExternalSubmit, Gpu

LEMMA TimelineStep ==
  ASSUME IInv, Next
  PROVE  TimelineInv'
<1>1. /\ vkd3d_queue \in TimelineRecord /\ vkd3d_queue' \in TimelineRecord
      /\ using \subseteq Nat /\ proxies.observed \in Nat /\ proxies'.observed \in Nat
      /\ resource.last_observed \in Nat
  BY TimelineTypeStep, ProxiesTypeStep DEF IInv, Shape, RightProxies, ProxiesRecord, ResourceRecord
<1>2. /\ vkd3d_queue.submission_timeline_count \in Nat /\ vkd3d_queue.submitted \in Nat
      /\ vkd3d_queue.completed \in Nat
  BY <1>1 DEF TimelineRecord
<1>3. /\ Count = vkd3d_queue.submitted + (IF vkd3d_queue.mutex = None THEN 0 ELSE 1)
      /\ vkd3d_queue.completed <= vkd3d_queue.submitted
      /\ \A v \in using : vkd3d_queue.completed < v /\ v <= vkd3d_queue.submitted
  BY DEF IInv, TimelineInv
<1>4. /\ Count' = vkd3d_queue'.submitted + (IF vkd3d_queue'.mutex = None THEN 0 ELSE 1)
      /\ vkd3d_queue'.completed <= vkd3d_queue'.submitted
      /\ vkd3d_queue.completed <= vkd3d_queue'.completed
      /\ \A v \in using' : vkd3d_queue'.completed < v /\ v <= vkd3d_queue'.submitted
  <2> DEFINE Goal ==
        /\ Count' = vkd3d_queue'.submitted + (IF vkd3d_queue'.mutex = None THEN 0 ELSE 1)
        /\ vkd3d_queue'.completed <= vkd3d_queue'.submitted
        /\ vkd3d_queue.completed <= vkd3d_queue'.completed
        /\ \A v \in using' : vkd3d_queue'.completed < v /\ v <= vkd3d_queue'.submitted
  <2> SUFFICES Goal
    OBVIOUS
  <2>1. CASE UNCHANGED <<vkd3d_queue, using>>
    BY <1>2, <1>3, <2>1 DEF Count
  <2>2. CASE /\ UNCHANGED using /\ vkd3d_queue.mutex = None
             /\ \E c \in Queues : vkd3d_queue' =
                  [vkd3d_queue EXCEPT !.mutex = c, !.submission_timeline_count = @ + 1]
    BY <1>1, <1>2, <1>3, <2>2, NoneAssumption DEF TimelineRecord, Count
  <2>3. CASE /\ using' \in {using, using \cup {Count}} /\ vkd3d_queue.mutex # None
             /\ vkd3d_queue' = [vkd3d_queue EXCEPT !.mutex = None, !.submitted = Count]
    BY <1>1, <1>2, <1>3, <2>3 DEF TimelineRecord, Count
  <2>4. CASE /\ UNCHANGED using /\ vkd3d_queue.mutex = None
             /\ vkd3d_queue' = [vkd3d_queue EXCEPT !.submission_timeline_count = @ + 1,
                                                  !.submitted = @ + 1]
    <3>1. /\ vkd3d_queue'.submitted = vkd3d_queue.submitted + 1
          /\ Count' = Count + 1 /\ vkd3d_queue'.mutex = vkd3d_queue.mutex
          /\ vkd3d_queue'.completed = vkd3d_queue.completed
      BY <1>1, <2>4 DEF TimelineRecord, Count
    <3> QED BY <1>1, <1>2, <1>3, <2>4, <3>1 DEF Count
  <2>5. CASE /\ using' = using \ {vkd3d_queue.completed + 1}
             /\ vkd3d_queue.completed < vkd3d_queue.submitted
             /\ vkd3d_queue' = [vkd3d_queue EXCEPT !.completed = @ + 1]
    BY <1>1, <1>2, <1>3, <2>5 DEF TimelineRecord, Count
  <2> QED BY <2>1, <2>2, <2>3, <2>4, <2>5, TimelineEffects
<1>5. resource'.last_observed <= proxies'.observed
  BY <1>1, LastObservedStep, ObservedStep DEF IInv, TimelineInv
<1>6. proxies'.observed <= vkd3d_queue'.completed
  BY <1>1, <1>2, <1>4, ObservedStep DEF IInv, TimelineInv, TimelineRecord
<1> QED BY <1>4, <1>5, <1>6 DEF TimelineInv

-----------------------------------------------------------------------------
(* Command queues.                                                         *)

\* Calls in other queues, and fence workers, leave a queue alone.
LEMMA OtherQueues ==
  ASSUME IInv, Next
  PROVE  \/ \E c \in Queues : SubmissionThread(c) \/ Call(c, "execute") \/ Call(c, "signal_shared")
         \/ ChecksQueue
         \/ UNCHANGED queue /\ vkd3d_queue'.mutex = vkd3d_queue.mutex
            /\ vkd3d_queue.submitted <= vkd3d_queue'.submitted
<1>1. /\ vkd3d_queue \in TimelineRecord /\ vkd3d_queue.submitted \in Nat
      /\ vkd3d_queue.completed \in Nat
  BY DEF IInv, Shape, TimelineRecord
<1>2. ASSUME ExternalSubmit \/ Gpu
      PROVE  /\ UNCHANGED queue /\ vkd3d_queue'.mutex = vkd3d_queue.mutex
             /\ vkd3d_queue.submitted <= vkd3d_queue'.submitted
  <2>1. CASE ExternalSubmit
    <3>1. UNCHANGED queue /\ vkd3d_queue'.mutex = vkd3d_queue.mutex
          /\ vkd3d_queue'.submitted = vkd3d_queue.submitted + 1
      BY <1>1, <2>1 DEF ExternalSubmit, TimelineRecord
    <3> QED BY <1>1, <3>1
  <2>2. CASE Gpu
    <3>1. UNCHANGED queue /\ vkd3d_queue'.mutex = vkd3d_queue.mutex
          /\ vkd3d_queue'.submitted = vkd3d_queue.submitted
      BY <1>1, <2>2 DEF Gpu, TimelineRecord
    <3> QED BY <1>1, <3>1
  <2> QED BY <1>2, <2>1, <2>2
<1>3. ASSUME UNCHANGED vkd3d_queue
      PROVE  /\ vkd3d_queue'.mutex = vkd3d_queue.mutex
             /\ vkd3d_queue.submitted <= vkd3d_queue'.submitted
  BY <1>1, <1>3
<1>4. ASSUME NEW c \in Queues, FenceWorker(c) PROVE UNCHANGED <<queue, vkd3d_queue>>
  BY <1>4 DEF FenceWorker, WaitsForSemaphore, SemaphoreTimesOut, SeesObserved, WaitsForProxy,
              JoinsWaiter, ProxyReached, ProxyTimesOut
<1> QED BY <1>2, <1>3, <1>4 DEF Next, ReadsInflight, ReleaseResource, DropsReference

\* A call that is added changes nothing of the others.
LEMMA AddedCall ==
  ASSUME NEW q \in QueueRecord, NEW s \in Submission
  PROVE  LET r == AddSubmission(q, s) IN
         /\ r.submissions \in Seq(Submission) /\ r.pc = q.pc
         /\ r.last_submission = q.last_submission /\ r.inflight = q.inflight + 1
         /\ Len(r.submissions) = Len(q.submissions) + 1
         /\ DOMAIN r.submissions = 1..Len(q.submissions) + 1
         /\ DOMAIN q.submissions = 1..Len(q.submissions) /\ Len(q.submissions) \in Nat
         /\ \A i \in 1..Len(q.submissions) : r.submissions[i] = q.submissions[i]
         /\ r.submissions[Len(q.submissions) + 1] = s
         /\ q.submissions # <<>> => r.submissions # <<>> /\ Head(r.submissions) = Head(q.submissions)
<1>1. q.submissions \in Seq(Submission)
  BY DEF QueueRecord
<1>2. Append(q.submissions, s) \in Seq(Submission)
  BY <1>1, SeqTypes
<1>3. LET r == AddSubmission(q, s) IN
      /\ r.submissions = Append(q.submissions, s) /\ r.pc = q.pc
      /\ r.last_submission = q.last_submission /\ r.inflight = q.inflight + 1
  BY DEF AddSubmission, QueueRecord
<1> QED BY <1>1, <1>2, <1>3, SMTT(30)

\* One that is done with leaves the others behind.
LEMMA DoneCall ==
  ASSUME NEW q \in QueueRecord, q.submissions # <<>>
  PROVE  LET r == Done(q) IN
         /\ r.submissions \in Seq(Submission) /\ r.pc = "ready"
         /\ r.last_submission = q.last_submission /\ r.inflight = q.inflight - 1
         /\ Len(r.submissions) = Len(q.submissions) - 1
         /\ DOMAIN r.submissions = 1..Len(q.submissions) - 1
         /\ DOMAIN q.submissions = 1..Len(q.submissions) /\ Len(q.submissions) \in Nat \ {0}
         /\ \A i \in 1..Len(q.submissions) - 1 : r.submissions[i] = q.submissions[i + 1]
         /\ Head(q.submissions) = q.submissions[1]
<1>1. q.submissions \in Seq(Submission)
  BY DEF QueueRecord
<1>2. Tail(q.submissions) \in Seq(Submission)
  BY <1>1, SeqTypes
<1>3. LET r == Done(q) IN
      /\ r.submissions = Tail(q.submissions) /\ r.pc = "ready"
      /\ r.last_submission = q.last_submission /\ r.inflight = q.inflight - 1
  BY DEF Done, QueueRecord
<1> QED BY <1>1, <1>2, <1>3

\* What the steps of a queue's submission thread do to it.
LEMMA ThreadEffects ==
  ASSUME IInv, NEW c \in Queues, SubmissionThread(c)
  PROVE  /\ \A d \in Queues \ {c} : queue'[d] = queue[d]
         /\ \/ /\ queue'[c] = [queue[c] EXCEPT !.pc = "submitting"] /\ queue[c].pc = "ready"
               /\ Working(c, {"execute", "signal_shared"})
               /\ vkd3d_queue.mutex = None /\ vkd3d_queue'.mutex = c
               /\ vkd3d_queue'.submitted = vkd3d_queue.submitted
               /\ UNCHANGED <<worker, proxies, using>>
            \/ /\ queue'[c] = [Done(queue[c]) EXCEPT !.last_submission = Count]
               /\ Working(c, {"execute"})
               /\ vkd3d_queue.mutex = c /\ vkd3d_queue'.mutex = None
               /\ vkd3d_queue'.submitted = Count
               /\ Enqueue(c, "release_submission", Count, TRUE)
               /\ AddProxy
               /\ using' = IF Head(queue[c].submissions).uses THEN using \cup {Count} ELSE using
            \/ /\ queue'[c] = [[queue[c] EXCEPT !.pc = "submitted"] EXCEPT !.last_submission = Count]
               /\ Working(c, {"signal_shared"})
               /\ vkd3d_queue.mutex = c /\ vkd3d_queue'.mutex = None
               /\ vkd3d_queue'.submitted = Count
               /\ AddProxy
               /\ UNCHANGED <<worker, using>>
            \/ /\ queue'[c] = Done(queue[c]) /\ queue[c].pc = "submitted"
               /\ Working(c, {"signal_shared"})
               /\ Enqueue(c, "release_fence", Count, Count = queue[c].last_submission)
               /\ UNCHANGED <<vkd3d_queue, proxies, using>>
            \/ /\ queue'[c] = Done(queue[c]) /\ queue[c].pc # "submitting"
               /\ Working(c, {"retain"})
               /\ Enqueue(c, "release_resource", queue[c].last_submission, TRUE)
               /\ UNCHANGED <<vkd3d_queue, proxies, using>>
         /\ UNCHANGED <<slow, resource, timed_out>>
<1>1. DOMAIN queue = Queues /\ vkd3d_queue \in TimelineRecord /\ QueueInv(c)
  BY DEF IInv, Shape
<1>2. CASE BeginsSubmit(c)
  BY <1>1, <1>2 DEF BeginsSubmit, TimelineRecord
<1>3. CASE EndsExecute(c)
  BY <1>1, <1>3 DEF EndsExecute, EndsSubmit, TimelineRecord, Count
<1>4. CASE EndsSignalShared(c)
  BY <1>1, <1>4 DEF EndsSignalShared, EndsSubmit, TimelineRecord, Count
<1>5. CASE ReleasesSharedFence(c)
  BY <1>1, <1>5 DEF ReleasesSharedFence, QueueInv, Count
<1>6. CASE RetainsResource(c)
  BY <1>1, <1>6 DEF RetainsResource, QueueInv, Working
<1> QED BY <1>2, <1>3, <1>4, <1>5, <1>6 DEF SubmissionThread

\* A call is added to one queue.
LEMMA CallEffects ==
  ASSUME IInv, NEW c \in Queues, NEW type \in {"execute", "signal_shared"}, Call(c, type)
  PROVE  /\ \A d \in Queues \ {c} : queue'[d] = queue[d]
         /\ queue'[c] = AddSubmission(queue[c], [type |-> type,
                                       uses |-> type = "execute" /\ resource.pc = "alive"])
         /\ UNCHANGED <<slow, worker, vkd3d_queue, proxies, resource, using, timed_out>>
BY DEF Call, IInv, Shape

\* What the release of the resource does to the queues.
LEMMA ChecksEffects ==
  ASSUME IInv, ChecksQueue
  PROVE  LET c == resource.checked
             retained == [type |-> "retain", uses |-> FALSE]
         IN  /\ c \in Queues /\ c \notin resource.todo /\ c \notin Holders
             /\ retained \in Submission
             /\ resource.pc = "check" /\ resource'.pc = "scan"
             /\ resource'.todo = resource.todo
             /\ resource'.last_observed = resource.last_observed
             /\ \/ LooksIdle(c) /\ UNCHANGED queue /\ resource'.refcount = resource.refcount
                \/ /\ ~LooksIdle(c) /\ resource'.refcount = resource.refcount + 1
                   /\ queue'[c] = AddSubmission(queue[c], retained)
                   /\ \A d \in Queues \ {c} : queue'[d] = queue[d]
             /\ UNCHANGED <<slow, worker, vkd3d_queue, proxies, using, timed_out>>
<1>1. resource.checked \in Queues \ (resource.todo \cup Holders)
  BY DEF ChecksQueue, IInv, HoldInv
<1>2. DOMAIN queue = Queues /\ resource \in ResourceRecord
  BY DEF IInv, Shape
<1>3. [type |-> "retain", uses |-> FALSE] \in Submission
  BY DEF Submission
<1> HIDE DEF IInv
<1> QED BY <1>1, <1>2, <1>3 DEF ChecksQueue, ResourceRecord

LEMMA QueueStep ==
  ASSUME IInv, Next, NEW d \in Queues
  PROVE  QueueInv(d)'
<1>1. /\ \A c \in Queues : queue[c] \in QueueRecord /\ QueueInv(c)
      /\ \A c \in Queues : queue[c].submissions \in Seq(Submission)
      /\ \A c \in Queues : queue[c].inflight \in Int /\ queue[c].last_submission \in Nat
      /\ vkd3d_queue.submitted \in Nat /\ Count \in Nat /\ vkd3d_queue.submitted <= Count
  BY DEF IInv, Shape, QueueRecord, TimelineRecord, TimelineInv, Count
<1>2. ASSUME queue'[d] = queue[d], vkd3d_queue'.mutex = d <=> vkd3d_queue.mutex = d,
             vkd3d_queue.submitted <= vkd3d_queue'.submitted, vkd3d_queue'.submitted \in Nat
      PROVE  QueueInv(d)'
  BY <1>1, <1>2 DEF QueueInv, Working
<1>3. vkd3d_queue'.submitted \in Nat
  BY TimelineTypeStep DEF TimelineRecord
<1>4. ASSUME NEW s \in Submission, queue'[d] = AddSubmission(queue[d], s), UNCHANGED vkd3d_queue
      PROVE  QueueInv(d)'
  <2>1. Working(d, {"execute", "signal_shared"}) => Working(d, {"execute", "signal_shared"})'
    BY <1>1, <1>4, AddedCall DEF Working
  <2>2. Working(d, {"signal_shared"}) => Working(d, {"signal_shared"})'
    BY <1>1, <1>4, AddedCall DEF Working
  <2> QED BY <1>1, <1>4, <2>1, <2>2, AddedCall, SMTT(30) DEF QueueInv
<1>5. ASSUME NEW c \in Queues, SubmissionThread(c) PROVE QueueInv(d)'
  <2> HIDE DEF IInv
  <2>1. CASE d # c
    <3>1. queue'[d] = queue[d]
      BY <1>5, <2>1, ThreadEffects
    <3>2. vkd3d_queue'.mutex = d <=> vkd3d_queue.mutex = d
      <4>1. \/ vkd3d_queue.mutex = None /\ vkd3d_queue'.mutex = c
            \/ vkd3d_queue.mutex = c /\ vkd3d_queue'.mutex = None
            \/ UNCHANGED vkd3d_queue
        BY <1>5, ThreadEffects, Zenon
      <4> QED BY <2>1, <4>1, NoneAssumption
    <3>3. vkd3d_queue'.submitted \in {vkd3d_queue.submitted, Count}
      BY <1>5, ThreadEffects
    <3> QED BY <1>1, <1>2, <1>3, <3>1, <3>2, <3>3
  <2>2. CASE d = c
    <3>1. CASE /\ queue'[c] = [queue[c] EXCEPT !.pc = "submitting"]
               /\ Working(c, {"execute", "signal_shared"}) /\ vkd3d_queue'.mutex = c
               /\ vkd3d_queue'.submitted = vkd3d_queue.submitted
      BY <1>1, <2>2, <3>1 DEF QueueInv, Working, QueueRecord
    <3>2. CASE /\ queue'[c] = [[queue[c] EXCEPT !.pc = "submitted"] EXCEPT !.last_submission = Count]
               /\ Working(c, {"signal_shared"}) /\ vkd3d_queue'.mutex = None
               /\ vkd3d_queue'.submitted = Count
      BY <1>1, <2>2, <3>2, NoneAssumption DEF QueueInv, Working, QueueRecord
    <3>3. ASSUME queue[c].submissions # <<>>,
                 queue'[c] = Done(queue[c])
                   \/ queue'[c] = [Done(queue[c]) EXCEPT !.last_submission = vkd3d_queue'.submitted],
                 vkd3d_queue'.mutex # c, vkd3d_queue.submitted <= vkd3d_queue'.submitted
          PROVE  QueueInv(d)'
      <4>1. Done(queue[c]) \in QueueRecord
        BY <1>1, <3>3, DoneType
      <4>2. /\ queue'[c].pc = "ready" /\ queue'[c].inflight = queue[c].inflight - 1
            /\ queue'[c].last_submission \in {queue[c].last_submission, vkd3d_queue'.submitted}
            /\ queue'[c].submissions = Done(queue[c]).submissions
        BY <1>1, <3>3, <4>1, DoneCall DEF QueueRecord
      <4>3. Len(queue'[c].submissions) = Len(queue[c].submissions) - 1
        BY <1>1, <3>3, <4>2, DoneCall
      <4> QED BY <1>1, <1>3, <2>2, <3>3, <4>2, <4>3 DEF QueueInv
    <3>4. CASE /\ queue'[c] = [Done(queue[c]) EXCEPT !.last_submission = Count]
               /\ Working(c, {"execute"}) /\ vkd3d_queue'.mutex = None
               /\ vkd3d_queue'.submitted = Count
      BY <1>1, <3>3, <3>4, NoneAssumption DEF Working
    <3>5. CASE /\ queue'[c] = Done(queue[c]) /\ queue[c].pc # "submitting"
               /\ queue[c].submissions # <<>> /\ UNCHANGED vkd3d_queue
      BY <1>1, <3>3, <3>5 DEF QueueInv
    <3> QED BY <1>5, <3>1, <3>2, <3>4, <3>5, ThreadEffects DEF Working
  <2> QED BY <2>1, <2>2
<1>6. ASSUME NEW c \in Queues, NEW type \in {"execute", "signal_shared"}, Call(c, type)
      PROVE  QueueInv(d)'
  <2>1. [type |-> type, uses |-> type = "execute" /\ resource.pc = "alive"] \in Submission
    BY DEF Submission
  <2> HIDE DEF IInv
  <2>2. CASE d = c
    BY <1>4, <1>6, <2>1, <2>2, CallEffects
  <2>3. CASE d # c
    BY <1>1, <1>2, <1>6, <2>3, CallEffects
  <2> QED BY <2>2, <2>3
<1> HIDE DEF IInv
<1>7. CASE ChecksQueue
  <2>1. CASE queue'[d] = queue[d] /\ UNCHANGED vkd3d_queue
    BY <1>1, <1>2, <2>1
  <2> QED BY <1>4, <1>7, <2>1, ChecksEffects
<1>8. CASE UNCHANGED queue /\ vkd3d_queue'.mutex = vkd3d_queue.mutex
           /\ vkd3d_queue.submitted <= vkd3d_queue'.submitted
  BY <1>2, <1>3, <1>8
<1> QED BY <1>5, <1>6, <1>7, <1>8, OtherQueues

LEMMA SlowStep ==
  ASSUME Next
  PROVE  slow' = slow
BY DEF Next, SubmissionThread, FenceWorker, Call, ReleaseResource, ReadsInflight, ChecksQueue,
       DropsReference, BeginsSubmit, EndsExecute, EndsSignalShared, EndsSubmit,
       ReleasesSharedFence, RetainsResource, ExternalSubmit, Gpu, WaitsForSemaphore,
       SemaphoreTimesOut, SeesObserved, WaitsForProxy, JoinsWaiter, ProxyReached, ProxyTimesOut

LEMMA ShapeStep ==
  ASSUME IInv, Next
  PROVE  Shape'
<1>1. /\ vkd3d_queue' \in TimelineRecord /\ using' \subseteq Nat /\ resource' \in ResourceRecord
      /\ proxies' \in ProxiesRecord /\ proxies'.vk_fences \subseteq 1..proxies'.created
  BY TimelineTypeStep, ResourceTypeStep, ProxiesTypeStep DEF IInv, RightProxies
<1>2. slow' = slow
  BY SlowStep
<1>3. timed_out' \in {timed_out, TRUE}
  BY DEF Next, SubmissionThread, FenceWorker, Call, ReleaseResource, ReadsInflight, ChecksQueue,
         DropsReference, BeginsSubmit, EndsExecute, EndsSignalShared, EndsSubmit,
         ReleasesSharedFence, RetainsResource, ExternalSubmit, Gpu, WaitsForSemaphore,
         SemaphoreTimesOut, SeesObserved, WaitsForProxy, JoinsWaiter, ProxyReached, ProxyTimesOut
<1>4. queue' \in [Queues -> QueueRecord]
  <2>1. ASSUME ChecksQueue PROVE resource.checked \in Queues
    BY <2>1, ChecksEffects
  <2>2. CASE UNCHANGED queue
    BY <2>2 DEF IInv, Shape
  <2> QED BY <2>1, <2>2, QueueTypeStep, OtherQueues DEF IInv
<1>5. worker' \in [Queues -> WorkerRecord]
  <2>1. CASE UNCHANGED worker
    BY <2>1 DEF IInv, Shape
  <2>2. CASE \E c \in Queues : SubmissionThread(c) \/ FenceWorker(c)
    BY <2>2, WorkerTypeStep DEF IInv
  <2> HIDE DEF IInv
  <2> QED BY <2>1, <2>2 DEF Next, Call, ReleaseResource, ReadsInflight, ChecksQueue,
                          DropsReference, ExternalSubmit, Gpu
<1> QED BY <1>1, <1>2, <1>3, <1>4, <1>5 DEF Shape, IInv

-----------------------------------------------------------------------------
(* Fence workers.                                                          *)

\* A worker is left alone, or woken.
Alike(d) ==
  /\ worker'[d].fences = worker[d].fences /\ worker'[d].vk_fence = worker[d].vk_fence
  /\ \/ worker'[d].pc = worker[d].pc
     \/ worker[d].pc = "asleep" /\ worker'[d].pc = "ready"

LEMMA WokenAlike ==
  ASSUME NEW w \in [Queues -> WorkerRecord], NEW d \in Queues
  PROVE  /\ Broadcast(w)[d].fences = w[d].fences /\ Broadcast(w)[d].vk_fence = w[d].vk_fence
         /\ Broadcast(w)[d].pc = IF w[d].pc = "asleep" THEN "ready" ELSE w[d].pc
BY DEF Broadcast, WorkerRecord

\* A worker is through with what it waited for.
Drops(c) ==
  /\ worker[c].fences # <<>>
  /\ worker'[c].fences = Tail(worker[c].fences) /\ worker'[c].pc = "ready"
  /\ resource' = IF Waiting(c).kind = "release_resource"
                 THEN [resource EXCEPT !.refcount = @ - 1] ELSE resource
  /\ timed_out' \/ Waiting(c).value <= vkd3d_queue.completed

LEMMA WorkerEffects ==
  ASSUME IInv, NEW c \in Queues, FenceWorker(c)
  PROVE  /\ UNCHANGED <<slow, queue, vkd3d_queue, using>>
         /\ \A d \in Queues \ {c} : Alike(d)
         /\ \/ worker'[c].fences = worker[c].fences /\ UNCHANGED <<resource, timed_out>>
            \/ Drops(c)
<1>1. /\ worker \in [Queues -> WorkerRecord] /\ worker[c] \in WorkerRecord
      /\ \A d \in Queues : worker[d].pc # "ready" => worker[d].fences # <<>>
  BY DEF IInv, Shape, ProxyInv
<1>2. /\ proxies.observed \in Nat /\ vkd3d_queue.completed \in Nat
      /\ proxies.observed <= vkd3d_queue.completed
  BY DEF IInv, Shape, ProxiesRecord, TimelineRecord, TimelineInv
<1>3. worker[c].fences # <<>> => Waiting(c).value \in Nat
  BY WaitingType DEF IInv, Wait
<1> DEFINE Goal == /\ \A d \in Queues \ {c} : Alike(d)
                   /\ \/ worker'[c].fences = worker[c].fences /\ UNCHANGED <<resource, timed_out>>
                      \/ Drops(c)
<1>4. ASSUME Completes(c), worker[c].fences # <<>>,
             timed_out' \/ Waiting(c).value <= vkd3d_queue.completed
      PROVE  Goal
  <2>1. \A d \in Queues \ {c} : worker'[d] = worker[d]
    BY <1>1, <1>4 DEF Completes
  <2>2. /\ worker'[c].fences = Tail(worker[c].fences) /\ worker'[c].pc = "ready"
        /\ resource' = IF Waiting(c).kind = "release_resource"
                 THEN [resource EXCEPT !.refcount = @ - 1] ELSE resource
    BY <1>1, <1>4 DEF Completes, WorkerRecord
  <2> QED BY <1>4, <2>1, <2>2 DEF Alike, Drops
<1>5. ASSUME WaitsForSemaphore(c) PROVE Goal
  BY <1>2, <1>3, <1>4, <1>5 DEF WaitsForSemaphore
<1>6. ASSUME SemaphoreTimesOut(c) PROVE Goal
  BY <1>4, <1>6 DEF SemaphoreTimesOut
<1>7. ASSUME SeesObserved(c) PROVE Goal
  BY <1>2, <1>3, <1>4, <1>7 DEF SeesObserved, Iterating
<1>8. ASSUME WaitsForProxy(c) PROVE Goal
  BY <1>1, <1>8 DEF WaitsForProxy, Alike, WorkerRecord
<1>9. ASSUME JoinsWaiter(c) PROVE Goal
  BY <1>1, <1>9 DEF JoinsWaiter, Alike, WorkerRecord
<1>10. ASSUME ProxyReached(c) PROVE Goal
  <2> DEFINE w == [worker EXCEPT ![c].pc = "ready", ![c].vk_fence = 0]
  <2>1. /\ w \in [Queues -> WorkerRecord] /\ w[c].fences = worker[c].fences
        /\ \A d \in Queues \ {c} : w[d] = worker[d]
    <3>1. [[worker[c] EXCEPT !.pc = "ready"] EXCEPT !.vk_fence = 0] \in WorkerRecord
      BY <1>1 DEF WorkerRecord
    <3> QED BY <1>1, <3>1 DEF WorkerRecord
  <2>2. worker' = Broadcast(w) /\ UNCHANGED <<resource, timed_out>>
    BY <1>10 DEF ProxyReached
  <2> HIDE DEF w
  <2> QED BY <2>1, <2>2, WokenAlike DEF Alike
<1>11. ASSUME ProxyTimesOut(c) PROVE Goal
  <2> DEFINE w == [worker EXCEPT ![c].fences = Tail(@), ![c].pc = "ready", ![c].vk_fence = 0]
  <2>1. worker[c].fences # <<>>
    BY <1>1, <1>11 DEF ProxyTimesOut
  <2>2. /\ w \in [Queues -> WorkerRecord] /\ w[c].fences = Tail(worker[c].fences)
        /\ w[c].pc = "ready" /\ \A d \in Queues \ {c} : w[d] = worker[d]
    <3>1. Tail(worker[c].fences) \in Seq(Wait)
      BY <1>1, <2>1, SeqTypes DEF WorkerRecord
    <3>2. [[[worker[c] EXCEPT !.fences = Tail(worker[c].fences)] EXCEPT !.pc = "ready"]
            EXCEPT !.vk_fence = 0] \in WorkerRecord
      BY <1>1, <3>1 DEF WorkerRecord
    <3>3. /\ w \in [Queues -> WorkerRecord] /\ \A d \in Queues \ {c} : w[d] = worker[d]
          /\ w[c] = [[[worker[c] EXCEPT !.fences = Tail(worker[c].fences)] EXCEPT !.pc = "ready"]
                      EXCEPT !.vk_fence = 0]
      BY <1>1, <3>2
    <3> HIDE DEF w
    <3> QED BY <1>1, <3>3 DEF WorkerRecord
  <2>3. /\ worker' = Broadcast(w) /\ timed_out'
        /\ resource' = IF Waiting(c).kind = "release_resource"
                 THEN [resource EXCEPT !.refcount = @ - 1] ELSE resource
    BY <1>11 DEF ProxyTimesOut
  <2> HIDE DEF w
  <2> QED BY <2>1, <2>2, <2>3, WokenAlike, ZenonT(60) DEF Alike, Drops
<1>12. UNCHANGED <<slow, queue, vkd3d_queue, using>>
  BY DEF FenceWorker, WaitsForSemaphore, SemaphoreTimesOut, SeesObserved, WaitsForProxy,
         JoinsWaiter, ProxyReached, ProxyTimesOut
<1> HIDE DEF Goal
<1>13. Goal
  BY <1>5, <1>6, <1>7, <1>8, <1>9, <1>10, <1>11 DEF FenceWorker
<1> QED BY <1>12, <1>13 DEF Goal

LEMMA EnqueueEffects ==
  ASSUME Shape, NEW c \in Queues, NEW kind \in {"release_submission", "release_fence", "release_resource"},
         NEW value \in Nat, NEW own \in BOOLEAN, Enqueue(c, kind, value, own)
  PROVE  /\ \A d \in Queues \ {c} : worker'[d] = worker[d]
         /\ worker'[c].pc = worker[c].pc /\ worker'[c].vk_fence = worker[c].vk_fence
         /\ Len(worker[c].fences) \in Nat /\ DOMAIN worker[c].fences = 1..Len(worker[c].fences)
         /\ DOMAIN worker'[c].fences = 1..Len(worker[c].fences) + 1
         /\ \A i \in 1..Len(worker[c].fences) : worker'[c].fences[i] = worker[c].fences[i]
         /\ worker'[c].fences[Len(worker[c].fences) + 1] = [kind |-> kind, value |-> value, own |-> own]
         /\ worker[c].fences # <<>> => worker'[c].fences # <<>> /\ Waiting(c)' = Waiting(c)
<1>1. [kind |-> kind, value |-> value, own |-> own] \in Wait
  BY DEF Wait
<1>2. worker \in [Queues -> WorkerRecord] /\ worker[c] \in WorkerRecord
      /\ worker[c].fences \in Seq(Wait)
  BY DEF Shape, WorkerRecord
<1>3. /\ worker'[c].fences = Append(worker[c].fences, [kind |-> kind, value |-> value, own |-> own])
      /\ worker'[c].pc = worker[c].pc /\ worker'[c].vk_fence = worker[c].vk_fence
      /\ \A d \in Queues \ {c} : worker'[d] = worker[d]
  BY <1>2 DEF Enqueue, WorkerRecord
<1> QED BY <1>1, <1>2, <1>3 DEF Waiting

LEMMA TailWaits ==
  ASSUME NEW s \in Seq(Wait), s # <<>>
  PROVE  /\ Len(s) \in Nat \ {0} /\ DOMAIN s = 1..Len(s) /\ Head(s) = s[1]
         /\ DOMAIN Tail(s) = 1..Len(s) - 1
         /\ \A i \in 1..Len(s) - 1 : Tail(s)[i] = s[i + 1]
OBVIOUS

-----------------------------------------------------------------------------

(* Proxies.                                                                *)

\* Which steps change the proxies.
LEMMA ProxyActions ==
  ASSUME IInv, Next
  PROVE  \/ UNCHANGED proxies
         \/ \E c \in Queues :
              \/ slow /\ SubmissionThread(c) /\ EndsSubmit(c)
              \/ WaitsForSemaphore(c) \/ SeesObserved(c) \/ WaitsForProxy(c)
              \/ ProxyReached(c) \/ ProxyTimesOut(c)
<1>1. ASSUME NEW c \in Queues, SubmissionThread(c)
      PROVE  UNCHANGED proxies \/ (slow /\ SubmissionThread(c) /\ EndsSubmit(c))
  <2>1. EndsSubmit(c) => UNCHANGED proxies \/ slow
    BY DEF EndsSubmit, AddProxy
  <2> QED BY <1>1, <2>1 DEF SubmissionThread, BeginsSubmit, EndsExecute, EndsSignalShared,
                            ReleasesSharedFence, RetainsResource
<1> HIDE DEF IInv
<1> QED BY <1>1 DEF Next, FenceWorker, SemaphoreTimesOut, JoinsWaiter, Call, ReadsInflight,
                    ReleaseResource, ChecksQueue, DropsReference, ExternalSubmit, Gpu

\* The list of proxies and the pool agree.
ProxyList(p, submitted) ==
  /\ \A s \in p.submissions :
       /\ s.timeline <= submitted
       /\ s.vk_fence \in 1..p.created /\ s.vk_fence \notin p.vk_fences
  /\ \A s, t \in p.submissions : s.timeline = t.timeline \/ s.vk_fence = t.vk_fence => s = t

LEMMA Recycled ==
  ASSUME NEW p \in ProxiesRecord, NEW gone \in SUBSET p.submissions
  PROVE  /\ Recycle(p, gone).submissions = p.submissions \ gone
         /\ Recycle(p, gone).vk_fences = p.vk_fences \cup {s.vk_fence : s \in gone}
         /\ Recycle(p, gone).created = p.created
         /\ Recycle(p, gone).observed = p.observed
         /\ \A n : ProxyList(p, n) => ProxyList(Recycle(p, gone), n)
<1>1. /\ Recycle(p, gone).submissions = p.submissions \ gone
      /\ Recycle(p, gone).vk_fences = p.vk_fences \cup {s.vk_fence : s \in gone}
      /\ Recycle(p, gone).created = p.created
      /\ Recycle(p, gone).observed = p.observed
  BY DEF Recycle, ProxiesRecord
<1> QED BY <1>1 DEF ProxyList

\* A submission gets a proxy with a VkFence that is not in use.
LEMMA AddedProxy ==
  ASSUME IInv, NEW c \in Queues, EndsSubmit(c), slow
  PROVE  \E fence \in Nat :
           /\ proxies'.submissions = proxies.submissions \cup
                {[timeline |-> Count, vk_fence |-> fence, existing_waiter |-> FALSE]}
           /\ proxies'.vk_fences = proxies.vk_fences \ {fence}
           /\ proxies'.observed = proxies.observed
           /\ vkd3d_queue'.submitted = Count /\ vkd3d_queue.submitted < Count
           /\ \A s \in proxies.submissions : s.vk_fence # fence /\ s.timeline < Count
           /\ fence \in 1..proxies'.created /\ proxies.created <= proxies'.created
<1> DEFINE new == GetOrCreateFence
           s == [timeline |-> Count, vk_fence |-> new.vk_fence, existing_waiter |-> FALSE]
<1>1. /\ proxies \in ProxiesRecord /\ proxies.created \in Nat
      /\ proxies.vk_fences \subseteq 1..proxies.created
      /\ \A t \in proxies.submissions : t.vk_fence \in 1..proxies.created
                                         /\ t.vk_fence \notin proxies.vk_fences
                                         /\ t.timeline <= vkd3d_queue.submitted
                                         /\ t.timeline \in Nat
  BY DEF IInv, Shape, ProxiesRecord, ProxyInv, Proxy
<1>2. /\ vkd3d_queue'.submitted = Count /\ Count = vkd3d_queue.submitted + 1
      /\ vkd3d_queue.submitted \in Nat
  BY NoneAssumption DEF EndsSubmit, IInv, TimelineInv, Count, Shape, TimelineRecord
<1>3. /\ new.vk_fences = proxies.vk_fences \ {new.vk_fence}
      /\ new.vk_fence \in 1..new.created /\ proxies.created <= new.created
      /\ \A t \in proxies.submissions : t.vk_fence # new.vk_fence
  <2>1. /\ new.vk_fences = proxies.vk_fences \ {new.vk_fence}
        /\ \/ new.vk_fence \in proxies.vk_fences /\ new.created = proxies.created
           \/ new.vk_fence = proxies.created + 1 /\ new.created = proxies.created + 1
    BY GetOrCreateFenceType DEF IInv
  <2> HIDE DEF new
  <2>2. CASE new.vk_fence \in proxies.vk_fences /\ new.created = proxies.created
    BY <1>1, <2>1, <2>2
  <2>3. CASE new.vk_fence = proxies.created + 1 /\ new.created = proxies.created + 1
    BY <1>1, <2>1, <2>3
  <2> QED BY <2>1, <2>2, <2>3
<1>4. proxies' = [proxies EXCEPT !.submissions = @ \cup {s}, !.vk_fences = new.vk_fences,
                                 !.created = new.created]
  BY Zenon DEF EndsSubmit, AddProxy, Count
<1> HIDE DEF new
<1>5. /\ proxies'.submissions = proxies.submissions \cup {s}
      /\ proxies'.vk_fences = new.vk_fences /\ proxies'.created = new.created
      /\ proxies'.observed = proxies.observed
  BY <1>1, <1>4 DEF ProxiesRecord
<1>6. new.vk_fence \in Nat
  <2>1. new.created \in Nat
    BY <1>5, ProxiesTypeStep, <1>1, <1>3, GetOrCreateFenceType DEF new, IInv
  <2> QED BY <1>3, <2>1
<1>7. \A t \in proxies.submissions : t.timeline < Count
  BY <1>1, <1>2
<1>8. vkd3d_queue.submitted < Count
  BY <1>2
<1> QED BY <1>2, <1>3, <1>5, <1>6, <1>7, <1>8

\* The steps of fence workers that take proxies away.
LEMMA CollectedProxies ==
  ASSUME IInv, NEW c \in Queues, SeesObserved(c)
  PROVE  /\ proxies' = Recycle(proxies, Obsolete(proxies))
         /\ proxies'.submissions = proxies.submissions \ Obsolete(proxies)
         /\ proxies'.observed = proxies.observed
<1>1. proxies \in ProxiesRecord /\ Obsolete(proxies) \in SUBSET proxies.submissions
  BY SubsetsOfProxies DEF IInv, Shape
<1>2. proxies' = Recycle(proxies, Obsolete(proxies))
  BY DEF SeesObserved, CollectGarbage
<1> QED BY <1>1, <1>2, Recycled

LEMMA ReachedProxies ==
  ASSUME IInv, NEW c \in Queues, ProxyReached(c)
  PROVE  LET p == [proxies EXCEPT !.observed = ObservedAfter(Waiting(c).value)] IN
         /\ p \in ProxiesRecord
         /\ p.submissions = proxies.submissions /\ p.vk_fences = proxies.vk_fences
         /\ p.created = proxies.created
         /\ proxies' = Recycle(p, Pending(Waiting(c).value))
         /\ proxies'.submissions = proxies.submissions \ Pending(Waiting(c).value)
         /\ Waiting(c).value \in Nat /\ Waiting(c).value <= proxies'.observed
<1> DEFINE v == Waiting(c).value
           p == [proxies EXCEPT !.observed = ObservedAfter(v)]
<1>1. proxies \in ProxiesRecord /\ proxies.observed \in Nat /\ v \in Nat
  BY WaitingType DEF IInv, Shape, ProxyReached, ProxyInv, Wait, ProxiesRecord
<1>2. ObservedAfter(v) \in Nat /\ v <= ObservedAfter(v)
  BY <1>1, MaxOfTwo DEF ObservedAfter
<1>3. /\ p \in ProxiesRecord
      /\ p.submissions = proxies.submissions /\ p.vk_fences = proxies.vk_fences
      /\ p.created = proxies.created /\ p.observed = ObservedAfter(v)
  BY <1>1, <1>2 DEF ProxiesRecord
<1>4. proxies' = Recycle(p, Pending(v))
  BY DEF ProxyReached
<1>5. Pending(v) \in SUBSET p.submissions
  BY <1>3, SubsetsOfProxies
<1> HIDE DEF p, v
<1>6. /\ proxies'.submissions = proxies.submissions \ Pending(v)
      /\ proxies'.observed = ObservedAfter(v)
  BY <1>3, <1>4, <1>5, Recycled
<1> QED BY <1>1, <1>2, <1>3, <1>4, <1>6 DEF p, v

\* The proxy whose wait timed out is unmarked.
LEMMA KeptProxies ==
  ASSUME IInv, NEW c \in Queues, ProxyTimesOut(c)
  PROVE  \E kept \in ProxiesRecord :
           /\ proxies' = Recycle(kept, Obsolete(kept))
           /\ kept.vk_fences = proxies.vk_fences /\ kept.created = proxies.created
           /\ kept.observed = proxies.observed
           /\ \A t \in kept.submissions :
                \E s \in proxies.submissions :
                  /\ t.timeline = s.timeline /\ t.vk_fence = s.vk_fence
                  /\ IF s.timeline = Waiting(c).value THEN ~t.existing_waiter ELSE t = s
                  /\ t \in Proxy
           /\ \A s \in proxies.submissions :
                \E t \in kept.submissions :
                  /\ t.timeline = s.timeline /\ t.vk_fence = s.vk_fence
                  /\ s.timeline # Waiting(c).value => t = s
<1> DEFINE v == Waiting(c).value
           off(s) == [s EXCEPT !.existing_waiter = FALSE]
           left == {off(s) : s \in Pending(v)}
           others == {s \in proxies.submissions : s.timeline # v}
           kept == [proxies EXCEPT !.submissions = others \cup left]
<1>1. proxies \in ProxiesRecord /\ proxies.submissions \subseteq Proxy
  BY DEF IInv, Shape, ProxiesRecord
<1>2. \A s \in proxies.submissions :
        /\ off(s) \in Proxy /\ off(s).timeline = s.timeline /\ off(s).vk_fence = s.vk_fence
        /\ off(s).existing_waiter = FALSE
  BY <1>1 DEF Proxy
<1>3. others \cup left \subseteq Proxy
  BY <1>1, <1>2, SubsetsOfProxies
<1>4. proxies' = Recycle(kept, Obsolete(kept))
  BY DEF ProxyTimesOut
<1>5. /\ kept \in ProxiesRecord /\ kept.submissions = others \cup left
      /\ kept.vk_fences = proxies.vk_fences /\ kept.created = proxies.created
      /\ kept.observed = proxies.observed
  <2> HIDE DEF others, left
  <2> QED BY <1>1, <1>3 DEF ProxiesRecord
<1>6. \A t \in others \cup left :
        \E s \in proxies.submissions :
          /\ t.timeline = s.timeline /\ t.vk_fence = s.vk_fence
          /\ IF s.timeline = v THEN ~t.existing_waiter ELSE t = s
          /\ t \in Proxy
  <2> HIDE DEF off, v
  <2>1. ASSUME NEW t \in others
        PROVE  \E s \in proxies.submissions :
                 /\ t.timeline = s.timeline /\ t.vk_fence = s.vk_fence
                 /\ IF s.timeline = v THEN ~t.existing_waiter ELSE t = s
                 /\ t \in Proxy
    BY <1>1, <2>1
  <2>2. ASSUME NEW s \in Pending(v)
        PROVE  /\ s \in proxies.submissions /\ s.timeline = v
               /\ off(s).timeline = s.timeline /\ off(s).vk_fence = s.vk_fence
               /\ ~off(s).existing_waiter /\ off(s) \in Proxy
    BY <1>2, <2>2 DEF Pending
  <2> QED BY <2>1, <2>2
<1>7. \A s \in proxies.submissions :
        \E t \in others \cup left :
          /\ t.timeline = s.timeline /\ t.vk_fence = s.vk_fence
          /\ s.timeline # v => t = s
  <2> HIDE DEF off, v
  <2> SUFFICES ASSUME NEW s \in proxies.submissions
               PROVE  \E t \in others \cup left :
                        /\ t.timeline = s.timeline /\ t.vk_fence = s.vk_fence
                        /\ s.timeline # v => t = s
    OBVIOUS
  <2>1. CASE s.timeline # v
    BY <2>1
  <2>2. CASE s.timeline = v
    <3>1. off(s) \in left
      BY <2>2 DEF Pending
    <3> QED BY <1>2, <2>2, <3>1
  <2> QED BY <2>1, <2>2
<1> HIDE DEF kept, others, left, v
<1> QED BY <1>4, <1>5, <1>6, <1>7 DEF v

LEMMA ProxyListStep ==
  ASSUME IInv, Next
  PROVE  ProxyList(proxies', vkd3d_queue'.submitted)
<1>1. /\ proxies \in ProxiesRecord /\ proxies.submissions \subseteq Proxy
      /\ proxies.created \in Nat /\ vkd3d_queue.submitted \in Nat
      /\ ProxyList(proxies, vkd3d_queue.submitted)
  BY DEF IInv, Shape, ProxiesRecord, TimelineRecord, ProxyInv, ProxyList
<1>2. ASSUME NEW n \in Nat, vkd3d_queue.submitted <= n
      PROVE  ProxyList(proxies, n)
  <2>1. \A s \in proxies.submissions : s.timeline \in Nat
    BY <1>1 DEF Proxy
  <2> QED BY <1>1, <1>2, <2>1 DEF ProxyList
<1>3. vkd3d_queue'.submitted \in Nat
  BY TimelineTypeStep DEF TimelineRecord
<1>4. vkd3d_queue.submitted <= vkd3d_queue'.submitted
  <2>1. Count \in Nat /\ vkd3d_queue.submitted <= Count /\ vkd3d_queue \in TimelineRecord
    BY DEF IInv, TimelineInv, Shape, TimelineRecord, Count
  <2>2. vkd3d_queue'.submitted \in {vkd3d_queue.submitted, Count, vkd3d_queue.submitted + 1}
    BY <2>1, TimelineEffects DEF TimelineRecord
  <2> QED BY <1>1, <2>1, <2>2
<1>5. ProxyList(proxies, vkd3d_queue'.submitted)
  BY <1>2, <1>3, <1>4
<1>6. ASSUME NEW c \in Queues, EndsSubmit(c), slow
      PROVE  ProxyList(proxies', vkd3d_queue'.submitted)
  <2>1. PICK fence \in Nat :
           /\ proxies'.submissions = proxies.submissions \cup
                {[timeline |-> Count, vk_fence |-> fence, existing_waiter |-> FALSE]}
           /\ proxies'.vk_fences = proxies.vk_fences \ {fence}
           /\ vkd3d_queue'.submitted = Count
           /\ \A s \in proxies.submissions : s.vk_fence # fence /\ s.timeline < Count
           /\ fence \in 1..proxies'.created /\ proxies.created <= proxies'.created
    BY <1>6, AddedProxy
  <2>2. proxies'.created \in Nat /\ Count \in Nat
    BY <1>3, <2>1, ProxiesTypeStep DEF RightProxies, ProxiesRecord
  <2>3. \A s \in proxies.submissions : s.timeline # Count /\ s.vk_fence \in 1..proxies'.created
    BY <1>1, <2>1, <2>2 DEF ProxyList, Proxy
  <2>4. \A s \in proxies'.submissions :
          /\ s.timeline <= vkd3d_queue'.submitted
          /\ s.vk_fence \in 1..proxies'.created /\ s.vk_fence \notin proxies'.vk_fences
    BY <1>5, <2>1, <2>2, <2>3 DEF ProxyList
  <2>5. \A s, t \in proxies'.submissions :
          s.timeline = t.timeline \/ s.vk_fence = t.vk_fence => s = t
    <3>1. PICK u : u = [timeline |-> Count, vk_fence |-> fence, existing_waiter |-> FALSE]
      OBVIOUS
    <3>2. /\ proxies'.submissions = proxies.submissions \cup {u}
          /\ \A s \in proxies.submissions : s.timeline # u.timeline /\ s.vk_fence # u.vk_fence
      BY <2>1, <2>3, <3>1
    <3> QED BY <1>5, <3>2 DEF ProxyList
  <2> QED BY <2>4, <2>5 DEF ProxyList
<1>7. ASSUME NEW c \in Queues, WaitsForSemaphore(c)
      PROVE  ProxyList(proxies', vkd3d_queue'.submitted)
  <2>1. /\ proxies'.submissions = proxies.submissions /\ proxies'.vk_fences = proxies.vk_fences
        /\ proxies'.created = proxies.created
    BY <1>1, <1>7 DEF WaitsForSemaphore, ProxiesRecord
  <2> QED BY <1>5, <2>1 DEF ProxyList
<1>8. ASSUME NEW c \in Queues, SeesObserved(c)
      PROVE  ProxyList(proxies', vkd3d_queue'.submitted)
  BY <1>1, <1>5, <1>8, CollectedProxies, Recycled, SubsetsOfProxies
<1>9. ASSUME NEW c \in Queues, WaitsForProxy(c)
      PROVE  ProxyList(proxies', vkd3d_queue'.submitted)
  <2>1. PICK s \in proxies.submissions :
          proxies' = [proxies EXCEPT !.submissions =
                        (@ \ {s}) \cup {[s EXCEPT !.existing_waiter = TRUE]}]
    BY <1>9, SubsetsOfProxies DEF WaitsForProxy
  <2>2. PICK t : t = [s EXCEPT !.existing_waiter = TRUE]
    OBVIOUS
  <2>3. t.vk_fence = s.vk_fence /\ t.timeline = s.timeline
    BY <1>1, <2>2 DEF Proxy
  <2>4. /\ proxies'.submissions = (proxies.submissions \ {s}) \cup {t}
        /\ proxies'.vk_fences = proxies.vk_fences /\ proxies'.created = proxies.created
    BY <1>1, <2>1, <2>2 DEF ProxiesRecord
  <2> QED BY <1>5, <2>3, <2>4 DEF ProxyList
<1>10. ASSUME NEW c \in Queues, ProxyReached(c)
       PROVE  ProxyList(proxies', vkd3d_queue'.submitted)
  <2>1. PICK p \in ProxiesRecord :
          /\ p.submissions = proxies.submissions /\ p.vk_fences = proxies.vk_fences
          /\ p.created = proxies.created /\ proxies' = Recycle(p, Pending(Waiting(c).value))
    BY <1>10, ReachedProxies, Zenon
  <2>2. ProxyList(p, vkd3d_queue'.submitted)
    BY <1>5, <2>1 DEF ProxyList
  <2> QED BY <2>1, <2>2, Recycled, SubsetsOfProxies
<1>11. ASSUME NEW c \in Queues, ProxyTimesOut(c)
       PROVE  ProxyList(proxies', vkd3d_queue'.submitted)
  <2>1. PICK kept \in ProxiesRecord :
          /\ proxies' = Recycle(kept, Obsolete(kept))
          /\ kept.vk_fences = proxies.vk_fences /\ kept.created = proxies.created
          /\ \A t \in kept.submissions :
               \E s \in proxies.submissions :
                 /\ t.timeline = s.timeline /\ t.vk_fence = s.vk_fence
                 /\ IF s.timeline = Waiting(c).value THEN ~t.existing_waiter ELSE t = s
                 /\ t \in Proxy
    BY <1>11, KeptProxies, Zenon
  <2>2. \A t \in kept.submissions :
          /\ t.timeline <= vkd3d_queue'.submitted
          /\ t.vk_fence \in 1..kept.created /\ t.vk_fence \notin kept.vk_fences
    BY <1>5, <2>1 DEF ProxyList
  <2>3. \A t, u \in kept.submissions :
          t.timeline = u.timeline \/ t.vk_fence = u.vk_fence => t = u
    <3> SUFFICES ASSUME NEW t \in kept.submissions, NEW u \in kept.submissions,
                        t.timeline = u.timeline \/ t.vk_fence = u.vk_fence
                 PROVE  t = u
      OBVIOUS
    <3>1. PICK s \in proxies.submissions :
            /\ t.timeline = s.timeline /\ t.vk_fence = s.vk_fence
            /\ IF s.timeline = Waiting(c).value THEN ~t.existing_waiter ELSE t = s
            /\ t \in Proxy
      BY <2>1
    <3>2. PICK r \in proxies.submissions :
            /\ u.timeline = r.timeline /\ u.vk_fence = r.vk_fence
            /\ IF r.timeline = Waiting(c).value THEN ~u.existing_waiter ELSE u = r
            /\ u \in Proxy
      BY <2>1
    <3>3. r = s
      BY <1>5, <3>1, <3>2 DEF ProxyList
    <3> QED BY <3>1, <3>2, <3>3 DEF Proxy
  <2>4. ProxyList(kept, vkd3d_queue'.submitted)
    BY <2>2, <2>3 DEF ProxyList
  <2> QED BY <2>1, <2>4, Recycled, SubsetsOfProxies
<1>12. CASE UNCHANGED proxies
  BY <1>5, <1>12
<1> HIDE DEF IInv
<1> QED BY <1>6, <1>7, <1>8, <1>9, <1>10, <1>11, <1>12, ProxyActions

\* Whoever needs a proxy keeps it.
LEMMA PendingStep ==
  ASSUME IInv, Next, NEW value \in Nat, HasProxy(value)
  PROVE  HasProxy(value)'
<1>1. /\ proxies \in ProxiesRecord /\ proxies.submissions \subseteq Proxy
      /\ proxies.observed \in Nat /\ proxies'.observed \in Nat
      /\ proxies.observed <= proxies'.observed
  BY ObservedStep, ProxiesTypeStep DEF IInv, Shape, ProxiesRecord, RightProxies
<1>2. SUFFICES ASSUME slow, value > proxies'.observed, Pending(value) # {}
               PROVE  Pending(value)' # {}
  <2>1. slow' => slow
    BY SlowStep
  <2> QED BY <1>1, <2>1 DEF HasProxy
<1>3. PICK s \in proxies.submissions : s.timeline = value
  BY <1>2 DEF Pending
<1>4. SUFFICES \E t \in proxies'.submissions : t.timeline = value
  BY DEF Pending
<1>5. ASSUME NEW c \in Queues, EndsSubmit(c), slow
      PROVE  proxies.submissions \subseteq proxies'.submissions
  BY <1>5, AddedProxy
<1>6. ASSUME NEW c \in Queues, WaitsForSemaphore(c)
      PROVE  proxies'.submissions = proxies.submissions
  BY <1>1, <1>6 DEF WaitsForSemaphore, ProxiesRecord
<1>7. ASSUME NEW c \in Queues, SeesObserved(c)
      PROVE  s \in proxies'.submissions
  <2>1. /\ proxies'.submissions = proxies.submissions \ Obsolete(proxies)
        /\ proxies'.observed = proxies.observed
    BY <1>7, CollectedProxies
  <2>2. ~(s.timeline <= proxies.observed)
    BY <1>1, <1>2, <1>3, <2>1
  <2> QED BY <2>1, <2>2 DEF Obsolete
<1>8. ASSUME NEW c \in Queues, WaitsForProxy(c)
      PROVE  \E t \in proxies'.submissions : t.timeline = value
  <2>1. PICK r \in proxies.submissions :
          proxies' = [proxies EXCEPT !.submissions =
                        (@ \ {r}) \cup {[r EXCEPT !.existing_waiter = TRUE]}]
    BY <1>8, SubsetsOfProxies DEF WaitsForProxy
  <2>2. PICK t : t = [r EXCEPT !.existing_waiter = TRUE]
    OBVIOUS
  <2>3. t.timeline = r.timeline
    BY <1>1, <2>2 DEF Proxy
  <2>4. proxies'.submissions = (proxies.submissions \ {r}) \cup {t}
    BY <1>1, <2>1, <2>2 DEF ProxiesRecord
  <2> QED BY <1>3, <2>3, <2>4
<1>9. ASSUME NEW c \in Queues, ProxyReached(c)
      PROVE  s \in proxies'.submissions
  <2>1. /\ proxies'.submissions = proxies.submissions \ Pending(Waiting(c).value)
        /\ Waiting(c).value \in Nat /\ Waiting(c).value <= proxies'.observed
    BY <1>9, ReachedProxies
  <2>2. Waiting(c).value # value
    BY <1>1, <1>2, <2>1
  <2> QED BY <1>3, <2>1, <2>2 DEF Pending
<1>10. ASSUME NEW c \in Queues, ProxyTimesOut(c)
       PROVE  \E t \in proxies'.submissions : t.timeline = value
  <2>1. PICK kept \in ProxiesRecord :
          /\ proxies' = Recycle(kept, Obsolete(kept)) /\ kept.observed = proxies.observed
          /\ \E t \in kept.submissions : t.timeline = value
    BY <1>3, <1>10, KeptProxies
  <2>2. PICK t \in kept.submissions : t.timeline = value
    BY <2>1
  <2>3. t \notin Obsolete(kept)
    BY <1>1, <1>2, <2>1, <2>2 DEF Obsolete
  <2>4. proxies'.submissions = kept.submissions \ Obsolete(kept)
    BY <2>1, Recycled, SubsetsOfProxies
  <2> QED BY <2>2, <2>3, <2>4
<1>11. CASE UNCHANGED proxies
  BY <1>3, <1>11
<1> HIDE DEF IInv
<1> QED BY <1>3, <1>5, <1>6, <1>7, <1>8, <1>9, <1>10, <1>11, ProxyActions

-----------------------------------------------------------------------------
(* Who waits on which VkFence.                                             *)

\* A worker waits on a VkFence if it did, and for the same value.
Still(d) ==
  /\ worker'[d].pc = "waiting" <=> worker[d].pc = "waiting"
  /\ worker[d].pc = "waiting" => worker'[d].vk_fence = worker[d].vk_fence /\ Waiting(d)' = Waiting(d)
  /\ worker'[d].pc # "ready" => worker'[d].fences # <<>>

LEMMA AlikeStill ==
  ASSUME IInv, NEW d \in Queues, Alike(d)
  PROVE  Still(d)
<1>1. worker[d].pc # "ready" => worker[d].fences # <<>>
  BY DEF IInv, ProxyInv
<1> QED BY <1>1 DEF Alike, Still, Waiting

LEMMA ThreadEnqueues ==
  ASSUME IInv, NEW c \in Queues, SubmissionThread(c)
  PROVE  \/ UNCHANGED worker
         \/ \E kind \in {"release_submission", "release_fence", "release_resource"} :
              \E value \in Nat : \E own \in BOOLEAN : Enqueue(c, kind, value, own)
<1>1. Count \in Nat /\ queue[c].last_submission \in Nat
  BY DEF IInv, Shape, TimelineRecord, QueueRecord, Count
<1>2. (Count = queue[c].last_submission) \in BOOLEAN
  OBVIOUS
<1> HIDE DEF IInv
<1> QED BY <1>1, <1>2, ThreadEffects

LEMMA EnqueueStill ==
  ASSUME IInv, NEW c \in Queues, SubmissionThread(c), NEW d \in Queues
  PROVE  Still(d)
<1>1. worker[d].pc # "ready" => worker[d].fences # <<>>
  BY DEF IInv, ProxyInv
<1>2. ASSUME worker'[d] = worker[d] PROVE Still(d)
  BY <1>1, <1>2 DEF Still, Waiting
<1>3. ASSUME NEW kind \in {"release_submission", "release_fence", "release_resource"},
             NEW value \in Nat, NEW own \in BOOLEAN, Enqueue(c, kind, value, own)
      PROVE  Still(d)
  <2>1. CASE d = c
    BY <1>1, <1>3, <2>1, EnqueueEffects DEF Still, IInv
  <2>2. CASE d # c
    <3>1. Shape
      BY DEF IInv
    <3> HIDE DEF IInv
    <3> QED BY <1>2, <1>3, <2>2, <3>1, EnqueueEffects, ZenonT(60)
  <2> QED BY <2>1, <2>2
<1> HIDE DEF IInv
<1> QED BY <1>2, <1>3, ThreadEnqueues

LEMMA StillStep ==
  ASSUME IInv, Next, NEW d \in Queues,
         ~WaitsForProxy(d), ~ProxyReached(d), ~ProxyTimesOut(d)
  PROVE  Still(d)
<1>1. worker \in [Queues -> WorkerRecord] /\ (worker[d].pc # "ready" => worker[d].fences # <<>>)
      /\ (~slow => worker[d].pc = "ready")
  BY DEF IInv, Shape, ProxyInv
<1>2. ASSUME UNCHANGED worker PROVE Still(d)
  BY <1>1, <1>2 DEF Still, Waiting
<1>3. ASSUME FenceWorker(d) PROVE Still(d)
  <2>1. CASE WaitsForSemaphore(d) \/ SemaphoreTimesOut(d) \/ SeesObserved(d)
    <3>1. worker'[d].pc = "ready"
      BY <1>1, <2>1 DEF WaitsForSemaphore, SemaphoreTimesOut, SeesObserved, Completes, WorkerRecord
    <3>2. worker[d].pc = "ready"
      BY <1>1, <2>1 DEF WaitsForSemaphore, SemaphoreTimesOut, SeesObserved, Iterating
    <3> QED BY <3>1, <3>2 DEF Still
  <2>2. CASE JoinsWaiter(d)
    BY <1>1, <2>2 DEF JoinsWaiter, Iterating, Still, WorkerRecord
  <2> QED BY <1>3, <2>1, <2>2 DEF FenceWorker
<1>4. ASSUME NEW c \in Queues, FenceWorker(c) PROVE Still(d)
  BY <1>3, <1>4, WorkerEffects, AlikeStill
<1> HIDE DEF IInv
<1> QED BY <1>2, <1>4, EnqueueStill
        DEF Next, Call, ReadsInflight, ReleaseResource, ChecksQueue, DropsReference,
            ExternalSubmit, Gpu

Mark(c) == [timeline |-> Waiting(c).value, vk_fence |-> worker[c].vk_fence, existing_waiter |-> TRUE]

Marks ==
  /\ \A s \in proxies.submissions : s.existing_waiter =>
       \E c \in Queues : worker[c].pc = "waiting" /\ worker[c].vk_fence = s.vk_fence
  /\ \A c \in Queues : worker[c].pc # "ready" => worker[c].fences # <<>>
  /\ \A c \in Queues : worker[c].pc = "waiting" => Mark(c) \in proxies.submissions
  /\ \A c, d \in Queues : worker[c].pc = "waiting" /\ worker[d].pc = "waiting" /\ c # d =>
       worker[c].vk_fence # worker[d].vk_fence

LEMMA StillMarks ==
  ASSUME Marks, \A d \in Queues : Still(d),
         \A s \in proxies.submissions : s.existing_waiter => s \in proxies'.submissions,
         \A s \in proxies'.submissions : s.existing_waiter => s \in proxies.submissions
  PROVE  Marks'
<1>1. \A c \in Queues : worker[c].pc = "waiting" => Mark(c) \in proxies.submissions /\ Mark(c)' = Mark(c)
  BY DEF Marks, Still, Mark
<1>2. \A c \in Queues : Mark(c).existing_waiter
  BY DEF Mark
<1>3. \A c \in Queues : worker'[c].pc = "waiting" => Mark(c)' \in proxies'.submissions
  BY <1>1, <1>2 DEF Still
<1>4. \A s \in proxies'.submissions : s.existing_waiter =>
        \E c \in Queues : worker'[c].pc = "waiting" /\ worker'[c].vk_fence = s.vk_fence
  BY DEF Marks, Still
<1>5. \A c \in Queues : worker'[c].pc # "ready" => worker'[c].fences # <<>>
  BY DEF Still
<1>6. \A c, d \in Queues : worker'[c].pc = "waiting" /\ worker'[d].pc = "waiting" /\ c # d =>
        worker'[c].vk_fence # worker'[d].vk_fence
  BY DEF Marks, Still
<1> QED BY <1>3, <1>4, <1>5, <1>6 DEF Marks

\* A worker that stops to wait unmarks its proxy or takes it away.
LEMMA StoppedMarks ==
  ASSUME Marks, ProxyList(proxies, vkd3d_queue.submitted), NEW c \in Queues,
         worker[c].pc = "waiting", worker'[c].pc = "ready",
         \A d \in Queues \ {c} : Still(d),
         \A s \in proxies.submissions :
           s.existing_waiter /\ s.timeline # Waiting(c).value => s \in proxies'.submissions,
         \A s \in proxies'.submissions :
           s.existing_waiter => s \in proxies.submissions /\ s.timeline # Waiting(c).value
  PROVE  Marks'
<1>1. Mark(c) \in proxies.submissions
  BY DEF Marks
<1>2. \A d \in Queues : /\ Mark(d).vk_fence = worker[d].vk_fence
                        /\ Mark(d).timeline = Waiting(d).value /\ Mark(d).existing_waiter
  BY DEF Mark
<1>3. \A d \in Queues \ {c} : worker[d].pc = "waiting" =>
        /\ Mark(d) \in proxies.submissions /\ Mark(d)' = Mark(d)
        /\ worker[d].vk_fence # worker[c].vk_fence
  BY DEF Marks, Still, Mark
<1>4. \A d \in Queues \ {c} : worker[d].pc = "waiting" => Mark(d).timeline # Waiting(c).value
  BY <1>1, <1>2, <1>3 DEF ProxyList
<1>5. \A d \in Queues : worker'[d].pc = "waiting" => d # c /\ worker[d].pc = "waiting"
  BY DEF Still
<1>6. \A d \in Queues : worker'[d].pc = "waiting" => Mark(d)' \in proxies'.submissions
  BY <1>2, <1>3, <1>4, <1>5
<1>7. \A s \in proxies'.submissions : s.existing_waiter =>
        \E d \in Queues : worker'[d].pc = "waiting" /\ worker'[d].vk_fence = s.vk_fence
  <2> SUFFICES ASSUME NEW s \in proxies'.submissions, s.existing_waiter
               PROVE  \E d \in Queues : worker'[d].pc = "waiting" /\ worker'[d].vk_fence = s.vk_fence
    OBVIOUS
  <2>1. s \in proxies.submissions /\ s.timeline # Waiting(c).value
    OBVIOUS
  <2>2. PICK d \in Queues : worker[d].pc = "waiting" /\ worker[d].vk_fence = s.vk_fence
    BY <2>1 DEF Marks
  <2>3. d # c
    BY <1>1, <1>2, <2>1, <2>2 DEF ProxyList
  <2> QED BY <2>2, <2>3 DEF Still
<1>8. \A d \in Queues : worker'[d].pc # "ready" => worker'[d].fences # <<>>
  BY DEF Still
<1>9. \A d, e \in Queues : worker'[d].pc = "waiting" /\ worker'[e].pc = "waiting" /\ d # e =>
        worker'[d].vk_fence # worker'[e].vk_fence
  BY <1>5 DEF Marks, Still
<1> QED BY <1>6, <1>7, <1>8, <1>9 DEF Marks

LEMMA MarksStep ==
  ASSUME IInv, Next
  PROVE  Marks'
<1>1. /\ Marks /\ ProxyList(proxies, vkd3d_queue.submitted)
      /\ proxies \in ProxiesRecord /\ proxies.submissions \subseteq Proxy
      /\ worker \in [Queues -> WorkerRecord]
  BY DEF IInv, Shape, ProxyInv, Marks, Mark, ProxyList, ProxiesRecord
<1>2. ASSUME NEW c \in Queues, FenceWorker(c)
      PROVE  \A d \in Queues \ {c} : Still(d)
  BY <1>2, WorkerEffects, AlikeStill
<1>3. ASSUME NEW c \in Queues, WaitsForProxy(c) PROVE Marks'
  <2>1. PICK s \in Pending(Waiting(c).value) :
          /\ ~s.existing_waiter
          /\ proxies' = [proxies EXCEPT !.submissions =
                           (@ \ {s}) \cup {[s EXCEPT !.existing_waiter = TRUE]}]
          /\ worker' = [worker EXCEPT ![c].pc = "waiting", ![c].vk_fence = s.vk_fence]
    BY <1>3 DEF WaitsForProxy
  <2>2. PICK t : t = [s EXCEPT !.existing_waiter = TRUE]
    OBVIOUS
  <2>3. /\ s \in proxies.submissions /\ s.timeline = Waiting(c).value /\ s \in Proxy
        /\ t.vk_fence = s.vk_fence /\ t.timeline = s.timeline /\ t.existing_waiter
        /\ t = [timeline |-> Waiting(c).value, vk_fence |-> s.vk_fence, existing_waiter |-> TRUE]
    BY <1>1, <2>2 DEF Proxy, Pending
  <2>4. proxies'.submissions = (proxies.submissions \ {s}) \cup {t}
    BY <1>1, <2>1, <2>2 DEF ProxiesRecord
  <2>5. /\ worker'[c].pc = "waiting" /\ worker'[c].vk_fence = s.vk_fence
        /\ worker'[c].fences = worker[c].fences /\ worker[c].fences # <<>>
        /\ worker[c].pc = "ready"
    BY <1>1, <1>3, <2>1 DEF WorkerRecord, WaitsForProxy, Iterating
  <2>6. Mark(c)' = t
    BY <2>3, <2>5 DEF Mark, Waiting
  <2>7. \A d \in Queues \ {c} : Still(d)
    BY <1>2, <1>3 DEF FenceWorker
  <2>8. \A d \in Queues \ {c} : worker'[d].pc = "waiting" =>
          /\ Mark(d)' = Mark(d) /\ Mark(d) \in proxies.submissions
          /\ worker'[d].vk_fence = Mark(d).vk_fence /\ Mark(d).existing_waiter
    BY <1>1, <2>7 DEF Still, Mark, Marks
  <2>9. \A d \in Queues \ {c} : worker'[d].pc = "waiting" =>
          Mark(d)' \in proxies'.submissions /\ worker'[d].vk_fence # s.vk_fence
    <3> SUFFICES ASSUME NEW d \in Queues \ {c}, worker'[d].pc = "waiting"
                 PROVE  Mark(d)' \in proxies'.submissions /\ worker'[d].vk_fence # s.vk_fence
      OBVIOUS
    <3>1. Mark(d) # s
      BY <2>1, <2>8
    <3> QED BY <1>1, <2>3, <2>4, <2>8, <3>1 DEF ProxyList
  <2>10. \A r \in proxies'.submissions : r.existing_waiter =>
           \E d \in Queues : worker'[d].pc = "waiting" /\ worker'[d].vk_fence = r.vk_fence
    <3> SUFFICES ASSUME NEW r \in proxies'.submissions, r.existing_waiter
                 PROVE  \E d \in Queues : worker'[d].pc = "waiting" /\ worker'[d].vk_fence = r.vk_fence
      OBVIOUS
    <3>1. CASE r = t
      BY <2>3, <2>5, <3>1
    <3>2. CASE r # t
      <4>1. PICK d \in Queues : worker[d].pc = "waiting" /\ worker[d].vk_fence = r.vk_fence
        BY <1>1, <2>4, <3>2 DEF Marks
      <4>2. d # c
        BY <2>5, <4>1
      <4> QED BY <2>7, <4>1, <4>2 DEF Still
    <3> QED BY <3>1, <3>2
  <2>11. \A d \in Queues : worker'[d].pc = "waiting" => Mark(d)' \in proxies'.submissions
    BY <2>4, <2>6, <2>9
  <2>12. \A d \in Queues : worker'[d].pc # "ready" => worker'[d].fences # <<>>
    BY <2>5, <2>7 DEF Still
  <2>13. \A d, e \in Queues : worker'[d].pc = "waiting" /\ worker'[e].pc = "waiting" /\ d # e =>
           worker'[d].vk_fence # worker'[e].vk_fence
    BY <1>1, <2>5, <2>7, <2>9 DEF Still, Marks
  <2> QED BY <2>10, <2>11, <2>12, <2>13 DEF Marks
<1>4. ASSUME NEW c \in Queues, ProxyReached(c) PROVE Marks'
  <2>1. proxies'.submissions = proxies.submissions \ Pending(Waiting(c).value)
    BY <1>4, ReachedProxies
  <2>2. worker'[c].pc = "ready"
    <3> DEFINE w == [worker EXCEPT ![c].pc = "ready", ![c].vk_fence = 0]
    <3>1. [[worker[c] EXCEPT !.pc = "ready"] EXCEPT !.vk_fence = 0] \in WorkerRecord
      BY <1>1 DEF WorkerRecord
    <3>2. w \in [Queues -> WorkerRecord] /\ w[c].pc = "ready"
      BY <1>1, <3>1 DEF WorkerRecord
    <3>3. worker' = Broadcast(w)
      BY <1>4 DEF ProxyReached
    <3> HIDE DEF w
    <3> QED BY <3>2, <3>3, WokenAlike
  <2>3. \A d \in Queues \ {c} : Still(d)
    BY <1>2, <1>4 DEF FenceWorker
  <2>4. worker[c].pc = "waiting"
    BY <1>4 DEF ProxyReached
  <2> HIDE DEF IInv
  <2> QED BY <1>1, <2>1, <2>2, <2>3, <2>4, StoppedMarks DEF Pending
<1>5. ASSUME NEW c \in Queues, ProxyTimesOut(c) PROVE Marks'
  <2>1. PICK kept \in ProxiesRecord :
           /\ proxies' = Recycle(kept, Obsolete(kept))
           /\ \A t \in kept.submissions :
                \E s \in proxies.submissions :
                  /\ t.timeline = s.timeline /\ t.vk_fence = s.vk_fence
                  /\ IF s.timeline = Waiting(c).value THEN ~t.existing_waiter ELSE t = s
           /\ \A s \in proxies.submissions :
                \E t \in kept.submissions :
                  /\ t.timeline = s.timeline /\ t.vk_fence = s.vk_fence
                  /\ s.timeline # Waiting(c).value => t = s
    BY <1>5, KeptProxies
  <2>2. proxies'.submissions = kept.submissions \ Obsolete(kept)
    BY <2>1, Recycled, SubsetsOfProxies
  <2>3. worker[c].pc = "waiting" /\ ~Drops(c) => worker'[c].fences = worker[c].fences
    BY <1>5, WorkerEffects DEF FenceWorker
  <2>4. worker'[c].pc = "ready"
    <3> DEFINE w == [worker EXCEPT ![c].fences = Tail(@), ![c].pc = "ready", ![c].vk_fence = 0]
    <3>1. worker[c].fences # <<>> /\ worker[c] \in WorkerRecord
      BY <1>1, <1>5 DEF ProxyTimesOut, Marks
    <3>2. Tail(worker[c].fences) \in Seq(Wait)
      BY <3>1, SeqTypes DEF WorkerRecord
    <3>3. [[[worker[c] EXCEPT !.fences = Tail(worker[c].fences)] EXCEPT !.pc = "ready"]
            EXCEPT !.vk_fence = 0] \in WorkerRecord
      BY <3>1, <3>2 DEF WorkerRecord
    <3>4. w \in [Queues -> WorkerRecord] /\ w[c].pc = "ready"
      BY <1>1, <3>3 DEF WorkerRecord
    <3>5. worker' = Broadcast(w)
      BY <1>5 DEF ProxyTimesOut
    <3> HIDE DEF w
    <3> QED BY <3>4, <3>5, WokenAlike
  <2>5. \A d \in Queues \ {c} : Still(d)
    BY <1>2, <1>5 DEF FenceWorker
  <2>6. worker[c].pc = "waiting"
    BY <1>5 DEF ProxyTimesOut
  <2>7. \A s \in proxies.submissions :
          s.existing_waiter /\ s.timeline # Waiting(c).value => s \in proxies'.submissions
    BY <2>1, <2>2 DEF Obsolete
  <2>8. \A s \in proxies'.submissions :
          s.existing_waiter => s \in proxies.submissions /\ s.timeline # Waiting(c).value
    BY <2>1, <2>2
  <2> HIDE DEF IInv
  <2> QED BY <1>1, <2>4, <2>5, <2>6, <2>7, <2>8, StoppedMarks
<1>6. ASSUME \A c \in Queues : ~WaitsForProxy(c) /\ ~ProxyReached(c) /\ ~ProxyTimesOut(c)
      PROVE  Marks'
  <2>1. \A d \in Queues : Still(d)
    BY <1>6, StillStep
  <2>2. /\ \A s \in proxies.submissions : s.existing_waiter => s \in proxies'.submissions
        /\ \A s \in proxies'.submissions : s.existing_waiter => s \in proxies.submissions
    <3>1. CASE UNCHANGED proxies
      BY <3>1
    <3>2. ASSUME NEW c \in Queues, slow, EndsSubmit(c)
          PROVE  \E new : ~new.existing_waiter
                   /\ proxies'.submissions = proxies.submissions \cup {new}
      <4>1. PICK fence \in Nat : proxies'.submissions = proxies.submissions \cup
                {[timeline |-> Count, vk_fence |-> fence, existing_waiter |-> FALSE]}
        BY <3>2, AddedProxy
      <4> QED BY <4>1
    <3>3. ASSUME NEW c \in Queues, WaitsForSemaphore(c)
          PROVE  proxies'.submissions = proxies.submissions
      BY <1>1, <3>3 DEF WaitsForSemaphore, ProxiesRecord
    <3>4. ASSUME NEW c \in Queues, SeesObserved(c)
          PROVE  /\ proxies'.submissions \subseteq proxies.submissions
                 /\ \A s \in proxies.submissions : s.existing_waiter => s \in proxies'.submissions
      BY <3>4, CollectedProxies DEF Obsolete
    <3> HIDE DEF IInv
    <3> QED BY <1>6, <3>1, <3>2, <3>3, <3>4, ProxyActions
  <2> HIDE DEF IInv
  <2> QED BY <1>1, <2>1, <2>2, StillMarks
<1> QED BY <1>3, <1>4, <1>5, <1>6

LEMMA ProxyStep ==
  ASSUME IInv, Next
  PROVE  ProxyInv'
<1>1. Marks' /\ ProxyList(proxies, vkd3d_queue.submitted)' /\ slow' = slow
  BY MarksStep, ProxyListStep, SlowStep DEF ProxyList
<1>2. ASSUME ~slow PROVE proxies'.submissions = {} /\ \A c \in Queues : worker'[c].pc = "ready"
  <2>1. /\ proxies \in ProxiesRecord /\ proxies.submissions = {}
        /\ worker \in [Queues -> WorkerRecord] /\ \A c \in Queues : worker[c].pc = "ready"
    BY <1>2 DEF IInv, Shape, ProxyInv
  <2>2. \A c \in Queues : ~WaitsForProxy(c) /\ ~ProxyReached(c) /\ ~ProxyTimesOut(c) /\ ~SeesObserved(c)
    BY <1>2, <2>1 DEF WaitsForProxy, SeesObserved, Iterating, ProxyReached, ProxyTimesOut
  <2>3. \A c \in Queues : WaitsForSemaphore(c) => proxies'.submissions = {}
    BY <2>1 DEF WaitsForSemaphore, ProxiesRecord
  <2>4. proxies'.submissions = {}
    <3>1. UNCHANGED proxies => proxies'.submissions = {}
      BY <2>1
    <3> HIDE DEF IInv
    <3> QED BY <1>2, <2>2, <2>3, <3>1, ProxyActions
  <2>5. ASSUME NEW c \in Queues, FenceWorker(c) PROVE \A d \in Queues : worker'[d].pc = "ready"
    <3>1. JoinsWaiter(c) => \A d \in Queues : worker'[d].pc = "ready"
      BY <1>2 DEF JoinsWaiter, Iterating
    <3>2. WaitsForSemaphore(c) => \A d \in Queues : worker'[d].pc = "ready"
      BY <2>1 DEF WaitsForSemaphore, Completes, WorkerRecord
    <3>3. SemaphoreTimesOut(c) => \A d \in Queues : worker'[d].pc = "ready"
      BY <2>1 DEF SemaphoreTimesOut, Completes, WorkerRecord
    <3> HIDE DEF IInv
    <3> QED BY <2>2, <2>5, <3>1, <3>2, <3>3 DEF FenceWorker
  <2>6. ASSUME NEW c \in Queues, SubmissionThread(c) PROVE \A d \in Queues : worker'[d].pc = "ready"
    <3>1. ASSUME NEW kind \in {"release_submission", "release_fence", "release_resource"},
                 NEW value \in Nat, NEW own \in BOOLEAN, Enqueue(c, kind, value, own)
          PROVE  \A d \in Queues : worker'[d].pc = "ready"
      <4>1. /\ worker'[c].pc = worker[c].pc
            /\ \A d \in Queues \ {c} : worker'[d] = worker[d]
        <5>1. Shape
          BY DEF IInv
        <5> HIDE DEF IInv
        <5> QED BY <3>1, <5>1, EnqueueEffects, ZenonT(60)
      <4> QED BY <2>1, <4>1
    <3> QED BY <2>1, <2>6, <3>1, ThreadEnqueues
  <2> HIDE DEF IInv
  <2> QED BY <2>1, <2>4, <2>5, <2>6
          DEF Next, Call, ReadsInflight, ReleaseResource, ChecksQueue, DropsReference,
              ExternalSubmit, Gpu
<1> QED BY <1>1, <1>2 DEF ProxyInv, Marks, Mark, ProxyList

-----------------------------------------------------------------------------
(* The proxies of a queue's own submissions.                               *)

HasProxyAfter(value) ==
  slow' /\ value > proxies'.observed => \E s \in proxies'.submissions : s.timeline = value

LEMMA HasProxyStep ==
  ASSUME IInv, Next, NEW value \in Nat, HasProxy(value)
  PROVE  HasProxyAfter(value)
BY PendingStep DEF HasProxy, HasProxyAfter, Pending

LEMMA SubmittedHasProxy ==
  ASSUME IInv, Next, NEW c \in Queues, EndsSubmit(c)
  PROVE  HasProxyAfter(Count)
<1>1. CASE slow
  <2>1. PICK fence \in Nat : proxies'.submissions = proxies.submissions \cup
                {[timeline |-> Count, vk_fence |-> fence, existing_waiter |-> FALSE]}
    BY <1>1, AddedProxy
  <2>2. PICK u : u = [timeline |-> Count, vk_fence |-> fence, existing_waiter |-> FALSE]
    OBVIOUS
  <2>3. u \in proxies'.submissions /\ u.timeline = Count
    BY <2>1, <2>2
  <2> QED BY <2>3, Zenon DEF HasProxyAfter
<1>2. CASE ~slow
  BY <1>2, SlowStep DEF HasProxyAfter
<1> QED BY <1>1, <1>2

LEMMA LastSubmissionStep ==
  ASSUME IInv, Next, NEW d \in Queues
  PROVE  \/ queue'[d].last_submission = queue[d].last_submission
         \/ queue'[d].last_submission = Count /\ EndsSubmit(d)
<1>1. queue \in [Queues -> QueueRecord] /\ QueueInv(d)
  BY DEF IInv, Shape
<1>2. ASSUME SubmissionThread(d)
      PROVE  \/ queue'[d].last_submission = queue[d].last_submission
             \/ queue'[d].last_submission = Count /\ EndsSubmit(d)
  <2>1. CASE BeginsSubmit(d)
    BY <1>1, <2>1 DEF BeginsSubmit, QueueRecord
  <2>2. CASE EndsExecute(d)
    <3>1. Done(queue[d]) \in QueueRecord
      BY <1>1, <2>2, DoneType DEF EndsExecute, Working
    <3> QED BY <1>1, <2>2, <3>1 DEF EndsExecute, QueueRecord, Count
  <2>3. CASE EndsSignalShared(d)
    BY <1>1, <2>3 DEF EndsSignalShared, QueueRecord, Count
  <2>4. CASE ReleasesSharedFence(d) \/ RetainsResource(d)
    <3>1. queue[d].submissions # <<>> /\ queue'[d] = Done(queue[d])
      BY <1>1, <2>4 DEF ReleasesSharedFence, RetainsResource, QueueInv, Working
    <3> QED BY <1>1, <3>1, DoneCall
  <2> QED BY <1>2, <2>1, <2>2, <2>3, <2>4 DEF SubmissionThread
<1>3. ASSUME NEW c \in Queues, SubmissionThread(c), c # d PROVE queue'[d] = queue[d]
  BY <1>3, ThreadEffects
<1>4. ASSUME NEW s \in Submission, queue'[d] = AddSubmission(queue[d], s)
      PROVE  queue'[d].last_submission = queue[d].last_submission
  BY <1>1, <1>4, AddedCall
<1>5. ASSUME NEW c \in Queues, NEW type \in {"execute", "signal_shared"}, Call(c, type)
      PROVE  queue'[d].last_submission = queue[d].last_submission
  <2>1. [type |-> type, uses |-> type = "execute" /\ resource.pc = "alive"] \in Submission
    BY DEF Submission
  <2> HIDE DEF IInv
  <2> QED BY <1>4, <1>5, <2>1, CallEffects
<1> HIDE DEF IInv
<1>6. CASE ChecksQueue
  BY <1>4, <1>6, ChecksEffects
<1> QED BY <1>2, <1>3, <1>5, <1>6, OtherQueues

\* A wait is an earlier one, or that of a submission thread.
LEMMA WaitsStep ==
  ASSUME IInv, Next, NEW d \in Queues, NEW i \in DOMAIN worker'[d].fences
  PROVE  \/ \E j \in DOMAIN worker[d].fences : worker'[d].fences[i] = worker[d].fences[j]
         \/ EndsExecute(d) /\ worker'[d].fences[i] =
              [kind |-> "release_submission", value |-> Count, own |-> TRUE]
         \/ ReleasesSharedFence(d) /\ worker'[d].fences[i] =
              [kind |-> "release_fence", value |-> Count, own |-> Count = queue[d].last_submission]
         \/ RetainsResource(d) /\ worker'[d].fences[i] =
              [kind |-> "release_resource", value |-> queue[d].last_submission, own |-> TRUE]
<1> DEFINE Old == \E j \in DOMAIN worker[d].fences : worker'[d].fences[i] = worker[d].fences[j]
<1>1. /\ worker \in [Queues -> WorkerRecord] /\ worker[d].fences \in Seq(Wait)
      /\ Count \in Nat /\ queue[d].last_submission \in Nat
  BY DEF IInv, Shape, WorkerRecord, QueueRecord, TimelineRecord, Count
<1>2. worker'[d].fences = worker[d].fences => Old
  OBVIOUS
<1>3. ASSUME NEW c \in Queues, FenceWorker(c) PROVE Old
  <2>1. CASE c = d /\ Drops(d)
    <3>1. i \in 1..Len(worker[d].fences) - 1 /\ worker'[d].fences[i] = worker[d].fences[i + 1]
      BY <1>1, <2>1, TailWaits DEF Drops
    <3>2. i + 1 \in DOMAIN worker[d].fences
      BY <1>1, <2>1, <3>1, TailWaits DEF Drops
    <3> QED BY <3>1, <3>2
  <2> HIDE DEF Old
  <2> QED BY <1>2, <1>3, <2>1, WorkerEffects DEF Alike
<1>4. ASSUME NEW kind \in {"release_submission", "release_fence", "release_resource"},
             NEW value \in Nat, NEW own \in BOOLEAN, Enqueue(d, kind, value, own)
      PROVE  Old \/ worker'[d].fences[i] = [kind |-> kind, value |-> value, own |-> own]
  <2>1. /\ Len(worker[d].fences) \in Nat /\ DOMAIN worker[d].fences = 1..Len(worker[d].fences)
        /\ DOMAIN worker'[d].fences = 1..Len(worker[d].fences) + 1
        /\ \A k \in 1..Len(worker[d].fences) : worker'[d].fences[k] = worker[d].fences[k]
        /\ worker'[d].fences[Len(worker[d].fences) + 1] = [kind |-> kind, value |-> value, own |-> own]
    <3>1. Shape
      BY DEF IInv
    <3> HIDE DEF IInv
    <3> QED BY <1>4, <3>1, EnqueueEffects, ZenonT(60)
  <2>2. PICK n \in Nat : n = Len(worker[d].fences)
    BY <2>1
  <2>3. CASE i = n + 1
    <3> HIDE DEF Old
    <3> QED BY <2>1, <2>2, <2>3
  <2>4. CASE i \in 1..n
    BY <2>1, <2>2, <2>4
  <2>5. i \in 1..n + 1
    BY <2>1, <2>2
  <2> HIDE DEF Old
  <2> QED BY <2>2, <2>3, <2>4, <2>5
<1>5. ASSUME NEW c \in Queues, SubmissionThread(c), c # d PROVE Old
  <2>1. ASSUME NEW kind \in {"release_submission", "release_fence", "release_resource"},
               NEW value \in Nat, NEW own \in BOOLEAN, Enqueue(c, kind, value, own)
        PROVE  worker'[d] = worker[d]
    <3>1. Shape
      BY DEF IInv
    <3>2. \A e \in Queues \ {c} : worker'[e] = worker[e]
      <4> HIDE DEF IInv, Old
      <4> QED BY <2>1, <3>1, EnqueueEffects, ZenonT(60)
    <3> QED BY <1>5, <3>2
  <2> HIDE DEF Old, IInv
  <2> QED BY <1>2, <1>5, <2>1, ThreadEnqueues
<1>6. CASE EndsExecute(d)
  BY <1>1, <1>4, <1>6 DEF EndsExecute, Count
<1>7. CASE ReleasesSharedFence(d)
  <2>1. (Count = queue[d].last_submission) \in BOOLEAN
    OBVIOUS
  <2>2. Enqueue(d, "release_fence", Count, Count = queue[d].last_submission)
    BY <1>7 DEF ReleasesSharedFence, Count
  <2> HIDE DEF Old
  <2>3. Old \/ worker'[d].fences[i] =
          [kind |-> "release_fence", value |-> Count, own |-> Count = queue[d].last_submission]
    BY <1>1, <1>4, <2>1, <2>2, Zenon
  <2> QED BY <1>7, <2>3, Zenon DEF Old
<1>8. CASE RetainsResource(d)
  BY <1>1, <1>4, <1>8 DEF RetainsResource
<1>9. CASE BeginsSubmit(d) \/ EndsSignalShared(d)
  BY <1>2, <1>9 DEF BeginsSubmit, EndsSignalShared
<1>10. CASE UNCHANGED worker
  BY <1>2, <1>10
<1> HIDE DEF IInv, Old
<1>11. Old => \E j \in DOMAIN worker[d].fences : worker'[d].fences[i] = worker[d].fences[j]
  BY DEF Old
<1> QED BY <1>3, <1>5, <1>6, <1>7, <1>8, <1>9, <1>10, <1>11
        DEF Next, SubmissionThread, Call, ReadsInflight, ReleaseResource, ChecksQueue,
            DropsReference, ExternalSubmit, Gpu

LEMMA OwnStep ==
  ASSUME IInv, Next
  PROVE  OwnInv'
<1>1. /\ Count \in Nat /\ \A c \in Queues : queue[c].last_submission \in Nat
      /\ \A c \in Queues : HasProxy(queue[c].last_submission)
      /\ \A c \in Queues : \A i \in DOMAIN worker[c].fences :
           /\ worker[c].fences[i].value \in Nat
           /\ worker[c].fences[i].own => HasProxy(worker[c].fences[i].value)
  <2>1. /\ Count \in Nat /\ \A c \in Queues : queue[c].last_submission \in Nat
        /\ \A c \in Queues : worker[c].fences \in Seq(Wait)
    BY DEF IInv, Shape, QueueRecord, WorkerRecord, TimelineRecord, Count
  <2>2. \A c \in Queues : \A i \in DOMAIN worker[c].fences : worker[c].fences[i].value \in Nat
    <3> TAKE c \in Queues
    <3> TAKE i \in DOMAIN worker[c].fences
    <3>1. worker[c].fences[i] \in Wait
      BY <2>1
    <3> QED BY <3>1 DEF Wait
  <2> QED BY <2>1, <2>2 DEF IInv, OwnInv
<1>2. ASSUME NEW c \in Queues PROVE HasProxyAfter(queue'[c].last_submission)
  BY <1>1, HasProxyStep, SubmittedHasProxy, LastSubmissionStep
<1>3. ASSUME NEW c \in Queues, NEW i \in DOMAIN worker'[c].fences, worker'[c].fences[i].own
      PROVE  HasProxyAfter(worker'[c].fences[i].value)
  <2>1. CASE \E j \in DOMAIN worker[c].fences : worker'[c].fences[i] = worker[c].fences[j]
    BY <1>1, <1>3, <2>1, HasProxyStep
  <2>2. CASE /\ EndsExecute(c)
             /\ worker'[c].fences[i] = [kind |-> "release_submission", value |-> Count, own |-> TRUE]
    BY <2>2, SubmittedHasProxy DEF EndsExecute
  <2>3. CASE worker'[c].fences[i] =
              [kind |-> "release_fence", value |-> Count, own |-> Count = queue[c].last_submission]
    <3>1. worker'[c].fences[i].value = Count
      BY <2>3
    <3>2. worker'[c].fences[i].own = (Count = queue[c].last_submission)
      <4>1. \A own : [kind |-> "release_fence", value |-> Count, own |-> own].own = own
        OBVIOUS
      <4> QED BY <2>3, <4>1, Zenon
    <3>3. Count = queue[c].last_submission
      BY <1>3, <3>2, Zenon
    <3> QED BY <1>1, <3>1, <3>3, HasProxyStep
  <2>4. CASE worker'[c].fences[i] =
              [kind |-> "release_resource", value |-> queue[c].last_submission, own |-> TRUE]
    BY <1>1, <2>4, HasProxyStep
  <2> QED BY <2>1, <2>2, <2>3, <2>4, WaitsStep
<1> QED BY <1>2, <1>3 DEF OwnInv, HasProxy, HasProxyAfter, Pending

-----------------------------------------------------------------------------
(* Sleepers.                                                               *)

\* A worker that stops to wait on a VkFence wakes all that sleep.
LEMMA BroadcastStep ==
  ASSUME IInv, NEW c \in Queues, ProxyReached(c) \/ ProxyTimesOut(c)
  PROVE  \A d \in Queues : worker'[d].pc # "asleep"
<1>1. worker \in [Queues -> WorkerRecord] /\ worker[c] \in WorkerRecord
  BY DEF IInv, Shape
<1>2. ASSUME NEW w \in [Queues -> WorkerRecord], worker' = Broadcast(w)
      PROVE  \A d \in Queues : worker'[d].pc # "asleep"
  BY <1>2, WokenAlike
<1>3. CASE ProxyReached(c)
  <2>1. [[worker[c] EXCEPT !.pc = "ready"] EXCEPT !.vk_fence = 0] \in WorkerRecord
    BY <1>1 DEF WorkerRecord
  <2>2. [worker EXCEPT ![c].pc = "ready", ![c].vk_fence = 0] \in [Queues -> WorkerRecord]
    BY <1>1, <2>1
  <2> QED BY <1>2, <1>3, <2>2 DEF ProxyReached
<1>4. CASE ProxyTimesOut(c)
  <2>1. worker[c].fences # <<>>
    BY <1>4 DEF ProxyTimesOut, IInv, ProxyInv
  <2>2. Tail(worker[c].fences) \in Seq(Wait)
    BY <1>1, <2>1, SeqTypes DEF WorkerRecord
  <2>3. [[[worker[c] EXCEPT !.fences = Tail(worker[c].fences)] EXCEPT !.pc = "ready"]
          EXCEPT !.vk_fence = 0] \in WorkerRecord
    BY <1>1, <2>2 DEF WorkerRecord
  <2>4. [worker EXCEPT ![c].fences = Tail(@), ![c].pc = "ready", ![c].vk_fence = 0]
          \in [Queues -> WorkerRecord]
    BY <1>1, <2>3
  <2> QED BY <1>2, <1>4, <2>4 DEF ProxyTimesOut
<1> QED BY <1>3, <1>4

\* Who sleeps after a step slept before it or goes to sleep with it.
LEMMA SleeperStep ==
  ASSUME IInv, Next, NEW c \in Queues, worker'[c].pc = "asleep", ~JoinsWaiter(c)
  PROVE  worker[c].pc = "asleep" /\ Waiting(c)' = Waiting(c)
<1>1. /\ worker \in [Queues -> WorkerRecord]
      /\ worker[c].pc # "ready" => worker[c].fences # <<>>
      /\ ~slow => worker[c].pc = "ready"
  BY DEF IInv, Shape, ProxyInv
<1>2. ASSUME UNCHANGED worker PROVE worker[c].pc = "asleep" /\ Waiting(c)' = Waiting(c)
  BY <1>2 DEF Waiting
<1>3. ASSUME NEW d \in Queues, FenceWorker(d), d # c
      PROVE  worker[c].pc = "asleep" /\ Waiting(c)' = Waiting(c)
  BY <1>3, WorkerEffects DEF Alike, Waiting
<1>4. ~FenceWorker(c)
  <2>1. ~ProxyReached(c) /\ ~ProxyTimesOut(c)
    BY BroadcastStep
  <2>2. WaitsForProxy(c) => worker'[c].pc = "waiting"
    BY <1>1 DEF WaitsForProxy, WorkerRecord
  <2>3. WaitsForSemaphore(c) \/ SemaphoreTimesOut(c) \/ SeesObserved(c) => worker'[c].pc = "ready"
    BY <1>1 DEF WaitsForSemaphore, SemaphoreTimesOut, SeesObserved, Completes, WorkerRecord
  <2> QED BY <2>1, <2>2, <2>3 DEF FenceWorker
<1>5. ASSUME NEW d \in Queues, SubmissionThread(d)
      PROVE  worker[c].pc = "asleep" /\ Waiting(c)' = Waiting(c)
  <2>1. ASSUME NEW kind \in {"release_submission", "release_fence", "release_resource"},
               NEW value \in Nat, NEW own \in BOOLEAN, Enqueue(d, kind, value, own)
        PROVE  worker[c].pc = "asleep" /\ Waiting(c)' = Waiting(c)
    <3>1. CASE c = d
      <4>1. worker'[c].pc = worker[c].pc /\ (worker[c].fences # <<>> => Waiting(c)' = Waiting(c))
        <5>1. Shape
          BY DEF IInv
        <5> HIDE DEF IInv
        <5> QED BY <2>1, <3>1, <5>1, EnqueueEffects, ZenonT(60)
      <4> QED BY <1>1, <4>1
    <3>2. CASE c # d
      <4>1. worker'[c] = worker[c]
        BY <1>1, <2>1, <3>2 DEF Enqueue
      <4> QED BY <1>1, <2>1, <4>1 DEF Waiting
    <3> QED BY <3>1, <3>2
  <2> HIDE DEF IInv
  <2> QED BY <1>2, <1>5, <2>1, ThreadEnqueues
<1> HIDE DEF IInv
<1> QED BY <1>2, <1>3, <1>4, <1>5
        DEF Next, Call, ReadsInflight, ReleaseResource, ChecksQueue, DropsReference,
            ExternalSubmit, Gpu

LEMMA SleepersStep ==
  ASSUME IInv, Next
  PROVE  SleepersAreCovered'
<1> SUFFICES ASSUME NEW c \in Queues, worker'[c].pc = "asleep"
             PROVE  /\ Waiting(c)'.value > proxies'.observed
                    /\ \E d \in Queues : worker'[d].pc = "waiting"
                                          /\ Waiting(d)'.value = Waiting(c)'.value
  BY DEF SleepersAreCovered
<1>1. /\ Marks /\ ProxyList(proxies, vkd3d_queue.submitted)
      /\ proxies \in ProxiesRecord /\ worker \in [Queues -> WorkerRecord]
  BY DEF IInv, Shape, ProxyInv, Marks, Mark, ProxyList
<1>2. \A e \in Queues : ~ProxyReached(e) /\ ~ProxyTimesOut(e)
  BY BroadcastStep
<1>3. slow
  <2>1. ASSUME ~slow PROVE FALSE
    <3>1. worker'[c].pc = "ready"
      BY <2>1, ProxyStep, SlowStep DEF ProxyInv
    <3> QED BY <3>1
  <2> QED BY <2>1
<1>4. proxies'.observed = proxies.observed
  <2>1. ASSUME NEW e \in Queues, EndsSubmit(e) PROVE proxies'.observed = proxies.observed
    BY <1>3, <2>1, AddedProxy
  <2>2. ASSUME NEW e \in Queues, SeesObserved(e) PROVE proxies'.observed = proxies.observed
    BY <2>2, CollectedProxies
  <2>3. ASSUME NEW e \in Queues, WaitsForProxy(e) PROVE proxies'.observed = proxies.observed
    BY <1>1, <2>3 DEF WaitsForProxy, ProxiesRecord
  <2>4. \A e \in Queues : ~WaitsForSemaphore(e)
    BY <1>3 DEF WaitsForSemaphore
  <2> HIDE DEF IInv
  <2> QED BY <1>2, <2>1, <2>2, <2>3, <2>4, ProxyActions
<1>5. ASSUME NEW d \in Queues, worker[d].pc = "waiting"
      PROVE  worker'[d].pc = "waiting" /\ Waiting(d)' = Waiting(d)
  <2>1. ~WaitsForProxy(d)
    BY <1>5 DEF WaitsForProxy, Iterating
  <2> QED BY <1>2, <1>5, <2>1, StillStep DEF Still
<1>6. CASE JoinsWaiter(c)
  <2>1. PICK s \in Pending(Waiting(c).value) : s.existing_waiter
    BY <1>6 DEF JoinsWaiter
  <2>2. s \in proxies.submissions /\ s.timeline = Waiting(c).value
    BY <2>1 DEF Pending
  <2>3. PICK d \in Queues : worker[d].pc = "waiting" /\ worker[d].vk_fence = s.vk_fence
    BY <1>1, <2>1, <2>2 DEF Marks
  <2>4. Mark(d) \in proxies.submissions /\ Mark(d).vk_fence = s.vk_fence
        /\ Mark(d).timeline = Waiting(d).value
    BY <1>1, <2>3 DEF Marks, Mark
  <2>5. Waiting(d).value = Waiting(c).value
    BY <1>1, <2>2, <2>4 DEF ProxyList
  <2>6. Waiting(c)' = Waiting(c) /\ Waiting(c).value > proxies.observed
    BY <1>1, <1>6 DEF JoinsWaiter, Waiting, WorkerRecord
  <2> QED BY <1>4, <1>5, <2>3, <2>5, <2>6
<1>7. CASE ~JoinsWaiter(c)
  <2>1. worker[c].pc = "asleep" /\ Waiting(c)' = Waiting(c)
    BY <1>7, SleeperStep
  <2>2. /\ Waiting(c).value > proxies.observed
        /\ \E d \in Queues : worker[d].pc = "waiting" /\ Waiting(d).value = Waiting(c).value
    BY <2>1 DEF IInv, SleepersAreCovered
  <2> QED BY <1>4, <1>5, <2>1, <2>2
<1> QED BY <1>6, <1>7

-----------------------------------------------------------------------------
(* Who holds the resource.                                                 *)

\* Which steps change the resource.
LEMMA ResourceActions ==
  ASSUME IInv, Next
  PROVE  \/ UNCHANGED resource
         \/ ReleaseResource \/ ChecksQueue \/ DropsReference
         \/ \E c \in Queues : ReadsInflight(c) \/ (FenceWorker(c) /\ Drops(c))
<1>1. ASSUME NEW c \in Queues, FenceWorker(c) PROVE UNCHANGED resource \/ Drops(c)
  BY <1>1, WorkerEffects
<1>2. ASSUME NEW c \in Queues, SubmissionThread(c) PROVE UNCHANGED resource
  BY <1>2, ThreadEffects
<1> HIDE DEF IInv
<1> QED BY <1>1, <1>2 DEF Next, Call, ExternalSubmit, Gpu

LEMMA DropsFields ==
  ASSUME IInv, NEW c \in Queues, Drops(c)
  PROVE  /\ resource'.pc = resource.pc /\ resource'.todo = resource.todo
         /\ resource'.checked = resource.checked /\ resource'.inflight = resource.inflight
         /\ resource'.refcount = IF Waiting(c).kind = "release_resource"
                                 THEN resource.refcount - 1 ELSE resource.refcount
<1>1. resource \in ResourceRecord
  BY DEF IInv, Shape
<1> QED BY <1>1 DEF Drops, ResourceRecord

Checked(c) == resource.pc = "check" /\ resource.checked = c

\* A queue that was not read yet is read next, or stays unread.
LEMMA UnreadStep ==
  ASSUME IInv, Next, NEW c \in Queues, Unread(c)
  PROVE  \/ Unread(c)'
         \/ /\ Checked(c)' /\ resource'.inflight = queue[c].inflight /\ UNCHANGED queue
<1>1. resource \in ResourceRecord
  BY DEF IInv, Shape
<1>2. CASE ReleaseResource
  BY <1>1, <1>2 DEF ReleaseResource, Unread, ResourceRecord
<1>3. ASSUME NEW d \in Queues, ReadsInflight(d)
      PROVE  \/ Unread(c)'
             \/ /\ Checked(c)' /\ resource'.inflight = queue[c].inflight /\ UNCHANGED queue
  BY <1>1, <1>3 DEF ReadsInflight, Unread, Checked, ResourceRecord
<1>4. CASE ChecksQueue
  <2>1. /\ resource.pc = "check" /\ resource'.todo = resource.todo
    BY <1>4, ChecksEffects
  <2> QED BY <2>1 DEF Unread
<1>5. CASE DropsReference
  BY <1>5 DEF DropsReference, Unread
<1>6. ASSUME NEW d \in Queues, Drops(d) PROVE Unread(c)'
  BY <1>6, DropsFields DEF Unread
<1>7. CASE UNCHANGED resource
  BY <1>7 DEF Unread
<1> HIDE DEF IInv
<1> QED BY <1>2, <1>3, <1>4, <1>5, <1>6, <1>7, ResourceActions

\* A queue that was read is checked next.
LEMMA CheckedStep ==
  ASSUME IInv, Next, NEW c \in Queues, Checked(c)
  PROVE  \/ Checked(c)' /\ resource'.inflight = resource.inflight
         \/ ChecksQueue
<1>1. ASSUME NEW d \in Queues, Drops(d) PROVE Checked(c)' /\ resource'.inflight = resource.inflight
  BY <1>1, DropsFields DEF Checked
<1>2. CASE UNCHANGED resource
  BY <1>2 DEF Checked
<1>3. ~ReleaseResource /\ ~DropsReference /\ \A d \in Queues : ~ReadsInflight(d)
  BY DEF Checked, ReleaseResource, DropsReference, ReadsInflight
<1> HIDE DEF IInv
<1> QED BY <1>1, <1>2, <1>3, ResourceActions

Holds(c) == Retains(c) \/ Releases(c)

RetainsOnce(c) == \A i, j \in DOMAIN queue[c].submissions : RetainAt(c, i) /\ RetainAt(c, j) => i = j
ReleasesOnce(c) == \A i, j \in DOMAIN worker[c].fences : ReleaseAt(c, i) /\ ReleaseAt(c, j) => i = j

\* A queue retains the resource once, or waits once to release it.
HoldsOnce(c) ==
  /\ ~(Retains(c) /\ Releases(c))
  /\ RetainsOnce(c) /\ ReleasesOnce(c)

LEMMA AddRetains ==
  ASSUME IInv, NEW c \in Queues, NEW s \in Submission, queue'[c] = AddSubmission(queue[c], s)
  PROVE  /\ Retains(c)' <=> Retains(c) \/ s.type = "retain"
         /\ RetainsOnce(c) /\ ~(Retains(c) /\ s.type = "retain") => RetainsOnce(c)'
<1>1. queue[c] \in QueueRecord
  BY DEF IInv, Shape
<1>2. PICK n \in Nat : n = Len(queue[c].submissions)
  BY <1>1, AddedCall
<1>3. /\ DOMAIN queue'[c].submissions = 1..n + 1 /\ DOMAIN queue[c].submissions = 1..n
      /\ \A i \in 1..n : RetainAt(c, i)' <=> RetainAt(c, i)
      /\ RetainAt(c, n + 1)' <=> s.type = "retain"
  BY <1>1, <1>2, AddedCall DEF RetainAt
<1> HIDE DEF RetainAt, IInv
<1>4. Retains(c)' <=> Retains(c) \/ s.type = "retain"
  BY <1>3 DEF Retains
<1>5. ASSUME RetainsOnce(c), ~(Retains(c) /\ s.type = "retain") PROVE RetainsOnce(c)'
  BY <1>3, <1>5 DEF RetainsOnce, Retains
<1> QED BY <1>4, <1>5

LEMMA DoneRetains ==
  ASSUME IInv, NEW c \in Queues, queue[c].submissions # <<>>,
         queue'[c].submissions = Done(queue[c]).submissions
  PROVE  /\ RetainsOnce(c) => RetainsOnce(c)'
         /\ Head(queue[c].submissions).type # "retain" => (Retains(c)' <=> Retains(c))
         /\ Head(queue[c].submissions).type = "retain" /\ RetainsOnce(c) => Retains(c) /\ ~Retains(c)'
<1>1. queue[c] \in QueueRecord
  BY DEF IInv, Shape
<1>2. PICK n \in Nat \ {0} : n = Len(queue[c].submissions)
  BY <1>1, DoneCall
<1>3. /\ DOMAIN queue'[c].submissions = 1..n - 1 /\ DOMAIN queue[c].submissions = 1..n
      /\ \A i \in 1..n - 1 : RetainAt(c, i)' <=> RetainAt(c, i + 1)
      /\ RetainAt(c, 1) <=> Head(queue[c].submissions).type = "retain"
  BY <1>1, <1>2, DoneCall DEF RetainAt
<1>4. \A i \in 1..n : i = 1 \/ (i - 1 \in 1..n - 1 /\ (i - 1) + 1 = i)
  OBVIOUS
<1>5. \A i \in 1..n - 1 : i + 1 \in 1..n /\ i + 1 # 1
  OBVIOUS
<1> HIDE DEF RetainAt, IInv
<1>6. ASSUME RetainsOnce(c) PROVE RetainsOnce(c)'
  <2> SUFFICES ASSUME NEW i \in 1..n - 1, NEW j \in 1..n - 1, RetainAt(c, i)', RetainAt(c, j)'
               PROVE  i = j
    BY <1>3 DEF RetainsOnce
  <2>1. i + 1 = j + 1
    BY <1>3, <1>5, <1>6 DEF RetainsOnce
  <2> QED BY <2>1
<1>7. ASSUME Head(queue[c].submissions).type # "retain" PROVE Retains(c)' <=> Retains(c)
  <2>1. ASSUME Retains(c)' PROVE Retains(c)
    BY <1>3, <1>5, <2>1 DEF Retains
  <2>2. ASSUME Retains(c) PROVE Retains(c)'
    <3>1. PICK i \in 1..n : RetainAt(c, i)
      BY <1>3, <2>2 DEF Retains
    <3>2. PICK j \in 1..n - 1 : j + 1 = i
      BY <1>3, <1>4, <1>7, <3>1
    <3>3. RetainAt(c, j)'
      BY <1>3, <3>1, <3>2
    <3> QED BY <1>3, <3>3 DEF Retains
  <2> QED BY <2>1, <2>2
<1>8. ASSUME Head(queue[c].submissions).type = "retain", RetainsOnce(c)
      PROVE  Retains(c) /\ ~Retains(c)'
  BY <1>3, <1>5, <1>8, SMTT(30) DEF Retains, RetainsOnce
<1> QED BY <1>6, <1>7, <1>8

LEMMA EnqueueReleases ==
  ASSUME IInv, NEW c \in Queues, NEW value \in Nat, NEW own \in BOOLEAN,
         NEW kind \in {"release_submission", "release_fence", "release_resource"},
         Enqueue(c, kind, value, own)
  PROVE  /\ Releases(c)' <=> Releases(c) \/ kind = "release_resource"
         /\ ReleasesOnce(c) /\ ~(Releases(c) /\ kind = "release_resource") => ReleasesOnce(c)'
<1>1. PICK n \in Nat : n = Len(worker[c].fences)
  <2>1. Shape
    BY DEF IInv
  <2> HIDE DEF IInv
  <2> QED BY <2>1, EnqueueEffects, ZenonT(60)
<1>2. [kind |-> kind, value |-> value, own |-> own].kind = kind
  OBVIOUS
<1>3. /\ DOMAIN worker'[c].fences = 1..n + 1 /\ DOMAIN worker[c].fences = 1..n
      /\ \A i \in 1..n : worker'[c].fences[i] = worker[c].fences[i]
      /\ worker'[c].fences[n + 1].kind = kind
  <2>1. Shape
    BY DEF IInv
  <2> HIDE DEF IInv
  <2> QED BY <1>1, <1>2, <2>1, EnqueueEffects, ZenonT(60)
<1>4. /\ \A i \in 1..n : ReleaseAt(c, i)' <=> ReleaseAt(c, i)
      /\ ReleaseAt(c, n + 1)' <=> kind = "release_resource"
  BY <1>3 DEF ReleaseAt
<1> HIDE DEF ReleaseAt, IInv
<1>5. Releases(c)' <=> Releases(c) \/ kind = "release_resource"
  BY <1>3, <1>4 DEF Releases
<1>6. ASSUME ReleasesOnce(c), ~(Releases(c) /\ kind = "release_resource") PROVE ReleasesOnce(c)'
  <2>1. SUFFICES ASSUME NEW i \in 1..n + 1, NEW j \in 1..n + 1, ReleaseAt(c, i)', ReleaseAt(c, j)'
                 PROVE  i = j
    BY <1>3 DEF ReleasesOnce
  <2>2. CASE kind = "release_resource"
    <3>1. \A k \in 1..n : ~ReleaseAt(c, k)
      BY <1>3, <1>6, <2>2 DEF Releases
    <3> QED BY <1>1, <1>4, <2>1, <3>1
  <2>3. CASE kind # "release_resource"
    <3>1. i \in 1..n /\ j \in 1..n
      BY <1>1, <1>4, <2>1, <2>3
    <3> QED BY <1>3, <1>4, <1>6, <2>1, <3>1 DEF ReleasesOnce
  <2> QED BY <2>2, <2>3
<1> QED BY <1>5, <1>6

LEMMA DropReleases ==
  ASSUME IInv, NEW c \in Queues, Drops(c)
  PROVE  /\ ReleasesOnce(c) => ReleasesOnce(c)'
         /\ Waiting(c).kind # "release_resource" => (Releases(c)' <=> Releases(c))
         /\ Waiting(c).kind = "release_resource" /\ ReleasesOnce(c) => Releases(c) /\ ~Releases(c)'
<1>1. worker[c].fences \in Seq(Wait) /\ worker[c].fences # <<>>
      /\ worker'[c].fences = Tail(worker[c].fences)
  BY DEF IInv, Shape, WorkerRecord, Drops
<1>2. PICK n \in Nat \ {0} : n = Len(worker[c].fences)
  BY <1>1, TailWaits
<1>3. /\ DOMAIN worker'[c].fences = 1..n - 1 /\ DOMAIN worker[c].fences = 1..n
      /\ \A i \in 1..n - 1 : ReleaseAt(c, i)' <=> ReleaseAt(c, i + 1)
      /\ ReleaseAt(c, 1) <=> Waiting(c).kind = "release_resource"
  BY <1>1, <1>2, TailWaits DEF ReleaseAt, Waiting
<1>4. \A i \in 1..n : i = 1 \/ (i - 1 \in 1..n - 1 /\ (i - 1) + 1 = i)
  OBVIOUS
<1>5. \A i \in 1..n - 1 : i + 1 \in 1..n /\ i + 1 # 1
  OBVIOUS
<1> HIDE DEF ReleaseAt, IInv
<1>6. ASSUME ReleasesOnce(c) PROVE ReleasesOnce(c)'
  <2> SUFFICES ASSUME NEW i \in 1..n - 1, NEW j \in 1..n - 1, ReleaseAt(c, i)', ReleaseAt(c, j)'
               PROVE  i = j
    BY <1>3 DEF ReleasesOnce
  <2>1. i + 1 = j + 1
    BY <1>3, <1>5, <1>6 DEF ReleasesOnce
  <2> QED BY <2>1
<1>7. ASSUME Waiting(c).kind # "release_resource" PROVE Releases(c)' <=> Releases(c)
  <2>1. ASSUME Releases(c)' PROVE Releases(c)
    BY <1>3, <1>5, <2>1 DEF Releases
  <2>2. ASSUME Releases(c) PROVE Releases(c)'
    <3>1. PICK i \in 1..n : ReleaseAt(c, i)
      BY <1>3, <2>2 DEF Releases
    <3>2. PICK j \in 1..n - 1 : j + 1 = i
      BY <1>3, <1>4, <1>7, <3>1
    <3>3. ReleaseAt(c, j)'
      BY <1>3, <3>1, <3>2
    <3> QED BY <1>3, <3>3 DEF Releases
  <2> QED BY <2>1, <2>2
<1>8. ASSUME Waiting(c).kind = "release_resource", ReleasesOnce(c)
      PROVE  Releases(c) /\ ~Releases(c)'
  BY <1>3, <1>5, <1>8 DEF Releases, ReleasesOnce
<1> QED BY <1>6, <1>7, <1>8

\* A queue whose calls and waits stay what they are.
LEMMA SameHolds ==
  ASSUME NEW c \in Queues, HoldsOnce(c), queue'[c].submissions = queue[c].submissions,
         worker'[c].fences = worker[c].fences
  PROVE  HoldsOnce(c)' /\ (Holds(c)' <=> Holds(c))
BY DEF HoldsOnce, Holds, Retains, Releases, RetainsOnce, ReleasesOnce, RetainAt, ReleaseAt

\* Only the half that changes is looked at.
LEMMA SameRetains ==
  ASSUME NEW c \in Queues, queue'[c].submissions = queue[c].submissions
  PROVE  (Retains(c)' <=> Retains(c)) /\ (RetainsOnce(c)' <=> RetainsOnce(c))
BY DEF Retains, RetainsOnce, RetainAt

LEMMA SameReleases ==
  ASSUME NEW c \in Queues, worker'[c].fences = worker[c].fences
  PROVE  (Releases(c)' <=> Releases(c)) /\ (ReleasesOnce(c)' <=> ReleasesOnce(c))
BY DEF Releases, ReleasesOnce, ReleaseAt

\* The submission thread keeps or hands over what the queue holds.
LEMMA ThreadHolds ==
  ASSUME IInv, NEW c \in Queues, SubmissionThread(c), HoldsOnce(c)
  PROVE  HoldsOnce(c)' /\ (Holds(c)' <=> Holds(c))
<1> DEFINE Goal == HoldsOnce(c)' /\ (Holds(c)' <=> Holds(c))
<1> SUFFICES Goal
  OBVIOUS
<1>1. /\ queue \in [Queues -> QueueRecord] /\ QueueInv(c)
      /\ Count \in Nat /\ queue[c].last_submission \in Nat
  BY DEF IInv, Shape, TimelineRecord, QueueRecord, Count
<1>2. ASSUME UNCHANGED worker, queue'[c].submissions = queue[c].submissions PROVE Goal
  BY <1>2, SameHolds
<1>3. CASE BeginsSubmit(c) \/ EndsSignalShared(c)
  <2>1. UNCHANGED worker /\ queue'[c].submissions = queue[c].submissions
    BY <1>1, <1>3 DEF BeginsSubmit, EndsSignalShared, QueueRecord
  <2> QED BY <1>2, <2>1
<1>4. ASSUME queue[c].submissions # <<>>, Head(queue[c].submissions).type # "retain",
             queue'[c].submissions = Done(queue[c]).submissions,
             NEW kind \in {"release_submission", "release_fence"},
             NEW own \in BOOLEAN, Enqueue(c, kind, Count, own)
      PROVE  Goal
  <2>1. (Retains(c)' <=> Retains(c)) /\ (RetainsOnce(c) => RetainsOnce(c)')
    BY <1>4, DoneRetains
  <2>2. (Releases(c)' <=> Releases(c)) /\ (ReleasesOnce(c) => ReleasesOnce(c)')
    BY <1>1, <1>4, EnqueueReleases
  <2> QED BY <2>1, <2>2 DEF HoldsOnce, Holds
<1>5. CASE EndsExecute(c)
  <2>1. queue[c].submissions # <<>> /\ Head(queue[c].submissions).type # "retain"
    BY <1>5 DEF EndsExecute, Working
  <2>2. Done(queue[c]) \in QueueRecord
    BY <1>1, <2>1, DoneType
  <2>3. queue'[c].submissions = Done(queue[c]).submissions
    BY <1>1, <1>5, <2>2 DEF EndsExecute, QueueRecord
  <2>4. Enqueue(c, "release_submission", Count, TRUE)
    BY <1>5 DEF EndsExecute, Count
  <2> QED BY <1>4, <2>1, <2>3, <2>4
<1>6. CASE ReleasesSharedFence(c)
  <2>1. queue[c].submissions # <<>> /\ Head(queue[c].submissions).type # "retain"
    BY <1>1, <1>6 DEF ReleasesSharedFence, QueueInv, Working
  <2>2. queue'[c].submissions = Done(queue[c]).submissions
    BY <1>1, <1>6 DEF ReleasesSharedFence
  <2>3. Enqueue(c, "release_fence", Count, Count = queue[c].last_submission)
    BY <1>6 DEF ReleasesSharedFence, Count
  <2>4. (Count = queue[c].last_submission) \in BOOLEAN
    OBVIOUS
  <2> HIDE DEF Goal
  <2> QED BY <1>4, <2>1, <2>2, <2>3, <2>4, Zenon
<1>7. CASE RetainsResource(c)
  <2>1. queue[c].submissions # <<>> /\ Head(queue[c].submissions).type = "retain"
    BY <1>7 DEF RetainsResource, Working
  <2>2. queue'[c].submissions = Done(queue[c]).submissions
    BY <1>1, <1>7 DEF RetainsResource
  <2>3. Retains(c) /\ ~Retains(c)' /\ RetainsOnce(c)'
    BY <2>1, <2>2, DoneRetains DEF HoldsOnce
  <2>4. Enqueue(c, "release_resource", queue[c].last_submission, TRUE) /\ ~Releases(c)
    BY <1>7, <2>3 DEF RetainsResource, HoldsOnce
  <2>5. Releases(c)' /\ ReleasesOnce(c)'
    BY <1>1, <2>4, EnqueueReleases DEF HoldsOnce
  <2> QED BY <2>3, <2>5 DEF HoldsOnce, Holds
<1> HIDE DEF Goal
<1> QED BY <1>3, <1>5, <1>6, <1>7 DEF SubmissionThread

\* How the holders change, and what is counted of them.
LEMMA HoldersStep ==
  ASSUME IInv, Next
  PROVE  /\ \A c \in Queues : HoldsOnce(c)'
         /\ \/ Holders' = Holders /\ resource'.refcount = resource.refcount
            \/ Holders' = Holders /\ DropsReference
            \/ /\ ChecksQueue /\ ~LooksIdle(resource.checked)
               /\ Holders' = Holders \cup {resource.checked}
            \/ \E c \in Holders :
                 /\ FenceWorker(c) /\ Drops(c) /\ resource'.refcount = resource.refcount - 1
                 /\ Holders' = Holders \ {c}
<1> DEFINE Once == \A c \in Queues : HoldsOnce(c)'
           Change ==
             \/ Holders' = Holders /\ resource'.refcount = resource.refcount
             \/ Holders' = Holders /\ DropsReference
             \/ /\ ChecksQueue /\ ~LooksIdle(resource.checked)
                /\ Holders' = Holders \cup {resource.checked}
             \/ \E c \in Holders :
                  /\ FenceWorker(c) /\ Drops(c) /\ resource'.refcount = resource.refcount - 1
                  /\ Holders' = Holders \ {c}
<1> SUFFICES Once /\ Change
  OBVIOUS
<1>1. /\ \A c \in Queues : HoldsOnce(c)
      /\ queue \in [Queues -> QueueRecord] /\ worker \in [Queues -> WorkerRecord]
      /\ resource \in ResourceRecord
  BY DEF IInv, HoldInv, HoldsOnce, RetainsOnce, ReleasesOnce, Shape
<1>2. Holders = {c \in Queues : Holds(c)}
  BY DEF Holders, Holds
<1>3. Holders' = {c \in Queues : Holds(c)'}
  BY DEF Holders, Holds
<1>4. ASSUME \A c \in Queues : HoldsOnce(c)' /\ (Holds(c)' <=> Holds(c))
      PROVE  Once /\ Holders' = Holders
  BY <1>2, <1>3, <1>4
<1>5. CASE UNCHANGED <<queue, worker>> /\ (DropsReference \/ resource'.refcount = resource.refcount)
  BY <1>1, <1>4, <1>5, SameHolds
<1>6. ASSUME NEW c \in Queues, SubmissionThread(c) PROVE Once /\ Change
  <2>1. ASSUME NEW d \in Queues, d # c PROVE HoldsOnce(d)' /\ (Holds(d)' <=> Holds(d))
    <3>1. queue'[d] = queue[d]
      BY <1>6, <2>1, ThreadEffects
    <3>2. ASSUME NEW kind \in {"release_submission", "release_fence", "release_resource"},
                 NEW value \in Nat, NEW own \in BOOLEAN, Enqueue(c, kind, value, own)
          PROVE  worker'[d] = worker[d]
      BY <1>1, <2>1, <3>2 DEF Enqueue
    <3>3. worker'[d] = worker[d]
      BY <1>6, <3>2, ThreadEnqueues
    <3> QED BY <1>1, <3>1, <3>3, SameHolds
  <2>2. HoldsOnce(c)' /\ (Holds(c)' <=> Holds(c))
    BY <1>1, <1>6, ThreadHolds
  <2>3. UNCHANGED resource
    BY <1>6, ThreadEffects
  <2> QED BY <1>4, <2>1, <2>2, <2>3
<1>7. ASSUME NEW c \in Queues, NEW type \in {"execute", "signal_shared"}, Call(c, type)
      PROVE  Once /\ Change
  <2> DEFINE s == [type |-> type, uses |-> type = "execute" /\ resource.pc = "alive"]
  <2>1. s \in Submission /\ s.type # "retain"
    BY DEF Submission
  <2> HIDE DEF s
  <2>2. /\ queue'[c] = AddSubmission(queue[c], s) /\ UNCHANGED <<worker, resource>>
        /\ \A d \in Queues \ {c} : queue'[d] = queue[d]
    BY <1>7, CallEffects DEF s
  <2>3. (Retains(c)' <=> Retains(c)) /\ (RetainsOnce(c) => RetainsOnce(c)')
    BY <2>1, <2>2, AddRetains
  <2>4. HoldsOnce(c)' /\ (Holds(c)' <=> Holds(c))
    BY <1>1, <2>2, <2>3, SameReleases DEF HoldsOnce, Holds
  <2>5. \A d \in Queues \ {c} : HoldsOnce(d)' /\ (Holds(d)' <=> Holds(d))
    BY <1>1, <2>2, SameHolds
  <2> QED BY <1>4, <2>2, <2>4, <2>5
<1>8. ASSUME NEW c \in Queues, FenceWorker(c) PROVE Once /\ Change
  <2>1. UNCHANGED queue /\ \A d \in Queues \ {c} : worker'[d].fences = worker[d].fences
    BY <1>8, WorkerEffects DEF Alike
  <2>2. \A d \in Queues \ {c} : HoldsOnce(d)' /\ (Holds(d)' <=> Holds(d))
    BY <1>1, <2>1, SameHolds
  <2>3. CASE worker'[c].fences = worker[c].fences /\ UNCHANGED resource
    <3>1. HoldsOnce(c)' /\ (Holds(c)' <=> Holds(c))
      BY <1>1, <2>1, <2>3, SameHolds
    <3> QED BY <1>4, <2>2, <2>3, <3>1
  <2>4. CASE Drops(c) /\ Waiting(c).kind # "release_resource"
    <3>1. HoldsOnce(c)' /\ (Holds(c)' <=> Holds(c))
      BY <1>1, <2>1, <2>4, SameRetains, DropReleases DEF HoldsOnce, Holds
    <3>2. resource'.refcount = resource.refcount
      BY <2>4 DEF Drops
    <3> QED BY <1>4, <2>2, <3>1, <3>2
  <2>5. CASE Drops(c) /\ Waiting(c).kind = "release_resource"
    <3>1. Releases(c) /\ ~Releases(c)' /\ ReleasesOnce(c)'
      BY <1>1, <2>5, DropReleases DEF HoldsOnce
    <3>2. (Retains(c)' <=> Retains(c)) /\ (RetainsOnce(c)' <=> RetainsOnce(c)) /\ ~Retains(c)
      BY <1>1, <2>1, <3>1, SameRetains DEF HoldsOnce
    <3>3. HoldsOnce(c)' /\ Holds(c) /\ ~Holds(c)'
      BY <1>1, <3>1, <3>2 DEF HoldsOnce, Holds
    <3>4. c \in Holders /\ Holders' = Holders \ {c} /\ Once
      BY <1>2, <1>3, <2>2, <3>3
    <3>5. resource'.refcount = resource.refcount - 1
      BY <2>5, DropsFields
    <3> QED BY <1>8, <2>5, <3>4, <3>5
  <2> QED BY <1>8, <2>3, <2>4, <2>5, WorkerEffects
<1>9. CASE ChecksQueue
  <2> DEFINE c == resource.checked
             s == [type |-> "retain", uses |-> FALSE]
  <2>1. CASE LooksIdle(c)
    <3>1. UNCHANGED <<queue, worker>> /\ resource'.refcount = resource.refcount
      BY <1>9, <2>1, ChecksEffects
    <3> QED BY <1>5, <3>1
  <2>2. CASE ~LooksIdle(c)
    <3>1. /\ c \in Queues /\ c \notin Holders /\ s \in Submission /\ s.type = "retain"
          /\ queue'[c] = AddSubmission(queue[c], s) /\ UNCHANGED worker
          /\ \A d \in Queues \ {c} : queue'[d] = queue[d]
      BY <1>9, <2>2, ChecksEffects
    <3>2. PICK e \in Queues : e = c
      BY <3>1
    <3> HIDE DEF c, s
    <3>3. ~Holds(e) /\ Retains(e)' /\ (RetainsOnce(e) => RetainsOnce(e)')
      BY <1>2, <3>1, <3>2, AddRetains DEF Holds
    <3>4. HoldsOnce(e)' /\ Holds(e)'
      BY <1>1, <3>1, <3>3, SameReleases DEF HoldsOnce, Holds
    <3>5. \A d \in Queues \ {e} : HoldsOnce(d)' /\ (Holds(d)' <=> Holds(d))
      BY <1>1, <3>1, <3>2, SameHolds
    <3>6. Holders' = Holders \cup {e} /\ Once
      BY <1>2, <1>3, <3>4, <3>5
    <3> QED BY <1>9, <2>2, <3>2, <3>6 DEF c
  <2> QED BY <2>1, <2>2
<1> HIDE DEF IInv, Once, Change
<1>10. ASSUME ReleaseResource \/ (\E c \in Queues : ReadsInflight(c))
       PROVE  UNCHANGED <<queue, worker>> /\ resource'.refcount = resource.refcount
  BY <1>1, <1>10 DEF ReleaseResource, ReadsInflight, ResourceRecord
<1>11. ASSUME DropsReference \/ ExternalSubmit \/ Gpu
       PROVE  /\ UNCHANGED <<queue, worker>>
              /\ DropsReference \/ resource'.refcount = resource.refcount
  BY <1>11 DEF DropsReference, ExternalSubmit, Gpu
<1> QED BY <1>5, <1>6, <1>7, <1>8, <1>9, <1>10, <1>11 DEF Next

\* Once read, a queue is not read again.
LEMMA UnreadShrinks ==
  ASSUME IInv, Next, NEW c \in Queues, Unread(c)'
  PROVE  Unread(c)
<1>1. resource \in ResourceRecord
  BY DEF IInv, Shape
<1>2. CASE ReleaseResource
  BY <1>2 DEF ReleaseResource, Unread
<1>3. ASSUME NEW d \in Queues, ReadsInflight(d) PROVE Unread(c)
  BY <1>1, <1>3 DEF ReadsInflight, Unread, ResourceRecord
<1>4. CASE ChecksQueue
  BY <1>4, ChecksEffects DEF Unread
<1>5. CASE DropsReference
  BY <1>1, <1>5 DEF DropsReference, Unread, ResourceRecord
<1>6. ASSUME NEW d \in Queues, Drops(d) PROVE Unread(c)
  BY <1>6, DropsFields DEF Unread
<1>7. CASE UNCHANGED resource
  BY <1>7 DEF Unread
<1> HIDE DEF IInv
<1> QED BY <1>2, <1>3, <1>4, <1>5, <1>6, <1>7, ResourceActions

LEMMA HoldStep ==
  ASSUME IInv, Next
  PROVE  HoldInv'
<1>1. /\ resource \in ResourceRecord /\ resource.refcount \in Int
      /\ Holders \subseteq Queues
  BY DEF IInv, Shape, ResourceRecord, Holders
<1>2. IsFiniteSet(Holders) /\ Cardinality(Holders) \in Nat
  BY <1>1, QueuesAssumption, FS_Subset, FS_CardinalityType
<1>3. /\ resource.refcount = Cardinality(Holders) + (IF resource.pc = "released" THEN 0 ELSE 1)
      /\ resource.pc \in {"alive", "released"} => resource.todo = {}
      /\ resource.pc = "check" => resource.checked \in Queues \ (resource.todo \cup Holders)
      /\ \A c \in Holders : ~Unread(c)
  BY DEF IInv, HoldInv
<1>4. /\ \A c \in Queues : HoldsOnce(c)'
      /\ \/ Holders' = Holders /\ resource'.refcount = resource.refcount
         \/ Holders' = Holders /\ DropsReference
         \/ /\ ChecksQueue /\ ~LooksIdle(resource.checked)
            /\ Holders' = Holders \cup {resource.checked}
         \/ \E c \in Holders :
              /\ FenceWorker(c) /\ Drops(c) /\ resource'.refcount = resource.refcount - 1
              /\ Holders' = Holders \ {c}
  BY HoldersStep
<1>5. ASSUME ChecksQueue
      PROVE  /\ resource.pc = "check" /\ resource'.pc = "scan" /\ resource'.todo = resource.todo
             /\ resource.checked \in Queues \ (resource.todo \cup Holders)
             /\ ~LooksIdle(resource.checked) => resource'.refcount = resource.refcount + 1
  BY <1>3, <1>5, ChecksEffects
<1>6. ASSUME DropsReference
      PROVE  /\ resource.pc = "scan" /\ resource'.pc = "released" /\ resource'.todo = {}
             /\ resource.todo = {} /\ resource'.refcount = resource.refcount - 1
  BY <1>1, <1>6 DEF DropsReference, ResourceRecord
<1>7. ASSUME ReleaseResource
      PROVE  resource.pc = "alive" /\ resource'.pc = "scan"
  BY <1>1, <1>7 DEF ReleaseResource, ResourceRecord
<1>8. ASSUME NEW c \in Queues, ReadsInflight(c)
      PROVE  /\ resource.pc = "scan" /\ resource'.pc = "check" /\ c \in resource.todo
             /\ resource'.checked = c /\ resource'.todo = resource.todo \ {c}
  BY <1>1, <1>8 DEF ReadsInflight, ResourceRecord
<1>9. ASSUME NEW c \in Queues, Drops(c)
      PROVE  /\ resource'.pc = resource.pc /\ resource'.todo = resource.todo
             /\ resource'.checked = resource.checked
  BY <1>9, DropsFields
<1>10. resource'.refcount = Cardinality(Holders') + (IF resource'.pc = "released" THEN 0 ELSE 1)
  <2>1. CASE Holders' = Holders /\ DropsReference
    BY <1>2, <1>3, <1>6, <2>1
  <2>2. CASE ChecksQueue /\ ~LooksIdle(resource.checked)
             /\ Holders' = Holders \cup {resource.checked}
    <3>1. Cardinality(Holders \cup {resource.checked}) = Cardinality(Holders) + 1
      BY <1>2, <1>5, <2>2, FS_AddElement
    <3> QED BY <1>2, <1>3, <1>5, <2>2, <3>1
  <2>3. ASSUME NEW c \in Holders, Drops(c), resource'.refcount = resource.refcount - 1,
               Holders' = Holders \ {c}
        PROVE  resource'.refcount = Cardinality(Holders') + (IF resource'.pc = "released" THEN 0 ELSE 1)
    <3>1. Cardinality(Holders \ {c}) = Cardinality(Holders) - 1
      BY <1>2, <2>3, FS_RemoveElement
    <3> QED BY <1>1, <1>2, <1>3, <1>9, <2>3, <3>1
  <2>4. CASE Holders' = Holders /\ resource'.refcount = resource.refcount
    <3>1. resource'.pc = "released" <=> resource.pc = "released"
      <4>1. ~DropsReference
        BY <1>1, <1>6, <2>4
      <4> HIDE DEF IInv
      <4> QED BY <1>5, <1>7, <1>8, <1>9, <4>1, ResourceActions
    <3> QED BY <1>3, <2>4, <3>1
  <2> QED BY <1>4, <2>1, <2>2, <2>3, <2>4
<1>11. resource'.pc \in {"alive", "released"} => resource'.todo = {}
  BY <1>3, <1>5, <1>6, <1>7, <1>8, <1>9, ResourceActions
<1>12. Holders' \subseteq Holders \/ ChecksQueue
  BY <1>4
<1>13. resource'.pc = "check" => resource'.checked \in Queues \ (resource'.todo \cup Holders')
  <2>1. ASSUME resource'.pc = "check", ~ChecksQueue, NEW c \in Queues, ReadsInflight(c)
        PROVE  resource'.checked \in Queues \ (resource'.todo \cup Holders')
    BY <1>3, <1>8, <1>12, <2>1 DEF Unread
  <2> HIDE DEF IInv
  <2> QED BY <1>3, <1>5, <1>6, <1>7, <1>9, <1>12, <2>1, ResourceActions
<1>14. \A c \in Holders' : ~Unread(c)'
  <2> SUFFICES ASSUME NEW c \in Holders', Unread(c)' PROVE FALSE
    OBVIOUS
  <2>1. c \in Queues
    BY DEF Holders
  <2>2. Unread(c) /\ c \notin Holders
    BY <1>3, <2>1, UnreadShrinks
  <2>3. ChecksQueue /\ c = resource.checked
    BY <1>4, <2>2
  <2> QED BY <1>5, <2>2, <2>3 DEF Unread
<1> QED BY <1>4, <1>10, <1>11, <1>13, <1>14 DEF HoldInv, HoldsOnce, RetainsOnce, ReleasesOnce

-----------------------------------------------------------------------------
(* Work that uses the resource.                                            *)

Uses(c, i) == queue[c].submissions[i].uses

\* Why a call that uses the resource does not outlive it.
Guarded(c, i) ==
  \/ Unread(c)
  \/ Checked(c) /\ resource.inflight # 0
  \/ \E j \in DOMAIN queue[c].submissions : i < j /\ RetainAt(c, j)

\* The calls of a queue that stay what they are stay guarded.
LEMMA SameGuarded ==
  ASSUME IInv, Next, NEW c \in Queues, NEW i \in DOMAIN queue[c].submissions, Uses(c, i),
         queue'[c].submissions = queue[c].submissions
  PROVE  Guarded(c, i)'
<1>1. Guarded(c, i)
  BY DEF IInv, UsesInv, Guarded, Checked, Uses
<1>2. queue[c].inflight = Len(queue[c].submissions) /\ queue[c].submissions \in Seq(Submission)
  BY DEF IInv, QueueInv, Shape, QueueRecord
<1>3. queue[c].inflight # 0
  <2>1. Len(queue[c].submissions) \in Nat /\ i \in 1..Len(queue[c].submissions)
    BY <1>2
  <2> QED BY <1>2, <2>1
<1>4. CASE Unread(c)
  BY <1>3, <1>4, UnreadStep DEF Guarded
<1>5. CASE Checked(c) /\ resource.inflight # 0
  <2>1. CASE ChecksQueue
    <3>1. resource.checked = c /\ ~LooksIdle(c)
      BY <1>5 DEF Checked, LooksIdle
    <3>2. /\ queue'[c] = AddSubmission(queue[c], [type |-> "retain", uses |-> FALSE])
          /\ [type |-> "retain", uses |-> FALSE] \in Submission
      BY <2>1, <3>1, ChecksEffects
    <3>3. queue[c] \in QueueRecord
      BY DEF IInv, Shape
    <3>4. Len(queue'[c].submissions) = Len(queue[c].submissions) + 1
      BY <3>2, <3>3, AddedCall
    <3>5. Len(queue[c].submissions) \in Nat
      BY <1>2
    <3> QED BY <3>4, <3>5
  <2>2. CASE ~ChecksQueue
    BY <1>5, <2>2, CheckedStep DEF Guarded
  <2> QED BY <2>1, <2>2
<1>6. CASE \E j \in DOMAIN queue[c].submissions : i < j /\ RetainAt(c, j)
  BY <1>6 DEF Guarded, RetainAt
<1> QED BY <1>1, <1>4, <1>5, <1>6 DEF Guarded

\* Those before a call that is added, too; a call that is added counts only
\* while the resource is alive.
LEMMA AddGuarded ==
  ASSUME IInv, Next, NEW c \in Queues, NEW s \in Submission,
         queue'[c] = AddSubmission(queue[c], s),
         s.uses => Unread(c) /\ UNCHANGED resource,
         \/ UNCHANGED resource
         \/ ChecksQueue /\ s.type = "retain",
         NEW i \in DOMAIN queue'[c].submissions, Uses(c, i)'
  PROVE  Guarded(c, i)'
<1>1. queue[c] \in QueueRecord
  BY DEF IInv, Shape
<1>2. PICK n \in Nat : n = Len(queue[c].submissions)
  BY <1>1, AddedCall
<1>3. /\ DOMAIN queue'[c].submissions = 1..n + 1 /\ DOMAIN queue[c].submissions = 1..n
      /\ \A j \in 1..n : queue'[c].submissions[j] = queue[c].submissions[j]
      /\ queue'[c].submissions[n + 1] = s
  BY <1>1, <1>2, AddedCall
<1>4. CASE i = n + 1
  <2>1. Unread(c) /\ UNCHANGED resource
    BY <1>3, <1>4 DEF Uses
  <2> QED BY <2>1 DEF Guarded, Unread
<1>5. CASE i \in 1..n
  <2>1. Guarded(c, i)
    BY <1>3, <1>5 DEF IInv, UsesInv, Guarded, Checked, Uses
  <2>2. CASE ChecksQueue /\ s.type = "retain"
    <3>1. RetainAt(c, n + 1)'
      BY <1>3, <2>2 DEF RetainAt
    <3> QED BY <1>2, <1>3, <1>5, <3>1 DEF Guarded
  <2>3. CASE UNCHANGED resource
    <3>1. (\E j \in 1..n : i < j /\ RetainAt(c, j)) => Guarded(c, i)'
      <4> SUFFICES ASSUME NEW j \in 1..n, i < j, RetainAt(c, j) PROVE Guarded(c, i)'
        OBVIOUS
      <4>1. j \in DOMAIN queue'[c].submissions /\ RetainAt(c, j)'
        BY <1>3 DEF RetainAt
      <4> QED BY <4>1 DEF Guarded
    <3> QED BY <1>3, <2>1, <2>3, <3>1 DEF Guarded, Unread, Checked
  <2> QED BY <2>2, <2>3
<1> QED BY <1>3, <1>4, <1>5

\* Those behind a call that is done, too.
LEMMA DoneGuarded ==
  ASSUME IInv, NEW c \in Queues, queue[c].submissions # <<>>,
         queue'[c].submissions = Done(queue[c]).submissions, UNCHANGED resource,
         NEW i \in DOMAIN queue'[c].submissions, Uses(c, i)'
  PROVE  Guarded(c, i)'
<1>1. queue[c] \in QueueRecord
  BY DEF IInv, Shape
<1>2. PICK n \in Nat \ {0} : n = Len(queue[c].submissions)
  BY <1>1, DoneCall
<1>3. /\ DOMAIN queue'[c].submissions = 1..n - 1 /\ DOMAIN queue[c].submissions = 1..n
      /\ \A j \in 1..n - 1 : queue'[c].submissions[j] = queue[c].submissions[j + 1]
  BY <1>1, <1>2, DoneCall
<1>4. i + 1 \in 1..n /\ Uses(c, i + 1)
  BY <1>3 DEF Uses
<1>5. Guarded(c, i + 1)
  BY <1>3, <1>4 DEF IInv, UsesInv, Guarded, Checked, Uses
<1>6. ASSUME NEW j \in 1..n, i + 1 < j, RetainAt(c, j) PROVE Guarded(c, i)'
  <2>1. j - 1 \in 1..n - 1 /\ i < j - 1 /\ (j - 1) + 1 = j
    BY <1>3, <1>6
  <2>2. queue'[c].submissions[j - 1] = queue[c].submissions[j]
    BY <1>3, <2>1
  <2>3. RetainAt(c, j - 1)'
    BY <1>6, <2>2 DEF RetainAt
  <2> QED BY <1>3, <2>1, <2>3 DEF Guarded
<1> QED BY <1>3, <1>5, <1>6 DEF Guarded, Unread, Checked

\* The submission thread keeps its calls, or is done with the first one.
LEMMA SubmissionsStep ==
  ASSUME IInv, NEW c \in Queues, SubmissionThread(c)
  PROVE  \/ /\ BeginsSubmit(c) \/ EndsSignalShared(c)
            /\ queue'[c].submissions = queue[c].submissions
         \/ /\ EndsExecute(c) \/ ReleasesSharedFence(c) \/ RetainsResource(c)
            /\ queue[c].submissions # <<>>
            /\ queue'[c].submissions = Done(queue[c]).submissions
<1>1. queue \in [Queues -> QueueRecord] /\ QueueInv(c)
  BY DEF IInv, Shape
<1>2. CASE BeginsSubmit(c) \/ EndsSignalShared(c)
  BY <1>1, <1>2 DEF BeginsSubmit, EndsSignalShared, QueueRecord
<1>3. CASE EndsExecute(c)
  <2>1. queue[c].submissions # <<>>
    BY <1>3 DEF EndsExecute, Working
  <2>2. Done(queue[c]) \in QueueRecord
    BY <1>1, <2>1, DoneType
  <2>3. queue'[c] = [Done(queue[c]) EXCEPT !.last_submission = Count]
    BY <1>1, <1>3 DEF EndsExecute, Count
  <2>4. queue'[c].submissions = Done(queue[c]).submissions
    BY <2>2, <2>3 DEF QueueRecord
  <2> QED BY <1>3, <2>1, <2>4
<1>4. CASE ReleasesSharedFence(c) \/ RetainsResource(c)
  BY <1>1, <1>4 DEF ReleasesSharedFence, RetainsResource, Working, QueueInv
<1> QED BY <1>2, <1>3, <1>4 DEF SubmissionThread

LEMMA UsesStep ==
  ASSUME IInv, Next, NEW c \in Queues
  PROVE  UsesInv(c)'
<1> SUFFICES ASSUME NEW i \in DOMAIN queue'[c].submissions, Uses(c, i)'
             PROVE  Guarded(c, i)'
  BY DEF UsesInv, Guarded, Checked, Uses
<1>1. queue \in [Queues -> QueueRecord] /\ QueueInv(c)
  BY DEF IInv, Shape
<1>2. ASSUME queue'[c].submissions = queue[c].submissions PROVE Guarded(c, i)'
  BY <1>2, SameGuarded DEF Uses
<1>3. ASSUME SubmissionThread(c) PROVE Guarded(c, i)'
  <2>1. UNCHANGED resource
    BY <1>3, ThreadEffects
  <2> QED BY <1>2, <1>3, <2>1, SubmissionsStep, DoneGuarded
<1>4. ASSUME NEW d \in Queues, SubmissionThread(d), d # c PROVE queue'[c] = queue[c]
  BY <1>4, ThreadEffects
<1>5. ASSUME NEW d \in Queues, NEW type \in {"execute", "signal_shared"}, Call(d, type)
      PROVE  Guarded(c, i)'
  <2> DEFINE s == [type |-> type, uses |-> type = "execute" /\ resource.pc = "alive"]
  <2>1. s \in Submission /\ (s.uses => Unread(c))
    BY DEF Submission, Unread
  <2>2. CASE d = c
    <3>1. queue'[c] = AddSubmission(queue[c], s) /\ UNCHANGED resource
      BY <1>5, <2>2, CallEffects
    <3> HIDE DEF s
    <3> QED BY <2>1, <3>1, AddGuarded
  <2>3. CASE d # c
    <3>1. queue'[c] = queue[c]
      BY <1>5, <2>3, CallEffects
    <3> QED BY <1>2, <3>1
  <2> QED BY <2>2, <2>3
<1>6. CASE ChecksQueue
  <2> DEFINE s == [type |-> "retain", uses |-> FALSE]
  <2>1. s \in Submission /\ ~s.uses /\ s.type = "retain"
    BY DEF Submission
  <2> HIDE DEF s
  <2>2. queue'[c] = queue[c] \/ queue'[c] = AddSubmission(queue[c], s)
    BY <1>6, ChecksEffects DEF s
  <2> QED BY <1>2, <1>6, <2>1, <2>2, AddGuarded
<1> HIDE DEF IInv
<1> QED BY <1>2, <1>3, <1>4, <1>5, <1>6, OtherQueues

LEMMA TimedOutStep ==
  ASSUME Next, timed_out
  PROVE  timed_out'
BY DEF Next, SubmissionThread, FenceWorker, Call, ReleaseResource, ReadsInflight, ChecksQueue,
       DropsReference, BeginsSubmit, EndsExecute, EndsSignalShared, EndsSubmit,
       ReleasesSharedFence, RetainsResource, ExternalSubmit, Gpu, WaitsForSemaphore,
       SemaphoreTimesOut, SeesObserved, WaitsForProxy, JoinsWaiter, ProxyReached, ProxyTimesOut

\* A queue retains the resource until its turn comes.
LEMMA RetainsStep ==
  ASSUME IInv, Next, NEW c \in Queues, Retains(c), ~RetainsResource(c)
  PROVE  Retains(c)'
<1>1. queue \in [Queues -> QueueRecord] /\ QueueInv(c)
  BY DEF IInv, Shape
<1>2. ASSUME queue'[c].submissions = queue[c].submissions PROVE Retains(c)'
  BY <1>2, SameRetains
<1>3. ASSUME SubmissionThread(c) PROVE Retains(c)'
  <2>1. ASSUME EndsExecute(c) \/ ReleasesSharedFence(c)
        PROVE  Head(queue[c].submissions).type # "retain"
    BY <1>1, <2>1 DEF EndsExecute, ReleasesSharedFence, QueueInv, Working
  <2> QED BY <1>2, <1>3, <2>1, SubmissionsStep, DoneRetains
<1>4. ASSUME NEW d \in Queues, SubmissionThread(d), d # c PROVE queue'[c] = queue[c]
  BY <1>4, ThreadEffects
<1>5. ASSUME NEW s \in Submission, queue'[c] = AddSubmission(queue[c], s) PROVE Retains(c)'
  BY <1>5, AddRetains
<1>6. ASSUME NEW d \in Queues, NEW type \in {"execute", "signal_shared"}, Call(d, type)
      PROVE  Retains(c)'
  <2> DEFINE s == [type |-> type, uses |-> type = "execute" /\ resource.pc = "alive"]
  <2>1. s \in Submission
    BY DEF Submission
  <2>2. queue'[c] = queue[c] \/ queue'[c] = AddSubmission(queue[c], s)
    BY <1>6, CallEffects
  <2> HIDE DEF s
  <2> QED BY <1>2, <1>5, <2>1, <2>2
<1>7. CASE ChecksQueue
  <2> DEFINE s == [type |-> "retain", uses |-> FALSE]
  <2>1. s \in Submission /\ (queue'[c] = queue[c] \/ queue'[c] = AddSubmission(queue[c], s))
    BY <1>7, ChecksEffects
  <2> HIDE DEF s
  <2> QED BY <1>2, <1>5, <2>1
<1> HIDE DEF IInv
<1> QED BY <1>2, <1>3, <1>4, <1>6, <1>7, OtherQueues

\* A worker that releases the resource goes on to wait for a value unless the
\* GPU has come there.
LEMMA ReleasesStep ==
  ASSUME IInv, Next, ~timed_out', NEW v \in using, NEW c \in Queues,
         NEW i \in DOMAIN worker[c].fences, ReleaseAt(c, i), v <= worker[c].fences[i].value
  PROVE  \E j \in DOMAIN worker'[c].fences : ReleaseAt(c, j)' /\ v <= worker'[c].fences[j].value
<1> DEFINE Goal == \E j \in DOMAIN worker'[c].fences :
                     ReleaseAt(c, j)' /\ v <= worker'[c].fences[j].value
<1> SUFFICES Goal
  OBVIOUS
<1>1. /\ worker \in [Queues -> WorkerRecord] /\ worker[c].fences \in Seq(Wait)
      /\ v \in Nat /\ vkd3d_queue.completed < v /\ vkd3d_queue.completed \in Nat
  BY DEF IInv, Shape, WorkerRecord, TimelineInv, TimelineRecord
<1>2. ASSUME worker'[c].fences = worker[c].fences PROVE Goal
  BY <1>2 DEF ReleaseAt
<1>3. ASSUME Drops(c) PROVE Goal
  <2>1. /\ worker[c].fences # <<>> /\ worker'[c].fences = Tail(worker[c].fences)
        /\ Waiting(c).value <= vkd3d_queue.completed
    BY <1>3 DEF Drops
  <2>2. i # 1
    <3>1. ASSUME i = 1 PROVE FALSE
      <4>1. Waiting(c) = worker[c].fences[i] /\ Waiting(c).value \in Nat
        BY <1>1, <2>1, <3>1, TailWaits, WaitingType DEF Waiting, Wait, IInv
      <4> QED BY <1>1, <2>1, <4>1
    <3> QED BY <3>1
  <2>3. /\ i - 1 \in DOMAIN worker'[c].fences
        /\ worker'[c].fences[i - 1] = worker[c].fences[i]
    <3>1. PICK n \in Nat \ {0} : n = Len(worker[c].fences)
      BY <1>1, <2>1, TailWaits
    <3>2. i \in 1..n /\ i - 1 \in 1..n - 1 /\ (i - 1) + 1 = i
      BY <1>1, <2>1, <2>2, <3>1, TailWaits
    <3> QED BY <1>1, <2>1, <3>1, <3>2, TailWaits
  <2> QED BY <2>3 DEF ReleaseAt
<1>4. ASSUME NEW d \in Queues, FenceWorker(d) PROVE Goal
  <2> HIDE DEF Goal
  <2> QED BY <1>2, <1>3, <1>4, WorkerEffects DEF Alike
<1>5. ASSUME NEW d \in Queues, SubmissionThread(d) PROVE Goal
  <2>1. ASSUME NEW kind \in {"release_submission", "release_fence", "release_resource"},
               NEW value \in Nat, NEW own \in BOOLEAN, Enqueue(d, kind, value, own)
        PROVE  Goal
    <3>1. CASE d = c
      <4>1. i \in DOMAIN worker'[c].fences /\ worker'[c].fences[i] = worker[c].fences[i]
        <5>1. /\ Len(worker[c].fences) \in Nat /\ DOMAIN worker[c].fences = 1..Len(worker[c].fences)
              /\ DOMAIN worker'[c].fences = 1..Len(worker[c].fences) + 1
              /\ \A k \in 1..Len(worker[c].fences) : worker'[c].fences[k] = worker[c].fences[k]
          <6>1. Shape
            BY DEF IInv
          <6> HIDE DEF IInv
          <6> QED BY <2>1, <3>1, <6>1, EnqueueEffects, ZenonT(60)
        <5> QED BY <5>1
      <4> QED BY <4>1 DEF ReleaseAt
    <3>2. CASE d # c
      <4>1. worker'[c] = worker[c]
        BY <1>1, <2>1, <3>2 DEF Enqueue
      <4> QED BY <1>2, <4>1
    <3> QED BY <3>1, <3>2
  <2> HIDE DEF Goal, IInv
  <2> QED BY <1>2, <1>5, <2>1, ThreadEnqueues
<1>6. CASE UNCHANGED worker
  BY <1>2, <1>6
<1> HIDE DEF IInv, Goal
<1> QED BY <1>4, <1>5, <1>6
        DEF Next, Call, ReadsInflight, ReleaseResource, ChecksQueue, DropsReference,
            ExternalSubmit, Gpu

\* What covers a value goes on to cover it.
LEMMA CoversStep ==
  ASSUME IInv, Next, ~timed_out', NEW v \in using, NEW c \in Queues, Covers(c, v)
  PROVE  Covers(c, v)'
<1>1. /\ v \in Nat /\ vkd3d_queue.completed < v /\ vkd3d_queue.completed \in Nat
      /\ v <= vkd3d_queue.submitted /\ vkd3d_queue.submitted <= Count
      /\ vkd3d_queue.submitted \in Nat /\ Count \in Nat
      /\ proxies.observed \in Nat /\ proxies.observed <= vkd3d_queue.completed
      /\ resource.last_observed \in Nat /\ resource.last_observed <= proxies.observed
  BY DEF IInv, Shape, TimelineInv, TimelineRecord, Count, ProxiesRecord, ResourceRecord
<1>2. queue[c].last_submission \in Nat /\ v <= queue[c].last_submission
  BY DEF IInv, Shape, QueueRecord, Covers
<1>3. v <= queue'[c].last_submission
  BY <1>1, <1>2, LastSubmissionStep
<1>4. CASE Unread(c)
  BY <1>3, <1>4, UnreadStep DEF Covers, Checked
<1>5. CASE Checked(c)
  <2>1. CASE ChecksQueue
    <3>1. resource.checked = c
      BY <1>5 DEF Checked
    <3>2. ~LooksIdle(c)
      BY <1>1, <1>2 DEF LooksIdle
    <3>3. /\ queue'[c] = AddSubmission(queue[c], [type |-> "retain", uses |-> FALSE])
          /\ [type |-> "retain", uses |-> FALSE] \in Submission
          /\ [type |-> "retain", uses |-> FALSE].type = "retain"
      BY <2>1, <3>1, <3>2, ChecksEffects
    <3>4. Retains(c)'
      BY <3>3, AddRetains
    <3> QED BY <1>3, <3>4 DEF Covers
  <2>2. CASE ~ChecksQueue
    BY <1>3, <1>5, <2>2, CheckedStep DEF Covers, Checked
  <2> QED BY <2>1, <2>2
<1>6. CASE Retains(c)
  <2>1. CASE RetainsResource(c)
    <3>1. Enqueue(c, "release_resource", queue[c].last_submission, TRUE)
      BY <2>1 DEF RetainsResource
    <3>2. PICK j \in DOMAIN worker'[c].fences : worker'[c].fences[j] =
            [kind |-> "release_resource", value |-> queue[c].last_submission, own |-> TRUE]
      <4>1. /\ Len(worker[c].fences) \in Nat
            /\ DOMAIN worker'[c].fences = 1..Len(worker[c].fences) + 1
            /\ worker'[c].fences[Len(worker[c].fences) + 1] =
                 [kind |-> "release_resource", value |-> queue[c].last_submission, own |-> TRUE]
        <5>1. Shape
          BY DEF IInv
        <5> HIDE DEF IInv
        <5> QED BY <1>2, <3>1, <5>1, EnqueueEffects, ZenonT(60)
      <4> QED BY <4>1
    <3>3. ReleaseAt(c, j)' /\ v <= worker'[c].fences[j].value
      BY <1>2, <3>2 DEF ReleaseAt
    <3> QED BY <1>3, <3>3 DEF Covers
  <2>2. CASE ~RetainsResource(c)
    BY <1>3, <1>6, <2>2, RetainsStep DEF Covers
  <2> QED BY <2>1, <2>2
<1>7. CASE \E i \in DOMAIN worker[c].fences : ReleaseAt(c, i) /\ v <= worker[c].fences[i].value
  BY <1>3, <1>7, ReleasesStep DEF Covers
<1> QED BY <1>4, <1>5, <1>6, <1>7 DEF Covers, Checked

\* Work that is submitted is covered by the queue of its call.
LEMMA SubmittedCovers ==
  ASSUME IInv, Next, NEW c \in Queues, EndsExecute(c), Head(queue[c].submissions).uses,
         NEW v \in Nat, v = Count
  PROVE  Covers(c, v)'
<1>1. /\ queue \in [Queues -> QueueRecord] /\ Count \in Nat
      /\ queue[c].submissions \in Seq(Submission) /\ queue[c].submissions # <<>>
  BY DEF IInv, Shape, TimelineRecord, QueueRecord, Count, EndsExecute, Working
<1>2. Head(queue[c].submissions) = queue[c].submissions[1] /\ 1 \in DOMAIN queue[c].submissions
  BY <1>1
<1>3. Guarded(c, 1)
  BY <1>2 DEF IInv, UsesInv, Guarded, Checked
<1>4. UNCHANGED resource /\ ~RetainsResource(c)
  <2>1. UNCHANGED resource
    BY ThreadEffects DEF SubmissionThread
  <2>2. Head(queue[c].submissions).type = "execute"
    BY DEF EndsExecute, Working
  <2> QED BY <2>1, <2>2 DEF RetainsResource, Working
<1>5. queue'[c].last_submission = v
  <2>1. Done(queue[c]) \in QueueRecord
    BY <1>1, DoneType
  <2>2. queue'[c] = [Done(queue[c]) EXCEPT !.last_submission = Count]
    BY <1>1 DEF EndsExecute, Count
  <2> QED BY <2>1, <2>2 DEF QueueRecord
<1>6. Retains(c) => Retains(c)'
  BY <1>4, RetainsStep
<1> QED BY <1>1, <1>3, <1>4, <1>5, <1>6 DEF Guarded, Covers, Checked, Unread, Retains

LEMMA UsingStep ==
  ASSUME IInv, Next
  PROVE  UsingInv'
<1> SUFFICES ASSUME ~timed_out', NEW v \in using'
             PROVE  \E c \in Queues : Covers(c, v)'
  BY DEF UsingInv
<1>1. CASE v \in using
  <2>1. PICK c \in Queues : Covers(c, v)
    BY <1>1, TimedOutStep DEF IInv, UsingInv
  <2> QED BY <1>1, <2>1, CoversStep
<1>2. CASE v \notin using
  <2>1. PICK c \in Queues : EndsExecute(c) /\ Head(queue[c].submissions).uses /\ v = Count
    <3>1. ASSUME NEW c \in Queues, SubmissionThread(c)
          PROVE  EndsExecute(c) /\ Head(queue[c].submissions).uses /\ v = Count
      BY <1>2, <3>1 DEF SubmissionThread, BeginsSubmit, EndsExecute, EndsSignalShared,
                        ReleasesSharedFence, RetainsResource, Count
    <3>2. ASSUME NEW c \in Queues, FenceWorker(c) PROVE UNCHANGED using
      BY <3>2, WorkerEffects
    <3>3. ~Gpu
      BY <1>2 DEF Gpu
    <3> HIDE DEF IInv
    <3> QED BY <1>2, <3>1, <3>2, <3>3 DEF Next, Call, ReadsInflight, ReleaseResource,
                                         ChecksQueue, DropsReference, ExternalSubmit
  <2>2. v \in Nat
    BY <2>1 DEF IInv, Shape, TimelineRecord, Count
  <2>3. Covers(c, v)'
    BY <2>1, <2>2, SubmittedCovers
  <2> QED BY <2>3
<1> QED BY <1>1, <1>2

-----------------------------------------------------------------------------
(* The inductive invariant.                                                *)

LEMMA InitIInv == Init => IInv
<1> SUFFICES ASSUME Init PROVE IInv
  OBVIOUS
<1> USE DEF Init
<1>1. /\ \A c \in Queues : queue[c] = [submissions |-> <<>>, inflight |-> 0, pc |-> "ready",
                                       last_submission |-> 0]
      /\ \A c \in Queues : worker[c] = [fences |-> <<>>, pc |-> "ready", vk_fence |-> 0]
  OBVIOUS
<1>2. Shape
  <2>1. <<>> \in Seq(Submission) /\ <<>> \in Seq(Wait)
    OBVIOUS
  <2>2. queue \in [Queues -> QueueRecord]
    BY <2>1 DEF QueueRecord
  <2>3. worker \in [Queues -> WorkerRecord]
    BY <2>1 DEF WorkerRecord
  <2>4. vkd3d_queue \in TimelineRecord /\ resource \in ResourceRecord
    BY DEF TimelineRecord, ResourceRecord
  <2>5. proxies \in ProxiesRecord /\ proxies.vk_fences \subseteq 1..proxies.created
    BY DEF ProxiesRecord
  <2> QED BY <2>2, <2>3, <2>4, <2>5 DEF Shape
<1>3. TimelineInv
  BY DEF TimelineInv, Count
<1>4. \A c \in Queues : QueueInv(c)
  BY <1>1, NoneAssumption DEF QueueInv
<1>5. ProxyInv
  BY <1>1 DEF ProxyInv
<1>6. OwnInv
  BY <1>1 DEF OwnInv, HasProxy
<1>7. SleepersAreCovered
  BY <1>1 DEF SleepersAreCovered
<1>8. \A c \in Queues : ~Retains(c) /\ ~Releases(c)
  BY <1>1 DEF Retains, Releases
<1>9. HoldInv
  <2>1. Holders = {}
    BY <1>8 DEF Holders
  <2>2. Cardinality(Holders) = 0
    BY <2>1, FS_EmptySet
  <2>3. \A c \in Queues : RetainsOnce(c) /\ ReleasesOnce(c)
    BY <1>1 DEF RetainsOnce, ReleasesOnce
  <2> QED BY <1>8, <2>1, <2>2, <2>3 DEF HoldInv, RetainsOnce, ReleasesOnce
<1>10. \A c \in Queues : UsesInv(c)
  BY <1>1 DEF UsesInv
<1>11. UsingInv
  BY DEF UsingInv
<1> QED BY <1>2, <1>3, <1>4, <1>5, <1>6, <1>7, <1>9, <1>10, <1>11 DEF IInv

LEMMA NextIInv == IInv /\ [Next]_vars => IInv'
<1>1. ASSUME IInv, Next PROVE IInv'
  <2>1. Shape' /\ TimelineInv' /\ ProxyInv' /\ OwnInv'
    BY <1>1, ShapeStep, TimelineStep, ProxyStep, OwnStep
  <2>2. SleepersAreCovered' /\ HoldInv' /\ UsingInv'
    BY <1>1, SleepersStep, HoldStep, UsingStep
  <2>3. ASSUME NEW c \in Queues PROVE QueueInv(c)' /\ UsesInv(c)'
    BY <1>1, QueueStep, UsesStep
  <2> QED BY <2>1, <2>2, <2>3 DEF IInv
<1>2. ASSUME IInv, UNCHANGED vars PROVE IInv'
  <2> USE <1>2 DEF vars
  <2>1. Shape' /\ TimelineInv' /\ OwnInv' /\ SleepersAreCovered' /\ UsingInv'
    BY DEF IInv, Shape, TimelineInv, Count, OwnInv, HasProxy, Pending, SleepersAreCovered, Waiting,
           UsingInv, Covers, Unread, Retains, RetainAt, ReleaseAt
  <2>2. ProxyInv'
    BY DEF IInv, ProxyInv, Waiting
  <2>3. HoldInv'
    <3>1. Holders' = Holders
      BY DEF Holders, Retains, Releases, RetainAt, ReleaseAt
    <3>2. \A c \in Queues : /\ Retains(c)' <=> Retains(c)
                            /\ Releases(c)' <=> Releases(c)
                            /\ Unread(c)' <=> Unread(c)
      BY DEF Retains, Releases, RetainAt, ReleaseAt, Unread
    <3> QED BY <3>1, <3>2 DEF IInv, HoldInv, RetainAt, ReleaseAt, Holders
  <2>4. ASSUME NEW c \in Queues PROVE QueueInv(c)' /\ UsesInv(c)'
    BY DEF IInv, QueueInv, Working, UsesInv, Unread, RetainAt
  <2> QED BY <2>1, <2>2, <2>3, <2>4 DEF IInv
<1> QED BY <1>1, <1>2

LEMMA SpecIInv == Spec => []IInv
BY InitIInv, NextIInv, PTL DEF Spec

-----------------------------------------------------------------------------
(* What it implies.                                                        *)

LEMMA IInvTypeOK ==
  ASSUME IInv
  PROVE  TypeOK
<1>1. /\ \A c \in Queues : /\ queue[c] \in QueueRecord /\ worker[c] \in WorkerRecord
                           /\ QueueInv(c)
      /\ slow \in BOOLEAN /\ timed_out \in BOOLEAN
      /\ vkd3d_queue \in TimelineRecord /\ proxies \in ProxiesRecord /\ resource \in ResourceRecord
      /\ proxies.vk_fences \subseteq 1..proxies.created /\ TimelineInv
  BY DEF IInv, Shape
<1>2. /\ vkd3d_queue.submitted \in Nat /\ vkd3d_queue.completed \in Nat /\ Count \in Nat
      /\ proxies.observed \in Nat /\ resource.last_observed \in Nat
      /\ vkd3d_queue.mutex \in Queues \cup {None}
  BY <1>1 DEF TimelineRecord, ProxiesRecord, ResourceRecord, Count
<1>3. /\ vkd3d_queue.submitted <= Count /\ vkd3d_queue.completed \in 0..vkd3d_queue.submitted
      /\ proxies.observed \in 0..Count /\ resource.last_observed \in 0..proxies.observed
  BY <1>1, <1>2 DEF TimelineInv
<1>4. ASSUME NEW c \in Queues
      PROVE  /\ queue[c].inflight \in Nat
             /\ queue[c].pc \in {"ready", "submitting", "submitted"}
             /\ queue[c].last_submission \in 0..Count
             /\ worker[c].pc \in {"ready", "waiting", "asleep"}
  <2>1. queue[c].submissions \in Seq(Submission) /\ queue[c].last_submission \in Nat
        /\ queue[c].pc \in {"ready", "submitting", "submitted"}
        /\ worker[c].pc \in {"ready", "waiting", "asleep"}
    BY <1>1 DEF QueueRecord, WorkerRecord
  <2>2. queue[c].inflight \in Nat
    BY <1>1, <2>1 DEF QueueInv
  <2>3. queue[c].last_submission <= vkd3d_queue.submitted
    BY <1>1 DEF QueueInv
  <2> QED BY <1>2, <1>3, <2>1, <2>2, <2>3
<1>5. resource.refcount \in Nat
  <2>1. Holders \subseteq Queues
    BY DEF Holders
  <2>2. Cardinality(Holders) \in Nat
    BY <2>1, QueuesAssumption, FS_Subset, FS_CardinalityType
  <2>3. resource.refcount = Cardinality(Holders) + (IF resource.pc = "released" THEN 0 ELSE 1)
    BY DEF IInv, HoldInv
  <2> QED BY <2>2, <2>3
<1> QED BY <1>1, <1>2, <1>3, <1>4, <1>5 DEF TypeOK, Count

LEMMA IInvFresh ==
  ASSUME IInv
  PROVE  TimelineIsFresh
<1>1. /\ vkd3d_queue.submitted \in Nat /\ vkd3d_queue.completed \in Nat /\ Count \in Nat
      /\ proxies.observed \in Nat /\ proxies.submissions \subseteq Proxy
  BY DEF IInv, Shape, TimelineRecord, ProxiesRecord, Count
<1>2. ASSUME vkd3d_queue.mutex # None PROVE Count = vkd3d_queue.submitted + 1
  BY <1>2 DEF IInv, TimelineInv
<1>3. proxies.observed <= vkd3d_queue.submitted
  BY <1>1 DEF IInv, TimelineInv
<1>4. \A s \in proxies.submissions : s.timeline <= vkd3d_queue.submitted /\ s.timeline \in Nat
  BY <1>1 DEF IInv, ProxyInv, Proxy
<1> QED BY <1>1, <1>2, <1>3, <1>4 DEF TimelineIsFresh, Pending, Count

LEMMA IInvProxies ==
  ASSUME IInv
  PROVE  ProxiesAreRight
<1>1. OwnWaitsHaveProxies
  <2> SUFFICES ASSUME NEW c \in Queues, Iterating(c), Waiting(c).own,
                      Waiting(c).value > proxies.observed
               PROVE  Pending(Waiting(c).value) # {}
    BY DEF OwnWaitsHaveProxies
  <2>1. worker[c].fences \in Seq(Wait) /\ worker[c].fences # <<>> /\ slow
    BY DEF IInv, Shape, WorkerRecord, Iterating
  <2>2. 1 \in DOMAIN worker[c].fences /\ Waiting(c) = worker[c].fences[1]
    BY <2>1, TailWaits DEF Waiting
  <2> QED BY <2>1, <2>2 DEF IInv, OwnInv, HasProxy
<1>2. WaiterMarksItsProxy
  BY DEF IInv, ProxyInv, WaiterMarksItsProxy
<1>3. FencesHaveOneUse
  BY DEF IInv, ProxyInv, FencesHaveOneUse
<1> QED BY <1>1, <1>2, <1>3, IInvTypeOK DEF ProxiesAreRight

LEMMA IInvOutlives ==
  ASSUME IInv
  PROVE  ResourceOutlivesWork
<1> SUFFICES ASSUME resource.refcount = 0, ~timed_out
             PROVE  /\ \A c \in Queues : \A i \in DOMAIN queue[c].submissions :
                         ~queue[c].submissions[i].uses
                    /\ using = {}
  BY DEF ResourceOutlivesWork
<1>1. IsFiniteSet(Holders) /\ Cardinality(Holders) \in Nat
  <2>1. Holders \subseteq Queues
    BY DEF Holders
  <2> QED BY <2>1, QueuesAssumption, FS_Subset, FS_CardinalityType
<1>2. /\ resource.refcount = Cardinality(Holders) + (IF resource.pc = "released" THEN 0 ELSE 1)
      /\ resource.pc \in {"alive", "released"} => resource.todo = {}
  BY DEF IInv, HoldInv
<1>3. Cardinality(Holders) = 0 /\ resource.pc = "released"
  BY <1>1, <1>2
<1>4. Holders = {}
  BY <1>1, <1>3, FS_EmptySet
<1>5. \A c \in Queues : ~Unread(c) /\ ~Retains(c) /\ ~Releases(c)
  BY <1>2, <1>3, <1>4 DEF Unread, Holders
<1>6. ASSUME NEW c \in Queues, NEW i \in DOMAIN queue[c].submissions, queue[c].submissions[i].uses
      PROVE  FALSE
  BY <1>3, <1>5, <1>6 DEF IInv, UsesInv, Retains
<1>7. ASSUME NEW v \in using PROVE FALSE
  BY <1>3, <1>5, <1>7 DEF IInv, UsingInv, Covers, Releases
<1> QED BY <1>6, <1>7

-----------------------------------------------------------------------------
(* Theorems.                                                               *)

\* The submission that vkd3d_queue_get_signal_fence_proxy_locked makes a proxy
\* for is neither observed nor has it a proxy: "Should not happen" holds, with
\* any number of command queues and of other users of the VkQueue.
THEOREM TimelineFresh == Spec => []TimelineIsFresh
BY SpecIInv, IInvFresh, PTL

\* Whoever sleeps on fence_cond in vkd3d_queue_wait_submission_timeline waits
\* for a value that was not observed yet, and another worker waits for it on
\* its VkFence.
THEOREM SleepersCovered == Spec => []SleepersAreCovered
<1>1. IInv => SleepersAreCovered
  BY DEF IInv
<1> QED BY <1>1, SpecIInv, PTL

\* The structures keep their shape; a queue that waits for its own submission
\* finds the proxy (assert(submission)); existing_waiter marks exactly the
\* proxies that one worker waits on; a VkFence is in one proxy or in the pool.
THEOREM ProxiesRight == Spec => []ProxiesAreRight
BY SpecIInv, IInvProxies, PTL

\* d3d12_device_add_queue_timeline_deferred_decref frees a resource only when
\* all work that was called before is done, whatever the command queues, their
\* submission threads and their fence workers do while it reads their counters,
\* one after the other and without a common lock.
THEOREM ResourceOutlives == Spec => []ResourceOutlivesWork
BY SpecIInv, IInvOutlives, PTL
=============================================================================
