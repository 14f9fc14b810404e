-------------------------- MODULE CommandQueueProofs --------------------------
(***************************************************************************)
(* Proofs about command queues, for any number of queues, VkQueues and     *)
(* fences, and whatever the application does: waits and signals are on their *)
(* way when a queue needs them, command allocators are held until the GPU  *)
(* is through with them, a fence counts exactly those that refer to it, and *)
(* signals become visible in the order in which they follow each other.    *)
(***************************************************************************)
EXTENDS CommandQueue, FiniteSetTheorems, TLAPS

-----------------------------------------------------------------------------
(* Data.                                                                   *)

(* A bounded, non-empty set of natural numbers has a largest and a least   *)
(* element.  (The intervals x..N are finite sets; a minimal one of them,   *)
(* under strict inclusion, belongs to the largest x.)                      *)

LEMMA MaxOfBounded ==
  ASSUME NEW N \in Nat, NEW S \in SUBSET (0..N), S # {}
  PROVE  Max(S) \in S /\ \A y \in S : y <= Max(S)
<1> DEFINE T == {x..N : x \in S}
<1>1. \A x \in S : x \in 0..N /\ x..N \in SUBSET Nat /\ IsFiniteSet(x..N)
  <2> TAKE x \in S
  <2>1. x \in 0..N
    OBVIOUS
  <2>2. IsFiniteSet(x..N)
    BY <2>1, FS_Interval
  <2> QED BY <2>1, <2>2
<1>2. T \subseteq FiniteSubsetsOf(Nat)
  BY <1>1, Zenon DEF FiniteSubsetsOf
<1>3. T # {}
  OBVIOUS
<1> HIDE DEF T
<1>4. PICK t \in T : \A u \in T : ~(<<u, t>> \in StrictSubsetOrdering(Nat))
  BY <1>2, <1>3, FS_StrictSubsetOrderingWellFounded, WFMin, Zenon
<1>5. PICK x \in S : t = x..N
  BY <1>4, Zenon DEF T
<1>6. \A y \in S : y <= x
  <2> SUFFICES ASSUME NEW y \in S, ~(y <= x) PROVE FALSE
    OBVIOUS
  <2>1. x < y /\ x \in 0..N /\ y \in 0..N
    BY <1>1
  <2>2. y..N \subseteq x..N /\ x \in x..N /\ x \notin y..N
    BY <2>1
  <2>3. y..N \in SUBSET Nat /\ x..N \in SUBSET Nat
    BY <1>1, Zenon
  <2>4. <<y..N, x..N>> \in StrictSubsetOrdering(Nat)
    BY <2>2, <2>3 DEF StrictSubsetOrdering
  <2>5. y..N \in T
    BY Zenon DEF T
  <2> QED BY <1>4, <1>5, <2>4, <2>5, Zenon
<1>7. \A y \in S : x >= y
  BY <1>1, <1>6
<1>8. Max(S) \in S /\ \A y \in S : Max(S) >= y
  BY <1>7 DEF Max
<1> QED BY <1>8, <1>1

\* Something is a sequence, without saying of what.
IsSeq(s) == \E S : s \in Seq(S)

LEMMA AppendElements ==
  ASSUME NEW s, IsSeq(s), NEW e
  PROVE  /\ IsSeq(Append(s, e)) /\ Len(s) \in Nat /\ DOMAIN s = 1..Len(s)
         /\ DOMAIN Append(s, e) = 1..(Len(s) + 1) /\ Append(s, e) # <<>>
         /\ \A i \in 1..Len(s) : Append(s, e)[i] = s[i]
         /\ Append(s, e)[Len(s) + 1] = e
<1>1. PICK S : s \in Seq(S)
  BY DEF IsSeq
<1>2. s \in Seq(S \cup {e}) /\ e \in S \cup {e}
  BY <1>1
<1>3. Append(s, e) \in Seq(S \cup {e})
  BY <1>2
<1>4. Len(Append(s, e)) # 0
  BY <1>2
<1> QED BY <1>2, <1>3, <1>4 DEF IsSeq

LEMMA TailElements ==
  ASSUME NEW s, IsSeq(s), s # <<>>
  PROVE  /\ IsSeq(Tail(s)) /\ Len(s) \in Nat \ {0} /\ DOMAIN s = 1..Len(s)
         /\ DOMAIN Tail(s) = 1..(Len(s) - 1) /\ Head(s) = s[1]
         /\ \A i \in 1..(Len(s) - 1) : Tail(s)[i] = s[i + 1]
<1>1. PICK S : s \in Seq(S)
  BY DEF IsSeq
<1>2. Tail(s) \in Seq(S)
  BY <1>1
<1> QED BY <1>1, <1>2 DEF IsSeq

LEMMA ConcatIsSeq ==
  ASSUME NEW s, IsSeq(s), NEW t, IsSeq(t)
  PROVE  /\ IsSeq(s \o t) /\ Len(s) \in Nat /\ DOMAIN s = 1..Len(s)
         /\ \A i \in 1..Len(s) : i \in DOMAIN (s \o t) /\ (s \o t)[i] = s[i]
<1>1. PICK S : s \in Seq(S)
  BY DEF IsSeq
<1>2. PICK T : t \in Seq(T)
  BY DEF IsSeq
<1>3. s \in Seq(S \cup T) /\ t \in Seq(S \cup T)
  BY <1>1, <1>2
<1>4. s \o t \in Seq(S \cup T)
  BY <1>3
<1> QED BY <1>3, <1>4 DEF IsSeq

(* Counting the positions of a sequence that have a property: what an element  *)
(* that is appended, an element that is taken away, and a sequence that is     *)
(* appended make of the count.                                                *)

LEMMA IndicesAreFinite ==
  ASSUME NEW n \in Nat, NEW I \in SUBSET (1..n)
  PROVE  IsFiniteSet(I) /\ Cardinality(I) \in Nat
<1>1. IsFiniteSet(1..n)
  BY FS_Interval
<1>2. IsFiniteSet(I)
  BY <1>1, FS_Subset
<1> QED BY <1>2, FS_CardinalityType

LEMMA IndicesOfAppend ==
  ASSUME NEW n \in Nat, NEW I \in SUBSET (1..n), NEW J \in SUBSET (1..(n + 1)),
         \A i \in 1..n : i \in J <=> i \in I
  PROVE  Cardinality(J) = Cardinality(I) + (IF n + 1 \in J THEN 1 ELSE 0)
<1>1. IsFiniteSet(I) /\ Cardinality(I) \in Nat
  BY IndicesAreFinite
<1>0. /\ \A i \in 1..(n + 1) : i \in 1..n \/ i = n + 1
      /\ n + 1 \notin 1..n
  OBVIOUS
<1>2. CASE n + 1 \in J
  <2>1. J = I \cup {n + 1} /\ n + 1 \notin I
    BY <1>0, <1>2, Zenon
  <2>2. Cardinality(I \cup {n + 1}) = Cardinality(I) + 1
    BY <1>1, <2>1, FS_AddElement
  <2> QED BY <1>2, <2>1, <2>2
<1>3. CASE n + 1 \notin J
  <2>1. J = I
    BY <1>0, <1>3, Zenon
  <2> QED BY <1>1, <1>3, <2>1
<1> QED BY <1>2, <1>3

\* Positions that are all moved by k stay as many.
LEMMA IndicesShifted ==
  ASSUME NEW n \in Nat, NEW k \in Int, NEW I \in SUBSET (1..n)
  PROVE  LET J == {i + k : i \in I} IN IsFiniteSet(J) /\ Cardinality(J) = Cardinality(I)
<1> DEFINE J == {i + k : i \in I}
           g == [i \in I |-> i + k]
<1>1. g \in [I -> J]
  OBVIOUS
<1>2. \A a, b \in I : g[a] = g[b] => a = b
  <2> TAKE a, b \in I
  <2>1. a \in Int /\ b \in Int
    OBVIOUS
  <2> QED BY <2>1
<1>3. \A t \in J : \E i \in I : g[i] = t
  OBVIOUS
<1>4. g \in Bijection(I, J)
  BY <1>1, <1>2, <1>3 DEF Bijection, Injection, Surjection, IsInjective
<1>5. IsFiniteSet(I)
  BY IndicesAreFinite
<1>6. ExistsBijection(I, J)
  BY <1>4 DEF ExistsBijection
<1> QED BY <1>5, <1>6, FS_Bijection

LEMMA IndicesOfTail ==
  ASSUME NEW n \in Nat \ {0}, NEW I \in SUBSET (1..n), NEW J \in SUBSET (1..(n - 1)),
         \A i \in 1..(n - 1) : i \in J <=> i + 1 \in I
  PROVE  Cardinality(J) = Cardinality(I) - (IF 1 \in I THEN 1 ELSE 0)
<1> DEFINE K == {i + 1 : i \in J}
<1>0. n - 1 \in Nat /\ 1 \in Int
  OBVIOUS
<1>1. Cardinality(K) = Cardinality(J)
  BY <1>0, IndicesShifted, Zenon
<1>2. K = I \ {1}
  <2>1. ASSUME NEW i \in I, i # 1 PROVE i \in K
    <3>1. i - 1 \in 1..(n - 1) /\ (i - 1) + 1 = i
      BY <2>1
    <3> QED BY <3>1
  <2>2. ASSUME NEW i \in K PROVE i \in I /\ i # 1
    <3>1. PICK j \in J : i = j + 1
      OBVIOUS
    <3> QED BY <3>1
  <2> QED BY <2>1, <2>2
<1> HIDE DEF K
<1>3. IsFiniteSet(I) /\ Cardinality(I) \in Nat
  BY IndicesAreFinite
<1>4. Cardinality(I \ {1}) = IF 1 \in I THEN Cardinality(I) - 1 ELSE Cardinality(I)
  BY <1>3, FS_RemoveElement
<1> QED BY <1>1, <1>2, <1>3, <1>4

LEMMA IndicesOfConcat ==
  ASSUME NEW m \in Nat, NEW n \in Nat, NEW J \in SUBSET (1..(m + n))
  PROVE  Cardinality(J) =
           Cardinality({i \in 1..m : i \in J}) + Cardinality({i \in 1..n : m + i \in J})
<1> DEFINE I == {i \in 1..m : i \in J}
           K == {i \in 1..n : m + i \in J}
<1>0. I \in SUBSET (1..m) /\ K \in SUBSET (1..n) /\ m \in Int
  OBVIOUS
<1> DEFINE L == {i + m : i \in K}
<1>1. IsFiniteSet(L) /\ Cardinality(L) = Cardinality(K)
  BY <1>0, IndicesShifted, Zenon
<1>2. J = I \cup L
  <2>1. ASSUME NEW j \in J PROVE j \in I \cup L
    <3>1. CASE j \in 1..m
      BY <3>1
    <3>2. CASE j \notin 1..m
      <4>1. j - m \in 1..n /\ m + (j - m) = j /\ (j - m) + m = j
        BY <3>2
      <4> QED BY <4>1
    <3> QED BY <3>1, <3>2
  <2>2. ASSUME NEW j \in L PROVE j \in J
    <3>1. PICK i \in K : j = i + m
      OBVIOUS
    <3>2. m + i \in J
      OBVIOUS
    <3>3. m + i = i + m
      <4>1. i \in 1..n
        OBVIOUS
      <4> QED BY <4>1
    <3> QED BY <3>1, <3>2, <3>3
  <2> QED BY <2>1, <2>2
<1>3. I \cap L = {}
  OBVIOUS
<1> HIDE DEF L, I, K
<1>4. IsFiniteSet(I) /\ Cardinality(I) \in Nat /\ Cardinality(K) \in Nat
  BY <1>0, IndicesAreFinite
<1>5. Cardinality(I \cup L) = Cardinality(I) + Cardinality(L) - Cardinality({})
  BY <1>1, <1>3, <1>4, FS_Union
<1>6. Cardinality(J) = Cardinality(I) + Cardinality(K)
  BY <1>1, <1>2, <1>4, <1>5, FS_EmptySet
<1> QED BY <1>6 DEF I, K


FenceFields ==
  {"virtual_value", "max_pending", "signal_count", "update_count", "pending_updates",
   "wait_tickets", "wait_ticket_counter", "events"}
QueueFields ==
  {"open", "submissions", "pc", "cpu_wait", "calls", "wait_semaphores", "wait_fences",
   "last_submission", "fence_worker"}
VkQueueFields == {"submission_timeline_count", "submitted", "completed"}

Count(v) == vk_queue[v].submission_timeline_count

\* What waits or signals names a fence.
IsCall(op) == op.type \in {"wait", "signal"} => op.fence \in Fences

QueueShape(q) ==
  /\ DOMAIN q = QueueFields
  /\ IsSeq(q.submissions) /\ \A i \in DOMAIN q.submissions : IsCall(q.submissions[i])
  /\ IsSeq(q.wait_fences) /\ IsSeq(q.fence_worker)
  /\ q.pc = "cpu_wait" => q.submissions # <<>>

Shape ==
  /\ program \in Programs
  /\ DOMAIN fence = Fences /\ \A f \in Fences : DOMAIN fence[f] = FenceFields
  /\ DOMAIN queue = Queues /\ \A c \in Queues : QueueShape(queue[c])
  /\ DOMAIN vk_queue = VkQueues
  /\ \A v \in VkQueues : /\ DOMAIN vk_queue[v] = VkQueueFields
                         /\ Count(v) \in Nat /\ IsSeq(vk_queue[v].submitted)

OnItsWay(semaphore, value) == semaphore \in VkQueues /\ value \in 0..Count(semaphore)

UpdatesOnTheirWay ==
  \A f \in Fences : \A u \in fence[f].pending_updates :
    OnItsWay(u.vk_semaphore, u.vk_semaphore_value)

QueuesOnTheirWay ==
  \A c \in Queues : /\ OnItsWay(VkQueueOf[c], queue[c].last_submission)
                    /\ \A w \in queue[c].wait_semaphores : OnItsWay(w.semaphore, w.value)

SubmittedOnTheirWay ==
  \A v \in VkQueues : \A i \in DOMAIN vk_queue[v].submitted :
    \A w \in vk_queue[v].submitted[i].waits : OnItsWay(w.semaphore, w.value)

IInv == Shape /\ UpdatesOnTheirWay /\ QueuesOnTheirWay /\ SubmittedOnTheirWay

-----------------------------------------------------------------------------
(* The critical sections of a fence keep its fields, and schedule nothing   *)
(* but what AddPendingSignal is asked to.                                   *)

KeepsUpdates(f, g) == DOMAIN g = FenceFields /\ g.pending_updates \subseteq f.pending_updates

LEMMA FenceOperators ==
  ASSUME NEW f, DOMAIN f = FenceFields, NEW a, NEW b
  PROVE  /\ KeepsUpdates(f, CpuSignal(f, a))
         /\ KeepsUpdates(f, Signal(f, a))
         /\ KeepsUpdates(f, RegisterWait(f, a))
         /\ KeepsUpdates(f, ConsumeTicket(f, a))
<1> USE DEF KeepsUpdates, FenceFields
<1>1. KeepsUpdates(f, CpuSignal(f, a))
  BY DEF CpuSignal, UpdatePendingValue, Reach
<1>2. KeepsUpdates(f, Signal(f, a))
  BY DEF Signal, UpdatePendingValue, Reach
<1>3. KeepsUpdates(f, RegisterWait(f, a))
  BY DEF RegisterWait
<1>4. KeepsUpdates(f, ConsumeTicket(f, a))
  BY DEF ConsumeTicket
<1> QED BY <1>1, <1>2, <1>3, <1>4

LEMMA AddPendingSignalUpdates ==
  ASSUME NEW f, DOMAIN f = FenceFields, NEW a, NEW v, NEW n
  PROVE  LET g == AddPendingSignal(f, a, v, n) IN
         /\ DOMAIN g = FenceFields
         /\ \A u \in g.pending_updates :
              u \in f.pending_updates \/ (u.vk_semaphore = v /\ u.vk_semaphore_value = n)
BY DEF AddPendingSignal, UpdatePendingValue, NextUpdate, FenceFields

-----------------------------------------------------------------------------
(* The operators on command queues.                                        *)

\* What r may have changed of queue q without any bearing on the timelines.
KeepsWaits(q, r) ==
  /\ QueueShape(r) /\ r.last_submission = q.last_submission
  /\ r.wait_semaphores \subseteq q.wait_semaphores

LEMMA FinalizeWaitsShape ==
  ASSUME NEW q, QueueShape(q)
  PROVE  /\ QueueShape(FinalizeWaits(q))
         /\ FinalizeWaits(q).wait_semaphores = {}
         /\ FinalizeWaits(q).last_submission = q.last_submission
         /\ FinalizeWaits(q).submissions = q.submissions
         /\ Len(q.fence_worker) \in Nat /\ DOMAIN q.fence_worker = 1..Len(q.fence_worker)
         /\ \A i \in 1..Len(q.fence_worker) :
              /\ i \in DOMAIN FinalizeWaits(q).fence_worker
              /\ FinalizeWaits(q).fence_worker[i] = q.fence_worker[i]
<1> DEFINE items == [i \in DOMAIN q.wait_fences |->
                       OrderItem(q.wait_fences[i].fence, q.wait_fences[i].update_count)]
           S == {items[i] : i \in DOMAIN q.wait_fences}
<1>1. DOMAIN q.wait_fences = 1..Len(q.wait_fences) /\ Len(q.wait_fences) \in Nat
  BY AppendElements DEF QueueShape
<1>2. items \in Seq(S)
  BY <1>1
<1>3. IsSeq(items)
  BY <1>2 DEF IsSeq
<1> HIDE DEF items, S
<1>4. IsSeq(q.fence_worker)
  BY DEF QueueShape
<1>5. /\ IsSeq(q.fence_worker \o items) /\ Len(q.fence_worker) \in Nat
      /\ DOMAIN q.fence_worker = 1..Len(q.fence_worker)
      /\ \A i \in 1..Len(q.fence_worker) :
           /\ i \in DOMAIN (q.fence_worker \o items)
           /\ (q.fence_worker \o items)[i] = q.fence_worker[i]
  BY <1>3, <1>4, ConcatIsSeq
<1>6. IsSeq(<<>>)
  BY <<>> \in Seq({}) DEF IsSeq
<1>7. FinalizeWaits(q) = [q EXCEPT !.wait_semaphores = {}, !.wait_fences = <<>>,
                                   !.fence_worker = @ \o items]
  BY DEF FinalizeWaits, items
<1> QED BY <1>5, <1>6, <1>7 DEF QueueShape, QueueFields

LEMMA QueueOperators ==
  ASSUME NEW q, QueueShape(q)
  PROVE  /\ q.submissions # <<>> => KeepsWaits(q, NextSubmission(q))
         /\ \A item : KeepsWaits(q, AddItem(q, item))
         /\ KeepsWaits(q, DropWaits(q))
         /\ KeepsWaits(q, FinalizeWaits(q))
<1>1. ASSUME q.submissions # <<>> PROVE KeepsWaits(q, NextSubmission(q))
  <2>1. IsSeq(q.submissions)
    BY DEF QueueShape
  <2> QED BY <1>1, <2>1, TailElements DEF KeepsWaits, NextSubmission, QueueShape, QueueFields
<1>2. ASSUME NEW item PROVE KeepsWaits(q, AddItem(q, item))
  <2>1. IsSeq(Append(q.fence_worker, item))
    BY AppendElements DEF QueueShape
  <2> QED BY <2>1 DEF KeepsWaits, AddItem, QueueShape, QueueFields
<1>3. KeepsWaits(q, DropWaits(q))
  <2>1. IsSeq(<<>>)
    BY <<>> \in Seq({}) DEF IsSeq
  <2> QED BY <2>1 DEF KeepsWaits, DropWaits, QueueShape, QueueFields
<1>4. KeepsWaits(q, FinalizeWaits(q))
  BY FinalizeWaitsShape DEF KeepsWaits
<1> QED BY <1>1, <1>2, <1>3, <1>4

-----------------------------------------------------------------------------
(* Steps.                                                                  *)

LEMMA FenceUpdate ==
  ASSUME Shape, NEW f, NEW g, f \in Fences => KeepsUpdates(fence[f], g),
         fence' = [fence EXCEPT ![f] = g]
  PROVE  DOMAIN fence' = Fences /\ \A h \in Fences : KeepsUpdates(fence[h], fence'[h])
BY DEF Shape, KeepsUpdates

LEMMA FencesKept ==
  ASSUME Shape, fence' = fence
  PROVE  DOMAIN fence' = Fences /\ \A h \in Fences : KeepsUpdates(fence[h], fence'[h])
BY DEF Shape, KeepsUpdates

LEMMA QueueUpdate ==
  ASSUME Shape, NEW c \in Queues, NEW q, KeepsWaits(queue[c], q),
         queue' = [queue EXCEPT ![c] = q]
  PROVE  DOMAIN queue' = Queues /\ \A d \in Queues : KeepsWaits(queue[d], queue'[d])
<1>1. \A d \in Queues : queue'[d] = IF d = c THEN q ELSE queue[d]
  BY DEF Shape
<1>2. \A d \in Queues : KeepsWaits(queue[d], queue[d])
  BY DEF Shape, KeepsWaits
<1> QED BY <1>1, <1>2 DEF Shape

LEMMA QueuesKept ==
  ASSUME Shape, queue' = queue
  PROVE  DOMAIN queue' = Queues /\ \A d \in Queues : KeepsWaits(queue[d], queue'[d])
BY DEF Shape, KeepsWaits

\* A step that neither submits nor schedules, and defers no wait.
LEMMA QuietStep ==
  ASSUME IInv, program' = program, vk_queue' = vk_queue,
         DOMAIN fence' = Fences, \A h \in Fences : KeepsUpdates(fence[h], fence'[h]),
         DOMAIN queue' = Queues, \A d \in Queues : KeepsWaits(queue[d], queue'[d])
  PROVE  IInv'
<1>1. \A s, n : OnItsWay(s, n) => OnItsWay(s, n)'
  BY DEF OnItsWay, Count
<1>2. Shape'
  BY DEF IInv, Shape, KeepsUpdates, KeepsWaits, Count
<1>3. UpdatesOnTheirWay'
  BY <1>1 DEF IInv, UpdatesOnTheirWay, KeepsUpdates
<1>4. QueuesOnTheirWay'
  BY <1>1 DEF IInv, QueuesOnTheirWay, KeepsWaits
<1>5. SubmittedOnTheirWay'
  BY <1>1 DEF IInv, SubmittedOnTheirWay
<1> QED BY <1>2, <1>3, <1>4, <1>5 DEF IInv

\* A step of queue c that changes its waits or its last submission, while the
\* timelines only grow.
LEMMA QueueStep ==
  ASSUME IInv, program' = program, NEW c \in Queues, NEW q,
         DOMAIN fence' = Fences, \A h \in Fences : KeepsUpdates(fence[h], fence'[h]),
         queue' = [queue EXCEPT ![c] = q], QueueShape(q),
         DOMAIN vk_queue' = VkQueues,
         \A v \in VkQueues : /\ DOMAIN vk_queue'[v] = VkQueueFields
                             /\ Count(v)' \in Nat /\ Count(v) <= Count(v)'
                             /\ IsSeq(vk_queue'[v].submitted),
         OnItsWay(VkQueueOf[c], q.last_submission)',
         \A w \in q.wait_semaphores : OnItsWay(w.semaphore, w.value)',
         \A v \in VkQueues : \A i \in DOMAIN vk_queue'[v].submitted :
           \A w \in vk_queue'[v].submitted[i].waits : OnItsWay(w.semaphore, w.value)'
  PROVE  IInv'
<1>1. \A s, n : OnItsWay(s, n) => OnItsWay(s, n)'
  BY DEF IInv, Shape, OnItsWay
<1>2. \A d \in Queues : queue'[d] = IF d = c THEN q ELSE queue[d]
  BY DEF IInv, Shape
<1>3. Shape'
  BY <1>2 DEF IInv, Shape, KeepsUpdates
<1>4. UpdatesOnTheirWay'
  BY <1>1 DEF IInv, UpdatesOnTheirWay, KeepsUpdates
<1>5. QueuesOnTheirWay'
  BY <1>1, <1>2 DEF IInv, QueuesOnTheirWay
<1>6. SubmittedOnTheirWay'
  BY DEF SubmittedOnTheirWay
<1> QED BY <1>3, <1>4, <1>5, <1>6 DEF IInv

\* A submission takes along waits of its queue, which are on their way.
LEMMA SubmitWorkStep ==
  ASSUME IInv, program' = program, UNCHANGED fence, NEW c \in Queues, NEW work,
         SubmitWork(c, work), NEW q, QueueShape(q), q.wait_semaphores = {},
         q.last_submission = NextTimelineValue(c), queue' = [queue EXCEPT ![c] = q]
  PROVE  IInv'
<1> DEFINE v == VkQueueOf[c]
           s == [value |-> NextTimelineValue(c), work |-> work,
                 waits |-> RemainingWaits(queue[c].wait_semaphores)]
           subs == Append(vk_queue[v].submitted, s)
<1>1. v \in VkQueues
  BY ProgramsAssumption
<1>2. vk_queue' = [vk_queue EXCEPT ![v].submission_timeline_count = @ + 1, ![v].submitted = subs]
  BY DEF SubmitWork
<1>3. /\ IsSeq(subs)
      /\ \A i \in DOMAIN subs :
           subs[i] = s \/ \E j \in DOMAIN vk_queue[v].submitted : subs[i] = vk_queue[v].submitted[j]
  <2>1. IsSeq(vk_queue[v].submitted)
    BY <1>1 DEF IInv, Shape
  <2> QED BY <2>1, AppendElements
<1> HIDE DEF subs
<1>4. /\ DOMAIN vk_queue' = VkQueues /\ DOMAIN vk_queue'[v] = VkQueueFields
      /\ vk_queue'[v].submission_timeline_count = Count(v) + 1 /\ vk_queue'[v].submitted = subs
      /\ \A x \in VkQueues \ {v} : vk_queue'[x] = vk_queue[x]
  BY <1>1, <1>2 DEF IInv, Shape, Count, VkQueueFields
<1> HIDE DEF v
<1>5. \A x \in VkQueues : /\ DOMAIN vk_queue'[x] = VkQueueFields
                          /\ Count(x)' \in Nat /\ Count(x) <= Count(x)'
                          /\ IsSeq(vk_queue'[x].submitted)
  BY <1>1, <1>3, <1>4 DEF IInv, Shape, Count
<1>6. \A x, n : OnItsWay(x, n) => OnItsWay(x, n)'
  BY <1>5 DEF OnItsWay, IInv, Shape
<1>7. OnItsWay(VkQueueOf[c], q.last_submission)'
  BY <1>1, <1>4 DEF OnItsWay, Count, NextTimelineValue, v, IInv, Shape
<1>8. \A w \in s.waits : OnItsWay(w.semaphore, w.value)
  BY DEF RemainingWaits, IInv, QueuesOnTheirWay
<1> HIDE DEF s
<1>9. ASSUME NEW x \in VkQueues, NEW i \in DOMAIN vk_queue'[x].submitted,
             NEW w \in vk_queue'[x].submitted[i].waits
      PROVE  OnItsWay(w.semaphore, w.value)'
  <2>1. CASE x = v
    <3>1. \/ w \in s.waits
          \/ \E j \in DOMAIN vk_queue[v].submitted : w \in vk_queue[v].submitted[j].waits
      BY <1>3, <1>4, <1>9, <2>1
    <3> QED BY <3>1, <1>1, <1>6, <1>8 DEF IInv, SubmittedOnTheirWay
  <2>2. CASE x # v
    BY <1>4, <1>6, <1>9, <2>2 DEF IInv, SubmittedOnTheirWay
  <2> QED BY <2>1, <2>2
<1>10. \A w \in q.wait_semaphores : OnItsWay(w.semaphore, w.value)'
  OBVIOUS
<1>11. DOMAIN fence' = Fences /\ \A h \in Fences : KeepsUpdates(fence[h], fence'[h])
  BY FencesKept DEF IInv
<1> QED BY <1>4, <1>5, <1>7, <1>9, <1>10, <1>11, QueueStep

\* A failed submission spends a timeline value.
LEMMA SubmissionFailsStep ==
  ASSUME IInv, NEW c \in Queues, SubmissionFails(c), NEW q, QueueShape(q),
         q.wait_semaphores = {},
         q.last_submission \in {queue[c].last_submission, NextTimelineValue(c)},
         queue' = [queue EXCEPT ![c] = q]
  PROVE  IInv'
<1> DEFINE v == VkQueueOf[c]
<1>1. v \in VkQueues
  BY ProgramsAssumption
<1>2. /\ vk_queue' = [vk_queue EXCEPT ![v].submission_timeline_count = @ + 1]
      /\ UNCHANGED <<program, fence>>
  BY DEF SubmissionFails
<1>3. /\ DOMAIN vk_queue' = VkQueues /\ DOMAIN vk_queue'[v] = VkQueueFields
      /\ vk_queue'[v].submission_timeline_count = Count(v) + 1
      /\ vk_queue'[v].submitted = vk_queue[v].submitted
      /\ \A x \in VkQueues \ {v} : vk_queue'[x] = vk_queue[x]
  BY <1>1, <1>2 DEF IInv, Shape, Count, VkQueueFields
<1> HIDE DEF v
<1>4. \A x \in VkQueues : /\ DOMAIN vk_queue'[x] = VkQueueFields
                          /\ Count(x)' \in Nat /\ Count(x) <= Count(x)'
                          /\ vk_queue'[x].submitted = vk_queue[x].submitted
  BY <1>1, <1>3 DEF IInv, Shape, Count
<1>5. \A x, n : OnItsWay(x, n) => OnItsWay(x, n)'
  BY <1>4 DEF OnItsWay, IInv, Shape
<1>6. OnItsWay(v, queue[c].last_submission) /\ v = VkQueueOf[c]
  BY DEF IInv, QueuesOnTheirWay, v
<1>7. OnItsWay(VkQueueOf[c], q.last_submission)'
  BY <1>1, <1>3, <1>5, <1>6 DEF OnItsWay, Count, NextTimelineValue, IInv, Shape
<1>8. \A x \in VkQueues : \A i \in DOMAIN vk_queue'[x].submitted :
        \A w \in vk_queue'[x].submitted[i].waits : OnItsWay(w.semaphore, w.value)'
  BY <1>4, <1>5 DEF IInv, SubmittedOnTheirWay
<1>9. \A x \in VkQueues : IsSeq(vk_queue'[x].submitted)
  BY <1>4 DEF IInv, Shape
<1>10. DOMAIN fence' = Fences /\ \A h \in Fences : KeepsUpdates(fence[h], fence'[h])
  BY <1>2, FencesKept DEF IInv
<1> QED BY <1>2, <1>3, <1>4, <1>7, <1>8, <1>9, <1>10, QueueStep

\* A deferred wait is merged with what the queue waits for already.
LEMMA AddWaitSemaphoreStep ==
  ASSUME Shape, NEW waits, \A x \in waits : OnItsWay(x.semaphore, x.value),
         NEW s, NEW n, OnItsWay(s, n)
  PROVE  \A x \in AddWaitSemaphore(waits, [semaphore |-> s, value |-> n]) :
           OnItsWay(x.semaphore, x.value)
<1> DEFINE w    == [semaphore |-> s, value |-> n]
           same == {x \in waits : x.semaphore = s}
           V    == {x.value : x \in same \cup {w}}
<1>1. Count(s) \in Nat
  BY DEF Shape, OnItsWay
<1>2. V \in SUBSET (0..Count(s)) /\ V # {}
  <2>1. \A x \in same : x.value \in 0..Count(s)
    BY DEF OnItsWay
  <2>2. w.value \in 0..Count(s)
    BY DEF OnItsWay
  <2> HIDE DEF same, w
  <2> QED BY <2>1, <2>2
<1>3. Max(V) \in V
  BY <1>1, <1>2, MaxOfBounded
<1> HIDE DEF V
<1>4. OnItsWay(s, Max(V))
  BY <1>2, <1>3 DEF OnItsWay
<1>5. AddWaitSemaphore(waits, w) = (waits \ same) \cup {[w EXCEPT !.value = Max(V)]}
  BY DEF AddWaitSemaphore, V
<1> QED BY <1>4, <1>5

\* The submission thread carries out calls that name fences.
LEMMA CurrentCall ==
  ASSUME Shape, NEW c \in Queues, NEW type, Working(c, type)
  PROVE  /\ queue[c].submissions # <<>> /\ IsCall(Current(c))
         /\ type \in {"wait", "signal"} => Current(c).fence \in Fences
<1>1. IsSeq(queue[c].submissions) /\ queue[c].submissions # <<>>
  BY DEF Shape, QueueShape, Working
<1>2. Current(c) = queue[c].submissions[1] /\ 1 \in DOMAIN queue[c].submissions
  BY <1>1, TailElements DEF Current
<1> QED BY <1>1, <1>2 DEF Shape, QueueShape, IsCall, Working, Current

-----------------------------------------------------------------------------
(* The actions of the application.                                         *)

LEMMA CallAppended ==
  ASSUME NEW s, IsSeq(s), \A i \in DOMAIN s : IsCall(s[i]), NEW op, IsCall(op)
  PROVE  /\ IsSeq(Append(s, op)) /\ Append(s, op) # <<>>
         /\ \A i \in DOMAIN Append(s, op) : IsCall(Append(s, op)[i])
<1>1. IsSeq(Append(s, op)) /\ Append(s, op) # <<>>
  BY AppendElements
<1>2. ASSUME NEW i \in DOMAIN Append(s, op) PROVE IsCall(Append(s, op)[i])
  <2>1. /\ Len(s) \in Nat /\ DOMAIN s = 1..Len(s) /\ i \in 1..(Len(s) + 1)
        /\ \A j \in 1..Len(s) : Append(s, op)[j] = s[j]
        /\ Append(s, op)[Len(s) + 1] = op
    BY AppendElements
  <2>2. CASE i \in 1..Len(s)
    BY <2>1, <2>2
  <2>3. CASE i = Len(s) + 1
    BY <2>1, <2>3
  <2> QED BY <2>1, <2>2, <2>3
<1> QED BY <1>1, <1>2

LEMMA EnqueueStep ==
  ASSUME Shape, NEW c \in Queues, NEW op, IsCall(op), Enqueue(c, op)
  PROVE  DOMAIN queue' = Queues /\ \A d \in Queues : KeepsWaits(queue[d], queue'[d])
<1> DEFINE subs == Append(queue[c].submissions, op)
           q == [queue[c] EXCEPT !.submissions = subs, !.calls = @ + 1]
<1>1. IsSeq(subs) /\ subs # <<>> /\ \A i \in DOMAIN subs : IsCall(subs[i])
  <2>1. /\ IsSeq(queue[c].submissions)
        /\ \A i \in DOMAIN queue[c].submissions : IsCall(queue[c].submissions[i])
    BY DEF Shape, QueueShape
  <2> QED BY <2>1, CallAppended
<1> HIDE DEF subs
<1>2. KeepsWaits(queue[c], q)
  BY <1>1 DEF KeepsWaits, Shape, QueueShape, QueueFields
<1>3. queue' = [queue EXCEPT ![c] = q]
  BY DEF Enqueue, subs
<1> QED BY <1>2, <1>3, QueueUpdate

LEMMA ApplicationQueueStep ==
  ASSUME IInv, NEW c \in Queues, ExecuteCommandLists(c) \/ ReleaseQueue(c)
  PROVE  IInv'
<1>1. DOMAIN fence' = Fences /\ \A h \in Fences : KeepsUpdates(fence[h], fence'[h])
  BY FencesKept DEF IInv, ExecuteCommandLists, ReleaseQueue
<1>2. DOMAIN queue' = Queues /\ \A d \in Queues : KeepsWaits(queue[d], queue'[d])
  <2>1. CASE ExecuteCommandLists(c)
    BY <2>1, EnqueueStep DEF ExecuteCommandLists, IsCall, IInv
  <2>2. CASE ReleaseQueue(c)
    <3> DEFINE subs == Append(queue[c].submissions, [type |-> "stop"])
               q == [queue[c] EXCEPT !.open = FALSE, !.submissions = subs]
    <3>1. IsSeq(subs) /\ subs # <<>> /\ \A i \in DOMAIN subs : IsCall(subs[i])
      <4>1. /\ IsSeq(queue[c].submissions)
            /\ \A i \in DOMAIN queue[c].submissions : IsCall(queue[c].submissions[i])
        BY DEF IInv, Shape, QueueShape
      <4>2. IsCall([type |-> "stop"])
        BY DEF IsCall
      <4> QED BY <4>1, <4>2, CallAppended
    <3> HIDE DEF subs
    <3>2. KeepsWaits(queue[c], q)
      BY <3>1 DEF KeepsWaits, IInv, Shape, QueueShape, QueueFields
    <3>3. queue' = [queue EXCEPT ![c] = q]
      BY <2>2 DEF ReleaseQueue, subs
    <3> QED BY <3>2, <3>3, QueueUpdate DEF IInv
  <2> QED BY <2>1, <2>2
<1>3. UNCHANGED <<program, vk_queue>>
  BY DEF ExecuteCommandLists, ReleaseQueue, gpu
<1> QED BY <1>1, <1>2, <1>3, QuietStep

LEMMA ApplicationCallStep ==
  ASSUME IInv, NEW k \in program.waits_and_signals, QueueWait(k) \/ QueueSignal(k)
  PROVE  IInv'
<1>1. k.fence \in Fences /\ k.queue \in Queues
  BY ProgramsAssumption DEF IInv, Shape, ProgramType
<1>2. DOMAIN fence' = Fences /\ \A h \in Fences : KeepsUpdates(fence[h], fence'[h])
  <2>1. CASE QueueWait(k)
    <3>1. KeepsUpdates(fence[k.fence], RegisterWait(fence[k.fence], k.value))
      BY <1>1, FenceOperators DEF IInv, Shape
    <3>2. fence' = [fence EXCEPT ![k.fence] = RegisterWait(fence[k.fence], k.value)]
      BY <2>1 DEF QueueWait
    <3> QED BY <3>1, <3>2, FenceUpdate DEF IInv
  <2>2. CASE QueueSignal(k)
    BY <2>2, FencesKept DEF QueueSignal, IInv
  <2> QED BY <2>1, <2>2
<1>3. DOMAIN queue' = Queues /\ \A d \in Queues : KeepsWaits(queue[d], queue'[d])
  <2>1. PICK op : op.fence = k.fence /\ Enqueue(k.queue, op)
    BY DEF QueueWait, QueueSignal
  <2> QED BY <2>1, <1>1, EnqueueStep DEF IsCall, IInv
<1>4. UNCHANGED <<program, vk_queue>>
  BY DEF QueueWait, QueueSignal, gpu
<1> QED BY <1>2, <1>3, <1>4, QuietStep

LEMMA ApplicationFenceStep ==
  ASSUME IInv, NEW f \in Fences, CpuSignalFence(f) \/ Release(f)
  PROVE  IInv'
<1>1. PICK value : fence' = [fence EXCEPT ![f] = CpuSignal(fence[f], value)]
  BY DEF CpuSignalFence, Release
<1>2. KeepsUpdates(fence[f], CpuSignal(fence[f], value))
  BY FenceOperators DEF IInv, Shape
<1>3. DOMAIN fence' = Fences /\ \A h \in Fences : KeepsUpdates(fence[h], fence'[h])
  BY <1>1, <1>2, FenceUpdate DEF IInv
<1>4. UNCHANGED <<program, vk_queue, queue>>
  BY DEF CpuSignalFence, Release, gpu
<1>5. DOMAIN queue' = Queues /\ \A d \in Queues : KeepsWaits(queue[d], queue'[d])
  BY <1>4, QueuesKept DEF IInv
<1> QED BY <1>3, <1>4, <1>5, QuietStep

-----------------------------------------------------------------------------
(* The submission thread.                                                  *)

\* The update that a wait is resolved to is scheduled at a value on its way.
LEMMA ResolvesStep ==
  ASSUME IInv, NEW c \in Queues, Unresolved(c),
         NEW u \in Resolutions(fence[Current(c).fence], Current(c).value, VkQueueOf[c]),
         Resolves(c, u)
  PROVE  /\ OnItsWay(u.vk_semaphore, u.vk_semaphore_value)
         /\ DOMAIN fence' = Fences /\ \A h \in Fences : KeepsUpdates(fence[h], fence'[h])
         /\ UNCHANGED <<program, vk_queue>>
         /\ queue[c].submissions # <<>> /\ QueueShape(queue[c])
<1> DEFINE f == Current(c).fence
<1>1. f \in Fences /\ queue[c].submissions # <<>>
  BY CurrentCall DEF IInv, Unresolved
<1>2. u \in fence[f].pending_updates
  BY DEF Resolutions, OnQueue, Satisfying
<1>3. KeepsUpdates(fence[f], ConsumeTicket(fence[f], Current(c).ticket))
  BY <1>1, FenceOperators DEF IInv, Shape
<1>4. DOMAIN fence' = Fences /\ \A h \in Fences : KeepsUpdates(fence[h], fence'[h])
  BY <1>3, FenceUpdate DEF Resolves, IInv
<1> QED BY <1>1, <1>2, <1>4 DEF Resolves, gpu, IInv, UpdatesOnTheirWay, Shape

LEMMA WaitOnSameVkQueueStep ==
  ASSUME IInv, NEW c \in Queues, WaitOnSameVkQueue(c) PROVE IInv'
<1>1. PICK u \in Resolutions(fence[Current(c).fence], Current(c).value, VkQueueOf[c]) :
        /\ Unresolved(c) /\ Resolves(c, u)
        /\ queue' = [queue EXCEPT ![c] = AddOrder(NextSubmission(queue[c]), Current(c).fence, u.update_count)]
  BY DEF WaitOnSameVkQueue
<1> DEFINE q == AddOrder(NextSubmission(queue[c]), Current(c).fence, u.update_count)
<1>2. KeepsWaits(queue[c], NextSubmission(queue[c]))
  BY <1>1, ResolvesStep, QueueOperators
<1>3. KeepsWaits(NextSubmission(queue[c]), q)
  BY <1>2, QueueOperators DEF KeepsWaits, AddOrder
<1> HIDE DEF q
<1>4. DOMAIN queue' = Queues /\ \A d \in Queues : KeepsWaits(queue[d], queue'[d])
  <2>1. KeepsWaits(queue[c], q)
    BY <1>2, <1>3 DEF KeepsWaits
  <2> QED BY <1>1, <2>1, QueueUpdate DEF IInv, q
<1> QED BY <1>1, <1>4, ResolvesStep, QuietStep

LEMMA WaitIsDeferredStep ==
  ASSUME IInv, NEW c \in Queues, WaitIsDeferred(c) PROVE IInv'
<1>1. PICK u \in Resolutions(fence[Current(c).fence], Current(c).value, VkQueueOf[c]) :
        /\ Unresolved(c) /\ Resolves(c, u)
        /\ queue' = [queue EXCEPT ![c] = AddWait(NextSubmission(queue[c]), Current(c).fence, u)]
  BY DEF WaitIsDeferred
<1> DEFINE p == NextSubmission(queue[c])
           waits == AddWaitSemaphore(p.wait_semaphores,
                      [semaphore |-> u.vk_semaphore, value |-> u.vk_semaphore_value])
           fences == Append(p.wait_fences, [fence |-> Current(c).fence,
                                            update_count |-> u.update_count])
<1>2. KeepsWaits(queue[c], p)
  BY <1>1, ResolvesStep, QueueOperators
<1>3. QueueShape(p) /\ p.last_submission = queue[c].last_submission
      /\ p.wait_semaphores \subseteq queue[c].wait_semaphores
  BY <1>2 DEF KeepsWaits
<1>4. IsSeq(fences)
  BY <1>3, AppendElements DEF QueueShape
<1>5. \A w \in waits : OnItsWay(w.semaphore, w.value)
  <2>1. \A w \in p.wait_semaphores : OnItsWay(w.semaphore, w.value)
    BY <1>3 DEF IInv, QueuesOnTheirWay
  <2>2. OnItsWay(u.vk_semaphore, u.vk_semaphore_value)
    BY <1>1, ResolvesStep
  <2> HIDE DEF p
  <2> QED BY <2>1, <2>2, AddWaitSemaphoreStep DEF IInv
<1>6. PICK q : q = [p EXCEPT !.wait_fences = fences, !.wait_semaphores = waits]
  OBVIOUS
<1>a. queue' = [queue EXCEPT ![c] = q]
  BY <1>1, <1>6 DEF AddWait
<1> HIDE DEF p, waits, fences
<1>7. QueueShape(q) /\ q.last_submission = p.last_submission /\ q.wait_semaphores = waits
  BY <1>3, <1>4, <1>6 DEF QueueShape, QueueFields
<1>8. /\ UNCHANGED <<program, vk_queue>>
      /\ DOMAIN fence' = Fences /\ \A h \in Fences : KeepsUpdates(fence[h], fence'[h])
  BY <1>1, ResolvesStep
<1>9. \A s, n : OnItsWay(s, n) => OnItsWay(s, n)'
  BY <1>8 DEF OnItsWay, Count
<1>10. OnItsWay(VkQueueOf[c], q.last_submission)'
  BY <1>3, <1>7, <1>9 DEF IInv, QueuesOnTheirWay
<1>11. \A w \in q.wait_semaphores : OnItsWay(w.semaphore, w.value)'
  BY <1>5, <1>7, <1>9
<1>12. \A v \in VkQueues : \A i \in DOMAIN vk_queue'[v].submitted :
         \A w \in vk_queue'[v].submitted[i].waits : OnItsWay(w.semaphore, w.value)'
  BY <1>8, <1>9 DEF IInv, SubmittedOnTheirWay
<1>13. /\ DOMAIN vk_queue' = VkQueues
       /\ \A v \in VkQueues : /\ DOMAIN vk_queue'[v] = VkQueueFields
                              /\ Count(v)' \in Nat /\ Count(v) <= Count(v)'
                              /\ IsSeq(vk_queue'[v].submitted)
  BY <1>8 DEF IInv, Shape, Count
<1> QED BY <1>7, <1>8, <1>10, <1>11, <1>12, <1>13, <1>a, QueueStep

LEMMA WaitOnCpuStep ==
  ASSUME IInv, NEW c \in Queues, WaitOnCpu(c) PROVE IInv'
<1>1. PICK u \in Resolutions(fence[Current(c).fence], Current(c).value, VkQueueOf[c]) :
        /\ Unresolved(c) /\ Resolves(c, u)
        /\ queue' = [queue EXCEPT
             ![c] = [AddOrder(queue[c], Current(c).fence, u.update_count) EXCEPT
                       !.pc = "cpu_wait",
                       !.cpu_wait = [semaphore |-> u.vk_semaphore,
                                     value |-> u.vk_semaphore_value]]]
  BY DEF WaitOnCpu
<1> DEFINE p == AddOrder(queue[c], Current(c).fence, u.update_count)
           q == [p EXCEPT !.pc = "cpu_wait",
                          !.cpu_wait = [semaphore |-> u.vk_semaphore,
                                        value |-> u.vk_semaphore_value]]
<1>2. KeepsWaits(queue[c], p)
  BY <1>1, ResolvesStep, QueueOperators DEF AddOrder
<1>a. p.submissions # <<>>
  BY <1>1, ResolvesStep DEF AddOrder, AddItem, QueueShape, QueueFields
<1> HIDE DEF p
<1>3. KeepsWaits(queue[c], q)
  BY <1>2, <1>a DEF KeepsWaits, QueueShape, QueueFields
<1>4. DOMAIN queue' = Queues /\ \A d \in Queues : KeepsWaits(queue[d], queue'[d])
  BY <1>1, <1>3, QueueUpdate DEF IInv, p
<1> QED BY <1>1, <1>4, ResolvesStep, QuietStep

\* The call at the head is done, or the thread ends, and nothing else happens.
LEMMA CallEndsStep ==
  ASSUME IInv, NEW c \in Queues, WaitSatisfied(c) \/ CpuWaitReturns(c) \/ Stops(c)
  PROVE  IInv'
<1>1. QueueShape(queue[c])
  BY DEF IInv, Shape
<1>2. DOMAIN fence' = Fences /\ \A h \in Fences : KeepsUpdates(fence[h], fence'[h])
  BY FencesKept DEF IInv, WaitSatisfied, CpuWaitReturns, Stops
<1>3. PICK q : queue' = [queue EXCEPT ![c] = q] /\ KeepsWaits(queue[c], q)
  <2>1. CASE WaitSatisfied(c)
    <3>1. queue[c].submissions # <<>>
      BY <2>1, CurrentCall DEF WaitSatisfied, IInv
    <3> QED BY <2>1, <3>1, <1>1, QueueOperators DEF WaitSatisfied
  <2>2. CASE CpuWaitReturns(c)
    <3>1. queue[c].submissions # <<>>
      BY <2>2, <1>1 DEF CpuWaitReturns, QueueShape
    <3>2. KeepsWaits(queue[c], NextSubmission(queue[c]))
      BY <3>1, <1>1, QueueOperators
    <3>3. KeepsWaits(queue[c], [NextSubmission(queue[c]) EXCEPT !.cpu_wait = 0])
      BY <3>2 DEF KeepsWaits, QueueShape, QueueFields, NextSubmission
    <3> QED BY <2>2, <3>3 DEF CpuWaitReturns
  <2>3. CASE Stops(c)
    <3>1. IsSeq(<<>>)
      BY <<>> \in Seq({}) DEF IsSeq
    <3>2. KeepsWaits(queue[c], [queue[c] EXCEPT !.submissions = <<>>, !.pc = "ended"])
      BY <1>1, <3>1 DEF KeepsWaits, QueueShape, QueueFields
    <3> QED BY <2>3, <3>2 DEF Stops
  <2> QED BY <2>1, <2>2, <2>3
<1>4. DOMAIN queue' = Queues /\ \A d \in Queues : KeepsWaits(queue[d], queue'[d])
  BY <1>3, QueueUpdate DEF IInv
<1>5. UNCHANGED <<program, vk_queue>>
  BY DEF WaitSatisfied, CpuWaitReturns, Stops, gpu
<1> QED BY <1>2, <1>4, <1>5, QuietStep

LEMMA FlushStep ==
  ASSUME IInv, NEW c \in Queues, FlushWaiters(c) \/ FlushFails(c)
  PROVE  IInv'
<1>1. QueueShape(queue[c])
  BY DEF IInv, Shape
<1> DEFINE p == FinalizeWaits(queue[c])
<1>2. QueueShape(p) /\ p.wait_semaphores = {} /\ p.last_submission = queue[c].last_submission
  BY <1>1, FinalizeWaitsShape
<1> HIDE DEF p
<1>3. CASE FlushWaiters(c) /\ RemainingWaits(queue[c].wait_semaphores) = {}
  <2> DEFINE q == [p EXCEPT !.pc = "flushed"]
  <2>1. /\ queue' = [queue EXCEPT ![c] = q]
        /\ UNCHANGED <<program, fence, vk_queue>>
    BY <1>3 DEF FlushWaiters, gpu, p
  <2>2. KeepsWaits(queue[c], q)
    BY <1>2 DEF KeepsWaits, QueueShape, QueueFields
  <2>3. DOMAIN queue' = Queues /\ \A d \in Queues : KeepsWaits(queue[d], queue'[d])
    BY <2>1, <2>2, QueueUpdate DEF IInv
  <2> QED BY <2>1, <2>3, FencesKept, QuietStep DEF IInv
<1>4. CASE FlushWaiters(c) /\ RemainingWaits(queue[c].wait_semaphores) # {}
  <2>1. PICK q : q = [p EXCEPT !.pc = "flushed", !.last_submission = NextTimelineValue(c)]
    OBVIOUS
  <2>2. /\ queue' = [queue EXCEPT ![c] = q]
        /\ SubmitWork(c, {}) /\ UNCHANGED <<program, fence>>
    BY <1>4, <2>1 DEF FlushWaiters, p
  <2>3. QueueShape(q) /\ q.wait_semaphores = {} /\ q.last_submission = NextTimelineValue(c)
    BY <1>2, <2>1 DEF QueueShape, QueueFields
  <2> QED BY <2>2, <2>3, SubmitWorkStep
<1>5. CASE FlushFails(c)
  <2>1. PICK q : q = [DropWaits(queue[c]) EXCEPT !.pc = "flushed",
                                                 !.last_submission = NextTimelineValue(c)]
    OBVIOUS
  <2>2. queue' = [queue EXCEPT ![c] = q] /\ SubmissionFails(c)
    BY <1>5, <2>1 DEF FlushFails
  <2>3. QueueShape(DropWaits(queue[c])) /\ DropWaits(queue[c]).wait_semaphores = {}
    BY <1>1, QueueOperators DEF KeepsWaits, DropWaits, QueueShape, QueueFields
  <2>4. QueueShape(q) /\ q.wait_semaphores = {} /\ q.last_submission = NextTimelineValue(c)
    BY <2>1, <2>3 DEF QueueShape, QueueFields
  <2> QED BY <2>2, <2>4, SubmissionFailsStep
<1> QED BY <1>3, <1>4, <1>5

\* A signal is scheduled at a value that was submitted.
LEMMA SignalsStep ==
  ASSUME IInv, NEW c \in Queues, Signals(c) PROVE IInv'
<1> DEFINE op == Current(c)
           value == queue[c].last_submission
           updated == AddPendingSignal(fence[op.fence], op.value, VkQueueOf[c], value)
           item == SignalItem(op.fence, updated.update_count, value)
           p == NextSubmission(queue[c])
           q == AddItem(p, item)
<1>1. QueueShape(queue[c]) /\ queue[c].submissions # <<>> /\ op.fence \in Fences
  BY CurrentCall DEF Signals, IInv, Shape
<1>2. /\ fence' = [fence EXCEPT ![op.fence] = updated]
      /\ queue' = [queue EXCEPT ![c] = q]
      /\ UNCHANGED <<program, vk_queue>>
  BY DEF Signals, gpu
<1>3. /\ DOMAIN updated = FenceFields
      /\ \A u \in updated.pending_updates :
           \/ u \in fence[op.fence].pending_updates
           \/ u.vk_semaphore = VkQueueOf[c] /\ u.vk_semaphore_value = value
  BY <1>1, AddPendingSignalUpdates DEF IInv, Shape
<1> HIDE DEF op, updated, item
<1>4. KeepsWaits(queue[c], q)
  <2>1. KeepsWaits(queue[c], p)
    BY <1>1, QueueOperators
  <2> HIDE DEF p
  <2>2. KeepsWaits(p, q)
    BY <2>1, QueueOperators DEF KeepsWaits
  <2> QED BY <2>1, <2>2 DEF KeepsWaits
<1> HIDE DEF q
<1>5. DOMAIN queue' = Queues /\ \A d \in Queues : KeepsWaits(queue[d], queue'[d])
  BY <1>2, <1>4, QueueUpdate DEF IInv
<1>6. \A s, n : OnItsWay(s, n) => OnItsWay(s, n)'
  BY <1>2 DEF OnItsWay, Count
<1>7. \A f \in Fences : fence'[f] = IF f = op.fence THEN updated ELSE fence[f]
  BY <1>1, <1>2 DEF IInv, Shape
<1>8. Shape'
  BY <1>2, <1>3, <1>5, <1>7 DEF IInv, Shape, Count, KeepsWaits
<1>9. OnItsWay(VkQueueOf[c], value)
  BY DEF IInv, QueuesOnTheirWay
<1>10. UpdatesOnTheirWay'
  <2> SUFFICES ASSUME NEW f \in Fences, NEW u \in fence'[f].pending_updates
               PROVE  OnItsWay(u.vk_semaphore, u.vk_semaphore_value)
    BY <1>6 DEF UpdatesOnTheirWay
  <2> HIDE DEF value
  <2>1. CASE u \in fence[f].pending_updates
    BY <2>1 DEF IInv, UpdatesOnTheirWay
  <2>2. CASE u \notin fence[f].pending_updates
    BY <2>2, <1>3, <1>7, <1>9
  <2> QED BY <2>1, <2>2
<1>11. QueuesOnTheirWay'
  BY <1>5, <1>6 DEF IInv, QueuesOnTheirWay, KeepsWaits
<1>12. SubmittedOnTheirWay'
  BY <1>2, <1>6 DEF IInv, SubmittedOnTheirWay
<1> QED BY <1>8, <1>10, <1>11, <1>12 DEF IInv

LEMMA ExecuteStep ==
  ASSUME IInv, NEW c \in Queues, Execute(c) \/ ExecuteFails(c)
  PROVE  IInv'
<1>1. QueueShape(queue[c]) /\ queue[c].submissions # <<>>
  BY CurrentCall DEF Execute, ExecuteFails, IInv, Shape
<1>2. CASE Execute(c)
  <2> DEFINE work == <<c, Len(before[c]) + 1>>
             item == ReleaseItem(work, NextTimelineValue(c))
             p == NextSubmission(FinalizeWaits(queue[c]))
  <2>1. PICK q : q = [AddItem(p, item) EXCEPT !.last_submission = NextTimelineValue(c)]
    OBVIOUS
  <2>2. /\ SubmitWork(c, {work}) /\ UNCHANGED <<program, fence>>
        /\ queue' = [queue EXCEPT ![c] = q]
    BY <1>2, <2>1 DEF Execute
  <2>3. QueueShape(p) /\ p.wait_semaphores = {}
    <3>1. /\ QueueShape(FinalizeWaits(queue[c]))
          /\ FinalizeWaits(queue[c]).submissions = queue[c].submissions
          /\ FinalizeWaits(queue[c]).wait_semaphores = {}
      BY <1>1, FinalizeWaitsShape
    <3> QED BY <1>1, <3>1, QueueOperators DEF KeepsWaits
  <2> HIDE DEF p, item
  <2>4. QueueShape(AddItem(p, item)) /\ AddItem(p, item).wait_semaphores = {}
    BY <2>3, QueueOperators DEF KeepsWaits
  <2>5. QueueShape(q) /\ q.wait_semaphores = {} /\ q.last_submission = NextTimelineValue(c)
    BY <2>1, <2>4 DEF QueueShape, QueueFields
  <2>6. PICK w : w = {work}
    OBVIOUS
  <2> QED BY <2>2, <2>5, <2>6, SubmitWorkStep
<1>3. CASE ExecuteFails(c)
  <2>1. PICK q : q = NextSubmission(DropWaits(queue[c]))
    OBVIOUS
  <2>2. queue' = [queue EXCEPT ![c] = q] /\ SubmissionFails(c)
    BY <1>3, <2>1 DEF ExecuteFails
  <2>3. /\ QueueShape(DropWaits(queue[c])) /\ DropWaits(queue[c]).wait_semaphores = {}
        /\ DropWaits(queue[c]).submissions # <<>>
        /\ DropWaits(queue[c]).last_submission = queue[c].last_submission
    BY <1>1, QueueOperators DEF KeepsWaits, DropWaits, QueueShape, QueueFields
  <2>4. KeepsWaits(DropWaits(queue[c]), q)
    BY <2>1, <2>3, QueueOperators
  <2>5. QueueShape(q) /\ q.wait_semaphores = {} /\ q.last_submission = queue[c].last_submission
    BY <2>3, <2>4 DEF KeepsWaits
  <2> QED BY <2>2, <2>5, SubmissionFailsStep
<1> QED BY <1>2, <1>3

-----------------------------------------------------------------------------
(* The fence worker and the GPU.                                           *)

LEMMA FenceWorkerStep ==
  ASSUME IInv, NEW c \in Queues, FenceWorker(c) PROVE IInv'
<1>1. PICK kind : NextItem(c, kind)
  BY DEF FenceWorker, EnsuresOrder, SignalsFence, DropsSignal, ReleasesSubmission
<1>2. UNCHANGED <<program, vk_queue>>
  BY <1>1 DEF NextItem, gpu
<1>3. DOMAIN queue' = Queues /\ \A d \in Queues : KeepsWaits(queue[d], queue'[d])
  <2> DEFINE q == [queue[c] EXCEPT !.fence_worker = Tail(@)]
  <2>1. QueueShape(queue[c]) /\ queue[c].fence_worker # <<>>
    BY <1>1 DEF NextItem, IInv, Shape
  <2>2. IsSeq(Tail(queue[c].fence_worker))
    BY <2>1, TailElements DEF QueueShape
  <2>3. KeepsWaits(queue[c], q)
    BY <2>1, <2>2 DEF KeepsWaits, QueueShape, QueueFields
  <2> QED BY <1>1, <2>3, QueueUpdate DEF NextItem, IInv
<1>4. DOMAIN fence' = Fences /\ \A h \in Fences : KeepsUpdates(fence[h], fence'[h])
  <2>1. CASE SignalsFence(c)
    <3> DEFINE item == Head(queue[c].fence_worker)
    <3>1. fence' = [fence EXCEPT ![item.fence] = Signal(fence[item.fence], item.update_count)]
      BY <2>1 DEF SignalsFence
    <3>2. item.fence \in Fences =>
            KeepsUpdates(fence[item.fence], Signal(fence[item.fence], item.update_count))
      BY FenceOperators DEF IInv, Shape
    <3> QED BY <3>1, <3>2, FenceUpdate DEF IInv
  <2>2. CASE ~SignalsFence(c)
    BY <2>2, FencesKept DEF FenceWorker, EnsuresOrder, DropsSignal, ReleasesSubmission, IInv
  <2> QED BY <2>1, <2>2
<1> QED BY <1>2, <1>3, <1>4, QuietStep

LEMMA GpuStep ==
  ASSUME IInv, NEW v \in VkQueues, Gpu(v) PROVE IInv'
<1> DEFINE subs == Tail(vk_queue[v].submitted)
<1>1. /\ vk_queue[v].submitted # <<>> /\ UNCHANGED <<program, fence, queue>>
      /\ vk_queue' = [vk_queue EXCEPT ![v].submitted = subs,
                                      ![v].completed = Head(vk_queue[v].submitted).value]
  BY DEF Gpu
<1>2. IsSeq(vk_queue[v].submitted)
  BY DEF IInv, Shape
<1>3. IsSeq(subs) /\ \A i \in DOMAIN subs :
                       i + 1 \in DOMAIN vk_queue[v].submitted /\ subs[i] = vk_queue[v].submitted[i + 1]
  <2>1. /\ IsSeq(subs) /\ Len(vk_queue[v].submitted) \in Nat \ {0}
        /\ DOMAIN vk_queue[v].submitted = 1..Len(vk_queue[v].submitted)
        /\ DOMAIN subs = 1..(Len(vk_queue[v].submitted) - 1)
        /\ \A i \in 1..(Len(vk_queue[v].submitted) - 1) : subs[i] = vk_queue[v].submitted[i + 1]
    BY <1>1, <1>2, TailElements
  <2> HIDE DEF subs
  <2> QED BY <2>1
<1> HIDE DEF subs
<1>4. /\ DOMAIN vk_queue' = VkQueues
      /\ \A x \in VkQueues : /\ DOMAIN vk_queue'[x] = VkQueueFields
                             /\ Count(x)' = Count(x)
                             /\ vk_queue'[x].submitted = IF x = v THEN subs ELSE vk_queue[x].submitted
  BY <1>1 DEF IInv, Shape, Count, VkQueueFields
<1>5. \A s, n : OnItsWay(s, n) => OnItsWay(s, n)'
  BY <1>4 DEF OnItsWay
<1>6. Shape'
  BY <1>1, <1>3, <1>4 DEF IInv, Shape
<1>7. UpdatesOnTheirWay'
  BY <1>1, <1>5 DEF IInv, UpdatesOnTheirWay
<1>8. QueuesOnTheirWay'
  BY <1>1, <1>5 DEF IInv, QueuesOnTheirWay
<1>9. SubmittedOnTheirWay'
  <2> SUFFICES ASSUME NEW x \in VkQueues, NEW i \in DOMAIN vk_queue'[x].submitted,
                      NEW w \in vk_queue'[x].submitted[i].waits
               PROVE  OnItsWay(w.semaphore, w.value)
    BY <1>5 DEF SubmittedOnTheirWay
  <2>1. \E j \in DOMAIN vk_queue[x].submitted :
          vk_queue'[x].submitted[i] = vk_queue[x].submitted[j]
    BY <1>3, <1>4
  <2> QED BY <2>1 DEF IInv, SubmittedOnTheirWay
<1> QED BY <1>6, <1>7, <1>8, <1>9 DEF IInv

-----------------------------------------------------------------------------
(* The theorem.                                                            *)

LEMMA InitIInv ==
  ASSUME Init PROVE IInv
<1>1. IsSeq(<<>>)
  BY <<>> \in Seq({}) DEF IsSeq
<1>2. \A f \in Fences : DOMAIN fence[f] = FenceFields /\ fence[f].pending_updates = {}
  BY DEF Init, NewFence, FenceFields
<1>3. \A c \in Queues : /\ QueueShape(queue[c]) /\ queue[c].last_submission = 0
                        /\ queue[c].wait_semaphores = {}
  BY <1>1 DEF Init, NewQueue, QueueShape, QueueFields
<1>4. \A v \in VkQueues : /\ DOMAIN vk_queue[v] = VkQueueFields /\ Count(v) = 0
                          /\ vk_queue[v].submitted = <<>>
  BY DEF Init, NewVkQueue, VkQueueFields, Count
<1>5. Shape
  BY <1>1, <1>2, <1>3, <1>4 DEF Init, Shape
<1>6. UpdatesOnTheirWay
  BY <1>2 DEF UpdatesOnTheirWay
<1>7. QueuesOnTheirWay
  BY <1>3, <1>4, ProgramsAssumption DEF QueuesOnTheirWay, OnItsWay
<1>8. SubmittedOnTheirWay
  BY <1>4 DEF SubmittedOnTheirWay
<1> QED BY <1>5, <1>6, <1>7, <1>8 DEF IInv

LEMMA NextIInv ==
  ASSUME IInv, [Next]_vars PROVE IInv'
<1>1. ASSUME NEW c \in Queues, ExecuteCommandLists(c) \/ ReleaseQueue(c) PROVE IInv'
  BY <1>1, ApplicationQueueStep
<1>2. ASSUME NEW k \in program.waits_and_signals, QueueWait(k) \/ QueueSignal(k) PROVE IInv'
  BY <1>2, ApplicationCallStep
<1>3. ASSUME NEW f \in Fences, CpuSignalFence(f) \/ Release(f) PROVE IInv'
  BY <1>3, ApplicationFenceStep
<1>4. ASSUME NEW c \in Queues, SubmissionThread(c) PROVE IInv'
  BY <1>4, CallEndsStep, WaitOnSameVkQueueStep, WaitIsDeferredStep, WaitOnCpuStep,
     FlushStep, SignalsStep, ExecuteStep DEF SubmissionThread
<1>5. ASSUME NEW c \in Queues, FenceWorker(c) PROVE IInv'
  BY <1>5, FenceWorkerStep
<1>6. ASSUME NEW c \in Queues, FreesQueue(c) PROVE IInv'
  <2> DEFINE q == [queue[c] EXCEPT !.pc = "freed"]
  <2>1. queue' = [queue EXCEPT ![c] = q] /\ UNCHANGED <<program, fence, vk_queue>>
    BY <1>6 DEF FreesQueue, gpu
  <2>2. KeepsWaits(queue[c], q)
    BY DEF KeepsWaits, IInv, Shape, QueueShape, QueueFields
  <2>3. DOMAIN queue' = Queues /\ \A d \in Queues : KeepsWaits(queue[d], queue'[d])
    BY <2>1, <2>2, QueueUpdate DEF IInv
  <2> QED BY <2>1, <2>3, FencesKept, QuietStep DEF IInv
<1>7. ASSUME NEW v \in VkQueues, Gpu(v) PROVE IInv'
  BY <1>7, GpuStep
<1>8. ASSUME LoseDevice \/ UNCHANGED vars PROVE IInv'
  BY <1>8, FencesKept, QueuesKept, QuietStep DEF LoseDevice, vars, gpu, IInv
<1> QED BY <1>1, <1>2, <1>3, <1>4, <1>5, <1>6, <1>7, <1>8 DEF Next

\* No command queue ever makes its VkQueue wait for a timeline value that
\* nothing submitted so far reaches, however many command queues share the
\* VkQueues: a wait is resolved to an update, an update is scheduled at the
\* last submission of its queue, and a failed submission spends its value
\* (d3d12_command_queue_wait, d3d12_command_queue_signal,
\* d3d12_command_queue_gather_wait_semaphores_locked).
THEOREM WaitsFollowSignals == Spec => []NoWaitBeforeSignal
<1>1. IInv => NoWaitBeforeSignal
  BY DEF IInv, SubmittedOnTheirWay, OnItsWay, Count, NoWaitBeforeSignal
<1> QED BY <1>1, InitIInv, NextIInv, PTL DEF Spec

-----------------------------------------------------------------------------
(* Proofs about command queues: what each step does to the fence workers,  *)
(* deferred waits and timelines, the shape of the histories, and that      *)
(* command allocators are held until the GPU is through with them.         *)

Worker(c)    == queue[c].fence_worker
Waits(c)     == queue[c].wait_semaphores
Deferred(c)  == queue[c].wait_fences
Last(c)      == queue[c].last_submission
Flushed(c)   == queue[c].pc = "flushed"
Submitted(v) == vk_queue[v].submitted
Reached(v)   == vk_queue[v].completed

-----------------------------------------------------------------------------
(* Effects of the steps on queues.                                         *)

LEMMA OperatorFields ==
  ASSUME NEW q, DOMAIN q = QueueFields
  PROVE  /\ LET r == NextSubmission(q) IN
              /\ DOMAIN r = QueueFields /\ r.pc = "ready"
              /\ r.submissions = Tail(q.submissions) /\ r.fence_worker = q.fence_worker
              /\ r.wait_semaphores = q.wait_semaphores /\ r.wait_fences = q.wait_fences
              /\ r.last_submission = q.last_submission
         /\ LET r == DropWaits(q) IN
              /\ DOMAIN r = QueueFields /\ r.pc = q.pc
              /\ r.submissions = q.submissions /\ r.fence_worker = q.fence_worker
              /\ r.wait_semaphores = {} /\ r.wait_fences = <<>>
              /\ r.last_submission = q.last_submission
<1>1. LET r == NextSubmission(q) IN
        /\ DOMAIN r = QueueFields /\ r.pc = "ready"
        /\ r.submissions = Tail(q.submissions) /\ r.fence_worker = q.fence_worker
        /\ r.wait_semaphores = q.wait_semaphores /\ r.wait_fences = q.wait_fences
        /\ r.last_submission = q.last_submission
  BY DEF NextSubmission, QueueFields
<1>2. LET r == DropWaits(q) IN
        /\ DOMAIN r = QueueFields /\ r.pc = q.pc
        /\ r.submissions = q.submissions /\ r.fence_worker = q.fence_worker
        /\ r.wait_semaphores = {} /\ r.wait_fences = <<>>
        /\ r.last_submission = q.last_submission
  BY DEF DropWaits, QueueFields
<1> QED BY <1>1, <1>2

\* What a step leaves alone of queue d, apart from its calls.
Unmoved(d) ==
  /\ Worker(d)' = Worker(d) /\ Waits(d)' = Waits(d) /\ Deferred(d)' = Deferred(d)
  /\ Last(d)' = Last(d) /\ (Flushed(d)' => Flushed(d))

OthersUnmoved(c) == \A d \in Queues \ {c} : Unmoved(d) /\ queue'[d] = queue[d]

LEMMA OnlyQueue ==
  ASSUME Shape, NEW c \in Queues, NEW q, queue' = [queue EXCEPT ![c] = q]
  PROVE  queue'[c] = q /\ OthersUnmoved(c)
BY DEF Shape, OthersUnmoved, Unmoved, Worker, Waits, Deferred, Last, Flushed

LEMMA IdleEffect ==
  ASSUME Shape, NEW c \in Queues,
         \/ ExecuteCommandLists(c) \/ ReleaseQueue(c) \/ (\E op : Enqueue(c, op))
         \/ WaitSatisfied(c) \/ CpuWaitReturns(c) \/ Stops(c) \/ FreesQueue(c)
  PROVE  \A d \in Queues : Unmoved(d)
<1> DEFINE Idle(q) == /\ q.fence_worker = Worker(c) /\ q.wait_semaphores = Waits(c)
                      /\ q.wait_fences = Deferred(c) /\ q.last_submission = Last(c)
                      /\ (q.pc = "flushed" => Flushed(c))
<1>1. DOMAIN queue[c] = QueueFields
  BY DEF Shape, QueueShape
<1>2. PICK q : queue' = [queue EXCEPT ![c] = q] /\ Idle(q)
  <2> USE DEF Worker, Waits, Deferred, Last, Flushed
  <2>1. CASE \E op : Enqueue(c, op)
    <3>1. PICK op : Enqueue(c, op)
      BY <2>1
    <3>2. Idle([queue[c] EXCEPT !.submissions = Append(@, op), !.calls = @ + 1])
      BY <1>1 DEF QueueFields
    <3> QED BY <3>1, <3>2 DEF Enqueue
  <2>2. CASE ExecuteCommandLists(c)
    BY <2>1, <2>2 DEF ExecuteCommandLists
  <2>3. CASE ReleaseQueue(c)
    <3>1. Idle([queue[c] EXCEPT !.open = FALSE,
                                !.submissions = Append(@, [type |-> "stop"])])
      BY <1>1 DEF QueueFields
    <3> QED BY <2>3, <3>1 DEF ReleaseQueue
  <2>4. CASE WaitSatisfied(c)
    BY <1>1, <2>4, OperatorFields DEF WaitSatisfied
  <2>5. CASE CpuWaitReturns(c)
    <3>1. Idle([NextSubmission(queue[c]) EXCEPT !.cpu_wait = 0])
      BY <1>1, OperatorFields DEF QueueFields
    <3> QED BY <2>5, <3>1 DEF CpuWaitReturns
  <2>6. CASE Stops(c)
    <3>1. Idle([queue[c] EXCEPT !.submissions = <<>>, !.pc = "ended"])
      BY <1>1 DEF QueueFields
    <3> QED BY <2>6, <3>1 DEF Stops
  <2>7. CASE FreesQueue(c)
    <3>1. Idle([queue[c] EXCEPT !.pc = "freed"])
      BY <1>1 DEF QueueFields
    <3> QED BY <2>7, <3>1 DEF FreesQueue
  <2> QED BY <2>1, <2>2, <2>3, <2>4, <2>5, <2>6, <2>7
<1>3. queue'[c] = q /\ OthersUnmoved(c)
  BY <1>2, OnlyQueue
<1> QED BY <1>2, <1>3 DEF OthersUnmoved, Unmoved, Worker, Waits, Deferred, Last, Flushed

\* The calls that take a wait off the FIFO: its update is u.
LEMMA ResolutionEffect ==
  ASSUME IInv, NEW c \in Queues, WaitOnSameVkQueue(c) \/ WaitIsDeferred(c) \/ WaitOnCpu(c)
  PROVE  \E f \in Fences : \E u \in fence[f].pending_updates :
           /\ Last(c)' = Last(c) /\ ~Flushed(c)' /\ OthersUnmoved(c)
           /\ \/ /\ Worker(c)' = Append(Worker(c), OrderItem(f, u.update_count))
                 /\ Waits(c)' = Waits(c) /\ Deferred(c)' = Deferred(c)
                 /\ u.vk_semaphore = VkQueueOf[c] \/ MayNeedCpuWaits(c)
              \/ /\ Worker(c)' = Worker(c)
                 /\ Waits(c)' = AddWaitSemaphore(Waits(c),
                      [semaphore |-> u.vk_semaphore, value |-> u.vk_semaphore_value])
                 /\ Deferred(c)' = Append(Deferred(c),
                      [fence |-> f, update_count |-> u.update_count])
           /\ fence' = [fence EXCEPT ![f] = ConsumeTicket(@, Current(c).ticket)]
           /\ known' = [known EXCEPT ![c] = @ \cup followed[f][u.update_count]
                                               \cup {<<f, u.update_count>>}]
           /\ UNCHANGED <<program, gpu, followed, before, done>>
<1> DEFINE f == Current(c).fence
           all == Resolutions(fence[f], Current(c).value, VkQueueOf[c])
           Order(n) == AddItem(NextSubmission(queue[c]), OrderItem(f, n))
           Deferral(u) == AddWait(NextSubmission(queue[c]), f, u)
           OnCpu(u) == [AddItem(queue[c], OrderItem(f, u.update_count)) EXCEPT
                          !.pc = "cpu_wait",
                          !.cpu_wait = [semaphore |-> u.vk_semaphore,
                                        value |-> u.vk_semaphore_value]]
<1>1. PICK u \in all :
        /\ Unresolved(c) /\ Resolves(c, u)
        /\ \/ /\ u.vk_semaphore = VkQueueOf[c]
              /\ queue' = [queue EXCEPT ![c] = Order(u.update_count)]
           \/ queue' = [queue EXCEPT ![c] = Deferral(u)]
           \/ MayNeedCpuWaits(c) /\ queue' = [queue EXCEPT ![c] = OnCpu(u)]
  BY DEF WaitOnSameVkQueue, WaitIsDeferred, WaitOnCpu, AddOrder
<1>2. f \in Fences /\ u \in fence[f].pending_updates
  <2>1. f \in Fences
    BY <1>1, CurrentCall DEF IInv, Unresolved
  <2> QED BY <2>1 DEF Resolutions, OnQueue, Satisfying
<1>3. /\ fence' = [fence EXCEPT ![f] = ConsumeTicket(@, Current(c).ticket)]
      /\ known' = [known EXCEPT ![c] = @ \cup followed[f][u.update_count]
                                          \cup {<<f, u.update_count>>}]
      /\ UNCHANGED <<program, gpu, followed, before, done>>
  BY <1>1 DEF Resolves
<1>4. DOMAIN queue[c] = QueueFields
  BY DEF IInv, Shape, QueueShape
<1> HIDE DEF f, all
<1>5. CASE u.vk_semaphore = VkQueueOf[c] /\ queue' = [queue EXCEPT ![c] = Order(u.update_count)]
  <2>1. queue'[c] = Order(u.update_count) /\ OthersUnmoved(c)
    BY <1>5, OnlyQueue DEF IInv
  <2>2. LET r == NextSubmission(queue[c]) IN
          /\ DOMAIN r = QueueFields /\ r.pc = "ready" /\ r.fence_worker = Worker(c)
          /\ r.wait_semaphores = Waits(c) /\ r.wait_fences = Deferred(c)
          /\ r.last_submission = Last(c)
    BY <1>4, OperatorFields DEF Worker, Waits, Deferred, Last
  <2>3. /\ Worker(c)' = Append(Worker(c), OrderItem(f, u.update_count))
        /\ Waits(c)' = Waits(c) /\ Deferred(c)' = Deferred(c) /\ Last(c)' = Last(c)
        /\ ~Flushed(c)'
    BY <2>1, <2>2 DEF AddItem, Worker, Waits, Deferred, Last, Flushed, QueueFields
  <2> QED BY <1>2, <1>3, <1>5, <2>1, <2>3
<1>6. CASE queue' = [queue EXCEPT ![c] = Deferral(u)]
  <2>1. queue'[c] = Deferral(u) /\ OthersUnmoved(c)
    BY <1>6, OnlyQueue DEF IInv
  <2>2. LET r == NextSubmission(queue[c]) IN
          /\ DOMAIN r = QueueFields /\ r.pc = "ready" /\ r.fence_worker = Worker(c)
          /\ r.wait_semaphores = Waits(c) /\ r.wait_fences = Deferred(c)
          /\ r.last_submission = Last(c)
    BY <1>4, OperatorFields DEF Worker, Waits, Deferred, Last
  <2>3. /\ Worker(c)' = Worker(c)
        /\ Waits(c)' = AddWaitSemaphore(Waits(c),
             [semaphore |-> u.vk_semaphore, value |-> u.vk_semaphore_value])
        /\ Deferred(c)' = Append(Deferred(c), [fence |-> f, update_count |-> u.update_count])
        /\ Last(c)' = Last(c) /\ ~Flushed(c)'
    BY <2>1, <2>2 DEF AddWait, Worker, Waits, Deferred, Last, Flushed, QueueFields
  <2> QED BY <1>2, <1>3, <2>1, <2>3
<1>7. CASE MayNeedCpuWaits(c) /\ queue' = [queue EXCEPT ![c] = OnCpu(u)]
  <2>1. queue'[c] = OnCpu(u) /\ OthersUnmoved(c)
    BY <1>7, OnlyQueue DEF IInv
  <2>2. LET r == AddItem(queue[c], OrderItem(f, u.update_count)) IN
          /\ DOMAIN r = QueueFields
          /\ r.fence_worker = Append(Worker(c), OrderItem(f, u.update_count))
          /\ r.wait_semaphores = Waits(c) /\ r.wait_fences = Deferred(c)
          /\ r.last_submission = Last(c)
    BY <1>4 DEF AddItem, QueueFields, Worker, Waits, Deferred, Last
  <2>3. /\ Worker(c)' = Append(Worker(c), OrderItem(f, u.update_count))
        /\ Waits(c)' = Waits(c) /\ Deferred(c)' = Deferred(c) /\ Last(c)' = Last(c)
        /\ ~Flushed(c)'
    BY <2>1, <2>2 DEF Worker, Waits, Deferred, Last, Flushed, QueueFields
  <2> QED BY <1>2, <1>3, <1>7, <2>1, <2>3
<1> QED BY <1>1, <1>5, <1>6, <1>7

Orders(s) == [i \in DOMAIN s |-> OrderItem(s[i].fence, s[i].update_count)]

\* SIGNAL and STOP let go of the waits, with or without a submission.
LEMMA FlushEffect ==
  ASSUME IInv, NEW c \in Queues, FlushWaiters(c)
  PROVE  /\ Worker(c)' = Worker(c) \o Orders(Deferred(c))
         /\ Waits(c)' = {} /\ Deferred(c)' = <<>> /\ OthersUnmoved(c)
         /\ \/ /\ RemainingWaits(Waits(c)) = {}
               /\ Last(c)' = Last(c) /\ UNCHANGED gpu
            \/ Last(c)' = NextTimelineValue(c) /\ SubmitWork(c, {})
         /\ UNCHANGED <<program, fence, history>>
<1> DEFINE p == FinalizeWaits(queue[c])
<1>1. DOMAIN queue[c] = QueueFields
  BY DEF IInv, Shape, QueueShape
<1>2. /\ DOMAIN p = QueueFields /\ p.fence_worker = Worker(c) \o Orders(Deferred(c))
      /\ p.wait_semaphores = {} /\ p.wait_fences = <<>> /\ p.last_submission = Last(c)
  BY <1>1 DEF FinalizeWaits, Orders, QueueFields, Worker, Deferred, Last
<1>a. UNCHANGED <<program, fence, history>>
  BY DEF FlushWaiters
<1> HIDE DEF p
<1>3. CASE RemainingWaits(queue[c].wait_semaphores) = {}
  <2>1. queue' = [queue EXCEPT ![c] = [p EXCEPT !.pc = "flushed"]] /\ UNCHANGED gpu
    BY <1>3 DEF FlushWaiters, p
  <2>2. queue'[c] = [p EXCEPT !.pc = "flushed"] /\ OthersUnmoved(c)
    BY <2>1, OnlyQueue DEF IInv
  <2>3. /\ Worker(c)' = Worker(c) \o Orders(Deferred(c))
        /\ Waits(c)' = {} /\ Deferred(c)' = <<>> /\ Last(c)' = Last(c)
    BY <1>2, <2>2 DEF Worker, Waits, Deferred, Last, QueueFields
  <2> QED BY <1>a, <1>3, <2>1, <2>2, <2>3 DEF Waits
<1>4. CASE RemainingWaits(queue[c].wait_semaphores) # {}
  <2> DEFINE q == [p EXCEPT !.pc = "flushed", !.last_submission = NextTimelineValue(c)]
  <2>1. queue' = [queue EXCEPT ![c] = q] /\ SubmitWork(c, {})
    BY <1>4 DEF FlushWaiters, p
  <2>2. queue'[c] = q /\ OthersUnmoved(c)
    BY <2>1, OnlyQueue DEF IInv
  <2>3. /\ Worker(c)' = Worker(c) \o Orders(Deferred(c))
        /\ Waits(c)' = {} /\ Deferred(c)' = <<>> /\ Last(c)' = NextTimelineValue(c)
    BY <1>2, <2>2 DEF Worker, Waits, Deferred, Last, QueueFields
  <2> QED BY <1>a, <2>1, <2>2, <2>3
<1> QED BY <1>3, <1>4

NextWork(c) == <<c, Len(before[c]) + 1>>

LEMMA ExecuteEffect ==
  ASSUME IInv, NEW c \in Queues, Execute(c)
  PROVE  /\ Worker(c)' = Append(Worker(c) \o Orders(Deferred(c)),
                                ReleaseItem(NextWork(c), NextTimelineValue(c)))
         /\ Waits(c)' = {} /\ Deferred(c)' = <<>> /\ OthersUnmoved(c)
         /\ Last(c)' = NextTimelineValue(c) /\ SubmitWork(c, {NextWork(c)}) /\ ~Flushed(c)'
         /\ before' = [before EXCEPT ![c] = Append(@, known[c])]
         /\ known' = [known EXCEPT ![c] = @ \cup {NextWork(c)}]
         /\ UNCHANGED <<program, fence, followed, done>>
<1> DEFINE p == NextSubmission(FinalizeWaits(queue[c]))
           item == ReleaseItem(NextWork(c), NextTimelineValue(c))
           q == [AddItem(p, item) EXCEPT !.last_submission = NextTimelineValue(c)]
<1>1. DOMAIN queue[c] = QueueFields
  BY DEF IInv, Shape, QueueShape
<1>2. /\ DOMAIN p = QueueFields /\ p.fence_worker = Worker(c) \o Orders(Deferred(c))
      /\ p.wait_semaphores = {} /\ p.wait_fences = <<>> /\ p.pc = "ready"
  BY <1>1 DEF NextSubmission, FinalizeWaits, Orders, QueueFields, Worker, Deferred
<1>3. queue' = [queue EXCEPT ![c] = q]
  BY DEF Execute, NextWork
<1> HIDE DEF p, item
<1>4. queue'[c] = q /\ OthersUnmoved(c)
  BY <1>3, OnlyQueue DEF IInv
<1>5. /\ Worker(c)' = Append(Worker(c) \o Orders(Deferred(c)), item)
      /\ Waits(c)' = {} /\ Deferred(c)' = <<>> /\ Last(c)' = NextTimelineValue(c)
      /\ ~Flushed(c)'
  BY <1>2, <1>4 DEF AddItem, Worker, Waits, Deferred, Last, Flushed, QueueFields
<1> QED BY <1>4, <1>5 DEF Execute, NextWork, item

LEMMA SignalsEffect ==
  ASSUME IInv, NEW c \in Queues, Signals(c)
  PROVE  LET op == Current(c)
             f == op.fence
             n == fence[f].update_count + 1
         IN  /\ f \in Fences /\ Working(c, "signal") /\ Flushed(c) /\ ~Flushed(c)'
             /\ Worker(c)' = Append(Worker(c), SignalItem(f, n, Last(c)))
             /\ Waits(c)' = Waits(c) /\ Deferred(c)' = Deferred(c) /\ Last(c)' = Last(c)
             /\ OthersUnmoved(c)
             /\ fence' = [fence EXCEPT ![f] =
                            AddPendingSignal(@, op.value, VkQueueOf[c], Last(c))]
             /\ followed' = [followed EXCEPT ![f] = Append(@, known[c])]
             /\ known' = [known EXCEPT ![c] = @ \cup {<<f, n>>}]
             /\ UNCHANGED <<program, gpu, before, done>>
<1> DEFINE op == Current(c)
           updated == AddPendingSignal(fence[op.fence], op.value, VkQueueOf[c], Last(c))
           p == NextSubmission(queue[c])
           item == SignalItem(op.fence, updated.update_count, Last(c))
<1>1. op.fence \in Fences /\ Working(c, "signal") /\ DOMAIN queue[c] = QueueFields
  BY CurrentCall DEF Signals, IInv, Shape, QueueShape
<1>2. updated.update_count = fence[op.fence].update_count + 1
  <2>1. DOMAIN fence[op.fence] = FenceFields
    BY <1>1 DEF IInv, Shape
  <2> QED BY <2>1 DEF AddPendingSignal, UpdatePendingValue, FenceFields
<1>3. /\ DOMAIN p = QueueFields /\ p.pc = "ready" /\ p.fence_worker = Worker(c)
      /\ p.wait_semaphores = Waits(c) /\ p.wait_fences = Deferred(c)
      /\ p.last_submission = Last(c)
  BY <1>1, OperatorFields DEF Worker, Waits, Deferred, Last
<1>4. queue' = [queue EXCEPT ![c] = AddItem(p, item)]
  BY DEF Signals, Last
<1>5. /\ fence' = [fence EXCEPT ![op.fence] = updated]
      /\ followed' = [followed EXCEPT ![op.fence] = Append(@, known[c])]
      /\ known' = [known EXCEPT ![c] = @ \cup {<<op.fence, updated.update_count>>}]
      /\ UNCHANGED <<program, gpu, before, done>>
  BY DEF Signals, Last, refs
<1> HIDE DEF p, item
<1>6. queue'[c] = AddItem(p, item) /\ OthersUnmoved(c)
  BY <1>4, OnlyQueue DEF IInv
<1>7. /\ Worker(c)' = Append(Worker(c), item) /\ Waits(c)' = Waits(c)
      /\ Deferred(c)' = Deferred(c) /\ Last(c)' = Last(c) /\ ~Flushed(c)'
  BY <1>3, <1>6 DEF AddItem, Worker, Waits, Deferred, Last, Flushed, QueueFields
<1>8. Flushed(c)
  BY DEF Signals, Flushed
<1> QED BY <1>1, <1>2, <1>5, <1>6, <1>7, <1>8 DEF item

LEMMA FenceWorkerEffect ==
  ASSUME IInv, NEW c \in Queues, NEW kind, NextItem(c, kind)
  PROVE  /\ Worker(c) # <<>> /\ Head(Worker(c)).kind = kind /\ Worker(c)' = Tail(Worker(c))
         /\ Waits(c)' = Waits(c) /\ Deferred(c)' = Deferred(c) /\ Last(c)' = Last(c)
         /\ Flushed(c)' = Flushed(c) /\ OthersUnmoved(c)
<1>1. DOMAIN queue[c] = QueueFields
  BY DEF IInv, Shape, QueueShape
<1>2. queue'[c] = [queue[c] EXCEPT !.fence_worker = Tail(@)] /\ OthersUnmoved(c)
  BY OnlyQueue DEF NextItem, IInv
<1> QED BY <1>1, <1>2 DEF NextItem, Worker, Waits, Deferred, Last, Flushed, QueueFields

LEMMA SubmitEffect ==
  ASSUME IInv, NEW c \in Queues, NEW work, SubmitWork(c, work)
  PROVE  LET v == VkQueueOf[c] IN
         /\ v \in VkQueues /\ NextTimelineValue(c) = Count(v) + 1
         /\ Count(v)' = Count(v) + 1 /\ Reached(v)' = Reached(v)
         /\ Submitted(v)' = Append(Submitted(v), [value |-> Count(v) + 1, work |-> work,
                                                  waits |-> RemainingWaits(Waits(c))])
         /\ \A x \in VkQueues \ {v} : vk_queue'[x] = vk_queue[x]
<1>1. VkQueueOf[c] \in VkQueues
  BY ProgramsAssumption
<1>2. DOMAIN vk_queue[VkQueueOf[c]] = VkQueueFields /\ DOMAIN vk_queue = VkQueues
  BY <1>1 DEF IInv, Shape
<1> QED BY <1>1, <1>2
        DEF SubmitWork, NextTimelineValue, Count, Reached, Submitted, Waits, VkQueueFields

-----------------------------------------------------------------------------
(* Sequences that grow at the end.                                         *)

Longer(s, t) == IsSeq(t) /\ \A i \in DOMAIN s : i \in DOMAIN t /\ t[i] = s[i]

LEMMA ConcatElements ==
  ASSUME NEW s, IsSeq(s), NEW t, IsSeq(t)
  PROVE  /\ Longer(s, s \o t) /\ Len(s) \in Nat /\ Len(t) \in Nat
         /\ DOMAIN s = 1..Len(s) /\ DOMAIN t = 1..Len(t)
         /\ DOMAIN (s \o t) = 1..(Len(s) + Len(t))
         /\ \A i \in 1..Len(t) : (s \o t)[Len(s) + i] = t[i]
<1>1. PICK S : s \in Seq(S)
  BY DEF IsSeq
<1>2. PICK T : t \in Seq(T)
  BY DEF IsSeq
<1>3. s \in Seq(S \cup T) /\ t \in Seq(S \cup T)
  BY <1>1, <1>2
<1>4. s \o t \in Seq(S \cup T)
  BY <1>3
<1>5. IsSeq(s \o t)
  BY <1>4 DEF IsSeq
<1> QED BY <1>3, <1>4, <1>5 DEF Longer

LEMMA AppendIsLonger ==
  ASSUME NEW s, IsSeq(s), NEW e
  PROVE  Longer(s, Append(s, e))
BY AppendElements DEF Longer

LEMMA LongerIsTransitive ==
  ASSUME NEW r, NEW s, NEW t, Longer(r, s), Longer(s, t)
  PROVE  Longer(r, t)
BY DEF Longer

LEMMA SameInterval ==
  ASSUME NEW m \in Nat, NEW n \in Nat, 1..m = 1..n
  PROVE  m = n
<1>1. ~(m < n)
  <2> SUFFICES ASSUME m < n PROVE FALSE
    OBVIOUS
  <2>1. n \in 1..n /\ n \notin 1..m
    OBVIOUS
  <2> QED BY <2>1
<1>2. ~(n < m)
  <2> SUFFICES ASSUME n < m PROVE FALSE
    OBVIOUS
  <2>1. m \in 1..m /\ m \notin 1..n
    OBVIOUS
  <2> QED BY <2>1
<1> QED BY <1>1, <1>2

LEMMA OrdersElements ==
  ASSUME NEW s, IsSeq(s)
  PROVE  /\ IsSeq(Orders(s)) /\ DOMAIN Orders(s) = DOMAIN s
         /\ \A i \in DOMAIN s : Orders(s)[i] = OrderItem(s[i].fence, s[i].update_count)
<1>1. DOMAIN s = 1..Len(s) /\ Len(s) \in Nat
  BY AppendElements
<1> DEFINE S == {OrderItem(s[i].fence, s[i].update_count) : i \in DOMAIN s}
<1>2. Orders(s) \in Seq(S)
  BY <1>1 DEF Orders
<1> HIDE DEF S
<1>3. IsSeq(Orders(s))
  BY <1>2 DEF IsSeq
<1> QED BY <1>3 DEF Orders

-----------------------------------------------------------------------------
(* The shape of the histories, and the allocators that are held.           *)

IsScheduled(f, n) == f \in Fences /\ n \in 1..fence[f].update_count

HistoryShape ==
  /\ DOMAIN known = Queues
  /\ DOMAIN before = Queues /\ \A c \in Queues : IsSeq(before[c])
  /\ DOMAIN followed = Fences
  /\ \A f \in Fences : /\ IsSeq(followed[f]) /\ Len(followed[f]) = fence[f].update_count
                       /\ fence[f].signal_count \in 0..fence[f].update_count
                       /\ \A u \in fence[f].pending_updates : IsScheduled(f, u.update_count)

QueuesReferToUpdates ==
  \A c \in Queues :
    /\ \A i \in DOMAIN Worker(c) :
         Worker(c)[i].kind # "release" => IsScheduled(Worker(c)[i].fence, Worker(c)[i].update_count)
    /\ \A i \in DOMAIN Deferred(c) : IsScheduled(Deferred(c)[i].fence, Deferred(c)[i].update_count)

FlushedHasNoWaits == \A c \in Queues : Flushed(c) => Waits(c) = {} /\ Deferred(c) = <<>>

\* What is submitted to a VkQueue signals the values above the one it reached.
Timeline ==
  \A v \in VkQueues :
    /\ Reached(v) \in Nat /\ Count(v) = Reached(v) + Len(Submitted(v))
    /\ \A i \in DOMAIN Submitted(v) : Submitted(v)[i].value = Reached(v) + i

IsReleased(c, n, item, s) ==
  /\ item.kind = "release" /\ item.work = <<c, n>> /\ item.value = s.value
  /\ <<c, n>> \in s.work

Held(c, n) ==
  \E i \in DOMAIN Worker(c) : \E j \in DOMAIN Submitted(VkQueueOf[c]) :
    IsReleased(c, n, Worker(c)[i], Submitted(VkQueueOf[c])[j])

WorkIsHeld == \A c \in Queues : \A n \in DOMAIN before[c] : <<c, n>> \in done \/ Held(c, n)

HInv ==
  /\ HistoryShape /\ QueuesReferToUpdates /\ FlushedHasNoWaits /\ Timeline /\ WorkIsHeld

LEMMA WorkersAreSequences ==
  ASSUME IInv, NEW c \in Queues
  PROVE  IsSeq(Worker(c)) /\ IsSeq(Deferred(c)) /\ IsSeq(Submitted(VkQueueOf[c]))
BY ProgramsAssumption DEF IInv, Shape, QueueShape, Worker, Deferred, Submitted

\* Steps that only append to what fence workers and VkQueues are given keep
\* allocators held.
LEMMA HeldIsKept ==
  ASSUME NEW c \in Queues, NEW n, Held(c, n),
         Longer(Worker(c), Worker(c)'),
         Longer(Submitted(VkQueueOf[c]), Submitted(VkQueueOf[c])')
  PROVE  Held(c, n)'
BY DEF Held, Longer

-----------------------------------------------------------------------------
(* Effects of the steps on fences.                                         *)

\* What a step that neither schedules nor applies updates makes of a fence.
FenceIdle(f, g) ==
  /\ g.update_count = f.update_count /\ g.signal_count = f.signal_count
  /\ g.pending_updates \subseteq f.pending_updates

LEMMA FenceFieldsOf ==
  ASSUME NEW f, DOMAIN f = FenceFields, NEW a, NEW b, NEW v, NEW n
  PROVE  /\ FenceIdle(f, CpuSignal(f, a)) /\ FenceIdle(f, RegisterWait(f, a))
         /\ FenceIdle(f, ConsumeTicket(f, a))
         /\ Signal(f, n).update_count = f.update_count
         /\ Signal(f, n).signal_count = IF n > f.signal_count THEN n ELSE f.signal_count
         /\ Signal(f, n).pending_updates \subseteq f.pending_updates
         /\ LET g == AddPendingSignal(f, a, v, n) IN
              /\ g.update_count = f.update_count + 1 /\ g.signal_count = f.signal_count
              /\ g.pending_updates = f.pending_updates \cup {NextUpdate(f, a, v, n)}
<1> USE DEF FenceFields
<1>1. FenceIdle(f, CpuSignal(f, a))
  BY DEF FenceIdle, CpuSignal, UpdatePendingValue, Reach
<1>2. FenceIdle(f, RegisterWait(f, a)) /\ FenceIdle(f, ConsumeTicket(f, a))
  BY DEF FenceIdle, RegisterWait, ConsumeTicket
<1>3. /\ Signal(f, n).update_count = f.update_count
      /\ Signal(f, n).signal_count = IF n > f.signal_count THEN n ELSE f.signal_count
      /\ Signal(f, n).pending_updates \subseteq f.pending_updates
  BY DEF Signal, UpdatePendingValue, Reach
<1>4. LET g == AddPendingSignal(f, a, v, n) IN
        /\ g.update_count = f.update_count + 1 /\ g.signal_count = f.signal_count
        /\ g.pending_updates = f.pending_updates \cup {NextUpdate(f, a, v, n)}
  BY DEF AddPendingSignal, UpdatePendingValue
<1> QED BY <1>1, <1>2, <1>3, <1>4

FencesIdle == \A f \in Fences : FenceIdle(fence[f], fence'[f])

LEMMA OneFenceIdle ==
  ASSUME IInv, NEW f \in Fences, NEW g, FenceIdle(fence[f], g), fence' = [fence EXCEPT ![f] = g]
  PROVE  FencesIdle
BY DEF IInv, Shape, FencesIdle, FenceIdle

LEMMA UnchangedFencesIdle ==
  ASSUME fence' = fence PROVE FencesIdle
BY DEF FencesIdle, FenceIdle

-----------------------------------------------------------------------------
(* Steps.                                                                  *)

LEMMA ScheduledStays ==
  ASSUME \A h \in Fences : /\ fence[h].update_count \in Nat /\ fence'[h].update_count \in Nat
                           /\ fence[h].update_count <= fence'[h].update_count,
         NEW f, NEW n, IsScheduled(f, n)
  PROVE  IsScheduled(f, n)'
BY DEF IsScheduled

LEMMA IdleFencesShape ==
  ASSUME HistoryShape, FencesIdle, NEW f, NEW n
  PROVE  IsScheduled(f, n)' <=> IsScheduled(f, n)
BY DEF FencesIdle, FenceIdle, IsScheduled

LEMMA IdleHistory ==
  ASSUME HistoryShape, FencesIdle, UNCHANGED <<followed, before>>, DOMAIN known' = Queues
  PROVE  HistoryShape'
<1>1. \A f, n : IsScheduled(f, n)' <=> IsScheduled(f, n)
  BY IdleFencesShape
<1> QED BY <1>1 DEF HistoryShape, FencesIdle, FenceIdle

LEMMA IdleHInv ==
  ASSUME IInv, HInv, \A d \in Queues : Unmoved(d), FencesIdle,
         UNCHANGED <<vk_queue, known, followed, before, done>>
  PROVE  HInv'
<1>1. HistoryShape'
  BY IdleHistory DEF HInv, HistoryShape
<1>2. QueuesReferToUpdates'
  BY IdleFencesShape DEF HInv, QueuesReferToUpdates, Unmoved
<1>3. FlushedHasNoWaits'
  BY DEF HInv, FlushedHasNoWaits, Unmoved
<1>4. Timeline'
  BY DEF HInv, Timeline, Reached, Submitted, Count
<1>5. WorkIsHeld'
  <2> SUFFICES ASSUME NEW c \in Queues, NEW n \in DOMAIN before[c], ~(<<c, n>> \in done)
               PROVE  Held(c, n)'
    BY DEF WorkIsHeld
  <2>1. Held(c, n)
    BY DEF HInv, WorkIsHeld
  <2> QED BY <2>1 DEF Held, Unmoved, Submitted
<1> QED BY <1>1, <1>2, <1>3, <1>4, <1>5 DEF HInv

LEMMA AppendedElement ==
  ASSUME NEW s, IsSeq(s), NEW e
  PROVE  \A i \in DOMAIN Append(s, e) :
           Append(s, e)[i] = e \/ \E j \in DOMAIN s : Append(s, e)[i] = s[j]
BY AppendElements

LEMMA ConcatenatedElement ==
  ASSUME NEW s, IsSeq(s), NEW t, IsSeq(t)
  PROVE  \A i \in DOMAIN (s \o t) : \/ \E j \in DOMAIN s : (s \o t)[i] = s[j]
                                    \/ \E j \in DOMAIN t : (s \o t)[i] = t[j]
<1>a. /\ Longer(s, s \o t) /\ Len(s) \in Nat /\ Len(t) \in Nat
      /\ DOMAIN s = 1..Len(s) /\ DOMAIN t = 1..Len(t)
      /\ DOMAIN (s \o t) = 1..(Len(s) + Len(t))
      /\ \A i \in 1..Len(t) : (s \o t)[Len(s) + i] = t[i]
  BY ConcatElements
<1>b. \A j \in 1..Len(s) : (s \o t)[j] = s[j]
  BY <1>a DEF Longer
<1> SUFFICES ASSUME NEW i \in DOMAIN (s \o t)
             PROVE  \/ \E j \in DOMAIN s : (s \o t)[i] = s[j]
                    \/ \E j \in DOMAIN t : (s \o t)[i] = t[j]
  OBVIOUS
<1>1. /\ Len(s) \in Nat /\ Len(t) \in Nat /\ DOMAIN s = 1..Len(s) /\ DOMAIN t = 1..Len(t)
      /\ i \in 1..(Len(s) + Len(t))
      /\ \A j \in 1..Len(s) : (s \o t)[j] = s[j]
      /\ \A j \in 1..Len(t) : (s \o t)[Len(s) + j] = t[j]
  BY <1>a, <1>b
<1>2. CASE i \in 1..Len(s)
  BY <1>1, <1>2
<1>3. CASE i \notin 1..Len(s)
  <2> DEFINE j == i - Len(s)
  <2>1. j \in 1..Len(t) /\ i = Len(s) + j
    BY <1>1, <1>3
  <2>2. (s \o t)[i] = t[j]
    BY <1>1, <2>1
  <2> QED BY <1>1, <2>1, <2>2
<1> QED BY <1>2, <1>3

\* Whoever waits for an update refers to one that is scheduled.
LEMMA ResolutionHInv ==
  ASSUME IInv, HInv, NEW c \in Queues,
         WaitOnSameVkQueue(c) \/ WaitIsDeferred(c) \/ WaitOnCpu(c)
  PROVE  HInv'
<1> DEFINE Resolved(f, u) ==
        /\ Last(c)' = Last(c) /\ ~Flushed(c)' /\ OthersUnmoved(c)
        /\ \/ /\ Worker(c)' = Append(Worker(c), OrderItem(f, u.update_count))
              /\ Deferred(c)' = Deferred(c)
           \/ /\ Worker(c)' = Worker(c)
              /\ Deferred(c)' = Append(Deferred(c),
                                       [fence |-> f, update_count |-> u.update_count])
        /\ fence' = [fence EXCEPT ![f] = ConsumeTicket(@, Current(c).ticket)]
        /\ known' = [known EXCEPT ![c] = @ \cup followed[f][u.update_count]
                                            \cup {<<f, u.update_count>>}]
        /\ UNCHANGED <<program, gpu, followed, before, done>>
<1>1. PICK f \in Fences : \E u \in fence[f].pending_updates : Resolved(f, u)
  BY ResolutionEffect
<1>a. PICK u \in fence[f].pending_updates : Resolved(f, u)
  BY <1>1
<1>2. FencesIdle
  <2>1. FenceIdle(fence[f], ConsumeTicket(fence[f], Current(c).ticket))
    BY FenceFieldsOf DEF IInv, Shape
  <2> QED BY <1>a, <2>1, OneFenceIdle
<1>3. HistoryShape'
  BY <1>a, <1>2, IdleHistory DEF HInv, HistoryShape
<1>4. IsScheduled(f, u.update_count)
  BY DEF HInv, HistoryShape
<1>5. IsSeq(Worker(c)) /\ IsSeq(Deferred(c))
  BY WorkersAreSequences
<1>6. QueuesReferToUpdates'
  <2>1. \A g, n : IsScheduled(g, n)' <=> IsScheduled(g, n)
    BY <1>2, IdleFencesShape DEF HInv
  <2>2. ASSUME NEW d \in Queues \ {c}
        PROVE  /\ Worker(d)' = Worker(d) /\ Deferred(d)' = Deferred(d)
    BY <1>a DEF OthersUnmoved, Unmoved
  <2>3. ASSUME NEW i \in DOMAIN Worker(c)', Worker(c)'[i].kind # "release"
        PROVE  IsScheduled(Worker(c)'[i].fence, Worker(c)'[i].update_count)
    <3>1. CASE \E j \in DOMAIN Worker(c) : Worker(c)'[i] = Worker(c)[j]
      BY <2>3, <3>1 DEF HInv, QueuesReferToUpdates
    <3>2. CASE Worker(c)'[i] = OrderItem(f, u.update_count)
      BY <3>2, <1>4 DEF OrderItem
    <3> QED BY <1>a, <1>5, <3>1, <3>2, AppendedElement
  <2>4. ASSUME NEW i \in DOMAIN Deferred(c)'
        PROVE  IsScheduled(Deferred(c)'[i].fence, Deferred(c)'[i].update_count)
    <3>1. CASE \E j \in DOMAIN Deferred(c) : Deferred(c)'[i] = Deferred(c)[j]
      BY <3>1 DEF HInv, QueuesReferToUpdates
    <3>2. CASE Deferred(c)'[i] = [fence |-> f, update_count |-> u.update_count]
      BY <3>2, <1>4
    <3> QED BY <1>a, <1>5, <3>1, <3>2, AppendedElement
  <2> QED BY <2>1, <2>2, <2>3, <2>4 DEF HInv, QueuesReferToUpdates
<1>7. FlushedHasNoWaits'
  BY <1>a DEF HInv, FlushedHasNoWaits, OthersUnmoved, Unmoved
<1>8. Timeline'
  BY <1>a DEF HInv, Timeline, Reached, Submitted, Count, gpu
<1>9. WorkIsHeld'
  <2>1. ASSUME NEW d \in Queues, NEW n, Held(d, n) PROVE Held(d, n)'
    <3>1. Longer(Worker(d), Worker(d)')
      <4>1. CASE d = c
        <5>1. Longer(Worker(c), Append(Worker(c), OrderItem(f, u.update_count)))
          BY <1>5, AppendIsLonger
        <5>2. Longer(Worker(c), Worker(c))
          BY <1>5 DEF Longer
        <5> QED BY <4>1, <1>a, <5>1, <5>2
      <4>2. CASE d # c
        BY <4>2, <1>a, WorkersAreSequences DEF Longer, OthersUnmoved, Unmoved
      <4> QED BY <4>1, <4>2
    <3>2. Longer(Submitted(VkQueueOf[d]), Submitted(VkQueueOf[d])')
      BY <1>a, WorkersAreSequences DEF Longer, Submitted, gpu
    <3> QED BY <2>1, <3>1, <3>2, HeldIsKept
  <2> QED BY <1>a, <2>1 DEF HInv, WorkIsHeld
<1> QED BY <1>3, <1>6, <1>7, <1>8, <1>9 DEF HInv

\* What is submitted comes last.
LEMMA SubmitTimeline ==
  ASSUME IInv, Timeline, NEW c \in Queues, NEW work, SubmitWork(c, work)
  PROVE  /\ Timeline'
         /\ \A d \in Queues : Longer(Submitted(VkQueueOf[d]), Submitted(VkQueueOf[d])')
         /\ \E j \in DOMAIN Submitted(VkQueueOf[c])' :
              /\ Submitted(VkQueueOf[c])'[j].work = work
              /\ Submitted(VkQueueOf[c])'[j].value = NextTimelineValue(c)
<1> DEFINE v == VkQueueOf[c]
           s == [value |-> Count(v) + 1, work |-> work, waits |-> RemainingWaits(Waits(c))]
<1>1. /\ v \in VkQueues /\ NextTimelineValue(c) = Count(v) + 1
      /\ Count(v)' = Count(v) + 1 /\ Reached(v)' = Reached(v)
      /\ Submitted(v)' = Append(Submitted(v), s)
      /\ \A x \in VkQueues \ {v} : vk_queue'[x] = vk_queue[x]
  BY SubmitEffect
<1> HIDE DEF v
<1>2. IsSeq(Submitted(v))
  BY <1>1 DEF IInv, Shape, Submitted
<1>3. /\ Len(Submitted(v)) \in Nat /\ DOMAIN Submitted(v) = 1..Len(Submitted(v))
      /\ DOMAIN Submitted(v)' = 1..(Len(Submitted(v)) + 1)
      /\ \A i \in 1..Len(Submitted(v)) : Submitted(v)'[i] = Submitted(v)[i]
      /\ Submitted(v)'[Len(Submitted(v)) + 1] = s
  BY <1>1, <1>2, AppendElements
<1>4. s.value = Count(v) + 1 /\ s.work = work
  OBVIOUS
<1>5. Len(Submitted(v)') = Len(Submitted(v)) + 1
  <2>1. IsSeq(Submitted(v)')
    BY <1>1, <1>2, AppendElements
  <2>2. Len(Submitted(v)') \in Nat /\ DOMAIN Submitted(v)' = 1..Len(Submitted(v)')
    BY <2>1, AppendElements
  <2> QED BY <1>3, <2>2
<1> HIDE DEF s
<1>6. Reached(v) \in Nat /\ Count(v) = Reached(v) + Len(Submitted(v))
  BY <1>1 DEF Timeline
<1>7. ASSUME NEW i \in DOMAIN Submitted(v)' PROVE Submitted(v)'[i].value = Reached(v) + i
  <2>1. CASE i \in 1..Len(Submitted(v))
    BY <1>1, <1>3, <2>1 DEF Timeline
  <2>2. CASE i = Len(Submitted(v)) + 1
    BY <1>3, <1>4, <1>6, <2>2
  <2> QED BY <1>3, <1>7, <2>1, <2>2
<1>8. Timeline'
  <2> SUFFICES ASSUME NEW x \in VkQueues
               PROVE  /\ Reached(x)' \in Nat /\ Count(x)' = Reached(x)' + Len(Submitted(x)')
                      /\ \A i \in DOMAIN Submitted(x)' : Submitted(x)'[i].value = Reached(x)' + i
    BY DEF Timeline
  <2>1. CASE x = v
    BY <1>1, <1>3, <1>5, <1>6, <1>7, <2>1
  <2>2. CASE x # v
    BY <1>1, <2>2 DEF Timeline, Reached, Submitted, Count
  <2> QED BY <2>1, <2>2
<1>9. ASSUME NEW d \in Queues
      PROVE  Longer(Submitted(VkQueueOf[d]), Submitted(VkQueueOf[d])')
  <2>1. CASE VkQueueOf[d] = v
    BY <1>1, <1>2, <2>1, AppendIsLonger
  <2>2. CASE VkQueueOf[d] # v
    BY <1>1, <2>2, WorkersAreSequences, ProgramsAssumption DEF Longer, Submitted
  <2> QED BY <2>1, <2>2
<1>10. Len(Submitted(v)) + 1 \in DOMAIN Submitted(v)'
  BY <1>3
<1> QED BY <1>1, <1>3, <1>4, <1>8, <1>9, <1>10 DEF v

\* The waits that are handed to the fence worker refer to updates.
LEMMA FinalizedWorker ==
  ASSUME IInv, HInv, NEW c \in Queues
  PROVE  LET w == Worker(c) \o Orders(Deferred(c)) IN
         /\ Longer(Worker(c), w)
         /\ \A i \in DOMAIN w : w[i].kind # "release" => IsScheduled(w[i].fence, w[i].update_count)
<1> DEFINE w == Worker(c) \o Orders(Deferred(c))
<1>1. IsSeq(Worker(c)) /\ IsSeq(Deferred(c))
  BY WorkersAreSequences
<1>2. /\ IsSeq(Orders(Deferred(c))) /\ DOMAIN Orders(Deferred(c)) = DOMAIN Deferred(c)
      /\ \A i \in DOMAIN Deferred(c) :
           Orders(Deferred(c))[i] = OrderItem(Deferred(c)[i].fence, Deferred(c)[i].update_count)
  BY <1>1, OrdersElements
<1>3. Longer(Worker(c), w)
  BY <1>1, <1>2, ConcatElements
<1>4. ASSUME NEW i \in DOMAIN w, w[i].kind # "release"
      PROVE  IsScheduled(w[i].fence, w[i].update_count)
  <2>1. CASE \E j \in DOMAIN Worker(c) : w[i] = Worker(c)[j]
    BY <1>4, <2>1 DEF HInv, QueuesReferToUpdates
  <2>2. CASE \E j \in DOMAIN Orders(Deferred(c)) : w[i] = Orders(Deferred(c))[j]
    <3>1. PICK j \in DOMAIN Deferred(c) :
            w[i] = OrderItem(Deferred(c)[j].fence, Deferred(c)[j].update_count)
      BY <1>2, <2>2
    <3>2. IsScheduled(Deferred(c)[j].fence, Deferred(c)[j].update_count)
      BY DEF HInv, QueuesReferToUpdates
    <3> QED BY <3>1, <3>2 DEF OrderItem
  <2> QED BY <1>1, <1>2, <2>1, <2>2, ConcatenatedElement
<1> QED BY <1>3, <1>4

LEMMA FlushHInv ==
  ASSUME IInv, HInv, NEW c \in Queues, FlushWaiters(c)
  PROVE  HInv'
<1>1. /\ Worker(c)' = Worker(c) \o Orders(Deferred(c))
      /\ Waits(c)' = {} /\ Deferred(c)' = <<>> /\ OthersUnmoved(c)
      /\ UNCHANGED gpu \/ SubmitWork(c, {})
      /\ UNCHANGED <<program, fence, history>>
  BY FlushEffect
<1>2. FencesIdle
  BY <1>1, UnchangedFencesIdle
<1>3. HistoryShape'
  BY <1>1, <1>2, IdleHistory DEF HInv, HistoryShape, history
<1>4. QueuesReferToUpdates'
  <2>1. \A g, n : IsScheduled(g, n)' <=> IsScheduled(g, n)
    BY <1>2, IdleFencesShape DEF HInv
  <2>2. ASSUME NEW d \in Queues \ {c}
        PROVE  /\ Worker(d)' = Worker(d) /\ Deferred(d)' = Deferred(d)
    BY <1>1 DEF OthersUnmoved, Unmoved
  <2>3. ASSUME NEW i \in DOMAIN Worker(c)', Worker(c)'[i].kind # "release"
        PROVE  IsScheduled(Worker(c)'[i].fence, Worker(c)'[i].update_count)
    BY <1>1, <2>3, FinalizedWorker
  <2>4. DOMAIN Deferred(c)' = {}
    BY <1>1
  <2> QED BY <2>1, <2>2, <2>3, <2>4 DEF HInv, QueuesReferToUpdates
<1>5. FlushedHasNoWaits'
  BY <1>1 DEF HInv, FlushedHasNoWaits, OthersUnmoved, Unmoved
<1>6. Timeline' /\ \A d \in Queues : Longer(Submitted(VkQueueOf[d]), Submitted(VkQueueOf[d])')
  <2>1. CASE UNCHANGED gpu
    <3>1. Timeline'
      BY <2>1 DEF HInv, Timeline, Reached, Submitted, Count, gpu
    <3> QED BY <2>1, <3>1, WorkersAreSequences DEF Longer, Submitted, gpu
  <2>2. CASE SubmitWork(c, {})
    BY <2>2, SubmitTimeline DEF HInv
  <2> QED BY <1>1, <2>1, <2>2
<1>7. WorkIsHeld'
  <2>1. ASSUME NEW d \in Queues, NEW n, Held(d, n) PROVE Held(d, n)'
    <3>1. Longer(Worker(d), Worker(d)')
      <4>1. CASE d = c
        BY <4>1, <1>1, FinalizedWorker
      <4>2. CASE d # c
        BY <4>2, <1>1, WorkersAreSequences DEF Longer, OthersUnmoved, Unmoved
      <4> QED BY <4>1, <4>2
    <3> QED BY <2>1, <3>1, <1>6, HeldIsKept
  <2> QED BY <1>1, <2>1 DEF HInv, WorkIsHeld, history
<1> QED BY <1>3, <1>4, <1>5, <1>6, <1>7 DEF HInv

LEMMA ExecuteHInv ==
  ASSUME IInv, HInv, NEW c \in Queues, Execute(c)
  PROVE  HInv'
<1> DEFINE work == NextWork(c)
           item == ReleaseItem(work, NextTimelineValue(c))
           w == Worker(c) \o Orders(Deferred(c))
<1>1. /\ Worker(c)' = Append(w, item)
      /\ Waits(c)' = {} /\ Deferred(c)' = <<>> /\ OthersUnmoved(c)
      /\ SubmitWork(c, {work})
      /\ before' = [before EXCEPT ![c] = Append(@, known[c])]
      /\ known' = [known EXCEPT ![c] = @ \cup {work}]
      /\ UNCHANGED <<program, fence, followed, done>>
  BY ExecuteEffect
<1>2. /\ Longer(Worker(c), w)
      /\ \A i \in DOMAIN w : w[i].kind # "release" => IsScheduled(w[i].fence, w[i].update_count)
  BY FinalizedWorker
<1>a. item.kind = "release" /\ item.work = work /\ item.value = NextTimelineValue(c)
  BY DEF ReleaseItem
<1> HIDE DEF w, item
<1>3. FencesIdle
  BY <1>1, UnchangedFencesIdle
<1>4. DOMAIN before' = Queues /\ \A d \in Queues : IsSeq(before'[d])
  <2>1. IsSeq(Append(before[c], known[c]))
    BY AppendElements DEF HInv, HistoryShape
  <2> QED BY <1>1, <2>1 DEF HInv, HistoryShape
<1>5. HistoryShape'
  <2>1. \A f, n : IsScheduled(f, n)' <=> IsScheduled(f, n)
    BY <1>3, IdleFencesShape DEF HInv
  <2> QED BY <1>1, <1>4, <2>1 DEF HInv, HistoryShape
<1>6. IsSeq(w)
  BY <1>2 DEF Longer
<1>7. QueuesReferToUpdates'
  <2>1. \A g, n : IsScheduled(g, n)' <=> IsScheduled(g, n)
    BY <1>3, IdleFencesShape DEF HInv
  <2>2. ASSUME NEW d \in Queues \ {c}
        PROVE  /\ Worker(d)' = Worker(d) /\ Deferred(d)' = Deferred(d)
    BY <1>1 DEF OthersUnmoved, Unmoved
  <2>3. ASSUME NEW i \in DOMAIN Worker(c)', Worker(c)'[i].kind # "release"
        PROVE  IsScheduled(Worker(c)'[i].fence, Worker(c)'[i].update_count)
    <3>1. \E j \in DOMAIN w : Worker(c)'[i] = w[j]
      BY <1>1, <1>6, <1>a, <2>3, AppendedElement
    <3> QED BY <1>2, <2>3, <3>1
  <2>4. DOMAIN Deferred(c)' = {}
    BY <1>1
  <2> QED BY <2>1, <2>2, <2>3, <2>4 DEF HInv, QueuesReferToUpdates
<1>8. FlushedHasNoWaits'
  BY <1>1 DEF HInv, FlushedHasNoWaits, OthersUnmoved, Unmoved
<1>9. /\ Timeline' /\ \A d \in Queues : Longer(Submitted(VkQueueOf[d]), Submitted(VkQueueOf[d])')
      /\ \E j \in DOMAIN Submitted(VkQueueOf[c])' :
           /\ Submitted(VkQueueOf[c])'[j].work = {work}
           /\ Submitted(VkQueueOf[c])'[j].value = NextTimelineValue(c)
  BY <1>1, SubmitTimeline DEF HInv
<1>10. WorkIsHeld'
  <2>1. Longer(Worker(c), Worker(c)')
    <3>1. Longer(w, Append(w, item))
      BY <1>6, AppendIsLonger
    <3> QED BY <1>1, <1>2, <3>1, LongerIsTransitive
  <2>2. ASSUME NEW d \in Queues, NEW n, Held(d, n) PROVE Held(d, n)'
    <3>1. CASE d = c
      BY <2>1, <2>2, <3>1, <1>9, HeldIsKept
    <3>2. CASE d # c
      <4>1. Longer(Worker(d), Worker(d)')
        BY <3>2, <1>1, WorkersAreSequences DEF Longer, OthersUnmoved, Unmoved
      <4> QED BY <4>1, <2>2, <1>9, HeldIsKept
    <3> QED BY <3>1, <3>2
  <2>a. PICK m : m = Len(before[c]) + 1
    OBVIOUS
  <2>3. Held(c, m)'
    <3>1. PICK i \in DOMAIN Worker(c)' : Worker(c)'[i] = item
      <4>1. Len(w) + 1 \in DOMAIN Append(w, item) /\ Append(w, item)[Len(w) + 1] = item
        BY <1>6, AppendElements
      <4> QED BY <1>1, <4>1
    <3>2. PICK j \in DOMAIN Submitted(VkQueueOf[c])' :
            /\ Submitted(VkQueueOf[c])'[j].work = {work}
            /\ Submitted(VkQueueOf[c])'[j].value = NextTimelineValue(c)
      BY <1>9
    <3>3. IsReleased(c, m, Worker(c)'[i], Submitted(VkQueueOf[c])'[j])
      BY <2>a, <3>1, <3>2, <1>a DEF IsReleased, NextWork
    <3> QED BY <3>3 DEF Held
  <2>4. ASSUME NEW d \in Queues, NEW n \in DOMAIN before'[d]
        PROVE  n \in DOMAIN before[d] \/ (d = c /\ n = m)
    <3>1. CASE d = c
      <4>1. IsSeq(before[c])
        BY DEF HInv, HistoryShape
      <4>2. before'[c] = Append(before[c], known[c])
        BY <1>1 DEF HInv, HistoryShape
      <4>3. /\ Len(before[c]) \in Nat /\ DOMAIN before[c] = 1..Len(before[c])
            /\ DOMAIN before'[c] = 1..(Len(before[c]) + 1)
        BY <4>1, <4>2, AppendElements
      <4> QED BY <2>a, <3>1, <4>3
    <3>2. CASE d # c
      BY <1>1, <3>2 DEF HInv, HistoryShape
    <3> QED BY <3>1, <3>2
  <2> QED BY <1>1, <2>2, <2>3, <2>4 DEF HInv, WorkIsHeld
<1> QED BY <1>5, <1>7, <1>8, <1>9, <1>10 DEF HInv

LEMMA SignalsHInv ==
  ASSUME IInv, HInv, NEW c \in Queues, Signals(c)
  PROVE  HInv'
<1> DEFINE value == Current(c).value
<1>1. PICK f \in Fences : \E n :
        /\ n = fence[f].update_count + 1 /\ ~Flushed(c)'
        /\ Worker(c)' = Append(Worker(c), SignalItem(f, n, Last(c)))
        /\ Deferred(c)' = Deferred(c) /\ OthersUnmoved(c)
        /\ fence' = [fence EXCEPT ![f] = AddPendingSignal(@, value, VkQueueOf[c], Last(c))]
        /\ followed' = [followed EXCEPT ![f] = Append(@, known[c])]
        /\ known' = [known EXCEPT ![c] = @ \cup {<<f, n>>}]
        /\ UNCHANGED <<program, gpu, before, done>>
  BY SignalsEffect
<1>2. PICK n :
        /\ n = fence[f].update_count + 1 /\ ~Flushed(c)'
        /\ Worker(c)' = Append(Worker(c), SignalItem(f, n, Last(c)))
        /\ Deferred(c)' = Deferred(c) /\ OthersUnmoved(c)
        /\ fence' = [fence EXCEPT ![f] = AddPendingSignal(@, value, VkQueueOf[c], Last(c))]
        /\ followed' = [followed EXCEPT ![f] = Append(@, known[c])]
        /\ known' = [known EXCEPT ![c] = @ \cup {<<f, n>>}]
        /\ UNCHANGED <<program, gpu, before, done>>
  BY <1>1
<1> HIDE DEF value
<1>3. \A h \in Fences : fence[h].update_count \in Nat
  BY DEF HInv, HistoryShape
<1>4. /\ \A h \in Fences \ {f} : fence'[h] = fence[h]
      /\ fence'[f].update_count = n /\ fence'[f].signal_count = fence[f].signal_count
      /\ fence'[f].pending_updates =
           fence[f].pending_updates \cup {NextUpdate(fence[f], value, VkQueueOf[c], Last(c))}
  <2>1. DOMAIN fence[f] = FenceFields /\ DOMAIN fence = Fences
    BY DEF IInv, Shape
  <2> QED BY <1>2, <2>1, FenceFieldsOf
<1>5. \A h \in Fences : /\ fence'[h].update_count \in Nat
                        /\ fence[h].update_count <= fence'[h].update_count
  BY <1>2, <1>3, <1>4
<1>6. \A g, m : IsScheduled(g, m) => IsScheduled(g, m)'
  BY <1>3, <1>5, ScheduledStays
<1>7. IsScheduled(f, n)'
  BY <1>2, <1>3, <1>4 DEF IsScheduled
<1>8. /\ DOMAIN followed' = Fences
      /\ \A h \in Fences : IsSeq(followed'[h]) /\ Len(followed'[h]) = fence'[h].update_count
  <2>1. IsSeq(followed[f]) /\ Len(followed[f]) = fence[f].update_count
    BY DEF HInv, HistoryShape
  <2>2. IsSeq(Append(followed[f], known[c])) /\ Len(Append(followed[f], known[c])) = n
    <3>1. /\ IsSeq(Append(followed[f], known[c]))
          /\ DOMAIN Append(followed[f], known[c]) = 1..n
      BY <1>2, <2>1, AppendElements
    <3>2. /\ Len(Append(followed[f], known[c])) \in Nat
          /\ DOMAIN Append(followed[f], known[c]) = 1..Len(Append(followed[f], known[c]))
      BY <3>1, AppendElements
    <3> QED BY <1>2, <1>3, <3>1, <3>2, SameInterval
  <2> QED BY <1>2, <1>4, <2>2 DEF HInv, HistoryShape
<1>9. HistoryShape'
  <2>1. \A h \in Fences : /\ fence'[h].signal_count \in 0..fence'[h].update_count
                          /\ \A u \in fence'[h].pending_updates : IsScheduled(h, u.update_count)'
    <3> SUFFICES ASSUME NEW h \in Fences
                 PROVE  /\ fence'[h].signal_count \in 0..fence'[h].update_count
                        /\ \A u \in fence'[h].pending_updates : IsScheduled(h, u.update_count)'
      OBVIOUS
    <3>1. CASE h = f
      <4>1. NextUpdate(fence[f], value, VkQueueOf[c], Last(c)).update_count = n
        BY <1>2 DEF NextUpdate
      <4>2. \A u \in fence[f].pending_updates : IsScheduled(f, u.update_count)'
        BY <1>6 DEF HInv, HistoryShape
      <4>3. fence'[f].signal_count \in 0..fence'[f].update_count
        BY <1>3, <1>2, <1>4 DEF HInv, HistoryShape
      <4> QED BY <1>4, <1>7, <3>1, <4>1, <4>2, <4>3
    <3>2. CASE h # f
      BY <1>4, <1>6, <3>2 DEF HInv, HistoryShape
    <3> QED BY <3>1, <3>2
  <2> QED BY <1>2, <1>8, <2>1 DEF HInv, HistoryShape
<1>10. QueuesReferToUpdates'
  <2>1. ASSUME NEW d \in Queues \ {c}
        PROVE  /\ Worker(d)' = Worker(d) /\ Deferred(d)' = Deferred(d)
    BY <1>2 DEF OthersUnmoved, Unmoved
  <2>2. ASSUME NEW i \in DOMAIN Worker(c)', NEW x, x = Worker(c)'[i], x.kind # "release"
        PROVE  IsScheduled(x.fence, x.update_count)'
    <3>1. CASE \E j \in DOMAIN Worker(c) : x = Worker(c)[j]
      <4>1. IsScheduled(x.fence, x.update_count)
        BY <2>2, <3>1 DEF HInv, QueuesReferToUpdates
      <4> QED BY <1>6, <4>1
    <3>2. CASE x = SignalItem(f, n, Last(c))
      BY <3>2, <1>7 DEF SignalItem
    <3> QED BY <1>2, <2>2, <3>1, <3>2, WorkersAreSequences, AppendedElement
  <2> QED BY <1>2, <1>6, <2>1, <2>2 DEF HInv, QueuesReferToUpdates
<1>11. FlushedHasNoWaits'
  BY <1>2 DEF HInv, FlushedHasNoWaits, OthersUnmoved, Unmoved
<1>12. Timeline'
  BY <1>2 DEF HInv, Timeline, Reached, Submitted, Count, gpu
<1>13. WorkIsHeld'
  <2>1. ASSUME NEW d \in Queues, NEW m, Held(d, m) PROVE Held(d, m)'
    <3>1. Longer(Worker(d), Worker(d)')
      <4>1. CASE d = c
        BY <4>1, <1>2, WorkersAreSequences, AppendIsLonger
      <4>2. CASE d # c
        BY <4>2, <1>2, WorkersAreSequences DEF Longer, OthersUnmoved, Unmoved
      <4> QED BY <4>1, <4>2
    <3>2. Longer(Submitted(VkQueueOf[d]), Submitted(VkQueueOf[d])')
      BY <1>2, WorkersAreSequences DEF Longer, Submitted, gpu
    <3> QED BY <2>1, <3>1, <3>2, HeldIsKept
  <2> QED BY <1>2, <2>1 DEF HInv, WorkIsHeld
<1> QED BY <1>9, <1>10, <1>11, <1>12, <1>13 DEF HInv

\* The fence worker lets go of allocators when their submission is reached,
\* which is not among the submitted ones then.
LEMMA FenceWorkerHInv ==
  ASSUME IInv, HInv, NEW c \in Queues, FenceWorker(c), ~device_lost
  PROVE  HInv'
<1> DEFINE item == Head(Worker(c))
<1>1. PICK kind : /\ NextItem(c, kind)
                  /\ kind = "release" => Completed(VkQueueOf[c], item.value)
  BY DEF FenceWorker, EnsuresOrder, SignalsFence, DropsSignal, ReleasesSubmission, Worker
<1>2. /\ Worker(c) # <<>> /\ item.kind = kind /\ Worker(c)' = Tail(Worker(c))
      /\ Deferred(c)' = Deferred(c) /\ Flushed(c)' = Flushed(c) /\ Waits(c)' = Waits(c)
      /\ OthersUnmoved(c)
  BY <1>1, FenceWorkerEffect
<1>3. UNCHANGED <<program, gpu, history>>
  BY <1>1 DEF NextItem
<1>4. /\ Len(Worker(c)) \in Nat \ {0} /\ DOMAIN Worker(c) = 1..Len(Worker(c))
      /\ DOMAIN Worker(c)' = 1..(Len(Worker(c)) - 1) /\ item = Worker(c)[1]
      /\ \A i \in 1..(Len(Worker(c)) - 1) : Worker(c)'[i] = Worker(c)[i + 1]
  BY <1>2, WorkersAreSequences, TailElements
<1> HIDE DEF item
<1>5. \A h \in Fences :
        /\ fence'[h].update_count = fence[h].update_count
        /\ fence'[h].signal_count \in 0..fence[h].update_count
        /\ fence'[h].pending_updates \subseteq fence[h].pending_updates
  <2>1. CASE SignalsFence(c)
    <3> DEFINE f == item.fence
               n == item.update_count
    <3>1. item.kind # "release" /\ fence' = [fence EXCEPT ![f] = Signal(@, n)]
      <4>1. NextItem(c, "signal")
        BY <2>1 DEF SignalsFence
      <4>2. item.kind = "signal"
        BY <4>1, FenceWorkerEffect DEF item
      <4> QED BY <2>1, <4>2 DEF SignalsFence, item, Worker
    <3>2. IsScheduled(f, n)
      BY <3>1, <1>4 DEF HInv, QueuesReferToUpdates
    <3>3. f \in Fences /\ n \in 1..fence[f].update_count /\ fence[f].update_count \in Nat
      BY <3>2 DEF IsScheduled, HInv, HistoryShape
    <3> HIDE DEF f, n
    <3>4. /\ Signal(fence[f], n).update_count = fence[f].update_count
          /\ Signal(fence[f], n).signal_count =
               IF n > fence[f].signal_count THEN n ELSE fence[f].signal_count
          /\ Signal(fence[f], n).pending_updates \subseteq fence[f].pending_updates
      BY <3>3, FenceFieldsOf DEF IInv, Shape
    <3>5. \A h \in Fences : fence'[h] = IF h = f THEN Signal(fence[f], n) ELSE fence[h]
      BY <3>1, <3>3 DEF IInv, Shape
    <3>6. \A h \in Fences : fence[h].signal_count \in 0..fence[h].update_count
      BY DEF HInv, HistoryShape
    <3> QED BY <3>3, <3>4, <3>5, <3>6
  <2>2. CASE ~SignalsFence(c)
    BY <2>2 DEF FenceWorker, EnsuresOrder, DropsSignal, ReleasesSubmission, HInv, HistoryShape
  <2> QED BY <2>1, <2>2
<1>6. \A g, n : IsScheduled(g, n)' <=> IsScheduled(g, n)
  BY <1>5 DEF IsScheduled
<1>7. HistoryShape'
  BY <1>3, <1>5, <1>6 DEF HInv, HistoryShape, history
<1>8. QueuesReferToUpdates'
  <2>1. ASSUME NEW d \in Queues \ {c}
        PROVE  /\ Worker(d)' = Worker(d) /\ Deferred(d)' = Deferred(d)
    BY <1>2 DEF OthersUnmoved, Unmoved
  <2>2. \A i \in DOMAIN Worker(c)' : \E j \in DOMAIN Worker(c) : Worker(c)'[i] = Worker(c)[j]
    BY <1>4
  <2> QED BY <1>2, <1>6, <2>1, <2>2 DEF HInv, QueuesReferToUpdates
<1>9. FlushedHasNoWaits'
  BY <1>2 DEF HInv, FlushedHasNoWaits, OthersUnmoved, Unmoved
<1>10. Timeline'
  BY <1>3 DEF HInv, Timeline, Reached, Submitted, Count, gpu
<1>11. WorkIsHeld'
  <2>1. ASSUME NEW d \in Queues, NEW n, Held(d, n) PROVE Held(d, n)'
    <3>1. PICK i \in DOMAIN Worker(d) : \E j \in DOMAIN Submitted(VkQueueOf[d]) :
            IsReleased(d, n, Worker(d)[i], Submitted(VkQueueOf[d])[j])
      BY <2>1 DEF Held
    <3>2. PICK j \in DOMAIN Submitted(VkQueueOf[d]) :
            IsReleased(d, n, Worker(d)[i], Submitted(VkQueueOf[d])[j])
      BY <3>1
    <3>3. CASE d = c
      <4>1. i # 1
        <5> SUFFICES ASSUME i = 1 PROVE FALSE
          OBVIOUS
        <5>1. /\ item.kind = "release" /\ item.value = Submitted(VkQueueOf[c])[j].value
          BY <3>2, <3>3, <1>4 DEF IsReleased
        <5>2. /\ Reached(VkQueueOf[c]) \in Nat
              /\ Submitted(VkQueueOf[c])[j].value = Reached(VkQueueOf[c]) + j
          BY <3>3, ProgramsAssumption DEF HInv, Timeline
        <5>3. j \in Nat \ {0}
          <6>1. IsSeq(Submitted(VkQueueOf[c]))
            BY WorkersAreSequences
          <6> QED BY <3>3, <6>1, AppendElements
        <5>4. Reached(VkQueueOf[c]) >= Submitted(VkQueueOf[c])[j].value
          BY <1>1, <1>2, <5>1 DEF Completed, Reached
        <5> QED BY <5>2, <5>3, <5>4
      <4>2. i - 1 \in DOMAIN Worker(c)' /\ Worker(c)'[i - 1] = Worker(c)[i]
        BY <1>4, <3>3, <4>1
      <4> QED BY <3>2, <3>3, <4>2, <1>3 DEF Held, Submitted, gpu
    <3>4. CASE d # c
      BY <3>2, <3>4, <1>2, <1>3 DEF Held, Submitted, gpu, OthersUnmoved, Unmoved
    <3> QED BY <3>3, <3>4
  <2> QED BY <1>3, <2>1 DEF HInv, WorkIsHeld, history
<1> QED BY <1>7, <1>8, <1>9, <1>10, <1>11 DEF HInv

\* The VkQueue reaches the value of what it has finished.
LEMMA GpuHInv ==
  ASSUME IInv, HInv, NEW v \in VkQueues, Gpu(v)
  PROVE  HInv'
<1> DEFINE s == Head(Submitted(v))
<1>1. /\ Submitted(v) # <<>> /\ Submitted(v)' = Tail(Submitted(v)) /\ Reached(v)' = s.value
      /\ Count(v)' = Count(v) /\ \A x \in VkQueues \ {v} : vk_queue'[x] = vk_queue[x]
  BY DEF Gpu, IInv, Shape, Submitted, Reached, Count, VkQueueFields
<1>2. done' = done \cup s.work /\ UNCHANGED <<program, fence, queue, known, followed, before>>
  BY DEF Gpu, Submitted
<1>3. IsSeq(Submitted(v))
  BY DEF IInv, Shape, Submitted
<1>4. /\ Len(Submitted(v)) \in Nat \ {0} /\ DOMAIN Submitted(v) = 1..Len(Submitted(v))
      /\ IsSeq(Submitted(v)') /\ DOMAIN Submitted(v)' = 1..(Len(Submitted(v)) - 1)
      /\ s = Submitted(v)[1]
      /\ \A i \in 1..(Len(Submitted(v)) - 1) : Submitted(v)'[i] = Submitted(v)[i + 1]
  BY <1>1, <1>3, TailElements
<1> HIDE DEF s
<1>5. Reached(v) \in Nat /\ s.value = Reached(v) + 1 /\ Count(v) = Reached(v) + Len(Submitted(v))
  BY <1>4 DEF HInv, Timeline
<1>6. Len(Submitted(v)') = Len(Submitted(v)) - 1
  <2>1. Len(Submitted(v)') \in Nat /\ DOMAIN Submitted(v)' = 1..Len(Submitted(v)')
    BY <1>4, AppendElements
  <2>2. Len(Submitted(v)) - 1 \in Nat
    BY <1>4
  <2> QED BY <1>4, <2>1, <2>2, SameInterval
<1>7. Timeline'
  <2>1. ASSUME NEW i \in DOMAIN Submitted(v)' PROVE Submitted(v)'[i].value = Reached(v)' + i
    <3>1. Submitted(v)[i + 1].value = Reached(v) + (i + 1)
      BY <1>4, <2>1 DEF HInv, Timeline
    <3> QED BY <1>1, <1>4, <1>5, <2>1, <3>1
  <2>2. Reached(v)' \in Nat /\ Count(v)' = Reached(v)' + Len(Submitted(v)')
    BY <1>1, <1>4, <1>5, <1>6
  <2> SUFFICES ASSUME NEW x \in VkQueues \ {v}
               PROVE  /\ Reached(x)' \in Nat /\ Count(x)' = Reached(x)' + Len(Submitted(x)')
                      /\ \A i \in DOMAIN Submitted(x)' : Submitted(x)'[i].value = Reached(x)' + i
    BY <2>1, <2>2 DEF Timeline
  <2> QED BY <1>1 DEF HInv, Timeline, Reached, Submitted, Count
<1>8. HistoryShape' /\ QueuesReferToUpdates' /\ FlushedHasNoWaits'
  BY <1>2 DEF HInv, HistoryShape, QueuesReferToUpdates, FlushedHasNoWaits, IsScheduled,
              Worker, Deferred, Waits, Flushed
<1>9. WorkIsHeld'
  <2>1. ASSUME NEW d \in Queues, NEW n, Held(d, n) PROVE <<d, n>> \in done' \/ Held(d, n)'
    <3>1. PICK i \in DOMAIN Worker(d) : \E j \in DOMAIN Submitted(VkQueueOf[d]) :
            IsReleased(d, n, Worker(d)[i], Submitted(VkQueueOf[d])[j])
      BY <2>1 DEF Held
    <3>2. PICK j \in DOMAIN Submitted(VkQueueOf[d]) :
            IsReleased(d, n, Worker(d)[i], Submitted(VkQueueOf[d])[j])
      BY <3>1
    <3>3. Worker(d)' = Worker(d)
      BY <1>2 DEF Worker
    <3>4. CASE VkQueueOf[d] = v /\ j = 1
      BY <3>2, <3>4, <1>2, <1>4 DEF IsReleased
    <3>5. CASE VkQueueOf[d] = v /\ j # 1
      <4>1. j - 1 \in DOMAIN Submitted(v)' /\ Submitted(v)'[j - 1] = Submitted(v)[j]
        BY <1>4, <3>5
      <4> QED BY <3>2, <3>3, <3>5, <4>1 DEF Held
    <3>6. CASE VkQueueOf[d] # v
      <4>1. Submitted(VkQueueOf[d])' = Submitted(VkQueueOf[d])
        BY <1>1, <3>6, ProgramsAssumption DEF Submitted
      <4> QED BY <3>2, <3>3, <4>1 DEF Held
    <3> QED BY <3>4, <3>5, <3>6
  <2> QED BY <1>2, <2>1 DEF HInv, WorkIsHeld
<1> QED BY <1>7, <1>8, <1>9 DEF HInv

-----------------------------------------------------------------------------
(* The theorem.                                                            *)

LEMMA InitHInv ==
  ASSUME Init PROVE HInv
<1>1. IsSeq(<<>>)
  BY <<>> \in Seq({}) DEF IsSeq
<1>2. HistoryShape
  BY <1>1 DEF Init, HistoryShape, NewFence
<1>3. QueuesReferToUpdates /\ FlushedHasNoWaits
  BY DEF Init, NewQueue, QueuesReferToUpdates, FlushedHasNoWaits, Worker, Deferred, Flushed
<1>4. Timeline
  BY DEF Init, NewVkQueue, Timeline, Reached, Submitted, Count
<1>5. WorkIsHeld
  BY DEF Init, WorkIsHeld
<1> QED BY <1>2, <1>3, <1>4, <1>5 DEF HInv

\* The steps that are left when the device works, by what they do.
ApplicationStep ==
  \/ \E c \in Queues : ExecuteCommandLists(c) \/ ReleaseQueue(c)
  \/ \E k \in program.waits_and_signals : QueueWait(k) \/ QueueSignal(k)
  \/ \E f \in Fences : CpuSignalFence(f) \/ Release(f)

CallEnds(c) == WaitSatisfied(c) \/ CpuWaitReturns(c) \/ Stops(c) \/ FreesQueue(c)

Resolution(c) == WaitOnSameVkQueue(c) \/ WaitIsDeferred(c) \/ WaitOnCpu(c)

LEMMA StepsWhileDeviceWorks ==
  ASSUME [Next]_vars, ~device_lost'
  PROVE  /\ ~device_lost
         /\ \/ ApplicationStep \/ UNCHANGED vars
            \/ \E c \in Queues : \/ CallEnds(c) \/ Resolution(c) \/ FlushWaiters(c) \/ Execute(c)
                                 \/ Signals(c) \/ FenceWorker(c)
            \/ \E v \in VkQueues : Gpu(v)
<1>1. ~device_lost
  <2>1. device_lost' = device_lost \/ LoseDevice
    <3> USE DEF gpu, SubmitWork, SubmissionFails
    <3>1. ASSUME NEW c \in Queues, SubmissionThread(c) PROVE device_lost' = device_lost
      BY <3>1 DEF SubmissionThread, WaitSatisfied, WaitOnSameVkQueue, WaitIsDeferred, WaitOnCpu,
                  Resolves, CpuWaitReturns, FlushWaiters, FlushFails, Signals, Execute,
                  ExecuteFails, Stops
    <3>2. ASSUME NEW c \in Queues, FenceWorker(c) \/ FreesQueue(c) PROVE device_lost' = device_lost
      BY <3>2 DEF FenceWorker, EnsuresOrder, SignalsFence, DropsSignal, ReleasesSubmission,
                  NextItem, FreesQueue
    <3>3. ASSUME ApplicationStep PROVE device_lost' = device_lost
      BY <3>3 DEF ApplicationStep, ExecuteCommandLists, ReleaseQueue, QueueWait, QueueSignal,
                  CpuSignalFence, Release
    <3>4. ASSUME NEW v \in VkQueues, Gpu(v) PROVE device_lost' = device_lost
      BY <3>4 DEF Gpu
    <3> QED BY <3>1, <3>2, <3>3, <3>4 DEF Next, vars, ApplicationStep
  <2> QED BY <2>1 DEF LoseDevice
<1>2. ~LoseDevice
  BY DEF LoseDevice
<1>3. \A c \in Queues : ~FlushFails(c) /\ ~ExecuteFails(c)
  BY <1>1 DEF FlushFails, ExecuteFails, SubmissionFails
<1> QED BY <1>1, <1>2, <1>3 DEF Next, ApplicationStep, CallEnds, Resolution, SubmissionThread

\* Calls of the application, and calls that are over, leave queues alone.
LEMMA CalmSteps ==
  ASSUME IInv, \/ ApplicationStep \/ UNCHANGED vars
               \/ \E c \in Queues : CallEnds(c)
  PROVE  /\ \A d \in Queues : Unmoved(d)
         /\ FencesIdle /\ UNCHANGED <<program, vk_queue, known, followed, before, done>>
<1> USE DEF gpu, history
<1>1. ASSUME fence' = fence, UNCHANGED queue \/ \E c \in Queues :
               \/ ExecuteCommandLists(c) \/ ReleaseQueue(c) \/ (\E op : Enqueue(c, op))
               \/ CallEnds(c)
      PROVE  FencesIdle /\ \A d \in Queues : Unmoved(d)
  <2>1. CASE UNCHANGED queue
    BY <1>1, <2>1, UnchangedFencesIdle DEF Unmoved, Worker, Waits, Deferred, Last, Flushed
  <2>2. CASE ~UNCHANGED queue
    BY <1>1, <2>2, UnchangedFencesIdle, IdleEffect DEF CallEnds, IInv
  <2> QED BY <2>1, <2>2
<1>2. ASSUME NEW c \in Queues, ExecuteCommandLists(c) \/ ReleaseQueue(c) \/ CallEnds(c)
      PROVE  fence' = fence /\ UNCHANGED <<program, vk_queue, known, followed, before, done>>
  BY <1>2 DEF ExecuteCommandLists, ReleaseQueue, CallEnds, WaitSatisfied, CpuWaitReturns, Stops,
              FreesQueue
<1>3. ASSUME NEW k \in program.waits_and_signals, QueueWait(k) \/ QueueSignal(k)
      PROVE  /\ \A d \in Queues : Unmoved(d)
             /\ FencesIdle /\ UNCHANGED <<program, vk_queue, known, followed, before, done>>
  <2>1. k.fence \in Fences /\ k.queue \in Queues
    BY ProgramsAssumption DEF IInv, Shape, ProgramType
  <2>2. \A d \in Queues : Unmoved(d)
    <3>1. \E op : Enqueue(k.queue, op)
      BY <1>3 DEF QueueWait, QueueSignal
    <3> QED BY <2>1, <3>1, IdleEffect DEF IInv
  <2>3. FencesIdle
    <3>1. CASE QueueWait(k)
      <4>1. FenceIdle(fence[k.fence], RegisterWait(fence[k.fence], k.value))
        BY <2>1, FenceFieldsOf DEF IInv, Shape
      <4> QED BY <2>1, <3>1, <4>1, OneFenceIdle DEF QueueWait
    <3>2. CASE QueueSignal(k)
      BY <3>2, UnchangedFencesIdle DEF QueueSignal
    <3> QED BY <1>3, <3>1, <3>2
  <2> QED BY <1>3, <2>2, <2>3 DEF QueueWait, QueueSignal
<1>4. ASSUME NEW f \in Fences, CpuSignalFence(f) \/ Release(f)
      PROVE  /\ \A d \in Queues : Unmoved(d)
             /\ FencesIdle /\ UNCHANGED <<program, vk_queue, known, followed, before, done>>
  <2>1. PICK value : fence' = [fence EXCEPT ![f] = CpuSignal(@, value)]
    BY <1>4 DEF CpuSignalFence, Release
  <2>2. FenceIdle(fence[f], CpuSignal(fence[f], value))
    BY FenceFieldsOf DEF IInv, Shape
  <2>3. FencesIdle
    BY <2>1, <2>2, OneFenceIdle
  <2> QED BY <1>4, <2>3
          DEF CpuSignalFence, Release, Unmoved, Worker, Waits, Deferred, Last, Flushed
<1>5. ASSUME UNCHANGED vars
      PROVE  fence' = fence /\ UNCHANGED <<queue, program, vk_queue, known, followed, before, done>>
  BY <1>5 DEF vars
<1> QED BY <1>1, <1>2, <1>3, <1>4, <1>5 DEF ApplicationStep

LEMMA NextHInv ==
  ASSUME IInv, device_lost \/ HInv, [Next]_vars
  PROVE  device_lost' \/ HInv'
<1> SUFFICES ASSUME ~device_lost' PROVE HInv'
  OBVIOUS
<1>1. ~device_lost /\ HInv
  BY StepsWhileDeviceWorks
<1>2. ASSUME \/ ApplicationStep \/ UNCHANGED vars \/ \E c \in Queues : CallEnds(c)
      PROVE  HInv'
  BY <1>1, <1>2, CalmSteps, IdleHInv
<1>3. ASSUME NEW c \in Queues, Resolution(c) PROVE HInv'
  BY <1>1, <1>3, ResolutionHInv DEF Resolution
<1> QED BY <1>1, <1>2, <1>3, StepsWhileDeviceWorks, FlushHInv, ExecuteHInv, SignalsHInv,
           FenceWorkerHInv, GpuHInv

LEMMA HistoryInvariance == Spec => [](IInv /\ (device_lost \/ HInv))
BY InitIInv, NextIInv, InitHInv, NextHInv, PTL DEF Spec

\* As long as the device works, the command allocators of submitted work stay
\* referenced by the fence worker until the GPU is through with it: the
\* callback waits for the value the work was submitted with, and a value that
\* is reached is not one of a submission still to come
\* (vkd3d_waiting_fence_release_submission, d3d12_command_queue_execute).
THEOREM AllocatorsStayHeld == Spec => []AllocatorsHeldUntilDone
<1>1. device_lost \/ HInv => AllocatorsHeldUntilDone
  BY DEF HInv, WorkIsHeld, Held, IsReleased, Worker, AllocatorsHeldUntilDone
<1> QED BY <1>1, HistoryInvariance, PTL

-----------------------------------------------------------------------------
(* References to fences.                                                    *)

One(condition) == IF condition THEN 1 ELSE 0

CallHolds(op, f) == op.type \in {"wait", "signal"} /\ op.fence = f
ItemHolds(item, f) == item.kind # "release" /\ item.fence = f

\* The references to fence f that a command queue has to give back.
Size(q, f) ==
  IF q.pc = "freed" THEN 0
  ELSE Cardinality(CallsOn(q, f)) + Cardinality(WaitsOn(q, f)) + Cardinality(ItemsOn(q, f))

\* STOP is the last call of a queue, a CPU wait belongs to the call at the head, and a
\* queue that has ended has nothing left.
QueueOk(q) ==
  /\ \A i \in DOMAIN q.submissions :
       q.submissions[i].type = "stop" => ~q.open /\ i = Len(q.submissions)
  /\ q.pc = "cpu_wait" => Head(q.submissions).type = "wait"
  /\ q.pc = "flushed" => q.submissions # <<>> /\ Head(q.submissions).type \in {"signal", "stop"}
  /\ q.pc \in {"flushed", "ended", "freed"} => q.wait_fences = <<>>
  /\ q.pc \in {"ended", "freed"} => ~q.open /\ q.submissions = <<>>
  /\ q.pc = "freed" => q.fence_worker = <<>>
  /\ q.pc \in {"ready", "cpu_wait", "flushed", "ended", "freed"}

RInv ==
  /\ released \subseteq Fences /\ DOMAIN refcount_internal = Fences
  /\ \A c \in Queues : QueueOk(queue[c])
  /\ RefcountMatchesHolders

LEMMA CountsAreNumbers ==
  ASSUME NEW q, QueueShape(q), NEW f
  PROVE  /\ IsFiniteSet(CallsOn(q, f)) /\ Cardinality(CallsOn(q, f)) \in Nat
         /\ IsFiniteSet(WaitsOn(q, f)) /\ Cardinality(WaitsOn(q, f)) \in Nat
         /\ IsFiniteSet(ItemsOn(q, f)) /\ Cardinality(ItemsOn(q, f)) \in Nat
         /\ Size(q, f) \in Nat
<1>1. /\ DOMAIN q.submissions = 1..Len(q.submissions) /\ Len(q.submissions) \in Nat
      /\ DOMAIN q.wait_fences = 1..Len(q.wait_fences) /\ Len(q.wait_fences) \in Nat
      /\ DOMAIN q.fence_worker = 1..Len(q.fence_worker) /\ Len(q.fence_worker) \in Nat
  BY AppendElements DEF QueueShape
<1>2. IsFiniteSet(CallsOn(q, f)) /\ Cardinality(CallsOn(q, f)) \in Nat
  <2>1. CallsOn(q, f) \in SUBSET (1..Len(q.submissions))
    BY <1>1 DEF CallsOn
  <2> QED BY <1>1, <2>1, IndicesAreFinite
<1>3. IsFiniteSet(WaitsOn(q, f)) /\ Cardinality(WaitsOn(q, f)) \in Nat
  <2>1. WaitsOn(q, f) \in SUBSET (1..Len(q.wait_fences))
    BY <1>1 DEF WaitsOn
  <2> QED BY <1>1, <2>1, IndicesAreFinite
<1>4. IsFiniteSet(ItemsOn(q, f)) /\ Cardinality(ItemsOn(q, f)) \in Nat
  <2>1. ItemsOn(q, f) \in SUBSET (1..Len(q.fence_worker))
    BY <1>1 DEF ItemsOn
  <2> QED BY <1>1, <2>1, IndicesAreFinite
<1>5. Size(q, f) \in Nat
  BY <1>2, <1>3, <1>4 DEF Size
<1> QED BY <1>2, <1>3, <1>4, <1>5

\* A tag in front of every element changes no count.
LEMMA Tagged ==
  ASSUME NEW tag, NEW S, IsFiniteSet(S)
  PROVE  IsFiniteSet({tag} \X S) /\ Cardinality({tag} \X S) = Cardinality(S)
<1>1. IsFiniteSet({tag}) /\ Cardinality({tag}) = 1
  BY FS_Singleton
<1>2. IsFiniteSet({tag} \X S) /\ Cardinality({tag} \X S) = Cardinality({tag}) * Cardinality(S)
  BY <1>1, FS_Product
<1>3. Cardinality(S) \in Nat
  BY FS_CardinalityType
<1>4. 1 * Cardinality(S) = Cardinality(S)
  BY <1>3
<1> QED BY <1>1, <1>2, <1>4

LEMMA DisjointUnion ==
  ASSUME NEW S, NEW T, IsFiniteSet(S), IsFiniteSet(T), S \cap T = {}
  PROVE  IsFiniteSet(S \cup T) /\ Cardinality(S \cup T) = Cardinality(S) + Cardinality(T)
<1>1. Cardinality(S \cup T) = Cardinality(S) + Cardinality(T) - Cardinality(S \cap T)
  BY FS_Union
<1>2. Cardinality(S) \in Nat /\ Cardinality(T) \in Nat /\ Cardinality(S \cap T) = 0
  BY FS_CardinalityType, FS_EmptySet
<1> QED BY <1>1, <1>2, FS_Union

LEMMA HoldersSize ==
  ASSUME NEW q, QueueShape(q), NEW f
  PROVE  IsFiniteSet(HoldersInQueue(q, f)) /\ Cardinality(HoldersInQueue(q, f)) = Size(q, f)
<1> DEFINE A == {"call"} \X CallsOn(q, f)
           B == {"wait"} \X WaitsOn(q, f)
           C == {"item"} \X ItemsOn(q, f)
<1>1. /\ IsFiniteSet(A) /\ Cardinality(A) = Cardinality(CallsOn(q, f))
      /\ IsFiniteSet(B) /\ Cardinality(B) = Cardinality(WaitsOn(q, f))
      /\ IsFiniteSet(C) /\ Cardinality(C) = Cardinality(ItemsOn(q, f))
  BY CountsAreNumbers, Tagged
<1>2. A \cap B = {} /\ (A \cup B) \cap C = {}
  OBVIOUS
<1> HIDE DEF A, B, C
<1>3. IsFiniteSet(A \cup B) /\ Cardinality(A \cup B) = Cardinality(A) + Cardinality(B)
  BY <1>1, <1>2, DisjointUnion
<1>4. /\ IsFiniteSet((A \cup B) \cup C)
      /\ Cardinality((A \cup B) \cup C) = Cardinality(A \cup B) + Cardinality(C)
  BY <1>1, <1>2, <1>3, DisjointUnion
<1>5. CASE q.pc = "freed"
  BY <1>5, FS_EmptySet DEF HoldersInQueue, Size
<1>6. CASE q.pc # "freed"
  <2>1. HoldersInQueue(q, f) = (A \cup B) \cup C
    BY <1>6 DEF HoldersInQueue, A, B, C
  <2> QED BY <1>1, <1>3, <1>4, <1>6, <2>1 DEF Size
<1> QED BY <1>5, <1>6

\* A queue counts for itself.
LEMMA HoldersOfQueues ==
  ASSUME Shape, Shape', NEW c \in Queues, \A d \in Queues \ {c} : queue'[d] = queue[d], NEW f
  PROVE  /\ Cardinality(Holders(f)) \in Nat /\ Cardinality(Holders(f)') \in Nat
         /\ Cardinality(Holders(f)') =
              Cardinality(Holders(f)) + Size(queue'[c], f) - Size(queue[c], f)
<1> DEFINE Part(d) == {d} \X HoldersInQueue(queue[d], f)
           Old     == {c} \X HoldersInQueue(queue[c], f)
           New     == {c} \X HoldersInQueue(queue'[c], f)
           T       == {Part(d) : d \in Queues \ {c}}
           Rest    == UNION T
<1>1. \A d \in Queues : QueueShape(queue[d]) /\ QueueShape(queue'[d])
  BY DEF Shape
<1>2. /\ \A d \in Queues : IsFiniteSet(Part(d))
      /\ IsFiniteSet(Old) /\ Cardinality(Old) = Size(queue[c], f)
      /\ IsFiniteSet(New) /\ Cardinality(New) = Size(queue'[c], f)
  BY <1>1, HoldersSize, Tagged
<1>3. IsFiniteSet(Rest)
  <2> DEFINE g == [d \in Queues \ {c} |-> Part(d)]
  <2>1. IsFiniteSet(Queues \ {c})
    BY ProgramsAssumption, FS_Difference
  <2>2. g \in Surjection(Queues \ {c}, T)
    BY DEF Surjection
  <2>3. IsFiniteSet(T)
    BY <2>1, <2>2, FS_Surjection
  <2>4. \A t \in T : IsFiniteSet(t)
    BY <1>2
  <2> QED BY <2>3, <2>4, FS_UNION
<1>4. Holders(f) = Rest \cup Old
  BY DEF Holders
<1>5. Holders(f)' = Rest \cup New
  <2>1. Holders(f)' = UNION {{d} \X HoldersInQueue(queue'[d], f) : d \in Queues}
    BY DEF Holders, HoldersInQueue, CallsOn, WaitsOn, ItemsOn
  <2> QED BY <2>1
<1>6. Rest \cap Old = {} /\ Rest \cap New = {}
  OBVIOUS
<1>7. /\ Size(queue[c], f) \in Nat /\ Size(queue'[c], f) \in Nat /\ Cardinality(Rest) \in Nat
  BY <1>1, <1>3, CountsAreNumbers, FS_CardinalityType
<1> HIDE DEF Rest, Old, New
<1>8. /\ Cardinality(Rest \cup Old) = Cardinality(Rest) + Size(queue[c], f)
      /\ Cardinality(Rest \cup New) = Cardinality(Rest) + Size(queue'[c], f)
  BY <1>2, <1>3, <1>6, DisjointUnion
<1> QED BY <1>4, <1>5, <1>7, <1>8

\* What the operations on the three lists make of the counts.
LEMMA CallAdded ==
  ASSUME NEW q, NEW r, IsSeq(q.submissions), NEW op, r.submissions = Append(q.submissions, op), NEW f
  PROVE  Cardinality(CallsOn(r, f)) = Cardinality(CallsOn(q, f)) + One(CallHolds(op, f))
<1> DEFINE s == q.submissions
           n == Len(s)
<1>1. n \in Nat /\ DOMAIN s = 1..n /\ CallsOn(q, f) \in SUBSET (1..n)
  BY AppendElements DEF CallsOn
<1>2. /\ DOMAIN r.submissions = 1..(n + 1)
      /\ \A i \in 1..n : r.submissions[i] = s[i]
      /\ r.submissions[n + 1] = op
  BY AppendElements
<1> HIDE DEF n
<1>3. CallsOn(r, f) \in SUBSET (1..(n + 1))
  BY <1>2 DEF CallsOn
<1>4. \A i \in 1..n : i \in CallsOn(r, f) <=> i \in CallsOn(q, f)
  BY <1>1, <1>2 DEF CallsOn
<1>5. n + 1 \in CallsOn(r, f) <=> CallHolds(op, f)
  BY <1>1, <1>2 DEF CallsOn, CallHolds
<1>6. Cardinality(CallsOn(r, f)) =
        Cardinality(CallsOn(q, f)) + (IF n + 1 \in CallsOn(r, f) THEN 1 ELSE 0)
  BY <1>1, <1>3, <1>4, IndicesOfAppend
<1> QED BY <1>5, <1>6 DEF One

LEMMA CallTaken ==
  ASSUME NEW q, NEW r, IsSeq(q.submissions), q.submissions # <<>>, r.submissions = Tail(q.submissions), NEW f
  PROVE  Cardinality(CallsOn(r, f)) = Cardinality(CallsOn(q, f)) - One(CallHolds(Head(q.submissions), f))
<1> DEFINE s == q.submissions
           n == Len(s)
<1>1. n \in Nat /\ DOMAIN s = 1..n /\ CallsOn(q, f) \in SUBSET (1..n)
  BY AppendElements DEF CallsOn
<1>2. /\ n \in Nat \ {0} /\ DOMAIN r.submissions = 1..(n - 1)
      /\ \A i \in 1..(n - 1) : r.submissions[i] = s[i + 1]
      /\ Head(s) = s[1]
  BY TailElements
<1> HIDE DEF n
<1>3. CallsOn(r, f) \in SUBSET (1..(n - 1))
  BY <1>2 DEF CallsOn
<1>4. \A i \in 1..(n - 1) : i \in CallsOn(r, f) <=> i + 1 \in CallsOn(q, f)
  BY <1>1, <1>2 DEF CallsOn
<1>5. 1 \in CallsOn(q, f) <=> CallHolds(Head(s), f)
  BY <1>1, <1>2 DEF CallsOn, CallHolds
<1>6. Cardinality(CallsOn(r, f)) =
        Cardinality(CallsOn(q, f)) - (IF 1 \in CallsOn(q, f) THEN 1 ELSE 0)
  BY <1>1, <1>2, <1>3, <1>4, IndicesOfTail
<1> QED BY <1>5, <1>6 DEF One

LEMMA NoCalls ==
  ASSUME NEW q, q.submissions = <<>>, NEW f
  PROVE  Cardinality(CallsOn(q, f)) = 0
<1>1. CallsOn(q, f) = {}
  BY DEF CallsOn
<1> QED BY <1>1, FS_EmptySet

LEMMA ItemAdded ==
  ASSUME NEW q, NEW r, IsSeq(q.fence_worker), NEW item, r.fence_worker = Append(q.fence_worker, item), NEW f
  PROVE  Cardinality(ItemsOn(r, f)) = Cardinality(ItemsOn(q, f)) + One(ItemHolds(item, f))
<1> DEFINE s == q.fence_worker
           n == Len(s)
<1>1. n \in Nat /\ DOMAIN s = 1..n /\ ItemsOn(q, f) \in SUBSET (1..n)
  BY AppendElements DEF ItemsOn
<1>2. /\ DOMAIN r.fence_worker = 1..(n + 1)
      /\ \A i \in 1..n : r.fence_worker[i] = s[i]
      /\ r.fence_worker[n + 1] = item
  BY AppendElements
<1> HIDE DEF n
<1>3. ItemsOn(r, f) \in SUBSET (1..(n + 1))
  BY <1>2 DEF ItemsOn
<1>4. \A i \in 1..n : i \in ItemsOn(r, f) <=> i \in ItemsOn(q, f)
  BY <1>1, <1>2 DEF ItemsOn
<1>5. n + 1 \in ItemsOn(r, f) <=> ItemHolds(item, f)
  BY <1>1, <1>2 DEF ItemsOn, ItemHolds
<1>6. Cardinality(ItemsOn(r, f)) =
        Cardinality(ItemsOn(q, f)) + (IF n + 1 \in ItemsOn(r, f) THEN 1 ELSE 0)
  BY <1>1, <1>3, <1>4, IndicesOfAppend
<1> QED BY <1>5, <1>6 DEF One

LEMMA ItemTaken ==
  ASSUME NEW q, NEW r, IsSeq(q.fence_worker), q.fence_worker # <<>>, r.fence_worker = Tail(q.fence_worker), NEW f
  PROVE  Cardinality(ItemsOn(r, f)) = Cardinality(ItemsOn(q, f)) - One(ItemHolds(Head(q.fence_worker), f))
<1> DEFINE s == q.fence_worker
           n == Len(s)
<1>1. n \in Nat /\ DOMAIN s = 1..n /\ ItemsOn(q, f) \in SUBSET (1..n)
  BY AppendElements DEF ItemsOn
<1>2. /\ n \in Nat \ {0} /\ DOMAIN r.fence_worker = 1..(n - 1)
      /\ \A i \in 1..(n - 1) : r.fence_worker[i] = s[i + 1]
      /\ Head(s) = s[1]
  BY TailElements
<1> HIDE DEF n
<1>3. ItemsOn(r, f) \in SUBSET (1..(n - 1))
  BY <1>2 DEF ItemsOn
<1>4. \A i \in 1..(n - 1) : i \in ItemsOn(r, f) <=> i + 1 \in ItemsOn(q, f)
  BY <1>1, <1>2 DEF ItemsOn
<1>5. 1 \in ItemsOn(q, f) <=> ItemHolds(Head(s), f)
  BY <1>1, <1>2 DEF ItemsOn, ItemHolds
<1>6. Cardinality(ItemsOn(r, f)) =
        Cardinality(ItemsOn(q, f)) - (IF 1 \in ItemsOn(q, f) THEN 1 ELSE 0)
  BY <1>1, <1>2, <1>3, <1>4, IndicesOfTail
<1> QED BY <1>5, <1>6 DEF One

LEMMA NoItems ==
  ASSUME NEW q, q.fence_worker = <<>>, NEW f
  PROVE  Cardinality(ItemsOn(q, f)) = 0
<1>1. ItemsOn(q, f) = {}
  BY DEF ItemsOn
<1> QED BY <1>1, FS_EmptySet

LEMMA OrdersAdded ==
  ASSUME NEW q, NEW r, IsSeq(q.fence_worker), IsSeq(q.wait_fences),
         r.fence_worker = q.fence_worker \o Orders(q.wait_fences), NEW f
  PROVE  Cardinality(ItemsOn(r, f)) = Cardinality(ItemsOn(q, f)) + Cardinality(WaitsOn(q, f))
<1> DEFINE s == q.fence_worker
           n == Len(s)
           t == q.wait_fences
           m == Len(t)
           u == Orders(t)
<1>1. n \in Nat /\ DOMAIN s = 1..n /\ ItemsOn(q, f) \in SUBSET (1..n)
  BY AppendElements DEF ItemsOn
<1>2. m \in Nat /\ DOMAIN t = 1..m /\ WaitsOn(q, f) \in SUBSET (1..m)
  BY AppendElements DEF WaitsOn
<1>3. /\ IsSeq(u) /\ DOMAIN u = 1..m
      /\ \A i \in 1..m : u[i] = OrderItem(t[i].fence, t[i].update_count)
  BY <1>2, OrdersElements
<1>4. Len(u) = m
  BY <1>2, <1>3, AppendElements, SameInterval
<1>5. /\ DOMAIN r.fence_worker = 1..(n + m)
      /\ \A i \in 1..n : r.fence_worker[i] = s[i]
      /\ \A i \in 1..m : r.fence_worker[n + i] = u[i]
  <2>1. IsSeq(s) /\ IsSeq(u) /\ r.fence_worker = s \o u
    BY <1>3
  <2> HIDE DEF s, t, u, m
  <2>2. /\ Longer(s, s \o u) /\ DOMAIN (s \o u) = 1..(Len(s) + Len(u))
        /\ \A i \in 1..Len(u) : (s \o u)[Len(s) + i] = u[i]
    BY <2>1, ConcatElements
  <2> QED BY <1>1, <1>4, <2>1, <2>2 DEF Longer
<1> HIDE DEF n, m, u, t
<1>6. ASSUME NEW i \in 1..n PROVE i \in ItemsOn(r, f) <=> i \in ItemsOn(q, f)
  <2>1. i \in 1..(n + m)
    BY <1>1, <1>2
  <2>2. i \in DOMAIN r.fence_worker /\ i \in DOMAIN s /\ r.fence_worker[i] = s[i]
    BY <1>1, <1>5, <2>1
  <2> QED BY <2>2 DEF ItemsOn
<1>7. ASSUME NEW i \in 1..m PROVE n + i \in ItemsOn(r, f) <=> i \in WaitsOn(q, f)
  <2>1. n + i \in 1..(n + m)
    BY <1>1, <1>2
  <2>2. r.fence_worker[n + i] = OrderItem(t[i].fence, t[i].update_count)
    BY <1>3, <1>5
  <2>3. n + i \in DOMAIN r.fence_worker
    BY <1>5, <2>1
  <2>4. n + i \in ItemsOn(r, f) <=> t[i].fence = f
    <3>1. r.fence_worker[n + i].kind = "order" /\ r.fence_worker[n + i].fence = t[i].fence
      BY <2>2 DEF OrderItem
    <3>2. \A j : j \in ItemsOn(r, f) <=> /\ j \in DOMAIN r.fence_worker
                                        /\ r.fence_worker[j].kind # "release"
                                        /\ r.fence_worker[j].fence = f
      BY DEF ItemsOn
    <3> QED BY <2>3, <3>1, <3>2
  <2> QED BY <1>2, <2>4 DEF WaitsOn, t
<1> DEFINE J == ItemsOn(r, f)
<1>8. n \in Nat /\ m \in Nat /\ J \in SUBSET (1..(n + m))
  BY <1>1, <1>2, <1>5 DEF ItemsOn
<1>10. ItemsOn(q, f) = {i \in 1..n : i \in J}
  BY <1>1, <1>6
<1>11. WaitsOn(q, f) = {i \in 1..m : n + i \in J}
  BY <1>2, <1>7
<1> HIDE DEF J
<1>9. Cardinality(J) =
        Cardinality({i \in 1..n : i \in J}) + Cardinality({i \in 1..m : n + i \in J})
  BY <1>8, IndicesOfConcat, Zenon
<1> QED BY <1>9, <1>10, <1>11, Zenon DEF J

LEMMA WaitAdded ==
  ASSUME NEW q, NEW r, IsSeq(q.wait_fences), NEW w, r.wait_fences = Append(q.wait_fences, w), NEW f
  PROVE  Cardinality(WaitsOn(r, f)) = Cardinality(WaitsOn(q, f)) + One(w.fence = f)
<1> DEFINE s == q.wait_fences
           n == Len(s)
<1>1. n \in Nat /\ DOMAIN s = 1..n /\ WaitsOn(q, f) \in SUBSET (1..n)
  BY AppendElements DEF WaitsOn
<1>2. /\ DOMAIN r.wait_fences = 1..(n + 1)
      /\ \A i \in 1..n : r.wait_fences[i] = s[i]
      /\ r.wait_fences[n + 1] = w
  BY AppendElements
<1> HIDE DEF n
<1>3. WaitsOn(r, f) \in SUBSET (1..(n + 1))
  BY <1>2 DEF WaitsOn
<1>4. \A i \in 1..n : i \in WaitsOn(r, f) <=> i \in WaitsOn(q, f)
  BY <1>1, <1>2 DEF WaitsOn
<1>5. n + 1 \in WaitsOn(r, f) <=> w.fence = f
  BY <1>1, <1>2 DEF WaitsOn
<1>6. Cardinality(WaitsOn(r, f)) =
        Cardinality(WaitsOn(q, f)) + (IF n + 1 \in WaitsOn(r, f) THEN 1 ELSE 0)
  BY <1>1, <1>3, <1>4, IndicesOfAppend
<1> QED BY <1>5, <1>6 DEF One

LEMMA NoWaits ==
  ASSUME NEW q, q.wait_fences = <<>>, NEW f
  PROVE  Cardinality(WaitsOn(q, f)) = 0
<1>1. WaitsOn(q, f) = {}
  BY DEF WaitsOn
<1> QED BY <1>1, FS_EmptySet

\* A step of queue c that changes the references to fences by as much as its own.
Balanced(c) ==
  /\ DOMAIN queue' = Queues /\ \A d \in Queues \ {c} : queue'[d] = queue[d]
  /\ QueueOk(queue'[c])
  /\ released' = released /\ DOMAIN refcount_internal' = Fences
  /\ \A f \in Fences :
       refcount_internal'[f] =
         refcount_internal[f] + Size(queue'[c], f) - Size(queue[c], f)

LEMMA BalancedStep ==
  ASSUME Shape, Shape', RInv, NEW c \in Queues, Balanced(c)
  PROVE  RInv'
<1>1. \A d \in Queues : QueueShape(queue[d]) /\ QueueShape(queue'[d])
  BY DEF Shape
<1>2. ASSUME NEW f \in Fences
      PROVE  refcount_internal'[f] =
               (IF f \in released' THEN 0 ELSE 1) + Cardinality(Holders(f)')
  <2>1. /\ Cardinality(Holders(f)) \in Nat /\ Cardinality(Holders(f)') \in Nat
        /\ Cardinality(Holders(f)') =
             Cardinality(Holders(f)) + Size(queue'[c], f) - Size(queue[c], f)
    BY HoldersOfQueues DEF Balanced
  <2>2. refcount_internal[f] = (IF f \in released THEN 0 ELSE 1) + Cardinality(Holders(f))
    BY DEF RInv, RefcountMatchesHolders
  <2>3. Size(queue'[c], f) \in Nat /\ Size(queue[c], f) \in Nat
    BY <1>1, CountsAreNumbers
  <2> QED BY <2>1, <2>2, <2>3 DEF Balanced
<1>3. \A d \in Queues : QueueOk(queue'[d])
  BY DEF RInv, Balanced
<1> QED BY <1>2, <1>3 DEF RInv, RefcountMatchesHolders, Balanced

LEMMA HoldersAreNumbers ==
  ASSUME Shape, NEW f
  PROVE  Cardinality(Holders(f)) \in Nat
<1> DEFINE Part(d) == {d} \X HoldersInQueue(queue[d], f)
           T       == {Part(d) : d \in Queues}
           g       == [d \in Queues |-> Part(d)]
<1>1. \A d \in Queues : IsFiniteSet(Part(d))
  BY HoldersSize, Tagged DEF Shape
<1>2. g \in Surjection(Queues, T)
  BY DEF Surjection
<1>3. IsFiniteSet(T)
  BY <1>2, ProgramsAssumption, FS_Surjection
<1>4. IsFiniteSet(UNION T)
  BY <1>1, <1>3, FS_UNION
<1>5. Holders(f) = UNION T
  BY DEF Holders
<1> QED BY <1>4, <1>5, FS_CardinalityType

LEMMA RefsAreNumbers ==
  ASSUME Shape, RInv, NEW f \in Fences
  PROVE  refcount_internal[f] \in Nat
BY HoldersAreNumbers DEF RInv, RefcountMatchesHolders

LEMMA OneReferenceLess ==
  ASSUME Shape, RInv, NEW g, DecRef(g)
  PROVE  /\ DOMAIN refcount_internal' = Fences
         /\ \A f \in Fences : refcount_internal'[f] = refcount_internal[f] - One(g = f)
<1>1. \A f \in Fences : refcount_internal[f] \in Nat
  BY RefsAreNumbers
<1>2. refcount_internal' = [refcount_internal EXCEPT ![g] = @ - 1]
  BY DEF DecRef
<1> QED BY <1>1, <1>2 DEF RInv, One

LEMMA BalancedBy ==
  ASSUME Shape, NEW c \in Queues, NEW r, queue' = [queue EXCEPT ![c] = r], QueueOk(r),
         released' = released, DOMAIN refcount_internal' = Fences,
         \A f \in Fences :
           refcount_internal'[f] = refcount_internal[f] + Size(r, f) - Size(queue[c], f)
  PROVE  Balanced(c)
BY DEF Shape, Balanced

\* The operators on command queues.
LEMMA SameListsSize ==
  ASSUME NEW q, NEW r, q.pc # "freed", r.pc # "freed", r.submissions = q.submissions,
         r.wait_fences = q.wait_fences, r.fence_worker = q.fence_worker, NEW f
  PROVE  Size(r, f) = Size(q, f)
BY DEF Size, CallsOn, WaitsOn, ItemsOn

LEMMA NextSubmissionRefs ==
  ASSUME NEW q, QueueShape(q), QueueOk(q), q.submissions # <<>>
  PROVE  LET r == NextSubmission(q)
         IN  /\ QueueShape(r) /\ QueueOk(r) /\ r.pc = "ready"
             /\ \A f : Size(r, f) = Size(q, f) - One(CallHolds(Head(q.submissions), f))
<1> DEFINE r == NextSubmission(q)
           s == q.submissions
<1>1. /\ DOMAIN r = QueueFields /\ r.pc = "ready" /\ r.open = q.open
      /\ r.submissions = Tail(s) /\ r.fence_worker = q.fence_worker
      /\ r.wait_fences = q.wait_fences
  BY DEF NextSubmission, QueueShape, QueueFields
<1>2. QueueShape(r)
  BY QueueOperators DEF KeepsWaits
<1> HIDE DEF r
<1>3. /\ Len(s) \in Nat \ {0} /\ DOMAIN s = 1..Len(s) /\ DOMAIN Tail(s) = 1..(Len(s) - 1)
      /\ \A i \in 1..(Len(s) - 1) : Tail(s)[i] = s[i + 1]
      /\ IsSeq(Tail(s))
  BY TailElements DEF QueueShape
<1>4. Len(Tail(s)) = Len(s) - 1
  <2>1. Len(Tail(s)) \in Nat /\ DOMAIN Tail(s) = 1..Len(Tail(s))
    BY <1>3, AppendElements
  <2> QED BY <1>3, <2>1, SameInterval
<1>5. \A i \in DOMAIN r.submissions :
        r.submissions[i].type = "stop" => ~r.open /\ i = Len(r.submissions)
  <2> SUFFICES ASSUME NEW i \in 1..(Len(s) - 1), s[i + 1].type = "stop"
      PROVE  ~q.open /\ i = Len(s) - 1
    BY <1>1, <1>3, <1>4
  <2>1. i + 1 \in DOMAIN s
    BY <1>3
  <2>2. ~q.open /\ i + 1 = Len(s)
    BY <2>1 DEF QueueOk
  <2> QED BY <1>3, <2>2
<1>6. QueueOk(r)
  BY <1>1, <1>5 DEF QueueOk
<1>7. ASSUME NEW f PROVE Size(r, f) = Size(q, f) - One(CallHolds(Head(s), f))
  <2>1. Cardinality(CallsOn(r, f)) = Cardinality(CallsOn(q, f)) - One(CallHolds(Head(s), f))
    BY <1>1, CallTaken DEF QueueShape
  <2>2. WaitsOn(r, f) = WaitsOn(q, f) /\ ItemsOn(r, f) = ItemsOn(q, f)
    BY <1>1 DEF WaitsOn, ItemsOn
  <2>3. q.pc # "freed"
    BY DEF QueueOk
  <2>4. One(CallHolds(Head(s), f)) \in Int
    BY DEF One
  <2> QED BY <1>1, <2>1, <2>2, <2>3, <2>4, CountsAreNumbers DEF Size
<1> QED BY <1>1, <1>2, <1>6, <1>7 DEF r

LEMMA AddItemRefs ==
  ASSUME NEW q, QueueShape(q), QueueOk(q), q.pc # "freed", NEW item
  PROVE  LET r == AddItem(q, item)
         IN  /\ QueueShape(r) /\ QueueOk(r) /\ r.pc = q.pc
             /\ \A f : Size(r, f) = Size(q, f) + One(ItemHolds(item, f))
<1> DEFINE r == AddItem(q, item)
<1>1. /\ r.pc = q.pc /\ r.open = q.open /\ r.submissions = q.submissions
      /\ r.fence_worker = Append(q.fence_worker, item) /\ r.wait_fences = q.wait_fences
  BY DEF AddItem, QueueShape, QueueFields
<1>2. QueueShape(r)
  BY QueueOperators DEF KeepsWaits
<1> HIDE DEF r
<1>3. QueueOk(r)
  BY <1>1 DEF QueueOk
<1>4. ASSUME NEW f PROVE Size(r, f) = Size(q, f) + One(ItemHolds(item, f))
  <2>0. IsSeq(q.wait_fences) /\ IsSeq(q.fence_worker)
    BY DEF QueueShape
  <2>1. Cardinality(ItemsOn(r, f)) = Cardinality(ItemsOn(q, f)) + One(ItemHolds(item, f))
    BY <1>1, <2>0, ItemAdded
  <2>2. WaitsOn(r, f) = WaitsOn(q, f) /\ CallsOn(r, f) = CallsOn(q, f)
    BY <1>1 DEF WaitsOn, CallsOn
  <2>3. One(ItemHolds(item, f)) \in Int
    BY DEF One
  <2> QED BY <1>1, <2>1, <2>2, <2>3, CountsAreNumbers DEF Size
<1> QED BY <1>1, <1>2, <1>3, <1>4 DEF r

LEMMA FinalizeWaitsRefs ==
  ASSUME NEW q, QueueShape(q), QueueOk(q), q.pc # "freed"
  PROVE  LET r == FinalizeWaits(q)
         IN  /\ QueueShape(r) /\ QueueOk(r) /\ r.pc = q.pc /\ r.submissions = q.submissions
             /\ r.wait_fences = <<>> /\ DOMAIN r = QueueFields /\ r.open = q.open
             /\ \A f : Size(r, f) = Size(q, f)
<1> DEFINE r == FinalizeWaits(q)
<1>1. /\ r.pc = q.pc /\ r.open = q.open /\ r.submissions = q.submissions
      /\ r.fence_worker = q.fence_worker \o Orders(q.wait_fences) /\ r.wait_fences = <<>>
      /\ DOMAIN r = QueueFields
  BY DEF FinalizeWaits, Orders, QueueShape, QueueFields
<1>2. QueueShape(r)
  BY QueueOperators DEF KeepsWaits
<1> HIDE DEF r
<1>3. QueueOk(r)
  BY <1>1 DEF QueueOk
<1>4. ASSUME NEW f PROVE Size(r, f) = Size(q, f)
  <2>1. Cardinality(ItemsOn(r, f)) = Cardinality(ItemsOn(q, f)) + Cardinality(WaitsOn(q, f))
    BY <1>1, OrdersAdded DEF QueueShape
  <2>2. CallsOn(r, f) = CallsOn(q, f)
    BY <1>1 DEF CallsOn
  <2>3. IsSeq(q.wait_fences) /\ IsSeq(q.fence_worker)
    BY DEF QueueShape
  <2>4. Cardinality(WaitsOn(r, f)) = 0
    BY <1>1, NoWaits
  <2> QED BY <1>1, <2>1, <2>2, <2>4, CountsAreNumbers DEF Size
<1> QED BY <1>1, <1>2, <1>3, <1>4 DEF r

LEMMA DropWaitsRefs ==
  ASSUME NEW q, QueueShape(q), QueueOk(q), q.pc # "freed"
  PROVE  LET r == DropWaits(q)
         IN  /\ QueueShape(r) /\ QueueOk(r) /\ r.pc = q.pc /\ r.submissions = q.submissions
             /\ r.wait_fences = <<>> /\ DOMAIN r = QueueFields /\ r.open = q.open
             /\ \A f : Size(r, f) = Size(q, f) - WaitReferences(q, f)
<1> DEFINE r == DropWaits(q)
<1>1. /\ r.pc = q.pc /\ r.open = q.open /\ r.submissions = q.submissions
      /\ r.fence_worker = q.fence_worker /\ r.wait_fences = <<>> /\ DOMAIN r = QueueFields
  BY DEF DropWaits, QueueShape, QueueFields
<1>2. QueueShape(r)
  BY QueueOperators DEF KeepsWaits
<1> HIDE DEF r
<1>3. QueueOk(r)
  BY <1>1 DEF QueueOk
<1>4. ASSUME NEW f PROVE Size(r, f) = Size(q, f) - WaitReferences(q, f)
  <2>1. CallsOn(r, f) = CallsOn(q, f) /\ ItemsOn(r, f) = ItemsOn(q, f)
    BY <1>1 DEF CallsOn, ItemsOn
  <2>2. IsSeq(q.wait_fences) /\ IsSeq(q.fence_worker)
    BY DEF QueueShape
  <2>3. Cardinality(WaitsOn(r, f)) = 0
    BY <1>1, NoWaits
  <2> QED BY <1>1, <2>1, <2>3, CountsAreNumbers DEF Size, WaitReferences
<1> QED BY <1>1, <1>2, <1>3, <1>4 DEF r

LEMMA AddWaitRefs ==
  ASSUME NEW q, QueueShape(q), QueueOk(q), q.pc = "ready", NEW g, NEW u
  PROVE  LET r == AddWait(q, g, u)
         IN  QueueOk(r) /\ \A f : Size(r, f) = Size(q, f) + One(g = f)
<1> DEFINE r == AddWait(q, g, u)
           w == [fence |-> g, update_count |-> u.update_count]
<1>1. /\ r.pc = q.pc /\ r.open = q.open /\ r.submissions = q.submissions
      /\ r.fence_worker = q.fence_worker /\ r.wait_fences = Append(q.wait_fences, w)
  BY DEF AddWait, QueueShape, QueueFields
<1>2. w.fence = g
  OBVIOUS
<1> HIDE DEF r, w
<1>3. QueueOk(r)
  BY <1>1 DEF QueueOk
<1>4. ASSUME NEW f PROVE Size(r, f) = Size(q, f) + One(g = f)
  <2>1. /\ CallsOn(r, f) = CallsOn(q, f) /\ ItemsOn(r, f) = ItemsOn(q, f)
    BY <1>1 DEF CallsOn, ItemsOn
  <2>0. IsSeq(q.wait_fences) /\ IsSeq(q.fence_worker)
    BY DEF QueueShape
  <2>2. Cardinality(WaitsOn(r, f)) = Cardinality(WaitsOn(q, f)) + One(w.fence = f)
    BY <1>1, <2>0, WaitAdded
  <2>3. One(g = f) \in Int
    BY DEF One
  <2> QED BY <1>1, <1>2, <2>1, <2>2, <2>3, CountsAreNumbers DEF Size
<1> QED BY <1>3, <1>4 DEF r

-----------------------------------------------------------------------------
(* Each step of a command queue gives back as many references as it drops.  *)

\* A reference of the call a submission thread works on.
LEMMA CurrentHolds ==
  ASSUME NEW c, NEW type, Working(c, type), NEW f
  PROVE  /\ type \in {"wait", "signal"} =>
              One(CallHolds(Head(queue[c].submissions), f)) = One(Current(c).fence = f)
         /\ type \notin {"wait", "signal"} => One(CallHolds(Head(queue[c].submissions), f)) = 0
BY DEF Working, CallHolds, Current, One

\* A queue at work is not freed.
LEMMA QueueAtWork ==
  ASSUME Shape, RInv, NEW c \in Queues
  PROVE  /\ QueueShape(queue[c]) /\ QueueOk(queue[c])
         /\ queue[c].submissions # <<>> => queue[c].pc \notin {"ended", "freed"}
         /\ \A f : Size(queue[c], f) \in Int
         /\ \A f \in Fences : refcount_internal[f] \in Int
         /\ DOMAIN refcount_internal = Fences
<1>1. QueueShape(queue[c]) /\ QueueOk(queue[c])
  BY DEF Shape, RInv
<1>2. queue[c].submissions # <<>> => queue[c].pc \notin {"ended", "freed"}
  BY <1>1 DEF QueueOk
<1>3. \A f : Size(queue[c], f) \in Int
  <2> TAKE f
  <2>1. Size(queue[c], f) \in Nat
    BY <1>1, CountsAreNumbers
  <2> QED BY <2>1
<1>4. \A f \in Fences : refcount_internal[f] \in Int
  <2> TAKE f \in Fences
  <2>1. refcount_internal[f] \in Nat
    BY RefsAreNumbers
  <2> QED BY <2>1
<1> QED BY <1>1, <1>2, <1>3, <1>4 DEF RInv

\* A call is added to an open queue.
LEMMA CallAddedRefs ==
  ASSUME NEW q, QueueShape(q), QueueOk(q), q.open, NEW r, NEW op,
         r.submissions = Append(q.submissions, op), r.pc = q.pc,
         r.wait_fences = q.wait_fences, r.fence_worker = q.fence_worker,
         op.type = "stop" => ~r.open
  PROVE  QueueOk(r) /\ \A f : Size(r, f) = Size(q, f) + One(CallHolds(op, f))
<1> DEFINE s == q.submissions
<1>1. /\ IsSeq(Append(s, op)) /\ Len(s) \in Nat /\ DOMAIN s = 1..Len(s)
      /\ DOMAIN Append(s, op) = 1..(Len(s) + 1) /\ Append(s, op) # <<>>
      /\ \A i \in 1..Len(s) : Append(s, op)[i] = s[i]
      /\ Append(s, op)[Len(s) + 1] = op
  BY AppendElements DEF QueueShape
<1>2. Len(Append(s, op)) = Len(s) + 1
  <2>1. Len(Append(s, op)) \in Nat /\ DOMAIN Append(s, op) = 1..Len(Append(s, op))
    BY <1>1, AppendElements
  <2> QED BY <1>1, <2>1, SameInterval
<1>3. s # <<>> => Head(Append(s, op)) = Head(s)
  <2> SUFFICES ASSUME s # <<>> PROVE Head(Append(s, op)) = Head(s)
    OBVIOUS
  <2>1. Len(s) \in Nat \ {0} /\ Head(s) = s[1]
    BY TailElements DEF QueueShape
  <2>2. Head(Append(s, op)) = Append(s, op)[1]
    BY <1>1, TailElements
  <2> QED BY <1>1, <2>1, <2>2
<1>4. q.pc \notin {"ended", "freed"}
  BY DEF QueueOk
<1>5. q.pc \in {"cpu_wait", "flushed"} => s # <<>>
  BY DEF QueueShape, QueueOk
<1>6. ASSUME NEW i \in DOMAIN r.submissions, r.submissions[i].type = "stop"
      PROVE  ~r.open /\ i = Len(r.submissions)
  <2>1. CASE i \in 1..Len(s)
    <3>1. s[i].type = "stop"
      BY <1>1, <1>6, <2>1
    <3> QED BY <1>1, <2>1, <3>1 DEF QueueOk
  <2>2. CASE i = Len(s) + 1
    BY <1>1, <1>2, <1>6, <2>2
  <2> QED BY <1>1, <2>1, <2>2
<1>7. QueueOk(r)
  BY <1>1, <1>3, <1>4, <1>5, <1>6 DEF QueueOk
<1>8. ASSUME NEW f PROVE Size(r, f) = Size(q, f) + One(CallHolds(op, f))
  <2>0. IsSeq(q.submissions) /\ r.submissions = Append(q.submissions, op)
    BY DEF QueueShape
  <2>1. Cardinality(CallsOn(r, f)) = Cardinality(CallsOn(q, f)) + One(CallHolds(op, f))
    BY ONLY <2>0, CallAdded
  <2>2. WaitsOn(r, f) = WaitsOn(q, f) /\ ItemsOn(r, f) = ItemsOn(q, f)
    BY DEF WaitsOn, ItemsOn
  <2>3. One(CallHolds(op, f)) \in Int
    BY DEF One
  <2> QED BY <1>4, <2>1, <2>2, <2>3, CountsAreNumbers DEF Size
<1> QED BY <1>7, <1>8

LEMMA EnqueueRefs ==
  ASSUME Shape, RInv, NEW c \in Queues, NEW op, op.type # "stop", Enqueue(c, op),
         released' = released, DOMAIN refcount_internal' = Fences,
         \A f \in Fences :
           refcount_internal'[f] = refcount_internal[f] + One(CallHolds(op, f))
  PROVE  Balanced(c)
<1>1. PICK r : r = [queue[c] EXCEPT !.submissions = Append(@, op), !.calls = @ + 1]
  OBVIOUS
<1>2. queue' = [queue EXCEPT ![c] = r] /\ queue[c].open
  BY <1>1 DEF Enqueue
<1>3. QueueShape(queue[c]) /\ QueueOk(queue[c])
  BY QueueAtWork
<1>4. /\ r.submissions = Append(queue[c].submissions, op) /\ r.pc = queue[c].pc
      /\ r.wait_fences = queue[c].wait_fences /\ r.fence_worker = queue[c].fence_worker
  BY <1>1, <1>3 DEF QueueShape, QueueFields
<1>5. QueueOk(r) /\ \A f : Size(r, f) = Size(queue[c], f) + One(CallHolds(op, f))
  <2>1. op.type = "stop" => ~r.open
    OBVIOUS
  <2> QED BY ONLY <1>2, <1>3, <1>4, <2>1, CallAddedRefs
<1>7. ASSUME NEW f \in Fences
      PROVE  refcount_internal'[f] = refcount_internal[f] + Size(r, f) - Size(queue[c], f)
  <2>1. Size(queue[c], f) \in Int /\ refcount_internal[f] \in Int
    BY QueueAtWork
  <2>2. One(CallHolds(op, f)) \in Int
    BY DEF One
  <2> QED BY <1>5, <2>1, <2>2
<1> QED BY <1>2, <1>5, <1>7, BalancedBy

LEMMA ApplicationQueueRefs ==
  ASSUME Shape, RInv, NEW c \in Queues, ExecuteCommandLists(c) \/ ReleaseQueue(c)
  PROVE  Balanced(c)
<1>1. UNCHANGED <<refcount_internal, released>>
  BY DEF ExecuteCommandLists, ReleaseQueue, refs
<1>2. DOMAIN refcount_internal = Fences /\ \A f \in Fences : refcount_internal[f] \in Int
  BY QueueAtWork
<1>3. CASE ExecuteCommandLists(c)
  <2> DEFINE op == [type |-> "execute"]
  <2>1. op.type # "stop" /\ \A f : One(CallHolds(op, f)) = 0
    BY DEF CallHolds, One
  <2>2. Enqueue(c, op)
    BY <1>3 DEF ExecuteCommandLists
  <2> HIDE DEF op
  <2> QED BY <1>1, <1>2, <2>1, <2>2, EnqueueRefs
<1>4. CASE ReleaseQueue(c)
  <2> DEFINE op == [type |-> "stop"]
  <2>1. op.type = "stop" /\ \A f : One(CallHolds(op, f)) = 0
    BY DEF CallHolds, One
  <2>2. PICK r : r = [queue[c] EXCEPT !.open = FALSE, !.submissions = Append(@, op)]
    OBVIOUS
  <2>3. queue' = [queue EXCEPT ![c] = r] /\ queue[c].open
    BY <1>4, <2>2 DEF ReleaseQueue
  <2> HIDE DEF op
  <2>4. QueueShape(queue[c]) /\ QueueOk(queue[c])
    BY QueueAtWork
  <2>5. /\ r.submissions = Append(queue[c].submissions, op) /\ r.pc = queue[c].pc /\ ~r.open
        /\ r.wait_fences = queue[c].wait_fences /\ r.fence_worker = queue[c].fence_worker
    BY <2>2, <2>4 DEF QueueShape, QueueFields
  <2>6. QueueOk(r) /\ \A f : Size(r, f) = Size(queue[c], f) + One(CallHolds(op, f))
    <3>1. op.type = "stop" => ~r.open
      BY <2>5
    <3>2. queue[c].open
      BY <2>3
    <3>3. QueueShape(queue[c]) /\ QueueOk(queue[c])
      BY <2>4
    <3>4. /\ r.submissions = Append(queue[c].submissions, op) /\ r.pc = queue[c].pc
          /\ r.wait_fences = queue[c].wait_fences /\ r.fence_worker = queue[c].fence_worker
      BY <2>5
    <3> QED BY ONLY <3>1, <3>2, <3>3, <3>4, CallAddedRefs
  <2>7. ASSUME NEW f \in Fences
        PROVE  refcount_internal'[f] = refcount_internal[f] + Size(r, f) - Size(queue[c], f)
    <3>1. Size(queue[c], f) \in Int /\ refcount_internal[f] \in Int
      BY QueueAtWork
    <3>2. Size(r, f) = Size(queue[c], f) + 0
      BY <2>1, <2>6
    <3> QED BY <1>1, <3>1, <3>2
  <2> QED BY <1>1, <1>2, <2>3, <2>6, <2>7, BalancedBy
<1> QED BY <1>3, <1>4

LEMMA ApplicationCallRefs ==
  ASSUME Shape, RInv, NEW k \in program.waits_and_signals, QueueWait(k) \/ QueueSignal(k)
  PROVE  k.queue \in Queues /\ Balanced(k.queue)
<1>1. k.fence \in Fences /\ k.queue \in Queues
  BY ProgramsAssumption DEF Shape, ProgramType
<1>2. PICK op : /\ op.type \in {"wait", "signal"} /\ op.fence = k.fence
                /\ Enqueue(k.queue, op)
  <2>1. CASE QueueWait(k)
    <3> DEFINE op == [type |-> "wait", fence |-> k.fence, value |-> k.value,
                      ticket |-> fence'[k.fence].wait_ticket_counter]
    <3>1. op.type = "wait" /\ op.fence = k.fence
      OBVIOUS
    <3>2. Enqueue(k.queue, op)
      BY <2>1 DEF QueueWait
    <3> QED BY <3>1, <3>2
  <2>2. CASE QueueSignal(k)
    <3> DEFINE op == [type |-> "signal", fence |-> k.fence, value |-> k.value]
    <3>1. op.type = "signal" /\ op.fence = k.fence
      OBVIOUS
    <3>2. Enqueue(k.queue, op)
      BY <2>2 DEF QueueSignal
    <3> QED BY <3>1, <3>2
  <2> QED BY <2>1, <2>2
<1>3. /\ refcount_internal' = [refcount_internal EXCEPT ![k.fence] = @ + 1]
      /\ released' = released
  BY DEF QueueWait, QueueSignal
<1>4. /\ DOMAIN refcount_internal' = Fences
      /\ \A f \in Fences :
           refcount_internal'[f] = refcount_internal[f] + One(CallHolds(op, f))
  <2>1. /\ DOMAIN refcount_internal = Fences
        /\ \A f \in Fences : refcount_internal[f] \in Int
    BY <1>1, QueueAtWork
  <2> QED BY <1>1, <1>2, <1>3, <2>1 DEF CallHolds, One
<1>5. op.type # "stop"
  BY <1>2
<1> QED BY <1>1, <1>2, <1>3, <1>4, <1>5, EnqueueRefs

\* Fields without a bearing on references.
LEMMA SameQueueRefs ==
  ASSUME NEW q, NEW r, QueueOk(q), r.pc = q.pc, r.open = q.open, r.submissions = q.submissions,
         r.wait_fences = q.wait_fences, r.fence_worker = q.fence_worker
  PROVE  QueueOk(r) /\ \A f : Size(r, f) = Size(q, f)
BY DEF QueueOk, Size, CallsOn, WaitsOn, ItemsOn

LEMMA CallDoneRefs ==
  ASSUME Shape, RInv, NEW c \in Queues, WaitSatisfied(c) \/ CpuWaitReturns(c)
  PROVE  Balanced(c)
<1> DEFINE q == queue[c]
           p == NextSubmission(q)
           g == Current(c).fence
<1>1. QueueShape(q) /\ QueueOk(q)
  BY QueueAtWork
<1>2. Working(c, "wait") /\ q.submissions # <<>>
  BY <1>1 DEF WaitSatisfied, CpuWaitReturns, Working, QueueOk, QueueShape
<1>3. /\ QueueShape(p) /\ QueueOk(p)
      /\ \A f : Size(p, f) = Size(q, f) - One(CallHolds(Head(q.submissions), f))
  BY <1>1, <1>2, NextSubmissionRefs
<1>4. PICK r : r \in {p, [p EXCEPT !.cpu_wait = 0]} /\ queue' = [queue EXCEPT ![c] = r]
  BY DEF WaitSatisfied, CpuWaitReturns
<1> HIDE DEF p
<1>5. QueueOk(r) /\ \A f : Size(r, f) = Size(p, f)
  <2>1. /\ r.pc = p.pc /\ r.open = p.open /\ r.submissions = p.submissions
        /\ r.wait_fences = p.wait_fences /\ r.fence_worker = p.fence_worker
    BY <1>3, <1>4 DEF QueueShape, QueueFields
  <2> QED BY ONLY <1>3, <2>1, SameQueueRefs
<1>6. DecRef(g) /\ released' = released
  BY DEF WaitSatisfied, CpuWaitReturns
<1>7. /\ DOMAIN refcount_internal' = Fences
      /\ \A f \in Fences : refcount_internal'[f] = refcount_internal[f] - One(g = f)
  BY <1>6, OneReferenceLess
<1>8. ASSUME NEW f \in Fences
      PROVE  refcount_internal'[f] = refcount_internal[f] + Size(r, f) - Size(q, f)
  <2>1. Size(q, f) \in Int /\ refcount_internal[f] \in Int
    BY QueueAtWork
  <2>2. One(CallHolds(Head(q.submissions), f)) = One(g = f)
    BY <1>2, CurrentHolds
  <2>3. One(g = f) \in Int
    BY DEF One
  <2>4. Size(r, f) = Size(q, f) - One(g = f)
    BY <1>3, <1>5, <2>2
  <2> HIDE DEF q, g
  <2> QED BY <1>7, <2>1, <2>3, <2>4
<1> QED BY <1>4, <1>5, <1>6, <1>7, <1>8, BalancedBy

\* A wait that is resolved passes the call's reference on.
LEMMA ResolutionRefs ==
  ASSUME Shape, RInv, NEW c \in Queues, WaitOnSameVkQueue(c) \/ WaitIsDeferred(c)
  PROVE  Balanced(c)
<1> DEFINE q == queue[c]
           p == NextSubmission(q)
           g == Current(c).fence
<1>1. QueueShape(q) /\ QueueOk(q)
  BY QueueAtWork
<1>2. Working(c, "wait") /\ q.submissions # <<>>
  BY <1>1 DEF WaitOnSameVkQueue, WaitIsDeferred, Unresolved, Working
<1>3. /\ QueueShape(p) /\ QueueOk(p) /\ p.pc = "ready"
      /\ \A f : Size(p, f) = Size(q, f) - One(CallHolds(Head(q.submissions), f))
  BY <1>1, <1>2, NextSubmissionRefs
<1>4. \E u : queue' = [queue EXCEPT ![c] = AddOrder(p, g, u.update_count)]
             \/ queue' = [queue EXCEPT ![c] = AddWait(p, g, u)]
  BY DEF WaitOnSameVkQueue, WaitIsDeferred
<1> HIDE DEF p, g
<1>5. PICK r : /\ queue' = [queue EXCEPT ![c] = r] /\ QueueOk(r)
               /\ \A f : Size(r, f) = Size(p, f) + One(g = f)
  <2>1. ASSUME NEW u
        PROVE  LET r == AddOrder(p, g, u.update_count)
               IN  QueueOk(r) /\ \A f : Size(r, f) = Size(p, f) + One(g = f)
    <3> DEFINE item == OrderItem(g, u.update_count)
    <3>1. \A f : ItemHolds(item, f) <=> g = f
      BY DEF ItemHolds, OrderItem
    <3>2. p.pc # "freed"
      BY <1>3
    <3> HIDE DEF item
    <3>3. QueueOk(AddItem(p, item)) /\ \A f : Size(AddItem(p, item), f) = Size(p, f) + One(ItemHolds(item, f))
      BY <1>3, <3>2, AddItemRefs
    <3> QED BY <3>1, <3>3 DEF AddOrder, item, One
  <2>2. ASSUME NEW u
        PROVE  LET r == AddWait(p, g, u)
               IN  QueueOk(r) /\ \A f : Size(r, f) = Size(p, f) + One(g = f)
    BY <1>3, AddWaitRefs
  <2> QED BY <1>4, <2>1, <2>2
<1>6. UNCHANGED <<refcount_internal, released>>
  BY DEF WaitOnSameVkQueue, WaitIsDeferred, Resolves
<1>7. DOMAIN refcount_internal' = Fences
  BY <1>6, QueueAtWork
<1>8. ASSUME NEW f \in Fences
      PROVE  refcount_internal'[f] = refcount_internal[f] + Size(r, f) - Size(q, f)
  <2>1. Size(q, f) \in Int /\ refcount_internal[f] \in Int
    BY QueueAtWork
  <2>2. One(CallHolds(Head(q.submissions), f)) = One(g = f)
    BY <1>2, CurrentHolds DEF g
  <2>3. One(g = f) \in Int
    BY DEF One
  <2>4. Size(r, f) = Size(q, f) - One(g = f) + One(g = f)
    BY <1>3, <1>5, <2>2
  <2> HIDE DEF q
  <2> QED BY <1>6, <2>1, <2>3, <2>4
<1> QED BY <1>5, <1>6, <1>7, <1>8, BalancedBy

\* The call keeps its reference while its thread waits; the order has its own.
LEMMA WaitOnCpuRefs ==
  ASSUME Shape, RInv, NEW c \in Queues, WaitOnCpu(c)
  PROVE  Balanced(c)
<1> DEFINE q == queue[c]
           g == Current(c).fence
<1>1. QueueShape(q) /\ QueueOk(q)
  BY QueueAtWork
<1>2. /\ Working(c, "wait") /\ q.submissions # <<>> /\ q.pc = "ready" /\ g \in Fences
  <2>1. Working(c, "wait") /\ q.pc = "ready"
    BY DEF WaitOnCpu, Unresolved
  <2> QED BY <2>1, CurrentCall
<1>3. PICK u : queue' = [queue EXCEPT
                 ![c] = [AddOrder(q, g, u.update_count) EXCEPT
                           !.pc = "cpu_wait",
                           !.cpu_wait = [semaphore |-> u.vk_semaphore,
                                         value |-> u.vk_semaphore_value]]]
  BY DEF WaitOnCpu
<1> DEFINE item == OrderItem(g, u.update_count)
           p == AddItem(q, item)
<1>4. /\ QueueShape(p) /\ QueueOk(p) /\ p.pc = "ready" /\ p.submissions = q.submissions
      /\ p.open = q.open /\ \A f : Size(p, f) = Size(q, f) + One(g = f)
  <2>1. \A f : ItemHolds(item, f) <=> g = f
    BY DEF ItemHolds, OrderItem
  <2>2. q.pc # "freed"
    BY <1>2
  <2>3. p.submissions = q.submissions /\ p.open = q.open
    BY <1>1 DEF AddItem, QueueShape, QueueFields
  <2> HIDE DEF item
  <2>4. /\ QueueShape(p) /\ QueueOk(p) /\ p.pc = q.pc
        /\ \A f : Size(p, f) = Size(q, f) + One(ItemHolds(item, f))
    BY <1>1, <2>2, AddItemRefs
  <2> HIDE DEF p, q, g
  <2> QED BY <1>2, <2>1, <2>3, <2>4 DEF One
<1>5. PICK r : r = [p EXCEPT !.pc = "cpu_wait",
                             !.cpu_wait = [semaphore |-> u.vk_semaphore,
                                           value |-> u.vk_semaphore_value]]
  OBVIOUS
<1>6. queue' = [queue EXCEPT ![c] = r]
  BY <1>3, <1>5 DEF AddOrder
<1> HIDE DEF p, item
<1>7. /\ r.pc = "cpu_wait" /\ r.open = p.open /\ r.submissions = p.submissions
      /\ r.wait_fences = p.wait_fences /\ r.fence_worker = p.fence_worker
  BY <1>4, <1>5 DEF QueueShape, QueueFields
<1>8. QueueOk(r)
  <2>1. Head(r.submissions).type = "wait"
    BY <1>2, <1>4, <1>7 DEF Working
  <2> QED BY <1>4, <1>7, <2>1 DEF QueueOk
<1>9. \A f : Size(r, f) = Size(p, f)
  BY <1>4, <1>7, SameListsSize
<1>10. /\ refcount_internal' = [refcount_internal EXCEPT ![g] = @ + 1]
       /\ released' = released
  BY DEF WaitOnCpu, Resolves
<1>11. /\ DOMAIN refcount_internal = Fences
       /\ \A f \in Fences : refcount_internal[f] \in Int
  BY QueueAtWork
<1> HIDE DEF g
<1>12. DOMAIN refcount_internal' = Fences
  BY <1>10, <1>11
<1>13. ASSUME NEW f \in Fences
       PROVE  refcount_internal'[f] = refcount_internal[f] + Size(r, f) - Size(q, f)
  <2>1. Size(q, f) \in Int
    BY QueueAtWork
  <2>2. refcount_internal'[f] = refcount_internal[f] + One(g = f) /\ One(g = f) \in Int
    BY <1>2, <1>10, <1>11 DEF One
  <2>3. Size(r, f) = Size(q, f) + One(g = f)
    BY <1>4, <1>9
  <2> HIDE DEF q
  <2> QED BY <1>11, <2>1, <2>2, <2>3
<1> QED BY <1>6, <1>8, <1>10, <1>12, <1>13, BalancedBy

\* A failed submission gives back the references of the deferred waits.
LEMMA FailureRefs ==
  ASSUME Shape, RInv, NEW c \in Queues, SubmissionFails(c)
  PROVE  /\ released' = released /\ DOMAIN refcount_internal' = Fences
         /\ \A f \in Fences :
              refcount_internal'[f] = refcount_internal[f] - WaitReferences(queue[c], f)
BY DEF SubmissionFails

\* A queue that has got rid of its waits is flushed.
LEMMA FlushedRefs ==
  ASSUME NEW p, QueueOk(p), p.pc = "ready", p.submissions # <<>>,
         Head(p.submissions).type \in {"signal", "stop"}, p.wait_fences = <<>>,
         NEW r, r.pc = "flushed", r.open = p.open, r.submissions = p.submissions,
         r.wait_fences = p.wait_fences, r.fence_worker = p.fence_worker
  PROVE  QueueOk(r) /\ \A f : Size(r, f) = Size(p, f)
<1>1. \A f : Size(r, f) = Size(p, f)
  BY SameListsSize
<1>2. QueueOk(r)
  BY DEF QueueOk
<1> QED BY <1>1, <1>2

\* The waits are handed to the fence worker, or dropped, before a signal or the end.
LEMMA FlushRefs ==
  ASSUME Shape, RInv, NEW c \in Queues, FlushWaiters(c) \/ FlushFails(c)
  PROVE  Balanced(c)
<1> DEFINE q == queue[c]
<1>1. QueueShape(q) /\ QueueOk(q)
  BY QueueAtWork
<1>2. /\ q.submissions # <<>> /\ Head(q.submissions).type \in {"signal", "stop"}
      /\ q.pc = "ready"
  BY DEF FlushWaiters, FlushFails, FlushIsDue, Working
<1>3. DOMAIN refcount_internal = Fences
  BY QueueAtWork
<1>4. CASE FlushWaiters(c)
  <2> DEFINE p == FinalizeWaits(q)
             last == NextTimelineValue(c)
  <2>1. /\ QueueShape(p) /\ QueueOk(p) /\ p.pc = q.pc /\ p.submissions = q.submissions
        /\ p.wait_fences = <<>> /\ p.open = q.open
        /\ \A f : Size(p, f) = Size(q, f)
    <3>1. q.pc # "freed"
      BY <1>2
    <3> QED BY <1>1, <3>1, FinalizeWaitsRefs
  <2>2. PICK r : /\ queue' = [queue EXCEPT ![c] = r]
                 /\ \/ r = [p EXCEPT !.pc = "flushed"]
                    \/ r = [p EXCEPT !.pc = "flushed", !.last_submission = last]
    BY <1>4 DEF FlushWaiters
  <2>3. UNCHANGED <<refcount_internal, released>>
    BY <1>4 DEF FlushWaiters, refs
  <2> HIDE DEF p, last
  <2>4. QueueOk(r) /\ \A f : Size(r, f) = Size(p, f)
    <3>1. /\ p.pc = "ready" /\ p.submissions # <<>>
          /\ Head(p.submissions).type \in {"signal", "stop"}
      BY <1>2, <2>1
    <3>2. /\ r.pc = "flushed" /\ r.open = p.open /\ r.submissions = p.submissions
          /\ r.wait_fences = p.wait_fences /\ r.fence_worker = p.fence_worker
      BY <2>1, <2>2 DEF QueueShape, QueueFields
    <3> QED BY ONLY <2>1, <3>1, <3>2, FlushedRefs
  <2>5. ASSUME NEW f \in Fences
        PROVE  refcount_internal'[f] = refcount_internal[f] + Size(r, f) - Size(q, f)
    <3>1. Size(q, f) \in Int /\ refcount_internal[f] \in Int
      BY QueueAtWork
    <3>2. Size(r, f) = Size(q, f)
      BY <2>1, <2>4
    <3> QED BY <2>3, <3>1, <3>2
  <2> QED BY <1>3, <2>2, <2>3, <2>4, <2>5, BalancedBy
<1>5. CASE FlushFails(c)
  <2> DEFINE p == DropWaits(q)
             last == NextTimelineValue(c)
  <2>1. /\ QueueShape(p) /\ QueueOk(p) /\ p.pc = q.pc /\ p.submissions = q.submissions
        /\ p.wait_fences = <<>> /\ p.open = q.open
        /\ \A f : Size(p, f) = Size(q, f) - WaitReferences(q, f)
    <3>1. q.pc # "freed"
      BY <1>2
    <3> QED BY <1>1, <3>1, DropWaitsRefs
  <2>2. PICK r : /\ queue' = [queue EXCEPT ![c] = r]
                 /\ r = [p EXCEPT !.pc = "flushed", !.last_submission = last]
    BY <1>5 DEF FlushFails
  <2>3. /\ released' = released /\ DOMAIN refcount_internal' = Fences
        /\ \A f \in Fences :
             refcount_internal'[f] = refcount_internal[f] - WaitReferences(q, f)
    BY <1>5, FailureRefs DEF FlushFails
  <2> HIDE DEF p, last
  <2>4. QueueOk(r) /\ \A f : Size(r, f) = Size(p, f)
    <3>1. /\ p.pc = "ready" /\ p.submissions # <<>>
          /\ Head(p.submissions).type \in {"signal", "stop"}
      BY <1>2, <2>1
    <3>2. /\ r.pc = "flushed" /\ r.open = p.open /\ r.submissions = p.submissions
          /\ r.wait_fences = p.wait_fences /\ r.fence_worker = p.fence_worker
      BY <2>1, <2>2 DEF QueueShape, QueueFields
    <3> QED BY ONLY <2>1, <3>1, <3>2, FlushedRefs
  <2>5. ASSUME NEW f \in Fences
        PROVE  refcount_internal'[f] = refcount_internal[f] + Size(r, f) - Size(q, f)
    <3>1. Size(q, f) \in Int /\ refcount_internal[f] \in Int
      BY QueueAtWork
    <3>2. WaitReferences(q, f) \in Int
      BY <1>1, CountsAreNumbers DEF WaitReferences
    <3>3. Size(r, f) = Size(q, f) - WaitReferences(q, f)
      BY <2>1, <2>4
    <3> QED BY <2>3, <3>1, <3>2, <3>3
  <2> QED BY <2>2, <2>3, <2>4, <2>5, BalancedBy
<1> QED BY <1>4, <1>5

\* The reference of the SIGNAL moves on to the fence worker.
LEMMA SignalsRefs ==
  ASSUME Shape, RInv, NEW c \in Queues, Signals(c)
  PROVE  Balanced(c)
<1> DEFINE q == queue[c]
           p == NextSubmission(q)
           g == Current(c).fence
           n == AddPendingSignal(fence[g], Current(c).value, VkQueueOf[c], q.last_submission).update_count
           item == SignalItem(g, n, q.last_submission)
           r == AddItem(p, item)
<1>1. QueueShape(q) /\ QueueOk(q)
  BY QueueAtWork
<1>2. Working(c, "signal") /\ q.submissions # <<>>
  BY DEF Signals, Working
<1>3. /\ QueueShape(p) /\ QueueOk(p) /\ p.pc = "ready"
      /\ \A f : Size(p, f) = Size(q, f) - One(CallHolds(Head(q.submissions), f))
  BY <1>1, <1>2, NextSubmissionRefs
<1>4. queue' = [queue EXCEPT ![c] = r] /\ UNCHANGED <<refcount_internal, released>>
  BY DEF Signals, refs
<1>5. \A f : ItemHolds(item, f) <=> g = f
  BY DEF ItemHolds, SignalItem
<1> HIDE DEF item, p, n, g
<1>6. QueueOk(r) /\ \A f : Size(r, f) = Size(p, f) + One(ItemHolds(item, f))
  <2>1. p.pc # "freed"
    BY <1>3
  <2> QED BY <1>3, <2>1, AddItemRefs
<1>7. DOMAIN refcount_internal' = Fences
  BY <1>4, QueueAtWork
<1> HIDE DEF r
<1>8. ASSUME NEW f \in Fences
      PROVE  refcount_internal'[f] = refcount_internal[f] + Size(r, f) - Size(q, f)
  <2>1. Size(q, f) \in Int /\ refcount_internal[f] \in Int
    BY QueueAtWork
  <2>2. One(CallHolds(Head(q.submissions), f)) = One(g = f)
    BY <1>2, CurrentHolds DEF g
  <2>3. One(ItemHolds(item, f)) = One(g = f) /\ One(g = f) \in Int
    BY <1>5 DEF One
  <2>4. Size(r, f) = Size(q, f) - One(g = f) + One(g = f)
    BY <1>3, <1>6, <2>2, <2>3
  <2> HIDE DEF q
  <2> QED BY <1>4, <2>1, <2>3, <2>4
<1> QED BY <1>4, <1>6, <1>7, <1>8, BalancedBy

LEMMA ExecuteRefs ==
  ASSUME Shape, RInv, NEW c \in Queues, Execute(c) \/ ExecuteFails(c)
  PROVE  Balanced(c)
<1> DEFINE q == queue[c]
<1>1. QueueShape(q) /\ QueueOk(q)
  BY QueueAtWork
<1>2. Working(c, "execute") /\ q.submissions # <<>> /\ q.pc # "freed"
  <2>1. Working(c, "execute") /\ q.submissions # <<>>
    BY DEF Execute, ExecuteFails, Working
  <2> QED BY <2>1, QueueAtWork
<1>3. \A f : One(CallHolds(Head(q.submissions), f)) = 0
  BY <1>2, CurrentHolds
<1>4. CASE Execute(c)
  <2> DEFINE w == FinalizeWaits(q)
             p == NextSubmission(w)
             item == ReleaseItem(<<c, Len(before[c]) + 1>>, NextTimelineValue(c))
             a == AddItem(p, item)
  <2>1. /\ QueueShape(w) /\ QueueOk(w) /\ w.submissions = q.submissions
        /\ \A f : Size(w, f) = Size(q, f)
    BY <1>1, <1>2, FinalizeWaitsRefs
  <2>2. PICK r : /\ queue' = [queue EXCEPT ![c] = r]
                 /\ r = [a EXCEPT !.last_submission = NextTimelineValue(c)]
    BY <1>4 DEF Execute
  <2>3. UNCHANGED <<refcount_internal, released>>
    BY <1>4 DEF Execute, refs
  <2>4. \A f : One(ItemHolds(item, f)) = 0
    BY DEF ItemHolds, ReleaseItem, One
  <2> HIDE DEF w, item
  <2>5. /\ QueueShape(p) /\ QueueOk(p) /\ p.pc = "ready"
        /\ \A f : Size(p, f) = Size(w, f) - One(CallHolds(Head(w.submissions), f))
    <3>1. w.submissions # <<>>
      BY <1>2, <2>1
    <3> QED BY <2>1, <3>1, NextSubmissionRefs
  <2> HIDE DEF p
  <2>6. /\ QueueShape(a) /\ QueueOk(a) /\ \A f : Size(a, f) = Size(p, f) + One(ItemHolds(item, f))
    <3>1. p.pc # "freed"
      BY <2>5
    <3> QED BY <2>5, <3>1, AddItemRefs
  <2> HIDE DEF a
  <2>7. QueueOk(r) /\ \A f : Size(r, f) = Size(a, f)
    <3>1. /\ r.pc = a.pc /\ r.open = a.open /\ r.submissions = a.submissions
          /\ r.wait_fences = a.wait_fences /\ r.fence_worker = a.fence_worker
      BY <2>2, <2>6 DEF QueueShape, QueueFields
    <3> QED BY ONLY <2>6, <3>1, SameQueueRefs
  <2>8. ASSUME NEW f \in Fences
        PROVE  refcount_internal'[f] = refcount_internal[f] + Size(r, f) - Size(q, f)
    <3>1. Size(q, f) \in Int /\ refcount_internal[f] \in Int
      BY QueueAtWork
    <3>2. Size(p, f) = Size(q, f) - 0
      BY <1>3, <2>1, <2>5
    <3>3. Size(r, f) = Size(p, f) + 0
      BY <2>4, <2>6, <2>7
    <3> QED BY <2>3, <3>1, <3>2, <3>3
  <2>9. DOMAIN refcount_internal' = Fences
    BY <2>3, QueueAtWork
  <2> QED BY <2>2, <2>3, <2>7, <2>8, <2>9, BalancedBy
<1>5. CASE ExecuteFails(c)
  <2> DEFINE w == DropWaits(q)
             r == NextSubmission(w)
  <2>1. /\ QueueShape(w) /\ QueueOk(w) /\ w.submissions = q.submissions
        /\ \A f : Size(w, f) = Size(q, f) - WaitReferences(q, f)
    BY <1>1, <1>2, DropWaitsRefs
  <2>2. queue' = [queue EXCEPT ![c] = r]
    BY <1>5 DEF ExecuteFails
  <2>3. /\ released' = released /\ DOMAIN refcount_internal' = Fences
        /\ \A f \in Fences :
             refcount_internal'[f] = refcount_internal[f] - WaitReferences(q, f)
    BY <1>5, FailureRefs DEF ExecuteFails
  <2> HIDE DEF w
  <2>4. QueueOk(r) /\ \A f : Size(r, f) = Size(w, f) - One(CallHolds(Head(w.submissions), f))
    <3>1. w.submissions # <<>>
      BY <1>2, <2>1
    <3> QED BY <2>1, <3>1, NextSubmissionRefs
  <2> HIDE DEF r
  <2>5. ASSUME NEW f \in Fences
        PROVE  refcount_internal'[f] = refcount_internal[f] + Size(r, f) - Size(q, f)
    <3>1. Size(q, f) \in Int /\ refcount_internal[f] \in Int
      BY QueueAtWork
    <3>2. WaitReferences(q, f) \in Int
      BY <1>1, CountsAreNumbers DEF WaitReferences
    <3>3. Size(r, f) = Size(q, f) - WaitReferences(q, f) - 0
      BY <1>3, <2>1, <2>4
    <3> QED BY <2>3, <3>1, <3>2, <3>3
  <2> QED BY <2>2, <2>3, <2>4, <2>5, BalancedBy
<1> QED BY <1>4, <1>5

\* STOP is the last call of its queue, so nothing is left when the threads end.
LEMMA EndsRefs ==
  ASSUME Shape, RInv, NEW c \in Queues, Stops(c) \/ FreesQueue(c)
  PROVE  Balanced(c)
<1> DEFINE q == queue[c]
<1>1. QueueShape(q) /\ QueueOk(q)
  BY QueueAtWork
<1>2. UNCHANGED <<refcount_internal, released>> /\ DOMAIN refcount_internal' = Fences
  BY QueueAtWork DEF Stops, FreesQueue, refs
<1>3. CASE Stops(c)
  <2> DEFINE s == q.submissions
  <2>1. s # <<>> /\ Head(s).type = "stop" /\ q.pc = "flushed"
    BY <1>3 DEF Stops, Working
  <2>2. /\ IsSeq(s) /\ Len(s) \in Nat \ {0} /\ DOMAIN s = 1..Len(s) /\ Head(s) = s[1]
        /\ IsSeq(Tail(s)) /\ DOMAIN Tail(s) = 1..(Len(s) - 1)
    BY <1>1, <2>1, TailElements DEF QueueShape
  <2>3. ~q.open /\ Len(s) = 1
    <3>1. 1 \in DOMAIN s /\ s[1].type = "stop"
      BY <2>1, <2>2
    <3>2. ~q.open /\ 1 = Len(s)
      BY <1>1, <3>1 DEF QueueOk
    <3> QED BY <3>2
  <2>4. PICK r : r = [q EXCEPT !.submissions = <<>>, !.pc = "ended"]
    OBVIOUS
  <2>5. queue' = [queue EXCEPT ![c] = r]
    BY <1>3, <2>4 DEF Stops
  <2>6. /\ r.pc = "ended" /\ r.open = q.open /\ r.submissions = <<>>
        /\ r.wait_fences = q.wait_fences /\ r.fence_worker = q.fence_worker
    BY <1>1, <2>4 DEF QueueShape, QueueFields
  <2>7. QueueOk(r)
    <3>1. q.wait_fences = <<>>
      BY <1>1, <2>1 DEF QueueOk
    <3> QED BY <2>3, <2>6, <3>1 DEF QueueOk
  <2>8. ASSUME NEW f \in Fences
        PROVE  refcount_internal'[f] = refcount_internal[f] + Size(r, f) - Size(q, f)
    <3>1. Size(q, f) \in Int /\ refcount_internal[f] \in Int
      BY QueueAtWork
    <3>2. CallsOn(q, f) = {}
      BY <2>1, <2>2, <2>3 DEF CallsOn
    <3>3. CallsOn(r, f) = {} /\ WaitsOn(r, f) = WaitsOn(q, f) /\ ItemsOn(r, f) = ItemsOn(q, f)
      BY <2>6 DEF CallsOn, WaitsOn, ItemsOn
    <3>4. Size(r, f) = Size(q, f)
      BY <2>1, <2>6, <3>2, <3>3 DEF Size
    <3> QED BY <1>2, <3>1, <3>4
  <2> QED BY <1>2, <2>5, <2>7, <2>8, BalancedBy
<1>4. CASE FreesQueue(c)
  <2>1. PICK r : r = [q EXCEPT !.pc = "freed"]
    OBVIOUS
  <2>2. queue' = [queue EXCEPT ![c] = r] /\ q.pc = "ended" /\ q.fence_worker = <<>>
    BY <1>4, <2>1 DEF FreesQueue
  <2>3. /\ r.pc = "freed" /\ r.open = q.open /\ r.submissions = q.submissions
        /\ r.wait_fences = q.wait_fences /\ r.fence_worker = q.fence_worker
    BY <1>1, <2>1 DEF QueueShape, QueueFields
  <2>4. QueueOk(r)
    BY <1>1, <2>2, <2>3 DEF QueueOk
  <2>5. ASSUME NEW f \in Fences
        PROVE  refcount_internal'[f] = refcount_internal[f] + Size(r, f) - Size(q, f)
    <3>1. refcount_internal[f] \in Int
      BY QueueAtWork
    <3>2. q.submissions = <<>> /\ q.wait_fences = <<>>
      BY <1>1, <2>2 DEF QueueOk
    <3>3. /\ Cardinality(CallsOn(q, f)) = 0 /\ Cardinality(WaitsOn(q, f)) = 0
          /\ Cardinality(ItemsOn(q, f)) = 0
      BY <2>2, <3>2, NoCalls, NoWaits, NoItems
    <3>4. Size(q, f) = 0 /\ Size(r, f) = 0
      BY <2>2, <2>3, <3>3 DEF Size
    <3> QED BY <1>2, <3>1, <3>4
  <2> QED BY <1>2, <2>2, <2>4, <2>5, BalancedBy
<1> QED BY <1>3, <1>4

\* The fence worker gives back the reference of each order and signal.
LEMMA FenceWorkerRefs ==
  ASSUME Shape, RInv, NEW c \in Queues, FenceWorker(c)
  PROVE  Balanced(c)
<1> DEFINE q == queue[c]
           item == Head(q.fence_worker)
<1>1. QueueShape(q) /\ QueueOk(q)
  BY QueueAtWork
<1>2. PICK kind \in {"order", "signal", "release"} :
        /\ NextItem(c, kind)
        /\ IF kind = "release" THEN UNCHANGED refcount_internal ELSE DecRef(item.fence)
  BY DEF FenceWorker, EnsuresOrder, SignalsFence, DropsSignal, ReleasesSubmission
<1>3. q.fence_worker # <<>> /\ item.kind = kind /\ q.pc # "freed" /\ released' = released
  BY <1>2 DEF NextItem
<1>4. PICK r : r = [q EXCEPT !.fence_worker = Tail(@)]
  OBVIOUS
<1>5. queue' = [queue EXCEPT ![c] = r]
  BY <1>2, <1>4 DEF NextItem
<1>6. /\ r.pc = q.pc /\ r.open = q.open /\ r.submissions = q.submissions
      /\ r.wait_fences = q.wait_fences /\ r.fence_worker = Tail(q.fence_worker)
  BY <1>1, <1>4 DEF QueueShape, QueueFields
<1>7. QueueOk(r)
  BY <1>1, <1>3, <1>6 DEF QueueOk
<1>8. /\ DOMAIN refcount_internal' = Fences
      /\ \A f \in Fences :
           refcount_internal'[f] = refcount_internal[f] - One(ItemHolds(item, f))
  <2>1. CASE kind = "release"
    <3>1. \A f : One(ItemHolds(item, f)) = 0
      BY <1>3, <2>1 DEF ItemHolds, One
    <3>2. DOMAIN refcount_internal = Fences /\ \A f \in Fences : refcount_internal[f] \in Int
      BY QueueAtWork
    <3> QED BY <1>2, <2>1, <3>1, <3>2
  <2>2. CASE kind # "release"
    <3>1. \A f : One(ItemHolds(item, f)) = One(item.fence = f)
      BY <1>3, <2>2 DEF ItemHolds, One
    <3>2. DecRef(item.fence)
      BY <1>2, <2>2
    <3>3. /\ DOMAIN refcount_internal' = Fences
          /\ \A f \in Fences :
               refcount_internal'[f] = refcount_internal[f] - One(item.fence = f)
      BY <3>2, OneReferenceLess
    <3> QED BY <3>1, <3>3
  <2> QED BY <2>1, <2>2
<1>9. ASSUME NEW f \in Fences
      PROVE  refcount_internal'[f] = refcount_internal[f] + Size(r, f) - Size(q, f)
  <2>1. Size(q, f) \in Int /\ refcount_internal[f] \in Int
    BY QueueAtWork
  <2>2. Size(r, f) = Size(q, f) - One(ItemHolds(item, f)) /\ One(ItemHolds(item, f)) \in Int
    <3>1. IsSeq(q.fence_worker)
      BY <1>1 DEF QueueShape
    <3>2. Cardinality(ItemsOn(r, f)) = Cardinality(ItemsOn(q, f)) - One(ItemHolds(item, f))
      BY <1>3, <1>6, <3>1, ItemTaken
    <3>3. WaitsOn(r, f) = WaitsOn(q, f) /\ CallsOn(r, f) = CallsOn(q, f)
      BY <1>6 DEF WaitsOn, CallsOn
    <3>4. One(ItemHolds(item, f)) \in Int
      BY DEF One
    <3> HIDE DEF item
    <3> QED BY <1>1, <1>3, <1>6, <3>2, <3>3, <3>4, CountsAreNumbers DEF Size
  <2> HIDE DEF item
  <2> QED BY <1>8, <2>1, <2>2
<1> QED BY <1>3, <1>5, <1>7, <1>8, <1>9, BalancedBy

-----------------------------------------------------------------------------
(* The theorem about references.                                           *)

\* The application's own reference; a queue is not involved.
LEMMA ReleaseRefs ==
  ASSUME Shape, RInv, NEW g \in Fences, Release(g)
  PROVE  RInv'
<1>1. /\ released' = released \cup {g} /\ g \notin released /\ UNCHANGED queue
      /\ refcount_internal' = [refcount_internal EXCEPT ![g] = @ - 1]
  BY DEF Release
<1>2. /\ DOMAIN refcount_internal = Fences /\ released \subseteq Fences
      /\ \A c \in Queues : QueueOk(queue[c])
  BY DEF RInv
<1>3. ASSUME NEW f \in Fences
      PROVE  refcount_internal'[f] =
               (IF f \in released' THEN 0 ELSE 1) + Cardinality(Holders(f))
  <2>1. refcount_internal[f] = (IF f \in released THEN 0 ELSE 1) + Cardinality(Holders(f))
    BY DEF RInv, RefcountMatchesHolders
  <2>2. Cardinality(Holders(f)) \in Nat
    BY HoldersAreNumbers
  <2>3. CASE f = g
    BY <1>1, <1>2, <2>1, <2>2, <2>3
  <2>4. CASE f # g
    BY <1>1, <1>2, <2>1, <2>4
  <2> QED BY <2>3, <2>4
<1>4. RefcountMatchesHolders'
  <2>1. \A f : Holders(f)' = Holders(f)
    BY <1>1 DEF Holders, HoldersInQueue, CallsOn, WaitsOn, ItemsOn
  <2> QED BY <1>3, <2>1 DEF RefcountMatchesHolders
<1> QED BY <1>1, <1>2, <1>4 DEF RInv

LEMMA InitRInv ==
  ASSUME Init PROVE RInv
<1>1. IInv
  BY InitIInv
<1>2. \A c \in Queues : queue[c] = NewQueue
  BY DEF Init
<1>3. \A c \in Queues : QueueOk(queue[c])
  BY <1>2 DEF NewQueue, QueueOk
<1>4. \A f : Holders(f) = {}
  BY <1>2 DEF NewQueue, Holders, HoldersInQueue, CallsOn, WaitsOn, ItemsOn
<1>5. RefcountMatchesHolders
  <2>1. \A f \in Fences : refcount_internal[f] = 1 /\ f \notin released
    BY DEF Init
  <2>2. \A f : Cardinality(Holders(f)) = 0
    BY <1>4, FS_EmptySet
  <2> QED BY <2>1, <2>2 DEF RefcountMatchesHolders
<1> QED BY <1>3, <1>5 DEF Init, RInv

LEMMA NextRInv ==
  ASSUME IInv, RInv, [Next]_vars PROVE RInv'
<1>1. Shape /\ Shape'
  BY NextIInv DEF IInv
<1>2. ASSUME NEW c \in Queues, SubmissionThread(c) \/ FenceWorker(c) \/ FreesQueue(c)
      PROVE  Balanced(c)
  <2>1. ASSUME SubmissionThread(c) PROVE Balanced(c)
    BY <1>1, <2>1, CallDoneRefs, ResolutionRefs, WaitOnCpuRefs, FlushRefs, SignalsRefs,
       ExecuteRefs, EndsRefs DEF SubmissionThread
  <2> QED BY <1>1, <1>2, <2>1, FenceWorkerRefs, EndsRefs
<1>3. ASSUME NEW c \in Queues, Balanced(c) PROVE RInv'
  BY <1>1, <1>3, BalancedStep
<1>4. ASSUME UNCHANGED <<queue, refcount_internal, released>> PROVE RInv'
  BY <1>4 DEF RInv, QueueOk, RefcountMatchesHolders, Holders, HoldersInQueue,
              CallsOn, WaitsOn, ItemsOn
<1>5. ASSUME NEW f \in Fences, CpuSignalFence(f) \/ Release(f) PROVE RInv'
  BY <1>1, <1>4, <1>5, ReleaseRefs DEF CpuSignalFence, refs
<1>6. ASSUME \/ \E v \in VkQueues : Gpu(v)
             \/ LoseDevice \/ UNCHANGED vars
      PROVE  RInv'
  BY <1>4, <1>6 DEF Gpu, LoseDevice, vars, refs
<1>7. ASSUME NEW c \in Queues, ExecuteCommandLists(c) \/ ReleaseQueue(c) PROVE RInv'
  BY <1>1, <1>3, <1>7, ApplicationQueueRefs
<1>8. ASSUME NEW k \in program.waits_and_signals, QueueWait(k) \/ QueueSignal(k) PROVE RInv'
  BY <1>1, <1>3, <1>8, ApplicationCallRefs
<1> QED BY <1>2, <1>3, <1>5, <1>6, <1>7, <1>8 DEF Next

LEMMA ReferencesInvariance == Spec => [](IInv /\ RInv)
BY InitIInv, NextIInv, InitRInv, NextRInv, PTL DEF Spec

\* The count of a fence is at all times the number of those that can still reach
\* it: the application, calls that no submission thread has carried out, deferred
\* waits, and the orders and signals that fence workers have yet to see to.  None
\* is lost or counted twice when a call hands its reference on, when a submission
\* fails or when a command queue is freed (d3d12_fence_inc_ref,
\* d3d12_fence_dec_ref, d3d12_command_queue_finalize_waits,
\* d3d12_command_queue_Release).
THEOREM RefcountsMatch == Spec => []RefcountMatchesHolders
<1>1. RInv => RefcountMatchesHolders
  BY DEF RInv
<1> QED BY <1>1, ReferencesInvariance, PTL

-----------------------------------------------------------------------------
(* The order of signals: signals become visible in the order in which they  *)
(* follow each other, provided that one command queue signals a fence, the  *)
(* work that they follow is finished and in order, and the structures keep  *)
(* their shape.                                                             *)


OneSignaller ==
  \A p \in Programs : \A k, l \in p.waits_and_signals :
    k.type = "signal" /\ l.type = "signal" /\ k.fence = l.fence => k.queue = l.queue

IsCalled(type, f, c) ==
  \E k \in program.waits_and_signals : k.type = type /\ k.fence = f /\ k.queue = c

SignalledBy(f, c) == IsCalled("signal", f, c)

Calls(c) == queue[c].submissions

IsOfProgram(op, c) ==
  op.type \in {"wait", "signal"} =>
    \E k \in program.waits_and_signals :
      k.type = op.type /\ k.fence = op.fence /\ k.value = op.value /\ k.queue = c

CallsAreOfProgram == \A c \in Queues : \A i \in DOMAIN Calls(c) : IsOfProgram(Calls(c)[i], c)

Seen(e) == e[1] \in Fences => e[2] <= fence[e[1]].signal_count

\* The worker cannot get past item without e having been seen.
Announces(item, e) ==
  \/ e = <<item.fence, item.update_count>>
  \/ e \in followed[item.fence][item.update_count]

AnnouncedBefore(c, j, e) ==
  \E i \in DOMAIN Worker(c) :
    i < j /\ Worker(c)[i].kind # "release" /\ Announces(Worker(c)[i], e)

Announced(c, e) ==
  \/ \E i \in DOMAIN Worker(c) : Worker(c)[i].kind # "release" /\ Announces(Worker(c)[i], e)
  \/ \E i \in DOMAIN Deferred(c) : Announces(Deferred(c)[i], e)

KnownIsAnnounced == \A c \in Queues : \A e \in known[c] : Seen(e) \/ Announced(c, e)

SignalsAreAnnounced ==
  \A c \in Queues : \A j \in DOMAIN Worker(c) :
    Worker(c)[j].kind = "signal" =>
      \A e \in followed[Worker(c)[j].fence][Worker(c)[j].update_count] :
        Seen(e) \/ AnnouncedBefore(c, j, e)

SignallersKnow ==
  \A f \in Fences :
    /\ \A m, n \in DOMAIN followed[f] : m <= n => followed[f][m] \subseteq followed[f][n]
    /\ \A c \in Queues : SignalledBy(f, c) =>
         \A m \in DOMAIN followed[f] : followed[f][m] \subseteq known[c]

SignalledIsSeen ==
  \A f \in Fences : \A n \in DOMAIN followed[f] :
    n <= fence[f].signal_count => \A e \in followed[f][n] : Seen(e)

SInv == KnownIsAnnounced /\ SignalsAreAnnounced /\ SignallersKnow /\ SignalledIsSeen

-----------------------------------------------------------------------------
(* The calls in the FIFO.                                                  *)

\* What a step may do to the calls of queue c.
CallsShrink(c) == \A i \in DOMAIN Calls(c)' : \E j \in DOMAIN Calls(c) : Calls(c)'[i] = Calls(c)[j]

LEMMA CallsOf ==
  ASSUME IInv, NEW c \in Queues
  PROVE  IsSeq(Calls(c)) /\ DOMAIN queue[c] = QueueFields
BY DEF IInv, Shape, QueueShape, Calls

LEMMA EnqueueCalls ==
  ASSUME IInv, CallsAreOfProgram, program' = program, NEW c \in Queues, NEW op, NEW q,
         queue' = [queue EXCEPT ![c] = q], q.submissions = Append(Calls(c), op),
         IsOfProgram(op, c)
  PROVE  CallsAreOfProgram'
<1>1. queue'[c] = q /\ \A d \in Queues \ {c} : queue'[d] = queue[d]
  BY OnlyQueue DEF IInv, OthersUnmoved
<1>2. \A i \in DOMAIN Append(Calls(c), op) :
        Append(Calls(c), op)[i] = op \/ \E j \in DOMAIN Calls(c) : Append(Calls(c), op)[i] = Calls(c)[j]
  BY CallsOf, AppendedElement
<1>3. \A x, d : IsOfProgram(x, d)' <=> IsOfProgram(x, d)
  BY DEF IsOfProgram
<1>4. Calls(c)' = Append(Calls(c), op) /\ \A d \in Queues \ {c} : Calls(d)' = Calls(d)
  BY <1>1 DEF Calls
<1>5. ASSUME NEW i \in DOMAIN Append(Calls(c), op) PROVE IsOfProgram(Append(Calls(c), op)[i], c)
  BY <1>2, <1>5 DEF CallsAreOfProgram
<1>6. ASSUME NEW d \in Queues, NEW i \in DOMAIN Calls(d)' PROVE IsOfProgram(Calls(d)'[i], d)
  <2>1. CASE d = c
    BY <1>4, <1>5, <1>6, <2>1
  <2>2. CASE d # c
    BY <1>4, <1>6, <2>2 DEF CallsAreOfProgram
  <2> QED BY <2>1, <2>2
<1> QED BY <1>3, <1>6 DEF CallsAreOfProgram

LEMMA ShrinkingCalls ==
  ASSUME CallsAreOfProgram, program' = program, \A d \in Queues : CallsShrink(d)
  PROVE  CallsAreOfProgram'
BY DEF CallsAreOfProgram, CallsShrink, IsOfProgram

LEMMA QueueCallsShrink ==
  ASSUME IInv, NEW c \in Queues, NEW q, queue' = [queue EXCEPT ![c] = q],
         \/ q.submissions = Calls(c) \/ q.submissions = <<>>
         \/ Calls(c) # <<>> /\ q.submissions = Tail(Calls(c))
  PROVE  \A d \in Queues : CallsShrink(d)
<1>1. queue'[c] = q /\ \A d \in Queues \ {c} : queue'[d] = queue[d]
  BY OnlyQueue DEF IInv, OthersUnmoved
<1>2. CASE q.submissions = Calls(c) \/ q.submissions = <<>>
  BY <1>1, <1>2 DEF CallsShrink, Calls
<1>3. CASE Calls(c) # <<>> /\ q.submissions = Tail(Calls(c))
  <2>1. /\ Len(Calls(c)) \in Nat \ {0} /\ DOMAIN Calls(c) = 1..Len(Calls(c))
        /\ DOMAIN Tail(Calls(c)) = 1..(Len(Calls(c)) - 1)
        /\ \A i \in 1..(Len(Calls(c)) - 1) : Tail(Calls(c))[i] = Calls(c)[i + 1]
    BY <1>3, CallsOf, TailElements
  <2>2. \A i \in DOMAIN Tail(Calls(c)) : \E j \in DOMAIN Calls(c) : Tail(Calls(c))[i] = Calls(c)[j]
    BY <2>1
  <2>3. Calls(c)' = Tail(Calls(c))
    BY <1>1, <1>3 DEF Calls
  <2>4. CallsShrink(c)
    BY <2>2, <2>3 DEF CallsShrink
  <2>5. \A d \in Queues \ {c} : CallsShrink(d)
    BY <1>1 DEF CallsShrink, Calls
  <2> QED BY <2>4, <2>5
<1> QED BY <1>2, <1>3

LEMMA CallsStep ==
  ASSUME IInv, CallsAreOfProgram, [Next]_vars, ~device_lost'
  PROVE  CallsAreOfProgram'
<1>1. ASSUME NEW c \in Queues, ExecuteCommandLists(c) \/ ReleaseQueue(c)
      PROVE  CallsAreOfProgram'
  <2>1. PICK op, q : /\ queue' = [queue EXCEPT ![c] = q] /\ q.submissions = Append(Calls(c), op)
                     /\ op.type \notin {"wait", "signal"} /\ program' = program
    <3>1. CASE ExecuteCommandLists(c)
      <4> DEFINE op == [type |-> "execute"]
      <4>1. [queue[c] EXCEPT !.submissions = Append(@, op), !.calls = @ + 1].submissions
              = Append(Calls(c), op)
        BY CallsOf DEF Calls, QueueFields
      <4>2. /\ queue' = [queue EXCEPT ![c] = [queue[c] EXCEPT !.submissions = Append(@, op),
                                                            !.calls = @ + 1]]
            /\ program' = program
        BY <3>1 DEF ExecuteCommandLists, Enqueue
      <4>3. op.type \notin {"wait", "signal"}
        OBVIOUS
      <4> HIDE DEF op
      <4> QED BY <4>1, <4>2, <4>3
    <3>2. CASE ReleaseQueue(c)
      <4> DEFINE op == [type |-> "stop"]
      <4>1. [queue[c] EXCEPT !.open = FALSE, !.submissions = Append(@, op)].submissions
              = Append(Calls(c), op)
        BY CallsOf DEF Calls, QueueFields
      <4>2. /\ queue' = [queue EXCEPT ![c] = [queue[c] EXCEPT !.open = FALSE,
                                                            !.submissions = Append(@, op)]]
            /\ program' = program
        BY <3>2 DEF ReleaseQueue
      <4>3. op.type \notin {"wait", "signal"}
        OBVIOUS
      <4> HIDE DEF op
      <4> QED BY <4>1, <4>2, <4>3
    <3> QED BY <1>1, <3>1, <3>2
  <2>2. IsOfProgram(op, c)
    BY <2>1 DEF IsOfProgram
  <2> QED BY <2>1, <2>2, EnqueueCalls
<1>2. ASSUME NEW k \in program.waits_and_signals, QueueWait(k) \/ QueueSignal(k)
      PROVE  CallsAreOfProgram'
  <2>1. k.fence \in Fences /\ k.queue \in Queues
    BY ProgramsAssumption DEF IInv, Shape, ProgramType
  <2>2. PICK op : /\ Enqueue(k.queue, op) /\ program' = program
                  /\ op.type = k.type /\ op.fence = k.fence /\ op.value = k.value
    <3>1. CASE QueueWait(k)
      <4>1. PICK op : /\ Enqueue(k.queue, op) /\ op.type = "wait"
                      /\ op.fence = k.fence /\ op.value = k.value
        BY <3>1 DEF QueueWait
      <4> QED BY <3>1, <4>1 DEF QueueWait
    <3>2. CASE QueueSignal(k)
      BY <3>2 DEF QueueSignal
    <3> QED BY <1>2, <3>1, <3>2
  <2>3. PICK q : /\ queue' = [queue EXCEPT ![k.queue] = q]
                 /\ q.submissions = Append(Calls(k.queue), op)
    <3>1. [queue[k.queue] EXCEPT !.submissions = Append(@, op), !.calls = @ + 1].submissions
            = Append(Calls(k.queue), op)
      BY <2>1, CallsOf DEF Calls, QueueFields
    <3> QED BY <2>2, <3>1 DEF Enqueue
  <2>4. IsOfProgram(op, k.queue)
    BY <2>2 DEF IsOfProgram
  <2> QED BY <2>1, <2>2, <2>3, <2>4, EnqueueCalls
<1>3. ASSUME UNCHANGED <<program, queue>> PROVE CallsAreOfProgram'
  BY <1>3 DEF CallsAreOfProgram, Calls, IsOfProgram
<1>4. ASSUME NEW f \in Fences, CpuSignalFence(f) \/ Release(f) PROVE CallsAreOfProgram'
  BY <1>3, <1>4 DEF CpuSignalFence, Release
<1>5. ASSUME NEW v \in VkQueues, Gpu(v) PROVE CallsAreOfProgram'
  BY <1>3, <1>5 DEF Gpu
<1>6. ASSUME UNCHANGED vars PROVE CallsAreOfProgram'
  BY <1>3, <1>6 DEF vars
<1>7. ASSUME NEW c \in Queues, \/ CallEnds(c) \/ Resolution(c) \/ FlushWaiters(c) \/ Execute(c)
                               \/ Signals(c) \/ FenceWorker(c)
      PROVE  CallsAreOfProgram'
  <2>1. PICK q : /\ queue' = [queue EXCEPT ![c] = q] /\ program' = program
                 /\ \/ q.submissions = Calls(c) \/ q.submissions = <<>>
                    \/ Calls(c) # <<>> /\ q.submissions = Tail(Calls(c))
    <3> DEFINE Ends(q) == \/ q.submissions = Calls(c) \/ q.submissions = <<>>
                          \/ Calls(c) # <<>> /\ q.submissions = Tail(Calls(c))
    <3>1. DOMAIN queue[c] = QueueFields /\ QueueShape(queue[c])
      BY CallsOf DEF IInv, Shape
    <3>2. NextSubmission(queue[c]).submissions = Tail(Calls(c))
      BY <3>1, OperatorFields DEF Calls
    <3>3. CASE Calls(c) # <<>> /\ (WaitSatisfied(c) \/ CpuWaitReturns(c))
      <4>1. [NextSubmission(queue[c]) EXCEPT !.cpu_wait = 0].submissions = Tail(Calls(c))
        BY <3>1, <3>2, OperatorFields DEF QueueFields
      <4> QED BY <3>2, <3>3, <4>1 DEF WaitSatisfied, CpuWaitReturns
    <3>4. CASE Stops(c) \/ FreesQueue(c)
      <4>1. [queue[c] EXCEPT !.submissions = <<>>, !.pc = "ended"].submissions = <<>>
        BY <3>1 DEF QueueFields
      <4>2. [queue[c] EXCEPT !.pc = "freed"].submissions = Calls(c)
        BY <3>1 DEF QueueFields, Calls
      <4> QED BY <3>4, <4>1, <4>2 DEF Stops, FreesQueue
    <3>5. CASE FlushWaiters(c)
      <4>1. FinalizeWaits(queue[c]).submissions = Calls(c) /\ DOMAIN FinalizeWaits(queue[c]) = QueueFields
        BY <3>1 DEF FinalizeWaits, QueueFields, Calls
      <4>2. [FinalizeWaits(queue[c]) EXCEPT !.pc = "flushed"].submissions = Calls(c)
        BY <4>1 DEF QueueFields
      <4>3. [FinalizeWaits(queue[c]) EXCEPT !.pc = "flushed",
               !.last_submission = NextTimelineValue(c)].submissions = Calls(c)
        BY <4>1 DEF QueueFields
      <4> QED BY <3>5, <4>2, <4>3 DEF FlushWaiters
    <3>6. CASE FenceWorker(c)
      <4>1. PICK kind : NextItem(c, kind)
        BY <3>6 DEF FenceWorker, EnsuresOrder, SignalsFence, DropsSignal, ReleasesSubmission
      <4>2. [queue[c] EXCEPT !.fence_worker = Tail(@)].submissions = Calls(c)
        BY <3>1 DEF QueueFields, Calls
      <4> QED BY <4>1, <4>2 DEF NextItem
    <3>7. CASE Calls(c) # <<>> /\ Execute(c)
      <4>1. LET p == NextSubmission(FinalizeWaits(queue[c])) IN
              p.submissions = Tail(Calls(c)) /\ DOMAIN p = QueueFields
        BY <3>1 DEF NextSubmission, FinalizeWaits, QueueFields, Calls
      <4>2. \A item : [AddItem(NextSubmission(FinalizeWaits(queue[c])), item) EXCEPT
                         !.last_submission = NextTimelineValue(c)].submissions = Tail(Calls(c))
        BY <4>1 DEF AddItem, QueueFields
      <4> QED BY <3>7, <4>2 DEF Execute
    <3>8. CASE Calls(c) # <<>> /\ (Signals(c) \/ WaitOnSameVkQueue(c))
      <4>1. \A item : AddItem(NextSubmission(queue[c]), item).submissions = Tail(Calls(c))
        BY <3>1, <3>2, OperatorFields DEF AddItem, QueueFields
      <4> QED BY <3>8, <4>1 DEF Signals, WaitOnSameVkQueue, AddOrder, Resolves
    <3>9. CASE Calls(c) # <<>> /\ WaitIsDeferred(c)
      <4>1. \A f, u : AddWait(NextSubmission(queue[c]), f, u).submissions = Tail(Calls(c))
        BY <3>1, <3>2, OperatorFields DEF AddWait, QueueFields
      <4>2. PICK f, u : /\ queue' = [queue EXCEPT ![c] = AddWait(NextSubmission(queue[c]), f, u)]
                        /\ program' = program
        BY <3>9 DEF WaitIsDeferred, Resolves
      <4> QED BY <3>9, <4>1, <4>2
    <3>10. CASE WaitOnCpu(c)
      <4>1. PICK u :
              /\ Resolves(c, u)
              /\ queue' = [queue EXCEPT
                   ![c] = [AddOrder(queue[c], Current(c).fence, u.update_count) EXCEPT
                             !.pc = "cpu_wait",
                             !.cpu_wait = [semaphore |-> u.vk_semaphore,
                                           value |-> u.vk_semaphore_value]]]
        BY <3>10 DEF WaitOnCpu
      <4>2. PICK q : q = [AddOrder(queue[c], Current(c).fence, u.update_count) EXCEPT
                            !.pc = "cpu_wait",
                            !.cpu_wait = [semaphore |-> u.vk_semaphore,
                                          value |-> u.vk_semaphore_value]]
        OBVIOUS
      <4>3. q.submissions = Calls(c)
        BY <3>1, <4>2 DEF AddOrder, AddItem, QueueFields, Calls
      <4>4. program' = program
        BY <4>1 DEF Resolves
      <4> QED BY <4>1, <4>2, <4>3, <4>4
    <3>11. \/ WaitSatisfied(c) \/ CpuWaitReturns(c) \/ Execute(c) \/ Signals(c)
           \/ WaitOnSameVkQueue(c) \/ WaitIsDeferred(c)
           => Calls(c) # <<>>
      BY <3>1 DEF WaitSatisfied, CpuWaitReturns, Execute, Signals, WaitOnSameVkQueue,
                  WaitIsDeferred, Unresolved, Working, QueueShape, Calls
    <3> QED BY <1>7, <3>3, <3>4, <3>5, <3>6, <3>7, <3>8, <3>9, <3>10, <3>11
            DEF CallEnds, Resolution
  <2> QED BY <2>1, QueueCallsShrink, ShrinkingCalls
<1> QED BY <1>1, <1>2, <1>4, <1>5, <1>6, <1>7, StepsWhileDeviceWorks DEF ApplicationStep

-----------------------------------------------------------------------------
(* What is announced stays announced.                                      *)

LEMMA ScheduledIsFollowed ==
  ASSUME HistoryShape, NEW f, NEW n, IsScheduled(f, n)
  PROVE  /\ f \in Fences /\ DOMAIN followed[f] = 1..fence[f].update_count
         /\ n \in DOMAIN followed[f] /\ n \in Nat
<1>1. f \in Fences /\ n \in 1..fence[f].update_count /\ fence[f].update_count \in Nat
  BY DEF IsScheduled, HistoryShape
<1>2. IsSeq(followed[f]) /\ Len(followed[f]) = fence[f].update_count
  BY <1>1 DEF HistoryShape
<1>3. DOMAIN followed[f] = 1..fence[f].update_count
  BY <1>2, AppendElements
<1> QED BY <1>1, <1>3

SignalCountsGrow ==
  \A f \in Fences : /\ fence[f].signal_count \in Nat /\ fence'[f].signal_count \in Nat
                    /\ fence[f].signal_count <= fence'[f].signal_count

\* Event e is one of those that the histories are made of.
IsEvent(e) == e[1] \in Fences => e[2] \in Nat

LEMMA SeenStays ==
  ASSUME SignalCountsGrow, NEW e, IsEvent(e), Seen(e)
  PROVE  Seen(e)'
BY DEF SignalCountsGrow, IsEvent, Seen

EventsAreEvents ==
  /\ \A c \in Queues : \A e \in known[c] : IsEvent(e)
  /\ \A f \in Fences : \A n \in DOMAIN followed[f] : \A e \in followed[f][n] : IsEvent(e)

LEMMA AnnouncesStays ==
  ASSUME HistoryShape, \A f \in Fences : Longer(followed[f], followed'[f]),
         NEW item, IsScheduled(item.fence, item.update_count), NEW e, Announces(item, e)
  PROVE  Announces(item, e)'
<1>1. item.fence \in Fences /\ item.update_count \in DOMAIN followed[item.fence]
  BY ScheduledIsFollowed
<1>2. followed'[item.fence][item.update_count] = followed[item.fence][item.update_count]
  BY <1>1 DEF Longer
<1> QED BY <1>2 DEF Announces

OInv == SInv /\ EventsAreEvents

\* Steps that only append to the worker of queue c, and no signal.
LEMMA GrowingWorker ==
  ASSUME IInv, HInv, OInv, NEW c \in Queues, OthersUnmoved(c), program' = program,
         followed' = followed, \A f \in Fences : fence'[f].signal_count = fence[f].signal_count,
         Longer(Worker(c), Worker(c)'),
         \A j \in DOMAIN Worker(c)' : j \in DOMAIN Worker(c) \/ Worker(c)'[j].kind # "signal",
         \A d \in Queues \ {c} : known'[d] = known[d],
         known[c] \subseteq known'[c],
         \A e \in known'[c] : IsEvent(e) /\ (Seen(e) \/ Announced(c, e)')
  PROVE  OInv'
<1>1. \A e : Seen(e)' <=> Seen(e)
  BY DEF Seen
<1>2. \A item, e : Announces(item, e)' <=> Announces(item, e)
  BY DEF Announces
<1>3. \A d \in Queues \ {c} : Worker(d)' = Worker(d) /\ Deferred(d)' = Deferred(d)
  BY DEF OthersUnmoved, Unmoved
<1>4. KnownIsAnnounced'
  <2> SUFFICES ASSUME NEW d \in Queues, NEW e \in known'[d]
               PROVE  Seen(e)' \/ Announced(d, e)'
    BY DEF KnownIsAnnounced
  <2>1. CASE d = c
    BY <1>1, <2>1
  <2>2. CASE d # c
    <3>1. Seen(e) \/ Announced(d, e)
      BY <2>2 DEF OInv, SInv, KnownIsAnnounced
    <3> QED BY <1>1, <1>2, <1>3, <2>2, <3>1 DEF Announced
  <2> QED BY <2>1, <2>2
<1>5. SignalsAreAnnounced'
  <2> SUFFICES ASSUME NEW d \in Queues, NEW j \in DOMAIN Worker(d)', NEW x, x = Worker(d)'[j],
                      x.kind = "signal", NEW e \in followed[x.fence][x.update_count]
               PROVE  Seen(e) \/ AnnouncedBefore(d, j, e)'
    BY <1>1 DEF SignalsAreAnnounced
  <2>1. j \in DOMAIN Worker(d) /\ Worker(d)[j] = x
    BY <1>3 DEF Longer
  <2>2. Seen(e) \/ AnnouncedBefore(d, j, e)
    BY <2>1 DEF OInv, SInv, SignalsAreAnnounced
  <2>3. ASSUME AnnouncedBefore(d, j, e) PROVE AnnouncedBefore(d, j, e)'
    <3>1. PICK i \in DOMAIN Worker(d) :
            i < j /\ Worker(d)[i].kind # "release" /\ Announces(Worker(d)[i], e)
      BY <2>3 DEF AnnouncedBefore
    <3>2. i \in DOMAIN Worker(d)' /\ Worker(d)'[i] = Worker(d)[i]
      BY <1>3 DEF Longer
    <3> QED BY <1>2, <3>1, <3>2 DEF AnnouncedBefore
  <2> QED BY <2>2, <2>3
<1>6. SignallersKnow'
  <2>1. \A f, d : SignalledBy(f, d)' <=> SignalledBy(f, d)
    BY DEF SignalledBy, IsCalled
  <2>2. \A d \in Queues : known[d] \subseteq known'[d]
    OBVIOUS
  <2>3. ASSUME NEW f \in Fences, NEW d \in Queues, SignalledBy(f, d), NEW m \in DOMAIN followed[f]
        PROVE  followed[f][m] \subseteq known'[d]
    BY <2>2, <2>3 DEF OInv, SInv, SignallersKnow
  <2> QED BY <2>1, <2>3 DEF OInv, SInv, SignallersKnow
<1>7. SignalledIsSeen'
  BY <1>1 DEF OInv, SInv, SignalledIsSeen
<1>8. EventsAreEvents'
  BY DEF OInv, EventsAreEvents, IsEvent
<1> QED BY <1>4, <1>5, <1>6, <1>7, <1>8 DEF OInv, SInv

\* Steps that leave workers, histories and signal counts alone.
LEMMA CalmOInv ==
  ASSUME OInv, UNCHANGED <<program, known, followed>>,
         \A d \in Queues : Worker(d)' = Worker(d) /\ Deferred(d)' = Deferred(d),
         \A f \in Fences : fence'[f].signal_count = fence[f].signal_count
  PROVE  OInv'
<1>1. \A e : Seen(e)' <=> Seen(e)
  BY DEF Seen
<1>2. \A item, e : Announces(item, e)' <=> Announces(item, e)
  BY DEF Announces
<1>3. KnownIsAnnounced'
  BY <1>1, <1>2 DEF OInv, SInv, KnownIsAnnounced, Announced
<1>4. SignalsAreAnnounced'
  BY <1>1, <1>2 DEF OInv, SInv, SignalsAreAnnounced, AnnouncedBefore
<1>5. SignallersKnow'
  BY DEF OInv, SInv, SignallersKnow, SignalledBy, IsCalled
<1>6. SignalledIsSeen'
  BY <1>1 DEF OInv, SInv, SignalledIsSeen
<1>7. EventsAreEvents'
  BY DEF OInv, EventsAreEvents, IsEvent
<1> QED BY <1>3, <1>4, <1>5, <1>6, <1>7 DEF OInv, SInv

LEMMA ResolutionOInv ==
  ASSUME IInv, HInv, OInv, NEW c \in Queues, Resolution(c)
  PROVE  OInv'
<1> DEFINE Wait(f, u) == [fence |-> f, update_count |-> u.update_count]
           Resolved(f, u) ==
             /\ Last(c)' = Last(c) /\ OthersUnmoved(c)
             /\ \/ /\ Worker(c)' = Append(Worker(c), OrderItem(f, u.update_count))
                   /\ Deferred(c)' = Deferred(c)
                \/ /\ Worker(c)' = Worker(c)
                   /\ Deferred(c)' = Append(Deferred(c), Wait(f, u))
             /\ fence' = [fence EXCEPT ![f] = ConsumeTicket(@, Current(c).ticket)]
             /\ known' = [known EXCEPT ![c] = @ \cup followed[f][u.update_count]
                                                 \cup {<<f, u.update_count>>}]
             /\ UNCHANGED <<program, gpu, followed, before, done>>
<1>1. PICK f \in Fences : \E u \in fence[f].pending_updates : Resolved(f, u)
  BY ResolutionEffect DEF Resolution
<1>2. PICK u \in fence[f].pending_updates : Resolved(f, u)
  BY <1>1
<1> DEFINE n == u.update_count
<1>3. \A h \in Fences : fence'[h].signal_count = fence[h].signal_count
  <2>1. FenceIdle(fence[f], ConsumeTicket(fence[f], Current(c).ticket))
    BY FenceFieldsOf DEF IInv, Shape
  <2> QED BY <1>2, <2>1, OneFenceIdle DEF FencesIdle, FenceIdle
<1>4. n \in DOMAIN followed[f] /\ n \in Nat
  <2>1. IsScheduled(f, n)
    BY DEF HInv, HistoryShape
  <2> QED BY <2>1, ScheduledIsFollowed DEF HInv
<1>5. IsSeq(Worker(c)) /\ IsSeq(Deferred(c))
  BY WorkersAreSequences
<1>6. /\ \A d \in Queues \ {c} : known'[d] = known[d]
      /\ known'[c] = known[c] \cup followed[f][n] \cup {<<f, n>>}
  BY <1>2 DEF HInv, HistoryShape
<1>7. /\ Longer(Worker(c), Worker(c)') /\ Longer(Deferred(c), Deferred(c)')
      /\ \A j \in DOMAIN Worker(c)' : j \in DOMAIN Worker(c) \/ Worker(c)'[j].kind # "signal"
      /\ \/ \E i \in DOMAIN Worker(c)' : Worker(c)'[i] = OrderItem(f, n)
         \/ \E i \in DOMAIN Deferred(c)' : Deferred(c)'[i] = Wait(f, u)
  <2>1. CASE /\ Worker(c)' = Append(Worker(c), OrderItem(f, n))
             /\ Deferred(c)' = Deferred(c)
    <3>1. /\ Len(Worker(c)) \in Nat /\ DOMAIN Worker(c) = 1..Len(Worker(c))
          /\ DOMAIN Worker(c)' = 1..(Len(Worker(c)) + 1)
          /\ Worker(c)'[Len(Worker(c)) + 1] = OrderItem(f, n)
      BY <1>5, <2>1, AppendElements
    <3>2. Longer(Worker(c), Worker(c)') /\ Longer(Deferred(c), Deferred(c)')
      <4>1. Longer(Worker(c), Append(Worker(c), OrderItem(f, n)))
        BY <1>5, AppendIsLonger
      <4> QED BY <4>1, <1>5, <2>1 DEF Longer
    <3>3. OrderItem(f, n).kind # "signal"
      BY DEF OrderItem
    <3>4. \A j \in DOMAIN Worker(c)' : j \in DOMAIN Worker(c) \/ j = Len(Worker(c)) + 1
      BY <3>1
    <3>5. Len(Worker(c)) + 1 \in DOMAIN Worker(c)'
      BY <3>1
    <3> QED BY <3>1, <3>2, <3>3, <3>4, <3>5
  <2>2. CASE /\ Worker(c)' = Worker(c)
             /\ Deferred(c)' = Append(Deferred(c), Wait(f, u))
    <3> DEFINE w == Wait(f, u)
    <3> HIDE DEF w
    <3>1. /\ Len(Deferred(c)) + 1 \in DOMAIN Deferred(c)'
          /\ Deferred(c)'[Len(Deferred(c)) + 1] = w
      BY <1>5, <2>2, AppendElements DEF w
    <3>2. Longer(Worker(c), Worker(c)') /\ Longer(Deferred(c), Deferred(c)')
      <4>1. Longer(Deferred(c), Append(Deferred(c), w))
        BY <1>5, AppendIsLonger
      <4> QED BY <4>1, <1>5, <2>2 DEF Longer, w
    <3> QED BY <2>2, <3>1, <3>2 DEF w
  <2> QED BY <1>2, <2>1, <2>2
<1>8. ASSUME NEW e \in known'[c]
      PROVE  IsEvent(e) /\ (Seen(e) \/ Announced(c, e)')
  <2>1. IsEvent(e)
    BY <1>4, <1>6 DEF OInv, EventsAreEvents, IsEvent
  <2>2. CASE e \in known[c]
    <3>1. Seen(e) \/ Announced(c, e)
      BY <2>2 DEF OInv, SInv, KnownIsAnnounced
    <3>2. \A item : Announces(item, e) => Announces(item, e)'
      BY <1>2 DEF Announces
    <3> QED BY <2>1, <3>1, <3>2, <1>7 DEF Announced, Longer
  <2>3. CASE e \notin known[c]
    <3>1. e = <<f, n>> \/ e \in followed[f][n]
      BY <1>6, <2>3
    <3>2. Announces(OrderItem(f, n), e)' /\ Announces(Wait(f, u), e)'
      BY <1>2, <3>1 DEF Announces, OrderItem
    <3>3. OrderItem(f, n).kind # "release"
      BY DEF OrderItem
    <3> QED BY <2>1, <3>2, <3>3, <1>7 DEF Announced
  <2> QED BY <2>2, <2>3
<1> QED BY <1>2, <1>3, <1>6, <1>7, <1>8, GrowingWorker

\* The deferred waits are announced by the items they become.
LEMMA FinalizedAnnounces ==
  ASSUME IInv, HInv, OInv, NEW c \in Queues, NEW e, Announced(c, e)
  PROVE  LET w == Worker(c) \o Orders(Deferred(c)) IN
         \E i \in DOMAIN w : w[i].kind # "release" /\ Announces(w[i], e)
<1> DEFINE w == Worker(c) \o Orders(Deferred(c))
<1>1. IsSeq(Worker(c)) /\ IsSeq(Deferred(c))
  BY WorkersAreSequences
<1>2. /\ IsSeq(Orders(Deferred(c))) /\ DOMAIN Orders(Deferred(c)) = DOMAIN Deferred(c)
      /\ \A i \in DOMAIN Deferred(c) :
           Orders(Deferred(c))[i] = OrderItem(Deferred(c)[i].fence, Deferred(c)[i].update_count)
  BY <1>1, OrdersElements
<1>3. /\ Longer(Worker(c), w) /\ Len(Worker(c)) \in Nat
      /\ DOMAIN Orders(Deferred(c)) = 1..Len(Orders(Deferred(c)))
      /\ Len(Orders(Deferred(c))) \in Nat
      /\ DOMAIN w = 1..(Len(Worker(c)) + Len(Orders(Deferred(c))))
      /\ \A i \in 1..Len(Orders(Deferred(c))) : w[Len(Worker(c)) + i] = Orders(Deferred(c))[i]
  BY <1>1, <1>2, ConcatElements
<1> HIDE DEF w
<1>4. CASE \E i \in DOMAIN Worker(c) : Worker(c)[i].kind # "release" /\ Announces(Worker(c)[i], e)
  BY <1>3, <1>4 DEF Longer, w
<1>5. CASE \E i \in DOMAIN Deferred(c) : Announces(Deferred(c)[i], e)
  <2>1. PICK i \in DOMAIN Deferred(c) : Announces(Deferred(c)[i], e)
    BY <1>5
  <2> DEFINE j == Len(Worker(c)) + i
  <2>2. j \in DOMAIN w /\ w[j] = OrderItem(Deferred(c)[i].fence, Deferred(c)[i].update_count)
    BY <1>2, <1>3, <2>1
  <2>3. w[j].kind # "release" /\ Announces(w[j], e)
    BY <2>1, <2>2 DEF OrderItem, Announces
  <2> QED BY <2>2, <2>3 DEF w
<1> QED BY <1>4, <1>5 DEF Announced

LEMMA FinalizedIsUnsignalled ==
  ASSUME IInv, NEW c \in Queues
  PROVE  LET w == Worker(c) \o Orders(Deferred(c)) IN
         IsSeq(w) /\ \A j \in DOMAIN w : j \in DOMAIN Worker(c) \/ w[j].kind # "signal"
<1> DEFINE w == Worker(c) \o Orders(Deferred(c))
<1>1. IsSeq(Worker(c)) /\ IsSeq(Deferred(c))
  BY WorkersAreSequences
<1>2. /\ IsSeq(Orders(Deferred(c))) /\ DOMAIN Orders(Deferred(c)) = DOMAIN Deferred(c)
      /\ \A i \in DOMAIN Deferred(c) :
           Orders(Deferred(c))[i] = OrderItem(Deferred(c)[i].fence, Deferred(c)[i].update_count)
  BY <1>1, OrdersElements
<1>3. /\ Longer(Worker(c), w) /\ Len(Worker(c)) \in Nat
      /\ DOMAIN Worker(c) = 1..Len(Worker(c))
      /\ DOMAIN Orders(Deferred(c)) = 1..Len(Orders(Deferred(c)))
      /\ Len(Orders(Deferred(c))) \in Nat
      /\ DOMAIN w = 1..(Len(Worker(c)) + Len(Orders(Deferred(c))))
      /\ \A i \in 1..Len(Orders(Deferred(c))) : w[Len(Worker(c)) + i] = Orders(Deferred(c))[i]
  BY <1>1, <1>2, ConcatElements
<1> HIDE DEF w
<1>4. ASSUME NEW j \in DOMAIN w, j \notin DOMAIN Worker(c) PROVE w[j].kind # "signal"
  <2> DEFINE i == j - Len(Worker(c))
  <2>1. i \in 1..Len(Orders(Deferred(c))) /\ j = Len(Worker(c)) + i
    BY <1>3, <1>4
  <2>2. w[j] = OrderItem(Deferred(c)[i].fence, Deferred(c)[i].update_count)
    BY <1>2, <1>3, <2>1
  <2> QED BY <2>2 DEF OrderItem
<1> QED BY <1>3, <1>4 DEF Longer, w

LEMMA FlushOInv ==
  ASSUME IInv, HInv, OInv, NEW c \in Queues, FlushWaiters(c)
  PROVE  OInv'
<1> DEFINE w == Worker(c) \o Orders(Deferred(c))
<1>1. /\ Worker(c)' = w /\ OthersUnmoved(c)
      /\ UNCHANGED <<program, fence, known, followed>>
  BY FlushEffect DEF history
<1>2. /\ Longer(Worker(c), w)
      /\ \A j \in DOMAIN w : j \in DOMAIN Worker(c) \/ w[j].kind # "signal"
      /\ \A e : Announced(c, e) =>
           \E i \in DOMAIN w : w[i].kind # "release" /\ Announces(w[i], e)
  BY FinalizedWorker, FinalizedIsUnsignalled, FinalizedAnnounces
<1> HIDE DEF w
<1>3. Longer(Worker(c), Worker(c)')
  BY <1>1, <1>2
<1>4. ASSUME NEW e \in known'[c]
      PROVE  IsEvent(e) /\ (Seen(e) \/ Announced(c, e)')
  <2>1. IsEvent(e) /\ (Seen(e) \/ Announced(c, e))
    BY <1>1 DEF OInv, EventsAreEvents, SInv, KnownIsAnnounced
  <2>2. ASSUME Announced(c, e) PROVE Announced(c, e)'
    <3>1. PICK i \in DOMAIN w : w[i].kind # "release" /\ Announces(w[i], e)
      BY <1>2, <2>2
    <3>2. PICK x : x = w[i]
      OBVIOUS
    <3>3. Announces(x, e)'
      BY <1>1, <3>1, <3>2 DEF Announces
    <3>4. i \in DOMAIN Worker(c)' /\ Worker(c)'[i] = x /\ x.kind # "release"
      BY <1>1, <3>1, <3>2
    <3> QED BY <3>3, <3>4 DEF Announced
  <2> QED BY <2>1, <2>2
<1>5. \A j \in DOMAIN Worker(c)' : j \in DOMAIN Worker(c) \/ Worker(c)'[j].kind # "signal"
  BY <1>1, <1>2
<1> QED BY <1>1, <1>3, <1>4, <1>5, GrowingWorker

LEMMA ExecuteOInv ==
  ASSUME IInv, HInv, OInv, NEW c \in Queues, Execute(c)
  PROVE  OInv'
<1> DEFINE w == Worker(c) \o Orders(Deferred(c))
           item == ReleaseItem(NextWork(c), NextTimelineValue(c))
<1>1. /\ Worker(c)' = Append(w, item) /\ OthersUnmoved(c)
      /\ known' = [known EXCEPT ![c] = @ \cup {NextWork(c)}]
      /\ UNCHANGED <<program, fence, followed>>
  BY ExecuteEffect
<1>2. /\ Longer(Worker(c), w) /\ IsSeq(w)
      /\ \A j \in DOMAIN w : j \in DOMAIN Worker(c) \/ w[j].kind # "signal"
      /\ \A e : Announced(c, e) =>
           \E i \in DOMAIN w : w[i].kind # "release" /\ Announces(w[i], e)
  BY FinalizedWorker, FinalizedIsUnsignalled, FinalizedAnnounces
<1>a. item.kind = "release"
  BY DEF ReleaseItem
<1> HIDE DEF w, item
<1>3. /\ Longer(w, Worker(c)') /\ Longer(Worker(c), Worker(c)')
      /\ \A j \in DOMAIN Worker(c)' : j \in DOMAIN Worker(c) \/ Worker(c)'[j].kind # "signal"
  <2>1. Longer(w, Append(w, item))
    BY <1>2, AppendIsLonger
  <2>2. /\ Len(w) \in Nat /\ DOMAIN w = 1..Len(w)
        /\ DOMAIN Append(w, item) = 1..(Len(w) + 1) /\ Append(w, item)[Len(w) + 1] = item
    BY <1>2, AppendElements
  <2>3. ASSUME NEW j \in DOMAIN Append(w, item)
        PROVE  j \in DOMAIN Worker(c) \/ Append(w, item)[j].kind # "signal"
    <3>1. CASE j \in DOMAIN w
      BY <1>2, <2>1, <3>1 DEF Longer
    <3>2. CASE j \notin DOMAIN w
      BY <1>a, <2>2, <3>2
    <3> QED BY <3>1, <3>2
  <2>4. Longer(w, Worker(c)')
    BY <1>1, <2>1
  <2>5. Longer(Worker(c), Worker(c)')
    BY <1>2, <2>4, LongerIsTransitive
  <2> QED BY <1>1, <2>3, <2>4, <2>5
<1>4. /\ \A d \in Queues \ {c} : known'[d] = known[d]
      /\ known'[c] = known[c] \cup {NextWork(c)}
  BY <1>1 DEF HInv, HistoryShape
<1>5. ASSUME NEW e \in known'[c]
      PROVE  IsEvent(e) /\ (Seen(e) \/ Announced(c, e)')
  <2>1. CASE e \in known[c]
    <3>1. IsEvent(e) /\ (Seen(e) \/ Announced(c, e))
      BY <2>1 DEF OInv, EventsAreEvents, SInv, KnownIsAnnounced
    <3>2. ASSUME Announced(c, e) PROVE Announced(c, e)'
      <4>1. PICK i \in DOMAIN w : w[i].kind # "release" /\ Announces(w[i], e)
        BY <1>2, <3>2
      <4>2. PICK x : x = w[i]
        OBVIOUS
      <4>3. Announces(x, e)'
        BY <1>1, <4>1, <4>2 DEF Announces
      <4>4. i \in DOMAIN Worker(c)' /\ Worker(c)'[i] = x /\ x.kind # "release"
        BY <1>3, <4>1, <4>2 DEF Longer
      <4> QED BY <4>3, <4>4 DEF Announced
    <3> QED BY <3>1, <3>2
  <2>2. CASE e = NextWork(c)
    <3>1. e[1] \notin Fences
      BY <2>2, ProgramsAssumption DEF NextWork
    <3> QED BY <3>1 DEF IsEvent, Seen
  <2> QED BY <1>4, <2>1, <2>2
<1> QED BY <1>1, <1>3, <1>4, <1>5, GrowingWorker

\* A signal follows what its queue knows; nothing of it is left to be deferred.
LEMMA SignalsOInv ==
  ASSUME OneSignaller, IInv, HInv, OInv, CallsAreOfProgram, NEW c \in Queues, Signals(c)
  PROVE  OInv'
<1>1. PICK f \in Fences : \E n, op :
        /\ n = fence[f].update_count + 1 /\ Flushed(c)
        /\ op = Current(c) /\ op.fence = f /\ Working(c, "signal")
        /\ Worker(c)' = Append(Worker(c), SignalItem(f, n, Last(c)))
        /\ Deferred(c)' = Deferred(c) /\ OthersUnmoved(c)
        /\ fence' = [fence EXCEPT ![f] = AddPendingSignal(@, op.value, VkQueueOf[c], Last(c))]
        /\ followed' = [followed EXCEPT ![f] = Append(@, known[c])]
        /\ known' = [known EXCEPT ![c] = @ \cup {<<f, n>>}]
        /\ program' = program
  BY SignalsEffect
<1>2. PICK n, op :
        /\ n = fence[f].update_count + 1 /\ Flushed(c)
        /\ op = Current(c) /\ op.fence = f /\ Working(c, "signal")
        /\ Worker(c)' = Append(Worker(c), SignalItem(f, n, Last(c)))
        /\ Deferred(c)' = Deferred(c) /\ OthersUnmoved(c)
        /\ fence' = [fence EXCEPT ![f] = AddPendingSignal(@, op.value, VkQueueOf[c], Last(c))]
        /\ followed' = [followed EXCEPT ![f] = Append(@, known[c])]
        /\ known' = [known EXCEPT ![c] = @ \cup {<<f, n>>}]
        /\ program' = program
  BY <1>1
<1>3. SignalledBy(f, c)
  <2>1. Calls(c) # <<>> /\ IsSeq(Calls(c)) /\ Head(Calls(c)).type = "signal" /\ op = Head(Calls(c))
    BY <1>2, CallsOf DEF Working, Current, Calls
  <2>2. 1 \in DOMAIN Calls(c) /\ Calls(c)[1] = Head(Calls(c))
    BY <2>1, TailElements
  <2> QED BY <1>2, <2>1, <2>2 DEF CallsAreOfProgram, IsOfProgram, SignalledBy, IsCalled
<1>4. \A d \in Queues : SignalledBy(f, d) => d = c
  BY <1>3, ProgramsAssumption DEF OneSignaller, SignalledBy, IsCalled, IInv, Shape
<1>5. /\ n \in Nat /\ fence[f].signal_count < n /\ IsSeq(followed[f])
      /\ DOMAIN followed[f] = 1..(n - 1) /\ Len(followed[f]) = n - 1
  <2>1. /\ fence[f].signal_count \in 0..fence[f].update_count /\ fence[f].update_count \in Nat
        /\ IsSeq(followed[f]) /\ Len(followed[f]) = fence[f].update_count
    BY DEF HInv, HistoryShape
  <2>2. DOMAIN followed[f] = 1..fence[f].update_count
    BY <2>1, AppendElements
  <2>3. n = fence[f].update_count + 1
    BY <1>2
  <2>4. /\ n \in Nat /\ n - 1 = fence[f].update_count
        /\ fence[f].signal_count < n
    BY ONLY <2>1, <2>3
  <2> QED BY ONLY <2>1, <2>2, <2>4
<1>6. \A h \in Fences : fence'[h].signal_count = fence[h].signal_count
  <2>1. DOMAIN fence[f] = FenceFields /\ DOMAIN fence = Fences
    BY DEF IInv, Shape
  <2> QED BY <1>2, <2>1, FenceFieldsOf
<1>7. \A e : Seen(e)' <=> Seen(e)
  BY <1>6 DEF Seen
<1>8. /\ followed'[f] = Append(followed[f], known[c])
      /\ \A h \in Fences \ {f} : followed'[h] = followed[h]
      /\ known'[c] = known[c] \cup {<<f, n>>}
      /\ \A d \in Queues \ {c} : known'[d] = known[d]
  BY <1>2 DEF HInv, HistoryShape
<1>9. /\ DOMAIN followed'[f] = 1..n /\ followed'[f][n] = known[c]
      /\ \A m \in 1..(n - 1) : followed'[f][m] = followed[f][m]
  BY <1>5, <1>8, AppendElements
<1>10. \A h \in Fences : Longer(followed[h], followed'[h])
  <2>1. Longer(followed[f], followed'[f])
    BY <1>5, <1>8, AppendIsLonger
  <2> QED BY <1>8, <2>1 DEF Longer, HInv, HistoryShape
<1>11. \A d \in Queues : /\ Longer(Worker(d), Worker(d)') /\ Deferred(d)' = Deferred(d)
                         /\ (d # c => Worker(d)' = Worker(d))
  <2>1. Longer(Worker(c), Worker(c)')
    BY <1>2, WorkersAreSequences, AppendIsLonger
  <2> QED BY <1>2, <2>1, WorkersAreSequences DEF OthersUnmoved, Unmoved, Longer
<1> DEFINE l == Len(Worker(c)) + 1
<1>12. /\ l \in DOMAIN Worker(c)' /\ Worker(c)'[l] = SignalItem(f, n, Last(c))
       /\ \A i \in DOMAIN Worker(c)' : i \in DOMAIN Worker(c) \/ i = l
       /\ \A i \in DOMAIN Worker(c) : i < l
  BY <1>2, WorkersAreSequences, AppendElements
<1> HIDE DEF l
<1>13. ASSUME NEW d \in Queues, NEW i \in DOMAIN Worker(d), Worker(d)[i].kind # "release",
              NEW e, Announces(Worker(d)[i], e)
       PROVE  Announces(Worker(d)[i], e)'
  <2>1. PICK x : x = Worker(d)[i]
    OBVIOUS
  <2>2. IsScheduled(x.fence, x.update_count) /\ Announces(x, e)
    BY <1>13, <2>1 DEF HInv, QueuesReferToUpdates
  <2>3. Announces(x, e)'
    BY <1>10, <2>2, AnnouncesStays DEF HInv
  <2>4. Worker(d)'[i] = x
    BY <1>11, <2>1 DEF Longer
  <2> QED BY <2>3, <2>4 DEF Announces
<1>14. ASSUME NEW d \in Queues, NEW e, Announced(d, e) PROVE Announced(d, e)'
  <2>1. CASE \E i \in DOMAIN Worker(d) : Worker(d)[i].kind # "release" /\ Announces(Worker(d)[i], e)
    <3>1. PICK i \in DOMAIN Worker(d) : Worker(d)[i].kind # "release" /\ Announces(Worker(d)[i], e)
      BY <2>1
    <3>2. i \in DOMAIN Worker(d)' /\ Worker(d)'[i] = Worker(d)[i]
      BY <1>11 DEF Longer
    <3> QED BY <1>13, <3>1, <3>2 DEF Announced
  <2>2. CASE \E i \in DOMAIN Deferred(d) : Announces(Deferred(d)[i], e)
    <3>1. PICK i \in DOMAIN Deferred(d) : Announces(Deferred(d)[i], e)
      BY <2>2
    <3>2. PICK x : x = Deferred(d)[i]
      OBVIOUS
    <3>3. IsScheduled(x.fence, x.update_count) /\ Announces(x, e)
      BY <3>1, <3>2 DEF HInv, QueuesReferToUpdates
    <3>4. Announces(x, e)'
      BY <1>10, <3>3, AnnouncesStays DEF HInv
    <3> QED BY <1>11, <3>2, <3>4 DEF Announced
  <2> QED BY <1>14, <2>1, <2>2 DEF Announced
<1>15. KnownIsAnnounced'
  <2> SUFFICES ASSUME NEW d \in Queues, NEW e \in known'[d]
               PROVE  Seen(e) \/ Announced(d, e)'
    BY <1>7 DEF KnownIsAnnounced
  <2>1. CASE e \in known[d]
    BY <2>1, <1>14 DEF OInv, SInv, KnownIsAnnounced
  <2>2. CASE e \notin known[d]
    <3>1. d = c /\ e = <<f, n>>
      BY <1>8, <2>2
    <3>2. PICK x : x = Worker(c)'[l]
      OBVIOUS
    <3>3. Announces(x, e)' /\ x.kind # "release"
      BY <1>12, <3>1, <3>2 DEF Announces, SignalItem
    <3> QED BY <1>12, <3>1, <3>2, <3>3 DEF Announced
  <2> QED BY <2>1, <2>2
<1>16. SignalsAreAnnounced'
  <2> SUFFICES ASSUME NEW d \in Queues, NEW j \in DOMAIN Worker(d)', NEW x, x = Worker(d)'[j],
                      x.kind = "signal", NEW e \in followed'[x.fence][x.update_count]
               PROVE  Seen(e) \/ AnnouncedBefore(d, j, e)'
    BY <1>7 DEF SignalsAreAnnounced
  <2>1. ASSUME NEW i \in DOMAIN Worker(d), i < j, Worker(d)[i].kind # "release",
               Announces(Worker(d)[i], e)
        PROVE  AnnouncedBefore(d, j, e)'
    <3>1. i \in DOMAIN Worker(d)' /\ Worker(d)'[i] = Worker(d)[i]
      BY <1>11 DEF Longer
    <3> QED BY <1>13, <2>1, <3>1 DEF AnnouncedBefore
  <2>2. CASE j \in DOMAIN Worker(d)
    <3>1. Worker(d)[j] = x
      BY <1>11, <2>2 DEF Longer
    <3>2. IsScheduled(x.fence, x.update_count)
      BY <2>2, <3>1 DEF HInv, QueuesReferToUpdates
    <3>3. e \in followed[x.fence][x.update_count]
      BY <1>10, <3>2, ScheduledIsFollowed DEF HInv, Longer
    <3>4. Seen(e) \/ AnnouncedBefore(d, j, e)
      BY <2>2, <3>1, <3>3 DEF OInv, SInv, SignalsAreAnnounced
    <3> QED BY <2>1, <3>4 DEF AnnouncedBefore
  <2>3. CASE j \notin DOMAIN Worker(d)
    <3>1. d = c /\ j = l
      BY <1>11, <1>12, <2>3
    <3>2. e \in known[c]
      BY <1>9, <1>12, <3>1 DEF SignalItem
    <3>3. Seen(e) \/ Announced(c, e)
      BY <3>2 DEF OInv, SInv, KnownIsAnnounced
    <3>4. DOMAIN Deferred(c) = {}
      BY <1>2 DEF HInv, FlushedHasNoWaits
    <3> QED BY <1>12, <2>1, <3>1, <3>3, <3>4 DEF Announced
  <2> QED BY <2>2, <2>3
<1>17. SignallersKnow'
  <2>1. \A g, d : SignalledBy(g, d)' <=> SignalledBy(g, d)
    BY <1>2 DEF SignalledBy, IsCalled
  <2>2. \A d \in Queues : known[d] \subseteq known'[d]
    BY <1>8
  <2>3. \A m \in 1..(n - 1) : followed[f][m] \subseteq known[c]
    BY <1>3, <1>5 DEF OInv, SInv, SignallersKnow
  <2>4. \A m, k \in 1..(n - 1) : m <= k => followed[f][m] \subseteq followed[f][k]
    BY <1>5 DEF OInv, SInv, SignallersKnow
  <2>5. ASSUME NEW m \in 1..n PROVE followed'[f][m] \subseteq known[c]
    <3>1. m = n \/ m \in 1..(n - 1)
      BY <1>5
    <3> QED BY <1>9, <2>3, <3>1
  <2>6. ASSUME NEW m \in 1..n, NEW k \in 1..n, m <= k PROVE followed'[f][m] \subseteq followed'[f][k]
    <3>1. CASE k = n
      BY <1>9, <2>5, <3>1
    <3>2. CASE k # n
      <4>1. m \in 1..(n - 1) /\ k \in 1..(n - 1)
        BY <1>5, <2>6, <3>2
      <4> QED BY <1>9, <2>4, <2>6, <4>1
    <3> QED BY <3>1, <3>2
  <2>7. ASSUME NEW h \in Fences
        PROVE  /\ \A m, k \in DOMAIN followed'[h] : m <= k => followed'[h][m] \subseteq followed'[h][k]
               /\ \A d \in Queues : SignalledBy(h, d) =>
                    \A m \in DOMAIN followed'[h] : followed'[h][m] \subseteq known'[d]
    <3>1. CASE h = f
      BY <1>4, <1>9, <2>2, <2>5, <2>6, <3>1
    <3>2. CASE h # f
      <4>1. followed'[h] = followed[h]
        BY <1>8, <3>2
      <4>2. ASSUME NEW d \in Queues, SignalledBy(h, d), NEW m \in DOMAIN followed[h]
            PROVE  followed[h][m] \subseteq known'[d]
        BY <2>2, <4>2 DEF OInv, SInv, SignallersKnow
      <4> QED BY <4>1, <4>2 DEF OInv, SInv, SignallersKnow
    <3> QED BY <3>1, <3>2
  <2> QED BY <2>1, <2>7 DEF SignallersKnow
<1>18. SignalledIsSeen'
  <2> SUFFICES ASSUME NEW h \in Fences, NEW m \in DOMAIN followed'[h], m <= fence[h].signal_count,
                      NEW e \in followed'[h][m]
               PROVE  Seen(e)
    BY <1>6, <1>7 DEF SignalledIsSeen
  <2>1. m \in DOMAIN followed[h] /\ followed'[h][m] = followed[h][m]
    <3>1. CASE h = f
      <4>1. m \in 1..n /\ m # n
        <5>1. fence[f].signal_count \in Nat
          BY DEF HInv, HistoryShape
        <5> QED BY <1>5, <1>9, <3>1, <5>1
      <4> QED BY <1>5, <1>9, <3>1, <4>1
    <3>2. CASE h # f
      BY <1>8, <3>2
    <3> QED BY <3>1, <3>2
  <2> QED BY <2>1 DEF OInv, SInv, SignalledIsSeen
<1>19. EventsAreEvents'
  <2>1. \A d \in Queues : \A e \in known'[d] : IsEvent(e)
    BY <1>5, <1>8 DEF OInv, EventsAreEvents, IsEvent
  <2>2. ASSUME NEW h \in Fences, NEW m \in DOMAIN followed'[h], NEW e \in followed'[h][m]
        PROVE  IsEvent(e)
    <3>1. CASE h = f /\ m = n
      BY <1>9, <3>1 DEF OInv, EventsAreEvents
    <3>2. CASE ~(h = f /\ m = n)
      <4>1. m \in DOMAIN followed[h] /\ followed'[h][m] = followed[h][m]
        BY <1>5, <1>8, <1>9, <3>2
      <4> QED BY <4>1 DEF OInv, EventsAreEvents
    <3> QED BY <3>1, <3>2
  <2>3. \A e : IsEvent(e)' <=> IsEvent(e)
    BY DEF IsEvent
  <2> QED BY <2>1, <2>2, <2>3 DEF EventsAreEvents
<1> QED BY <1>15, <1>16, <1>17, <1>18, <1>19 DEF OInv, SInv

\* The fence worker goes past an item when everything that it announces is seen.
LEMMA FenceWorkerOInv ==
  ASSUME IInv, HInv, OInv, NEW c \in Queues, FenceWorker(c), ~device_lost
  PROVE  OInv'
<1>1. PICK kind : NextItem(c, kind) /\ \/ kind = "order" /\ EnsuresOrder(c)
                                       \/ kind = "signal" /\ SignalsFence(c)
                                       \/ kind = "release" /\ ReleasesSubmission(c)
  BY DEF FenceWorker, EnsuresOrder, SignalsFence, DropsSignal, ReleasesSubmission
<1>2. PICK item : item = Head(Worker(c))
  OBVIOUS
<1>3. /\ Worker(c) # <<>> /\ item.kind = kind /\ Worker(c)' = Tail(Worker(c))
      /\ Deferred(c)' = Deferred(c) /\ OthersUnmoved(c)
      /\ UNCHANGED <<program, known, followed>>
  BY <1>1, <1>2, FenceWorkerEffect DEF NextItem, history
<1>4. /\ Len(Worker(c)) \in Nat \ {0} /\ DOMAIN Worker(c) = 1..Len(Worker(c))
      /\ DOMAIN Worker(c)' = 1..(Len(Worker(c)) - 1) /\ item = Worker(c)[1]
      /\ \A i \in 1..(Len(Worker(c)) - 1) : Worker(c)'[i] = Worker(c)[i + 1]
  BY <1>2, <1>3, WorkersAreSequences, TailElements
<1> DEFINE f == item.fence
           n == item.update_count
<1>5. kind # "release" =>
        /\ f \in Fences /\ DOMAIN followed[f] = 1..fence[f].update_count
        /\ n \in DOMAIN followed[f] /\ n \in Nat
  <2> SUFFICES ASSUME kind # "release"
               PROVE  /\ f \in Fences /\ DOMAIN followed[f] = 1..fence[f].update_count
                      /\ n \in DOMAIN followed[f] /\ n \in Nat
    OBVIOUS
  <2>1. IsScheduled(f, n)
    BY <1>3, <1>4 DEF HInv, QueuesReferToUpdates
  <2> QED BY <2>1, ScheduledIsFollowed DEF HInv
<1>6. /\ \A h \in Fences : fence[h].signal_count \in Nat
      /\ kind # "signal" => fence' = fence
      /\ kind = "signal" =>
           /\ \A h \in Fences \ {f} : fence'[h] = fence[h]
           /\ fence'[f].signal_count =
                IF n > fence[f].signal_count THEN n ELSE fence[f].signal_count
      /\ kind = "order" => n <= fence[f].signal_count
  <2>1. \A h \in Fences : fence[h].signal_count \in Nat
    BY DEF HInv, HistoryShape
  <2>2. CASE kind = "order" /\ EnsuresOrder(c)
    <3>1. fence[f].signal_count >= n /\ fence' = fence
      BY <1>2, <2>2 DEF EnsuresOrder, Worker
    <3> QED BY <1>5, <2>1, <2>2, <3>1
  <2>3. CASE kind = "signal" /\ SignalsFence(c)
    <3>1. fence' = [fence EXCEPT ![f] = Signal(@, n)]
      BY <1>2, <2>3 DEF SignalsFence, Worker
    <3>2. f \in Fences
      BY <1>5, <2>3
    <3>3. DOMAIN fence = Fences /\ DOMAIN fence[f] = FenceFields
      BY <3>2 DEF IInv, Shape
    <3>4. Signal(fence[f], n).signal_count =
            IF n > fence[f].signal_count THEN n ELSE fence[f].signal_count
      BY <3>3, FenceFieldsOf
    <3> QED BY <2>1, <2>3, <3>1, <3>2, <3>3, <3>4
  <2>4. CASE kind = "release" /\ ReleasesSubmission(c)
    BY <2>1, <2>4 DEF ReleasesSubmission
  <2> QED BY <1>1, <2>1, <2>2, <2>3, <2>4
<1> HIDE DEF f, n
<1>7. SignalCountsGrow
  <2> SUFFICES ASSUME NEW h \in Fences
               PROVE  /\ fence[h].signal_count \in Nat /\ fence'[h].signal_count \in Nat
                      /\ fence[h].signal_count <= fence'[h].signal_count
    BY DEF SignalCountsGrow
  <2>1. CASE kind = "signal" /\ h = f
    BY <1>5, <1>6, <2>1
  <2>2. CASE ~(kind = "signal" /\ h = f)
    BY <1>6, <2>2
  <2> QED BY <2>1, <2>2
<1>8. ASSUME kind # "release", NEW e, e = <<f, n>> \/ e \in followed[f][n]
      PROVE  Seen(e)'
  <2>1. IsEvent(e)
    BY <1>5, <1>8 DEF OInv, EventsAreEvents, IsEvent
  <2>2. CASE kind = "signal"
    <3>1. CASE e = <<f, n>>
      BY <1>5, <1>6, <2>2, <3>1 DEF Seen
    <3>2. CASE e \in followed[f][n]
      <4>1. 1 \in DOMAIN Worker(c) /\ Worker(c)[1] = item /\ item.kind = "signal"
        BY <1>3, <1>4, <2>2
      <4>2. Seen(e) \/ AnnouncedBefore(c, 1, e)
        BY <3>2, <4>1 DEF OInv, SInv, SignalsAreAnnounced, f, n
      <4>3. ~AnnouncedBefore(c, 1, e)
        BY <1>4 DEF AnnouncedBefore
      <4> QED BY <1>7, <2>1, <4>2, <4>3, SeenStays
    <3> QED BY <1>8, <3>1, <3>2
  <2>3. CASE kind # "signal"
    <3>1. n <= fence[f].signal_count
      BY <1>1, <1>6, <1>8, <2>3
    <3>2. Seen(e)
      BY <1>5, <1>8, <3>1 DEF OInv, SInv, SignalledIsSeen, Seen
    <3> QED BY <1>7, <2>1, <3>2, SeenStays
  <2> QED BY <2>2, <2>3
<1>9. ASSUME NEW e, IsEvent(e), Seen(e) PROVE Seen(e)'
  BY <1>7, <1>9, SeenStays
<1>10. \A x, e : Announces(x, e)' <=> Announces(x, e)
  BY <1>3 DEF Announces
<1>11. \A d \in Queues : Deferred(d)' = Deferred(d) /\ (d # c => Worker(d)' = Worker(d))
  BY <1>3 DEF OthersUnmoved, Unmoved
\* What is announced at i is seen, or still announced.
<1>12. ASSUME NEW i \in DOMAIN Worker(c), Worker(c)[i].kind # "release",
              NEW e, Announces(Worker(c)[i], e)
       PROVE  \/ Seen(e)'
              \/ /\ i - 1 \in DOMAIN Worker(c)' /\ Worker(c)'[i - 1].kind # "release"
                 /\ Announces(Worker(c)'[i - 1], e)
  <2>1. CASE i = 1
    BY <1>3, <1>4, <1>8, <1>12, <2>1 DEF Announces, f, n
  <2>2. CASE i # 1
    <3>1. i - 1 \in DOMAIN Worker(c)' /\ Worker(c)'[i - 1] = Worker(c)[i]
      BY <1>4, <2>2
    <3> QED BY <1>12, <3>1
  <2> QED BY <2>1, <2>2
<1>13. KnownIsAnnounced'
  <2> SUFFICES ASSUME NEW d \in Queues, NEW e \in known[d]
               PROVE  Seen(e)' \/ Announced(d, e)'
    BY <1>3 DEF KnownIsAnnounced
  <2>1. IsEvent(e) /\ (Seen(e) \/ Announced(d, e))
    BY DEF OInv, EventsAreEvents, SInv, KnownIsAnnounced
  <2>2. CASE Seen(e)
    BY <1>9, <2>1, <2>2
  <2>3. CASE \E i \in DOMAIN Worker(d) : Worker(d)[i].kind # "release" /\ Announces(Worker(d)[i], e)
    <3>1. CASE d = c
      <4>1. PICK i \in DOMAIN Worker(c) :
              Worker(c)[i].kind # "release" /\ Announces(Worker(c)[i], e)
        BY <2>3, <3>1
      <4>2. PICK x, k : x = Worker(c)'[i - 1] /\ k = i - 1
        OBVIOUS
      <4>3. \/ Seen(e)'
            \/ k \in DOMAIN Worker(c)' /\ x.kind # "release" /\ Announces(x, e) /\ x = Worker(c)'[k]
        BY <1>12, <4>1, <4>2
      <4>4. Announces(x, e) => Announces(x, e)'
        BY <1>10
      <4> QED BY <3>1, <4>3, <4>4 DEF Announced
    <3>2. CASE d # c
      BY <1>10, <1>11, <2>3, <3>2 DEF Announced
    <3> QED BY <3>1, <3>2
  <2>4. CASE \E i \in DOMAIN Deferred(d) : Announces(Deferred(d)[i], e)
    BY <1>10, <1>11, <2>4 DEF Announced
  <2> QED BY <2>1, <2>2, <2>3, <2>4 DEF Announced
<1>14. SignalsAreAnnounced'
  <2> SUFFICES ASSUME NEW d \in Queues, NEW j \in DOMAIN Worker(d)', NEW x, x = Worker(d)'[j],
                      x.kind = "signal", NEW e \in followed[x.fence][x.update_count]
               PROVE  Seen(e)' \/ AnnouncedBefore(d, j, e)'
    BY <1>3 DEF SignalsAreAnnounced
  <2>1. CASE d = c
    <3>1. j \in 1..(Len(Worker(c)) - 1) /\ j + 1 \in DOMAIN Worker(c) /\ Worker(c)[j + 1] = x
      BY <1>4, <2>1
    <3>2. Seen(e) \/ AnnouncedBefore(c, j + 1, e)
      BY <3>1 DEF OInv, SInv, SignalsAreAnnounced
    <3>3. CASE Seen(e)
      <4>1. IsScheduled(x.fence, x.update_count)
        BY <3>1 DEF HInv, QueuesReferToUpdates
      <4>2. IsEvent(e)
        BY <4>1, ScheduledIsFollowed DEF OInv, EventsAreEvents, HInv
      <4> QED BY <1>9, <3>3, <4>2
    <3>4. CASE AnnouncedBefore(c, j + 1, e)
      <4>1. PICK i \in DOMAIN Worker(c) :
              i < j + 1 /\ Worker(c)[i].kind # "release" /\ Announces(Worker(c)[i], e)
        BY <3>4 DEF AnnouncedBefore
      <4>2. PICK y, k : y = Worker(c)'[i - 1] /\ k = i - 1
        OBVIOUS
      <4>3. \/ Seen(e)'
            \/ k \in DOMAIN Worker(c)' /\ y.kind # "release" /\ Announces(y, e) /\ y = Worker(c)'[k]
        BY <1>12, <4>1, <4>2
      <4>4. k < j
        BY <1>4, <3>1, <4>1, <4>2
      <4>5. Announces(y, e) => Announces(y, e)'
        BY <1>10
      <4> QED BY <2>1, <4>3, <4>4, <4>5 DEF AnnouncedBefore
    <3> QED BY <3>2, <3>3, <3>4
  <2>2. CASE d # c
    <3>1. j \in DOMAIN Worker(d) /\ Worker(d)[j] = x
      BY <1>11, <2>2
    <3>2. Seen(e) \/ AnnouncedBefore(d, j, e)
      BY <3>1 DEF OInv, SInv, SignalsAreAnnounced
    <3>3. IsScheduled(x.fence, x.update_count)
      BY <3>1 DEF HInv, QueuesReferToUpdates
    <3>4. IsEvent(e)
      BY <3>3, ScheduledIsFollowed DEF OInv, EventsAreEvents, HInv
    <3>5. AnnouncedBefore(d, j, e) => AnnouncedBefore(d, j, e)'
      BY <1>10, <1>11, <2>2 DEF AnnouncedBefore
    <3> QED BY <1>9, <3>2, <3>4, <3>5
  <2> QED BY <2>1, <2>2
<1>15. SignallersKnow'
  BY <1>3 DEF OInv, SInv, SignallersKnow, SignalledBy, IsCalled
<1>16. SignalledIsSeen'
  <2> SUFFICES ASSUME NEW h \in Fences, NEW m \in DOMAIN followed[h],
                      m <= fence'[h].signal_count, NEW e \in followed[h][m]
               PROVE  Seen(e)'
    BY <1>3 DEF SignalledIsSeen
  <2>1. CASE m <= fence[h].signal_count
    <3>1. Seen(e) /\ IsEvent(e)
      BY <2>1 DEF OInv, SInv, SignalledIsSeen, EventsAreEvents
    <3> QED BY <1>9, <3>1
  <2>2. CASE ~(m <= fence[h].signal_count)
    <3>1. kind = "signal" /\ h = f
      BY <1>6, <2>2
    <3>2. m <= n
      BY <1>6, <2>2, <3>1
    <3>3. e \in followed[f][n]
      BY <1>5, <3>1, <3>2 DEF OInv, SInv, SignallersKnow
    <3> QED BY <1>8, <3>1, <3>3
  <2> QED BY <2>1, <2>2
<1>17. EventsAreEvents'
  BY <1>3 DEF OInv, EventsAreEvents, IsEvent
<1> QED BY <1>13, <1>14, <1>15, <1>16, <1>17 DEF OInv, SInv

-----------------------------------------------------------------------------
(* The theorem.                                                            *)

LEMMA InitOInv ==
  ASSUME Init PROVE OInv /\ CallsAreOfProgram
<1>1. EventsAreEvents /\ KnownIsAnnounced /\ SignallersKnow /\ SignalledIsSeen
  BY DEF Init, EventsAreEvents, KnownIsAnnounced, SignallersKnow, SignalledIsSeen
<1>2. SignalsAreAnnounced /\ CallsAreOfProgram
  BY DEF Init, NewQueue, SignalsAreAnnounced, CallsAreOfProgram, Worker, Calls
<1> QED BY <1>1, <1>2 DEF OInv, SInv

LEMMA NextOInv ==
  ASSUME OneSignaller, IInv, device_lost \/ (HInv /\ OInv /\ CallsAreOfProgram), [Next]_vars
  PROVE  device_lost' \/ (OInv' /\ CallsAreOfProgram')
<1> SUFFICES ASSUME ~device_lost' PROVE OInv' /\ CallsAreOfProgram'
  OBVIOUS
<1>1. ~device_lost /\ HInv /\ OInv /\ CallsAreOfProgram
  BY StepsWhileDeviceWorks
<1>2. CallsAreOfProgram'
  BY <1>1, CallsStep
<1>3. ASSUME \/ ApplicationStep \/ UNCHANGED vars \/ \E c \in Queues : CallEnds(c)
      PROVE  OInv'
  <2>1. /\ \A d \in Queues : Unmoved(d)
        /\ FencesIdle /\ UNCHANGED <<program, known, followed>>
    BY <1>3, CalmSteps
  <2> QED BY <1>1, <2>1, CalmOInv DEF Unmoved, FencesIdle, FenceIdle
<1>4. ASSUME NEW c \in Queues,
             \/ Resolution(c) \/ FlushWaiters(c) \/ Execute(c) \/ Signals(c) \/ FenceWorker(c)
      PROVE  OInv'
  BY <1>1, <1>4, ResolutionOInv, FlushOInv, ExecuteOInv, SignalsOInv, FenceWorkerOInv
<1>5. ASSUME NEW v \in VkQueues, Gpu(v) PROVE OInv'
  BY <1>1, <1>5, CalmOInv DEF Gpu, Worker, Deferred
<1> QED BY <1>2, <1>3, <1>4, <1>5, StepsWhileDeviceWorks

\* As long as the device works and one command queue signals a fence, no signal
\* is seen before one that it follows, through however many queues and fence
\* workers (ensure_fence_signal_order, push_fence_waits_to_worker).
THEOREM SignalOrderCorrect == OneSignaller => (Spec => [](device_lost \/ SignalsKeepOrder))
<1> SUFFICES ASSUME OneSignaller PROVE Spec => [](device_lost \/ SignalsKeepOrder)
  OBVIOUS
<1>1. Init => device_lost \/ (OInv /\ CallsAreOfProgram)
  BY InitOInv
<1>2. IInv /\ (device_lost \/ HInv) /\ (device_lost \/ (OInv /\ CallsAreOfProgram)) /\ [Next]_vars
        => (device_lost \/ (OInv /\ CallsAreOfProgram))'
  BY NextOInv
<1>3. HInv /\ OInv => SignalsKeepOrder
  <2> SUFFICES ASSUME HInv, OInv, NEW f \in Fences, NEW n \in 1..fence[f].signal_count,
                      NEW e \in followed[f][n], e[1] \in Fences
               PROVE  e[2] <= fence[e[1]].signal_count
    BY DEF SignalsKeepOrder
  <2>1. /\ fence[f].signal_count \in 0..fence[f].update_count /\ fence[f].update_count \in Nat
        /\ IsSeq(followed[f]) /\ Len(followed[f]) = fence[f].update_count
    BY DEF HInv, HistoryShape
  <2>2. n \in DOMAIN followed[f] /\ n <= fence[f].signal_count
    <3>1. DOMAIN followed[f] = 1..fence[f].update_count
      BY <2>1, AppendElements
    <3> QED BY <2>1, <3>1
  <2> QED BY <2>2 DEF OInv, SInv, SignalledIsSeen, Seen
<1> QED BY <1>1, <1>2, <1>3, HistoryInvariance, PTL DEF Spec

-----------------------------------------------------------------------------
(* Proofs about command queues: the work that a signal follows is finished *)
(* when the signal is seen, and work runs after the work it follows.       *)

-----------------------------------------------------------------------------
(* Work and signals.  A queue knows work because it submitted it, or       *)
(* because a signal that it waited for followed it.                        *)

IsPending(v, e, n) ==
  \E i \in DOMAIN Submitted(v) : e \in Submitted(v)[i].work /\ Submitted(v)[i].value <= n

\* The GPU has finished work e when VkQueue v reaches n.
FinishedBy(v, e, n) == e \in done \/ IsPending(v, e, n)

IsUpdate(x) == x[1] \in Fences /\ x[2] \in DOMAIN followed[x[1]]

Reported(S, e) == \E x \in S : IsUpdate(x) /\ e \in followed[x[1]][x[2]]

KnownWork ==
  \A c \in Queues : \A e \in Works(known[c]) :
    FinishedBy(VkQueueOf[c], e, Last(c)) \/ Reported(known[c], e)

SignalledWork ==
  \A c \in Queues : \A j \in DOMAIN Worker(c) : Worker(c)[j].kind = "signal" =>
    \A e \in Works(followed[Worker(c)[j].fence][Worker(c)[j].update_count]) :
      \/ FinishedBy(VkQueueOf[c], e, Worker(c)[j].value)
      \/ Reported(followed[Worker(c)[j].fence][Worker(c)[j].update_count], e)

SeenWorkIsDone ==
  \A f \in Fences : \A n \in DOMAIN followed[f] :
    n <= fence[f].signal_count => Works(followed[f][n]) \subseteq done

DInv == KnownWork /\ SignalledWork /\ SeenWorkIsDone

LEMMA ReportedStays ==
  ASSUME HistoryShape, \A f \in Fences : Longer(followed[f], followed'[f]),
         DOMAIN followed' = Fences,
         NEW S, NEW T, S \subseteq T, NEW e, Reported(S, e)
  PROVE  Reported(T, e)'
BY DEF Reported, IsUpdate, Longer

\* Steps that finish nothing may submit more work, and schedule signals.
LEMMA PendingStays ==
  ASSUME NEW v \in VkQueues, Longer(Submitted(v), Submitted(v)'),
         \A i \in DOMAIN Submitted(v) : Submitted(v)[i].value \in Nat,
         NEW n \in Nat, NEW m \in Nat, n <= m,
         done' = done, NEW e, FinishedBy(v, e, n)
  PROVE  FinishedBy(v, e, m)'
BY DEF FinishedBy, IsPending, Longer

LEMMA SubmittedValues ==
  ASSUME IInv, HInv, NEW v \in VkQueues
  PROVE  /\ IsSeq(Submitted(v)) /\ Count(v) \in Nat /\ Reached(v) \in Nat
         /\ \A i \in DOMAIN Submitted(v) :
              Submitted(v)[i].value \in Nat /\ Reached(v) < Submitted(v)[i].value
<1>1. IsSeq(Submitted(v)) /\ Count(v) \in Nat /\ Reached(v) \in Nat
  BY DEF IInv, Shape, Submitted, HInv, Timeline
<1>2. DOMAIN Submitted(v) = 1..Len(Submitted(v)) /\ Len(Submitted(v)) \in Nat
  BY <1>1, AppendElements
<1> QED BY <1>1, <1>2 DEF HInv, Timeline

\* The value a signal item waits for is one of the queue's timeline.
SignalValues ==
  \A c \in Queues : \A j \in DOMAIN Worker(c) : Worker(c)[j].kind = "signal" =>
    Worker(c)[j].value \in Nat /\ Worker(c)[j].value <= Count(VkQueueOf[c])

\* Steps that only append to the worker of queue c, and no signal, see no signal
\* and finish no work.
LEMMA GrowingDInv ==
  ASSUME IInv, IInv', HInv, DInv, SignalValues, NEW c \in Queues, OthersUnmoved(c),
         followed' = followed, done' = done,
         \A f \in Fences : fence'[f].signal_count = fence[f].signal_count,
         Longer(Worker(c), Worker(c)'),
         \A j \in DOMAIN Worker(c)' : j \in DOMAIN Worker(c) \/ Worker(c)'[j].kind # "signal",
         \A v \in VkQueues : Longer(Submitted(v), Submitted(v)') /\ Count(v) <= Count(v)',
         NEW last, last = Last(c)', Last(c) <= last,
         \A d \in Queues \ {c} : known'[d] = known[d], known[c] \subseteq known'[c],
         \A e \in Works(known'[c]) \ known[c] :
           FinishedBy(VkQueueOf[c], e, last)' \/ Reported(known'[c], e)
  PROVE  DInv' /\ SignalValues'
<1>1. \A d \in Queues : /\ VkQueueOf[d] \in VkQueues /\ Last(d) \in Nat /\ Last(d)' \in Nat
                        /\ Last(d) <= Last(d)' /\ known[d] \subseteq known'[d]
  <2>1. \A d \in Queues : VkQueueOf[d] \in VkQueues
    BY ProgramsAssumption
  <2>2. \A d \in Queues : Last(d) \in Nat /\ Last(d)' \in Nat
    BY <2>1 DEF IInv, QueuesOnTheirWay, OnItsWay, Last, Shape
  <2> QED BY <2>1, <2>2 DEF OthersUnmoved, Unmoved
<1>2. \A S, e : Reported(S, e)' <=> Reported(S, e)
  BY DEF Reported, IsUpdate
<1>3. \A v \in VkQueues : \A n, m \in Nat : \A e : n <= m /\ FinishedBy(v, e, n) => FinishedBy(v, e, m)'
  BY PendingStays, SubmittedValues
<1>4. KnownWork'
  <2> SUFFICES ASSUME NEW d \in Queues, NEW e \in Works(known'[d]), NEW n, n = Last(d)'
               PROVE  FinishedBy(VkQueueOf[d], e, n)' \/ Reported(known'[d], e)
    BY <1>2 DEF KnownWork, Works
  <2>1. CASE e \in known[d]
    <3>1. FinishedBy(VkQueueOf[d], e, Last(d)) \/ Reported(known[d], e)
      BY <2>1 DEF DInv, KnownWork, Works
    <3>2. Reported(known[d], e) => Reported(known'[d], e)
      BY <1>1 DEF Reported
    <3> QED BY <1>1, <1>3, <3>1, <3>2
  <2>2. CASE e \notin known[d]
    <3>1. d = c /\ n = last
      BY <2>2 DEF Works
    <3>2. FinishedBy(VkQueueOf[c], e, last)' \/ Reported(known'[c], e)
      BY <2>2, <3>1
    <3> QED BY <3>1, <3>2
  <2> QED BY <2>1, <2>2
<1>5. ASSUME NEW d \in Queues, NEW j \in DOMAIN Worker(d)', Worker(d)'[j].kind = "signal"
      PROVE  j \in DOMAIN Worker(d) /\ Worker(d)'[j] = Worker(d)[j]
  BY <1>5 DEF OthersUnmoved, Unmoved, Longer
<1>6. SignalledWork' /\ SignalValues'
  <2> SUFFICES ASSUME NEW d \in Queues, NEW j \in DOMAIN Worker(d)', NEW x, x = Worker(d)'[j],
                      x.kind = "signal"
               PROVE  /\ x.value \in Nat /\ x.value <= Count(VkQueueOf[d])'
                      /\ \A e \in Works(followed[x.fence][x.update_count]) :
                           \/ FinishedBy(VkQueueOf[d], e, x.value)'
                           \/ Reported(followed[x.fence][x.update_count], e)
    BY <1>2 DEF SignalledWork, SignalValues, Works
  <2>1. j \in DOMAIN Worker(d) /\ Worker(d)[j] = x
    BY <1>5
  <2>2. x.value \in Nat /\ x.value <= Count(VkQueueOf[d])
    BY <2>1 DEF SignalValues
  <2>3. x.value <= Count(VkQueueOf[d])'
    <3>1. /\ VkQueueOf[d] \in VkQueues /\ Count(VkQueueOf[d]) \in Nat /\ Count(VkQueueOf[d])' \in Nat
          /\ Count(VkQueueOf[d]) <= Count(VkQueueOf[d])'
      BY <1>1 DEF IInv, Shape
    <3> QED BY <2>2, <3>1
  <2>4. ASSUME NEW e \in Works(followed[x.fence][x.update_count])
        PROVE  \/ FinishedBy(VkQueueOf[d], e, x.value)'
               \/ Reported(followed[x.fence][x.update_count], e)
    <3>1. \/ FinishedBy(VkQueueOf[d], e, x.value)
          \/ Reported(followed[x.fence][x.update_count], e)
      BY <2>1 DEF DInv, SignalledWork
    <3> QED BY <1>1, <1>3, <2>2, <3>1
  <2> QED BY <2>2, <2>3, <2>4
<1>7. SeenWorkIsDone'
  BY DEF DInv, SeenWorkIsDone, Works
<1> QED BY <1>4, <1>6, <1>7 DEF DInv

LEMMA CalmDInv ==
  ASSUME IInv, IInv', HInv, DInv, SignalValues, \A d \in Queues : Unmoved(d),
         UNCHANGED <<vk_queue, known, followed, done>>,
         \A f \in Fences : fence'[f].signal_count = fence[f].signal_count
  PROVE  DInv' /\ SignalValues'
<1>1. \A v, e, n : FinishedBy(v, e, n)' <=> FinishedBy(v, e, n)
  BY DEF FinishedBy, IsPending, Submitted
<1>2. \A S, e : Reported(S, e)' <=> Reported(S, e)
  BY DEF Reported, IsUpdate
<1>3. KnownWork' 
  BY <1>1, <1>2 DEF DInv, KnownWork, Unmoved, Works
<1>4. SignalledWork'
  BY <1>1, <1>2 DEF DInv, SignalledWork, Unmoved, Works
<1>5. SeenWorkIsDone' /\ SignalValues'
  BY DEF DInv, SeenWorkIsDone, SignalValues, Unmoved, Works, Count
<1> QED BY <1>3, <1>4, <1>5 DEF DInv

LEMMA ResolutionDInv ==
  ASSUME IInv, IInv', HInv, DInv, SignalValues, NEW c \in Queues, Resolution(c)
  PROVE  DInv' /\ SignalValues'
<1> DEFINE Resolved(f, u) ==
             /\ Last(c)' = Last(c) /\ OthersUnmoved(c)
             /\ \/ Worker(c)' = Append(Worker(c), OrderItem(f, u.update_count))
                \/ Worker(c)' = Worker(c)
             /\ fence' = [fence EXCEPT ![f] = ConsumeTicket(@, Current(c).ticket)]
             /\ known' = [known EXCEPT ![c] = @ \cup followed[f][u.update_count]
                                                 \cup {<<f, u.update_count>>}]
             /\ UNCHANGED <<gpu, followed, done>>
<1>1. PICK f \in Fences : \E u \in fence[f].pending_updates : Resolved(f, u)
  BY ResolutionEffect DEF Resolution
<1>2. PICK u \in fence[f].pending_updates : Resolved(f, u)
  BY <1>1
<1> DEFINE n == u.update_count
<1>3. \A h \in Fences : fence'[h].signal_count = fence[h].signal_count
  <2>1. FenceIdle(fence[f], ConsumeTicket(fence[f], Current(c).ticket))
    BY FenceFieldsOf DEF IInv, Shape
  <2> QED BY <1>2, <2>1, OneFenceIdle DEF FencesIdle, FenceIdle
<1>4. n \in DOMAIN followed[f]
  <2>1. IsScheduled(f, n)
    BY DEF HInv, HistoryShape
  <2> QED BY <2>1, ScheduledIsFollowed DEF HInv
<1>5. /\ \A d \in Queues \ {c} : known'[d] = known[d]
      /\ known'[c] = known[c] \cup followed[f][n] \cup {<<f, n>>}
  BY <1>2 DEF HInv, HistoryShape
<1>6. /\ Longer(Worker(c), Worker(c)')
      /\ \A j \in DOMAIN Worker(c)' : j \in DOMAIN Worker(c) \/ Worker(c)'[j].kind # "signal"
  <2>1. CASE Worker(c)' = Worker(c)
    BY <2>1, WorkersAreSequences DEF Longer
  <2>2. CASE Worker(c)' = Append(Worker(c), OrderItem(f, n))
    <3>1. /\ Len(Worker(c)) \in Nat /\ DOMAIN Worker(c) = 1..Len(Worker(c))
          /\ DOMAIN Worker(c)' = 1..(Len(Worker(c)) + 1)
          /\ Worker(c)'[Len(Worker(c)) + 1] = OrderItem(f, n)
      BY <2>2, WorkersAreSequences, AppendElements
    <3>2. Longer(Worker(c), Worker(c)')
      BY <2>2, WorkersAreSequences, AppendIsLonger
    <3>3. \A j \in DOMAIN Worker(c)' : j \in DOMAIN Worker(c) \/ j = Len(Worker(c)) + 1
      BY <3>1
    <3> QED BY <3>1, <3>2, <3>3 DEF OrderItem
  <2> QED BY <1>2, <2>1, <2>2
<1>7. ASSUME NEW e \in Works(known'[c]) \ known[c] PROVE Reported(known'[c], e)
  <2>1. e # <<f, n>>
    BY ProgramsAssumption DEF Works
  <2>2. e \in followed[f][n] /\ <<f, n>> \in known'[c] /\ IsUpdate(<<f, n>>)
    BY <1>4, <1>5, <1>7, <2>1 DEF Works, IsUpdate
  <2> QED BY <2>2 DEF Reported
<1>8. \A v \in VkQueues : Longer(Submitted(v), Submitted(v)') /\ Count(v) <= Count(v)'
  BY <1>2, SubmittedValues DEF Longer, Submitted, Count, gpu
<1>9. PICK last : last = Last(c)'
  OBVIOUS
<1>10. Last(c) <= last
  BY <1>2, <1>9, ProgramsAssumption DEF IInv, QueuesOnTheirWay, OnItsWay, Shape, Last
<1> QED BY <1>2, <1>3, <1>5, <1>6, <1>7, <1>8, <1>9, <1>10, GrowingDInv

LEMMA SubmissionGrows ==
  ASSUME IInv, HInv, NEW c \in Queues, NEW work, SubmitWork(c, work)
  PROVE  \A v \in VkQueues : Longer(Submitted(v), Submitted(v)') /\ Count(v) <= Count(v)'
<1>1. LET v == VkQueueOf[c] IN
      /\ v \in VkQueues /\ Count(v)' = Count(v) + 1
      /\ \E s : Submitted(v)' = Append(Submitted(v), s)
      /\ \A x \in VkQueues \ {v} : vk_queue'[x] = vk_queue[x]
  BY SubmitEffect
<1>2. Longer(Submitted(VkQueueOf[c]), Submitted(VkQueueOf[c])')
  BY <1>1, SubmittedValues, AppendIsLonger
<1>3. \A v \in VkQueues : Longer(Submitted(v), Submitted(v))
  BY SubmittedValues DEF Longer
<1>4. \A v \in VkQueues \ {VkQueueOf[c]} : Submitted(v)' = Submitted(v) /\ Count(v)' = Count(v)
  BY <1>1 DEF Submitted, Count
<1>5. Count(VkQueueOf[c]) <= Count(VkQueueOf[c])'
  BY <1>1, SubmittedValues
<1>6. \A v \in VkQueues \ {VkQueueOf[c]} : Count(v) <= Count(v)'
  BY <1>4, SubmittedValues
<1> QED BY <1>2, <1>3, <1>4, <1>5, <1>6

LEMMA LastIsUnsignalled ==
  ASSUME NEW s, NEW w, Longer(s, w), NEW item, item.kind # "signal",
         \A j \in DOMAIN w : j \in DOMAIN s \/ w[j].kind # "signal"
  PROVE  /\ Longer(s, Append(w, item))
         /\ \A j \in DOMAIN Append(w, item) :
              j \in DOMAIN s \/ Append(w, item)[j].kind # "signal"
<1>1. IsSeq(w)
  BY DEF Longer
<1>2. /\ Longer(w, Append(w, item)) /\ Len(w) \in Nat /\ DOMAIN w = 1..Len(w)
      /\ DOMAIN Append(w, item) = 1..(Len(w) + 1) /\ Append(w, item)[Len(w) + 1] = item
  BY <1>1, AppendElements, AppendIsLonger
<1>3. \A j \in DOMAIN Append(w, item) : j \in DOMAIN w \/ j = Len(w) + 1
  BY <1>2
<1>4. Longer(s, Append(w, item))
  BY <1>2, LongerIsTransitive
<1> QED BY <1>2, <1>3, <1>4 DEF Longer

LEMMA FlushDInv ==
  ASSUME IInv, IInv', HInv, DInv, SignalValues, NEW c \in Queues, FlushWaiters(c)
  PROVE  DInv' /\ SignalValues'
<1>1. /\ Worker(c)' = Worker(c) \o Orders(Deferred(c)) /\ OthersUnmoved(c)
      /\ \/ Last(c)' = Last(c) /\ UNCHANGED gpu
         \/ Last(c)' = NextTimelineValue(c) /\ SubmitWork(c, {})
      /\ UNCHANGED <<fence, known, followed, done>>
  BY FlushEffect DEF history
<1>2. /\ Longer(Worker(c), Worker(c)')
      /\ \A j \in DOMAIN Worker(c)' : j \in DOMAIN Worker(c) \/ Worker(c)'[j].kind # "signal"
  <2>1. LET w == Worker(c) \o Orders(Deferred(c)) IN
        /\ Longer(Worker(c), w)
        /\ \A j \in DOMAIN w : j \in DOMAIN Worker(c) \/ w[j].kind # "signal"
    BY FinalizedWorker, FinalizedIsUnsignalled
  <2> QED BY <1>1, <2>1
<1>3. Last(c) \in 0..Count(VkQueueOf[c]) /\ Count(VkQueueOf[c]) \in Nat
  BY ProgramsAssumption DEF IInv, QueuesOnTheirWay, OnItsWay, Shape, Last
<1>4. PICK last : last = Last(c)'
  OBVIOUS
<1>5. Last(c) <= last /\ \A v \in VkQueues : Longer(Submitted(v), Submitted(v)') /\ Count(v) <= Count(v)'
  <2>1. CASE Last(c)' = Last(c) /\ UNCHANGED gpu
    BY <1>3, <1>4, <2>1, SubmittedValues DEF Longer, Submitted, Count, gpu
  <2>2. CASE Last(c)' = NextTimelineValue(c) /\ SubmitWork(c, {})
    <3>1. NextTimelineValue(c) = Count(VkQueueOf[c]) + 1
      BY <2>2, SubmitEffect
    <3>2. Last(c) <= last
      BY <1>3, <1>4, <2>2, <3>1
    <3> QED BY <2>2, <3>2, SubmissionGrows
  <2> QED BY <1>1, <2>1, <2>2
<1>6. known' = known /\ Works(known'[c]) \ known[c] = {}
  BY <1>1 DEF Works
<1> QED BY <1>1, <1>2, <1>4, <1>5, <1>6, GrowingDInv

LEMMA ExecuteDInv ==
  ASSUME IInv, IInv', HInv, DInv, SignalValues, NEW c \in Queues, Execute(c)
  PROVE  DInv' /\ SignalValues'
<1> DEFINE w == Worker(c) \o Orders(Deferred(c))
           item == ReleaseItem(NextWork(c), NextTimelineValue(c))
<1>1. /\ Worker(c)' = Append(w, item) /\ OthersUnmoved(c)
      /\ Last(c)' = NextTimelineValue(c) /\ SubmitWork(c, {NextWork(c)})
      /\ known' = [known EXCEPT ![c] = @ \cup {NextWork(c)}]
      /\ UNCHANGED <<fence, followed, done>>
  BY ExecuteEffect
<1>2. /\ Longer(Worker(c), w) /\ IsSeq(w)
      /\ \A j \in DOMAIN w : j \in DOMAIN Worker(c) \/ w[j].kind # "signal"
  BY FinalizedWorker, FinalizedIsUnsignalled
<1>a. item.kind = "release"
  BY DEF ReleaseItem
<1>b. NextTimelineValue(c) = Count(VkQueueOf[c]) + 1 /\ VkQueueOf[c] \in VkQueues
  BY <1>1, SubmitEffect
<1> HIDE DEF w, item
<1>3. /\ Longer(Worker(c), Worker(c)')
      /\ \A j \in DOMAIN Worker(c)' : j \in DOMAIN Worker(c) \/ Worker(c)'[j].kind # "signal"
  BY <1>1, <1>2, <1>a, LastIsUnsignalled
<1>4. /\ \A d \in Queues \ {c} : known'[d] = known[d]
      /\ known'[c] = known[c] \cup {NextWork(c)}
  BY <1>1 DEF HInv, HistoryShape
<1>5. PICK last, x : last = Last(c)' /\ x = NextWork(c)
  OBVIOUS
<1>6. Last(c) <= last /\ \A v \in VkQueues : Longer(Submitted(v), Submitted(v)') /\ Count(v) <= Count(v)'
  <2>1. Last(c) \in 0..Count(VkQueueOf[c]) /\ Count(VkQueueOf[c]) \in Nat
    BY ProgramsAssumption DEF IInv, QueuesOnTheirWay, OnItsWay, Shape, Last
  <2>2. Last(c) <= last
    BY <1>1, <1>5, <1>b, <2>1
  <2> QED BY <1>1, <2>2, SubmissionGrows
<1>7. FinishedBy(VkQueueOf[c], x, last)'
  <2>1. PICK j \in DOMAIN Submitted(VkQueueOf[c])' :
          /\ Submitted(VkQueueOf[c])'[j].work = {NextWork(c)}
          /\ Submitted(VkQueueOf[c])'[j].value = NextTimelineValue(c)
    BY <1>1, SubmitTimeline DEF HInv
  <2>2. last = NextTimelineValue(c) /\ last \in Nat
    BY <1>1, <1>5, <1>b, SubmittedValues
  <2> QED BY <1>5, <2>1, <2>2 DEF FinishedBy, IsPending
<1>8. \A e \in Works(known'[c]) \ known[c] : FinishedBy(VkQueueOf[c], e, last)'
  BY <1>4, <1>5, <1>7 DEF Works
<1> QED BY <1>1, <1>3, <1>4, <1>5, <1>6, <1>8, GrowingDInv

\* A signal follows what its queue knows at the queue's last submission.
LEMMA SignalsDInv ==
  ASSUME IInv, HInv, DInv, SignalValues, NEW c \in Queues, Signals(c)
  PROVE  DInv' /\ SignalValues'
<1>1. PICK f \in Fences : \E n, value :
        /\ n = fence[f].update_count + 1
        /\ Worker(c)' = Append(Worker(c), SignalItem(f, n, Last(c)))
        /\ Last(c)' = Last(c) /\ OthersUnmoved(c)
        /\ fence' = [fence EXCEPT ![f] = AddPendingSignal(@, value, VkQueueOf[c], Last(c))]
        /\ followed' = [followed EXCEPT ![f] = Append(@, known[c])]
        /\ known' = [known EXCEPT ![c] = @ \cup {<<f, n>>}]
        /\ UNCHANGED <<gpu, done>>
  BY SignalsEffect
<1>2. PICK n, value :
        /\ n = fence[f].update_count + 1
        /\ Worker(c)' = Append(Worker(c), SignalItem(f, n, Last(c)))
        /\ Last(c)' = Last(c) /\ OthersUnmoved(c)
        /\ fence' = [fence EXCEPT ![f] = AddPendingSignal(@, value, VkQueueOf[c], Last(c))]
        /\ followed' = [followed EXCEPT ![f] = Append(@, known[c])]
        /\ known' = [known EXCEPT ![c] = @ \cup {<<f, n>>}]
        /\ UNCHANGED <<gpu, done>>
  BY <1>1
<1>3. /\ n \in Nat /\ fence[f].signal_count < n /\ fence[f].signal_count \in Nat
      /\ IsSeq(followed[f]) /\ DOMAIN followed[f] = 1..(n - 1) /\ Len(followed[f]) = n - 1
  <2>1. /\ fence[f].signal_count \in 0..fence[f].update_count /\ fence[f].update_count \in Nat
        /\ IsSeq(followed[f]) /\ Len(followed[f]) = fence[f].update_count
    BY DEF HInv, HistoryShape
  <2>2. DOMAIN followed[f] = 1..fence[f].update_count
    BY <2>1, AppendElements
  <2>3. n = fence[f].update_count + 1
    BY <1>2
  <2>4. n - 1 = fence[f].update_count /\ n \in Nat
    BY <2>1, <2>3
  <2>5. fence[f].signal_count \in Nat /\ fence[f].signal_count < n
    BY <2>1, <2>3
  <2> QED BY <2>1, <2>2, <2>4, <2>5
<1>4. \A h \in Fences : fence'[h].signal_count = fence[h].signal_count
  <2>1. DOMAIN fence[f] = FenceFields /\ DOMAIN fence = Fences
    BY DEF IInv, Shape
  <2> QED BY <1>2, <2>1, FenceFieldsOf
<1>5. /\ followed'[f] = Append(followed[f], known[c])
      /\ \A h \in Fences \ {f} : followed'[h] = followed[h]
      /\ known'[c] = known[c] \cup {<<f, n>>}
      /\ \A d \in Queues \ {c} : known'[d] = known[d]
      /\ DOMAIN followed' = Fences
  BY <1>2 DEF HInv, HistoryShape
<1>6. /\ DOMAIN followed'[f] = 1..n /\ followed'[f][n] = known[c]
      /\ \A m \in 1..(n - 1) : followed'[f][m] = followed[f][m]
  BY <1>3, <1>5, AppendElements
<1>7. \A h \in Fences : Longer(followed[h], followed'[h])
  <2>1. Longer(followed[f], followed'[f])
    BY <1>3, <1>5, AppendIsLonger
  <2> QED BY <1>5, <2>1 DEF Longer, HInv, HistoryShape
<1>8. \A S, T, e : S \subseteq T /\ Reported(S, e) => Reported(T, e)'
  BY <1>5, <1>7, ReportedStays DEF HInv
<1>9. \A v, e, m : FinishedBy(v, e, m)' <=> FinishedBy(v, e, m)
  BY <1>2 DEF FinishedBy, IsPending, Submitted, gpu
<1>10. <<f, n>>[1] \notin Queues
  BY ProgramsAssumption
<1>11. KnownWork'
  <2>a. \A d \in Queues : Last(d)' = Last(d)
    BY <1>2 DEF OthersUnmoved, Unmoved
  <2> SUFFICES ASSUME NEW d \in Queues, NEW S, S = known'[d], NEW e \in Works(S)
               PROVE  FinishedBy(VkQueueOf[d], e, Last(d)) \/ Reported(S, e)'
    BY <1>9, <2>a DEF KnownWork, Works
  <2>1. e \in Works(known[d]) /\ known[d] \subseteq S
    BY <1>5, <1>10 DEF Works
  <2> QED BY <1>8, <2>1 DEF DInv, KnownWork
<1> DEFINE l == Len(Worker(c)) + 1
<1>12. /\ l \in DOMAIN Worker(c)' /\ Worker(c)'[l] = SignalItem(f, n, Last(c))
       /\ \A i \in DOMAIN Worker(c)' : i \in DOMAIN Worker(c) \/ i = l
       /\ Longer(Worker(c), Worker(c)')
  BY <1>2, WorkersAreSequences, AppendElements, AppendIsLonger
<1> HIDE DEF l
<1>13. ASSUME NEW d \in Queues, NEW j \in DOMAIN Worker(d)'
       PROVE  \/ j \in DOMAIN Worker(d) /\ Worker(d)'[j] = Worker(d)[j]
              \/ d = c /\ Worker(d)'[j] = SignalItem(f, n, Last(c))
  BY <1>2, <1>12 DEF OthersUnmoved, Unmoved, Longer
<1>14. SignalledWork' /\ SignalValues'
  <2> SUFFICES ASSUME NEW d \in Queues, NEW j \in DOMAIN Worker(d)', NEW x, x = Worker(d)'[j],
                      x.kind = "signal", NEW S, S = followed'[x.fence][x.update_count]
               PROVE  /\ x.value \in Nat /\ x.value <= Count(VkQueueOf[d])
                      /\ \A e \in Works(S) :
                           FinishedBy(VkQueueOf[d], e, x.value) \/ Reported(S, e)'
    BY <1>2, <1>9 DEF SignalledWork, SignalValues, Works, Count, gpu
  <2>1. CASE j \in DOMAIN Worker(d) /\ x = Worker(d)[j]
    <3>1. IsScheduled(x.fence, x.update_count)
      BY <2>1 DEF HInv, QueuesReferToUpdates
    <3>2. S = followed[x.fence][x.update_count]
      BY <1>7, <3>1, ScheduledIsFollowed DEF HInv, Longer
    <3> QED BY <1>8, <2>1, <3>2 DEF DInv, SignalledWork, SignalValues
  <2>2. CASE d = c /\ x = SignalItem(f, n, Last(c))
    <3>1. x.fence = f /\ x.update_count = n /\ x.value = Last(c)
      BY <2>2 DEF SignalItem
    <3>2. Last(c) \in Nat /\ Last(c) <= Count(VkQueueOf[c])
      BY ProgramsAssumption DEF IInv, QueuesOnTheirWay, OnItsWay, Shape, Last
    <3>3. S = known[c]
      BY <1>3, <1>6, <3>1
    <3>4. \A e \in Works(S) : FinishedBy(VkQueueOf[c], e, Last(c)) \/ Reported(S, e)
      BY <3>3 DEF DInv, KnownWork
    <3> QED BY <1>8, <2>2, <3>1, <3>2, <3>4
  <2> QED BY <1>13, <2>1, <2>2
<1>15. SeenWorkIsDone'
  <2> SUFFICES ASSUME NEW h \in Fences, NEW m \in DOMAIN followed'[h], m <= fence[h].signal_count
               PROVE  Works(followed'[h][m]) \subseteq done
    BY <1>2, <1>4 DEF SeenWorkIsDone, Works
  <2>1. m \in DOMAIN followed[h] /\ followed'[h][m] = followed[h][m]
    <3>1. CASE h = f
      <4>1. m \in 1..n /\ m # n
        BY <1>3, <1>6, <3>1
      <4> QED BY <1>3, <1>6, <3>1, <4>1
    <3>2. CASE h # f
      BY <1>5, <3>2
    <3> QED BY <3>1, <3>2
  <2> QED BY <2>1 DEF DInv, SeenWorkIsDone
<1> QED BY <1>11, <1>14, <1>15 DEF DInv

\* A fence worker signals when its VkQueue has reached the value, and when
\* every signal that this one follows has been seen.
LEMMA FenceWorkerDInv ==
  ASSUME IInv, HInv, OInv, DInv, SignalValues, NEW c \in Queues, FenceWorker(c), ~device_lost
  PROVE  DInv' /\ SignalValues'
<1>1. PICK kind : NextItem(c, kind) /\ \/ kind = "order" /\ EnsuresOrder(c)
                                       \/ kind = "signal" /\ SignalsFence(c)
                                       \/ kind = "release" /\ ReleasesSubmission(c)
  BY DEF FenceWorker, EnsuresOrder, SignalsFence, DropsSignal, ReleasesSubmission
<1>2. PICK item : item = Head(Worker(c))
  OBVIOUS
<1>3. /\ Worker(c) # <<>> /\ item.kind = kind /\ Worker(c)' = Tail(Worker(c))
      /\ Last(c)' = Last(c) /\ OthersUnmoved(c)
      /\ UNCHANGED <<gpu, known, followed, done>>
  BY <1>1, <1>2, FenceWorkerEffect DEF NextItem, history
<1>4. /\ Len(Worker(c)) \in Nat \ {0} /\ DOMAIN Worker(c) = 1..Len(Worker(c))
      /\ DOMAIN Worker(c)' = 1..(Len(Worker(c)) - 1) /\ item = Worker(c)[1]
      /\ \A i \in 1..(Len(Worker(c)) - 1) : Worker(c)'[i] = Worker(c)[i + 1]
  BY <1>2, <1>3, WorkersAreSequences, TailElements
<1> DEFINE f == item.fence
           n == item.update_count
           v == VkQueueOf[c]
<1>5. \A x, e, m : FinishedBy(x, e, m)' <=> FinishedBy(x, e, m)
  BY <1>3 DEF FinishedBy, IsPending, Submitted, gpu
<1>6. \A S, e : Reported(S, e)' <=> Reported(S, e)
  BY <1>3 DEF Reported, IsUpdate
<1>7. KnownWork'
  BY <1>3, <1>5, <1>6 DEF DInv, KnownWork, Works, OthersUnmoved, Unmoved
<1>8. SignalledWork' /\ SignalValues'
  <2>1. ASSUME NEW d \in Queues, NEW j \in DOMAIN Worker(d)'
        PROVE  \E i \in DOMAIN Worker(d) : Worker(d)'[j] = Worker(d)[i]
    <3>1. CASE d = c
      <4>1. j + 1 \in DOMAIN Worker(c) /\ Worker(c)'[j] = Worker(c)[j + 1]
        BY <1>4, <2>1, <3>1
      <4> QED BY <3>1, <4>1
    <3>2. CASE d # c
      BY <1>3, <2>1, <3>2 DEF OthersUnmoved, Unmoved
    <3> QED BY <3>1, <3>2
  <2> QED BY <1>3, <1>5, <1>6, <2>1 DEF DInv, SignalledWork, SignalValues, Works, Count, gpu
<1>9. SeenWorkIsDone'
  <2>1. CASE kind # "signal"
    <3>1. fence' = fence
      BY <1>1, <2>1 DEF EnsuresOrder, ReleasesSubmission
    <3> QED BY <1>3, <3>1 DEF DInv, SeenWorkIsDone, Works
  <2>2. CASE kind = "signal"
    <3>1. /\ f \in Fences /\ DOMAIN followed[f] = 1..fence[f].update_count
          /\ n \in DOMAIN followed[f] /\ n \in Nat
      <4>1. IsScheduled(f, n)
        BY <1>3, <1>4, <2>2 DEF HInv, QueuesReferToUpdates
      <4> QED BY <4>1, ScheduledIsFollowed DEF HInv
    <3>2. /\ fence' = [fence EXCEPT ![f] = Signal(@, n)] /\ item.value <= Reached(v)
          /\ v \in VkQueues
      <4>1. Completed(v, item.value) /\ fence' = [fence EXCEPT ![f] = Signal(@, n)]
        BY <1>1, <1>2, <2>2 DEF SignalsFence, Worker
      <4>2. v \in VkQueues
        BY ProgramsAssumption
      <4>3. item.value \in Nat
        BY <1>3, <1>4, <2>2 DEF SignalValues
      <4> QED BY <4>1, <4>2, <4>3, SubmittedValues DEF Completed, Reached
    <3>3. \A h \in Fences : fence'[h].signal_count =
             IF h = f /\ n > fence[f].signal_count THEN n ELSE fence[h].signal_count
      <4>1. DOMAIN fence = Fences /\ DOMAIN fence[f] = FenceFields
        BY <3>1 DEF IInv, Shape
      <4>2. Signal(fence[f], n).signal_count =
              IF n > fence[f].signal_count THEN n ELSE fence[f].signal_count
        BY <4>1, FenceFieldsOf
      <4> QED BY <3>1, <3>2, <4>1, <4>2
    <3>4. 1 \in DOMAIN Worker(c) /\ Worker(c)[1] = item /\ item.kind = "signal"
      BY <1>3, <1>4, <2>2
    <3>5. Works(followed[f][n]) \subseteq done
      <4> SUFFICES ASSUME NEW e \in Works(followed[f][n]) PROVE e \in done
        OBVIOUS
      <4>1. FinishedBy(v, e, item.value) \/ Reported(followed[f][n], e)
        BY <3>4 DEF DInv, SignalledWork
      <4>2. ~IsPending(v, e, item.value)
        <5>1. ASSUME NEW i \in DOMAIN Submitted(v) PROVE ~(Submitted(v)[i].value <= item.value)
          <6>1. item.value \in Nat
            BY <3>4 DEF SignalValues
          <6> QED BY <3>2, <6>1, SubmittedValues
        <5> QED BY <5>1 DEF IsPending
      <4>3. ASSUME Reported(followed[f][n], e) PROVE e \in done
        <5>1. PICK x \in followed[f][n] : IsUpdate(x) /\ e \in followed[x[1]][x[2]]
          BY <4>3 DEF Reported
        <5>2. Seen(x) \/ AnnouncedBefore(c, 1, x)
          BY <3>4 DEF OInv, SInv, SignalsAreAnnounced
        <5>3. ~AnnouncedBefore(c, 1, x)
          BY <1>4 DEF AnnouncedBefore
        <5>4. x[1] \in Fences /\ x[2] \in DOMAIN followed[x[1]] /\ x[2] <= fence[x[1]].signal_count
          BY <5>1, <5>2, <5>3 DEF Seen, IsUpdate
        <5> QED BY <5>1, <5>4 DEF DInv, SeenWorkIsDone, Works
      <4> QED BY <4>1, <4>2, <4>3 DEF FinishedBy
    <3>6. \A m \in DOMAIN followed[f] : m <= n => followed[f][m] \subseteq followed[f][n]
      BY <3>1 DEF OInv, SInv, SignallersKnow
    <3>7. \A m \in DOMAIN followed[f] : m <= n => Works(followed[f][m]) \subseteq done
      BY <3>5, <3>6 DEF Works
    <3> QED BY <1>3, <3>3, <3>7 DEF DInv, SeenWorkIsDone, Works
  <2> QED BY <2>1, <2>2
<1> QED BY <1>7, <1>8, <1>9 DEF DInv

LEMMA GpuEffect ==
  ASSUME IInv, HInv, NEW v \in VkQueues, Gpu(v)
  PROVE  \E s :
           /\ 1 \in DOMAIN Submitted(v) /\ s = Submitted(v)[1] /\ s.value = Reached(v) + 1
           /\ \A w \in s.waits : Completed(w.semaphore, w.value)
           /\ IsSeq(Submitted(v)') /\ DOMAIN Submitted(v)' = 1..(Len(Submitted(v)) - 1)
           /\ DOMAIN Submitted(v) = 1..Len(Submitted(v)) /\ Len(Submitted(v)) \in Nat \ {0}
           /\ \A i \in 1..(Len(Submitted(v)) - 1) : Submitted(v)'[i] = Submitted(v)[i + 1]
           /\ Reached(v)' = s.value /\ Count(v)' = Count(v)
           /\ \A x \in VkQueues \ {v} : vk_queue'[x] = vk_queue[x]
           /\ done' = done \cup s.work
           /\ UNCHANGED <<program, fence, queue, known, followed, before>>
<1> DEFINE s == Head(Submitted(v))
<1>1. /\ Submitted(v) # <<>> /\ Submitted(v)' = Tail(Submitted(v)) /\ Reached(v)' = s.value
      /\ Count(v)' = Count(v) /\ \A x \in VkQueues \ {v} : vk_queue'[x] = vk_queue[x]
  BY DEF Gpu, IInv, Shape, Submitted, Reached, Count, VkQueueFields
<1>2. /\ done' = done \cup s.work
      /\ UNCHANGED <<program, fence, queue, known, followed, before>>
      /\ \A w \in s.waits : Completed(w.semaphore, w.value)
  BY DEF Gpu, Submitted
<1>3. IsSeq(Submitted(v))
  BY DEF IInv, Shape, Submitted
<1>4. /\ Len(Submitted(v)) \in Nat \ {0} /\ DOMAIN Submitted(v) = 1..Len(Submitted(v))
      /\ IsSeq(Submitted(v)') /\ DOMAIN Submitted(v)' = 1..(Len(Submitted(v)) - 1)
      /\ s = Submitted(v)[1]
      /\ \A i \in 1..(Len(Submitted(v)) - 1) : Submitted(v)'[i] = Submitted(v)[i + 1]
  BY <1>1, <1>3, TailElements
<1> HIDE DEF s
<1>5. 1 \in DOMAIN Submitted(v) /\ s.value = Reached(v) + 1
  BY <1>4 DEF HInv, Timeline
<1> QED BY <1>1, <1>2, <1>4, <1>5

LEMMA GpuDInv ==
  ASSUME IInv, HInv, DInv, SignalValues, NEW v \in VkQueues, Gpu(v)
  PROVE  DInv' /\ SignalValues'
<1>1. PICK s :
        /\ s = Submitted(v)[1]
        /\ DOMAIN Submitted(v)' = 1..(Len(Submitted(v)) - 1)
        /\ DOMAIN Submitted(v) = 1..Len(Submitted(v)) /\ Len(Submitted(v)) \in Nat \ {0}
        /\ \A i \in 1..(Len(Submitted(v)) - 1) : Submitted(v)'[i] = Submitted(v)[i + 1]
        /\ Count(v)' = Count(v) /\ \A x \in VkQueues \ {v} : vk_queue'[x] = vk_queue[x]
        /\ done' = done \cup s.work
        /\ UNCHANGED <<fence, queue, known, followed>>
  BY GpuEffect
<1>2. ASSUME NEW x \in VkQueues, NEW e, NEW n, FinishedBy(x, e, n) PROVE FinishedBy(x, e, n)'
  <2>1. CASE e \in done
    BY <1>1, <2>1 DEF FinishedBy
  <2>2. CASE IsPending(x, e, n)
    <3>1. PICK i \in DOMAIN Submitted(x) : e \in Submitted(x)[i].work /\ Submitted(x)[i].value <= n
      BY <2>2 DEF IsPending
    <3>2. CASE x = v /\ i = 1
      BY <1>1, <3>1, <3>2 DEF FinishedBy
    <3>3. CASE x = v /\ i # 1
      <4>1. i - 1 \in DOMAIN Submitted(v)' /\ Submitted(v)'[i - 1] = Submitted(v)[i]
        BY <1>1, <3>1, <3>3
      <4> QED BY <3>1, <3>3, <4>1 DEF FinishedBy, IsPending
    <3>4. CASE x # v
      BY <1>1, <3>1, <3>4 DEF FinishedBy, IsPending, Submitted
    <3> QED BY <3>2, <3>3, <3>4
  <2> QED BY <1>2, <2>1, <2>2 DEF FinishedBy
<1>3. \A S, e : Reported(S, e)' <=> Reported(S, e)
  BY <1>1 DEF Reported, IsUpdate
<1>4. \A c \in Queues : VkQueueOf[c] \in VkQueues /\ Last(c)' = Last(c) /\ Worker(c)' = Worker(c)
  BY <1>1, ProgramsAssumption DEF Last, Worker
<1>5. KnownWork'
  BY <1>1, <1>2, <1>3, <1>4 DEF DInv, KnownWork, Works
<1>6. SignalledWork'
  BY <1>1, <1>2, <1>3, <1>4 DEF DInv, SignalledWork, Works
<1>7. SeenWorkIsDone'
  BY <1>1 DEF DInv, SeenWorkIsDone, Works
<1>8. SignalValues'
  <2>1. \A x \in VkQueues : Count(x)' = Count(x)
    BY <1>1 DEF Count
  <2> QED BY <1>4, <2>1 DEF SignalValues
<1> QED BY <1>5, <1>6, <1>7, <1>8 DEF DInv

LEMMA InitDInv ==
  ASSUME Init PROVE DInv /\ SignalValues
BY DEF Init, NewQueue, DInv, KnownWork, SignalledWork, SeenWorkIsDone, SignalValues, Works, Worker

\* Everything that is proved of the fence workers while the device works.
WorkersInOrder == OInv /\ CallsAreOfProgram /\ DInv /\ SignalValues

LEMMA NextDInv ==
  ASSUME OneSignaller, IInv, device_lost \/ HInv, device_lost \/ WorkersInOrder, [Next]_vars
  PROVE  device_lost' \/ WorkersInOrder'
<1> SUFFICES ASSUME ~device_lost' PROVE WorkersInOrder'
  OBVIOUS
<1>a. IInv'
  BY NextIInv
<1>1. ~device_lost /\ HInv /\ OInv /\ CallsAreOfProgram /\ DInv /\ SignalValues
  BY StepsWhileDeviceWorks DEF WorkersInOrder
<1>2. OInv' /\ CallsAreOfProgram'
  BY <1>1, NextOInv
<1>3. ASSUME \/ ApplicationStep \/ UNCHANGED vars \/ \E c \in Queues : CallEnds(c)
      PROVE  DInv' /\ SignalValues'
  <2>1. /\ \A d \in Queues : Unmoved(d)
        /\ FencesIdle /\ UNCHANGED <<vk_queue, known, followed, done>>
    BY <1>3, CalmSteps
  <2> QED BY <1>a, <1>1, <2>1, CalmDInv DEF FencesIdle, FenceIdle
<1>4. ASSUME NEW c \in Queues,
             \/ Resolution(c) \/ FlushWaiters(c) \/ Execute(c) \/ Signals(c) \/ FenceWorker(c)
      PROVE  DInv' /\ SignalValues'
  BY <1>a, <1>1, <1>4, ResolutionDInv, FlushDInv, ExecuteDInv, SignalsDInv, FenceWorkerDInv
<1>5. ASSUME NEW v \in VkQueues, Gpu(v) PROVE DInv' /\ SignalValues'
  BY <1>1, <1>5, GpuDInv
<1> QED BY <1>2, <1>3, <1>4, <1>5, StepsWhileDeviceWorks DEF WorkersInOrder

\* As long as the device works and one command queue signals a fence: when a
\* fence has taken an update, all work that the signal followed is finished,
\* through however many queues, whether or not they share VkQueues
\* (d3d12_command_queue_signal, vkd3d_wait_for_gpu_timeline_semaphore).
THEOREM SignalledWorkFinished ==
  OneSignaller => (Spec => [](device_lost \/ SignalledWorkIsDone))
<1> SUFFICES ASSUME OneSignaller PROVE Spec => [](device_lost \/ SignalledWorkIsDone)
  OBVIOUS
<1>1. Init => device_lost \/ WorkersInOrder
  BY InitOInv, InitDInv DEF WorkersInOrder
<1>2. IInv /\ (device_lost \/ HInv) /\ (device_lost \/ WorkersInOrder) /\ [Next]_vars
        => (device_lost \/ WorkersInOrder)'
  BY NextDInv
<1>3. HInv /\ WorkersInOrder => SignalledWorkIsDone
  <2> SUFFICES ASSUME HInv, DInv, NEW f \in Fences, NEW n \in 1..fence[f].signal_count
               PROVE  Works(followed[f][n]) \subseteq done
    BY DEF SignalledWorkIsDone, WorkersInOrder
  <2>1. /\ fence[f].signal_count \in 0..fence[f].update_count /\ fence[f].update_count \in Nat
        /\ IsSeq(followed[f]) /\ Len(followed[f]) = fence[f].update_count
    BY DEF HInv, HistoryShape
  <2>2. DOMAIN followed[f] = 1..fence[f].update_count
    BY <2>1, AppendElements
  <2>3. n \in DOMAIN followed[f] /\ n <= fence[f].signal_count
    BY <2>1, <2>2
  <2> QED BY <2>3 DEF DInv, SeenWorkIsDone
<1> QED BY <1>1, <1>2, <1>3, HistoryInvariance, PTL DEF Spec

-----------------------------------------------------------------------------
(* Waits on the CPU.                                                       *)

Waiting(c) == queue[c].pc = "cpu_wait"

CpuWaits(c) == IF Waiting(c) THEN {queue[c].cpu_wait} ELSE {}

\* What queue c waits for in front of all that it submits from now on.
AllWaits(c) == Waits(c) \cup CpuWaits(c)

WaitersAtCall == \A c \in Queues : Waiting(c) => Working(c, "wait")

LEMMA HeadStays ==
  ASSUME NEW s, IsSeq(s), s # <<>>, NEW op
  PROVE  Append(s, op) # <<>> /\ Head(Append(s, op)) = Head(s)
<1>1. IsSeq(Append(s, op)) /\ Append(s, op) # <<>> /\ Append(s, op)[1] = s[1]
  <2>1. Len(s) \in Nat \ {0}
    BY TailElements
  <2> QED BY <2>1, AppendElements
<1> QED BY <1>1, TailElements

\* Other steps than a wait leave a wait on the CPU alone, or end it.
LEMMA CpuWaitsStep ==
  ASSUME IInv, WaitersAtCall, ~device_lost, NEW c \in Queues,
         \/ ExecuteCommandLists(c) \/ ReleaseQueue(c) \/ (\E op : Enqueue(c, op))
         \/ CallEnds(c) \/ FlushWaiters(c) \/ Execute(c) \/ Signals(c) \/ FenceWorker(c)
  PROVE  /\ WaitersAtCall'
         /\ \A d \in Queues :
              \/ CpuWaits(d)' = CpuWaits(d)
              \/ /\ CpuWaits(d)' = {}
                 /\ \A w \in CpuWaits(d) : Completed(w.semaphore, w.value)
         /\ FlushWaiters(c) \/ Execute(c) => CpuWaits(c) = {}
<1>1. DOMAIN queue[c] = QueueFields /\ IsSeq(Calls(c))
  BY CallsOf
<1>2. Execute(c) \/ FlushWaiters(c) \/ Signals(c) \/ WaitSatisfied(c) \/ Stops(c) \/ FreesQueue(c)
        => ~Waiting(c)
  BY DEF Execute, FlushWaiters, FlushIsDue, Signals, WaitSatisfied, Stops, FreesQueue,
         WaitersAtCall, Working, Waiting
<1>3. CpuWaitReturns(c) =>
        Completed(queue[c].cpu_wait.semaphore, queue[c].cpu_wait.value)
  BY DEF CpuWaitReturns
<1> DEFINE Stays(q) == /\ q.pc = queue[c].pc /\ q.cpu_wait = queue[c].cpu_wait
                       /\ \/ q.submissions = Calls(c)
                          \/ \E op : q.submissions = Append(Calls(c), op)
           Ends(q) == /\ q.pc # "cpu_wait"
                      /\ Waiting(c) => Completed(queue[c].cpu_wait.semaphore,
                                                 queue[c].cpu_wait.value)
<1>4. PICK q : queue' = [queue EXCEPT ![c] = q] /\ (Stays(q) \/ Ends(q))
  <2>1. ASSUME NEW op
        PROVE  Stays([queue[c] EXCEPT !.submissions = Append(@, op), !.calls = @ + 1])
    BY <1>1 DEF QueueFields, Calls
  <2>2. ASSUME NEW op
        PROVE  Stays([queue[c] EXCEPT !.open = FALSE, !.submissions = Append(@, op)])
    BY <1>1 DEF QueueFields, Calls
  <2>3. Stays([queue[c] EXCEPT !.fence_worker = Tail(@)])
    BY <1>1 DEF QueueFields, Calls
  <2> DEFINE p == NextSubmission(queue[c])
             r == FinalizeWaits(queue[c])
  <2>4. DOMAIN p = QueueFields /\ p.pc = "ready"
    BY <1>1, OperatorFields
  <2>5. DOMAIN r = QueueFields /\ DOMAIN NextSubmission(r) = QueueFields
        /\ NextSubmission(r).pc = "ready"
    <3>1. DOMAIN r = QueueFields
      BY <1>1 DEF FinalizeWaits, QueueFields
    <3> QED BY <3>1, OperatorFields
  <2> HIDE DEF p, r
  <2>6. [p EXCEPT !.cpu_wait = 0].pc = "ready" /\ \A item : AddItem(p, item).pc = "ready"
    BY <2>4 DEF AddItem, QueueFields
  <2>7. /\ [r EXCEPT !.pc = "flushed"].pc = "flushed"
        /\ \A n : [r EXCEPT !.pc = "flushed", !.last_submission = n].pc = "flushed"
        /\ \A item, n : [AddItem(NextSubmission(r), item) EXCEPT !.last_submission = n].pc = "ready"
    BY <2>5 DEF AddItem, QueueFields
  <2>8. /\ [queue[c] EXCEPT !.submissions = <<>>, !.pc = "ended"].pc = "ended"
        /\ [queue[c] EXCEPT !.pc = "freed"].pc = "freed"
    BY <1>1 DEF QueueFields
  <2>a. ASSUME NEW q, queue' = [queue EXCEPT ![c] = q], q.pc # "cpu_wait",
               ~Waiting(c) \/ CpuWaitReturns(c)
        PROVE  \E x : queue' = [queue EXCEPT ![c] = x] /\ (Stays(x) \/ Ends(x))
    BY <2>a, <1>3
  <2>b. ASSUME NEW q, queue' = [queue EXCEPT ![c] = q], Stays(q)
        PROVE  \E x : queue' = [queue EXCEPT ![c] = x] /\ (Stays(x) \/ Ends(x))
    BY <2>b
  <2> HIDE DEF Stays, Ends
  <2>9. CASE ExecuteCommandLists(c) \/ \E op : Enqueue(c, op)
    <3>1. PICK op : queue' = [queue EXCEPT ![c] = [queue[c] EXCEPT !.submissions = Append(@, op),
                                                                 !.calls = @ + 1]]
      BY <2>9 DEF ExecuteCommandLists, Enqueue
    <3> QED BY <2>1, <2>b, <3>1
  <2>10. CASE ReleaseQueue(c)
    <3>1. PICK op : queue' = [queue EXCEPT ![c] = [queue[c] EXCEPT !.open = FALSE,
                                                                 !.submissions = Append(@, op)]]
      BY <2>10 DEF ReleaseQueue
    <3> QED BY <2>2, <2>b, <3>1
  <2>11. CASE FenceWorker(c)
    <3>1. queue' = [queue EXCEPT ![c] = [queue[c] EXCEPT !.fence_worker = Tail(@)]]
      <4>1. PICK kind : NextItem(c, kind)
        BY <2>11 DEF FenceWorker, EnsuresOrder, SignalsFence, DropsSignal, ReleasesSubmission
      <4> QED BY <4>1 DEF NextItem
    <3> QED BY <2>3, <2>b, <3>1
  <2>12. CASE WaitSatisfied(c)
    BY <1>2, <2>4, <2>12, <2>a DEF WaitSatisfied, p
  <2>13. CASE CpuWaitReturns(c)
    BY <2>6, <2>13, <2>a DEF CpuWaitReturns, p
  <2>14. CASE Stops(c) \/ FreesQueue(c)
    BY <1>2, <2>8, <2>14, <2>a DEF Stops, FreesQueue
  <2>15. CASE FlushWaiters(c)
    BY <1>2, <2>7, <2>15, <2>a DEF FlushWaiters, r
  <2>16. CASE Execute(c)
    BY <1>2, <2>7, <2>16, <2>a DEF Execute, r
  <2>17. CASE Signals(c)
    BY <1>2, <2>6, <2>17, <2>a DEF Signals, p
  <2> QED BY <2>9, <2>10, <2>11, <2>12, <2>13, <2>14, <2>15, <2>16, <2>17 DEF CallEnds
<1>5. queue'[c] = q /\ \A d \in Queues \ {c} : queue'[d] = queue[d]
  BY <1>4, OnlyQueue DEF IInv, OthersUnmoved
<1>6. \A d \in Queues \ {c} : /\ CpuWaits(d)' = CpuWaits(d)
                              /\ Waiting(d)' => Working(d, "wait")'
  BY <1>5 DEF CpuWaits, Waiting, WaitersAtCall, Working
<1>7. CASE Stays(q)
  <2>1. Waiting(c) => Working(c, "wait")'
    BY <1>1, <1>5, <1>7, HeadStays DEF WaitersAtCall, Working, Calls
  <2>2. CpuWaits(c)' = CpuWaits(c) /\ (Waiting(c)' => Waiting(c))
    BY <1>5, <1>7 DEF CpuWaits, Waiting
  <2> QED BY <1>2, <1>6, <2>1, <2>2 DEF WaitersAtCall, CpuWaits
<1>8. CASE Ends(q)
  <2>1. ~Waiting(c)' /\ CpuWaits(c)' = {}
    BY <1>5, <1>8 DEF CpuWaits, Waiting
  <2>2. \A w \in CpuWaits(c) : Completed(w.semaphore, w.value)
    BY <1>8 DEF CpuWaits
  <2> QED BY <1>2, <1>6, <2>1, <2>2 DEF WaitersAtCall, CpuWaits
<1> QED BY <1>4, <1>7, <1>8

\* What the calls that resolve a wait make of the waits of their queue.
LEMMA ResolutionWaits ==
  ASSUME IInv, WaitersAtCall, NEW c \in Queues, Resolution(c)
  PROVE  \E f \in Fences : \E u \in fence[f].pending_updates : \E w :
           /\ w = [semaphore |-> u.vk_semaphore, value |-> u.vk_semaphore_value]
           /\ Working(c, "wait") /\ f = Current(c).fence
           /\ Last(c)' = Last(c) /\ OthersUnmoved(c) /\ CpuWaits(c) = {}
           /\ \/ u.vk_semaphore = VkQueueOf[c] /\ Waits(c)' = Waits(c) /\ CpuWaits(c)' = {}
              \/ Waits(c)' = AddWaitSemaphore(Waits(c), w) /\ CpuWaits(c)' = {}
              \/ Waits(c)' = Waits(c) /\ CpuWaits(c)' = {w}
           /\ WaitersAtCall'
           /\ fence' = [fence EXCEPT ![f] = ConsumeTicket(@, Current(c).ticket)]
           /\ known' = [known EXCEPT ![c] = @ \cup followed[f][u.update_count]
                                               \cup {<<f, u.update_count>>}]
           /\ UNCHANGED <<program, gpu, followed, before, done>>
<1> DEFINE f == Current(c).fence
           all == Resolutions(fence[f], Current(c).value, VkQueueOf[c])
           Wait(u) == [semaphore |-> u.vk_semaphore, value |-> u.vk_semaphore_value]
           Order(n) == AddItem(NextSubmission(queue[c]), OrderItem(f, n))
           Deferral(u) == AddWait(NextSubmission(queue[c]), f, u)
           OnCpu(u) == [AddItem(queue[c], OrderItem(f, u.update_count)) EXCEPT
                          !.pc = "cpu_wait", !.cpu_wait = Wait(u)]
<1>1. PICK u \in all :
        /\ Unresolved(c) /\ Resolves(c, u)
        /\ \/ /\ u.vk_semaphore = VkQueueOf[c]
              /\ queue' = [queue EXCEPT ![c] = Order(u.update_count)]
           \/ queue' = [queue EXCEPT ![c] = Deferral(u)]
           \/ queue' = [queue EXCEPT ![c] = OnCpu(u)]
  BY DEF Resolution, WaitOnSameVkQueue, WaitIsDeferred, WaitOnCpu, AddOrder
<1>2. f \in Fences /\ u \in fence[f].pending_updates
  <2>1. f \in Fences
    BY <1>1, CurrentCall DEF IInv, Unresolved
  <2> QED BY <2>1 DEF Resolutions, OnQueue, Satisfying
<1>3. /\ fence' = [fence EXCEPT ![f] = ConsumeTicket(@, Current(c).ticket)]
      /\ known' = [known EXCEPT ![c] = @ \cup followed[f][u.update_count]
                                          \cup {<<f, u.update_count>>}]
      /\ UNCHANGED <<program, gpu, followed, before, done>>
  BY <1>1 DEF Resolves
<1>4. DOMAIN queue[c] = QueueFields /\ Working(c, "wait") /\ CpuWaits(c) = {}
  BY <1>1 DEF IInv, Shape, QueueShape, Unresolved, CpuWaits, Waiting
<1> HIDE DEF f, all
<1>5. LET r == NextSubmission(queue[c]) IN
        /\ DOMAIN r = QueueFields /\ r.pc = "ready"
        /\ r.wait_semaphores = Waits(c) /\ r.last_submission = Last(c)
  BY <1>4, OperatorFields DEF Waits, Last
<1>6. LET r == AddItem(queue[c], OrderItem(f, u.update_count)) IN
        /\ DOMAIN r = QueueFields /\ r.submissions = Calls(c)
        /\ r.wait_semaphores = Waits(c) /\ r.last_submission = Last(c)
  BY <1>4 DEF AddItem, QueueFields, Waits, Last, Calls
<1>7. OthersUnmoved(c) /\ Last(c)' = Last(c)
      /\ \/ /\ u.vk_semaphore = VkQueueOf[c] /\ Waits(c)' = Waits(c)
            /\ ~Waiting(c)'
         \/ Waits(c)' = AddWaitSemaphore(Waits(c), Wait(u)) /\ ~Waiting(c)'
         \/ /\ Waits(c)' = Waits(c) /\ Waiting(c)' /\ queue'[c].cpu_wait = Wait(u)
            /\ Calls(c)' = Calls(c)
  <2>1. CASE u.vk_semaphore = VkQueueOf[c] /\ queue' = [queue EXCEPT ![c] = Order(u.update_count)]
    <3>1. queue'[c] = Order(u.update_count) /\ OthersUnmoved(c)
      BY <2>1, OnlyQueue DEF IInv
    <3> QED BY <1>5, <2>1, <3>1 DEF AddItem, Waits, Last, Waiting, QueueFields
  <2>2. CASE queue' = [queue EXCEPT ![c] = Deferral(u)]
    <3>1. queue'[c] = Deferral(u) /\ OthersUnmoved(c)
      BY <2>2, OnlyQueue DEF IInv
    <3> QED BY <1>5, <3>1 DEF AddWait, Waits, Last, Waiting, QueueFields
  <2>3. CASE queue' = [queue EXCEPT ![c] = OnCpu(u)]
    <3>1. queue'[c] = OnCpu(u) /\ OthersUnmoved(c)
      BY <2>3, OnlyQueue DEF IInv
    <3> QED BY <1>6, <3>1 DEF Waits, Last, Waiting, Calls, QueueFields
  <2> QED BY <1>1, <2>1, <2>2, <2>3
<1>8. \/ u.vk_semaphore = VkQueueOf[c] /\ Waits(c)' = Waits(c) /\ CpuWaits(c)' = {}
      \/ Waits(c)' = AddWaitSemaphore(Waits(c), Wait(u)) /\ CpuWaits(c)' = {}
      \/ Waits(c)' = Waits(c) /\ CpuWaits(c)' = {Wait(u)}
  BY <1>7 DEF CpuWaits
<1>9. WaitersAtCall'
  <2>1. \A d \in Queues \ {c} : queue'[d] = queue[d]
    BY <1>7 DEF OthersUnmoved
  <2>2. Waiting(c)' => Working(c, "wait")'
    BY <1>4, <1>7 DEF Working, Calls
  <2> QED BY <2>1, <2>2 DEF WaitersAtCall, Waiting, Working
<1> QED BY <1>2, <1>3, <1>4, <1>7, <1>8, <1>9 DEF f

-----------------------------------------------------------------------------
(* What the GPU has to finish first.  G[v][n] is the work that is finished *)
(* whenever VkQueue v has reached n: some such G exists in every state, and *)
(* a queue knows only work that is behind what it has submitted or waits   *)
(* for.                                                                    *)

NoAliasedWait ==
  \A p \in Programs : \A k, l \in p.waits_and_signals :
    /\ k.type = "wait" /\ l.type = "signal" /\ k.fence = l.fence
    /\ VkQueueOf[k.queue] = VkQueueOf[l.queue]
    => k.queue = l.queue

\* Work e is finished when v has reached n and the waits are over.
Behind(G, v, n, waits, e) ==
  e \in done \/ e \in G[v][n] \/ \E w \in waits : e \in G[w.semaphore][w.value]

Grows(G) ==
  \A v \in VkQueues : \A m, n \in Nat : m <= n => G[v][m] \subseteq G[v][n]

ReachedIsDone(G) ==
  \A v \in VkQueues : \A n \in Nat : n <= Reached(v) => G[v][n] \subseteq done

IsWork(e) == e[1] \in Queues /\ e[2] \in DOMAIN before[e[1]]

\* Submission s adds its work to G, which follows nothing but what is behind s.
AddsWork(G, v, s) ==
  /\ \A e \in G[v][s.value] : e \in s.work \/ Behind(G, v, s.value - 1, s.waits, e)
  /\ \A e \in s.work :
       IsWork(e) /\ \A x \in Works(before[e[1]][e[2]]) : Behind(G, v, s.value - 1, s.waits, x)

SubmittedIsBehind(G) ==
  \A v \in VkQueues : \A i \in DOMAIN Submitted(v) : AddsWork(G, v, Submitted(v)[i])

KnownIsBehind(G) ==
  \A c \in Queues : \A e \in Works(known[c]) : Behind(G, VkQueueOf[c], Last(c), AllWaits(c), e)

UpdatesAreBehind(G) ==
  \A f \in Fences : \A u \in fence[f].pending_updates :
    \A e \in Works(followed[f][u.update_count]) :
      Behind(G, u.vk_semaphore, u.vk_semaphore_value, {}, e)

GInv(G) ==
  /\ Grows(G) /\ ReachedIsDone(G)
  /\ SubmittedIsBehind(G) /\ KnownIsBehind(G) /\ UpdatesAreBehind(G)

CpuWaitsOnTheirWay == \A c \in Queues : \A w \in CpuWaits(c) : OnItsWay(w.semaphore, w.value)

IsOfQueue(f, u) ==
  \E d \in Queues : /\ SignalledBy(f, d) /\ u.vk_semaphore = VkQueueOf[d]
                    /\ u.vk_semaphore_value <= Last(d)

UpdatesAreOfQueues == \A f \in Fences : \A u \in fence[f].pending_updates : IsOfQueue(f, u)

DoneIsWork == \A e \in done : IsWork(e)

WInv ==
  WaitersAtCall /\ CpuWaitsOnTheirWay /\ UpdatesAreOfQueues /\ DoneIsWork /\ WaitOrdersWork

Values(w) == w.semaphore \in VkQueues /\ w.value \in Nat

LEMMA WaitsHaveValues ==
  ASSUME IInv, WInv
  PROVE  /\ \A c \in Queues : \A w \in AllWaits(c) : OnItsWay(w.semaphore, w.value) /\ Values(w)
         /\ \A v \in VkQueues : \A i \in DOMAIN Submitted(v) : \A w \in Submitted(v)[i].waits :
              OnItsWay(w.semaphore, w.value) /\ Values(w)
         /\ \A f \in Fences : \A u \in fence[f].pending_updates :
              /\ OnItsWay(u.vk_semaphore, u.vk_semaphore_value)
              /\ u.vk_semaphore \in VkQueues /\ u.vk_semaphore_value \in Nat
<1>1. \A v \in VkQueues : Count(v) \in Nat
  BY DEF IInv, Shape
<1>2. \A s, n : OnItsWay(s, n) => s \in VkQueues /\ n \in Nat
  BY <1>1 DEF OnItsWay
<1>3. \A c \in Queues : \A w \in AllWaits(c) : OnItsWay(w.semaphore, w.value)
  BY DEF AllWaits, Waits, IInv, QueuesOnTheirWay, WInv, CpuWaitsOnTheirWay
<1> QED BY <1>2, <1>3 DEF IInv, SubmittedOnTheirWay, UpdatesOnTheirWay, Submitted, Values

\* Waits that are over may be dropped.
LEMMA WaitsEnd ==
  ASSUME NEW G, ReachedIsDone(G), NEW v, NEW n, NEW S, NEW T, NEW e, Behind(G, v, n, S, e),
         \A w \in S : Values(w) /\ (w \in T \/ Completed(w.semaphore, w.value)),
         \A x \in VkQueues : Reached(x) \in Nat
  PROVE  Behind(G, v, n, T, e)
<1>1. \A w \in S : Completed(w.semaphore, w.value) => G[w.semaphore][w.value] \subseteq done
  BY DEF ReachedIsDone, Completed, Reached, Values
<1> QED BY <1>1 DEF Behind

\* Steps that submit and finish nothing.
LEMMA KeptGInv ==
  ASSUME NEW G, GInv(G), UNCHANGED <<vk_queue, before, done>>,
         \A c \in Queues : \A n, waits : n = Last(c)' /\ waits = AllWaits(c)' =>
           \A e \in Works(known'[c]) : Behind(G, VkQueueOf[c], n, waits, e),
         \A f \in Fences : \A u \in fence'[f].pending_updates :
           \A e \in Works(followed'[f][u.update_count]) :
             Behind(G, u.vk_semaphore, u.vk_semaphore_value, {}, e)
  PROVE  GInv(G)'
<1>1. \A v, n, waits, e : Behind(G, v, n, waits, e)' <=> Behind(G, v, n, waits, e)
  BY DEF Behind
<1>2. \A e : IsWork(e)' <=> IsWork(e)
  BY DEF IsWork
<1>3. Grows(G)' /\ ReachedIsDone(G)'
  BY DEF GInv, Grows, ReachedIsDone, Reached
<1>4. SubmittedIsBehind(G)'
  BY <1>1, <1>2 DEF GInv, SubmittedIsBehind, AddsWork, Submitted, Works
<1>5. KnownIsBehind(G)'
  <2> SUFFICES ASSUME NEW c \in Queues, NEW n, n = Last(c)', NEW waits, waits = AllWaits(c)',
                      NEW e \in Works(known'[c])
               PROVE  Behind(G, VkQueueOf[c], n, waits, e)'
    BY DEF KnownIsBehind, Works
  <2> QED BY <1>1
<1>6. UpdatesAreBehind(G)'
  <2> SUFFICES ASSUME NEW f \in Fences, NEW u \in fence'[f].pending_updates,
                      NEW e \in Works(followed'[f][u.update_count])
               PROVE  Behind(G, u.vk_semaphore, u.vk_semaphore_value, {}, e)'
    BY DEF UpdatesAreBehind, Works
  <2> QED BY <1>1
<1> QED BY <1>3, <1>4, <1>5, <1>6 DEF GInv

LEMMA KeptWInv ==
  ASSUME IInv, WInv, WaitersAtCall', UNCHANGED <<program, vk_queue, before, done>>,
         \A c \in Queues : /\ Last(c)' = Last(c)
                           /\ \A w \in CpuWaits(c)' : \/ w \in CpuWaits(c)
                                                      \/ OnItsWay(w.semaphore, w.value),
         \A f \in Fences : \A u \in fence'[f].pending_updates :
           u \in fence[f].pending_updates \/ IsOfQueue(f, u)
  PROVE  WInv'
<1>1. CpuWaitsOnTheirWay'
  <2>1. \A s, n : OnItsWay(s, n)' <=> OnItsWay(s, n)
    BY DEF OnItsWay, Count
  <2>2. \A c \in Queues : \A w \in CpuWaits(c)' : OnItsWay(w.semaphore, w.value)
    BY DEF WInv, CpuWaitsOnTheirWay
  <2> QED BY <2>1, <2>2 DEF CpuWaitsOnTheirWay
<1>2. UpdatesAreOfQueues'
  <2>1. \A f, u : IsOfQueue(f, u) => IsOfQueue(f, u)'
    BY DEF IsOfQueue, SignalledBy, IsCalled
  <2>2. \A f \in Fences : \A u \in fence'[f].pending_updates : IsOfQueue(f, u)
    BY DEF WInv, UpdatesAreOfQueues
  <2> QED BY <2>1, <2>2 DEF UpdatesAreOfQueues
<1>3. DoneIsWork' /\ WaitOrdersWork'
  BY DEF WInv, DoneIsWork, IsWork, WaitOrdersWork, Works
<1> QED BY <1>1, <1>2, <1>3 DEF WInv

CalmStep ==
  \/ ApplicationStep \/ UNCHANGED vars
  \/ \E c \in Queues : CallEnds(c) \/ FenceWorker(c)

\* What the application, the fence workers and calls that end leave alone.
LEMMA CalmWaits ==
  ASSUME IInv, WaitersAtCall, ~device_lost, CalmStep
  PROVE  /\ WaitersAtCall'
         /\ \A d \in Queues :
              /\ Waits(d)' = Waits(d) /\ Last(d)' = Last(d)
              /\ \/ CpuWaits(d)' = CpuWaits(d)
                 \/ /\ CpuWaits(d)' = {}
                    /\ \A w \in CpuWaits(d) : Completed(w.semaphore, w.value)
         /\ \A f \in Fences : fence'[f].pending_updates \subseteq fence[f].pending_updates
         /\ UNCHANGED <<program, vk_queue, known, followed, before, done>>
<1>1. CASE \E c \in Queues : FenceWorker(c)
  <2>1. PICK c \in Queues : FenceWorker(c)
    BY <1>1
  <2>2. PICK kind : NextItem(c, kind)
    BY <2>1 DEF FenceWorker, EnsuresOrder, SignalsFence, DropsSignal, ReleasesSubmission
  <2>3. \A d \in Queues : Waits(d)' = Waits(d) /\ Last(d)' = Last(d)
    BY <2>2, FenceWorkerEffect DEF OthersUnmoved, Unmoved
  <2>4. \A f \in Fences : fence'[f].pending_updates \subseteq fence[f].pending_updates
    <3>1. fence' = fence \/ \E f, n : fence' = [fence EXCEPT ![f] = Signal(@, n)]
      BY <2>1 DEF FenceWorker, EnsuresOrder, SignalsFence, DropsSignal, ReleasesSubmission
    <3>2. ASSUME NEW g, NEW n, fence' = [fence EXCEPT ![g] = Signal(@, n)]
          PROVE  \A f \in Fences : fence'[f].pending_updates \subseteq fence[f].pending_updates
      <4>1. ASSUME NEW f \in Fences
            PROVE  Signal(fence[f], n).pending_updates \subseteq fence[f].pending_updates
        BY FenceFieldsOf DEF IInv, Shape
      <4>2. \A f \in Fences : fence'[f] = fence[f] \/ fence'[f] = Signal(fence[f], n)
        BY <3>2 DEF IInv, Shape
      <4> QED BY <4>1, <4>2
    <3> QED BY <3>1, <3>2
  <2>5. UNCHANGED <<program, vk_queue, known, followed, before, done>>
    BY <2>2 DEF NextItem, gpu, history
  <2> QED BY <2>1, <2>3, <2>4, <2>5, CpuWaitsStep
<1>2. CASE ApplicationStep \/ UNCHANGED vars \/ \E c \in Queues : CallEnds(c)
  <2>1. /\ \A d \in Queues : Unmoved(d)
        /\ FencesIdle /\ UNCHANGED <<program, vk_queue, known, followed, before, done>>
    BY <1>2, CalmSteps
  <2>2. \/ queue' = queue
        \/ \E c \in Queues : \/ ExecuteCommandLists(c) \/ ReleaseQueue(c)
                             \/ (\E op : Enqueue(c, op)) \/ CallEnds(c)
    <3>1. ASSUME NEW k \in program.waits_and_signals, QueueWait(k) \/ QueueSignal(k)
          PROVE  \E c \in Queues : \E op : Enqueue(c, op)
      <4>1. k.queue \in Queues
        BY ProgramsAssumption DEF IInv, Shape, ProgramType
      <4> QED BY <3>1, <4>1 DEF QueueWait, QueueSignal
    <3>2. ASSUME NEW f \in Fences, CpuSignalFence(f) \/ Release(f) PROVE queue' = queue
      BY <3>2 DEF CpuSignalFence, Release
    <3>3. CASE ApplicationStep
      BY <3>1, <3>2, <3>3 DEF ApplicationStep
    <3>4. CASE UNCHANGED vars
      BY <3>4 DEF vars
    <3> QED BY <1>2, <3>3, <3>4
  <2>3. /\ WaitersAtCall'
        /\ \A d \in Queues : \/ CpuWaits(d)' = CpuWaits(d)
                             \/ /\ CpuWaits(d)' = {}
                                /\ \A w \in CpuWaits(d) : Completed(w.semaphore, w.value)
    <3>1. CASE queue' = queue
      BY <3>1 DEF WaitersAtCall, CpuWaits, Waiting, Working
    <3>2. CASE queue' # queue
      BY <2>2, <3>2, CpuWaitsStep
    <3> QED BY <3>1, <3>2
  <2> QED BY <2>1, <2>3 DEF Unmoved, FencesIdle, FenceIdle
<1> QED BY <1>1, <1>2 DEF CalmStep

LEMMA ReachedValues ==
  ASSUME HInv PROVE \A v \in VkQueues : Reached(v) \in Nat
BY DEF HInv, Timeline

LEMMA CalmGInv ==
  ASSUME IInv, HInv, WInv, NEW G, GInv(G), ~device_lost, CalmStep
  PROVE  WInv' /\ GInv(G)'
<1>1. /\ WaitersAtCall'
      /\ \A d \in Queues :
           /\ Waits(d)' = Waits(d) /\ Last(d)' = Last(d)
           /\ \/ CpuWaits(d)' = CpuWaits(d)
              \/ /\ CpuWaits(d)' = {}
                 /\ \A w \in CpuWaits(d) : Completed(w.semaphore, w.value)
      /\ \A f \in Fences : fence'[f].pending_updates \subseteq fence[f].pending_updates
      /\ UNCHANGED <<program, vk_queue, known, followed, before, done>>
  BY CalmWaits DEF WInv
<1>2. WInv'
  BY <1>1, KeptWInv
<1>3. ASSUME NEW c \in Queues, NEW n, n = Last(c)', NEW waits, waits = AllWaits(c)',
             NEW e \in Works(known'[c])
      PROVE  Behind(G, VkQueueOf[c], n, waits, e)
  <2>1. Behind(G, VkQueueOf[c], n, AllWaits(c), e)
    BY <1>1, <1>3 DEF GInv, KnownIsBehind
  <2>2. \A w \in AllWaits(c) : Values(w) /\ (w \in waits \/ Completed(w.semaphore, w.value))
    BY <1>1, <1>3, WaitsHaveValues DEF AllWaits
  <2> QED BY <2>1, <2>2, WaitsEnd, ReachedValues DEF GInv
<1>4. \A f \in Fences : \A u \in fence'[f].pending_updates :
        \A e \in Works(followed'[f][u.update_count]) :
          Behind(G, u.vk_semaphore, u.vk_semaphore_value, {}, e)
  BY <1>1 DEF GInv, UpdatesAreBehind
<1>5. GInv(G)'
  BY <1>1, <1>3, <1>4, KeptGInv
<1> QED BY <1>2, <1>5

\* AddWaitSemaphore drops only waits for values that a larger one includes.
LEMMA AddedWaitIncludes ==
  ASSUME IInv, NEW G, Grows(G), NEW waits, NEW w, NEW s, NEW n,
         w = [semaphore |-> s, value |-> n],
         \A x \in waits \cup {w} : OnItsWay(x.semaphore, x.value),
         NEW x \in waits \cup {w}, NEW e, e \in G[x.semaphore][x.value]
  PROVE  \E y \in AddWaitSemaphore(waits, w) : e \in G[y.semaphore][y.value]
<1> DEFINE same == {y \in waits : y.semaphore = w.semaphore}
           S == {y.value : y \in same \cup {w}}
           added == [w EXCEPT !.value = Max(S)]
<1>1. AddWaitSemaphore(waits, w) = (waits \ same) \cup {added}
  BY DEF AddWaitSemaphore
<1>2. CASE x \notin same /\ x # w
  BY <1>1, <1>2
<1>3. CASE x \in same \/ x = w
  <2>1. s \in VkQueues /\ Count(s) \in Nat /\ S \in SUBSET (0..Count(s))
    BY DEF OnItsWay, IInv, Shape
  <2>2. x.value \in S /\ x.semaphore = s
    BY <1>3
  <2>3. Max(S) \in S /\ x.value <= Max(S)
    BY <2>1, <2>2, MaxOfBounded
  <2>4. x.value \in Nat /\ Max(S) \in Nat
    BY <2>1, <2>2, <2>3
  <2>5. added.semaphore = s /\ added.value = Max(S)
    OBVIOUS
  <2>6. e \in G[s][Max(S)]
    BY <2>1, <2>2, <2>3, <2>4 DEF Grows
  <2> QED BY <1>1, <2>5, <2>6
<1> QED BY <1>2, <1>3

LEMMA ResolutionGInv ==
  ASSUME NoAliasedWait, IInv, HInv, WInv, CallsAreOfProgram, NEW G, GInv(G),
         NEW c \in Queues, Resolution(c)
  PROVE  WInv' /\ GInv(G)'
<1> DEFINE v == VkQueueOf[c]
           Effect(f, u, w) ==
             /\ w = [semaphore |-> u.vk_semaphore, value |-> u.vk_semaphore_value]
             /\ Working(c, "wait") /\ f = Current(c).fence
             /\ Last(c)' = Last(c) /\ OthersUnmoved(c) /\ CpuWaits(c) = {}
             /\ \/ u.vk_semaphore = VkQueueOf[c] /\ Waits(c)' = Waits(c) /\ CpuWaits(c)' = {}
                \/ Waits(c)' = AddWaitSemaphore(Waits(c), w) /\ CpuWaits(c)' = {}
                \/ Waits(c)' = Waits(c) /\ CpuWaits(c)' = {w}
             /\ WaitersAtCall'
             /\ fence' = [fence EXCEPT ![f] = ConsumeTicket(@, Current(c).ticket)]
             /\ known' = [known EXCEPT ![c] = @ \cup followed[f][u.update_count]
                                                 \cup {<<f, u.update_count>>}]
             /\ UNCHANGED <<program, gpu, followed, before, done>>
<1>1. PICK f \in Fences : \E u \in fence[f].pending_updates : \E w : Effect(f, u, w)
  BY ResolutionWaits DEF WInv
<1>a. PICK u \in fence[f].pending_updates : \E w : Effect(f, u, w)
  BY <1>1
<1>2. PICK w : Effect(f, u, w)
  BY <1>a
<1>3. /\ w.semaphore = u.vk_semaphore /\ w.value = u.vk_semaphore_value
      /\ OnItsWay(w.semaphore, w.value) /\ Values(w)
  BY <1>2, WaitsHaveValues DEF Values
<1>4. \A d \in Queues \ {c} :
        /\ Last(d)' = Last(d) /\ Waits(d)' = Waits(d) /\ CpuWaits(d)' = CpuWaits(d)
        /\ known'[d] = known[d]
  BY <1>2 DEF OthersUnmoved, Unmoved, CpuWaits, Waiting, HInv, HistoryShape
<1>5. \A h \in Fences : fence'[h].pending_updates \subseteq fence[h].pending_updates
  <2>1. FenceIdle(fence[f], ConsumeTicket(fence[f], Current(c).ticket))
    BY FenceFieldsOf DEF IInv, Shape
  <2> QED BY <1>2, <2>1, OneFenceIdle DEF FencesIdle, FenceIdle
<1>6. WInv'
  <2>1. \A d \in Queues : /\ Last(d)' = Last(d)
                          /\ \A y \in CpuWaits(d)' : \/ y \in CpuWaits(d)
                                                     \/ OnItsWay(y.semaphore, y.value)
    BY <1>2, <1>3, <1>4
  <2> QED BY <1>2, <1>5, <2>1, KeptWInv DEF gpu
\* A wait for a signal on the same VkQueue is for an earlier signal of the same queue.
<1>7. ASSUME u.vk_semaphore = v, NEW e \in G[v][u.vk_semaphore_value]
      PROVE  e \in G[v][Last(c)]
  <2>1. PICK d \in Queues : /\ SignalledBy(f, d) /\ u.vk_semaphore = VkQueueOf[d]
                            /\ u.vk_semaphore_value <= Last(d)
    BY DEF WInv, UpdatesAreOfQueues, IsOfQueue
  <2>2. IsCalled("wait", f, c)
    <3>1. 1 \in DOMAIN Calls(c) /\ Current(c) = Calls(c)[1] /\ Current(c).type = "wait"
      <4>1. Calls(c) # <<>> /\ IsSeq(Calls(c)) /\ Current(c) = Head(Calls(c))
            /\ Current(c).type = "wait"
        BY <1>2, CallsOf DEF Working, Calls, Current
      <4> QED BY <4>1, TailElements
    <3> QED BY <1>2, <3>1 DEF CallsAreOfProgram, IsOfProgram, IsCalled
  <2>3. c = d
    <3>1. PICK k \in program.waits_and_signals : k.type = "wait" /\ k.fence = f /\ k.queue = c
      BY <2>2 DEF IsCalled
    <3>2. PICK l \in program.waits_and_signals : l.type = "signal" /\ l.fence = f /\ l.queue = d
      BY <2>1 DEF SignalledBy, IsCalled
    <3>3. program \in Programs /\ VkQueueOf[c] = VkQueueOf[d]
      BY <1>7, <2>1 DEF IInv, Shape
    <3> QED BY <3>1, <3>2, <3>3 DEF NoAliasedWait
  <2>4. v \in VkQueues /\ Last(c) \in Nat
    BY ProgramsAssumption DEF IInv, QueuesOnTheirWay, OnItsWay, Shape, Last
  <2> QED BY <1>3, <1>7, <2>1, <2>3, <2>4 DEF GInv, Grows, Values
<1>8. ASSUME NEW waits, waits = AllWaits(c)', NEW x \in AllWaits(c) \cup {w},
             NEW e, e \in G[x.semaphore][x.value]
      PROVE  e \in G[v][Last(c)] \/ \E y \in waits : e \in G[y.semaphore][y.value]
  <2>1. AllWaits(c) = Waits(c)
    BY <1>2 DEF AllWaits
  <2>2. CASE u.vk_semaphore = v /\ Waits(c)' = Waits(c) /\ CpuWaits(c)' = {}
    <3>1. waits = Waits(c)
      BY <1>8, <2>2 DEF AllWaits
    <3> QED BY <1>3, <1>7, <1>8, <2>1, <2>2, <3>1
  <2>3. CASE Waits(c)' = AddWaitSemaphore(Waits(c), w) /\ CpuWaits(c)' = {}
    <3>1. waits = AddWaitSemaphore(Waits(c), w)
      BY <1>8, <2>3 DEF AllWaits
    <3>2. \A y \in Waits(c) \cup {w} : OnItsWay(y.semaphore, y.value)
      BY <1>3, <2>1, WaitsHaveValues
    <3>3. \E y \in AddWaitSemaphore(Waits(c), w) : e \in G[y.semaphore][y.value]
      BY <1>2, <1>8, <2>1, <3>2, AddedWaitIncludes DEF GInv
    <3> QED BY <3>1, <3>3
  <2>4. CASE Waits(c)' = Waits(c) /\ CpuWaits(c)' = {w}
    <3>1. waits = Waits(c) \cup {w}
      BY <1>8, <2>4 DEF AllWaits
    <3> QED BY <1>8, <2>1, <3>1
  <2> QED BY <1>2, <2>2, <2>3, <2>4
<1>9. ASSUME NEW d \in Queues, NEW n, n = Last(d)', NEW waits, waits = AllWaits(d)',
             NEW e \in Works(known'[d])
      PROVE  Behind(G, VkQueueOf[d], n, waits, e)
  <2>1. CASE d # c
    <3>1. n = Last(d) /\ waits = AllWaits(d) /\ e \in Works(known[d])
      BY <1>4, <1>9, <2>1 DEF AllWaits
    <3> QED BY <3>1 DEF GInv, KnownIsBehind
  <2>2. CASE d = c
    <3>1. n = Last(c) /\ e[1] \in Queues
      BY <1>2, <1>9, <2>2 DEF Works
    <3>2. e \in known[c] \/ e \in followed[f][u.update_count]
      <4>1. known'[c] = known[c] \cup followed[f][u.update_count] \cup {<<f, u.update_count>>}
        BY <1>2 DEF HInv, HistoryShape
      <4>2. e # <<f, u.update_count>>
        BY <3>1, ProgramsAssumption
      <4> QED BY <1>9, <2>2, <4>1, <4>2 DEF Works
    <3>3. \/ e \in done \/ e \in G[v][Last(c)]
          \/ \E x \in AllWaits(c) \cup {w} : e \in G[x.semaphore][x.value]
      <4>1. CASE e \in known[c]
        <5>1. Behind(G, v, Last(c), AllWaits(c), e)
          BY <3>1, <4>1 DEF GInv, KnownIsBehind, Works
        <5> QED BY <5>1 DEF Behind
      <4>2. CASE e \in followed[f][u.update_count]
        <5>1. Behind(G, u.vk_semaphore, u.vk_semaphore_value, {}, e)
          BY <3>1, <4>2 DEF GInv, UpdatesAreBehind, Works
        <5> QED BY <1>3, <5>1 DEF Behind
      <4> QED BY <3>2, <4>1, <4>2
    <3> QED BY <1>8, <1>9, <2>2, <3>1, <3>3 DEF Behind
  <2> QED BY <2>1, <2>2
<1>10. \A h \in Fences : \A x \in fence'[h].pending_updates :
         \A e \in Works(followed'[h][x.update_count]) :
           Behind(G, x.vk_semaphore, x.vk_semaphore_value, {}, e)
  BY <1>2, <1>5 DEF GInv, UpdatesAreBehind
<1>11. UNCHANGED <<vk_queue, before, done>>
  BY <1>2 DEF gpu
<1>12. GInv(G)'
  BY <1>9, <1>10, <1>11, KeptGInv
<1> QED BY <1>6, <1>12

\* A signal follows what is behind the last submission of its queue.
LEMMA SignalsGInv ==
  ASSUME IInv, HInv, WInv, CallsAreOfProgram, ~device_lost, NEW G, GInv(G),
         NEW c \in Queues, Signals(c)
  PROVE  WInv' /\ GInv(G)'
<1>1. PICK f \in Fences : \E n, value :
        /\ f = Current(c).fence /\ Working(c, "signal") /\ Flushed(c)
        /\ n = fence[f].update_count + 1
        /\ Waits(c)' = Waits(c) /\ Last(c)' = Last(c) /\ OthersUnmoved(c)
        /\ fence' = [fence EXCEPT ![f] = AddPendingSignal(@, value, VkQueueOf[c], Last(c))]
        /\ followed' = [followed EXCEPT ![f] = Append(@, known[c])]
        /\ known' = [known EXCEPT ![c] = @ \cup {<<f, n>>}]
        /\ UNCHANGED <<program, gpu, before, done>>
  <2> DEFINE h == Current(c).fence
  <2>1. /\ h \in Fences /\ Working(c, "signal") /\ Flushed(c)
        /\ Waits(c)' = Waits(c) /\ Last(c)' = Last(c) /\ OthersUnmoved(c)
        /\ fence' = [fence EXCEPT ![h] =
                       AddPendingSignal(@, Current(c).value, VkQueueOf[c], Last(c))]
        /\ followed' = [followed EXCEPT ![h] = Append(@, known[c])]
        /\ known' = [known EXCEPT ![c] = @ \cup {<<h, fence[h].update_count + 1>>}]
        /\ UNCHANGED <<program, gpu, before, done>>
    BY SignalsEffect
  <2> QED BY <2>1
<1>2. PICK n, value :
        /\ f = Current(c).fence /\ Working(c, "signal") /\ Flushed(c)
        /\ n = fence[f].update_count + 1
        /\ Waits(c)' = Waits(c) /\ Last(c)' = Last(c) /\ OthersUnmoved(c)
        /\ fence' = [fence EXCEPT ![f] = AddPendingSignal(@, value, VkQueueOf[c], Last(c))]
        /\ followed' = [followed EXCEPT ![f] = Append(@, known[c])]
        /\ known' = [known EXCEPT ![c] = @ \cup {<<f, n>>}]
        /\ UNCHANGED <<program, gpu, before, done>>
  BY <1>1
<1>3. /\ AllWaits(c) = {} /\ WaitersAtCall'
      /\ \A d \in Queues : \/ CpuWaits(d)' = CpuWaits(d)
                           \/ /\ CpuWaits(d)' = {}
                              /\ \A w \in CpuWaits(d) : Completed(w.semaphore, w.value)
  <2>1. queue[c].pc = "flushed"
    BY DEF Signals
  <2>2. Waits(c) = {} /\ CpuWaits(c) = {}
    BY <1>2, <2>1 DEF HInv, FlushedHasNoWaits, CpuWaits, Waiting
  <2> QED BY <2>2, CpuWaitsStep DEF WInv, AllWaits
<1>4. \A d \in Queues : /\ Waits(d)' = Waits(d) /\ Last(d)' = Last(d)
                        /\ \A e \in Works(known'[d]) : e \in Works(known[d])
  <2>1. <<f, n>>[1] \notin Queues
    BY ProgramsAssumption
  <2> QED BY <1>2, <2>1 DEF OthersUnmoved, Unmoved, HInv, HistoryShape, Works
<1>5. \A h \in Fences : \A u \in fence'[h].pending_updates :
        \/ /\ u \in fence[h].pending_updates
           /\ followed'[h][u.update_count] = followed[h][u.update_count]
        \/ /\ h = f /\ u.vk_semaphore = VkQueueOf[c] /\ u.vk_semaphore_value = Last(c)
           /\ followed'[h][u.update_count] = known[c]
  <2> DEFINE g == AddPendingSignal(fence[f], value, VkQueueOf[c], Last(c))
             next == NextUpdate(fence[f], value, VkQueueOf[c], Last(c))
  <2>1. g.pending_updates = fence[f].pending_updates \cup {next}
    BY FenceFieldsOf DEF IInv, Shape
  <2>2. /\ next.vk_semaphore = VkQueueOf[c] /\ next.vk_semaphore_value = Last(c)
        /\ next.update_count = n
    BY <1>2 DEF NextUpdate
  <2>3. IsSeq(followed[f]) /\ Len(followed[f]) + 1 = n /\ Len(followed[f]) \in Nat /\ n \in Nat
        /\ DOMAIN followed[f] = 1..(n - 1)
    <3>1. /\ IsSeq(followed[f]) /\ Len(followed[f]) = fence[f].update_count
          /\ fence[f].signal_count \in 0..fence[f].update_count
      BY DEF HInv, HistoryShape
    <3>2. Len(followed[f]) \in Nat /\ DOMAIN followed[f] = 1..Len(followed[f])
      BY <3>1, AppendElements
    <3> QED BY <1>2, <3>1, <3>2
  <2>4. /\ followed'[f] = Append(followed[f], known[c])
        /\ \A h \in Fences \ {f} : followed'[h] = followed[h] /\ fence'[h] = fence[h]
        /\ fence'[f] = g
    BY <1>2 DEF HInv, HistoryShape, IInv, Shape
  <2>5. followed'[f][n] = known[c] /\ \A m \in 1..(n - 1) : followed'[f][m] = followed[f][m]
    BY <2>3, <2>4, AppendElements
  <2>6. \A h \in Fences : \A u \in fence[h].pending_updates : u.update_count \in DOMAIN followed[h]
    BY ScheduledIsFollowed DEF HInv, HistoryShape
  <2> HIDE DEF g, next
  <2> SUFFICES ASSUME NEW h \in Fences, NEW u \in fence'[h].pending_updates
               PROVE  \/ /\ u \in fence[h].pending_updates
                         /\ followed'[h][u.update_count] = followed[h][u.update_count]
                      \/ /\ h = f /\ u.vk_semaphore = VkQueueOf[c]
                         /\ u.vk_semaphore_value = Last(c)
                         /\ followed'[h][u.update_count] = known[c]
    OBVIOUS
  <2>7. CASE h # f
    BY <2>4, <2>7
  <2>8. CASE h = f /\ u = next
    BY <2>2, <2>5, <2>8
  <2>9. CASE h = f /\ u \in fence[f].pending_updates
    BY <2>3, <2>5, <2>6, <2>9
  <2> QED BY <2>1, <2>4, <2>7, <2>8, <2>9
<1>6. Last(c) \in Nat
  BY ProgramsAssumption DEF IInv, QueuesOnTheirWay, OnItsWay, Shape, Last
<1>7. WInv'
  <2>1. SignalledBy(f, c)
    <3>1. Calls(c) # <<>> /\ IsSeq(Calls(c)) /\ Current(c) = Head(Calls(c))
          /\ Current(c).type = "signal"
      BY <1>2, CallsOf DEF Working, Calls, Current
    <3>2. 1 \in DOMAIN Calls(c) /\ Current(c) = Calls(c)[1]
      BY <3>1, TailElements
    <3> QED BY <1>2, <3>1, <3>2 DEF CallsAreOfProgram, IsOfProgram, SignalledBy, IsCalled
  <2>2. \A h \in Fences : \A u \in fence'[h].pending_updates :
          u \in fence[h].pending_updates \/ IsOfQueue(h, u)
    BY <1>5, <1>6, <2>1 DEF IsOfQueue
  <2>3. \A d \in Queues : /\ Last(d)' = Last(d)
                          /\ \A w \in CpuWaits(d)' : \/ w \in CpuWaits(d)
                                                     \/ OnItsWay(w.semaphore, w.value)
    BY <1>3, <1>4
  <2> QED BY <1>2, <1>3, <2>2, <2>3, KeptWInv DEF gpu
<1>8. ASSUME NEW d \in Queues, NEW m, m = Last(d)', NEW waits, waits = AllWaits(d)',
             NEW e \in Works(known'[d])
      PROVE  Behind(G, VkQueueOf[d], m, waits, e)
  <2>1. Behind(G, VkQueueOf[d], m, AllWaits(d), e)
    BY <1>4, <1>8 DEF GInv, KnownIsBehind
  <2>2. \A w \in AllWaits(d) : Values(w) /\ (w \in waits \/ Completed(w.semaphore, w.value))
    BY <1>3, <1>4, <1>8, WaitsHaveValues DEF AllWaits
  <2> QED BY <2>1, <2>2, WaitsEnd, ReachedValues DEF GInv
<1>9. \A h \in Fences : \A u \in fence'[h].pending_updates :
        \A e \in Works(followed'[h][u.update_count]) :
          Behind(G, u.vk_semaphore, u.vk_semaphore_value, {}, e)
  <2>1. \A e \in Works(known[c]) : Behind(G, VkQueueOf[c], Last(c), {}, e)
    BY <1>3 DEF GInv, KnownIsBehind
  <2> QED BY <1>5, <2>1 DEF GInv, UpdatesAreBehind
<1>10. UNCHANGED <<vk_queue, before, done>>
  BY <1>2 DEF gpu
<1>11. GInv(G)'
  BY <1>8, <1>9, <1>10, KeptGInv
<1> QED BY <1>7, <1>11

\* H differs from G in the values of v above k.
IsExtension(H, G, v, k, K) ==
  \A x \in VkQueues : \A n \in Nat : H[x][n] = IF x = v /\ n > k THEN K ELSE G[x][n]

LEMMA ExtensionExists ==
  ASSUME NEW G, NEW v, NEW k, NEW K PROVE \E H : IsExtension(H, G, v, k, K)
<1> DEFINE H == [x \in VkQueues |-> [n \in Nat |-> IF x = v /\ n > k THEN K ELSE G[x][n]]]
<1>1. IsExtension(H, G, v, k, K)
  BY DEF IsExtension
<1> QED BY <1>1

\* The work that a submission may bring along, and what precedes it.
IsNewWork(c, work) ==
  \/ work = {} /\ before' = before /\ known' = known
  \/ /\ work = {NextWork(c)}
     /\ before' = [before EXCEPT ![c] = Append(@, known[c])]
     /\ known' = [known EXCEPT ![c] = @ \cup {NextWork(c)}]

LEMMA NewWork ==
  ASSUME HInv, DoneIsWork, NEW c \in Queues, NEW work, IsNewWork(c, work)
  PROVE  /\ \A e : IsWork(e) => IsWork(e)' /\ before'[e[1]][e[2]] = before[e[1]][e[2]]
         /\ \A e \in work : IsWork(e)' /\ e \notin done /\ before'[e[1]][e[2]] = known[c]
         /\ Works(known'[c]) \subseteq Works(known[c]) \cup work
         /\ \A d \in Queues \ {c} : known'[d] = known[d]
         /\ \A d \in Queues : DOMAIN before[d] \subseteq DOMAIN before'[d]
         /\ \A d \in Queues : \A n \in DOMAIN before'[d] :
              \/ n \in DOMAIN before[d] /\ before'[d][n] = before[d][n]
              \/ <<d, n>> \notin done
<1>1. /\ DOMAIN before = Queues /\ DOMAIN known = Queues /\ IsSeq(before[c])
      /\ Len(before[c]) \in Nat /\ DOMAIN before[c] = 1..Len(before[c])
  BY AppendElements DEF HInv, HistoryShape
<1> DEFINE n == Len(before[c]) + 1
<1>2. CASE work = {} /\ before' = before /\ known' = known
  BY <1>2 DEF IsWork, Works
<1>3. CASE /\ work = {NextWork(c)}
           /\ before' = [before EXCEPT ![c] = Append(@, known[c])]
           /\ known' = [known EXCEPT ![c] = @ \cup {NextWork(c)}]
  <2>1. NextWork(c) = <<c, n>> /\ n \notin DOMAIN before[c]
    BY <1>1 DEF NextWork
  <2>2. /\ before'[c] = Append(before[c], known[c]) /\ DOMAIN before' = Queues
        /\ \A d \in Queues \ {c} : before'[d] = before[d]
        /\ known'[c] = known[c] \cup {NextWork(c)}
        /\ \A d \in Queues \ {c} : known'[d] = known[d]
    BY <1>1, <1>3
  <2>3. /\ DOMAIN before'[c] = DOMAIN before[c] \cup {n} /\ before'[c][n] = known[c]
        /\ \A m \in DOMAIN before[c] : before'[c][m] = before[c][m]
    BY <1>1, <2>2, AppendElements
  <2>4. <<c, n>> \notin done
    BY <2>1 DEF DoneIsWork, IsWork
  <2>5. \A d \in Queues : \A m \in DOMAIN before'[d] :
          \/ m \in DOMAIN before[d] /\ before'[d][m] = before[d][m]
          \/ d = c /\ m = n
    BY <2>2, <2>3
  <2> HIDE DEF n
  <2>6. \A e : IsWork(e) => IsWork(e)' /\ before'[e[1]][e[2]] = before[e[1]][e[2]]
    BY <2>2, <2>3 DEF IsWork
  <2>7. \A e \in work : IsWork(e)' /\ e \notin done /\ before'[e[1]][e[2]] = known[c]
    BY <1>3, <2>1, <2>3, <2>4 DEF IsWork
  <2>9. Works(known'[c]) \subseteq Works(known[c]) \cup work
    BY <1>3, <2>2 DEF Works
  <2> QED BY <2>2, <2>3, <2>4, <2>5, <2>6, <2>7, <2>9 DEF n
<1> QED BY <1>2, <1>3 DEF IsNewWork

LEMMA SubmissionGInv ==
  ASSUME IInv, IInv', HInv, WInv, NEW G, GInv(G), NEW c \in Queues, NEW work,
         SubmitWork(c, work), IsNewWork(c, work), Last(c)' = NextTimelineValue(c),
         Waits(c)' = {}, CpuWaits(c) = {}, CpuWaits(c)' = {}, OthersUnmoved(c),
         WaitersAtCall', UNCHANGED <<program, fence, followed, done>>
  PROVE  WInv' /\ \E H : GInv(H)'
<1> DEFINE v == VkQueueOf[c]
<1>1. PICK k, rest, s : /\ k = Count(v) /\ rest = RemainingWaits(Waits(c))
                        /\ s = [value |-> k + 1, work |-> work, waits |-> rest]
  OBVIOUS
<1>2. /\ v \in VkQueues /\ k \in Nat /\ Last(c)' = k + 1 /\ Count(v)' = k + 1
      /\ Reached(v)' = Reached(v) /\ Submitted(v)' = Append(Submitted(v), s)
      /\ \A x \in VkQueues \ {v} : vk_queue'[x] = vk_queue[x]
  BY <1>1, SubmitEffect, SubmittedValues
<1>3. /\ s.value = k + 1 /\ s.work = work /\ s.waits = rest /\ s.value - 1 = k
  BY <1>1, <1>2
<1>4. PICK K : K = G[v][k] \cup work \cup Works(known[c])
  OBVIOUS
<1>a. PICK H : IsExtension(H, G, v, k, K)
  BY ExtensionExists
<1>5. \A x \in VkQueues : \A n \in Nat : H[x][n] = IF x = v /\ n > k THEN K ELSE G[x][n]
  BY <1>a DEF IsExtension
<1> HIDE DEF v
<1>6. ASSUME NEW x, NEW n, OnItsWay(x, n) PROVE H[x][n] = G[x][n] /\ OnItsWay(x, n)' /\ n \in Nat
  <2>1. x \in VkQueues /\ Count(x) \in Nat /\ n \in Nat /\ n <= Count(x)
    BY <1>6 DEF OnItsWay, IInv, Shape
  <2>2. H[x][n] = G[x][n]
    BY <1>1, <1>2, <1>5, <2>1
  <2>3. Count(x)' \in Nat /\ Count(x) <= Count(x)'
    BY <1>1, <1>2, <2>1 DEF Count
  <2> QED BY <2>1, <2>2, <2>3 DEF OnItsWay
<1>7. \A x \in VkQueues : /\ Reached(x)' = Reached(x) /\ Reached(x) \in Nat
                          /\ Count(x) \in Nat /\ Reached(x) <= Count(x)
  <2>1. \A x \in VkQueues : Reached(x)' = Reached(x)
    BY <1>2 DEF Reached
  <2>2. \A x \in VkQueues : Reached(x) \in Nat /\ Count(x) \in Nat /\ Reached(x) <= Count(x)
    <3> TAKE x \in VkQueues
    <3>1. IsSeq(Submitted(x)) /\ Count(x) \in Nat /\ Reached(x) \in Nat
      BY SubmittedValues
    <3>2. Len(Submitted(x)) \in Nat
      BY <3>1, AppendElements
    <3> QED BY <3>1, <3>2 DEF HInv, Timeline
  <2> QED BY <2>1, <2>2
<1>8. Grows(H)
  <2> SUFFICES ASSUME NEW x \in VkQueues, NEW m \in Nat, NEW n \in Nat, m <= n
               PROVE  H[x][m] \subseteq H[x][n]
    BY DEF Grows
  <2>1. CASE x # v \/ n <= k
    BY <1>2, <1>5, <2>1 DEF GInv, Grows
  <2>2. CASE x = v /\ m > k
    BY <1>2, <1>5, <2>2
  <2>3. CASE x = v /\ m <= k /\ n > k
    <3>1. G[v][m] \subseteq G[v][k]
      BY <1>2, <2>3 DEF GInv, Grows
    <3> QED BY <1>2, <1>4, <1>5, <2>3, <3>1
  <2> QED BY <1>2, <2>1, <2>2, <2>3
<1>9. ReachedIsDone(H)'
  <2> SUFFICES ASSUME NEW x \in VkQueues, NEW n \in Nat, n <= Reached(x)
               PROVE  H[x][n] \subseteq done
    BY <1>7 DEF ReachedIsDone
  <2>1. OnItsWay(x, n)
    BY <1>7 DEF OnItsWay
  <2> QED BY <1>6, <2>1 DEF GInv, ReachedIsDone
<1>10. ASSUME NEW x, NEW n, NEW waits, NEW e, OnItsWay(x, n),
              \A w \in waits : OnItsWay(w.semaphore, w.value), Behind(G, x, n, waits, e)
       PROVE  Behind(H, x, n, waits, e) /\ Behind(H, x, n, waits, e)'
  BY <1>6, <1>10 DEF Behind
<1>11. \A e \in Works(known[c]) : Behind(H, v, k, rest, e) /\ Behind(H, v, k, rest, e)'
  <2> TAKE e \in Works(known[c])
  <2>1. Behind(G, v, Last(c), AllWaits(c), e)
    BY DEF GInv, KnownIsBehind, v
  <2>2. \A w \in AllWaits(c) : Values(w) /\ (w \in rest \/ Completed(w.semaphore, w.value))
    BY <1>1, WaitsHaveValues DEF AllWaits, RemainingWaits
  <2>3. Behind(G, v, Last(c), rest, e)
    BY <2>1, <2>2, <1>7, WaitsEnd DEF GInv
  <2>4. Last(c) \in Nat /\ Last(c) <= k
    BY <1>1, <1>2 DEF IInv, QueuesOnTheirWay, OnItsWay, Last, v
  <2>5. Behind(G, v, k, rest, e)
    BY <1>2, <2>3, <2>4 DEF GInv, Grows, Behind
  <2>6. OnItsWay(v, k) /\ \A w \in rest : OnItsWay(w.semaphore, w.value)
    BY <1>1, <1>2, WaitsHaveValues DEF OnItsWay, AllWaits, RemainingWaits
  <2> QED BY <1>10, <2>5, <2>6
<1>12. /\ \A e : IsWork(e) => IsWork(e)' /\ before'[e[1]][e[2]] = before[e[1]][e[2]]
       /\ \A e \in work : IsWork(e)' /\ e \notin done /\ before'[e[1]][e[2]] = known[c]
       /\ Works(known'[c]) \subseteq Works(known[c]) \cup work
       /\ \A d \in Queues \ {c} : known'[d] = known[d]
       /\ \A d \in Queues : \A n \in DOMAIN before'[d] :
            \/ n \in DOMAIN before[d] /\ before'[d][n] = before[d][n]
            \/ <<d, n>> \notin done
  BY NewWork DEF WInv
<1>13. SubmittedIsBehind(H)'
  <2> SUFFICES ASSUME NEW x \in VkQueues, NEW i \in DOMAIN Submitted(x)', NEW t, t = Submitted(x)'[i]
               PROVE  AddsWork(H, x, t)'
    BY DEF SubmittedIsBehind
  <2>1. (i \in DOMAIN Submitted(x) /\ t = Submitted(x)[i]) \/ (x = v /\ t = s)
    <3>1. CASE x # v
      BY <1>2, <3>1 DEF Submitted
    <3>2. CASE x = v
      <4>1. IsSeq(Submitted(v))
        BY <1>2, SubmittedValues
      <4>2. /\ Len(Submitted(v)) \in Nat /\ DOMAIN Submitted(v) = 1..Len(Submitted(v))
            /\ DOMAIN Submitted(v)' = 1..(Len(Submitted(v)) + 1)
            /\ \A j \in 1..Len(Submitted(v)) : Submitted(v)'[j] = Submitted(v)[j]
            /\ Submitted(v)'[Len(Submitted(v)) + 1] = s
        BY <1>2, <4>1, AppendElements
      <4>3. i \in 1..Len(Submitted(v)) \/ i = Len(Submitted(v)) + 1
        BY <3>2, <4>2
      <4> QED BY <3>2, <4>2, <4>3
    <3> QED BY <3>1, <3>2
  <2>2. CASE i \in DOMAIN Submitted(x) /\ t = Submitted(x)[i]
    <3>1. AddsWork(G, x, t)
      BY <2>2 DEF GInv, SubmittedIsBehind
    <3>2. OnItsWay(x, t.value) /\ OnItsWay(x, t.value - 1)
      <4>1. IsSeq(Submitted(x))
        BY SubmittedValues
      <4>2. Len(Submitted(x)) \in Nat /\ i \in 1..Len(Submitted(x))
        BY <2>2, <4>1, AppendElements
      <4>3. t.value = Reached(x) + i /\ Count(x) = Reached(x) + Len(Submitted(x))
        BY <2>2 DEF HInv, Timeline
      <4> QED BY <1>7, <4>2, <4>3 DEF OnItsWay
    <3>3. \A w \in t.waits : OnItsWay(w.semaphore, w.value)
      BY <2>2, WaitsHaveValues
    <3>4. \A e \in H[x][t.value] : e \in t.work \/ Behind(H, x, t.value - 1, t.waits, e)'
      BY <1>6, <1>10, <3>1, <3>2, <3>3 DEF AddsWork
    <3>5. ASSUME NEW e \in t.work
          PROVE  IsWork(e)' /\ \A y \in Works(before'[e[1]][e[2]]) :
                                 Behind(H, x, t.value - 1, t.waits, y)'
      <4>1. IsWork(e) /\ before'[e[1]][e[2]] = before[e[1]][e[2]] /\ IsWork(e)'
        BY <1>12, <3>1 DEF AddsWork
      <4> QED BY <1>10, <3>1, <3>2, <3>3, <4>1 DEF AddsWork
    <3> QED BY <3>4, <3>5 DEF AddsWork, Works
  <2>3. CASE x = v /\ t = s
    <3>1. H[v][k + 1] = K /\ H[v][k] = G[v][k]
      BY <1>2, <1>5
    <3>2. \A e \in K : e \in work \/ Behind(H, v, k, rest, e)'
      BY <1>4, <1>11, <3>1 DEF Behind
    <3>3. \A e \in work : /\ IsWork(e)'
                          /\ \A y \in Works(before'[e[1]][e[2]]) : Behind(H, v, k, rest, y)'
      BY <1>11, <1>12
    <3>4. /\ \A e \in H[x][t.value] : e \in t.work \/ Behind(H, x, t.value - 1, t.waits, e)'
          /\ \A e \in t.work : /\ IsWork(e)'
                               /\ \A y \in Works(before'[e[1]][e[2]]) :
                                    Behind(H, x, t.value - 1, t.waits, y)'
      BY <1>3, <2>3, <3>1, <3>2, <3>3
    <3> QED BY <3>4 DEF AddsWork, Works
  <2> QED BY <2>1, <2>2, <2>3
<1>14. KnownIsBehind(H)'
  <2> SUFFICES ASSUME NEW d \in Queues, NEW n, n = Last(d)', NEW waits, waits = AllWaits(d)',
                      NEW e \in Works(known'[d])
               PROVE  Behind(H, VkQueueOf[d], n, waits, e)'
    BY DEF KnownIsBehind, Works
  <2>1. CASE d = c
    <3>1. e \in Works(known[c]) \cup work /\ n = k + 1
      BY <1>2, <1>12, <2>1
    <3>2. H[v][k + 1] = K
      BY <1>2, <1>5
    <3>3. CASE e \in work
      BY <1>4, <2>1, <3>1, <3>2, <3>3 DEF Behind, v
    <3>4. CASE e \in Works(known[c])
      BY <1>4, <2>1, <3>1, <3>2, <3>4 DEF Behind, v
    <3> QED BY <3>1, <3>3, <3>4
  <2>2. CASE d # c
    <3>1. n = Last(d) /\ waits = AllWaits(d) /\ e \in Works(known[d])
      BY <1>12, <2>2 DEF OthersUnmoved, Unmoved, AllWaits, CpuWaits, Waiting
    <3>2. Behind(G, VkQueueOf[d], n, waits, e)
      BY <3>1 DEF GInv, KnownIsBehind
    <3>3. OnItsWay(VkQueueOf[d], n) /\ \A w \in waits : OnItsWay(w.semaphore, w.value)
      BY <3>1, WaitsHaveValues DEF IInv, QueuesOnTheirWay, Last
    <3> QED BY <1>10, <3>2, <3>3
  <2> QED BY <2>1, <2>2
<1>15. UpdatesAreBehind(H)'
  <2> SUFFICES ASSUME NEW f \in Fences, NEW u \in fence[f].pending_updates,
                      NEW e \in Works(followed[f][u.update_count])
               PROVE  Behind(H, u.vk_semaphore, u.vk_semaphore_value, {}, e)'
    BY DEF UpdatesAreBehind, Works
  <2>1. Behind(G, u.vk_semaphore, u.vk_semaphore_value, {}, e)
    BY DEF GInv, UpdatesAreBehind
  <2>2. OnItsWay(u.vk_semaphore, u.vk_semaphore_value)
    BY WaitsHaveValues
  <2> QED BY <1>10, <2>1, <2>2
<1>16. GInv(H)'
  <2>1. Grows(H)'
    BY <1>8 DEF Grows
  <2> QED BY <1>9, <1>13, <1>14, <1>15, <2>1 DEF GInv
<1>17. WInv'
  <2>1. CpuWaitsOnTheirWay'
    <3> SUFFICES ASSUME NEW d \in Queues, NEW w \in CpuWaits(d)'
                 PROVE  OnItsWay(w.semaphore, w.value)'
      BY DEF CpuWaitsOnTheirWay
    <3>1. w \in CpuWaits(d)
      BY DEF OthersUnmoved, CpuWaits, Waiting
    <3> QED BY <1>6, <3>1 DEF WInv, CpuWaitsOnTheirWay
  <2>2. UpdatesAreOfQueues'
    <3> SUFFICES ASSUME NEW f \in Fences, NEW u \in fence[f].pending_updates
                 PROVE  IsOfQueue(f, u)'
      BY DEF UpdatesAreOfQueues
    <3>1. PICK d \in Queues : /\ SignalledBy(f, d) /\ u.vk_semaphore = VkQueueOf[d]
                              /\ u.vk_semaphore_value <= Last(d)
      BY DEF WInv, UpdatesAreOfQueues, IsOfQueue
    <3>2. PICK n : n = Last(d)'
      OBVIOUS
    <3>3. u.vk_semaphore_value \in Nat /\ Last(d) \in Nat /\ n \in Nat /\ Last(d) <= n
      <4>1. Last(d) \in 0..Count(VkQueueOf[d]) /\ VkQueueOf[d] \in VkQueues
        BY ProgramsAssumption DEF IInv, QueuesOnTheirWay, OnItsWay, Last
      <4>2. CASE d = c
        BY <1>1, <1>2, <1>7, <3>2, <4>1, <4>2, WaitsHaveValues DEF v
      <4>3. CASE d # c
        BY <1>7, <3>2, <4>1, <4>3, WaitsHaveValues DEF OthersUnmoved, Unmoved
      <4> QED BY <4>2, <4>3
    <3>4. SignalledBy(f, d)' /\ u.vk_semaphore_value <= n
      BY <3>1, <3>3 DEF SignalledBy, IsCalled
    <3> QED BY <3>1, <3>2, <3>4 DEF IsOfQueue
  <2>3. DoneIsWork'
    BY <1>12 DEF WInv, DoneIsWork
  <2>4. WaitOrdersWork'
    <3> SUFFICES ASSUME NEW d \in Queues, NEW n \in DOMAIN before'[d], <<d, n>> \in done
                 PROVE  Works(before'[d][n]) \subseteq done
      BY DEF WaitOrdersWork, Works
    <3>1. n \in DOMAIN before[d] /\ before'[d][n] = before[d][n]
      BY <1>12
    <3> QED BY <3>1 DEF WInv, WaitOrdersWork
  <2> QED BY <2>1, <2>2, <2>3, <2>4 DEF WInv
<1> QED BY <1>16, <1>17

\* What a submission thread does after its waits are over or submitted.
LEMMA FlushGInv ==
  ASSUME IInv, IInv', HInv, WInv, ~device_lost, NEW G, GInv(G), NEW c \in Queues, FlushWaiters(c)
  PROVE  WInv' /\ \E H : GInv(H)'
<1>1. /\ Waits(c)' = {} /\ OthersUnmoved(c)
      /\ \/ /\ RemainingWaits(Waits(c)) = {}
            /\ Last(c)' = Last(c) /\ UNCHANGED gpu
         \/ Last(c)' = NextTimelineValue(c) /\ SubmitWork(c, {})
      /\ UNCHANGED <<program, fence, known, followed, before, done>>
  BY FlushEffect DEF history
<1>2. WaitersAtCall' /\ CpuWaits(c) = {} /\ CpuWaits(c)' = {}
  BY CpuWaitsStep DEF WInv
<1>3. CASE Last(c)' = NextTimelineValue(c) /\ SubmitWork(c, {})
  <2>1. IsNewWork(c, {})
    BY <1>1 DEF IsNewWork
  <2> QED BY <1>1, <1>2, <1>3, <2>1, SubmissionGInv
<1>4. CASE RemainingWaits(Waits(c)) = {} /\ Last(c)' = Last(c) /\ UNCHANGED gpu
  <2>1. \A d \in Queues : /\ Last(d)' = Last(d) /\ CpuWaits(d)' = CpuWaits(d)
                          /\ d # c => Waits(d)' = Waits(d)
    BY <1>1, <1>2, <1>4 DEF OthersUnmoved, Unmoved, CpuWaits, Waiting
  <2>2. UNCHANGED vk_queue
    BY <1>4 DEF gpu
  <2>3. WInv'
    BY <1>1, <1>2, <2>1, <2>2, KeptWInv
  <2>4. ASSUME NEW d \in Queues, NEW n, n = Last(d)', NEW waits, waits = AllWaits(d)',
               NEW e \in Works(known'[d])
        PROVE  Behind(G, VkQueueOf[d], n, waits, e)
    <3>1. Behind(G, VkQueueOf[d], n, AllWaits(d), e)
      BY <1>1, <2>1, <2>4 DEF GInv, KnownIsBehind
    <3>2. \A w \in AllWaits(d) : Values(w) /\ (w \in waits \/ Completed(w.semaphore, w.value))
      <4>1. CASE d = c
        <5>1. \A w \in Waits(c) : Completed(w.semaphore, w.value)
          BY <1>4 DEF RemainingWaits
        <5> QED BY <1>2, <4>1, <5>1, WaitsHaveValues DEF AllWaits
      <4>2. CASE d # c
        BY <2>1, <2>4, <4>2, WaitsHaveValues DEF AllWaits
      <4> QED BY <4>1, <4>2
    <3> QED BY <3>1, <3>2, WaitsEnd, ReachedValues DEF GInv
  <2>5. \A f \in Fences : \A u \in fence'[f].pending_updates :
          \A e \in Works(followed'[f][u.update_count]) :
            Behind(G, u.vk_semaphore, u.vk_semaphore_value, {}, e)
    BY <1>1 DEF GInv, UpdatesAreBehind
  <2>6. GInv(G)'
    BY <1>1, <2>2, <2>4, <2>5, KeptGInv
  <2> QED BY <2>3, <2>6
<1> QED BY <1>1, <1>3, <1>4

LEMMA ExecuteGInv ==
  ASSUME IInv, IInv', HInv, WInv, ~device_lost, NEW G, GInv(G), NEW c \in Queues, Execute(c)
  PROVE  WInv' /\ \E H : GInv(H)'
<1>1. /\ Waits(c)' = {} /\ OthersUnmoved(c)
      /\ Last(c)' = NextTimelineValue(c) /\ SubmitWork(c, {NextWork(c)})
      /\ before' = [before EXCEPT ![c] = Append(@, known[c])]
      /\ known' = [known EXCEPT ![c] = @ \cup {NextWork(c)}]
      /\ UNCHANGED <<program, fence, followed, done>>
  BY ExecuteEffect
<1>2. WaitersAtCall' /\ CpuWaits(c) = {} /\ CpuWaits(c)' = {}
  BY CpuWaitsStep DEF WInv
<1>3. PICK work : work = {NextWork(c)}
  OBVIOUS
<1>4. IsNewWork(c, work) /\ SubmitWork(c, work)
  BY <1>1, <1>3 DEF IsNewWork
<1> QED BY <1>1, <1>2, <1>4, SubmissionGInv

\* The GPU finishes the work of a submission, and with it everything that the
\* work follows was finished.
LEMMA GpuGInv ==
  ASSUME IInv, HInv, WInv, NEW G, GInv(G), NEW v \in VkQueues, Gpu(v)
  PROVE  WInv' /\ GInv(G)'
<1>1. PICK s :
        /\ 1 \in DOMAIN Submitted(v) /\ s = Submitted(v)[1] /\ s.value = Reached(v) + 1
        /\ \A w \in s.waits : Completed(w.semaphore, w.value)
        /\ IsSeq(Submitted(v)') /\ DOMAIN Submitted(v)' = 1..(Len(Submitted(v)) - 1)
        /\ DOMAIN Submitted(v) = 1..Len(Submitted(v)) /\ Len(Submitted(v)) \in Nat \ {0}
        /\ \A i \in 1..(Len(Submitted(v)) - 1) : Submitted(v)'[i] = Submitted(v)[i + 1]
        /\ Reached(v)' = s.value /\ Count(v)' = Count(v)
        /\ \A x \in VkQueues \ {v} : vk_queue'[x] = vk_queue[x]
        /\ done' = done \cup s.work
        /\ UNCHANGED <<program, fence, queue, known, followed, before>>
  BY GpuEffect
<1>2. Reached(v) \in Nat /\ s.value - 1 = Reached(v) /\ AddsWork(G, v, s)
  BY <1>1, SubmittedValues DEF GInv, SubmittedIsBehind
<1>3. \A e : Behind(G, v, s.value - 1, s.waits, e) => e \in done
  <2> SUFFICES ASSUME NEW e, Behind(G, v, s.value - 1, s.waits, e) PROVE e \in done
    OBVIOUS
  <2>1. \A w \in s.waits : Values(w) /\ Completed(w.semaphore, w.value)
    BY <1>1, WaitsHaveValues
  <2>2. Behind(G, v, s.value - 1, {}, e)
    BY <2>1, WaitsEnd, ReachedValues DEF GInv
  <2> QED BY <1>2, <2>2 DEF Behind, GInv, ReachedIsDone
<1>4. \A x, n, waits, e : Behind(G, x, n, waits, e) => Behind(G, x, n, waits, e)'
  BY <1>1 DEF Behind
<1>5. Grows(G)'
  BY DEF GInv, Grows
<1>6. ReachedIsDone(G)'
  <2> SUFFICES ASSUME NEW x \in VkQueues, NEW n \in Nat, n <= Reached(x)'
               PROVE  G[x][n] \subseteq done'
    BY DEF ReachedIsDone
  <2>1. CASE x # v \/ n <= Reached(v)
    BY <1>1, <2>1 DEF GInv, ReachedIsDone, Reached
  <2>2. CASE x = v /\ n = s.value
    BY <1>1, <1>2, <1>3, <2>2 DEF AddsWork
  <2> QED BY <1>1, <1>2, <2>1, <2>2
<1>7. SubmittedIsBehind(G)'
  <2> SUFFICES ASSUME NEW x \in VkQueues, NEW i \in DOMAIN Submitted(x)', NEW t,
                      t = Submitted(x)'[i]
               PROVE  AddsWork(G, x, t)'
    BY DEF SubmittedIsBehind
  <2>1. \E j \in DOMAIN Submitted(x) : t = Submitted(x)[j]
    <3>1. CASE x = v
      BY <1>1, <3>1
    <3>2. CASE x # v
      BY <1>1, <3>2 DEF Submitted
    <3> QED BY <3>1, <3>2
  <2>2. AddsWork(G, x, t)
    BY <2>1 DEF GInv, SubmittedIsBehind
  <2> QED BY <1>1, <1>4, <2>2 DEF AddsWork, IsWork, Works
<1>8. KnownIsBehind(G)'
  <2>1. \A c \in Queues : Last(c)' = Last(c) /\ AllWaits(c)' = AllWaits(c)
    BY <1>1 DEF Last, AllWaits, Waits, CpuWaits, Waiting
  <2> QED BY <1>1, <1>4, <2>1 DEF GInv, KnownIsBehind, Works
<1>9. UpdatesAreBehind(G)'
  BY <1>1, <1>4 DEF GInv, UpdatesAreBehind, Works
<1>10. WInv'
  <2>1. WaitersAtCall'
    BY <1>1 DEF WInv, WaitersAtCall, Waiting, Working
  <2>2. CpuWaitsOnTheirWay'
    <3>1. \A x \in VkQueues : Count(x)' = Count(x)
      BY <1>1 DEF Count
    <3>2. \A c \in Queues : CpuWaits(c)' = CpuWaits(c)
      BY <1>1 DEF CpuWaits, Waiting
    <3> QED BY <3>1, <3>2 DEF WInv, CpuWaitsOnTheirWay, OnItsWay
  <2>3. UpdatesAreOfQueues'
    BY <1>1 DEF WInv, UpdatesAreOfQueues, IsOfQueue, SignalledBy, IsCalled, Last
  <2>4. DoneIsWork'
    BY <1>1, <1>2 DEF WInv, DoneIsWork, IsWork, AddsWork
  <2>5. WaitOrdersWork'
    <3> SUFFICES ASSUME NEW c \in Queues, NEW n \in DOMAIN before[c], <<c, n>> \in done'
                 PROVE  Works(before[c][n]) \subseteq done
      BY <1>1 DEF WaitOrdersWork, Works
    <3>1. CASE <<c, n>> \in done
      BY <3>1 DEF WInv, WaitOrdersWork
    <3>2. CASE <<c, n>> \in s.work
      <4>1. \A x \in Works(before[<<c, n>>[1]][<<c, n>>[2]]) : x \in done
        BY <1>2, <1>3, <3>2 DEF AddsWork
      <4> QED BY <4>1
    <3> QED BY <1>1, <3>1, <3>2
  <2> QED BY <2>1, <2>2, <2>3, <2>4, <2>5 DEF WInv
<1> QED BY <1>5, <1>6, <1>7, <1>8, <1>9, <1>10 DEF GInv

LEMMA InitGInv ==
  ASSUME Init PROVE WInv /\ \E G : GInv(G)
<1>1. WInv
  BY DEF Init, NewQueue, NewFence, WInv, WaitersAtCall, CpuWaitsOnTheirWay, UpdatesAreOfQueues,
         DoneIsWork, WaitOrdersWork, CpuWaits, Waiting, Works
<1> DEFINE G == [v \in VkQueues |-> [n \in Nat |-> {}]]
<1>2. \A v \in VkQueues : \A n \in Nat : G[v][n] = {}
  OBVIOUS
<1> HIDE DEF G
<1>3. Grows(G) /\ ReachedIsDone(G)
  BY <1>2 DEF Grows, ReachedIsDone
<1>4. SubmittedIsBehind(G) /\ KnownIsBehind(G) /\ UpdatesAreBehind(G)
  BY DEF Init, NewQueue, NewVkQueue, NewFence, SubmittedIsBehind, Submitted, KnownIsBehind,
         UpdatesAreBehind, Works
<1>5. GInv(G)
  BY <1>3, <1>4 DEF GInv
<1> QED BY <1>1, <1>5

EInv == CallsAreOfProgram /\ WInv /\ \E G : GInv(G)

LEMMA NextEInv ==
  ASSUME NoAliasedWait, IInv, device_lost \/ HInv, device_lost \/ EInv, [Next]_vars
  PROVE  device_lost' \/ EInv'
<1> SUFFICES ASSUME ~device_lost' PROVE EInv'
  OBVIOUS
<1>1. ~device_lost /\ HInv /\ CallsAreOfProgram /\ WInv
  BY StepsWhileDeviceWorks DEF EInv
<1>2. PICK G : GInv(G)
  BY <1>1 DEF EInv
<1>3. IInv' /\ CallsAreOfProgram'
  BY <1>1, NextIInv, CallsStep
<1>4. CASE CalmStep
  BY <1>1, <1>2, <1>3, <1>4, CalmGInv DEF EInv
<1>5. ASSUME NEW c \in Queues, Resolution(c) \/ Signals(c) PROVE EInv'
  BY <1>1, <1>2, <1>3, <1>5, ResolutionGInv, SignalsGInv DEF EInv
<1>6. ASSUME NEW c \in Queues, FlushWaiters(c) \/ Execute(c) PROVE EInv'
  BY <1>1, <1>2, <1>3, <1>6, FlushGInv, ExecuteGInv DEF EInv
<1>7. ASSUME NEW v \in VkQueues, Gpu(v) PROVE EInv'
  BY <1>1, <1>2, <1>3, <1>7, GpuGInv DEF EInv
<1> QED BY <1>4, <1>5, <1>6, <1>7, StepsWhileDeviceWorks DEF CalmStep

LEMMA LostDeviceIsIdle ==
  ASSUME device_lost \/ device_lost', [Next]_vars PROVE UNCHANGED <<before, done>>
<1> USE DEF history
<1>1. CASE UNCHANGED vars \/ LoseDevice
  BY <1>1 DEF vars, LoseDevice
<1>2. ASSUME NEW c \in Queues, ExecuteCommandLists(c) \/ ReleaseQueue(c) \/ FreesQueue(c)
      PROVE  UNCHANGED <<before, done>>
  BY <1>2 DEF ExecuteCommandLists, ReleaseQueue, FreesQueue
<1>3. ASSUME NEW k \in program.waits_and_signals, QueueWait(k) \/ QueueSignal(k)
      PROVE  UNCHANGED <<before, done>>
  BY <1>3 DEF QueueWait, QueueSignal
<1>4. ASSUME NEW f \in Fences, CpuSignalFence(f) \/ Release(f) PROVE UNCHANGED <<before, done>>
  BY <1>4 DEF CpuSignalFence, Release
<1>5. ASSUME NEW c \in Queues, SubmissionThread(c) PROVE UNCHANGED <<before, done>>
  <2>1. CASE WaitSatisfied(c) \/ CpuWaitReturns(c) \/ Stops(c)
    BY <2>1 DEF WaitSatisfied, CpuWaitReturns, Stops
  <2>2. CASE WaitOnSameVkQueue(c) \/ WaitIsDeferred(c) \/ WaitOnCpu(c)
    <3>1. \E u : Resolves(c, u)
      BY <2>2 DEF WaitOnSameVkQueue, WaitIsDeferred, WaitOnCpu
    <3> QED BY <3>1 DEF Resolves
  <2>3. CASE FlushWaiters(c) \/ FlushFails(c) \/ ExecuteFails(c)
    BY <2>3 DEF FlushWaiters, FlushFails, ExecuteFails, SubmissionFails
  <2>4. CASE Signals(c)
    BY <2>4 DEF Signals
  <2>5. ~Execute(c)
    BY DEF Execute, SubmitWork
  <2> QED BY <1>5, <2>1, <2>2, <2>3, <2>4, <2>5 DEF SubmissionThread
<1>6. ASSUME NEW c \in Queues, FenceWorker(c) PROVE UNCHANGED <<before, done>>
  BY <1>6 DEF FenceWorker, EnsuresOrder, SignalsFence, DropsSignal, ReleasesSubmission, NextItem
<1>7. ASSUME NEW v \in VkQueues PROVE ~Gpu(v)
  BY DEF Gpu
<1> QED BY <1>1, <1>2, <1>3, <1>4, <1>5, <1>6, <1>7 DEF Next

\* Work runs on the GPU after everything that precedes it in its command queue
\* and after all work that the signals it waited for follow, however many queues the
\* order is passed through, and whether or not the device is lost in the end.
\* A queue must not wait for the signals of another queue on its own VkQueue
\* (d3d12_command_queue_wait, d3d12_command_queue_add_wait,
\* d3d12_command_queue_gather_wait_semaphores_locked).
THEOREM WorkIsOrdered == NoAliasedWait => (Spec => []WaitOrdersWork)
<1> SUFFICES ASSUME NoAliasedWait PROVE Spec => []WaitOrdersWork
  OBVIOUS
<1> DEFINE Inv == (device_lost \/ EInv) /\ WaitOrdersWork
<1>1. Init => Inv
  BY InitOInv, InitGInv DEF EInv, WInv
<1>2. IInv /\ (device_lost \/ HInv) /\ Inv /\ [Next]_vars => Inv'
  <2> SUFFICES ASSUME IInv, device_lost \/ HInv, Inv, [Next]_vars PROVE Inv'
    OBVIOUS
  <2>1. device_lost' \/ EInv'
    BY NextEInv
  <2>2. CASE EInv'
    BY <2>2 DEF EInv, WInv
  <2>3. CASE device_lost'
    <3>1. UNCHANGED <<before, done>>
      BY <2>3, LostDeviceIsIdle
    <3> QED BY <2>3, <3>1 DEF WaitOrdersWork, Works
  <2> QED BY <2>1, <2>2, <2>3
<1> QED BY <1>1, <1>2, HistoryInvariance, PTL DEF Spec

-----------------------------------------------------------------------------
(* What the CPU sees of the queues is whole: the values of fences are in    *)
(* range, and finished work is work of a queue.                            *)

InRange(value) == value \in 0..UINT64_MAX

ValuesInRange(f) ==
  InRange(f.virtual_value) /\ \A u \in f.pending_updates : InRange(u.virtual_value)

FencesInRange == \A f \in Fences : ValuesInRange(fence[f])

SubmittedIsWork ==
  \A v \in VkQueues : \A i \in DOMAIN Submitted(v) : \A e \in Submitted(v)[i].work : IsWork(e)

VInv == FencesInRange /\ SubmittedIsWork /\ DoneIsWork

\* The value of the last update that is applied is one that was scheduled.
LEMMA LastAppliedIsApplied ==
  ASSUME NEW f, NEW m \in Nat, \A u \in f.pending_updates : u.update_count \in 0..m,
         NEW n, Applied(f, n) # {}
  PROVE  LastApplied(f, n) \in f.pending_updates
<1> DEFINE A == Applied(f, n)
           S == {u.update_count : u \in A}
<1>1. \A u \in A : u \in f.pending_updates /\ u.update_count \in 0..m
  BY DEF Applied
<1> HIDE DEF A
<1>2. S \in SUBSET (0..m) /\ S # {}
  BY <1>1 DEF A
<1>3. Max(S) \in S /\ \A y \in S : y <= Max(S)
  BY <1>2, MaxOfBounded
<1>4. PICK u \in A : u.update_count = Max(S)
  BY <1>3
<1>5. \A w \in A : w.update_count <= u.update_count
  BY <1>3, <1>4
<1>6. LastApplied(f, n) \in A
  BY <1>5 DEF LastApplied, A
<1> QED BY <1>1, <1>6

LEMMA SignalInRange ==
  ASSUME NEW f, DOMAIN f = FenceFields, ValuesInRange(f), NEW m \in Nat,
         \A u \in f.pending_updates : u.update_count \in 0..m, NEW n
  PROVE  ValuesInRange(Signal(f, n))
<1>1. /\ Signal(f, n).virtual_value =
           IF Applied(f, n) = {} THEN f.virtual_value ELSE LastApplied(f, n).virtual_value
      /\ Signal(f, n).pending_updates \subseteq f.pending_updates
  BY DEF Signal, UpdatePendingValue, Reach, FenceFields
<1>2. Applied(f, n) # {} => LastApplied(f, n) \in f.pending_updates
  BY LastAppliedIsApplied
<1> QED BY <1>1, <1>2 DEF ValuesInRange

LEMMA OtherOperatorsInRange ==
  ASSUME NEW f, DOMAIN f = FenceFields, ValuesInRange(f), NEW a
  PROVE  /\ InRange(a) => ValuesInRange(CpuSignal(f, a))
         /\ ValuesInRange(RegisterWait(f, a)) /\ ValuesInRange(ConsumeTicket(f, a))
         /\ InRange(a) => \A v, n : ValuesInRange(AddPendingSignal(f, a, v, n))
<1> USE DEF FenceFields
<1>1. /\ CpuSignal(f, a).virtual_value = a
      /\ CpuSignal(f, a).pending_updates = f.pending_updates
  BY DEF CpuSignal, UpdatePendingValue, Reach
<1>2. /\ RegisterWait(f, a).virtual_value = f.virtual_value
      /\ RegisterWait(f, a).pending_updates = f.pending_updates
  BY DEF RegisterWait
<1>3. /\ ConsumeTicket(f, a).virtual_value = f.virtual_value
      /\ ConsumeTicket(f, a).pending_updates = f.pending_updates
  BY DEF ConsumeTicket
<1>4. ASSUME NEW v, NEW n
      PROVE  LET g == AddPendingSignal(f, a, v, n) IN
             /\ g.virtual_value = f.virtual_value
             /\ \A u \in g.pending_updates : u \in f.pending_updates \/ u.virtual_value = a
  BY DEF AddPendingSignal, UpdatePendingValue, NextUpdate
<1> QED BY <1>1, <1>2, <1>3, <1>4 DEF ValuesInRange

LEMMA FenceInRange ==
  ASSUME IInv, FencesInRange, NEW f \in Fences, NEW g, ValuesInRange(g),
         fence' = [fence EXCEPT ![f] = g]
  PROVE  FencesInRange'
<1>1. \A h \in Fences : fence'[h] = IF h = f THEN g ELSE fence[h]
  BY DEF IInv, Shape
<1> QED BY <1>1 DEF FencesInRange, ValuesInRange, InRange

LEMMA ApplicationInRange ==
  ASSUME IInv, FencesInRange, ApplicationStep
  PROVE  FencesInRange'
<1>1. ASSUME fence' = fence PROVE FencesInRange'
  BY <1>1 DEF FencesInRange, ValuesInRange, InRange
<1>2. ASSUME NEW k \in program.waits_and_signals, QueueWait(k) PROVE FencesInRange'
  <2>1. k.fence \in Fences
    BY ProgramsAssumption DEF IInv, Shape, ProgramType
  <2>2. DOMAIN fence[k.fence] = FenceFields /\ ValuesInRange(fence[k.fence])
    BY <2>1 DEF IInv, Shape, FencesInRange
  <2>3. ValuesInRange(RegisterWait(fence[k.fence], k.value))
    BY <2>2, OtherOperatorsInRange
  <2> QED BY <1>2, <2>1, <2>3, FenceInRange DEF QueueWait
<1>3. ASSUME NEW f \in Fences, CpuSignalFence(f) \/ Release(f) PROVE FencesInRange'
  <2>1. PICK value : InRange(value) /\ fence' = [fence EXCEPT ![f] = CpuSignal(@, value)]
    <3>1. UINT64_MAX \in Nat
      BY ProgramsAssumption
    <3>2. \A k \in program.cpu_signals : InRange(k.value)
      <4>1. program \in ProgramType
        BY ProgramsAssumption DEF IInv, Shape
      <4> QED BY <3>1, <4>1 DEF ProgramType, InRange
    <3>3. InRange(UINT64_MAX)
      BY <3>1 DEF InRange
    <3> QED BY <1>3, <3>2, <3>3 DEF CpuSignalFence, Release
  <2>2. DOMAIN fence[f] = FenceFields /\ ValuesInRange(fence[f])
    BY DEF IInv, Shape, FencesInRange
  <2>3. ValuesInRange(CpuSignal(fence[f], value))
    BY <2>1, <2>2, OtherOperatorsInRange
  <2> QED BY <2>1, <2>3, FenceInRange
<1>4. ASSUME NEW c \in Queues, ExecuteCommandLists(c) \/ ReleaseQueue(c) PROVE fence' = fence
  BY <1>4 DEF ExecuteCommandLists, ReleaseQueue
<1>5. ASSUME NEW k \in program.waits_and_signals, QueueSignal(k) PROVE fence' = fence
  BY <1>5 DEF QueueSignal
<1> QED BY <1>1, <1>2, <1>3, <1>4, <1>5 DEF ApplicationStep

\* A SIGNAL carries the value of a call.
LEMMA SignalCalled ==
  ASSUME IInv, CallsAreOfProgram, NEW c \in Queues, Working(c, "signal")
  PROVE  InRange(Current(c).value)
<1>1. /\ Calls(c) # <<>> /\ IsSeq(Calls(c)) /\ Current(c) = Head(Calls(c))
      /\ Current(c).type = "signal"
  BY CallsOf DEF Working, Calls, Current
<1>2. 1 \in DOMAIN Calls(c) /\ Current(c) = Calls(c)[1]
  BY <1>1, TailElements
<1>3. PICK k \in program.waits_and_signals : k.value = Current(c).value
  BY <1>1, <1>2 DEF CallsAreOfProgram, IsOfProgram
<1>4. k.value \in 1..(UINT64_MAX - 1) /\ UINT64_MAX \in Nat
  BY ProgramsAssumption DEF IInv, Shape, ProgramType
<1> QED BY <1>3, <1>4 DEF InRange

LEMMA ThreadsInRange ==
  ASSUME IInv, HInv, CallsAreOfProgram, FencesInRange, NEW c \in Queues,
         Resolution(c) \/ Signals(c) \/ FenceWorker(c)
  PROVE  FencesInRange'
<1>1. ASSUME fence' = fence PROVE FencesInRange'
  BY <1>1 DEF FencesInRange, ValuesInRange, InRange
<1>2. \A f \in Fences : DOMAIN fence[f] = FenceFields /\ ValuesInRange(fence[f])
  BY DEF IInv, Shape, FencesInRange
<1>3. CASE Resolution(c)
  <2>1. PICK f \in Fences : fence' = [fence EXCEPT ![f] = ConsumeTicket(@, Current(c).ticket)]
    BY <1>3, ResolutionEffect DEF Resolution
  <2>2. ValuesInRange(ConsumeTicket(fence[f], Current(c).ticket))
    BY <1>2, OtherOperatorsInRange
  <2> QED BY <2>1, <2>2, FenceInRange
<1>4. CASE Signals(c)
  <2>1. PICK f \in Fences :
          /\ Working(c, "signal")
          /\ fence' = [fence EXCEPT ![f] = AddPendingSignal(@, Current(c).value, VkQueueOf[c], Last(c))]
    BY <1>4, SignalsEffect
  <2>2. InRange(Current(c).value)
    BY <2>1, SignalCalled
  <2>3. ValuesInRange(AddPendingSignal(fence[f], Current(c).value, VkQueueOf[c], Last(c)))
    BY <1>2, <2>2, OtherOperatorsInRange
  <2> QED BY <2>1, <2>3, FenceInRange
<1>5. CASE SignalsFence(c)
  <2>1. PICK item : item = Head(Worker(c))
    OBVIOUS
  <2>2. /\ Worker(c) # <<>> /\ item.kind = "signal"
        /\ fence' = [fence EXCEPT ![item.fence] = Signal(@, item.update_count)]
    BY <1>5, <2>1, FenceWorkerEffect DEF SignalsFence, Worker
  <2>3. 1 \in DOMAIN Worker(c) /\ item = Worker(c)[1]
    BY <2>1, <2>2, WorkersAreSequences, TailElements
  <2>4. IsScheduled(item.fence, item.update_count)
    BY <2>2, <2>3 DEF HInv, QueuesReferToUpdates
  <2>5. item.fence \in Fences
    BY <2>4 DEF IsScheduled
  <2>6. PICK m : m = fence[item.fence].update_count
    OBVIOUS
  <2>7. m \in Nat /\ \A u \in fence[item.fence].pending_updates : u.update_count \in 0..m
    <3>1. m \in Nat
      BY <2>5, <2>6, AppendElements DEF HInv, HistoryShape
    <3>2. \A u \in fence[item.fence].pending_updates : u.update_count \in 1..m
      BY <2>5, <2>6 DEF HInv, HistoryShape, IsScheduled
    <3> QED BY <3>1, <3>2
  <2>8. ValuesInRange(Signal(fence[item.fence], item.update_count))
    BY <1>2, <2>5, <2>7, SignalInRange
  <2> QED BY <2>2, <2>5, <2>8, FenceInRange
<1>6. CASE EnsuresOrder(c) \/ DropsSignal(c) \/ ReleasesSubmission(c)
  BY <1>1, <1>6 DEF EnsuresOrder, DropsSignal, ReleasesSubmission
<1> QED BY <1>3, <1>4, <1>5, <1>6 DEF FenceWorker

\* Work that is submitted is new work of the queue.
LEMMA SubmissionIsWork ==
  ASSUME IInv, HInv, SubmittedIsWork, DoneIsWork, NEW c \in Queues, NEW work,
         SubmitWork(c, work), IsNewWork(c, work), done' = done
  PROVE  SubmittedIsWork' /\ DoneIsWork'
<1> DEFINE v == VkQueueOf[c]
           s == [value |-> Count(v) + 1, work |-> work, waits |-> RemainingWaits(Waits(c))]
<1>1. /\ v \in VkQueues /\ Submitted(v)' = Append(Submitted(v), s)
      /\ \A x \in VkQueues \ {v} : vk_queue'[x] = vk_queue[x]
  BY SubmitEffect
<1>2. /\ \A e : IsWork(e) => IsWork(e)'
      /\ \A e \in work : IsWork(e)'
  BY NewWork
<1>3. \A e \in s.work : IsWork(e)'
  BY <1>2
<1> HIDE DEF v, s
<1>4. IsSeq(Submitted(v))
  BY <1>1 DEF IInv, Shape, Submitted
<1>5. \A i \in DOMAIN Submitted(v)' :
        Submitted(v)'[i] = s \/ \E j \in DOMAIN Submitted(v) : Submitted(v)'[i] = Submitted(v)[j]
  BY <1>1, <1>4, AppendedElement
<1>6. ASSUME NEW x \in VkQueues, NEW i \in DOMAIN Submitted(x)', NEW e \in Submitted(x)'[i].work
      PROVE  IsWork(e)'
  <2>1. CASE x = v
    <3>1. \/ e \in s.work
          \/ \E j \in DOMAIN Submitted(v) : e \in Submitted(v)[j].work
      BY <1>5, <1>6, <2>1
    <3> QED BY <1>1, <1>2, <1>3, <3>1 DEF SubmittedIsWork
  <2>2. CASE x # v
    <3>1. Submitted(x)' = Submitted(x)
      BY <1>1, <2>2 DEF Submitted
    <3> QED BY <1>2, <1>6, <3>1 DEF SubmittedIsWork
  <2> QED BY <2>1, <2>2
<1>7. SubmittedIsWork'
  BY <1>6 DEF SubmittedIsWork
<1> QED BY <1>2, <1>7 DEF DoneIsWork

LEMMA GpuWork ==
  ASSUME IInv, HInv, SubmittedIsWork, DoneIsWork, NEW v \in VkQueues, Gpu(v)
  PROVE  SubmittedIsWork' /\ DoneIsWork'
<1>1. PICK s :
        /\ 1 \in DOMAIN Submitted(v) /\ s = Submitted(v)[1]
        /\ DOMAIN Submitted(v)' = 1..(Len(Submitted(v)) - 1)
        /\ DOMAIN Submitted(v) = 1..Len(Submitted(v)) /\ Len(Submitted(v)) \in Nat \ {0}
        /\ \A i \in 1..(Len(Submitted(v)) - 1) : Submitted(v)'[i] = Submitted(v)[i + 1]
        /\ \A x \in VkQueues \ {v} : vk_queue'[x] = vk_queue[x]
        /\ done' = done \cup s.work
        /\ before' = before
  BY GpuEffect
<1>2. \A e : IsWork(e)' <=> IsWork(e)
  BY <1>1 DEF IsWork
<1>3. \A i \in DOMAIN Submitted(v)' : \E j \in DOMAIN Submitted(v) : Submitted(v)'[i] = Submitted(v)[j]
  BY <1>1
<1>4. SubmittedIsWork'
  <2> SUFFICES ASSUME NEW x \in VkQueues, NEW i \in DOMAIN Submitted(x)',
                      NEW e \in Submitted(x)'[i].work
               PROVE  IsWork(e)
    BY <1>2 DEF SubmittedIsWork
  <2>1. \E j \in DOMAIN Submitted(x) : Submitted(x)'[i] = Submitted(x)[j]
    BY <1>1, <1>3 DEF Submitted
  <2> QED BY <2>1 DEF SubmittedIsWork
<1>5. \A e \in s.work : IsWork(e)
  BY <1>1 DEF SubmittedIsWork
<1> QED BY <1>1, <1>2, <1>4, <1>5 DEF DoneIsWork

LEMMA InitVInv ==
  ASSUME Init PROVE VInv
<1>1. 0 \in 0..UINT64_MAX
  BY ProgramsAssumption
<1>2. \A f \in Fences : fence[f].virtual_value = 0 /\ fence[f].pending_updates = {}
  BY DEF Init, NewFence
<1>3. \A v \in VkQueues : Submitted(v) = <<>>
  BY DEF Init, NewVkQueue, Submitted
<1> QED BY <1>1, <1>2, <1>3
        DEF Init, VInv, FencesInRange, ValuesInRange, InRange, SubmittedIsWork, DoneIsWork

LEMMA NextVInv ==
  ASSUME IInv, device_lost \/ HInv, device_lost \/ (CallsAreOfProgram /\ VInv), [Next]_vars
  PROVE  device_lost' \/ (CallsAreOfProgram /\ VInv)'
<1> SUFFICES ASSUME ~device_lost' PROVE CallsAreOfProgram' /\ VInv'
  OBVIOUS
<1>1. ~device_lost /\ HInv /\ CallsAreOfProgram /\ FencesInRange /\ SubmittedIsWork /\ DoneIsWork
  BY StepsWhileDeviceWorks DEF VInv
<1>2. CallsAreOfProgram'
  BY <1>1, CallsStep
<1>3. ASSUME fence' = fence PROVE FencesInRange'
  BY <1>1, <1>3 DEF FencesInRange, ValuesInRange, InRange
<1>4. ASSUME UNCHANGED <<vk_queue, before, done>> PROVE SubmittedIsWork' /\ DoneIsWork'
  BY <1>1, <1>4 DEF SubmittedIsWork, DoneIsWork, IsWork, Submitted
<1>5. CASE ApplicationStep \/ UNCHANGED vars \/ \E c \in Queues : CallEnds(c)
  <2>1. UNCHANGED <<vk_queue, before, done>>
    BY <1>5, CalmSteps
  <2>2. ApplicationStep \/ fence' = fence
    BY <1>5 DEF vars, CallEnds, WaitSatisfied, CpuWaitReturns, Stops, FreesQueue
  <2>3. FencesInRange'
    BY <1>1, <1>3, <2>2, ApplicationInRange
  <2> QED BY <1>2, <1>4, <2>1, <2>3 DEF VInv
<1>6. ASSUME NEW c \in Queues, Resolution(c) \/ Signals(c) \/ FenceWorker(c) PROVE VInv'
  <2>1. FencesInRange'
    BY <1>1, <1>6, ThreadsInRange
  <2>2. UNCHANGED <<vk_queue, before, done>>
    <3>1. CASE Resolution(c)
      <4>1. \E u : Resolves(c, u)
        BY <3>1 DEF Resolution, WaitOnSameVkQueue, WaitIsDeferred, WaitOnCpu
      <4> QED BY <4>1 DEF Resolves, gpu
    <3>2. CASE Signals(c)
      BY <3>2 DEF Signals, gpu
    <3>3. CASE FenceWorker(c)
      BY <3>3 DEF FenceWorker, EnsuresOrder, SignalsFence, DropsSignal, ReleasesSubmission,
                  NextItem, gpu, history
    <3> QED BY <1>6, <3>1, <3>2, <3>3
  <2> QED BY <1>4, <2>1, <2>2 DEF VInv
<1>7. ASSUME NEW c \in Queues, FlushWaiters(c) PROVE VInv'
  <2>1. /\ UNCHANGED gpu \/ SubmitWork(c, {})
        /\ UNCHANGED <<fence, history>>
    BY <1>7, FlushEffect
  <2>2. CASE UNCHANGED gpu
    BY <1>3, <1>4, <2>1, <2>2 DEF gpu, history, VInv
  <2>3. CASE SubmitWork(c, {})
    <3>1. IsNewWork(c, {}) /\ done' = done
      BY <2>1 DEF IsNewWork, history
    <3> QED BY <1>1, <1>3, <2>1, <2>3, <3>1, SubmissionIsWork DEF VInv
  <2> QED BY <2>1, <2>2, <2>3
<1>8. ASSUME NEW c \in Queues, Execute(c) PROVE VInv'
  <2>1. /\ SubmitWork(c, {NextWork(c)}) /\ IsNewWork(c, {NextWork(c)})
        /\ fence' = fence /\ done' = done
    BY <1>8, ExecuteEffect DEF IsNewWork
  <2> QED BY <1>1, <1>3, <2>1, SubmissionIsWork DEF VInv
<1>9. ASSUME NEW v \in VkQueues, Gpu(v) PROVE VInv'
  <2>1. fence' = fence
    BY <1>9 DEF Gpu
  <2> QED BY <1>1, <1>3, <1>9, <2>1, GpuWork DEF VInv
<1>10. ASSUME NEW c \in Queues,
              CallEnds(c) \/ Resolution(c) \/ FlushWaiters(c) \/ Execute(c)
                \/ Signals(c) \/ FenceWorker(c)
       PROVE  VInv'
  <2>1. CASE CallEnds(c)
    BY <1>5, <2>1
  <2>2. CASE Resolution(c) \/ Signals(c) \/ FenceWorker(c)
    BY <1>6, <2>2
  <2>3. CASE FlushWaiters(c)
    BY <1>7, <2>3
  <2>4. CASE Execute(c)
    BY <1>8, <2>4
  <2> QED BY <1>10, <2>1, <2>2, <2>3, <2>4
<1>11. CASE ApplicationStep \/ UNCHANGED vars
  BY <1>5, <1>11
<1>12. VInv'
  <2>1. \/ ApplicationStep \/ UNCHANGED vars
        \/ \E c \in Queues : \/ CallEnds(c) \/ Resolution(c) \/ FlushWaiters(c) \/ Execute(c)
                             \/ Signals(c) \/ FenceWorker(c)
        \/ \E v \in VkQueues : Gpu(v)
    BY StepsWhileDeviceWorks
  <2> QED BY ONLY <1>9, <1>10, <1>11, <2>1
<1> QED BY <1>2, <1>12

RefsAreTabled == refcount_internal = [f \in Fences |-> refcount_internal[f]]

\* Every step counts references fence by fence.
LEMMA NextRefsAreTabled ==
  ASSUME RefsAreTabled, [Next]_vars PROVE RefsAreTabled'
<1>1. ASSUME NEW g, NEW n, refcount_internal' = [refcount_internal EXCEPT ![g] = n]
      PROVE  RefsAreTabled'
  BY <1>1 DEF RefsAreTabled
<1>2. ASSUME UNCHANGED refcount_internal PROVE RefsAreTabled'
  BY <1>2 DEF RefsAreTabled
<1>3. CASE ApplicationStep \/ UNCHANGED vars \/ LoseDevice
  BY <1>1, <1>2, <1>3 DEF ApplicationStep, ExecuteCommandLists, ReleaseQueue, QueueWait, QueueSignal,
                          CpuSignalFence, Release, LoseDevice, refs, vars
<1>4. ASSUME NEW c \in Queues, SubmissionThread(c) PROVE RefsAreTabled'
  <2>1. CASE FlushFails(c) \/ ExecuteFails(c)
    BY <2>1 DEF FlushFails, ExecuteFails, SubmissionFails, RefsAreTabled
  <2>2. CASE WaitSatisfied(c) \/ WaitOnCpu(c) \/ CpuWaitReturns(c)
    BY <1>1, <2>2 DEF WaitSatisfied, WaitOnCpu, CpuWaitReturns, DecRef
  <2>3. CASE \/ WaitOnSameVkQueue(c) \/ WaitIsDeferred(c) \/ FlushWaiters(c) \/ Signals(c)
             \/ Execute(c) \/ Stops(c)
    BY <1>2, <2>3 DEF WaitOnSameVkQueue, WaitIsDeferred, FlushWaiters, Signals, Execute, Stops, refs
  <2> QED BY <1>4, <2>1, <2>2, <2>3 DEF SubmissionThread
<1>5. ASSUME NEW c \in Queues, FenceWorker(c) \/ FreesQueue(c) PROVE RefsAreTabled'
  BY <1>1, <1>2, <1>5 DEF FenceWorker, EnsuresOrder, SignalsFence, DropsSignal, ReleasesSubmission,
                          DecRef, FreesQueue, refs
<1>6. ASSUME NEW v \in VkQueues, Gpu(v) PROVE RefsAreTabled'
  BY <1>2, <1>6 DEF Gpu, refs
<1> QED BY <1>3, <1>4, <1>5, <1>6 DEF Next, ApplicationStep

\* The shape of all structures follows from the invariants together.
LEMMA StructuresAreWhole ==
  ASSUME IInv, HInv, RInv, VInv, RefsAreTabled
  PROVE  TypeOK
<1>1. ASSUME NEW f \in Fences
      PROVE  /\ fence[f].virtual_value \in 0..UINT64_MAX
             /\ fence[f].signal_count \in 0..fence[f].update_count
             /\ Len(followed[f]) = fence[f].update_count
  BY DEF VInv, FencesInRange, ValuesInRange, InRange, HInv, HistoryShape
<1>2. refcount_internal \in [Fences -> Nat] /\ released \subseteq Fences
  <2>1. \A f \in Fences : refcount_internal[f] \in Nat
    BY RefsAreNumbers DEF IInv
  <2>2. refcount_internal \in [Fences -> Nat]
    BY <2>1 DEF RefsAreTabled
  <2> QED BY <2>2 DEF RInv
<1>3. ASSUME NEW c \in Queues
      PROVE  /\ queue[c].pc \in {"ready", "cpu_wait", "flushed", "ended", "freed"}
             /\ queue[c].last_submission \in 0..vk_queue[VkQueueOf[c]].submission_timeline_count
             /\ queue[c].pc \in {"cpu_wait", "flushed"} => queue[c].submissions # <<>>
             /\ queue[c].pc \in {"ended", "freed"} => ~queue[c].open
  BY DEF RInv, QueueOk, IInv, Shape, QueueShape, QueuesOnTheirWay, OnItsWay, Count
<1>4. ASSUME NEW v \in VkQueues
      PROVE  vk_queue[v].completed \in 0..vk_queue[v].submission_timeline_count
  <2>1. /\ Reached(v) \in Nat /\ Count(v) = Reached(v) + Len(Submitted(v))
    BY DEF HInv, Timeline
  <2>2. Len(Submitted(v)) \in Nat
    BY AppendElements DEF IInv, Shape, Submitted
  <2> QED BY <2>1, <2>2 DEF Reached, Count
<1>5. ASSUME NEW w \in done PROVE w[1] \in Queues /\ w[2] \in DOMAIN before[w[1]]
  BY DEF VInv, DoneIsWork, IsWork
<1> QED BY <1>1, <1>2, <1>3, <1>4, <1>5 DEF TypeOK

\* As long as the device works and one command queue signals a fence, what the
\* CPU sees of the queues is whole and in order: no value, count, reference or
\* state of a thread leaves its range, and no signal is seen before one that it
\* follows (ensure_fence_signal_order, push_fence_waits_to_worker).
THEOREM FencesInOrder == OneSignaller => (Spec => [](device_lost \/ FencesKeepOrder))
<1>1. Init => device_lost \/ (CallsAreOfProgram /\ VInv)
  BY InitOInv, InitVInv
<1>2. IInv /\ (device_lost \/ HInv) /\ (device_lost \/ (CallsAreOfProgram /\ VInv)) /\ [Next]_vars
        => (device_lost \/ (CallsAreOfProgram /\ VInv))'
  BY NextVInv
<1>3. Spec => [](device_lost \/ (CallsAreOfProgram /\ VInv))
  BY <1>1, <1>2, HistoryInvariance, PTL DEF Spec
<1>4. IInv /\ RInv /\ HInv /\ VInv /\ RefsAreTabled /\ SignalsKeepOrder => FencesKeepOrder
  BY StructuresAreWhole DEF FencesKeepOrder
<1> SUFFICES ASSUME OneSignaller PROVE Spec => [](device_lost \/ FencesKeepOrder)
  OBVIOUS
<1>5. Spec => [](device_lost \/ SignalsKeepOrder)
  BY SignalOrderCorrect
<1>6. Init => RefsAreTabled
  BY DEF Init, RefsAreTabled
<1>7. Spec => []RefsAreTabled
  BY <1>6, NextRefsAreTabled, PTL DEF Spec
<1> QED BY <1>3, <1>4, <1>5, <1>7, HistoryInvariance, ReferencesInvariance, PTL
=============================================================================
